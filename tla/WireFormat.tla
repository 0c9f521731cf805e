----------------------------- MODULE WireFormat -----------------------------
(***************************************************************************)
(* The packet of src/src/packet.c as bytes, and the lengths a message goes *)
(* through from the keyboard to the screen of another node: vex_mesh_send, *)
(* vex_crypto_encrypt_broadcast, vex_packet_encode, the two bytes of the   *)
(* frame header, vex_packet_decode, vex_crypto_decrypt_broadcast.  Of the  *)
(* cipher only the lengths are kept: secretbox adds a tag of BOXZEROBYTES  *)
(* bytes, and opening fails on anything shorter than the tag.              *)
(***************************************************************************)
EXTENDS Integers, Sequences

CONSTANTS
    MaxPacket,      \* VEX_MAX_PACKET, 512
    Reserve,        \* what vex_mesh_send leaves free in the payload, 100
    NonceBytes,     \* crypto_secretbox_NONCEBYTES, 24
    TagBytes        \* crypto_secretbox_ZEROBYTES - crypto_secretbox_BOXZEROBYTES, 16

IdSize == 8
HeaderSize == 11    \* VEX_HEADER_SIZE: version, id, TTL, flags
Version == 1        \* VEX_VERSION
MaxPayload == MaxPacket - HeaderSize

ASSUME WireAssumption ==
    /\ MaxPacket \in Nat /\ Reserve \in Nat /\ NonceBytes \in Nat /\ TagBytes \in Nat
    /\ MaxPacket < 65536                    \* len and payload_len are uint16_t
    /\ 0 < TagBytes /\ NonceBytes + TagBytes <= Reserve
    /\ Reserve <= MaxPayload

Byte == 0 .. 255

Failed == -1        \* the error return of the functions below

(***************************************************************************)
(* vex_packet_t and its wire form.                                         *)
(***************************************************************************)
VexPacket ==
    [version : {Version}, packet_id : [1 .. IdSize -> Byte], ttl : Byte, flags : Byte,
     payload : {s \in Seq(Byte) : Len(s) <= MaxPayload}]

\* vex_packet_encode into a buffer of MaxPacket bytes
Encode(pkt) ==
    <<pkt.version>> \o pkt.packet_id \o <<pkt.ttl, pkt.flags>> \o pkt.payload

\* The payload_len of len bytes: a uint16_t.
PayloadLen(len) == (len - HeaderSize) % 65536

\* When vex_packet_decode succeeds on buf.
Decodes(buf) ==
    /\ Len(buf) >= HeaderSize
    /\ buf[1] = Version
    /\ PayloadLen(Len(buf)) <= MaxPayload

Decode(buf) ==
    [version |-> buf[1],
     packet_id |-> SubSeq(buf, 2, IdSize + 1),
     ttl |-> buf[IdSize + 2],
     flags |-> buf[IdSize + 3],
     payload |-> SubSeq(buf, HeaderSize + 1, HeaderSize + PayloadLen(Len(buf)))]

\* What vex_mesh_relay writes for buf, when the TTL of buf is above 1.
Relayed(buf) == LET pkt == Decode(buf) IN Encode([pkt EXCEPT !.ttl = @ - 1])

(***************************************************************************)
(* Lengths.                                                                *)
(***************************************************************************)
\* What vex_mesh_send accepts.
Sendable(len) == len <= MaxPayload - Reserve

\* cipher_len of vex_crypto_encrypt_broadcast
CipherLenBare(len) == (NonceBytes + len) % 65536        \* mutant: no tag
CipherLen(len) ==
    IF len > MaxPayload - NonceBytes - TagBytes
      THEN Failed
      ELSE (NonceBytes + len + TagBytes) % 65536

\* What vex_packet_encode returns.
EncodedLen(payloadLen) ==
    IF HeaderSize + payloadLen > MaxPacket THEN Failed ELSE HeaderSize + payloadLen

\* plain_len of vex_crypto_decrypt_broadcast
PlainLen(len) ==
    IF len <= NonceBytes \/ len - NonceBytes < TagBytes
      THEN Failed
      ELSE (len - NonceBytes) - TagBytes

\* The length of the frame for a message, and of the message shown for a frame.
WireLen(len) == IF CipherLen(len) = Failed THEN Failed ELSE EncodedLen(CipherLen(len))

ShownLen(wireLen) ==
    IF wireLen < HeaderSize \/ wireLen > MaxPacket THEN Failed
    ELSE PlainLen(PayloadLen(wireLen))

(* The two header bytes of vex_transport_send_to_peer, and what            *)
(* vex_transport_unix_read makes of them.                                  *)
FrameHeader(len) == <<(len \div 256) % 256, len % 256>>

HeaderLen(header) == header[1] * 256 + header[2]

=============================================================================
