--------------------------- MODULE VexNodeProofs ---------------------------
(***************************************************************************)
(* The node: the packets and lengths of WireFormat, for any sizes that the *)
(* code could be built with; then the process of VexNode, for any slots,   *)
(* lines and remote ends.                                                  *)
(***************************************************************************)
EXTENDS VexNode, SequenceTheorems, TLAPS

(***************************************************************************)
(* WireFormat: packets and lengths.                                        *)
(***************************************************************************)
\* A uint16_t keeps what fits.
LEMMA ModSmall ==
  ASSUME NEW n \in Nat, n < 65536
  PROVE  n % 65536 = n
  BY SMT

\* Two ranges from 1 are equal only if their ends are.
LEMMA SameRange ==
  ASSUME NEW m \in Nat, NEW n \in Nat, 1 .. m = 1 .. n
  PROVE  m = n
  <1>1. \A i \in Nat \ {0} : i <= m <=> i <= n
    <2>1. \A i \in Nat \ {0} : (i \in 1 .. m <=> i <= m) /\ (i \in 1 .. n <=> i <= n)
      OBVIOUS
    <2> QED
      BY <2>1
  <1>2. m # 0 => m <= n
    BY <1>1
  <1>3. n # 0 => n <= m
    BY <1>1
  <1> QED
    BY <1>2, <1>3

\* Where the elements of s and t are in s \o t.
LEMMA Concat ==
  ASSUME NEW s \in Seq(Int), NEW t \in Seq(Int)
  PROVE  /\ s \o t \in Seq(Int)
         /\ Len(s \o t) = Len(s) + Len(t)
         /\ \A i \in 1 .. Len(s) : (s \o t)[i] = s[i]
         /\ \A i \in 1 .. Len(t) : (s \o t)[Len(s) + i] = t[i]
  OBVIOUS

\* Sequences of one and two elements.
LEMMA Pair ==
  ASSUME NEW a \in Int, NEW b \in Int
  PROVE  /\ <<a>> \in Seq(Int) /\ Len(<<a>>) = 1 /\ <<a>>[1] = a
         /\ <<a, b>> \in Seq(Int) /\ Len(<<a, b>>) = 2
         /\ <<a, b>>[1] = a /\ <<a, b>>[2] = b
  OBVIOUS

\* The parts of a packet.
LEMMA Parts ==
  ASSUME NEW pkt \in VexPacket
  PROVE  /\ pkt.version = Version
         /\ pkt.packet_id \in Seq(Int) /\ Len(pkt.packet_id) = IdSize
         /\ pkt.ttl \in Int /\ pkt.flags \in Int
         /\ pkt.payload \in Seq(Int) /\ Len(pkt.payload) \in 0 .. MaxPayload
  <1>1. /\ pkt.version = Version /\ pkt.packet_id \in [1 .. IdSize -> Byte]
        /\ pkt.ttl \in Byte /\ pkt.flags \in Byte
        /\ pkt.payload \in Seq(Byte) /\ Len(pkt.payload) <= MaxPayload
    BY DEF VexPacket
  <1>2. Byte \subseteq Int
    BY DEF Byte
  <1>3. pkt.packet_id \in Seq(Byte)
    BY <1>1, SeqDef DEF IdSize
  <1>4. DOMAIN pkt.packet_id = 1 .. IdSize
    BY <1>1
  <1>5. Len(pkt.packet_id) = IdSize
    <2>1. Len(pkt.packet_id) \in Nat /\ 1 .. Len(pkt.packet_id) = 1 .. 8
      BY <1>3, <1>4, LenProperties DEF IdSize
    <2> QED
      BY <2>1, SameRange DEF IdSize
  <1>6. pkt.packet_id \in Seq(Int) /\ pkt.payload \in Seq(Int)
    BY <1>1, <1>2, <1>3, SeqMonotonic
  <1>7. Len(pkt.payload) \in 0 .. MaxPayload
    <2>1. Len(pkt.payload) \in Nat
      BY <1>1, LenProperties
    <2>2. MaxPayload \in Int
      BY WireAssumption DEF MaxPayload, HeaderSize
    <2> QED
      BY <1>1, <2>1, <2>2
  <1>8. pkt.ttl \in Int /\ pkt.flags \in Int
    BY <1>1, <1>2
  <1> QED
    BY <1>1, <1>5, <1>6, <1>7, <1>8

\* Where the parts of an encoded packet are.
LEMMA Layout ==
  ASSUME NEW pkt \in VexPacket
  PROVE  /\ Encode(pkt) \in Seq(Int)
         /\ Len(Encode(pkt)) = HeaderSize + Len(pkt.payload)
         /\ Encode(pkt)[1] = pkt.version
         /\ \A i \in 1 .. IdSize : Encode(pkt)[i + 1] = pkt.packet_id[i]
         /\ Encode(pkt)[IdSize + 2] = pkt.ttl
         /\ Encode(pkt)[IdSize + 3] = pkt.flags
         /\ \A i \in 1 .. Len(pkt.payload) : Encode(pkt)[HeaderSize + i] = pkt.payload[i]
  <1> DEFINE v == <<pkt.version>>
             a == v \o pkt.packet_id
             tf == <<pkt.ttl, pkt.flags>>
             b == a \o tf
             e == b \o pkt.payload
  <1>1. v \in Seq(Int) /\ Len(v) = 1 /\ v[1] = pkt.version
    BY Parts, Pair DEF Version
  <1>2. tf \in Seq(Int) /\ Len(tf) = 2 /\ tf[1] = pkt.ttl /\ tf[2] = pkt.flags
    BY Parts, Pair
  <1>3. e = Encode(pkt)
    BY DEF Encode
  <1> HIDE DEF v, tf
  <1>4. /\ a \in Seq(Int) /\ Len(a) = 9 /\ a[1] = v[1]
        /\ \A i \in 1 .. 8 : a[1 + i] = pkt.packet_id[i]
    <2>1. /\ a \in Seq(Int) /\ Len(a) = Len(v) + Len(pkt.packet_id)
          /\ \A i \in 1 .. Len(v) : a[i] = v[i]
          /\ \A i \in 1 .. Len(pkt.packet_id) : a[Len(v) + i] = pkt.packet_id[i]
      BY <1>1, Parts, Concat
    <2>2. Len(pkt.packet_id) = 8
      BY Parts DEF IdSize
    <2> HIDE DEF a
    <2> QED
      BY <1>1, <2>1, <2>2
  <1> HIDE DEF a
  <1>5. /\ b \in Seq(Int) /\ Len(b) = 11
        /\ \A i \in 1 .. 9 : b[i] = a[i]
        /\ b[10] = tf[1] /\ b[11] = tf[2]
    <2>1. /\ b \in Seq(Int) /\ Len(b) = Len(a) + Len(tf)
          /\ \A i \in 1 .. Len(a) : b[i] = a[i]
          /\ \A i \in 1 .. Len(tf) : b[Len(a) + i] = tf[i]
      BY <1>2, <1>4, Concat
    <2> HIDE DEF b
    <2> QED
      BY <1>2, <1>4, <2>1
  <1> HIDE DEF b
  <1>6. /\ e \in Seq(Int) /\ Len(e) = 11 + Len(pkt.payload)
        /\ \A i \in 1 .. 11 : e[i] = b[i]
        /\ \A i \in 1 .. Len(pkt.payload) : e[11 + i] = pkt.payload[i]
    <2>1. /\ e \in Seq(Int) /\ Len(e) = Len(b) + Len(pkt.payload)
          /\ \A i \in 1 .. Len(b) : e[i] = b[i]
          /\ \A i \in 1 .. Len(pkt.payload) : e[Len(b) + i] = pkt.payload[i]
      <3>1. pkt.payload \in Seq(Int)
        BY Parts
      <3> QED
        BY <1>5, <3>1, Concat
    <2> HIDE DEF e
    <2> QED
      BY <1>5, <2>1
  <1> HIDE DEF e
  <1>7. e[1] = v[1] /\ e[10] = tf[1] /\ e[11] = tf[2]
    <2>1. e[1] = b[1] /\ e[10] = b[10] /\ e[11] = b[11]
      BY <1>6
    <2>2. b[1] = a[1]
      BY <1>5
    <2> QED
      BY <1>4, <1>5, <2>1, <2>2
  <1>8. ASSUME NEW i \in 1 .. 8
        PROVE  e[i + 1] = pkt.packet_id[i]
    <2>1. 1 + i \in 1 .. 9 /\ 1 + i \in 1 .. 11 /\ 1 + i = i + 1
      OBVIOUS
    <2>2. e[1 + i] = b[1 + i] /\ b[1 + i] = a[1 + i]
      BY <1>5, <1>6, <2>1
    <2>3. a[1 + i] = pkt.packet_id[i]
      BY <1>4
    <2> QED
      BY <2>1, <2>2, <2>3
  <1>9. IdSize = 8 /\ HeaderSize = 11 /\ IdSize + 2 = 10 /\ IdSize + 3 = 11
    BY DEF IdSize, HeaderSize
  <1> QED
    BY <1>1, <1>2, <1>3, <1>6, <1>7, <1>8, <1>9

\* payload_len does not wrap for a frame of the maximum length.
LEMMA PayloadLenIsLen ==
  ASSUME NEW n \in 0 .. MaxPayload
  PROVE  PayloadLen(HeaderSize + n) = n
  <1>1. n \in Nat /\ n < 65536 /\ (HeaderSize + n) - HeaderSize = n
    BY WireAssumption DEF HeaderSize, MaxPayload
  <1> QED
    BY <1>1, ModSmall DEF PayloadLen

(* Decoding undoes encoding (packet.c:23 and packet.c:42): what a node     *)
(* puts on the wire is accepted and understood by every other node.        *)
THEOREM DecodeEncode ==
  ASSUME NEW pkt \in VexPacket
  PROVE  Decodes(Encode(pkt)) /\ Decode(Encode(pkt)) = pkt
  <1> DEFINE e == Encode(pkt)
             n == Len(pkt.payload)
  <1>1. n \in 0 .. MaxPayload
    BY Parts
  <1>2. Len(e) = HeaderSize + n /\ PayloadLen(Len(e)) = n
    BY <1>1, Layout, PayloadLenIsLen
  <1>3. Decodes(e)
    <2>1. e[1] = pkt.version
      BY Layout
    <2> HIDE DEF e, n
    <2> QED
      BY <1>1, <1>2, <2>1, Parts DEF Decodes, HeaderSize
  <1>4. SubSeq(e, 2, IdSize + 1) = pkt.packet_id
    <2> DEFINE s == SubSeq(e, 2, IdSize + 1)
    <2>1. s = [i \in 1 .. IdSize |-> e[i + 1]]
      BY Layout, <1>1, <1>2 DEF IdSize, HeaderSize
    <2>2. pkt.packet_id = [i \in 1 .. IdSize |-> pkt.packet_id[i]]
      BY DEF VexPacket
    <2> QED
      BY <2>1, <2>2, Layout
  <1>5. SubSeq(e, HeaderSize + 1, HeaderSize + n) = pkt.payload
    <2> DEFINE s == SubSeq(e, HeaderSize + 1, HeaderSize + n)
    <2>1. s = [i \in 1 .. n |-> e[HeaderSize + i]]
      BY Layout, <1>1, <1>2 DEF HeaderSize
    <2>2. pkt.payload = [i \in 1 .. n |-> pkt.payload[i]]
      BY <1>1 DEF VexPacket
    <2> QED
      BY <2>1, <2>2, Layout
  <1>6. Decode(e) = [version |-> pkt.version, packet_id |-> pkt.packet_id, ttl |-> pkt.ttl,
                     flags |-> pkt.flags, payload |-> pkt.payload]
    BY <1>2, <1>4, <1>5, Layout DEF Decode
  <1>7. pkt = [version |-> pkt.version, packet_id |-> pkt.packet_id, ttl |-> pkt.ttl,
               flags |-> pkt.flags, payload |-> pkt.payload]
    BY DEF VexPacket
  <1> QED
    BY <1>3, <1>6, <1>7

\* What Decode makes of a frame it accepts, byte by byte.
LEMMA DecodedPacket ==
  ASSUME NEW bytes \in Seq(Byte), Len(bytes) <= MaxPacket, Decodes(bytes)
  PROVE  /\ Decode(bytes) \in VexPacket
         /\ Len(bytes) = 11 + Len(Decode(bytes).payload)
         /\ \A i \in 1 .. 8 : Decode(bytes).packet_id[i] = bytes[i + 1]
         /\ \A i \in 1 .. Len(Decode(bytes).payload) : Decode(bytes).payload[i] = bytes[11 + i]
  <1> DEFINE n == Len(bytes) - 11
             id == SubSeq(bytes, 2, 9)
             k == 11 + n
             pl == SubSeq(bytes, 12, k)
  <1>1. n \in Nat /\ Len(bytes) = 11 + n /\ n \in 0 .. MaxPayload
    <2>1. Len(bytes) \in Nat /\ Len(bytes) >= 11
      BY LenProperties DEF Decodes, HeaderSize
    <2> QED
      BY <2>1, WireAssumption DEF MaxPayload, HeaderSize
  <1>2. \A i \in 1 .. Len(bytes) : bytes[i] \in Byte
    BY ElementOfSeq
  <1>3. PayloadLen(Len(bytes)) = n
    BY <1>1, PayloadLenIsLen DEF HeaderSize
  <1> HIDE DEF n
  <1>0. k \in Int /\ k = Len(bytes)
    BY <1>1
  <1> HIDE DEF k
  <1>4. /\ id \in Seq(Byte) /\ Len(id) = 8
        /\ \A i \in 1 .. 8 : id[i] = bytes[i + 1]
    <2>1. /\ id \in Seq(Byte)
          /\ Len(id) = IF 2 <= 9 THEN 9 - 2 + 1 ELSE 0
          /\ \A i \in 1 .. 9 - 2 + 1 : id[i] = bytes[2 + i - 1]
      <3>1. \A i \in 2 .. 9 : bytes[i] \in Byte
        BY <1>1, <1>2
      <3> QED
        BY <3>1, SubSeqProperties
    <2> HIDE DEF id
    <2>2. \A i \in 1 .. 8 : 2 + i - 1 = i + 1
      OBVIOUS
    <2>3. 9 - 2 + 1 = 8 /\ 2 <= 9
      OBVIOUS
    <2> QED
      BY <2>1, <2>2, <2>3
  <1>5. /\ pl \in Seq(Byte) /\ Len(pl) = n
        /\ \A i \in 1 .. n : pl[i] = bytes[11 + i]
    <2>1. /\ pl \in Seq(Byte)
          /\ Len(pl) = IF 12 <= k THEN k - 12 + 1 ELSE 0
          /\ \A i \in 1 .. k - 12 + 1 : pl[i] = bytes[12 + i - 1]
      <3>1. \A i \in 12 .. k : bytes[i] \in Byte
        BY <1>0, <1>2
      <3> QED
        BY <1>0, <3>1, SubSeqProperties
    <2> HIDE DEF pl
    <2>2. k - 12 + 1 = n /\ (IF 12 <= k THEN k - 12 + 1 ELSE 0) = n
      BY <1>1 DEF k
    <2>3. \A i \in 1 .. n : 12 + i - 1 = 11 + i
      BY <1>1
    <2> QED
      BY <2>1, <2>2, <2>3
  <1>6. id \in [1 .. 8 -> Byte]
    BY <1>4, LenProperties
  <1> HIDE DEF id, pl
  <1>7. Decode(bytes) = [version |-> bytes[1], packet_id |-> id, ttl |-> bytes[10],
                       flags |-> bytes[11], payload |-> pl]
    BY <1>3 DEF Decode, IdSize, HeaderSize, id, pl, k
  <1>8. bytes[1] = Version /\ bytes[10] \in Byte /\ bytes[11] \in Byte
    BY <1>1, <1>2 DEF Decodes
  <1>9. Decode(bytes) \in VexPacket
    <2>1. pl \in {s \in Seq(Byte) : Len(s) <= MaxPayload}
      BY <1>1, <1>5
    <2> QED
      BY <1>6, <1>7, <1>8, <2>1 DEF VexPacket, IdSize
  <1> QED
    BY <1>1, <1>4, <1>5, <1>7, <1>9

(* A relay decodes a packet and encodes it again (mesh.c:154-166).  What   *)
(* it writes is what it read, the TTL lowered by one and nothing else: so  *)
(* the id is the same at every node, and the cipher text is opaque to it.  *)
THEOREM RelayOpaque ==
  ASSUME NEW bytes \in Seq(Byte), Len(bytes) <= MaxPacket, Decodes(bytes), bytes[10] > 1
  PROVE  /\ Decodes(Relayed(bytes)) /\ Len(Relayed(bytes)) = Len(bytes)
         /\ Relayed(bytes)[10] = bytes[10] - 1
         /\ \A i \in 1 .. Len(bytes) : i # 10 => Relayed(bytes)[i] = bytes[i]
  <1> DEFINE pkt == Decode(bytes)
             hop == [pkt EXCEPT !.ttl = @ - 1]
             out == Relayed(bytes)
  <1>1. pkt \in VexPacket /\ Len(bytes) = 11 + Len(pkt.payload) /\ Len(pkt.payload) \in Nat
    BY DecodedPacket, Parts DEF MaxPayload
  <1>2. /\ pkt.version = bytes[1] /\ pkt.ttl = bytes[10] /\ pkt.flags = bytes[11]
    BY DEF Decode, IdSize
  <1>3. /\ \A i \in 1 .. 8 : pkt.packet_id[i] = bytes[i + 1]
        /\ \A i \in 1 .. Len(pkt.payload) : pkt.payload[i] = bytes[11 + i]
    BY DecodedPacket
  <1>4. out = Encode(hop)
    BY DEF Relayed
  <1> HIDE DEF pkt
  <1>5. /\ hop.version = pkt.version /\ hop.packet_id = pkt.packet_id
        /\ hop.ttl = pkt.ttl - 1 /\ hop.flags = pkt.flags /\ hop.payload = pkt.payload
    BY <1>1 DEF VexPacket
  <1>6. hop \in VexPacket
    <2>1. pkt.ttl - 1 \in Byte
      <3>1. \A t \in Byte : t > 1 => t - 1 \in Byte
        BY DEF Byte
      <3>2. pkt.ttl \in Byte
        BY <1>1 DEF VexPacket
      <3> QED
        BY <1>2, <3>1, <3>2
    <2> QED
      BY <1>1, <2>1 DEF VexPacket
  <1> HIDE DEF hop
  <1>7. /\ Len(out) = 11 + Len(hop.payload)
        /\ out[1] = hop.version /\ out[10] = hop.ttl /\ out[11] = hop.flags
        /\ \A i \in 1 .. 8 : out[i + 1] = hop.packet_id[i]
        /\ \A i \in 1 .. Len(hop.payload) : out[11 + i] = hop.payload[i]
    <2>1. /\ Len(Encode(hop)) = 11 + Len(hop.payload)
          /\ Encode(hop)[1] = hop.version /\ Encode(hop)[10] = hop.ttl
          /\ Encode(hop)[11] = hop.flags
          /\ \A i \in 1 .. 8 : Encode(hop)[i + 1] = hop.packet_id[i]
          /\ \A i \in 1 .. Len(hop.payload) : Encode(hop)[11 + i] = hop.payload[i]
      <3>1. /\ Len(Encode(hop)) = HeaderSize + Len(hop.payload)
            /\ Encode(hop)[1] = hop.version /\ Encode(hop)[IdSize + 2] = hop.ttl
            /\ Encode(hop)[IdSize + 3] = hop.flags
            /\ \A i \in 1 .. IdSize : Encode(hop)[i + 1] = hop.packet_id[i]
            /\ \A i \in 1 .. Len(hop.payload) : Encode(hop)[HeaderSize + i] = hop.payload[i]
        BY <1>6, Layout
      <3>2. HeaderSize = 11 /\ IdSize = 8 /\ IdSize + 2 = 10 /\ IdSize + 3 = 11
        BY DEF IdSize, HeaderSize
      <3> QED
        BY <3>1, <3>2
    <2> HIDE DEF out
    <2> QED
      BY <1>4, <2>1
  <1>8. Decodes(out)
    BY <1>4, <1>6, DecodeEncode
  <1> HIDE DEF out
  <1>9. ASSUME NEW i \in 1 .. Len(bytes), i # 10
        PROVE  out[i] = bytes[i]
    <2>1. CASE i = 1
      BY <1>2, <1>5, <1>7, <2>1
    <2>2. CASE i \in 2 .. 9
      <3>1. i - 1 \in 1 .. 8 /\ (i - 1) + 1 = i
        BY <2>2
      <3> QED
        BY <1>3, <1>5, <1>7, <3>1
    <2>3. CASE i = 11
      BY <1>2, <1>5, <1>7, <2>3
    <2>4. CASE i > 11
      <3>1. i - 11 \in 1 .. Len(pkt.payload) /\ 11 + (i - 11) = i
        BY <1>1, <2>4
      <3> QED
        BY <1>3, <1>5, <1>7, <3>1
    <2> QED
      BY <1>1, <1>9, <2>1, <2>2, <2>3, <2>4
  <1> QED
    BY <1>1, <1>2, <1>5, <1>7, <1>8, <1>9 DEF out

(* The limit of mesh.c:52 is low enough: whatever vex_mesh_send accepts    *)
(* can be encrypted and encoded, and is shown with the length it had.      *)
THEOREM MessageFits ==
  ASSUME NEW len \in Nat, Sendable(len)
  PROVE  /\ WireLen(len) \in HeaderSize .. MaxPacket
         /\ ShownLen(WireLen(len)) = len
  <1>1. len \in 0 .. MaxPayload - Reserve
    BY WireAssumption DEF Sendable, MaxPayload, HeaderSize
  <1> DEFINE c == NonceBytes + len + TagBytes
  <1>2. c \in 0 .. MaxPayload /\ NonceBytes + TagBytes <= c
    BY <1>1, WireAssumption DEF MaxPayload, HeaderSize
  <1>3. c % 65536 = c
    BY <1>2, ModSmall, WireAssumption DEF MaxPayload, HeaderSize
  <1>4. CipherLen(len) = c
    <2>1. ~(len > MaxPayload - NonceBytes - TagBytes)
      BY <1>1, WireAssumption DEF MaxPayload, HeaderSize
    <2> QED
      BY <1>3, <2>1 DEF CipherLen
  <1>5. WireLen(len) = HeaderSize + c /\ HeaderSize + c \in HeaderSize .. MaxPacket
    <2> HIDE DEF c
    <2> QED
      BY <1>2, <1>4, WireAssumption DEF WireLen, EncodedLen, Failed, MaxPayload, HeaderSize
  <1>6. PayloadLen(HeaderSize + c) = c
    <2> HIDE DEF c
    <2> QED
      BY <1>2, PayloadLenIsLen
  <1>7. PlainLen(c) = len
    BY <1>1, WireAssumption DEF PlainLen, MaxPayload, HeaderSize
  <1>8. ShownLen(HeaderSize + c) = PlainLen(c)
    <2> HIDE DEF c
    <2> QED
      BY <1>2, <1>5, <1>6, WireAssumption DEF ShownLen, HeaderSize
  <1> QED
    BY <1>5, <1>7, <1>8

(* Whatever length a frame has, the text shown for it and the zero byte    *)
(* that mesh.c:133 writes behind it are inside plaintext[VEX_MAX_PAYLOAD]. *)
THEOREM ShownFits ==
  ASSUME NEW wireLen \in Nat, wireLen < 65536
  PROVE  ShownLen(wireLen) = Failed \/ ShownLen(wireLen) \in 0 .. MaxPayload - 1
  <1>1. CASE wireLen < HeaderSize \/ wireLen > MaxPacket
    BY <1>1 DEF ShownLen
  <1>2. CASE wireLen \in HeaderSize .. MaxPacket
    <2> DEFINE n == wireLen - HeaderSize
    <2>1. n \in 0 .. MaxPayload /\ wireLen = HeaderSize + n
      BY <1>2, WireAssumption DEF MaxPayload, HeaderSize
    <2>2. PayloadLen(wireLen) = n
      BY <2>1, PayloadLenIsLen
    <2>3. ShownLen(wireLen) = PlainLen(n)
      BY <1>2, <2>2, WireAssumption DEF ShownLen, HeaderSize
    <2> HIDE DEF n
    <2> QED
      BY <2>1, <2>3, WireAssumption DEF PlainLen, Failed, MaxPayload, HeaderSize
  <1> QED
    BY <1>1, <1>2, WireAssumption DEF HeaderSize

(* The length survives its two header bytes (transport_unix.c:123 and 178).*)
THEOREM HeaderRoundTrip ==
  ASSUME NEW len \in Nat, len < 65536
  PROVE  FrameHeader(len)[1] \in Byte /\ FrameHeader(len)[2] \in Byte
         /\ HeaderLen(FrameHeader(len)) = len
  <1>1. len \div 256 \in 0 .. 255 /\ len % 256 \in 0 .. 255
        /\ len = 256 * (len \div 256) + (len % 256)
    OBVIOUS
  <1>2. (len \div 256) % 256 = len \div 256
    BY <1>1
  <1> QED
    BY <1>1, <1>2 DEF FrameHeader, HeaderLen, Byte

(***************************************************************************)
(* VexNode: the types, and what is sent.                                   *)
(***************************************************************************)
(* Types alone are not inductive: Accept takes the oldest connection, and  *)
(* there is one because poll saw it and nothing else takes it away.        *)
NodeInv == NodeTypeOK /\ (pollin => backlog # <<>>)

\* Lines that go on stay lines.
LEMMA JoinedType ==
  ASSUME NEW q \in Seq(InputLine), NEW x \in InputLine
  PROVE  Joined(q, x) \in Seq(InputLine)
  <1>1. CASE Len(q) > 0 /\ ~q[Len(q)].whole
    <2>1. Len(q) \in 1 .. Len(q) /\ q[Len(q)] \in InputLine
      BY <1>1
    <2>2. [x EXCEPT !.len = @ + q[Len(q)].len, !.word = "text"] \in InputLine
      <3>1. x.len + q[Len(q)].len \in Nat
        BY <2>1 DEF InputLine
      <3> DEFINE k == x.len + q[Len(q)].len
      <3> HIDE DEF k
      <3>2. k \in Nat
        BY <3>1 DEF k
      <3>3. [x EXCEPT !.len = k, !.word = "text"] \in InputLine
        <4>1. [[x EXCEPT !.len = k] EXCEPT !.word = "text"] \in InputLine
          BY <3>2 DEF InputLine
        <4>2. [x EXCEPT !.len = k, !.word = "text"] = [[x EXCEPT !.len = k] EXCEPT !.word = "text"]
          BY DEF InputLine
        <4> QED
          BY <4>1, <4>2
      <3> QED
        BY <3>3 DEF k
    <2> DEFINE y == [x EXCEPT !.len = @ + q[Len(q)].len, !.word = "text"]
    <2> HIDE DEF y
    <2>3. y \in InputLine
      BY <2>2 DEF y
    <2>4. [q EXCEPT ![Len(q)] = y] \in Seq(InputLine)
      BY <2>1, <2>3
    <2> QED
      BY <1>1, <2>4 DEF Joined, y
  <1>2. CASE ~(Len(q) > 0 /\ ~q[Len(q)].whole)
    BY <1>2 DEF Joined
  <1> QED
    BY <1>1, <1>2

\* The parts of a sequence.
LEMMA HeadTail ==
  ASSUME NEW S, NEW q \in Seq(S), q # <<>>
  PROVE  Head(q) \in S /\ Tail(q) \in Seq(S)
  OBVIOUS

\* A sequence with one element more.
LEMMA Appended ==
  ASSUME NEW S, NEW q \in Seq(S), NEW x \in S
  PROVE  Append(q, x) \in Seq(S) /\ Append(q, x) # <<>>
  <1>1. Append(q, x) \in Seq(S) /\ Len(Append(q, x)) = Len(q) + 1 /\ Len(q) \in Nat
    OBVIOUS
  <1>2. Len(<<>>) = 0
    OBVIOUS
  <1> QED
    BY <1>1, <1>2

\* Two sequences in a row.
LEMMA Concatenated ==
  ASSUME NEW S, NEW q \in Seq(S), NEW r \in Seq(S)
  PROVE  q \o r \in Seq(S)
  OBVIOUS

\* What fgets leaves behind are lines.
LEMMA LeftType ==
  ASSUME buf \in Seq(InputLine), Returns
  PROVE  Left \in Seq(InputLine) /\ Input.len \in Nat
  <1> DEFINE x == Head(buf)
             rest == [x EXCEPT !.len = @ - (InputSize - 1), !.word = "rest"]
  <1>1. x \in InputLine /\ Tail(buf) \in Seq(InputLine)
    BY HeadTail DEF Returns
  <1>2. InputSize - 1 \in Nat
    BY NodeAssumption
  <1>3. CASE x.len < InputSize - 1 \/ (rest.len = 0 /\ ~x.whole)
    BY <1>1, <1>2, <1>3 DEF Left, Input, InputLine
  <1>4. CASE ~(x.len < InputSize - 1 \/ (rest.len = 0 /\ ~x.whole))
    <2>1. rest \in InputLine
      <3> DEFINE k == x.len - (InputSize - 1)
      <3>1. k \in Nat
        BY <1>1, <1>2, <1>4 DEF InputLine
      <3> HIDE DEF k
      <3>2. [[x EXCEPT !.len = k] EXCEPT !.word = "rest"] \in InputLine
        BY <1>1, <3>1 DEF InputLine
      <3>3. [x EXCEPT !.len = k, !.word = "rest"] = [[x EXCEPT !.len = k] EXCEPT !.word = "rest"]
        BY <1>1 DEF InputLine
      <3> QED
        BY <3>2, <3>3 DEF k
    <2>2. Left = <<rest>> \o Tail(buf)
      BY <1>4 DEF Left
    <2>3. <<rest>> \in Seq(InputLine)
      BY <2>1
    <2>4. Left \in Seq(InputLine)
      BY <1>1, <2>2, <2>3, Concatenated
    <2> QED
      BY <1>1, <1>2, <2>4 DEF Input, InputLine
  <1> QED
    BY <1>3, <1>4

\* The table of slots keeps its size when a peer is seated.
LEMMA SeatedType ==
  ASSUME NEW r \in Remote, slots \in [Slot -> Remote \cup {Empty}]
  PROVE  Seated(r) \in [Slot -> Remote \cup {Empty}]
  BY DEF Seated

\* A broadcast empties slots and fills none.
LEMMA BroadcastType ==
  ASSUME NEW to, NEW next, Broadcast(to, next), slots \in [Slot -> Remote \cup {Empty}]
  PROVE  pc' \in {next, "killed"} /\ slots' \in [Slot -> Remote \cup {Empty}]
  BY DEF Broadcast

(* The inductive invariant holds: in every turn, the slots are a table of  *)
(* fixed size, and accept is called only when a connection waits, so that  *)
(* Head(backlog) is a remote process (main.c:239, transport_unix.c:52).    *)
THEOREM NodeInvariant == Spec => []NodeInv
  <1>1. Init => NodeInv
    <2> SUFFICES ASSUME Init PROVE NodeInv
      OBVIOUS
    <2>1. turn \in 1 .. MaxPeers + 1 /\ typed \in Seq(InputLine) /\ backlog \in Seq(Remote)
      BY NodeAssumption DEF Init, FirstSlot
    <2> QED
      BY <2>1 DEF Init, NodeInv, NodeTypeOK
  <1>2. NodeInv /\ [Next]_vars => NodeInv'
    <2> SUFFICES ASSUME NodeInv, [Next]_vars PROVE NodeInv'
      OBVIOUS
    <2> USE DEF NodeInv, NodeTypeOK
    <2>1. CASE Startup
      <3>1. CASE UNCHANGED <<running, slots, remote>> /\ pc' = "over"
        BY <2>1, <3>1 DEF Startup, inputVars
      <3>2. CASE pc' = "loop" /\ running' = TRUE
        <4>1. \A i \in DOMAIN Dialled : Dialled[i] \in Remote
          BY NodeAssumption
        <4>2. slots' \in [Slot -> Remote \cup {Empty}] /\ remote' \in [Remote -> {"new", "open", "closed"}]
          BY <2>1, <3>2, <4>1 DEF Startup
        <4> QED
          BY <2>1, <3>2, <4>2 DEF Startup, inputVars
      <3> QED
        BY <2>1, <3>1, <3>2 DEF Startup
    <2>2. CASE Poll
      BY <2>2 DEF Poll, Pending, inputVars, remoteVars
    <2>3. CASE Exit
      BY <2>3 DEF Exit, inputVars, remoteVars
    <2>4. CASE Fill
      <3>1. Head(typed) \in InputLine /\ Tail(typed) \in Seq(InputLine)
        BY <2>4, HeadTail DEF Fill
      <3>2. Joined(buf, Head(typed)) \in Seq(InputLine)
        BY <3>1, JoinedType
      <3>3. Joined(buf, Head(typed)) \o Tail(typed) \in Seq(InputLine)
        BY <3>1, <3>2, Concatenated
      <3>4. buf' \in Seq(InputLine) /\ typed' \in Seq(InputLine)
        <4>1. CASE Terminal
          BY <2>4, <3>1, <3>2, <4>1 DEF Fill, Fetch
        <4>2. CASE ~Terminal
          <5>1. <<>> \in Seq(InputLine)
            OBVIOUS
          <5> QED
            BY <2>4, <3>3, <4>2, <5>1 DEF Fill, Fetch
        <4> QED
          BY <4>1, <4>2
      <3> QED
        BY <2>4, <3>4 DEF Fill, remoteVars
    <2>5. ASSUME NEW words, TakeLine(words)
          PROVE  buf' \in Seq(InputLine) /\ typed' \in Seq(InputLine)
      BY <2>5, LeftType DEF TakeLine
    <2>6. CASE TakeIdle
      <3>1. \E words : TakeLine(words)
        BY <2>6 DEF TakeIdle
      <3> QED
        BY <2>5, <2>6, <3>1 DEF TakeIdle, TakeLine, remoteVars
    <2>7. CASE TakeQuit
      BY <2>5, <2>7 DEF TakeQuit, TakeLine, remoteVars
    <2>8. CASE TakeLong
      BY <2>5, <2>8 DEF TakeLong, TakeLine, remoteVars
    <2>9. CASE TakeMessage
      <3>1. pc' \in {"accept", "killed"} /\ slots' \in [Slot -> Remote \cup {Empty}]
        BY <2>9, BroadcastType DEF TakeMessage
      <3> QED
        BY <2>5, <2>9, <3>1 DEF TakeMessage, TakeLine, remoteVars
    <2>10. CASE Accept
      <3>1. turn' \in 1 .. MaxPeers + 1
        BY <2>10, NodeAssumption DEF Accept, FirstSlot
      <3>2. CASE pollin
        <4>1. Head(backlog) \in Remote /\ Tail(backlog) \in Seq(Remote)
          BY <3>2, HeadTail
        <4>2. slots' \in [Slot -> Remote \cup {Empty}]
          BY <2>10, <3>2, <4>1, SeatedType DEF Accept
        <4> QED
          BY <2>10, <3>1, <3>2, <4>1, <4>2 DEF Accept, inputVars, remoteVars
      <3>3. CASE ~pollin
        BY <2>10, <3>1, <3>3 DEF Accept, inputVars, remoteVars
      <3> QED
        BY <3>2, <3>3
    <2>11. CASE EndTurn
      <3>1. turn' \in 1 .. MaxPeers + 1
        BY <2>11, NodeAssumption DEF EndTurn, FirstSlot
      <3> QED
        BY <2>11, <3>1 DEF EndTurn, inputVars, remoteVars
    <2>12. ASSUME NEW i \in Slot, AtSlot(i)
           PROVE  /\ turn' \in 1 .. MaxPeers + 1
                  /\ slots[i] \in Remote
                  /\ UNCHANGED <<running, pollin, backlog, typed, buf, lines, remote, written>>
      BY <2>12, NodeAssumption DEF AtSlot, Active, Slot, inputVars
    <2>13. ASSUME NEW i \in Slot, AtSlot(i), frames[slots[i]] > 0
           PROVE  [frames EXCEPT ![slots[i]] = @ - 1] \in [Remote -> Nat]
      BY <2>12, <2>13
    <2>14. ASSUME NEW i \in Slot, ReadKeep(i) PROVE NodeInv'
      BY <2>12, <2>13, <2>14 DEF ReadKeep, AtSlot
    <2>15. ASSUME NEW i \in Slot, ReadRelay(i) PROVE NodeInv'
      <3>1. pc' \in {"peers", "killed"} /\ slots' \in [Slot -> Remote \cup {Empty}]
        BY <2>15, BroadcastType DEF ReadRelay
      <3> QED
        BY <2>12, <2>13, <2>15, <3>1 DEF ReadRelay, AtSlot
    <2>16. ASSUME NEW i \in Slot, ReadNone(i) PROVE NodeInv'
      BY <2>12, <2>16 DEF ReadNone, AtSlot
    <2>17. CASE Signal
      BY <2>17 DEF Signal, inputVars, remoteVars
    <2>18. ASSUME NEW x \in Line, Type(x) PROVE NodeInv'
      <3>1. typed' \in Seq(InputLine)
        BY <2>18, NodeAssumption, JoinedType DEF Type
      <3> QED
        BY <2>18, <3>1 DEF Type, remoteVars
    <2>19. ASSUME NEW r \in Remote, RemoteDial(r) PROVE NodeInv'
      <3>1. backlog' \in Seq(Remote) /\ backlog' # <<>>
        BY <2>19, Appended DEF RemoteDial
      <3> QED
        BY <2>19, <3>1 DEF RemoteDial, inputVars
    <2>20. ASSUME NEW r \in Remote, RemoteWrite(r) PROVE NodeInv'
      BY <2>20 DEF RemoteWrite, inputVars
    <2>21. ASSUME NEW r \in Remote, RemoteClose(r) PROVE NodeInv'
      BY <2>21 DEF RemoteClose, inputVars
    <2>22. CASE UNCHANGED vars
      BY <2>22 DEF vars, inputVars, remoteVars
    <2> QED
      BY <2>1, <2>2, <2>3, <2>4, <2>6, <2>7, <2>8, <2>9, <2>10, <2>11, <2>14, <2>15, <2>16,
         <2>17, <2>18, <2>19, <2>20, <2>21, <2>22 DEF Next, Step
  <1> QED
    BY <1>1, <1>2, PTL DEF Spec

(* Types: no slot is written outside the array (transport_unix.c:59), and  *)
(* the loop over the slots ends at its end (main.c:246).                   *)
THEOREM NodeTypes == Spec => []NodeTypeOK
  <1>1. NodeInv => NodeTypeOK
    BY DEF NodeInv
  <1> QED
    BY <1>1, NodeInvariant, PTL

\* MessageFits and HeaderRoundTrip together: the way of one message.
LEMMA FrameFits ==
  \A n \in Nat : Sendable(n) =>
    /\ WireLen(n) \in HeaderSize .. MaxPacket
    /\ ShownLen(HeaderLen(FrameHeader(WireLen(n)))) = n
  <1> SUFFICES ASSUME NEW n \in Nat, Sendable(n)
               PROVE  /\ WireLen(n) \in HeaderSize .. MaxPacket
                      /\ ShownLen(HeaderLen(FrameHeader(WireLen(n)))) = n
    OBVIOUS
  <1>1. WireLen(n) \in HeaderSize .. MaxPacket /\ ShownLen(WireLen(n)) = n
    BY MessageFits
  <1>2. \A w \in HeaderSize .. MaxPacket : w \in Nat /\ w < 65536
    BY WireAssumption DEF HeaderSize
  <1>3. WireLen(n) \in Nat /\ WireLen(n) < 65536
    BY <1>1, <1>2
  <1>4. HeaderLen(FrameHeader(WireLen(n))) = WireLen(n)
    BY <1>3, HeaderRoundTrip
  <1> QED
    BY <1>1, <1>4

(* Whatever is typed and however it is cut into lines: every message that  *)
(* goes out fits its frame, and the frame is shown as long as it was typed *)
(* (mesh.c:45 to mesh.c:133).                                              *)
THEOREM SentReadable == Spec => []SentIsReadable
  <1>1. Init => SentIsReadable
    BY DEF Init, SentIsReadable
  <1>2. NodeInv /\ SentIsReadable /\ [Next]_vars => SentIsReadable'
    <2> SUFFICES ASSUME NodeInv, SentIsReadable, [Next]_vars PROVE SentIsReadable'
      OBVIOUS
    <2>1. CASE TakeMessage
      <3> DEFINE n == Input.len
      <3>1. n \in Nat /\ Sendable(n)
        BY <2>1, LeftType DEF TakeMessage, TakeLine, NodeInv, NodeTypeOK
      <3>2. broadcast' = [message |-> n, frame |-> WireLen(n)]
        BY <2>1 DEF TakeMessage
      <3> HIDE DEF n
      <3> QED
        BY <3>1, <3>2, FrameFits DEF SentIsReadable
    <2>2. CASE UNCHANGED broadcast
      BY <2>2 DEF SentIsReadable
    <2> QED
      BY <2>1, <2>2 DEF Next, Step, Startup, Poll, Exit, Fill, TakeIdle, TakeQuit, TakeLong,
         Accept, EndTurn, ReadKeep, ReadRelay, ReadNone, AtSlot, Signal, Type, RemoteDial,
         RemoteWrite, RemoteClose, vars
  <1> QED
    BY <1>1, <1>2, NodeInvariant, PTL DEF Spec

=============================================================================
