----------------------------- MODULE UnixStream -----------------------------
(***************************************************************************)
(* One connection of src/src/transport_unix.c, between two processes.  A   *)
(* frame is written by two calls of write(), the 2-byte length and then    *)
(* the payload, and read by a read() of 2 bytes and then reads of what is  *)
(* left; both ends are non-blocking.  The two processes interleave between *)
(* these system calls.  Bytes are numbered, not valued: frame k of an end  *)
(* is the bytes <<k, 1>>, <<k, 2>> (its length) and <<k, 3>> ... .         *)
(*                                                                         *)
(* The kernel's socket buffer and SIGPIPE are modelled from how the code   *)
(* uses them.                                                              *)
(***************************************************************************)
EXTENDS Integers, FiniteSets, Sequences

CONSTANTS
    End,            \* the two ends
    Other,          \* Other[e]: the other end
    PayloadSize,    \* bytes after the header, in 1 .. VEX_MAX_PACKET
    SockBuf,        \* bytes the kernel keeps per direction
    ShortWrites,    \* whether write() takes a part of what it is given
    MaxFrames       \* bound on the frames each end writes

ASSUME StreamAssumption ==
    /\ Other \in [End -> End]
    /\ \A e \in End : Other[e] # e /\ Other[Other[e]] = e
    /\ PayloadSize \in Nat \ {0}
    /\ SockBuf \in Nat \ {0}
    /\ ShortWrites \in BOOLEAN
    /\ MaxFrames \in Nat

VARIABLES
    stream,     \* stream[e]: the bytes e has written that are not read yet
    open,       \* open[e]: peer->active of e, whose descriptor is then open
    alive,      \* alive[e]: the process of e runs
    writing,    \* writing[e]: the header is out and the payload comes next
    left,       \* left[e]: pkt_len - total of the frame e is reading, or 0
    written,    \* written[e]: frames for which vex_transport_send_to_peer returned 0
    delivered   \* delivered[e]: history of the frames e returned from a read

vars == <<stream, open, alive, writing, left, written, delivered>>

HeaderSize == 2

Header(k) == << <<k, 1>>, <<k, 2>> >>

Payload(k) == [i \in 1 .. PayloadSize |-> <<k, HeaderSize + i>>]

\* How many of n bytes a write() of e takes.
Taken(e, n) ==
    LET free == SockBuf - Len(stream[e])
    IN  IF free >= n THEN n ELSE IF ShortWrites THEN free ELSE 0

(* The effect of closing e's end: what was on its way to e is gone, and    *)
(* what e has written can still be read.                                   *)
Shut(e) ==
    /\ open' = [open EXCEPT ![e] = FALSE]
    /\ writing' = [writing EXCEPT ![e] = FALSE]
    /\ left' = [left EXCEPT ![e] = 0]

(***************************************************************************)
(* vex_transport_send_to_peer, one write() at a time.                      *)
(***************************************************************************)
\* write() finds the other end closed: SIGPIPE ends the process.
WriteBroken(e) ==
    /\ open[e]
    /\ ~open[Other[e]]
    /\ left[e] = 0
    /\ writing[e] \/ written[e] < MaxFrames
    /\ alive' = [alive EXCEPT ![e] = FALSE]
    /\ Shut(e)
    /\ stream' = [stream EXCEPT ![Other[e]] = <<>>]
    /\ UNCHANGED <<written, delivered>>

\* mutant: a short write is taken for a whole one
TakenAll(e, n) == TRUE

\* n = len
WholeWrite(e, n) == Taken(e, n) = n

\* One write() of bytes; the peer is closed unless all of them are taken.
Write(e, bytes) ==
    LET n == Len(bytes)
        out == stream[e] \o SubSeq(bytes, 1, Taken(e, n))
    IN  /\ open[e]
        /\ open[Other[e]]
        /\ left[e] = 0
        /\ IF WholeWrite(e, n)
             THEN /\ stream' = [stream EXCEPT ![e] = out]
                  /\ writing' = [writing EXCEPT ![e] = ~@]
                  /\ UNCHANGED <<open, left>>
             ELSE /\ stream' = [stream EXCEPT ![e] = out, ![Other[e]] = <<>>]
                  /\ Shut(e)

WriteHeader(e) ==
    /\ ~writing[e]
    /\ written[e] < MaxFrames
    /\ Write(e, Header(written[e] + 1))
    /\ UNCHANGED <<alive, written, delivered>>

WritePayload(e) ==
    /\ writing[e]
    /\ Write(e, Payload(written[e] + 1))
    /\ written' = [written EXCEPT ![e] = IF WholeWrite(e, PayloadSize) THEN @ + 1 ELSE @]
    /\ UNCHANGED <<alive, delivered>>

(***************************************************************************)
(* vex_transport_unix_read, one read() at a time.                          *)
(***************************************************************************)
CanReadWhileUp(e) == open[e] /\ ~writing[e] /\ open[Other[e]]  \* mutant

\* The slot is active, and the one thread of e is not in the middle of a send.
CanRead(e) == open[e] /\ ~writing[e]

\* The 2 bytes of the header; a single byte is read and lost (n != 2).
ReadHeader(e) ==
    LET in == stream[Other[e]]
    IN  /\ CanRead(e)
        /\ left[e] = 0
        /\ in # <<>>
        /\ IF Len(in) >= HeaderSize
             THEN /\ stream' = [stream EXCEPT ![Other[e]] = SubSeq(in, 3, Len(in))]
                  /\ left' = [left EXCEPT ![e] = PayloadSize]
             ELSE /\ stream' = [stream EXCEPT ![Other[e]] = <<>>]
                  /\ UNCHANGED left
        /\ UNCHANGED <<open, alive, writing, written, delivered>>

\* mutant: a hang-up is taken for the end-of-file
HangupIsEnough(e) == TRUE

\* All that the other end wrote has been read.
Drained(e) == stream[Other[e]] = <<>>

\* read() returns 0: end-of-file, which comes after the last byte.
ReadEof(e) ==
    /\ CanRead(e)
    /\ left[e] = 0
    /\ Drained(e)
    /\ ~open[Other[e]]
    /\ Shut(e)
    /\ UNCHANGED <<stream, alive, written, delivered>>

MinOf(i, j) == IF i < j THEN i ELSE j

\* mutant: the read asks for a whole buffer, not for what is left
AskBuffer(e) == Len(stream[Other[e]])

\* How many bytes read() returns of the pkt_len - total it is asked for.
Got(e) == MinOf(left[e], Len(stream[Other[e]]))

(* The reads of the payload: bytes while there are any, and the frame is   *)
(* returned with the last of them.                                         *)
ReadPayload(e) ==
    LET in == stream[Other[e]]
    IN  /\ CanRead(e)
        /\ left[e] > 0
        /\ in # <<>>
        /\ stream' = [stream EXCEPT ![Other[e]] = SubSeq(in, Got(e) + 1, Len(in))]
        /\ left' = [left EXCEPT ![e] = @ - Got(e)]
        /\ delivered' = IF Got(e) = left[e]
                          THEN [delivered EXCEPT ![e] = Append(@, in[Got(e)][1])]
                          ELSE delivered
        /\ UNCHANGED <<open, alive, writing, written>>

(* No byte of the payload: end-of-file, or EAGAIN because the other        *)
(* process is between its two writes.  Both close the peer (n <= 0).       *)
ReadNothing(e) ==
    /\ CanRead(e)
    /\ left[e] > 0
    /\ Drained(e)
    /\ Shut(e)
    /\ UNCHANGED <<stream, alive, written, delivered>>

\* The process ends between two system calls, and the kernel closes for it.
Stop(e) ==
    /\ alive[e]
    /\ open[e]
    /\ alive' = [alive EXCEPT ![e] = FALSE]
    /\ Shut(e)
    /\ stream' = [stream EXCEPT ![Other[e]] = <<>>]
    /\ UNCHANGED <<written, delivered>>

Read(e) == ReadHeader(e) \/ ReadPayload(e) \/ ReadEof(e) \/ ReadNothing(e)

Init ==
    /\ stream = [e \in End |-> <<>>]
    /\ open = [e \in End |-> TRUE]
    /\ alive = [e \in End |-> TRUE]
    /\ writing = [e \in End |-> FALSE]
    /\ left = [e \in End |-> 0]
    /\ written = [e \in End |-> 0]
    /\ delivered = [e \in End |-> <<>>]

Next == \E e \in End : \/ WriteHeader(e) \/ WritePayload(e) \/ WriteBroken(e)
                       \/ Read(e) \/ Stop(e)

Spec == Init /\ [][Next]_vars

(* A process is not stopped in the middle of a send, and its main loop     *)
(* reads from every active peer on each turn.                              *)
FairSpec ==
    /\ Spec
    /\ \A e \in End : /\ WF_vars(Read(e))
                      /\ WF_vars(writing[e] /\ (WritePayload(e) \/ WriteBroken(e)))

(***************************************************************************)
(* Properties.                                                             *)
(***************************************************************************)
TypeOK ==
    /\ stream \in [End -> Seq((1 .. MaxFrames) \X (1 .. HeaderSize + PayloadSize))]
    /\ \A e \in End : Len(stream[e]) <= SockBuf
    /\ open \in [End -> BOOLEAN]
    /\ alive \in [End -> BOOLEAN]
    /\ writing \in [End -> BOOLEAN]
    /\ left \in [End -> 0 .. PayloadSize]
    /\ written \in [End -> 0 .. MaxFrames]
    /\ delivered \in [End -> Seq(1 .. MaxFrames)]

(* The reader is never out of step with the frames: the next byte of an    *)
(* open end is the one it expects, the first byte of the next header or    *)
(* the first missing byte of the payload, whatever was read or written in  *)
(* part.  Out of step, it would take payload for a length, for ever        *)
(* (transport_unix.c:176-179 returns without closing).                     *)
Aligned ==
    \A e \in End :
      open[e] /\ stream[Other[e]] # <<>> =>
        Head(stream[Other[e]]) =
          << Len(delivered[e]) + 1,
             IF left[e] = 0 THEN 1 ELSE HeaderSize + PayloadSize - left[e] + 1 >>

\* The connection is a queue of whole frames in each direction.
Channel == INSTANCE FrameChannel

ImplementsFrameChannel == Channel!ChannelSpec

(* A frame that was written to an open end is read: also when its writer   *)
(* has closed or ended since, for the end-of-file comes behind it and a    *)
(* hang-up closes nothing (transport_unix.c:164).  What goes unread was    *)
(* written to a process that ended itself, or to the end that closed       *)
(* first, because a write of its own was cut short (transport_unix.c:127). *)
WrittenIsRead ==
    \A e \in End, k \in 1 .. MaxFrames :
      written[e] >= k /\ open[Other[e]]
        ~> \/ Len(delivered[Other[e]]) >= k
           \/ ~open[Other[e]] /\ (open[e] \/ ~alive[Other[e]])

\* An end that closes is noticed: the other end closes too.
CloseIsNoticed == \A e \in End : ~open[e] ~> ~open[Other[e]]

(* "Returns bytes read, 0 if nothing available, -1 on error/disconnect"    *)
(* (transport_unix.c:157): while both processes run, and the socket buffer *)
(* has room for everything, no end is closed.                              *)
StaysConnected == (\A e \in End : alive[e]) => \A e \in End : open[e]

=============================================================================
