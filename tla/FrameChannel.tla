---------------------------- MODULE FrameChannel ----------------------------
(***************************************************************************)
(* What mesh.c may rely on from one connection of transport_unix.c: each   *)
(* direction is a queue of whole frames, read in the order of the writes,  *)
(* each once and unchanged.  When an end closes, what is on its way to it  *)
(* is lost, and nothing more is written by it or to it; what it wrote      *)
(* before is still read: an end that closes behind the other one has read  *)
(* all of it, unless its process ends.  UnixStream, with its headers,      *)
(* partial reads and writes, implements this module.                       *)
(***************************************************************************)
EXTENDS Naturals, Sequences

CONSTANTS
    End,        \* the two ends of the connection
    Other       \* Other[e]: the other end

VARIABLES
    written,    \* written[e]: how many frames e has written
    delivered,  \* delivered[e]: the numbers of the frames e has read, in order
    open,       \* open[e]: e's descriptor is open
    alive       \* alive[e]: the process of e runs

channelVars == <<written, delivered, open, alive>>

ChannelInit ==
    /\ written = [e \in End |-> 0]
    /\ delivered = [e \in End |-> <<>>]
    /\ open = [e \in End |-> TRUE]
    /\ alive = [e \in End |-> TRUE]

WriteFrame(e) ==
    /\ open[e]
    /\ open[Other[e]]
    /\ written' = [written EXCEPT ![e] = @ + 1]
    /\ UNCHANGED <<delivered, open, alive>>

ReadFrame(e) ==
    /\ open[e]
    /\ Len(delivered[e]) < written[Other[e]]
    /\ delivered' = [delivered EXCEPT ![e] = Append(@, Len(@) + 1)]
    /\ UNCHANGED <<written, open, alive>>

\* The first to close may do so at any time, the second when it has read all.
Close(e) ==
    /\ open[e]
    /\ open[Other[e]] \/ Len(delivered[e]) = written[Other[e]]
    /\ open' = [open EXCEPT ![e] = FALSE]
    /\ UNCHANGED <<written, delivered, alive>>

\* The process ends, and the kernel closes for it.
EndProcess(e) ==
    /\ open[e]
    /\ open' = [open EXCEPT ![e] = FALSE]
    /\ alive' = [alive EXCEPT ![e] = FALSE]
    /\ UNCHANGED <<written, delivered>>

ChannelNext == \E e \in End : \/ WriteFrame(e) \/ ReadFrame(e)
                              \/ Close(e) \/ EndProcess(e)

ChannelSpec == ChannelInit /\ [][ChannelNext]_channelVars

=============================================================================
