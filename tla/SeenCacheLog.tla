---------------------------- MODULE SeenCacheLog ----------------------------
(***************************************************************************)
(* SeenCache with the history of what was added to it, to say what a node  *)
(* remembers in terms of the packets it handled rather than of slots.      *)
(***************************************************************************)
EXTENDS SeenCache, Sequences

CONSTANT Window     \* how many adds the history goes back, to see a crowd

ASSUME WindowAssumption == Window \in Nat /\ Window > Capacity

VARIABLE log        \* the last Window adds, oldest first: a sequence of [id, at]

logVars == <<vars, log>>

LogInit == Init /\ log = <<>>

Logged(id) ==
    log' = Append(IF Len(log) = Window THEN Tail(log) ELSE log,
                  [id |-> id, at |-> now])

\* A node's own id is not one it has handled: it is the hash of a nonce.
Unused(id) == \A i \in DOMAIN log : log[i].id # id

LogNext ==
    \/ \E id \in Id :
         \/ (CheckHit(id) \/ CheckMiss(id)) /\ UNCHANGED log
         \/ Unused(id) /\ MarkSent(id) /\ Logged(id)
    \/ MarkSeen /\ Logged(pending)
    \/ (Prune \/ Tick) /\ UNCHANGED log

LogSpec == LogInit /\ [][LogNext]_logVars

Remembered(id) == \E s \in Slot : Live(s) /\ entries[s].packet_id = id

Fresh(i) == now - log[i].at <= TtlSec

(* An id added within the last TtlSec seconds is remembered unless more    *)
(* than Capacity ids, itself included, were added in its second or after.  *)
(* So a node that handles at most Capacity packets in any TtlSec + 1       *)
(* seconds never takes a packet for new twice within TtlSec (seen.c:38-61).*)
RememberedUnlessCrowded ==
    \A i \in DOMAIN log :
      \/ ~Fresh(i)
      \/ Remembered(log[i].id)
      \/ Cardinality({j \in DOMAIN log : log[j].at >= log[i].at}) > Capacity

=============================================================================
