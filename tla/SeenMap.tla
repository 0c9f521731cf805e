------------------------------ MODULE SeenMap ------------------------------
(***************************************************************************)
(* What the rest of a VexConnect node may rely on from the deduplication   *)
(* cache of src/src/seen.c: a set of packet ids with the second at which   *)
(* each was added.  An id is remembered for TtlSec seconds; it is dropped  *)
(* earlier only when Capacity ids are remembered, and then it is one that  *)
(* was added no later than any other.  Nothing is said about slots, flags  *)
(* or scan order: module SeenCache has those and implements this module.   *)
(***************************************************************************)
EXTENDS Integers, FiniteSets

CONSTANTS
    Id,         \* packet ids
    NoId,       \* "no id"
    Capacity,   \* VEX_SEEN_CAPACITY
    TtlSec,     \* VEX_SEEN_TTL_SEC
    MaxTime     \* bound on the clock

VARIABLES
    remembered, \* the set of [id, at] of unexpired ids
    pending,    \* the id vex_mesh_receive found new and is about to add, or NoId
    now         \* time(NULL)

mapVars == <<remembered, pending, now>>

MapInit ==
    /\ remembered = {}
    /\ pending = NoId
    /\ now = 0

Known(id) == \E r \in remembered : r.id = id

\* vex_seen_check: a pure question, answered "new" by making the id pending.
Ask(id) ==
    /\ pending = NoId
    /\ pending' = IF Known(id) THEN NoId ELSE id
    /\ UNCHANGED <<remembered, now>>

(* The set of remembered ids once id is added: nothing is lost below       *)
(* Capacity, and at Capacity exactly one of the oldest.                    *)
Remember(id) ==
    LET new == [id |-> id, at |-> now]
    IN  \/ /\ Cardinality(remembered) < Capacity
           /\ remembered' = remembered \cup {new}
        \/ /\ Cardinality(remembered) = Capacity
           /\ \E lost \in remembered :
                /\ \A r \in remembered : lost.at <= r.at
                /\ remembered' = (remembered \ {lost}) \cup {new}

\* vex_seen_add from vex_mesh_receive, after the question.
MapMarkSeen ==
    /\ pending # NoId
    /\ Remember(pending)
    /\ pending' = NoId
    /\ UNCHANGED now

\* vex_seen_add from vex_mesh_send: a fresh id, never asked about.
MapMarkSent(id) ==
    /\ pending = NoId
    /\ ~Known(id)
    /\ Remember(id)
    /\ UNCHANGED <<pending, now>>

\* A second passes and the ids older than TtlSec are forgotten.
MapTick ==
    /\ now < MaxTime
    /\ now' = now + 1
    /\ remembered' = {r \in remembered : now + 1 - r.at <= TtlSec}
    /\ UNCHANGED pending

MapNext ==
    \/ \E id \in Id : Ask(id) \/ MapMarkSent(id)
    \/ MapMarkSeen
    \/ MapTick

MapSpec == MapInit /\ [][MapNext]_mapVars

=============================================================================
