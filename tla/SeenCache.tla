----------------------------- MODULE SeenCache -----------------------------
(***************************************************************************)
(* The deduplication cache of src/src/seen.c: a fixed array of slots, each *)
(* with a packet id, the second it was stored and an active flag, and the  *)
(* high-water mark `count` that bounds the scans of check and prune.       *)
(*                                                                         *)
(* A node is one thread, so the calls do not interleave; but check, add    *)
(* and prune each read time(NULL) for themselves, and vex_mesh_receive     *)
(* calls check and then add.  `pending` is the id between those two calls, *)
(* when only the clock can move.                                           *)
(***************************************************************************)
EXTENDS Integers, FiniteSets

CONSTANTS
    Id,         \* packet ids
    NoId,       \* the zeroed packet_id of a slot never used
    Capacity,   \* VEX_SEEN_CAPACITY
    TtlSec,     \* VEX_SEEN_TTL_SEC
    PruneGap,   \* seconds between two prunes of the main loop
    MaxTime     \* bound on the clock

ASSUME CacheAssumption ==
    /\ NoId \notin Id
    /\ Capacity \in Nat \ {0}
    /\ TtlSec \in Nat
    /\ PruneGap \in Nat
    /\ MaxTime \in Nat

VARIABLES
    entries,    \* cache->entries
    count,      \* cache->count
    pending,    \* id found new by vex_seen_check and not yet added, or NoId
    now,        \* time(NULL)
    lastPrune   \* last_prune of the main loop

vars == <<entries, count, pending, now, lastPrune>>

Slot == 0 .. Capacity - 1

Entry == [packet_id : Id \cup {NoId}, timestamp : Nat, active : BOOLEAN]

(***************************************************************************)
(* One slot.                                                               *)
(***************************************************************************)
ExpiredEarly(e) == now - e.timestamp >= TtlSec        \* mutant: >= for >

Expired(e) == now - e.timestamp > TtlSec

Live(s) == entries[s].active /\ ~Expired(entries[s])

ScannedShort == 0 .. count - 2                        \* mutant: off by one

\* The slots check and prune look at.
Scanned == 0 .. count - 1

(* entries after the expired slots of S are deactivated, as check does on  *)
(* its way and prune does to every slot below count.                       *)
Retire(S) ==
    [s \in Slot |-> IF s \in S /\ Expired(entries[s])
                      THEN [entries[s] EXCEPT !.active = FALSE]
                      ELSE entries[s]]

Holds(s, id) == s \in Scanned /\ Live(s) /\ entries[s].packet_id = id

(***************************************************************************)
(* vex_seen_check.  It stops at the first slot that holds id, with the     *)
(* expired slots before it deactivated; on a miss all of them are.         *)
(***************************************************************************)
CheckHit(id) ==
    /\ pending = NoId
    /\ \E s \in Slot :
         /\ Holds(s, id)
         /\ \A r \in 0 .. s - 1 : ~Holds(r, id)
         /\ entries' = Retire(0 .. s - 1)
    /\ UNCHANGED <<count, pending, now, lastPrune>>

CheckMiss(id) ==
    /\ pending = NoId
    /\ \A s \in Slot : ~Holds(s, id)
    /\ entries' = Retire(Scanned)
    /\ pending' = id
    /\ UNCHANGED <<count, now, lastPrune>>

(***************************************************************************)
(* vex_seen_add: the first slot that is not live, or else the slot with    *)
(* the smallest timestamp, the lowest index among equals.                  *)
(***************************************************************************)
Newest(s) ==                                          \* mutant: comparison
    \A r \in Slot : /\ entries[s].timestamp >= entries[r].timestamp
                    /\ r < s => entries[s].timestamp > entries[r].timestamp

Oldest(s) ==
    \A r \in Slot : /\ entries[s].timestamp <= entries[r].timestamp
                    /\ r < s => entries[s].timestamp < entries[r].timestamp

Put(s, id) ==
    entries' = [entries EXCEPT ![s] = [packet_id |-> id,
                                       timestamp |-> now,
                                       active    |-> TRUE]]

RaisedAlways(s) == count + 1                          \* mutant: count++
RaisedLate(s) == IF s > count THEN s + 1 ELSE count   \* mutant: > for >=

\* count after slot s is filled
Raised(s) == IF s >= count THEN s + 1 ELSE count

Add(id) ==
    \/ \E s \in Slot :
         /\ ~Live(s)
         /\ \A r \in 0 .. s - 1 : Live(r)
         /\ Put(s, id)
         /\ count' = Raised(s)
    \/ /\ \A s \in Slot : Live(s)
       /\ \E s \in Slot : Oldest(s) /\ Put(s, id)
       /\ UNCHANGED count

\* vex_mesh_receive adds the id its check found new.
MarkSeen ==
    /\ pending # NoId
    /\ Add(pending)
    /\ pending' = NoId
    /\ UNCHANGED <<now, lastPrune>>

(* vex_mesh_send adds the id of its own packet without a check.  The id is *)
(* fresh: the hash of a random nonce (vex_packet_make_id).                 *)
MarkSent(id) ==
    /\ pending = NoId
    /\ \A s \in Slot : Live(s) => entries[s].packet_id # id
    /\ Add(id)
    /\ UNCHANGED <<pending, now, lastPrune>>

\* vex_seen_prune, when the main loop finds it due.
Prune ==
    /\ pending = NoId
    /\ now - lastPrune > PruneGap
    /\ entries' = Retire(Scanned)
    /\ lastPrune' = now
    /\ UNCHANGED <<count, pending, now>>

Tick ==
    /\ now < MaxTime
    /\ now' = now + 1
    /\ UNCHANGED <<entries, count, pending, lastPrune>>

Init ==
    /\ entries = [s \in Slot |-> [packet_id |-> NoId, timestamp |-> 0, active |-> FALSE]]
    /\ count = 0
    /\ pending = NoId
    /\ now = 0
    /\ lastPrune = 0

Next ==
    \/ \E id \in Id : CheckHit(id) \/ CheckMiss(id) \/ MarkSent(id)
    \/ MarkSeen
    \/ Prune
    \/ Tick

Spec == Init /\ [][Next]_vars

(***************************************************************************)
(* Properties.                                                             *)
(***************************************************************************)

\* The types of the variables; timestamps never lie in the future.
TypeOK ==
    /\ entries \in [Slot -> Entry]
    /\ count \in 0 .. Capacity
    /\ pending \in Id \cup {NoId}
    /\ now \in 0 .. MaxTime
    /\ lastPrune \in 0 .. now
    /\ \A s \in Slot : /\ entries[s].timestamp <= now
                       /\ entries[s].active => entries[s].packet_id \in Id

(* Check and prune scan only below count, add fills any slot of the array: *)
(* an active slot at or above count would be a packet the node has seen    *)
(* and cannot find (seen.c:16, :44, :67).                                  *)
ActiveBelowCount == \A s \in Slot : entries[s].active => s < count

(* No id is live in two slots, and the id between vex_seen_check and       *)
(* vex_seen_add is live in none, although a second may pass between the    *)
(* two calls and add may take a slot before the one check looked at.  A    *)
(* second copy would waste a slot and outlive the first.                   *)
NoDuplicateLive ==
    \A r, s \in Slot :
      /\ Live(r) /\ pending # NoId => entries[r].packet_id # pending
      /\ Live(r) /\ Live(s) /\ entries[r].packet_id = entries[s].packet_id => r = s

(* Every call does to the set of live ids exactly what SeenMap promises:   *)
(* the answer of check, what is kept and what is lost by add, and that     *)
(* check and prune, which deactivate slots, never change that set.         *)
Map == INSTANCE SeenMap WITH
         remembered <- {[id |-> entries[s].packet_id, at |-> entries[s].timestamp] :
                          s \in {t \in Slot : Live(t)}}

ImplementsSeenMap == Map!MapSpec

=============================================================================
