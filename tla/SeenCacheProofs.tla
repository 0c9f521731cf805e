-------------------------- MODULE SeenCacheProofs --------------------------
(***************************************************************************)
(* The cache of SeenCache is well formed and holds no id twice; it is the  *)
(* map of SeenMap, whatever its slots, flags, count and scans do; and it   *)
(* forgets what SeenCacheLog says and no more.  For every capacity, TTL,   *)
(* prune period and set of ids.                                            *)
(***************************************************************************)
EXTENDS SeenCacheLog, FiniteSetTheorems, TLAPS

(***************************************************************************)
(* What a step can do to the slots.                                        *)
(***************************************************************************)

(* Each slot is as it was, or deactivated because it had expired: the      *)
(* effect of vex_seen_check and vex_seen_prune on the array.               *)
Retired ==
    /\ entries' \in [Slot -> Entry]
    /\ \A s \in Slot :
         \/ entries'[s] = entries[s]
         \/ /\ Expired(entries[s])
            /\ entries'[s] = [entries[s] EXCEPT !.active = FALSE]

\* Slot t is not live, or it is the oldest of a full cache.
Chosen(t) == Live(t) => Oldest(t) /\ \A s \in Slot : Live(s)

\* Slot t is filled with id, and the others are as they were: vex_seen_add.
Filled(t, id) ==
    /\ t \in Slot
    /\ entries' = [entries EXCEPT ![t] = [packet_id |-> id, timestamp |-> now,
                                         active |-> TRUE]]
    /\ count' \in 0 .. Capacity
    /\ count' >= count
    /\ t < count'

(* Retire deactivates expired slots and nothing else, whatever it scans.   *)
LEMMA RetireLemma ==
    ASSUME TypeOK, NEW S, entries' = Retire(S)
    PROVE  Retired
<1>1. ASSUME NEW s \in Slot
      PROVE  /\ entries'[s] \in Entry
             /\ \/ entries'[s] = entries[s]
                \/ /\ Expired(entries[s])
                   /\ entries'[s] = [entries[s] EXCEPT !.active = FALSE]
  <2>1. entries[s] \in Entry
    BY DEF TypeOK
  <2>2. entries'[s] = IF s \in S /\ Expired(entries[s])
                        THEN [entries[s] EXCEPT !.active = FALSE]
                        ELSE entries[s]
    BY DEF Retire
  <2> QED BY <2>1, <2>2 DEF Entry
<1>2. entries' \in [Slot -> Entry]
  BY <1>1 DEF Retire
<1> QED BY <1>1, <1>2 DEF Retired

(* When every slot is active below count, and all are live, the cache has  *)
(* been filled up to its capacity.                                         *)
LEMMA FullCount ==
    ASSUME TypeOK, ActiveBelowCount, \A s \in Slot : Live(s)
    PROVE  count = Capacity
<1>1. Capacity - 1 \in Slot
  BY CacheAssumption DEF Slot
<1>2. Capacity - 1 < count
  BY <1>1 DEF ActiveBelowCount, Live
<1> QED BY <1>2, CacheAssumption DEF TypeOK

(* Add fills one slot, the one it chooses, and raises count above it.      *)
LEMMA AddLemma ==
    ASSUME TypeOK, ActiveBelowCount, NEW id \in Id, Add(id)
    PROVE  \E t \in Slot : Filled(t, id) /\ Chosen(t)
<1>1. CASE \E s \in Slot : /\ ~Live(s)
                           /\ \A r \in 0 .. s - 1 : Live(r)
                           /\ Put(s, id)
                           /\ count' = Raised(s)
  <2>1. PICK s \in Slot : ~Live(s) /\ Put(s, id) /\ count' = Raised(s)
    BY <1>1
  <2>2. count \in Nat /\ s \in Nat /\ s < Capacity /\ count <= Capacity /\ Capacity \in Nat
    BY CacheAssumption DEF Slot, TypeOK
  <2>3. count' \in 0 .. Capacity /\ count' >= count /\ s < count'
    BY <2>1, <2>2 DEF Raised
  <2>4. Filled(s, id) /\ Chosen(s)
    BY <2>1, <2>3 DEF Filled, Put, Chosen
  <2> QED BY <2>4
<1>2. CASE /\ \A s \in Slot : Live(s)
           /\ \E s \in Slot : Oldest(s) /\ Put(s, id)
           /\ UNCHANGED count
  <2>1. count = Capacity
    BY <1>2, FullCount
  <2>2. PICK s \in Slot : Oldest(s) /\ Put(s, id)
    BY <1>2
  <2>3. count' \in 0 .. Capacity /\ count' >= count /\ s < count'
    BY <1>2, <2>1, CacheAssumption DEF Slot
  <2>4. Filled(s, id) /\ Chosen(s)
    BY <1>2, <2>2, <2>3 DEF Filled, Put, Chosen
  <2> QED BY <2>4
<1> QED BY <1>1, <1>2 DEF Add

(***************************************************************************)
(* Well-formedness: TypeOK and ActiveBelowCount together are inductive.    *)
(* TypeOK alone is not: add raises count only because an unused slot is    *)
(* found below it or right at it, and a full cache has count = Capacity.   *)
(***************************************************************************)
WellFormed == TypeOK /\ ActiveBelowCount

\* The empty cache is well formed.
LEMMA InitWellFormed == Init => WellFormed
<1> SUFFICES ASSUME Init PROVE WellFormed
  OBVIOUS
<1>1. TypeOK
  BY CacheAssumption DEF Init, TypeOK, Entry, Slot
<1>2. ActiveBelowCount
  BY DEF Init, ActiveBelowCount
<1> QED BY <1>1, <1>2 DEF WellFormed

(* check and prune keep the cache well formed.                             *)
LEMMA RetiredWellFormed ==
    ASSUME WellFormed, Retired, UNCHANGED <<count, now>>,
           pending' \in Id \cup {NoId}, lastPrune' \in 0 .. now
    PROVE  WellFormed'
<1>1. ASSUME NEW s \in Slot
      PROVE  /\ entries'[s].timestamp <= now
             /\ entries'[s].active => entries'[s].packet_id \in Id /\ s < count
  <2>1. /\ entries[s] \in Entry
        /\ entries[s].timestamp <= now
        /\ entries[s].active => entries[s].packet_id \in Id /\ s < count
    BY DEF WellFormed, TypeOK, ActiveBelowCount
  <2>2. CASE entries'[s] = entries[s]
    BY <2>1, <2>2
  <2>3. CASE entries'[s] = [entries[s] EXCEPT !.active = FALSE]
    BY <2>1, <2>3 DEF Entry
  <2> QED BY <2>2, <2>3 DEF Retired
<1>2. TypeOK'
  BY <1>1 DEF Retired, WellFormed, TypeOK
<1>3. ActiveBelowCount'
  BY <1>1 DEF ActiveBelowCount
<1> QED BY <1>2, <1>3 DEF WellFormed

(* add keeps the cache well formed.                                        *)
LEMMA FilledWellFormed ==
    ASSUME WellFormed, NEW id \in Id, NEW t \in Slot, Filled(t, id),
           UNCHANGED <<now, lastPrune>>, pending' \in Id \cup {NoId}
    PROVE  WellFormed'
<1> DEFINE new == [packet_id |-> id, timestamp |-> now, active |-> TRUE]
<1>1. new \in Entry /\ now \in Nat
  BY CacheAssumption DEF WellFormed, TypeOK, Entry
<1>2. entries' = [entries EXCEPT ![t] = new]
  BY DEF Filled
<1>3. entries' \in [Slot -> Entry]
  BY <1>1, <1>2 DEF WellFormed, TypeOK
<1>4. ASSUME NEW s \in Slot
      PROVE  /\ entries'[s].timestamp <= now
             /\ entries'[s].active => entries'[s].packet_id \in Id /\ s < count'
  <2>1. /\ entries[s].timestamp <= now
        /\ entries[s].active => entries[s].packet_id \in Id /\ s < count
    BY DEF WellFormed, TypeOK, ActiveBelowCount
  <2>2. CASE s = t
    <3>1. entries'[s] = new
      BY <1>2, <2>2 DEF WellFormed, TypeOK
    <3> QED BY <1>1, <2>2, <3>1 DEF Filled
  <2>3. CASE s # t
    <3>1. entries'[s] = entries[s]
      BY <1>2, <2>3 DEF WellFormed, TypeOK
    <3>2. s < count => s < count'
      BY CacheAssumption DEF Slot, WellFormed, TypeOK, Filled
    <3> QED BY <2>1, <3>1, <3>2
  <2> QED BY <2>2, <2>3
<1>5. TypeOK'
  BY <1>3, <1>4 DEF WellFormed, TypeOK, Filled
<1>6. ActiveBelowCount'
  BY <1>4 DEF ActiveBelowCount
<1> QED BY <1>5, <1>6 DEF WellFormed

\* Every call keeps it so.
LEMMA NextWellFormed == WellFormed /\ [Next]_vars => WellFormed'
<1> SUFFICES ASSUME WellFormed, [Next]_vars PROVE WellFormed'
  OBVIOUS
<1> USE CacheAssumption
<1>0. TypeOK /\ ActiveBelowCount
  BY DEF WellFormed
<1>1. ASSUME NEW id \in Id, CheckHit(id) PROVE WellFormed'
  <2>1. Retired
    BY <1>0, <1>1, RetireLemma DEF CheckHit
  <2> QED BY <1>0, <1>1, <2>1, RetiredWellFormed DEF CheckHit, TypeOK
<1>2. ASSUME NEW id \in Id, CheckMiss(id) PROVE WellFormed'
  <2>1. Retired
    BY <1>0, <1>2, RetireLemma DEF CheckMiss
  <2> QED BY <1>0, <1>2, <2>1, RetiredWellFormed DEF CheckMiss, TypeOK
<1>3. ASSUME NEW id \in Id, MarkSent(id) PROVE WellFormed'
  <2>1. PICK t \in Slot : Filled(t, id)
    BY <1>0, <1>3, AddLemma DEF MarkSent
  <2> QED BY <1>0, <1>3, <2>1, FilledWellFormed DEF MarkSent, TypeOK
<1>4. ASSUME MarkSeen PROVE WellFormed'
  <2>1. pending \in Id
    BY <1>0, <1>4 DEF MarkSeen, TypeOK
  <2>2. PICK t \in Slot : Filled(t, pending)
    BY <1>0, <1>4, <2>1, AddLemma DEF MarkSeen
  <2> QED BY <1>4, <2>1, <2>2, FilledWellFormed DEF MarkSeen
<1>5. ASSUME Prune PROVE WellFormed'
  <2>1. Retired
    BY <1>0, <1>5, RetireLemma DEF Prune
  <2>2. lastPrune' \in 0 .. now
    BY <1>0, <1>5 DEF Prune, TypeOK
  <2> QED BY <1>0, <1>5, <2>1, <2>2, RetiredWellFormed DEF Prune, TypeOK
<1>6. ASSUME Tick PROVE WellFormed'
  <2>1. \A s \in Slot : entries[s].timestamp \in Nat
    BY <1>0 DEF TypeOK, Entry
  <2>2. TypeOK'
    BY <1>0, <1>6, <2>1 DEF Tick, TypeOK
  <2>3. ActiveBelowCount'
    BY <1>0, <1>6 DEF Tick, ActiveBelowCount
  <2> QED BY <2>2, <2>3 DEF WellFormed
<1>7. ASSUME UNCHANGED vars PROVE WellFormed'
  BY <1>7 DEF vars, WellFormed, TypeOK, ActiveBelowCount
<1> QED BY <1>1, <1>2, <1>3, <1>4, <1>5, <1>6, <1>7 DEF Next

(* The variables have their types, and no time of a slot lies in the       *)
(* future: vex_seen_add stores time(NULL) and raises count up to the       *)
(* length of the array at most (seen.c:38-61).                             *)
THEOREM CacheTypes == Spec => []TypeOK
<1>1. Spec => []WellFormed
  BY InitWellFormed, NextWellFormed, PTL DEF Spec
<1> QED BY <1>1, PTL DEF WellFormed

(* The cache is well typed, and every active slot lies below count, where  *)
(* vex_seen_check and vex_seen_prune look.                                 *)
THEOREM CacheWellFormed == Spec => [](TypeOK /\ ActiveBelowCount)
<1>1. Spec => []WellFormed
  BY InitWellFormed, NextWellFormed, PTL DEF Spec
<1> QED BY <1>1, PTL DEF WellFormed

(***************************************************************************)
(* The live slots: no call but add changes them, and add only one.         *)
(***************************************************************************)

(* check and prune change no live slot, and make none live.                *)
LEMMA RetiredKeepsLive ==
    ASSUME WellFormed, Retired, now' = now, NEW s \in Slot
    PROVE  /\ Live(s)' <=> Live(s)
           /\ entries'[s].packet_id = entries[s].packet_id
           /\ entries'[s].timestamp = entries[s].timestamp
<1>1. entries[s] \in Entry
  BY DEF WellFormed, TypeOK
<1>2. CASE entries'[s] = entries[s]
  BY <1>2 DEF Live, Expired
<1>3. CASE /\ Expired(entries[s])
           /\ entries'[s] = [entries[s] EXCEPT !.active = FALSE]
  BY <1>1, <1>3 DEF Live, Expired, Entry
<1> QED BY <1>2, <1>3 DEF Retired

(* add leaves every slot but one as it was, and makes that one live.       *)
LEMMA FilledKeepsLive ==
    ASSUME WellFormed, NEW id \in Id, NEW t \in Slot, Filled(t, id), now' = now,
           NEW s \in Slot
    PROVE  /\ s # t => entries'[s] = entries[s] /\ (Live(s)' <=> Live(s))
           /\ s = t => /\ Live(s)'
                       /\ entries'[s] = [packet_id |-> id, timestamp |-> now,
                                         active |-> TRUE]
<1>1. /\ s # t => entries'[s] = entries[s]
      /\ s = t => entries'[s] = [packet_id |-> id, timestamp |-> now, active |-> TRUE]
  BY DEF Filled, WellFormed, TypeOK
<1>2. now \in Nat /\ TtlSec \in Nat
  BY CacheAssumption DEF WellFormed, TypeOK
<1> QED BY <1>1, <1>2 DEF Live, Expired

(* As time passes, slots only cease to be live.                            *)
LEMMA TickKeepsDead ==
    ASSUME WellFormed, Tick, NEW s \in Slot
    PROVE  /\ entries'[s] = entries[s]
           /\ Live(s)' <=> Live(s) /\ now + 1 - entries[s].timestamp <= TtlSec
<1>1. now \in Nat /\ TtlSec \in Nat /\ entries[s].timestamp \in Nat
  BY CacheAssumption DEF WellFormed, TypeOK, Entry
<1> QED BY <1>1 DEF Tick, Live, Expired

(* A miss of vex_seen_check means that no live slot holds the id: it stops *)
(* at count, and no slot at or above count is active.                      *)
LEMMA MissMeansAbsent ==
    ASSUME WellFormed, NEW id \in Id, \A s \in Slot : ~Holds(s, id),
           NEW s \in Slot, Live(s)
    PROVE  entries[s].packet_id # id
<1>1. s < count
  BY DEF WellFormed, ActiveBelowCount, Live
<1>2. s \in Scanned
  BY <1>1, CacheAssumption DEF Scanned, Slot, WellFormed, TypeOK
<1> QED BY <1>2 DEF Holds

(***************************************************************************)
(* No id is live twice.  The id between check and add is part of the       *)
(* invariant: without it, add could store an id that is there already.     *)
(***************************************************************************)
CacheInv == WellFormed /\ NoDuplicateLive

\* The empty cache has no duplicates.
LEMMA InitCacheInv == Init => CacheInv
<1>1. Init => NoDuplicateLive
  BY DEF Init, NoDuplicateLive, Live
<1> QED BY <1>1, InitWellFormed DEF CacheInv

(* Adding an id that no live slot holds makes no duplicate.                *)
LEMMA FilledNoDuplicate ==
    ASSUME CacheInv, NEW id \in Id, NEW t \in Slot, Filled(t, id),
           now' = now, pending' = NoId,
           \A s \in Slot : Live(s) => entries[s].packet_id # id
    PROVE  NoDuplicateLive'
<1> SUFFICES ASSUME NEW r \in Slot, NEW s \in Slot, Live(r)', Live(s)',
                    entries'[r].packet_id = entries'[s].packet_id
             PROVE  r = s
  BY DEF NoDuplicateLive
<1>1. ASSUME NEW u \in Slot
      PROVE  /\ u # t => entries'[u] = entries[u] /\ (Live(u)' <=> Live(u))
             /\ u = t => entries'[u].packet_id = id
  <2>1. WellFormed
    BY DEF CacheInv
  <2>2. /\ u # t => entries'[u] = entries[u] /\ (Live(u)' <=> Live(u))
        /\ u = t => entries'[u] = [packet_id |-> id, timestamp |-> now, active |-> TRUE]
    BY <2>1, FilledKeepsLive
  <2> QED BY <2>2
<1>2. CASE r = t /\ s # t
  BY <1>1, <1>2
<1>3. CASE r # t /\ s = t
  BY <1>1, <1>3
<1>4. CASE r # t /\ s # t
  BY <1>1, <1>4 DEF CacheInv, NoDuplicateLive
<1> QED BY <1>2, <1>3, <1>4

\* No call makes one.
LEMMA NextCacheInv == CacheInv /\ [Next]_vars => CacheInv'
<1> SUFFICES ASSUME CacheInv, [Next]_vars PROVE CacheInv'
  OBVIOUS
<1>0. WellFormed /\ TypeOK /\ ActiveBelowCount /\ NoDuplicateLive /\ WellFormed'
  BY NextWellFormed DEF CacheInv, WellFormed
<1>1. ASSUME NEW id \in Id, CheckHit(id) PROVE NoDuplicateLive'
  <2>1. Retired /\ now' = now /\ pending' = pending
    BY <1>0, <1>1, RetireLemma DEF CheckHit
  <2> QED BY <1>0, <2>1, RetiredKeepsLive DEF NoDuplicateLive
<1>2. ASSUME NEW id \in Id, CheckMiss(id) PROVE NoDuplicateLive'
  <2>1. Retired /\ now' = now /\ pending' = id
    BY <1>0, <1>2, RetireLemma DEF CheckMiss
  <2>2. \A s \in Slot : Live(s) => entries[s].packet_id # id
    BY <1>0, <1>2, MissMeansAbsent DEF CheckMiss
  <2> QED BY <1>0, <2>1, <2>2, RetiredKeepsLive DEF NoDuplicateLive
<1>3. ASSUME NEW id \in Id, MarkSent(id) PROVE NoDuplicateLive'
  <2>1. PICK t \in Slot : Filled(t, id)
    BY <1>0, <1>3, AddLemma DEF MarkSent
  <2> QED BY <1>3, <2>1, FilledNoDuplicate DEF MarkSent
<1>4. ASSUME MarkSeen PROVE NoDuplicateLive'
  <2>1. pending \in Id /\ pending # NoId
    BY <1>0, <1>4 DEF MarkSeen, TypeOK
  <2>2. PICK t \in Slot : Filled(t, pending)
    BY <1>0, <1>4, <2>1, AddLemma DEF MarkSeen
  <2>3. \A s \in Slot : Live(s) => entries[s].packet_id # pending
    BY <1>0, <2>1 DEF NoDuplicateLive
  <2> QED BY <1>4, <2>1, <2>2, <2>3, FilledNoDuplicate DEF MarkSeen
<1>5. ASSUME Prune PROVE NoDuplicateLive'
  <2>1. Retired /\ now' = now /\ pending' = pending
    BY <1>0, <1>5, RetireLemma DEF Prune
  <2> QED BY <1>0, <2>1, RetiredKeepsLive DEF NoDuplicateLive
<1>6. ASSUME Tick PROVE NoDuplicateLive'
  BY <1>0, <1>6, TickKeepsDead DEF NoDuplicateLive, Tick
<1>7. ASSUME UNCHANGED vars PROVE NoDuplicateLive'
  BY <1>0, <1>7 DEF vars, NoDuplicateLive, Live, Expired
<1>8. NoDuplicateLive'
  BY <1>1, <1>2, <1>3, <1>4, <1>5, <1>6, <1>7 DEF Next
<1> QED BY <1>0, <1>8 DEF CacheInv

(* No id is live in two slots, nor between check and add in any.           *)
THEOREM NoDuplicates == Spec => []NoDuplicateLive
<1>1. Spec => []CacheInv
  BY InitCacheInv, NextCacheInv, PTL DEF Spec
<1> QED BY <1>1, PTL DEF CacheInv

(***************************************************************************)
(* The map: the live slots as the set of records that SeenMap remembers.   *)
(***************************************************************************)
LiveSlots == {t \in Slot : Live(t)}

Rec(s) == [id |-> entries[s].packet_id, at |-> entries[s].timestamp]

\* The refinement mapping of SeenCache: SeenMap's variable `remembered`.
Recent == {[id |-> entries[s].packet_id, at |-> entries[s].timestamp] :
             s \in {t \in Slot : Live(t)}}

\* The map, slot by slot.
LEMMA RememberedRec == Recent = {Rec(s) : s \in LiveSlots}
BY DEF Recent, Rec, LiveSlots

(* Two live slots are two records: their ids differ.                       *)
LEMMA RecInjective ==
    ASSUME NoDuplicateLive, NEW r \in LiveSlots, NEW s \in LiveSlots, Rec(r) = Rec(s)
    PROVE  r = s
<1>1. Rec(r).id = Rec(s).id
  OBVIOUS
<1>2. entries[r].packet_id = entries[s].packet_id
  BY <1>1 DEF Rec
<1> QED BY <1>2 DEF NoDuplicateLive, LiveSlots

(* As many ids are remembered as slots are live, and that is Capacity      *)
(* exactly when every slot is.                                             *)
LEMMA RememberedCardinality ==
    ASSUME NoDuplicateLive
    PROVE  /\ IsFiniteSet(Recent)
           /\ (\A s \in Slot : Live(s)) => Cardinality(Recent) = Capacity
           /\ (\E s \in Slot : ~Live(s)) => Cardinality(Recent) < Capacity
<1> DEFINE f == [s \in LiveSlots |-> Rec(s)]
<1>1. IsFiniteSet(Slot) /\ Cardinality(Slot) = Capacity
  BY CacheAssumption, FS_Interval DEF Slot
<1>2. /\ IsFiniteSet(LiveSlots)
      /\ Cardinality(LiveSlots) <= Capacity
      /\ Cardinality(LiveSlots) = Capacity => LiveSlots = Slot
  <2>1. LiveSlots \in SUBSET Slot
    BY DEF LiveSlots
  <2> QED BY <1>1, <2>1, FS_Subset
<1>3. f \in Bijection(LiveSlots, Recent)
  <2>1. f \in [LiveSlots -> Recent]
    BY RememberedRec
  <2>2. \A r, s \in LiveSlots : f[r] = f[s] => r = s
    BY RecInjective
  <2>3. \A x \in Recent : \E s \in LiveSlots : f[s] = x
    BY RememberedRec
  <2> QED BY <2>1, <2>2, <2>3 DEF Bijection, Injection, Surjection, IsInjective
<1>4. IsFiniteSet(Recent) /\ Cardinality(Recent) = Cardinality(LiveSlots)
  <2>1. ExistsBijection(LiveSlots, Recent)
    BY <1>3 DEF ExistsBijection
  <2> QED BY <1>2, <2>1, FS_Bijection
<1>5. Cardinality(LiveSlots) \in Nat
  BY <1>2, FS_CardinalityType
<1>6. CASE \A s \in Slot : Live(s)
  <2>1. LiveSlots = Slot
    BY <1>6 DEF LiveSlots
  <2> QED BY <1>1, <1>4, <1>6, <2>1
<1>7. CASE \E s \in Slot : ~Live(s)
  <2>1. LiveSlots # Slot
    BY <1>7 DEF LiveSlots
  <2> QED BY <1>2, <1>4, <1>5, <1>7, <2>1, CacheAssumption
<1> QED BY <1>4, <1>6, <1>7

(* SeenMap counts as this module does.                                     *)
LEMMA SameCardinality == ASSUME NEW S PROVE Map!Cardinality(S) = Cardinality(S)
BY DEF Map!Cardinality, Cardinality

(* The answer of vex_seen_check is that of the map.                        *)
LEMMA KnownIsHeld ==
    ASSUME NEW id \in Id
    PROVE  Map!Known(id) <=> \E s \in Slot : Live(s) /\ entries[s].packet_id = id
<1>1. Map!Known(id) <=> \E r \in Recent : r.id = id
  BY DEF Map!Known, Recent
<1>2. (\E r \in Recent : r.id = id) <=> \E s \in LiveSlots : Rec(s).id = id
  BY RememberedRec
<1>3. \A s \in Slot : Rec(s).id = entries[s].packet_id
  BY DEF Rec
<1> QED BY <1>1, <1>2, <1>3 DEF LiveSlots

(* Check and prune change nothing of what is remembered.                   *)
LEMMA RetiredRemembered ==
    ASSUME WellFormed, Retired, now' = now
    PROVE  Recent' = Recent
<1>1. \A s \in Slot : /\ Live(s)' <=> Live(s)
                      /\ entries'[s].packet_id = entries[s].packet_id
                      /\ entries'[s].timestamp = entries[s].timestamp
  BY RetiredKeepsLive
<1> QED BY <1>1 DEF Recent

(* What add does to the set: the new id joins, and leaves out the record   *)
(* of the slot it takes, if that was live.                                 *)
LEMMA FilledRemembered ==
    ASSUME CacheInv, NEW id \in Id, NEW t \in Slot, Filled(t, id), now' = now
    PROVE  LET new == [id |-> id, at |-> now]
           IN  /\ ~Live(t) => Recent' = Recent \cup {new}
               /\ Live(t) => Recent' = (Recent \ {Rec(t)}) \cup {new}
<1> DEFINE new == [id |-> id, at |-> now]
<1>1. WellFormed /\ NoDuplicateLive
  BY DEF CacheInv
<1>2. ASSUME NEW s \in Slot
      PROVE  /\ s # t => Rec(s)' = Rec(s) /\ (s \in LiveSlots' <=> s \in LiveSlots)
             /\ s = t => Rec(s)' = new /\ s \in LiveSlots'
  <2>1. /\ s # t => entries'[s] = entries[s] /\ (Live(s)' <=> Live(s))
        /\ s = t => /\ Live(s)'
                    /\ entries'[s] = [packet_id |-> id, timestamp |-> now, active |-> TRUE]
    BY <1>1, FilledKeepsLive
  <2> QED BY <2>1 DEF Rec, LiveSlots
<1>3. Recent' = {Rec(s)' : s \in LiveSlots'}
  BY DEF Recent, Rec, LiveSlots
<1>4. LiveSlots' = LiveSlots \cup {t} /\ LiveSlots \subseteq Slot
  BY <1>2 DEF LiveSlots
<1>5. Recent' = {Rec(s) : s \in LiveSlots \ {t}} \cup {new}
  BY <1>2, <1>3, <1>4
<1>6. CASE ~Live(t)
  <2>1. LiveSlots \ {t} = LiveSlots
    BY <1>6 DEF LiveSlots
  <2> QED BY <1>5, <1>6, <2>1, RememberedRec
<1>7. CASE Live(t)
  <2>1. t \in LiveSlots
    BY <1>7 DEF LiveSlots
  <2>2. \A s \in LiveSlots : s # t => Rec(s) # Rec(t)
    BY <1>1, <2>1, RecInjective
  <2>3. {Rec(s) : s \in LiveSlots \ {t}} = Recent \ {Rec(t)}
    BY <2>1, <2>2, RememberedRec
  <2> QED BY <1>5, <1>7, <2>3
<1> QED BY <1>6, <1>7

(* vex_seen_add remembers as the map does.                                 *)
LEMMA AddRemembers ==
    ASSUME CacheInv, NEW id \in Id, Add(id), now' = now
    PROVE  Map!Remember(id)
<1> DEFINE new == [id |-> id, at |-> now]
<1>0. WellFormed /\ NoDuplicateLive /\ TypeOK /\ ActiveBelowCount
  BY DEF CacheInv, WellFormed
<1>1. /\ IsFiniteSet(Recent)
      /\ (\A s \in Slot : Live(s)) => Cardinality(Recent) = Capacity
      /\ (\E s \in Slot : ~Live(s)) => Cardinality(Recent) < Capacity
  BY <1>0, RememberedCardinality
<1>2. CASE \E s \in Slot : ~Live(s)
  <2>1. PICK t \in Slot : ~Live(t) /\ Put(t, id) /\ count' = Raised(t)
    BY <1>2 DEF Add
  <2>2. Filled(t, id)
    <3>1. /\ count \in Nat /\ t \in Nat /\ t < Capacity /\ count <= Capacity
          /\ Capacity \in Nat
      BY <1>0, CacheAssumption DEF Slot, TypeOK
    <3>2. count' \in 0 .. Capacity /\ count' >= count /\ t < count'
      BY <2>1, <3>1 DEF Raised
    <3> QED BY <2>1, <3>2 DEF Filled, Put
  <2>3. Recent' = Recent \cup {new}
    BY <2>1, <2>2, FilledRemembered
  <2> QED BY <1>1, <1>2, <2>3, SameCardinality DEF Map!Remember, Recent
<1>3. CASE \A s \in Slot : Live(s)
  <2>1. PICK t \in Slot : Oldest(t) /\ Put(t, id) /\ UNCHANGED count
    BY <1>3 DEF Add
  <2>2. Filled(t, id)
    <3>1. count = Capacity
      BY <1>0, <1>3, FullCount
    <3>2. count' \in 0 .. Capacity /\ count' >= count /\ t < count'
      BY <2>1, <3>1, CacheAssumption DEF Slot
    <3> QED BY <2>1, <3>2 DEF Filled, Put
  <2>3. Recent' = (Recent \ {Rec(t)}) \cup {new}
    BY <1>3, <2>2, FilledRemembered
  <2>4. Rec(t) \in Recent
    BY <1>3, RememberedRec DEF LiveSlots
  <2>5. \A r \in Recent : Rec(t).at <= r.at
    BY <2>1, RememberedRec DEF Oldest, Rec, LiveSlots
  <2>6. /\ Cardinality(Recent) = Capacity
        /\ \E lost \in Recent :
             /\ \A r \in Recent : lost.at <= r.at
             /\ Recent' = (Recent \ {lost}) \cup {new}
    BY <1>1, <1>3, <2>3, <2>4, <2>5
  <2> QED BY <2>6, SameCardinality DEF Map!Remember, Recent
<1> QED BY <1>2, <1>3

(* An initial state of the cache is an empty map.                          *)
LEMMA InitMaps == Init => Map!MapInit
BY DEF Init, Map!MapInit, Live

(* Every step of the cache is a step of the map, or leaves it unchanged.   *)
LEMMA NextMaps == CacheInv /\ [Next]_vars => [Map!MapNext]_(Map!mapVars)
<1> SUFFICES ASSUME CacheInv, [Next]_vars PROVE [Map!MapNext]_(Map!mapVars)
  OBVIOUS
<1> USE DEF Map!MapNext, Map!mapVars
<1>0. WellFormed /\ NoDuplicateLive /\ TypeOK /\ ActiveBelowCount
  BY DEF CacheInv, WellFormed
<1>1. ASSUME NEW id \in Id, CheckHit(id) PROVE Map!Ask(id)
  <2>1. Retired /\ now' = now
    BY <1>0, <1>1, RetireLemma DEF CheckHit
  <2>2. Recent' = Recent
    BY <1>0, <2>1, RetiredRemembered
  <2>3. Map!Known(id)
    BY <1>1, KnownIsHeld DEF CheckHit, Holds
  <2> QED BY <1>1, <2>2, <2>3 DEF CheckHit, Map!Ask, Recent
<1>2. ASSUME NEW id \in Id, CheckMiss(id) PROVE Map!Ask(id)
  <2>1. Retired /\ now' = now
    BY <1>0, <1>2, RetireLemma DEF CheckMiss
  <2>2. Recent' = Recent
    BY <1>0, <2>1, RetiredRemembered
  <2>3. \A s \in Slot : Live(s) => entries[s].packet_id # id
    BY <1>0, <1>2, MissMeansAbsent DEF CheckMiss
  <2>4. ~Map!Known(id)
    BY <2>3, KnownIsHeld
  <2> QED BY <1>2, <2>2, <2>4 DEF CheckMiss, Map!Ask, Recent
<1>3. ASSUME NEW id \in Id, MarkSent(id) PROVE Map!MapMarkSent(id)
  <2>1. Map!Remember(id)
    BY <1>3, AddRemembers DEF MarkSent
  <2>2. ~Map!Known(id)
    BY <1>3, KnownIsHeld DEF MarkSent
  <2> QED BY <1>3, <2>1, <2>2 DEF MarkSent, Map!MapMarkSent
<1>4. ASSUME MarkSeen PROVE Map!MapMarkSeen
  <2>1. PICK id \in Id : id = pending
    BY <1>0, <1>4 DEF MarkSeen, TypeOK
  <2>2. Add(id) /\ now' = now
    BY <1>4, <2>1 DEF MarkSeen, Add, Put
  <2>3. Map!Remember(id)
    BY <2>2, AddRemembers
  <2>4. Map!Remember(pending)
    BY <2>1, <2>3 DEF Map!Remember
  <2> QED BY <1>4, <2>4 DEF MarkSeen, Map!MapMarkSeen
<1>5. ASSUME Prune PROVE UNCHANGED Map!mapVars
  <2>1. Retired /\ now' = now
    BY <1>0, <1>5, RetireLemma DEF Prune
  <2>2. Recent' = Recent
    BY <1>0, <2>1, RetiredRemembered
  <2> QED BY <1>5, <2>2 DEF Prune, Recent
<1>6. ASSUME Tick PROVE Map!MapTick
  <2>1. \A s \in Slot : /\ entries'[s] = entries[s]
                        /\ Live(s)' <=> Live(s) /\ now + 1 - entries[s].timestamp <= TtlSec
    BY <1>0, <1>6, TickKeepsDead
  <2>2. Recent' = {r \in Recent : now + 1 - r.at <= TtlSec}
    BY <2>1 DEF Recent
  <2> QED BY <1>6, <2>2 DEF Tick, Map!MapTick, Recent
<1>7. ASSUME UNCHANGED vars PROVE UNCHANGED Map!mapVars
  BY <1>7 DEF vars, Live, Expired
<1> QED BY <1>1, <1>2, <1>3, <1>4, <1>5, <1>6, <1>7 DEF Next

(* The cache of seen.c implements the map.                                 *)
THEOREM CacheImplementsMap == Spec => ImplementsSeenMap
<1>1. Spec => []CacheInv
  BY InitCacheInv, NextCacheInv, PTL DEF Spec
<1>2. Spec => Map!MapSpec
  BY <1>1, InitMaps, NextMaps, PTL DEF Spec, Map!MapSpec
<1> QED BY <1>2 DEF ImplementsSeenMap

(***************************************************************************)
(* What is remembered, in terms of what was added.  The invariant: the log *)
(* is in the order of time; a live slot is in it, or older than all of it; *)
(* an id added again is remembered as of the last time; and an id that is  *)
(* fresh and not remembered has been crowded out.                          *)
(***************************************************************************)
LogRecord == [id : Id, at : Nat]

LogTypeOK ==
    /\ log \in Seq(LogRecord)
    /\ Len(log) <= Window
    /\ \A i \in DOMAIN log : log[i].at <= now

InOrder == \A i, j \in DOMAIN log : i <= j => log[i].at <= log[j].at

\* The record of slot s is in the log, or had to leave it.
Accounted(s) ==
    \/ \E i \in DOMAIN log : log[i] = Rec(s)
    \/ Len(log) = Window /\ entries[s].timestamp <= log[1].at

Latest(s) ==
    \A i \in DOMAIN log : log[i].id = entries[s].packet_id => log[i].at <= entries[s].timestamp

\* More than Capacity adds were made in second t or after.
Crowded(t) == Len(log) > Capacity /\ log[Len(log) - Capacity].at >= t

\* Capacity adds were made in second t or after: one more makes a crowd.
Gathered(t) == Len(log) >= Capacity /\ log[Len(log) + 1 - Capacity].at >= t

Kept == \A i \in DOMAIN log : Fresh(i) => Remembered(log[i].id) \/ Crowded(log[i].at)

LogInv ==
    /\ CacheInv
    /\ LogTypeOK
    /\ InOrder
    /\ \A s \in Slot : Live(s) => Accounted(s) /\ Latest(s)
    /\ Kept

\* The log, element by element.
LEMMA LogElements ==
    ASSUME LogTypeOK
    PROVE  /\ Len(log) \in Nat /\ Len(log) <= Window
           /\ DOMAIN log = 1 .. Len(log)
           /\ \A i \in 1 .. Len(log) : log[i] \in LogRecord /\ log[i].at \in Nat /\ log[i].id \in Id
<1>1. \A i \in 1 .. Len(log) : log[i] \in LogRecord
  BY DEF LogTypeOK
<1> QED BY <1>1 DEF LogTypeOK, LogRecord

(* A log that is crowded since t has more than Capacity adds since t.      *)
LEMMA CrowdedCounts ==
    ASSUME LogTypeOK, InOrder, NEW t \in Nat, Crowded(t)
    PROVE  Cardinality({j \in DOMAIN log : log[j].at >= t}) > Capacity
<1> DEFINE L == Len(log)
           late == L - Capacity .. L
           S == {j \in DOMAIN log : log[j].at >= t}
<1>1. /\ L \in Nat /\ DOMAIN log = 1 .. L /\ Capacity \in Nat
      /\ \A i \in 1 .. L : log[i].at \in Nat
  BY LogElements, CacheAssumption
<1>2. L > Capacity /\ log[L - Capacity].at >= t
  BY DEF Crowded
<1> HIDE DEF L
<1>3. late \subseteq S
  <2> SUFFICES ASSUME NEW j \in late PROVE j \in DOMAIN log /\ log[j].at >= t
    OBVIOUS
  <2>1. /\ j \in 1 .. L /\ L - Capacity \in 1 .. L /\ L - Capacity <= j
    BY <1>1, <1>2
  <2>2. log[L - Capacity].at <= log[j].at
    BY <1>1, <2>1 DEF InOrder
  <2> QED BY <1>1, <1>2, <2>1, <2>2
<1>4. IsFiniteSet(late) /\ Cardinality(late) = Capacity + 1
  <2>1. /\ IsFiniteSet(late)
        /\ Cardinality(late) = IF L - Capacity > L THEN 0 ELSE L - (L - Capacity) + 1
    BY <1>1, FS_Interval
  <2> QED BY <1>1, <2>1
<1>5. IsFiniteSet(S)
  <2>1. S \in SUBSET (1 .. L) /\ IsFiniteSet(1 .. L)
    BY <1>1, FS_Interval
  <2> QED BY <2>1, FS_Subset
<1>6. Cardinality(late) <= Cardinality(S) /\ Cardinality(S) \in Nat
  BY <1>3, <1>5, FS_Subset, FS_CardinalityType
<1> QED BY <1>1, <1>4, <1>6

(* The log after an add: what was in it has moved down by one or not, and  *)
(* the new record is last.                                                 *)
LEMMA LoggedElements ==
    ASSUME LogTypeOK, NEW id \in Id, now \in Nat, Logged(id),
           NEW d, d = IF Len(log) = Window THEN 1 ELSE 0
    PROVE  /\ log' \in Seq(LogRecord)
           /\ Len(log') = Len(log) + 1 - d
           /\ Len(log') <= Window
           /\ \A i \in 1 .. Len(log) - d : log'[i] = log[i + d]
           /\ log'[Len(log')] = [id |-> id, at |-> now]
<1> DEFINE new == [id |-> id, at |-> now]
           L == Len(log)
           old == IF L = Window THEN Tail(log) ELSE log
<1>1. /\ L \in Nat /\ L <= Window /\ log \in Seq(LogRecord) /\ new \in LogRecord
      /\ Window \in Nat /\ Window > 0
  BY LogElements, CacheAssumption, WindowAssumption DEF LogTypeOK, LogRecord
<1>2. /\ old \in Seq(LogRecord) /\ Len(old) = L - d
      /\ \A i \in 1 .. L - d : old[i] = log[i + d]
  <2>1. CASE L = Window
    <3>1. log # <<>>
      BY <1>1, <2>1
    <3>2. /\ Tail(log) \in Seq(LogRecord) /\ Len(Tail(log)) = L - 1
          /\ \A i \in 1 .. L - 1 : Tail(log)[i] = log[i + 1]
      BY <1>1, <3>1
    <3> QED BY <2>1, <3>2
  <2>2. CASE L # Window
    BY <1>1, <2>2
  <2> QED BY <2>1, <2>2
<1>3. log' = Append(old, new)
  BY DEF Logged
<1> HIDE DEF old, new
<1>4. /\ log' \in Seq(LogRecord) /\ Len(log') = Len(old) + 1
      /\ \A i \in 1 .. Len(old) : log'[i] = old[i]
      /\ log'[Len(old) + 1] = new
  BY <1>1, <1>2, <1>3
<1>5. d \in {0, 1} /\ L - d + 1 = L + 1 - d /\ L + 1 - d <= Window
  BY <1>1
<1> QED BY <1>2, <1>4, <1>5 DEF new

\* An add keeps the log in the order of time.
LEMMA LoggedInOrder ==
    ASSUME LogTypeOK, InOrder, NEW id \in Id, now \in Nat, now' = now, Logged(id)
    PROVE  LogTypeOK' /\ InOrder'
<1> DEFINE L == Len(log)
           d == IF L = Window THEN 1 ELSE 0
           new == [id |-> id, at |-> now]
<1>1. /\ L \in Nat /\ DOMAIN log = 1 .. L
      /\ \A i \in 1 .. L : log[i].at \in Nat /\ log[i].at <= now
  BY LogElements DEF LogTypeOK
<1>2. /\ log' \in Seq(LogRecord)
      /\ Len(log') = L + 1 - d
      /\ Len(log') <= Window
      /\ \A i \in 1 .. L - d : log'[i] = log[i + d]
      /\ log'[Len(log')] = new
  BY LoggedElements
<1>3. d \in {0, 1} /\ L + 1 - d - 1 = L - d
  BY <1>1
<1>4. DOMAIN log' = 1 .. L + 1 - d
  BY <1>2
<1> HIDE DEF d, L
<1>5. ASSUME NEW i \in 1 .. L + 1 - d
      PROVE  \/ i = L + 1 - d /\ log'[i].at = now
             \/ i \in 1 .. L - d /\ i + d \in 1 .. L /\ log'[i].at = log[i + d].at
  <2>1. CASE i = L + 1 - d
    BY <1>2, <2>1
  <2>2. CASE i # L + 1 - d
    <3>1. i \in 1 .. L - d /\ i + d \in 1 .. L
      BY <1>1, <1>3, <2>2
    <3> QED BY <1>2, <3>1
  <2> QED BY <2>1, <2>2
<1>6. ASSUME NEW i \in 1 .. L + 1 - d, NEW j \in 1 .. L + 1 - d, i <= j
      PROVE  log'[i].at <= log'[j].at /\ log'[i].at <= now
  <2>1. CASE j = L + 1 - d
    BY <1>1, <1>3, <1>5, <2>1
  <2>2. CASE j # L + 1 - d
    <3>1. i # L + 1 - d
      BY <1>1, <1>3, <1>6, <2>2
    <3>2. /\ i + d \in 1 .. L /\ log'[i].at = log[i + d].at
          /\ j + d \in 1 .. L /\ log'[j].at = log[j + d].at
      BY <1>5, <2>2, <3>1
    <3>3. i + d <= j + d
      BY <1>3, <1>6
    <3> QED BY <1>1, <3>2, <3>3 DEF InOrder
  <2> QED BY <2>1, <2>2
<1>7. InOrder'
  BY <1>4, <1>6 DEF InOrder
<1>8. LogTypeOK'
  <2>1. \A i \in 1 .. L + 1 - d : log'[i].at <= now'
    BY <1>1, <1>3, <1>5
  <2>2. Window' = Window
    OBVIOUS
  <2> QED BY <1>2, <1>4, <2>1 DEF LogTypeOK
<1> QED BY <1>7, <1>8

\* A crowd since t can only grow.
LEMMA StillCrowded ==
    ASSUME LogTypeOK, InOrder, NEW id \in Id, now \in Nat, Logged(id),
           NEW t \in Nat, Crowded(t) \/ Gathered(t)
    PROVE  Crowded(t)'
<1> DEFINE L == Len(log)
           d == IF L = Window THEN 1 ELSE 0
<1>1. /\ L \in Nat /\ DOMAIN log = 1 .. L
      /\ \A i \in 1 .. L : log[i].at \in Nat
      /\ Capacity \in Nat /\ Capacity > 0 /\ Window \in Nat /\ Window > Capacity
  BY LogElements, CacheAssumption, WindowAssumption
<1>2. /\ Len(log') = L + 1 - d
      /\ \A i \in 1 .. L - d : log'[i] = log[i + d]
  BY LoggedElements
<1>3. d \in {0, 1} /\ (d = 1 => L = Window)
  <2>1. CASE L = Window
    BY <2>1
  <2>2. CASE L # Window
    BY <2>2
  <2> QED BY <2>1, <2>2
<1>4. L >= Capacity /\ log[L + 1 - Capacity].at >= t
  <2>1. CASE Crowded(t)
    <3>1. L > Capacity /\ log[L - Capacity].at >= t
      BY <2>1 DEF Crowded
    <3> HIDE DEF L
    <3>2. L - Capacity \in 1 .. L /\ L + 1 - Capacity \in 1 .. L /\ L - Capacity <= L + 1 - Capacity
      BY <1>1, <3>1
    <3>3. log[L - Capacity].at <= log[L + 1 - Capacity].at
      BY <1>1, <3>2 DEF InOrder
    <3> QED BY <1>1, <3>1, <3>2, <3>3
  <2> QED BY <2>1 DEF Gathered
<1> HIDE DEF L, d
<1>5. /\ L + 1 - d > Capacity
      /\ L + 1 - d - Capacity \in 1 .. L - d
      /\ L + 1 - d - Capacity + d = L + 1 - Capacity
  <2>1. /\ L \in Nat /\ Capacity \in Nat /\ Capacity > 0 /\ Window > Capacity /\ Window \in Nat
        /\ L >= Capacity /\ d \in {0, 1} /\ (d = 1 => L = Window)
    BY <1>1, <1>3, <1>4
  <2>2. CASE d = 0
    BY <2>1, <2>2
  <2>3. CASE d = 1
    BY <2>1, <2>3
  <2> QED BY <2>1, <2>2, <2>3
<1>6. log'[L + 1 - d - Capacity].at >= t
  BY <1>2, <1>4, <1>5
<1>7. Len(log') = L + 1 - d
  BY <1>2
<1>8. Len(log') > Capacity
  BY ONLY <1>5, <1>7
<1>9. log'[Len(log') - Capacity].at >= t
  <2>1. Len(log') - Capacity = L + 1 - d - Capacity
    BY <1>1, <1>3, <1>7
  <2> QED BY <1>6, <2>1
<1> QED BY <1>8, <1>9 DEF Crowded

(* When a live slot is evicted, it is the oldest of Capacity live ones,    *)
(* and these were all added since: so there is a crowd since its second.   *)
LEMMA EvictedIsCrowded ==
    ASSUME LogInv, \A s \in Slot : Live(s), NEW t \in Slot, Oldest(t)
    PROVE  Gathered(entries[t].timestamp)
<1> DEFINE L == Len(log)
           T == entries[t].timestamp
<1>1. /\ L \in Nat /\ DOMAIN log = 1 .. L
      /\ \A i \in 1 .. L : log[i].at \in Nat
      /\ Capacity \in Nat /\ Capacity > 0 /\ Window \in Nat /\ Window > Capacity
      /\ \A s \in Slot : entries[s].timestamp \in Nat /\ T <= entries[s].timestamp
  <2>1. \A s \in Slot : entries[s] \in Entry
    BY DEF LogInv, CacheInv, WellFormed, TypeOK
  <2>2. \A s \in Slot : entries[s].timestamp \in Nat /\ T <= entries[s].timestamp
    BY <2>1 DEF Oldest, Entry
  <2> QED BY <2>2, LogElements, CacheAssumption, WindowAssumption DEF LogInv
<1>2. NoDuplicateLive /\ InOrder
  BY DEF LogInv, CacheInv
<1>3. CASE \E s \in Slot : L = Window /\ entries[s].timestamp <= log[1].at
  <2>1. PICK s \in Slot : L = Window /\ entries[s].timestamp <= log[1].at
    BY <1>3
  <2> HIDE DEF L
  <2>2. 1 \in 1 .. L /\ L + 1 - Capacity \in 1 .. L /\ 1 <= L + 1 - Capacity /\ L >= Capacity
    BY <1>1, <2>1
  <2>3. log[1].at <= log[L + 1 - Capacity].at
    BY <1>1, <1>2, <2>2 DEF InOrder
  <2>4. log[L + 1 - Capacity].at >= T
    <3>1. /\ T \in Nat /\ T <= entries[s].timestamp /\ entries[s].timestamp \in Nat
          /\ log[1].at \in Nat /\ log[L + 1 - Capacity].at \in Nat
          /\ entries[s].timestamp <= log[1].at
      BY <1>1, <2>1, <2>2
    <3> HIDE DEF T
    <3> QED BY <2>3, <3>1
  <2> QED BY <2>2, <2>4 DEF L, Gathered
<1>4. CASE \A s \in Slot : \E i \in DOMAIN log : log[i] = Rec(s)
  <2> DEFINE f == [s \in Slot |-> CHOOSE i \in DOMAIN log : log[i] = Rec(s)]
             G == IF L >= Capacity THEN L + 2 - Capacity ELSE 1
  <2>1. SUFFICES ASSUME ~(L >= Capacity /\ log[L + 1 - Capacity].at >= T) PROVE FALSE
    BY DEF Gathered
  <2>2. ASSUME NEW s \in Slot
        PROVE  f[s] \in 1 .. L /\ log[f[s]] = Rec(s) /\ T <= log[f[s]].at
    <3>1. f[s] \in 1 .. L /\ log[f[s]] = Rec(s)
      BY <1>1, <1>4
    <3>2. log[f[s]].at = entries[s].timestamp
      BY <3>1 DEF Rec
    <3> QED BY <1>1, <3>1, <3>2
  <2> HIDE DEF f, L, T
  <2>3. ASSUME NEW s \in Slot PROVE f[s] \in G .. L
    <3>1. CASE L >= Capacity
      <4>1. /\ L + 1 - Capacity \in 1 .. L
            /\ ~(log[L + 1 - Capacity].at >= T)
        BY <1>1, <2>1, <3>1
      <4>2. ~(f[s] <= L + 1 - Capacity)
        <5>1. f[s] <= L + 1 - Capacity => log[f[s]].at <= log[L + 1 - Capacity].at
          BY <1>1, <1>2, <2>2, <4>1 DEF InOrder
        <5>2. T \in Nat /\ T <= log[f[s]].at /\ log[f[s]].at \in Nat /\ log[L + 1 - Capacity].at \in Nat
          BY <1>1, <2>2, <4>1 DEF T
        <5> QED BY <4>1, <5>1, <5>2
      <4> QED BY <1>1, <2>2, <3>1, <4>2
    <3>2. CASE ~(L >= Capacity)
      BY <2>2, <3>2
    <3> QED BY <3>1, <3>2
  <2>4. f \in [Slot -> G .. L]
    BY <2>3 DEF f
  <2>5. /\ IsFiniteSet(Slot) /\ Cardinality(Slot) = Capacity
        /\ IsFiniteSet(G .. L) /\ Cardinality(G .. L) < Capacity
    <3>1. G \in Int /\ L \in Int /\ 0 \in Int /\ Capacity - 1 \in Int
      BY <1>1
    <3>2. /\ IsFiniteSet(Slot)
          /\ Cardinality(Slot) = IF 0 > Capacity - 1 THEN 0 ELSE Capacity - 1 - 0 + 1
      BY <3>1, FS_Interval DEF Slot
    <3>3. /\ IsFiniteSet(G .. L)
          /\ Cardinality(G .. L) = IF G > L THEN 0 ELSE L - G + 1
      BY <3>1, FS_Interval
    <3>4. (IF 0 > Capacity - 1 THEN 0 ELSE Capacity - 1 - 0 + 1) = Capacity
      BY <1>1
    <3>5. (IF G > L THEN 0 ELSE L - G + 1) < Capacity
      BY <1>1
    <3> QED BY <3>2, <3>3, <3>4, <3>5
  <2>6. PICK r, s \in Slot : r # s /\ f[r] = f[s]
    BY <2>4, <2>5, FS_PigeonHole
  <2>7. Rec(r) = Rec(s) /\ r \in LiveSlots /\ s \in LiveSlots
    BY <2>2, <2>6 DEF LiveSlots
  <2> QED BY <1>2, <2>6, <2>7, RecInjective
<1> QED BY <1>3, <1>4 DEF LogInv, Accounted
(* An add keeps the log and the cache in step: the new record is logged,   *)
(* and the id that loses its slot is one of a crowd.                       *)
LEMMA LoggedKeepsInv ==
    ASSUME LogInv, CacheInv', now' = now, NEW id \in Id, NEW t \in Slot,
           Filled(t, id), Chosen(t), Logged(id),
           \A s \in Slot : Live(s) => entries[s].packet_id # id
    PROVE  LogInv'
<1> DEFINE L == Len(log)
           d == IF L = Window THEN 1 ELSE 0
           new == [id |-> id, at |-> now]
<1>0. /\ CacheInv /\ WellFormed /\ LogTypeOK /\ InOrder /\ now \in Nat
      /\ \A s \in Slot : entries[s].timestamp \in Nat
  <2>1. \A s \in Slot : entries[s] \in Entry
    BY DEF LogInv, CacheInv, WellFormed, TypeOK
  <2>2. \A s \in Slot : entries[s].timestamp \in Nat
    BY <2>1 DEF Entry
  <2> QED BY <2>2 DEF LogInv, CacheInv, WellFormed, TypeOK
<1>1. LogTypeOK' /\ InOrder'
  BY <1>0, LoggedInOrder
<1>2. ASSUME NEW s \in Slot
      PROVE  /\ s # t => /\ Rec(s)' = Rec(s) /\ entries'[s] = entries[s]
                         /\ Live(s)' <=> Live(s)
             /\ s = t => /\ Live(s)' /\ Rec(s)' = new
                         /\ entries'[s].packet_id = id /\ entries'[s].timestamp = now
  <2>1. /\ s # t => entries'[s] = entries[s] /\ (Live(s)' <=> Live(s))
        /\ s = t => /\ Live(s)'
                    /\ entries'[s] = [packet_id |-> id, timestamp |-> now, active |-> TRUE]
    BY <1>0, FilledKeepsLive
  <2> QED BY <2>1 DEF Rec
<1>3. /\ L \in Nat /\ L <= Window /\ DOMAIN log = 1 .. L
      /\ \A i \in 1 .. L : log[i].at \in Nat
      /\ Capacity \in Nat /\ Capacity > 0 /\ Window \in Nat /\ Window > Capacity
  BY <1>0, LogElements, CacheAssumption, WindowAssumption
<1>4. d \in {0, 1} /\ (d = 1 <=> L = Window)
  <2>1. CASE L = Window
    BY <2>1
  <2>2. CASE L # Window
    BY <2>2
  <2> QED BY <2>1, <2>2
<1>5. /\ Len(log') = L + 1 - d
      /\ \A i \in 1 .. L - d : log'[i] = log[i + d]
      /\ log'[Len(log')] = new
  BY <1>0, LoggedElements
<1> HIDE DEF L, d, new
<1>6. DOMAIN log' = 1 .. L + 1 - d /\ log'[L + 1 - d] = new
  <2>1. DOMAIN log' = 1 .. Len(log')
    BY <1>1 DEF LogTypeOK
  <2> QED BY <1>5, <2>1
<1>7. ASSUME NEW i \in 1 .. L + 1 - d, i # L + 1 - d
      PROVE  i + d \in 1 .. L /\ log'[i] = log[i + d]
  <2>1. i \in 1 .. L - d /\ i + d \in 1 .. L
    BY <1>3, <1>4, <1>7
  <2> QED BY <1>5, <2>1
<1>8. L + 1 - d \in DOMAIN log'
  BY <1>3, <1>4, <1>6
<1>9. ASSUME NEW s \in Slot, Live(s)'
      PROVE  Accounted(s)' /\ Latest(s)'
  <2>1. CASE s = t
    <3>1. Accounted(s)'
      BY <1>2, <1>6, <1>8, <2>1 DEF Accounted
    <3>2. Latest(s)'
      BY <1>1, <1>2, <2>1 DEF Latest, LogTypeOK
    <3> QED BY <3>1, <3>2
  <2>2. CASE s # t
    <3>1. /\ Live(s) /\ Rec(s)' = Rec(s) /\ entries'[s] = entries[s]
          /\ Accounted(s) /\ Latest(s) /\ entries[s].packet_id # id
          /\ entries[s].timestamp \in Nat
      BY <1>0, <1>2, <1>9, <2>2 DEF LogInv
    <3>2. ASSUME L = Window, entries[s].timestamp <= log[1].at
          PROVE  Accounted(s)'
      <4>1. 1 \in 1 .. L + 1 - d /\ 1 # L + 1 - d /\ d = 1 /\ 1 \in 1 .. L /\ 2 \in 1 .. L
        BY <1>3, <1>4, <3>2
      <4>2. log'[1] = log[2]
        BY <1>7, <4>1
      <4>3. log[1].at <= log[2].at
        BY <1>0, <1>3, <4>1 DEF InOrder
      <4>4. entries'[s].timestamp <= log'[1].at
        BY <1>3, <3>1, <3>2, <4>1, <4>2, <4>3
      <4>5. Len(log') = Window
        BY <1>3, <1>5, <3>2, <4>1
      <4> QED BY <4>4, <4>5 DEF Accounted
    <3>3. ASSUME NEW i \in 1 .. L, log[i] = Rec(s)
          PROVE  Accounted(s)'
      <4>1. CASE i - d \in 1 .. L - d
        <5>1. /\ i - d \in 1 .. L + 1 - d /\ i - d # L + 1 - d /\ i - d + d = i
          BY <1>3, <1>4, <4>1
        <5>2. log'[i - d] = log[i]
          BY <1>7, <5>1
        <5> QED BY <1>6, <3>1, <3>3, <5>1, <5>2 DEF Accounted
      <4>2. CASE i - d \notin 1 .. L - d
        <5>1. i = 1 /\ L = Window
          BY <1>3, <1>4, <4>2
        <5>2. log[1].at = entries[s].timestamp
          BY <3>3, <5>1 DEF Rec
        <5> QED BY <3>1, <3>2, <5>1, <5>2
      <4> QED BY <4>1, <4>2
    <3>4. Accounted(s)'
      <4>1. \/ \E i \in 1 .. L : log[i] = Rec(s)
            \/ L = Window /\ entries[s].timestamp <= log[1].at
        BY <1>3, <3>1 DEF Accounted, L
      <4> QED BY <3>2, <3>3, <4>1
    <3>5. ASSUME NEW i \in 1 .. L + 1 - d, log'[i].id = entries'[s].packet_id
          PROVE  log'[i].at <= entries'[s].timestamp
      <4>1. CASE i = L + 1 - d
        BY <1>6, <3>1, <3>5, <4>1 DEF new
      <4>2. CASE i # L + 1 - d
        BY <1>3, <1>7, <3>1, <3>5, <4>2 DEF Latest
      <4> QED BY <4>1, <4>2
    <3>6. Latest(s)'
      BY <1>6, <3>5 DEF Latest
    <3> QED BY <3>4, <3>6
  <2> QED BY <2>1, <2>2
<1>10. ASSUME NEW i \in 1 .. L + 1 - d, Fresh(i)'
       PROVE  (Remembered(log[i].id) \/ Crowded(log[i].at))'
  <2>1. CASE i = L + 1 - d
    <3>1. log'[i].id = id
      BY <1>6, <2>1 DEF new
    <3> QED BY <1>2, <3>1 DEF Remembered
  <2>2. CASE i # L + 1 - d
    <3>1. i + d \in 1 .. L /\ log'[i] = log[i + d]
      BY <1>7, <2>2
    <3>2. PICK a \in Nat : a = log[i + d].at
      BY <1>3, <3>1
    <3>3. Crowded(a)' => Crowded(log[i].at)'
      BY <3>1, <3>2 DEF Crowded
    <3>4. Fresh(i + d)
      BY <1>10, <3>1 DEF Fresh
    <3>5. CASE Remembered(log[i + d].id)
      <4>1. PICK s \in Slot : Live(s) /\ entries[s].packet_id = log[i + d].id
        BY <3>5 DEF Remembered
      <4>2. CASE s # t
        BY <1>2, <3>1, <4>1, <4>2 DEF Remembered
      <4>3. CASE s = t
        <5>1. a <= entries[t].timestamp
          BY <1>3, <3>1, <3>2, <4>1, <4>3 DEF LogInv, Latest
        <5>2. L >= Capacity /\ log[L + 1 - Capacity].at >= entries[t].timestamp
          BY <4>1, <4>3, EvictedIsCrowded DEF Chosen, Gathered, L
        <5>3. L + 1 - Capacity \in 1 .. L
          BY <1>3, <5>2
        <5>4. log[L + 1 - Capacity].at \in Nat /\ entries[t].timestamp \in Nat
          BY <1>0, <1>3, <5>3
        <5>5. log[L + 1 - Capacity].at >= a
          BY <5>1, <5>2, <5>4
        <5>6. Gathered(a)
          BY <5>2, <5>5 DEF L, Gathered
        <5>7. Crowded(a)'
          BY <1>0, <5>6, StillCrowded
        <5> QED BY <3>3, <5>7
      <4> QED BY <4>2, <4>3
    <3>6. CASE Crowded(log[i + d].at)
      <4>1. Crowded(a)
        BY <3>2, <3>6
      <4>2. Crowded(a)'
        BY <1>0, <4>1, StillCrowded
      <4> QED BY <3>3, <4>2
    <3> QED BY <1>3, <3>1, <3>4, <3>5, <3>6 DEF LogInv, Kept
  <2> QED BY <2>1, <2>2
<1>11. Kept'
  BY <1>6, <1>10 DEF Kept
<1> QED BY <1>1, <1>9, <1>11 DEF LogInv

(* check and prune touch neither the log nor a live slot, and as time      *)
(* passes a slot stays live for as long as its record is fresh.            *)
LEMMA KeptKeepsInv ==
    ASSUME LogInv, CacheInv', UNCHANGED log,
           \/ Retired /\ now' = now
           \/ Tick
    PROVE  LogInv'
<1>0. /\ WellFormed /\ LogTypeOK /\ InOrder /\ Kept
      /\ now \in Nat /\ now' \in Nat /\ now <= now' /\ TtlSec \in Nat
      /\ \A s \in Slot : entries[s].timestamp \in Nat
      /\ \A i \in DOMAIN log : log[i].at \in Nat
  <2>1. \A s \in Slot : entries[s] \in Entry
    BY DEF LogInv, CacheInv, WellFormed, TypeOK
  <2>2. \A s \in Slot : entries[s].timestamp \in Nat
    BY <2>1 DEF Entry
  <2>3. LogTypeOK /\ now \in Nat /\ (now' = now \/ now' = now + 1)
    BY DEF LogInv, CacheInv, WellFormed, TypeOK, Tick
  <2>4. \A i \in DOMAIN log : log[i].at \in Nat
    BY <2>3, LogElements
  <2> QED BY <2>2, <2>3, <2>4, CacheAssumption DEF LogInv, CacheInv
<1>1. ASSUME NEW s \in Slot
      PROVE  /\ entries'[s].packet_id = entries[s].packet_id
             /\ entries'[s].timestamp = entries[s].timestamp
             /\ Live(s)' => Live(s)
             /\ Live(s) /\ now' - entries[s].timestamp <= TtlSec => Live(s)'
  <2>1. CASE Retired /\ now' = now
    BY <1>0, <2>1, RetiredKeepsLive
  <2>2. CASE Tick
    <3>1. now' = now + 1
      BY <2>2 DEF Tick
    <3> QED BY <1>0, <2>2, <3>1, TickKeepsDead
  <2> QED BY <2>1, <2>2
<1>2. LogTypeOK' /\ InOrder'
  <2>1. \A i \in DOMAIN log : log[i].at <= now'
    BY <1>0 DEF LogTypeOK
  <2> QED BY <1>0, <2>1 DEF LogTypeOK, InOrder
<1>3. ASSUME NEW s \in Slot, Live(s)'
      PROVE  Accounted(s)' /\ Latest(s)'
  <2>1. Accounted(s) /\ Latest(s) /\ Rec(s)' = Rec(s)
    BY <1>1, <1>3 DEF LogInv, Rec
  <2> QED BY <1>1, <2>1 DEF Accounted, Latest
<1>4. ASSUME NEW i \in DOMAIN log, Fresh(i)'
      PROVE  Remembered(log[i].id)' \/ Crowded(log[i].at)'
  <2>1. Fresh(i) /\ now' - log[i].at <= TtlSec
    BY <1>0, <1>4 DEF Fresh
  <2>2. CASE Remembered(log[i].id)
    <3>1. PICK s \in Slot : Live(s) /\ entries[s].packet_id = log[i].id
      BY <2>2 DEF Remembered
    <3>2. log[i].at <= entries[s].timestamp
      BY <3>1 DEF LogInv, Latest
    <3>3. now' - entries[s].timestamp <= TtlSec
      BY <1>0, <2>1, <3>2
    <3> QED BY <1>1, <3>1, <3>3 DEF Remembered
  <2>3. CASE Crowded(log[i].at)
    BY <2>3 DEF Crowded
  <2> QED BY <1>0, <2>1, <2>2, <2>3 DEF Kept
<1>5. Kept'
  BY <1>4 DEF Kept
<1> QED BY <1>2, <1>3, <1>5 DEF LogInv

\* Nothing has been added yet.
LEMMA InitLogInv == LogInit => LogInv
<1> SUFFICES ASSUME LogInit PROVE LogInv
  OBVIOUS
<1>1. CacheInv
  BY InitCacheInv DEF LogInit
<1>2. log = <<>> /\ DOMAIN log = {} /\ Len(log) = 0
  BY DEF LogInit
<1>3. LogTypeOK /\ InOrder /\ Kept
  BY <1>2, WindowAssumption, CacheAssumption DEF LogTypeOK, InOrder, Kept
<1>4. \A s \in Slot : ~Live(s)
  BY DEF LogInit, Init, Live
<1> QED BY <1>1, <1>3, <1>4 DEF LogInv

\* Every call and every second keeps the invariant of the log.
LEMMA NextLogInv == LogInv /\ [LogNext]_logVars => LogInv'
<1> SUFFICES ASSUME LogInv, [LogNext]_logVars PROVE LogInv'
  OBVIOUS
<1>0. CacheInv /\ WellFormed /\ TypeOK /\ ActiveBelowCount /\ NoDuplicateLive
  BY DEF LogInv, CacheInv, WellFormed
<1>1. CacheInv'
  <2>1. [Next]_vars
    BY DEF LogNext, logVars, Next
  <2> QED BY <1>0, <2>1, NextCacheInv
<1>2. ASSUME NEW id \in Id, CheckHit(id) \/ CheckMiss(id), UNCHANGED log PROVE LogInv'
  <2>1. Retired /\ now' = now
    BY <1>0, <1>2, RetireLemma DEF CheckHit, CheckMiss
  <2> QED BY <1>1, <1>2, <2>1, KeptKeepsInv
<1>3. ASSUME NEW id \in Id, MarkSent(id), Logged(id) PROVE LogInv'
  <2>1. PICK t \in Slot : Filled(t, id) /\ Chosen(t)
    BY <1>0, <1>3, AddLemma DEF MarkSent
  <2>2. now' = now /\ \A s \in Slot : Live(s) => entries[s].packet_id # id
    BY <1>3 DEF MarkSent
  <2> QED BY <1>1, <1>3, <2>1, <2>2, LoggedKeepsInv
<1>4. ASSUME MarkSeen, Logged(pending) PROVE LogInv'
  <2>1. pending \in Id /\ pending # NoId /\ now' = now
    BY <1>0, <1>4 DEF MarkSeen, TypeOK
  <2>2. PICK t \in Slot : Filled(t, pending) /\ Chosen(t)
    BY <1>0, <1>4, <2>1, AddLemma DEF MarkSeen
  <2>3. \A s \in Slot : Live(s) => entries[s].packet_id # pending
    BY <1>0, <2>1 DEF NoDuplicateLive
  <2> QED BY <1>1, <1>4, <2>1, <2>2, <2>3, LoggedKeepsInv
<1>5. ASSUME Prune, UNCHANGED log PROVE LogInv'
  <2>1. Retired /\ now' = now
    BY <1>0, <1>5, RetireLemma DEF Prune
  <2> QED BY <1>1, <1>5, <2>1, KeptKeepsInv
<1>6. ASSUME Tick, UNCHANGED log PROVE LogInv'
  BY <1>1, <1>6, KeptKeepsInv
<1>7. ASSUME UNCHANGED logVars PROVE LogInv'
  BY <1>7 DEF logVars, vars, LogInv, CacheInv, WellFormed, TypeOK, ActiveBelowCount,
              NoDuplicateLive, LogTypeOK, InOrder, Accounted, Latest, Kept, Crowded,
              Remembered, Fresh, Live, Expired, Rec
<1> QED BY <1>2, <1>3, <1>4, <1>5, <1>6, <1>7 DEF LogNext

(* An id added within the last TtlSec seconds is remembered unless more    *)
(* than Capacity ids were added in its second or after: the promise of     *)
(* VEX_SEEN_CAPACITY and VEX_SEEN_TTL_SEC (seen.c:38-61).                  *)
THEOREM RememberedTheorem == LogSpec => []RememberedUnlessCrowded
<1>1. LogSpec => []LogInv
  BY InitLogInv, NextLogInv, PTL DEF LogSpec
<1>2. LogInv => RememberedUnlessCrowded
  <2> SUFFICES ASSUME LogInv, NEW i \in DOMAIN log, Fresh(i), ~Remembered(log[i].id)
               PROVE  Cardinality({j \in DOMAIN log : log[j].at >= log[i].at}) > Capacity
    BY DEF RememberedUnlessCrowded
  <2>1. LogTypeOK /\ InOrder /\ Crowded(log[i].at)
    BY DEF LogInv, Kept
  <2>2. log[i].at \in Nat
    BY <2>1, LogElements
  <2> QED BY <2>1, <2>2, CrowdedCounts
<1> QED BY <1>1, <1>2, PTL

=============================================================================
