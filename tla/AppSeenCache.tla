---------------------------- MODULE AppSeenCache ----------------------------
(***************************************************************************)
(* The class SeenCache of src/app/App.tsx: a Map from packet id to the     *)
(* time it was added, in the order of insertion.  `has` drops the id it is *)
(* asked about when it has expired and no other; `add` at the limit drops  *)
(* the id inserted first, whatever its time.  relayPacket calls has and    *)
(* then add; each reads Date.now() for itself.                             *)
(***************************************************************************)
EXTENDS Integers, Sequences, FiniteSets

CONSTANTS
    Id,         \* packet ids
    NoId,       \* "no id"
    Capacity,   \* SEEN_CACHE_MAX
    TtlSec,     \* SEEN_CACHE_TTL_MS, in ticks of the clock
    MaxTime     \* bound on the clock

ASSUME AppCacheAssumption ==
    /\ NoId \notin Id
    /\ Capacity \in Nat \ {0}
    /\ TtlSec \in Nat
    /\ MaxTime \in Nat

VARIABLES
    cache,      \* the entries of the Map, [id, at], first inserted first
    pending,    \* the id that has() found new and add() is about to store
    now         \* Date.now()

cacheVars == <<cache, pending, now>>

Expired(e) == now - e.at > TtlSec

Entries == {cache[i] : i \in DOMAIN cache}

KeptOnMiss(id) == cache                       \* mutant: nothing is deleted

\* The Map after has(id): an expired entry of id is deleted.
AfterHas(id) ==
    LET outdated == {i \in DOMAIN cache : cache[i].id = id /\ Expired(cache[i])}
        at == CHOOSE i \in outdated : TRUE
    IN  IF outdated = {}
          THEN cache
          ELSE SubSeq(cache, 1, at - 1) \o SubSeq(cache, at + 1, Len(cache))

CacheHas(id) ==
    /\ pending = NoId
    /\ cache' = AfterHas(id)
    /\ pending' = IF \E e \in Entries : e.id = id /\ ~Expired(e) THEN NoId ELSE id
    /\ UNCHANGED now

\* Map.set: a new key goes to the end, a key that is there keeps its place.
Set(map, id) ==
    IF \E i \in DOMAIN map : map[i].id = id
      THEN [i \in DOMAIN map |-> IF map[i].id = id THEN [id |-> id, at |-> now] ELSE map[i]]
      ELSE Append(map, [id |-> id, at |-> now])

RoomMadeLate == IF Len(cache) > Capacity THEN Tail(cache) ELSE cache  \* mutant: > for >=

\* The Map without the id inserted first, if it is full.
RoomMade == IF Len(cache) >= Capacity THEN Tail(cache) ELSE cache

CacheAdd ==
    /\ pending # NoId
    /\ cache' = Set(RoomMade, pending)
    /\ pending' = NoId
    /\ UNCHANGED now

\* The mesh is switched off (App.tsx:418).
CacheClear ==
    /\ pending = NoId
    /\ cache' = <<>>
    /\ UNCHANGED <<pending, now>>

CacheTick ==
    /\ now < MaxTime
    /\ now' = now + 1
    /\ UNCHANGED <<cache, pending>>

CacheInit ==
    /\ cache = <<>>
    /\ pending = NoId
    /\ now = 0

CacheNext ==
    \/ \E id \in Id : CacheHas(id)
    \/ CacheAdd
    \/ CacheClear
    \/ CacheTick

CacheSpec == CacheInit /\ [][CacheNext]_cacheVars

(***************************************************************************)
(* Properties.                                                             *)
(***************************************************************************)
CacheTypeOK ==
    /\ Entries \subseteq [id : Id, at : 0 .. now]
    /\ Len(cache) <= Capacity
    /\ pending \in Id \cup {NoId}
    /\ now \in 0 .. MaxTime

(* The cache of the app keeps the promise that the cache of the C node     *)
(* keeps, but for the switch, which forgets everything: nothing is lost    *)
(* before its time unless Capacity ids are remembered, and then one of the *)
(* oldest, although entries that have expired stay in the Map, count for   *)
(* its size and are dropped by nobody but has and the limit.               *)
Map == INSTANCE SeenMap WITH
         remembered <- {e \in Entries : ~Expired(e)}

AppImplementsSeenMap ==
    Map!MapInit /\ [][Map!MapNext \/ CacheClear]_cacheVars

=============================================================================
