----------------------------- MODULE AppProofs -----------------------------
(***************************************************************************)
(* The app.                                                                *)
(*                                                                         *)
(* The mesh of AppMesh: its types, and that a loop over the nodes misses   *)
(* nobody who stays, for any number of devices, packets and places.        *)
(*                                                                         *)
(* The cache of AppSeenCache: it implements SeenMap, as the cache of the C *)
(* node does, for every limit and age.                                     *)
(***************************************************************************)
EXTENDS AppMesh, AppSeenCache, FiniteSetTheorems, SequenceTheorems,
        WellFoundedInduction, TLAPS
(***************************************************************************)
(* AppMesh: the entries of the Map have places of their own, and a loop    *)
(* that waits has behind it, or has written to, every node that was there  *)
(* all the time, but the one it waits for and the one the packet is from.  *)
(***************************************************************************)
Apart(places) ==
    \A d, e \in Device : places[d] = places[e] /\ places[d] # 0 => d = e

\* What a loop that goes on has still before it, or has written to.
Ahead(r, places) ==
    \A d \in r.stay \ {r.source} : places[d] > r.passed \/ d \in r.reached

OnCourse(r, places) ==
    /\ r.at = NoDevice => r = Ended
    /\ r.at # NoDevice =>
         \A d \in r.stay \ {r.source, r.at} : places[d] > r.passed \/ d \in r.reached

LoopInv ==
    /\ AppTypeOK
    /\ Apart(place)
    /\ \A p \in Packet : OnCourse(relays[p], place)

\* A set of numbers has a least one.
LEMMA LeastNumber ==
    ASSUME NEW S \in SUBSET Nat, S # {}
    PROVE  Min(S) \in S /\ \A y \in S : Min(S) <= y
<1> DEFINE R == OpToRel(<, Nat)
<1>1. IsWellFoundedOn(R, Nat)
  BY NatLessThanWellFounded
<1>2. \A x, y \in Nat : x < y => <<x, y>> \in R
  BY DEF OpToRel
<1> HIDE DEF R
<1>3. PICK x \in S : \A y \in S : ~ (<<y, x>> \in R)
  BY <1>1, WFMin
<1>4. ASSUME NEW y \in S PROVE x <= y
  <2>1. x \in Nat /\ y \in Nat
    OBVIOUS
  <2>2. ~(y < x)
    BY <1>2, <1>3, <2>1, Zenon
  <2> QED BY <2>1, <2>2
<1> QED BY <1>4 DEF Min

\* A device is none of "no device", and a number is a place or behind them all.
LEMMA PlaceTypes ==
    ASSUME NEW places \in [Device -> 0 .. MaxPlaces], NEW d \in Device
    PROVE  d # NoDevice /\ places[d] \in Nat /\ places[d] \in 0 .. MaxPlaces
BY AppAssumption

(* The loop goes on: it is on its course again, and if it ends, it has     *)
(* written to all that stayed.                                             *)
LEMMA Advanced ==
    ASSUME NEW places \in [Device -> 0 .. MaxPlaces], Apart(places),
           NEW r \in Relay, Ahead(r, places)
    PROVE  /\ Advance(r, places) \in Relay
           /\ OnCourse(Advance(r, places), places)
           /\ Advance(r, places) = Ended => r.stay \ {r.source} \subseteq r.reached
<1> DEFINE next == {d \in Device \ {r.source} : places[d] > r.passed}
           first == CHOOSE d \in next : \A e \in next : places[d] <= places[e]
           q == [r EXCEPT !.at = first, !.passed = places[first]]
<1>1. r.passed \in Nat /\ r.stay \subseteq Device /\ r.source \in Device \cup {NoDevice}
      /\ r.reached \subseteq Device
  BY DEF Relay
<1>2. CASE next = {}
  <2>1. Advance(r, places) = Ended
    BY <1>2 DEF Advance
  <2>2. Ended \in Relay /\ OnCourse(Ended, places)
    BY AppAssumption DEF Ended, Relay, OnCourse
  <2>3. r.stay \ {r.source} \subseteq r.reached
    BY <1>1, <1>2 DEF Ahead
  <2> QED BY <2>1, <2>2, <2>3
<1>3. CASE next # {}
  <2>1. Advance(r, places) = q
    BY <1>3 DEF Advance
  <2>2. \E d \in next : \A e \in next : places[d] <= places[e]
    <3> DEFINE N == {places[d] : d \in next}
    <3>1. N \in SUBSET Nat /\ N # {}
      BY <1>3, PlaceTypes
    <3>2. Min(N) \in N /\ \A y \in N : Min(N) <= y
      BY <3>1, LeastNumber
    <3>3. PICK d \in next : Min(N) = places[d]
      BY <3>2
    <3>4. \A e \in next : places[d] <= places[e]
      BY <3>2, <3>3
    <3> QED BY <3>4
  <2>3. first \in next /\ \A e \in next : places[first] <= places[e]
    BY <2>2
  <2>4. first \in Device /\ first # r.source /\ places[first] > r.passed
    BY <2>3
  <2> HIDE DEF first, next
  <2>5. /\ q \in Relay /\ q.at = first /\ q.passed = places[first]
        /\ q.source = r.source /\ q.stay = r.stay /\ q.reached = r.reached
    BY <2>4, PlaceTypes DEF Relay
  <2> HIDE DEF q
  <2>6. q.at # NoDevice /\ q # Ended
    BY <2>4, <2>5, AppAssumption DEF Ended
  <2>7. ASSUME NEW d \in r.stay \ {r.source, first} 
        PROVE  places[d] > places[first] \/ d \in r.reached
    <3>1. d \in Device /\ d # r.source /\ d # first
      BY <1>1
    <3>2. places[d] > r.passed \/ d \in r.reached
      BY <3>1 DEF Ahead
    <3>3. CASE places[d] > r.passed
      <4>1. places[first] <= places[d]
        BY <2>3, <3>1, <3>3 DEF next
      <4>2. places[d] # places[first]
        <5>1. places[first] # 0
          BY <1>1, <2>4, PlaceTypes
        <5> QED BY <2>4, <3>1, <5>1 DEF Apart
      <4>3. places[d] \in Nat /\ places[first] \in Nat
        BY <2>4, <3>1, PlaceTypes
      <4> QED BY <4>1, <4>2, <4>3
    <3> QED BY <3>2, <3>3
  <2>8. OnCourse(q, places)
    BY <2>5, <2>6, <2>7 DEF OnCourse
  <2> QED BY <2>1, <2>5, <2>6, <2>8
<1> QED BY <1>2, <1>3

(* Deleting entries: the others keep their places, and the loops are on    *)
(* their courses.                                                          *)
LEMMA DeletedPlaces ==
    ASSUME LoopInv, NEW S
    PROVE  /\ Deleted(S) \in [Device -> 0 .. MaxPlaces] /\ Apart(Deleted(S))
           /\ {d \in Device : Deleted(S)[d] # 0} = Nodes \ S
           /\ Bypassed(S) \in [Packet -> Relay]
           /\ \A p \in Packet : /\ OnCourse(Bypassed(S)[p], Deleted(S))
                                /\ Bypassed(S)[p].at = relays[p].at
                                /\ Bypassed(S)[p].source = relays[p].source
                                /\ Bypassed(S)[p].passed = relays[p].passed
                                /\ Bypassed(S)[p].reached = relays[p].reached
                                /\ Bypassed(S)[p].stay = relays[p].stay \ S
<1>1. /\ place \in [Device -> 0 .. MaxPlaces] /\ relays \in [Packet -> Relay]
      /\ Apart(place) /\ MaxPlaces \in Nat
  BY AppAssumption DEF LoopInv, AppTypeOK
<1>2. /\ Deleted(S) \in [Device -> 0 .. MaxPlaces]
      /\ \A d \in Device : Deleted(S)[d] = IF d \in S THEN 0 ELSE place[d]
  BY <1>1 DEF Deleted
<1>3. Apart(Deleted(S))
  BY <1>1, <1>2 DEF Apart
<1>4. {d \in Device : Deleted(S)[d] # 0} = Nodes \ S
  BY <1>2 DEF Nodes
<1>5. \A p \in Packet :
        /\ Bypassed(S)[p] \in Relay
        /\ Bypassed(S)[p].at = relays[p].at
        /\ Bypassed(S)[p].source = relays[p].source
        /\ Bypassed(S)[p].passed = relays[p].passed
        /\ Bypassed(S)[p].reached = relays[p].reached
        /\ Bypassed(S)[p].stay = relays[p].stay \ S
  BY <1>1 DEF Bypassed, Relay
<1>6. Bypassed(S) \in [Packet -> Relay]
  BY <1>5 DEF Bypassed
<1>7. ASSUME NEW p \in Packet PROVE OnCourse(Bypassed(S)[p], Deleted(S))
  <2>1. OnCourse(relays[p], place) /\ relays[p] \in Relay
    BY <1>1 DEF LoopInv
  <2>2. CASE relays[p].at = NoDevice
    <3>1. relays[p] = Ended
      BY <2>1, <2>2 DEF OnCourse
    <3>2. Bypassed(S)[p] = Ended
      BY <3>1 DEF Bypassed, Ended
    <3> QED BY <3>2, AppAssumption DEF OnCourse, Ended
  <2>3. CASE relays[p].at # NoDevice
    <3>1. ASSUME NEW d \in (relays[p].stay \ S) \ {relays[p].source, relays[p].at}
          PROVE  Deleted(S)[d] > relays[p].passed \/ d \in relays[p].reached
      <4>1. d \in Device /\ d \notin S
        BY <2>1 DEF Relay
      <4>2. place[d] > relays[p].passed \/ d \in relays[p].reached
        BY <2>1, <2>3 DEF OnCourse
      <4> QED BY <1>2, <4>1, <4>2
    <3> QED BY <1>5, <2>3, <3>1 DEF OnCourse
  <2> QED BY <2>2, <2>3
<1> QED BY <1>2, <1>3, <1>4, <1>5, <1>6, <1>7

\* The types one by one.
LEMMA AppTypes ==
    ASSUME LoopInv
    PROVE  /\ place \in [Device -> 0 .. MaxPlaces] /\ relays \in [Packet -> Relay]
           /\ Apart(place) /\ (\A p \in Packet : OnCourse(relays[p], place))
           /\ silent \subseteq Nodes /\ Nodes \subseteq Device
           /\ linked \subseteq Device /\ monitored \subseteq linked
           /\ heard \subseteq Device /\ gone \subseteq heard
           /\ NoDevice \notin Device
BY AppAssumption DEF LoopInv, AppTypeOK, Nodes

\* Breaking links keeps their types.
LEMMA BrokenLinks ==
    ASSUME LoopInv, NEW S, Break(S)
    PROVE  /\ linked' \subseteq Device /\ monitored' \subseteq linked'
           /\ gone' \subseteq heard
BY AppTypes DEF Break

\* A step that leaves the Map and the loops alone.
LEMMA MapUntouched ==
    ASSUME LoopInv, UNCHANGED <<place, relays>>
    PROVE  /\ place' \in [Device -> 0 .. MaxPlaces] /\ relays' \in [Packet -> Relay]
           /\ Apart(place)' /\ (\A p \in Packet : OnCourse(relays[p], place)')
           /\ Nodes' = Nodes
BY AppTypes DEF Nodes, Apart, OnCourse

\* A step that deletes the entries of S.
LEMMA MapDeleted ==
    ASSUME LoopInv, NEW S, Delete(S)
    PROVE  /\ place' \in [Device -> 0 .. MaxPlaces] /\ relays' \in [Packet -> Relay]
           /\ Apart(place)' /\ (\A p \in Packet : OnCourse(relays[p], place)')
           /\ silent' \subseteq Nodes'
           /\ \A p \in Packet : relays'[p].at = relays[p].at
<1>1. place' = Deleted(S) /\ relays' = Bypassed(S) /\ silent' = silent \ S
  BY DEF Delete
<1>2. Nodes' = Nodes \ S
  BY <1>1, DeletedPlaces DEF Nodes
<1>3. Apart(place)' /\ \A p \in Packet : OnCourse(relays[p], place)'
  <2>1. Apart(Deleted(S)) /\ \A p \in Packet : OnCourse(Bypassed(S)[p], Deleted(S))
    BY DeletedPlaces
  <2> QED BY <1>1, <2>1 DEF Apart, OnCourse
<1> QED BY <1>1, <1>2, <1>3, DeletedPlaces, AppTypes

\* A step that makes one loop go on along `places`, which become those of the Map.
LEMMA LoopGoesOn ==
    ASSUME LoopInv, NEW p \in Packet, NEW r \in Relay,
           place' \in [Device -> 0 .. MaxPlaces], Apart(place)', Ahead(r, place'),
           NEW others \in [Packet -> Relay],
           \A x \in Packet : OnCourse(others[x], place'),
           relays' = [others EXCEPT ![p] = Advance(r, place')]
    PROVE  /\ relays' \in [Packet -> Relay]
           /\ \A x \in Packet : OnCourse(relays[x], place)'
           /\ \A x \in Packet : x # p => relays'[x] = others[x]
           /\ relays'[p] = Ended => r.stay \ {r.source} \subseteq r.reached
<1>1. Apart(place')
  BY DEF Apart
<1>2. /\ Advance(r, place') \in Relay
      /\ OnCourse(Advance(r, place'), place')
      /\ Advance(r, place') = Ended => r.stay \ {r.source} \subseteq r.reached
  BY <1>1, Advanced
<1>3. \A x \in Packet : relays'[x] = IF x = p THEN Advance(r, place') ELSE others[x]
  OBVIOUS
<1>4. \A x \in Packet : OnCourse(relays'[x], place')
  BY <1>2, <1>3
<1> QED BY <1>2, <1>3, <1>4 DEF OnCourse

\* A new entry is behind all others and all loops.
LEMMA MapEntered ==
    ASSUME LoopInv, NEW d \in Device, UNCHANGED relays,
           \/ d \in Nodes /\ UNCHANGED place
           \/ d \notin Nodes /\ Behind # {} /\ place' = [place EXCEPT ![d] = Min(Behind)]
    PROVE  /\ place' \in [Device -> 0 .. MaxPlaces] /\ relays' \in [Packet -> Relay]
           /\ Apart(place)' /\ (\A p \in Packet : OnCourse(relays[p], place)')
           /\ Nodes' = Nodes \cup {d}
<1>1. CASE d \in Nodes /\ UNCHANGED place
  BY <1>1, MapUntouched
<1>2. CASE d \notin Nodes /\ Behind # {} /\ place' = [place EXCEPT ![d] = Min(Behind)]
  <2>1. Behind \in SUBSET Nat
    BY DEF Behind
  <2>2. PICK n \in Behind : n = Min(Behind)
    BY <1>2, <2>1, LeastNumber
  <2>3. /\ n \in 1 .. MaxPlaces
        /\ \A e \in Device : place[e] < n
        /\ \A p \in Packet : relays[p].passed < n
    BY <2>2 DEF Behind
  <2>4. n # 0 /\ n \in 0 .. MaxPlaces /\ n \in Nat
    BY <2>3, AppAssumption
  <2>5. /\ place' \in [Device -> 0 .. MaxPlaces] /\ place'[d] = n
        /\ \A e \in Device : e # d => place'[e] = place[e]
    BY <1>2, <2>2, <2>4, AppTypes
  <2>6. \A e \in Device : place[e] # n
    <3>1. ASSUME NEW e \in Device PROVE place[e] # n
      <4>1. place[e] \in Nat /\ place[e] < n
        BY <2>3, AppTypes, PlaceTypes
      <4> QED BY <2>4, <4>1
    <3> QED BY <3>1
  <2>7. Apart(place)'
    BY <2>5, <2>6, AppTypes DEF Apart
  <2>8. Nodes' = Nodes \cup {d}
    BY <2>4, <2>5 DEF Nodes
  <2>9. ASSUME NEW p \in Packet PROVE OnCourse(relays[p], place)'
    <3>1. OnCourse(relays[p], place) /\ relays'[p] = relays[p] /\ relays[p] \in Relay
      BY AppTypes
    <3>2. ASSUME NEW e \in relays[p].stay \ {relays[p].source, relays[p].at}, relays[p].at # NoDevice
          PROVE  place'[e] > relays[p].passed \/ e \in relays[p].reached
      <4>1. e \in Device
        BY <3>1 DEF Relay
      <4>2. place[e] > relays[p].passed \/ e \in relays[p].reached
        BY <3>1, <3>2 DEF OnCourse
      <4>3. CASE e = d
        <5>1. relays[p].passed \in Nat /\ relays[p].passed < n /\ place'[e] = n
          BY <2>3, <2>5, <3>1, <4>3 DEF Relay
        <5> QED BY <2>4, <5>1
      <4> QED BY <2>5, <4>1, <4>2, <4>3
    <3> QED BY <3>1, <3>2 DEF OnCourse
  <2> QED BY <2>5, <2>7, <2>8, <2>9, AppTypes
<1> QED BY <1>1, <1>2

LEMMA LoopInit == AppInit => LoopInv
<1> SUFFICES ASSUME AppInit PROVE LoopInv
  OBVIOUS
<1>1. Ended \in Relay /\ OnCourse(Ended, place)
  BY AppAssumption DEF Ended, Relay, OnCourse
<1>2. place \in [Device -> 0 .. MaxPlaces] /\ \A d \in Device : place[d] = 0
  BY AppAssumption DEF AppInit
<1>3. relays \in [Packet -> Relay] /\ \A p \in Packet : relays[p] = Ended
  BY <1>1 DEF AppInit
<1>4. Apart(place)
  BY <1>2 DEF Apart
<1>5. AppTypeOK
  BY <1>2, <1>3 DEF AppInit, AppTypeOK
<1> QED BY <1>1, <1>3, <1>4, <1>5 DEF LoopInv

\* What StayersGetIt says of one loop and one step.
StayersOf(p) ==
    relays[p].at # NoDevice /\ relays'[p] = Ended =>
      relays[p].stay \ {relays[p].source, relays[p].at} \subseteq relays[p].reached

\* The invariant from its parts.
LEMMA LoopInvFrom ==
    ASSUME place' \in [Device -> 0 .. MaxPlaces], relays' \in [Packet -> Relay],
           Apart(place)', \A p \in Packet : OnCourse(relays[p], place)',
           active' \in BOOLEAN, silent' \subseteq Nodes',
           dialling' \in [Device -> Nat], probing' \in [Device -> Nat],
           monitored' \subseteq linked', linked' \subseteq Device,
           heard' \subseteq Device, gone' \subseteq heard', seen' \subseteq Packet
    PROVE  LoopInv'
BY DEF LoopInv, AppTypeOK

\* A loop that waits where it waited has not ended.
LEMMA StillWaiting ==
    ASSUME LoopInv, NEW p \in Packet, relays'[p].at = relays[p].at
    PROVE  StayersOf(p)
BY AppTypes DEF StayersOf, Ended

\* A step that leaves the Map and the loops alone.
LEMMA OtherStep ==
    ASSUME LoopInv, UNCHANGED <<place, relays>>,
           active' \in BOOLEAN, silent' \subseteq Nodes,
           dialling' \in [Device -> Nat], probing' \in [Device -> Nat],
           monitored' \subseteq linked', linked' \subseteq Device,
           heard' \subseteq Device, gone' \subseteq heard', seen' \subseteq Packet
    PROVE  LoopInv' /\ \A p \in Packet : StayersOf(p)
<1>1. LoopInv'
  BY MapUntouched, LoopInvFrom
<1> QED BY <1>1, StillWaiting

LEMMA ConnectingStep ==
    ASSUME LoopInv, NEW d \in Device, Discover(d) \/ Connect(d) \/ Reject(d)
    PROVE  LoopInv' /\ \A p \in Packet : StayersOf(p)
<1>1. /\ AppTypeOK /\ dialling[d] \in Nat /\ probing[d] \in Nat
      /\ dialling \in [Device -> Nat] /\ probing \in [Device -> Nat]
  BY DEF LoopInv, AppTypeOK
<1>2. dialling[d] + 1 \in Nat /\ probing[d] + 1 \in Nat
  BY <1>1
<1>3. /\ dialling[d] > 0 => dialling[d] - 1 \in Nat
      /\ probing[d] > 0 => probing[d] - 1 \in Nat
  BY <1>1
<1>4. CASE Discover(d)
  BY <1>1, <1>2, <1>4, OtherStep DEF Discover, AppTypeOK
<1>5. CASE Connect(d)
  BY <1>1, <1>2, <1>3, <1>5, OtherStep DEF Connect, AppTypeOK
<1>6. CASE Reject(d)
  <2>1. dialling' \in [Device -> Nat] /\ probing' \in [Device -> Nat]
    BY <1>1, <1>3, <1>6 DEF Reject
  <2> QED BY <1>1, <1>6, <2>1, OtherStep DEF Reject, AppTypeOK
<1> QED BY <1>4, <1>5, <1>6

LEMMA EnterStep ==
    ASSUME LoopInv, NEW d \in Device, Enter(d)
    PROVE  LoopInv' /\ \A p \in Packet : StayersOf(p)
<1>1. /\ AppTypeOK /\ probing[d] \in Nat /\ probing[d] > 0
  BY DEF LoopInv, AppTypeOK, Enter
<1>2. probing[d] - 1 \in Nat
  BY <1>1
<1>3. probing' \in [Device -> Nat]
  BY <1>1, <1>2 DEF AppTypeOK, Enter
<1>4. /\ place' \in [Device -> 0 .. MaxPlaces] /\ relays' \in [Packet -> Relay]
      /\ Apart(place)' /\ (\A p \in Packet : OnCourse(relays[p], place)')
      /\ Nodes' = Nodes \cup {d}
  BY MapEntered DEF Enter
<1>5. silent' \subseteq Nodes'
  BY <1>1, <1>4 DEF Enter, AppTypeOK
<1>6. LoopInv'
  BY <1>1, <1>3, <1>4, <1>5, LoopInvFrom DEF Enter, AppTypeOK
<1>7. \A p \in Packet : relays'[p].at = relays[p].at
  BY DEF Enter
<1> QED BY <1>6, <1>7, StillWaiting

LEMMA LinkStep ==
    ASSUME LoopInv, NEW d \in Device,
           LoseLink(d) \/ Disconnected(d) \/ ReceiveKnown(d) \/ Silence(d)
    PROVE  LoopInv' /\ \A p \in Packet : StayersOf(p)
<1>1. AppTypeOK
  BY DEF LoopInv
<1>2. CASE LoseLink(d)
  BY <1>1, <1>2, BrokenLinks, OtherStep DEF LoseLink, AppTypeOK
<1>3. CASE Disconnected(d)
  <2>1. Delete({d})
    BY <1>3 DEF Disconnected
  <2>2. /\ place' \in [Device -> 0 .. MaxPlaces] /\ relays' \in [Packet -> Relay]
        /\ Apart(place)' /\ (\A p \in Packet : OnCourse(relays[p], place)')
        /\ silent' \subseteq Nodes'
        /\ \A p \in Packet : relays'[p].at = relays[p].at
    BY <2>1, MapDeleted
  <2>3. LoopInv'
    BY <1>1, <1>3, <2>2, LoopInvFrom DEF Disconnected, AppTypeOK
  <2> QED BY <2>2, <2>3, StillWaiting
<1>4. CASE ReceiveKnown(d)
  BY <1>1, <1>4, OtherStep DEF ReceiveKnown, AppTypeOK
<1>5. CASE Silence(d)
  BY <1>1, <1>5, OtherStep DEF Silence, AppTypeOK
<1> QED BY <1>2, <1>3, <1>4, <1>5

LEMMA SwitchStep ==
    ASSUME LoopInv, Prune \/ SwitchOn \/ SwitchOff
    PROVE  LoopInv' /\ \A p \in Packet : StayersOf(p)
<1>1. AppTypeOK
  BY DEF LoopInv
<1>2. ASSUME NEW S, Break(S), Delete(S), active' \in BOOLEAN, seen' \subseteq Packet,
             UNCHANGED <<dialling, probing, heard>>
      PROVE  LoopInv' /\ \A p \in Packet : StayersOf(p)
  <2>1. /\ place' \in [Device -> 0 .. MaxPlaces] /\ relays' \in [Packet -> Relay]
        /\ Apart(place)' /\ (\A p \in Packet : OnCourse(relays[p], place)')
        /\ silent' \subseteq Nodes'
        /\ \A p \in Packet : relays'[p].at = relays[p].at
    BY <1>2, MapDeleted
  <2>2. linked' \subseteq Device /\ monitored' \subseteq linked' /\ gone' \subseteq heard
    BY <1>2, BrokenLinks
  <2>3. LoopInv'
    BY <1>1, <1>2, <2>1, <2>2, LoopInvFrom DEF AppTypeOK
  <2> QED BY <2>1, <2>3, StillWaiting
<1>3. CASE Prune
  BY <1>1, <1>2, <1>3 DEF Prune, AppTypeOK
<1>4. CASE SwitchOn
  BY <1>1, <1>4, OtherStep DEF SwitchOn, AppTypeOK
<1>5. CASE SwitchOff
  BY <1>1, <1>2, <1>5 DEF SwitchOff
<1> QED BY <1>3, <1>4, <1>5

\* A packet comes, and perhaps a loop begins: every node is before it.
LEMMA ReceiveStep ==
    ASSUME LoopInv, NEW p \in Packet, NEW d \in Device, ReceiveNew(p, d)
    PROVE  LoopInv' /\ \A x \in Packet : StayersOf(x)
<1> DEFINE r == [Ended EXCEPT !.source = d, !.stay = Nodes]
<1>1. /\ AppTypeOK /\ relays[p].at = NoDevice
      /\ UNCHANGED <<active, place, dialling, probing, linked, monitored, heard, gone>>
      /\ silent' \subseteq Nodes /\ seen' \subseteq Packet
      /\ relays' = [relays EXCEPT ![p] = Advance(r, place)] \/ UNCHANGED relays
  BY DEF LoopInv, AppTypeOK, ReceiveNew
<1>2. CASE UNCHANGED relays
  BY <1>1, <1>2, OtherStep DEF AppTypeOK
<1>3. CASE relays' = [relays EXCEPT ![p] = Advance(r, place)]
  <2>1. /\ r \in Relay /\ r.passed = 0 /\ r.stay = Nodes
    <3>1. Ended \in Relay /\ Ended.passed = 0
      BY AppAssumption DEF Ended, Relay
    <3>2. Nodes \subseteq Device
      BY AppTypes
    <3> QED BY <3>1, <3>2 DEF Relay
  <2>2. Ahead(r, place)
    <3>1. ASSUME NEW x \in Nodes PROVE place[x] > 0
      <4>1. x \in Device /\ place[x] # 0
        BY DEF Nodes
      <4>2. place[x] \in Nat
        BY <4>1, AppTypes, PlaceTypes
      <4> QED BY <4>1, <4>2
    <3> HIDE DEF r
    <3> QED BY <2>1, <3>1 DEF Ahead
  <2> HIDE DEF r
  <2>3. /\ place' \in [Device -> 0 .. MaxPlaces] /\ Apart(place)' /\ Nodes' = Nodes
        /\ Ahead(r, place') /\ place' = place
    BY <1>1, <2>2, AppTypes DEF Apart, Nodes
  <2>4. /\ relays \in [Packet -> Relay] /\ \A x \in Packet : OnCourse(relays[x], place')
        /\ relays' = [relays EXCEPT ![p] = Advance(r, place')]
    BY <1>3, <2>3, AppTypes
  <2>5. /\ relays' \in [Packet -> Relay]
        /\ \A x \in Packet : OnCourse(relays[x], place)'
        /\ \A x \in Packet : x # p => relays'[x] = relays[x]
    BY <2>1, <2>3, <2>4, LoopGoesOn
  <2>6. LoopInv'
    BY <1>1, <2>3, <2>5, LoopInvFrom DEF AppTypeOK
  <2>7. ASSUME NEW x \in Packet PROVE StayersOf(x)
    <3>1. CASE x = p
      BY <1>1, <3>1 DEF StayersOf
    <3>2. CASE x # p
      BY <2>5, <3>2, StillWaiting
    <3> QED BY <3>1, <3>2
  <2> QED BY <2>6, <2>7
<1> QED BY <1>1, <1>2, <1>3

\* A write comes through, and its loop goes on.
LEMMA WrittenStep ==
    ASSUME LoopInv, NEW p \in Packet, Written(p)
    PROVE  LoopInv' /\ \A x \in Packet : StayersOf(x)
<1> DEFINE r == Reached(relays[p])
<1>1. /\ AppTypeOK /\ relays[p].at \in Device /\ relays[p].at # NoDevice
      /\ UNCHANGED <<active, place, silent, dialling, probing, linked, monitored, heard, gone, seen>>
      /\ relays' = [relays EXCEPT ![p] = Advance(r, place)]
  <2>1. AppTypeOK /\ linked \subseteq Device /\ NoDevice \notin Device
    BY AppTypes DEF LoopInv
  <2>2. relays[p].at \in Device
    BY <2>1 DEF Written
  <2>3. relays[p].at # NoDevice
    BY <2>1, <2>2
  <2> QED BY <2>1, <2>2, <2>3 DEF Written
<1>2. /\ relays[p] \in Relay /\ OnCourse(relays[p], place)
  BY AppTypes
<1>3. /\ r \in Relay /\ r.passed = relays[p].passed /\ r.stay = relays[p].stay
      /\ r.source = relays[p].source /\ r.reached = relays[p].reached \cup {relays[p].at}
  BY <1>1, <1>2 DEF Relay, Reached
<1> HIDE DEF r
<1>4. Ahead(r, place)
  BY <1>1, <1>2, <1>3 DEF Ahead, OnCourse
<1>5. /\ place' \in [Device -> 0 .. MaxPlaces] /\ Apart(place)' /\ Nodes' = Nodes
      /\ Ahead(r, place') /\ place' = place
  BY <1>1, <1>4, AppTypes DEF Apart, Nodes
<1>6. /\ relays \in [Packet -> Relay] /\ \A x \in Packet : OnCourse(relays[x], place')
      /\ relays' = [relays EXCEPT ![p] = Advance(r, place')]
  BY <1>1, <1>5, AppTypes
<1>7. /\ relays' \in [Packet -> Relay]
      /\ \A x \in Packet : OnCourse(relays[x], place)'
      /\ \A x \in Packet : x # p => relays'[x] = relays[x]
      /\ relays'[p] = Ended => r.stay \ {r.source} \subseteq r.reached
  BY <1>3, <1>5, <1>6, LoopGoesOn
<1>8. LoopInv'
  BY <1>1, <1>5, <1>7, LoopInvFrom DEF AppTypeOK
<1>9. ASSUME NEW x \in Packet PROVE StayersOf(x)
  <2>1. CASE x = p
    BY <1>3, <1>7, <2>1 DEF StayersOf
  <2>2. CASE x # p
    BY <1>7, <2>2, StillWaiting
  <2> QED BY <2>1, <2>2
<1> QED BY <1>8, <1>9

\* A write fails: the entry is deleted, and the loop goes on.
LEMMA WriteFailedStep ==
    ASSUME LoopInv, NEW p \in Packet, WriteFailed(p)
    PROVE  LoopInv' /\ \A x \in Packet : StayersOf(x)
<1> DEFINE d == relays[p].at
           r == Bypassed({d})[p]
<1>1. /\ AppTypeOK /\ d # NoDevice /\ place' = Deleted({d}) /\ silent' = silent \ {d}
      /\ UNCHANGED <<active, dialling, probing, linked, monitored, heard, gone, seen>>
      /\ relays' = [Bypassed({d}) EXCEPT ![p] = Advance(r, Deleted({d}))]
  BY DEF LoopInv, WriteFailed
<1>2. /\ relays[p] \in Relay /\ OnCourse(relays[p], place) /\ d \in Device
  BY <1>1, AppTypes DEF Relay
<1>3. /\ Deleted({d}) \in [Device -> 0 .. MaxPlaces] /\ Apart(Deleted({d}))
      /\ {x \in Device : Deleted({d})[x] # 0} = Nodes \ {d}
      /\ Bypassed({d}) \in [Packet -> Relay]
      /\ \A x \in Packet : /\ OnCourse(Bypassed({d})[x], Deleted({d}))
                           /\ Bypassed({d})[x].at = relays[x].at
  <2> HIDE DEF r, d
  <2> QED BY DeletedPlaces
<1>4. /\ r \in Relay /\ r.passed = relays[p].passed /\ r.stay = relays[p].stay \ {d}
      /\ r.source = relays[p].source /\ r.reached = relays[p].reached
      /\ r.at = d /\ OnCourse(r, Deleted({d}))
  BY <1>3, DeletedPlaces
<1>5. Nodes' = Nodes \ {d}
  BY <1>1, <1>3 DEF Nodes
<1> HIDE DEF r, d
<1>6. Ahead(r, Deleted({d}))
  BY <1>1, <1>4 DEF Ahead, OnCourse
<1>7. place' \in [Device -> 0 .. MaxPlaces] /\ Apart(place)' /\ Ahead(r, place')
  BY <1>1, <1>3, <1>6 DEF Apart
<1>8. /\ Bypassed({d}) \in [Packet -> Relay]
      /\ \A x \in Packet : OnCourse(Bypassed({d})[x], place')
      /\ relays' = [Bypassed({d}) EXCEPT ![p] = Advance(r, place')]
  BY <1>1, <1>3
<1>9. /\ relays' \in [Packet -> Relay]
      /\ \A x \in Packet : OnCourse(relays[x], place)'
      /\ \A x \in Packet : x # p => relays'[x] = Bypassed({d})[x]
      /\ relays'[p] = Ended => r.stay \ {r.source} \subseteq r.reached
  BY <1>4, <1>7, <1>8, LoopGoesOn
<1>10. silent' \subseteq Nodes'
  BY <1>1, <1>5 DEF AppTypeOK
<1>11. LoopInv'
  BY <1>1, <1>7, <1>9, <1>10, LoopInvFrom DEF AppTypeOK
<1>12. ASSUME NEW x \in Packet PROVE StayersOf(x)
  <2>1. CASE x = p
    BY <1>4, <1>9, <2>1 DEF StayersOf, d
  <2>2. CASE x # p
    BY <1>3, <1>9, <2>2, StillWaiting
  <2> QED BY <2>1, <2>2
<1> QED BY <1>11, <1>12

LEMMA LoopStep ==
    LoopInv /\ [AppNext]_appVars => LoopInv' /\ \A p \in Packet : StayersOf(p)
<1> SUFFICES ASSUME LoopInv, [AppNext]_appVars
             PROVE  LoopInv' /\ \A p \in Packet : StayersOf(p)
  OBVIOUS
<1>1. ASSUME NEW d \in Device,
             \/ Discover(d) \/ Connect(d) \/ Reject(d) \/ Enter(d)
             \/ LoseLink(d) \/ Disconnected(d) \/ ReceiveKnown(d) \/ Silence(d)
      PROVE  LoopInv' /\ \A p \in Packet : StayersOf(p)
  BY <1>1, ConnectingStep, EnterStep, LinkStep
<1>2. ASSUME NEW p \in Packet, NEW d \in Device, ReceiveNew(p, d)
      PROVE  LoopInv' /\ \A x \in Packet : StayersOf(x)
  BY <1>2, ReceiveStep
<1>3. ASSUME NEW p \in Packet, Written(p) \/ WriteFailed(p)
      PROVE  LoopInv' /\ \A x \in Packet : StayersOf(x)
  BY <1>3, WrittenStep, WriteFailedStep
<1>4. ASSUME NEW p \in Packet, ForgetId(p)
      PROVE  LoopInv' /\ \A x \in Packet : StayersOf(x)
  BY <1>4, OtherStep DEF ForgetId, LoopInv, AppTypeOK
<1>5. CASE Prune \/ SwitchOn \/ SwitchOff
  BY <1>5, SwitchStep
<1>6. CASE UNCHANGED appVars
  BY <1>6, OtherStep DEF appVars, LoopInv, AppTypeOK
<1> QED BY <1>1, <1>2, <1>3, <1>4, <1>5, <1>6 DEF AppNext

(* The inductive invariant of the loops: whatever callbacks, the pruner and*)
(* the switch delete and insert while a loop waits for a write, the entries*)
(* it still owes the packet lie behind its place (App.tsx:315-328).        *)
THEOREM LoopInvariant == AppSpec => []LoopInv
BY LoopInit, LoopStep, PTL DEF AppSpec

(* The variables of the app have their types: an entry of connectedNodes   *)
(* has one place, and a loop stands at a place it had (App.tsx:315-436).   *)
THEOREM AppTypesTheorem == AppSpec => []AppTypeOK
BY LoopInvariant, PTL DEF LoopInv

(* relayPacket gives the packet to every node that stayed in the Map while *)
(* the loop ran, but the one it is from and the one it waited for last     *)
(* (App.tsx:315-328): for any number of devices, packets and attempts.     *)
THEOREM StayersTheorem == AppSpec => StayersGetIt
<1>1. LoopInv /\ [AppNext]_appVars =>
        [\A p \in Packet :
           relays[p].at # NoDevice /\ relays'[p] = Ended =>
             relays[p].stay \ {relays[p].source, relays[p].at} \subseteq relays[p].reached]_appVars
  BY LoopStep DEF StayersOf
<1> QED BY <1>1, LoopInvariant, PTL DEF AppSpec, StayersGetIt

(***************************************************************************)
(* AppSeenCache.  The Map as a sequence c of entries at a time t.          *)
(***************************************************************************)
AppEntry == [id : Id, at : Nat]

\* The first inserted are the oldest, and each id is there once.
Aged(c, t) ==
    /\ c \in Seq(AppEntry) /\ Len(c) <= Capacity /\ t \in Nat
    /\ \A i \in DOMAIN c : c[i].at <= t
    /\ \A i, j \in DOMAIN c : i <= j => c[i].at <= c[j].at
    /\ \A i, j \in DOMAIN c : c[i].id = c[j].id => i = j

\* What c still remembers at time t.
Recent(c, t) == {e \in {c[i] : i \in DOMAIN c} : ~(t - e.at > TtlSec)}

(* The Map is aged, and holds nothing of the id between has and add.       *)
AppInv ==
    /\ Aged(cache, now)
    /\ pending \in Id \cup {NoId}
    /\ now \in 0 .. MaxTime
    /\ \A i \in DOMAIN cache : cache[i].id # pending

\* The entries have their fields, and the times are numbers.
LEMMA AgedTypes ==
    ASSUME NEW c, NEW t, Aged(c, t)
    PROVE  /\ c \in Seq(AppEntry) /\ Len(c) \in Nat /\ DOMAIN c = 1 .. Len(c)
           /\ Len(c) <= Capacity /\ Capacity \in Nat \ {0} /\ TtlSec \in Nat /\ t \in Nat
           /\ \A i \in DOMAIN c : c[i] \in AppEntry /\ c[i].id \in Id /\ c[i].at \in Nat
<1>1. c \in Seq(AppEntry) /\ Len(c) <= Capacity /\ t \in Nat
  BY DEF Aged
<1>2. Len(c) \in Nat /\ DOMAIN c = 1 .. Len(c) /\ \A i \in DOMAIN c : c[i] \in AppEntry
  BY <1>1, LenProperties, ElementOfSeq
<1>3. \A e \in AppEntry : e.id \in Id /\ e.at \in Nat
  BY DEF AppEntry
<1> QED BY <1>1, <1>2, <1>3, AppCacheAssumption

\* d is c without its k-th entry.
Without(c, d, k) ==
    /\ d \in Seq(AppEntry) /\ Len(c) = Len(d) + 1
    /\ \A i \in 1 .. Len(d) : /\ i < k => d[i] = c[i]
                              /\ i >= k => d[i] = c[i + 1]

(* Map.delete: what is left is aged, and only the k-th entry is gone.      *)
LEMMA DeletedAged ==
    ASSUME NEW c, NEW t, Aged(c, t), NEW k \in DOMAIN c, NEW d, Without(c, d, k)
    PROVE  /\ Aged(d, t)
           /\ \A i \in DOMAIN d : d[i].id # c[k].id /\ \E j \in DOMAIN c : d[i] = c[j]
           /\ \A j \in DOMAIN c : j # k => \E i \in DOMAIN d : d[i] = c[j]
<1> DEFINE index(i) == IF i < k THEN i ELSE i + 1
<1>1. /\ Len(c) \in Nat /\ DOMAIN c = 1 .. Len(c) /\ Len(c) <= Capacity /\ Capacity \in Nat
      /\ t \in Nat /\ k \in 1 .. Len(c)
  BY AgedTypes
<1>2. d \in Seq(AppEntry) /\ Len(c) = Len(d) + 1 /\ Len(d) \in Nat /\ DOMAIN d = 1 .. Len(d)
  BY LenProperties DEF Without
<1>3. \A i \in DOMAIN d : /\ index(i) \in DOMAIN c
                          /\ index(i) # k
                          /\ i \in Nat /\ index(i) \in Nat
  BY <1>1, <1>2
<1>4. \A i \in DOMAIN d : d[i] = c[index(i)]
  <2> TAKE i \in DOMAIN d
  <2>1. CASE i < k
    BY <1>2, <2>1 DEF Without
  <2>2. CASE ~(i < k)
    <3>1. i >= k
      BY <1>1, <1>2, <2>2
    <3> QED BY <1>2, <2>2, <3>1 DEF Without
  <2> QED BY <2>1, <2>2
<1>5. \A i, j \in DOMAIN d : /\ i <= j => index(i) <= index(j)
                             /\ index(i) = index(j) => i = j
  BY <1>1, <1>2
<1>6. \A j \in DOMAIN c : j # k => \E i \in DOMAIN d : index(i) = j
  <2> TAKE j \in DOMAIN c
  <2>1. CASE j < k
    <3>1. j \in DOMAIN d /\ index(j) = j
      BY <1>1, <1>2, <2>1
    <3> QED BY <3>1
  <2>2. CASE j > k
    <3>1. j - 1 \in DOMAIN d /\ index(j - 1) = j
      BY <1>1, <1>2, <2>2
    <3> QED BY <3>1
  <2> QED BY <1>1, <2>1, <2>2
<1> HIDE DEF index
<1>7. Len(d) <= Capacity
  BY <1>1, <1>2
<1>8. Aged(d, t)
  BY <1>2, <1>3, <1>4, <1>5, <1>7 DEF Aged
<1>9. \A i \in DOMAIN d : d[i].id # c[k].id
  BY <1>3, <1>4 DEF Aged
<1> QED BY <1>3, <1>4, <1>6, <1>8, <1>9

(* Map.set of a new key: it goes to the end, and no entry is younger.      *)
LEMMA StoredAged ==
    ASSUME NEW c, NEW t, Aged(c, t), Len(c) < Capacity,
           NEW id \in Id, \A i \in DOMAIN c : c[i].id # id
    PROVE  LET new == [id |-> id, at |-> t]
           IN  /\ Aged(Append(c, new), t)
               /\ Recent(Append(c, new), t) = Recent(c, t) \cup {new}
<1> DEFINE new == [id |-> id, at |-> t]
           d == Append(c, new)
<1>1. /\ c \in Seq(AppEntry) /\ Len(c) \in Nat /\ DOMAIN c = 1 .. Len(c)
      /\ t \in Nat /\ TtlSec \in Nat /\ Capacity \in Nat
      /\ \A i \in DOMAIN c : c[i].at \in Nat /\ c[i].at <= t
  BY AgedTypes DEF Aged
<1>2. new \in AppEntry /\ new.id = id /\ new.at = t
  BY <1>1 DEF AppEntry
<1> HIDE DEF new
<1>3. /\ d \in Seq(AppEntry) /\ Len(d) = Len(c) + 1 /\ DOMAIN d = 1 .. Len(d)
      /\ \A i \in 1 .. Len(c) : d[i] = c[i]
      /\ d[Len(c) + 1] = new
  BY <1>1, <1>2, AppendProperties, LenProperties
<1> HIDE DEF d
<1>4. /\ \A i \in DOMAIN c : i \in DOMAIN d /\ d[i] = c[i]
      /\ Len(c) + 1 \in DOMAIN d
      /\ \A i \in DOMAIN d : i \in DOMAIN c \/ i = Len(c) + 1
      /\ Len(d) <= Capacity
  BY <1>1, <1>3
<1>5. t <= t /\ ~(t - t > TtlSec)
  BY <1>1
<1>6. \A i \in DOMAIN d : d[i].at <= t
  BY <1>1, <1>2, <1>3, <1>4, <1>5
<1>7. ASSUME NEW i \in DOMAIN d, NEW j \in DOMAIN d, i <= j PROVE d[i].at <= d[j].at
  <2>1. CASE j \in DOMAIN c
    <3>1. i \in DOMAIN c
      BY <1>1, <1>3, <1>7, <2>1
    <3> QED BY <1>4, <1>7, <2>1, <3>1 DEF Aged
  <2>2. CASE j = Len(c) + 1
    BY <1>2, <1>3, <1>6, <2>2
  <2> QED BY <1>4, <2>1, <2>2
<1>8. \A i, j \in DOMAIN d : d[i].id = d[j].id => i = j
  BY <1>2, <1>3, <1>4 DEF Aged
<1>9. Aged(d, t)
  BY <1>1, <1>3, <1>4, <1>6, <1>7, <1>8 DEF Aged
<1>10. Recent(d, t) = Recent(c, t) \cup {new}
  <2>1. {d[i] : i \in DOMAIN d} = {c[i] : i \in DOMAIN c} \cup {new}
    BY <1>3, <1>4
  <2>2. ~(t - new.at > TtlSec)
    BY <1>2, <1>5
  <2> QED BY <2>1, <2>2 DEF Recent
<1> QED BY <1>9, <1>10 DEF d, new

(* As many entries as there are ids, and with the oldest all are recent.   *)
LEMMA RecentCounted ==
    ASSUME NEW c, NEW t, Aged(c, t)
    PROVE  /\ IsFiniteSet(Recent(c, t)) /\ Cardinality(Recent(c, t)) \in Nat
           /\ Cardinality(Recent(c, t)) <= Len(c)
           /\ c # <<>> /\ ~(t - c[1].at > TtlSec) =>
                /\ Cardinality(Recent(c, t)) = Len(c)
                /\ c[1] \in Recent(c, t)
                /\ \A e \in Recent(c, t) : c[1].at <= e.at
<1> DEFINE all == {c[i] : i \in DOMAIN c}
           f == [i \in 1 .. Len(c) |-> c[i]]
<1>1. /\ c \in Seq(AppEntry) /\ Len(c) \in Nat /\ DOMAIN c = 1 .. Len(c)
      /\ t \in Nat /\ TtlSec \in Nat
      /\ \A i \in DOMAIN c : c[i].at \in Nat
  BY AgedTypes
<1>2. IsFiniteSet(1 .. Len(c)) /\ Cardinality(1 .. Len(c)) = Len(c)
  <2>1. /\ IsFiniteSet(1 .. Len(c))
        /\ Cardinality(1 .. Len(c)) = IF 1 > Len(c) THEN 0 ELSE Len(c) - 1 + 1
    <3>1. 1 \in Int /\ Len(c) \in Int
      BY <1>1
    <3> QED BY <3>1, FS_Interval
  <2>2. (IF 1 > Len(c) THEN 0 ELSE Len(c) - 1 + 1) = Len(c)
    BY <1>1
  <2> QED BY <2>1, <2>2
<1>3. f \in Surjection(1 .. Len(c), all) /\ f \in Injection(1 .. Len(c), all)
  <2>1. f \in [1 .. Len(c) -> all] /\ \A i \in 1 .. Len(c) : f[i] = c[i]
    BY <1>1
  <2>2. \A e \in all : \E i \in 1 .. Len(c) : f[i] = e
    BY <1>1
  <2>3. ASSUME NEW i \in 1 .. Len(c), NEW j \in 1 .. Len(c), f[i] = f[j] PROVE i = j
    <3>1. c[i].id = c[j].id
      BY <2>1, <2>3
    <3> QED BY <1>1, <3>1 DEF Aged
  <2> HIDE DEF f, all
  <2> QED BY <2>1, <2>2, <2>3 DEF Surjection, Injection, IsInjective
<1> HIDE DEF f
<1>4. IsFiniteSet(all) /\ Cardinality(all) = Len(c)
  BY <1>2, <1>3, FS_Surjection
<1>5. Recent(c, t) \in SUBSET all
  BY DEF Recent
<1>6. /\ IsFiniteSet(Recent(c, t)) /\ Cardinality(Recent(c, t)) \in Nat
      /\ Cardinality(Recent(c, t)) <= Len(c)
  <2> HIDE DEF all
  <2> QED BY <1>4, <1>5, FS_Subset, FS_CardinalityType
<1>7. ASSUME c # <<>>, ~(t - c[1].at > TtlSec)
      PROVE  /\ Cardinality(Recent(c, t)) = Len(c)
             /\ c[1] \in Recent(c, t)
             /\ \A e \in Recent(c, t) : c[1].at <= e.at
  <2>1. 1 \in DOMAIN c /\ \A i \in DOMAIN c : 1 <= i
    BY <1>1, <1>7, EmptySeq
  <2>2. \A i \in DOMAIN c : c[1].at <= c[i].at
    BY <2>1 DEF Aged
  <2>3. ASSUME NEW i \in DOMAIN c PROVE ~(t - c[i].at > TtlSec)
    <3>1. c[1].at \in Nat /\ c[i].at \in Nat /\ c[1].at <= c[i].at
      BY <1>1, <2>1, <2>2
    <3> QED BY <1>1, <1>7, <3>1
  <2>4. Recent(c, t) = all
    BY <2>3 DEF Recent
  <2> QED BY <1>4, <2>1, <2>2, <2>4
<1> QED BY <1>6, <1>7

\* Deleting an entry that has expired changes nothing that is remembered.
LEMMA ForgottenGone ==
    ASSUME NEW c, NEW t, Aged(c, t), NEW k \in DOMAIN c, NEW d, Without(c, d, k),
           t - c[k].at > TtlSec
    PROVE  Recent(d, t) = Recent(c, t)
BY DeletedAged DEF Recent

(* has: the Map without the expired entry of id, if there is one.          *)
LEMMA AskedAged ==
    ASSUME AppInv, NEW id \in Id
    PROVE  /\ Aged(AfterHas(id), now)
           /\ Recent(AfterHas(id), now) = Recent(cache, now)
           /\ (\A e \in Entries : e.id = id => Expired(e)) =>
                \A i \in DOMAIN AfterHas(id) : AfterHas(id)[i].id # id
<1> DEFINE outdated == {i \in DOMAIN cache : cache[i].id = id /\ Expired(cache[i])}
           at == CHOOSE i \in outdated : TRUE
           d == SubSeq(cache, 1, at - 1) \o SubSeq(cache, at + 1, Len(cache))
<1>0. Aged(cache, now)
  BY DEF AppInv
<1>1. /\ cache \in Seq(AppEntry) /\ Len(cache) \in Nat /\ DOMAIN cache = 1 .. Len(cache)
      /\ \A i \in DOMAIN cache : cache[i] \in AppEntry
  BY <1>0, AgedTypes
<1>2. CASE outdated = {}
  <2>1. AfterHas(id) = cache
    BY <1>2 DEF AfterHas
  <2> QED BY <1>0, <1>2, <2>1 DEF Entries
<1>3. CASE outdated # {}
  <2>1. AfterHas(id) = d
    BY <1>3 DEF AfterHas
  <2>2. at \in DOMAIN cache /\ cache[at].id = id /\ now - cache[at].at > TtlSec
    BY <1>3 DEF Expired
  <2> HIDE DEF at
  <2>3. Without(cache, d, at)
    <3>1. at \in 1 .. Len(cache)
      BY <1>1, <2>2
    <3>2. /\ SubSeq(cache, 1, at - 1) \in Seq(AppEntry)
          /\ Len(SubSeq(cache, 1, at - 1)) = at - 1
          /\ \A i \in 1 .. at - 1 : SubSeq(cache, 1, at - 1)[i] = cache[i]
      <4>1. 1 \in Int /\ at - 1 \in Int /\ \A i \in 1 .. at - 1 : cache[i] \in AppEntry
        BY <1>1, <3>1
      <4>2. /\ SubSeq(cache, 1, at - 1) \in Seq(AppEntry)
            /\ Len(SubSeq(cache, 1, at - 1)) = IF 1 <= at - 1 THEN at - 1 - 1 + 1 ELSE 0
            /\ \A i \in 1 .. at - 1 - 1 + 1 : SubSeq(cache, 1, at - 1)[i] = cache[1 + i - 1]
        BY <4>1, SubSeqProperties
      <4>3. (IF 1 <= at - 1 THEN at - 1 - 1 + 1 ELSE 0) = at - 1
        BY <1>1, <3>1
      <4>4. at - 1 - 1 + 1 = at - 1 /\ \A i \in 1 .. at - 1 : 1 + i - 1 = i
        BY <3>1
      <4> QED BY <4>2, <4>3, <4>4
    <3>3. /\ SubSeq(cache, at + 1, Len(cache)) \in Seq(AppEntry)
          /\ Len(SubSeq(cache, at + 1, Len(cache))) = Len(cache) - at
          /\ \A i \in 1 .. Len(cache) - at :
               SubSeq(cache, at + 1, Len(cache))[i] = cache[at + i]
      <4>1. /\ at + 1 \in Int /\ Len(cache) \in Int
            /\ \A i \in at + 1 .. Len(cache) : cache[i] \in AppEntry
        BY <1>1, <3>1
      <4>2. /\ SubSeq(cache, at + 1, Len(cache)) \in Seq(AppEntry)
            /\ Len(SubSeq(cache, at + 1, Len(cache))) =
                 IF at + 1 <= Len(cache) THEN Len(cache) - (at + 1) + 1 ELSE 0
            /\ \A i \in 1 .. Len(cache) - (at + 1) + 1 :
                 SubSeq(cache, at + 1, Len(cache))[i] = cache[at + 1 + i - 1]
        BY <4>1, SubSeqProperties
      <4>3. (IF at + 1 <= Len(cache) THEN Len(cache) - (at + 1) + 1 ELSE 0) = Len(cache) - at
        <5>1. CASE at + 1 <= Len(cache)
          <6>1. Len(cache) - (at + 1) + 1 = Len(cache) - at
            BY <1>1, <3>1
          <6> QED BY <5>1, <6>1
        <5>2. CASE ~(at + 1 <= Len(cache))
          <6>1. Len(cache) \in Nat /\ at \in 1 .. Len(cache)
            BY <1>1, <3>1
          <6>2. Len(cache) - at = 0
            BY <5>2, <6>1
          <6> QED BY <5>2, <6>2
        <5> QED BY <5>1, <5>2
      <4>4. /\ Len(cache) - (at + 1) + 1 = Len(cache) - at
            /\ \A i \in 1 .. Len(cache) - at : at + 1 + i - 1 = at + i
        BY <1>1, <3>1
      <4> QED BY <4>2, <4>3, <4>4
    <3> DEFINE front == SubSeq(cache, 1, at - 1)
               back == SubSeq(cache, at + 1, Len(cache))
    <3> HIDE DEF front, back
    <3>4. /\ front \o back \in Seq(AppEntry)
          /\ Len(front \o back) = Len(front) + Len(back)
          /\ \A i \in 1 .. Len(front) + Len(back) :
               (front \o back)[i] = IF i <= Len(front) THEN front[i] ELSE back[i - Len(front)]
      BY <3>2, <3>3, ConcatProperties DEF front, back
    <3>5. /\ Len(front) = at - 1 /\ Len(back) = Len(cache) - at
          /\ \A i \in 1 .. at - 1 : front[i] = cache[i]
          /\ \A i \in 1 .. Len(cache) - at : back[i] = cache[at + i]
      BY <3>2, <3>3 DEF front, back
    <3>6. Len(front \o back) = Len(cache) - 1
      BY <1>1, <3>1, <3>4, <3>5
    <3>7. ASSUME NEW i \in 1 .. Len(front \o back)
          PROVE  /\ i < at => (front \o back)[i] = cache[i]
                 /\ i >= at => (front \o back)[i] = cache[i + 1]
      <4>1. i \in 1 .. Len(front) + Len(back)
        BY <3>4
      <4>2. CASE i < at
        <5>1. i <= Len(front) /\ i \in 1 .. at - 1 /\ ~(i >= at)
          BY <1>1, <3>1, <3>5, <3>6, <4>2
        <5> QED BY <3>4, <3>5, <4>1, <5>1
      <4>3. CASE ~(i < at)
        <5>1. /\ ~(i <= Len(front)) /\ i - Len(front) \in 1 .. Len(cache) - at
              /\ at + (i - Len(front)) = i + 1
          BY <1>1, <3>1, <3>5, <3>6, <4>3
        <5>2. (front \o back)[i] = cache[i + 1]
          BY <3>4, <3>5, <4>1, <5>1
        <5> QED BY <4>3, <5>2
      <4> QED BY <4>2, <4>3
    <3>8. Len(cache) = Len(front \o back) + 1
      BY <1>1, <3>6
    <3>9. Without(cache, front \o back, at)
      BY <3>4, <3>7, <3>8 DEF Without
    <3> QED BY <3>9 DEF front, back
  <2> HIDE DEF d
  <2> QED BY <1>0, <2>1, <2>2, <2>3, DeletedAged, ForgottenGone
<1> QED BY <1>2, <1>3

(* The limit: the entry inserted first goes.  If it was remembered, all    *)
(* the entries were, and it is one of the oldest.                          *)
LEMMA RoomAged ==
    ASSUME AppInv
    PROVE  /\ Aged(RoomMade, now)
           /\ Len(RoomMade) < Capacity
           /\ \A i \in DOMAIN RoomMade : RoomMade[i].id # pending
           /\ \/ /\ Recent(RoomMade, now) = Recent(cache, now)
                 /\ Cardinality(Recent(cache, now)) < Capacity
              \/ /\ Cardinality(Recent(cache, now)) = Capacity
                 /\ \E lost \in Recent(cache, now) :
                      /\ \A r \in Recent(cache, now) : lost.at <= r.at
                      /\ Recent(RoomMade, now) = Recent(cache, now) \ {lost}
<1>0. Aged(cache, now)
  BY DEF AppInv
<1>1. /\ cache \in Seq(AppEntry) /\ Len(cache) \in Nat /\ DOMAIN cache = 1 .. Len(cache)
      /\ Len(cache) <= Capacity /\ Capacity \in Nat \ {0}
  BY <1>0, AgedTypes
<1>2. /\ Cardinality(Recent(cache, now)) \in Nat
      /\ Cardinality(Recent(cache, now)) <= Len(cache)
  BY <1>0, RecentCounted
<1>3. CASE ~(Len(cache) >= Capacity)
  <2>1. RoomMade = cache
    BY <1>3 DEF RoomMade
  <2>2. Len(cache) < Capacity /\ Cardinality(Recent(cache, now)) < Capacity
    BY <1>1, <1>2, <1>3
  <2> QED BY <1>0, <2>1, <2>2 DEF AppInv
<1>4. CASE Len(cache) >= Capacity
  <2>1. RoomMade = Tail(cache)
    BY <1>4 DEF RoomMade
  <2>2. cache # <<>> /\ Len(cache) = Capacity /\ 1 \in DOMAIN cache
    <3>1. /\ Len(cache) \in Nat /\ Capacity \in Nat /\ Capacity # 0
          /\ Len(cache) <= Capacity
      BY <1>1
    <3>2. Len(cache) = Capacity /\ Len(cache) # 0 /\ 1 \in 1 .. Len(cache)
      BY <1>4, <3>1
    <3> QED BY <1>1, <3>2, EmptySeq
  <2>3. Without(cache, Tail(cache), 1)
    <3>1. /\ Tail(cache) \in Seq(AppEntry) /\ Len(Tail(cache)) = Len(cache) - 1
          /\ \A i \in 1 .. Len(Tail(cache)) : Tail(cache)[i] = cache[i + 1]
      BY <1>1, <2>2, HeadTailProperties
    <3>2. Len(cache) = Len(Tail(cache)) + 1
      BY <1>1, <3>1
    <3>3. \A i \in 1 .. Len(Tail(cache)) : ~(i < 1)
      BY <1>1, <3>1
    <3> QED BY <3>1, <3>2, <3>3 DEF Without
  <2> DEFINE d == Tail(cache)
  <2> HIDE DEF d
  <2>4. /\ Aged(d, now)
        /\ \A i \in DOMAIN d : d[i].id # cache[1].id /\ \E j \in DOMAIN cache : d[i] = cache[j]
        /\ \A j \in DOMAIN cache : j # 1 => \E i \in DOMAIN d : d[i] = cache[j]
    <3>1. Without(cache, d, 1)
      BY <2>3 DEF d
    <3>2. 1 \in DOMAIN cache
      BY <2>2
    <3> QED BY <1>0, <3>1, <3>2, DeletedAged
  <2>5. Len(d) < Capacity /\ Len(d) \in Nat /\ Len(d) = Len(cache) - 1
    <3>1. Len(d) \in Nat
      BY <2>4, AgedTypes
    <3>2. Len(cache) = Len(d) + 1
      BY <2>3 DEF Without, d
    <3> QED BY <1>1, <2>2, <3>1, <3>2
  <2>6. \A i \in DOMAIN d : d[i].id # pending
    BY <2>4 DEF AppInv
  <2>7. CASE now - cache[1].at > TtlSec
    <3>1. Recent(d, now) = Recent(cache, now)
      BY <1>0, <2>2, <2>3, <2>7, ForgottenGone DEF d
    <3>2. Cardinality(Recent(d, now)) \in Nat /\ Cardinality(Recent(d, now)) <= Len(d)
      BY <2>4, RecentCounted
    <3>3. Cardinality(Recent(cache, now)) < Capacity
      BY <1>1, <2>5, <3>1, <3>2
    <3> QED BY <2>1, <2>4, <2>5, <2>6, <3>1, <3>3 DEF d
  <2>8. CASE ~(now - cache[1].at > TtlSec)
    <3>1. /\ Cardinality(Recent(cache, now)) = Len(cache)
          /\ cache[1] \in Recent(cache, now)
          /\ \A e \in Recent(cache, now) : cache[1].at <= e.at
      BY <1>0, <2>2, <2>8, RecentCounted
    <3>2. Recent(d, now) = Recent(cache, now) \ {cache[1]}
      BY <2>2, <2>4 DEF Recent
    <3> QED BY <2>1, <2>2, <2>4, <2>5, <2>6, <3>1, <3>2 DEF d
  <2> QED BY <2>7, <2>8
<1> QED BY <1>3, <1>4

(* add: the Map with room made and the new id at its end.                  *)
LEMMA AddedAged ==
    ASSUME AppInv, CacheAdd
    PROVE  /\ Aged(cache', now')
           /\ Recent(cache', now') = Recent(RoomMade, now) \cup {[id |-> pending, at |-> now]}
<1>1. /\ Aged(RoomMade, now) /\ Len(RoomMade) < Capacity
      /\ \A i \in DOMAIN RoomMade : RoomMade[i].id # pending
  BY RoomAged
<1>2. pending \in Id
  BY DEF AppInv, CacheAdd
<1>3. cache' = Append(RoomMade, [id |-> pending, at |-> now]) /\ now' = now
  BY <1>1 DEF CacheAdd, Set
<1>4. /\ Aged(Append(RoomMade, [id |-> pending, at |-> now]), now)
      /\ Recent(Append(RoomMade, [id |-> pending, at |-> now]), now) =
           Recent(RoomMade, now) \cup {[id |-> pending, at |-> now]}
  BY <1>1, <1>2, StoredAged
<1> QED BY <1>3, <1>4

\* An empty Map, which is aged at any time.
LEMMA EmptyAged ==
    ASSUME NEW t \in Nat
    PROVE  Aged(<<>>, t) /\ Recent(<<>>, t) = {} /\ DOMAIN <<>> = {}
<1>1. /\ <<>> \in Seq(AppEntry) /\ Len(<<>>) = 0 /\ DOMAIN <<>> = {}
      /\ Capacity \in Nat
  BY EmptySeq, LenProperties, AppCacheAssumption
<1>2. 0 <= Capacity
  BY <1>1
<1> QED BY <1>1, <1>2 DEF Aged, Recent

(* A tick: the Map does not change, and what it remembers shrinks.         *)
LEMMA TickedAged ==
    ASSUME NEW c, NEW t, Aged(c, t)
    PROVE  /\ Aged(c, t + 1)
           /\ Recent(c, t + 1) = {r \in Recent(c, t) : t + 1 - r.at <= TtlSec}
<1>1. /\ c \in Seq(AppEntry) /\ t \in Nat /\ TtlSec \in Nat
      /\ \A i \in DOMAIN c : c[i].at \in Nat
  BY AgedTypes
<1>2. \A i \in DOMAIN c : c[i].at <= t + 1
  <2> TAKE i \in DOMAIN c
  <2>1. c[i].at \in Nat /\ c[i].at <= t
    BY <1>1 DEF Aged
  <2> QED BY <1>1, <2>1
<1>3. t + 1 \in Nat
  BY <1>1
<1>4. Aged(c, t + 1)
  <2> DEFINE u == t + 1
  <2> HIDE DEF u
  <2>1. u \in Nat /\ \A i \in DOMAIN c : c[i].at <= u
    BY <1>2, <1>3 DEF u
  <2>2. Aged(c, u)
    BY <2>1 DEF Aged
  <2> QED BY <2>2 DEF u
<1>5. \A i \in DOMAIN c : ~((t + 1) - c[i].at > TtlSec) <=>
        ~(t - c[i].at > TtlSec) /\ t + 1 - c[i].at <= TtlSec
  <2> SUFFICES ASSUME NEW i \in DOMAIN c, NEW a, a = c[i].at
               PROVE  ~((t + 1) - a > TtlSec) <=> ~(t - a > TtlSec) /\ t + 1 - a <= TtlSec
    OBVIOUS
  <2>1. a \in Nat /\ t \in Nat /\ TtlSec \in Nat
    BY <1>1
  <2> QED BY <2>1
<1>6. Recent(c, t + 1) = {r \in Recent(c, t) : t + 1 - r.at <= TtlSec}
  <2> DEFINE all == {c[i] : i \in DOMAIN c}
  <2>1. \A e \in all : ~((t + 1) - e.at > TtlSec) <=>
                        ~(t - e.at > TtlSec) /\ t + 1 - e.at <= TtlSec
    BY <1>5
  <2> HIDE DEF all
  <2>2. {e \in all : ~((t + 1) - e.at > TtlSec)} =
          {r \in {e \in all : ~(t - e.at > TtlSec)} : t + 1 - r.at <= TtlSec}
    <3> DEFINE L(e) == ~((t + 1) - e.at > TtlSec)
               M(e) == ~(t - e.at > TtlSec)
               N(e) == t + 1 - e.at <= TtlSec
    <3>1. \A e \in all : L(e) <=> M(e) /\ N(e)
      BY <2>1
    <3> HIDE DEF L, M, N
    <3>2. {e \in all : L(e)} = {r \in {e \in all : M(e)} : N(r)}
      BY <3>1
    <3> QED BY <3>2 DEF L, M, N
  <2> QED BY <2>2 DEF Recent, all
<1> QED BY <1>4, <1>6

\* Nothing has been added.
LEMMA InitAppCache == CacheInit => AppInv /\ Map!MapInit
<1> SUFFICES ASSUME CacheInit PROVE AppInv /\ Map!MapInit
  OBVIOUS
<1>1. cache = <<>> /\ pending = NoId /\ now = 0
  BY DEF CacheInit
<1>2. 0 \in Nat /\ 0 \in 0 .. MaxTime
  BY AppCacheAssumption
<1>3. Aged(cache, now) /\ DOMAIN cache = {}
  BY <1>1, <1>2, EmptyAged
<1>4. {e \in Entries : ~Expired(e)} = {}
  BY <1>3 DEF Entries
<1> QED BY <1>1, <1>2, <1>3, <1>4 DEF AppInv, Map!MapInit

\* The Map stays aged, and its entries are not of the id between has and add.
LEMMA NextAppCache == AppInv /\ [CacheNext]_cacheVars => AppInv'
<1> SUFFICES ASSUME AppInv, [CacheNext]_cacheVars PROVE AppInv'
  OBVIOUS
<1>0. /\ Aged(cache, now) /\ now \in Nat
      /\ pending \in Id \cup {NoId} /\ now \in 0 .. MaxTime
      /\ \A i \in DOMAIN cache : cache[i].id # pending
      /\ \A i \in DOMAIN cache : cache[i].id \in Id
      /\ NoId \notin Id
  BY AgedTypes, AppCacheAssumption DEF AppInv, Aged
<1>1. ASSUME NEW id \in Id, CacheHas(id) PROVE AppInv'
  <2>1. /\ cache' = AfterHas(id) /\ now' = now /\ pending' \in {NoId, id}
        /\ pending' = id => \A e \in Entries : e.id = id => Expired(e)
    BY <1>0, <1>1 DEF CacheHas
  <2>2. Aged(cache', now')
    BY <2>1, AskedAged
  <2>3. \A i \in DOMAIN cache' : cache'[i].id # pending'
    <3>1. CASE pending' = NoId
      <4>1. \A i \in DOMAIN cache' : cache'[i].id \in Id
        BY <2>2, AgedTypes
      <4> QED BY <1>0, <3>1, <4>1
    <3>2. CASE pending' = id
      BY <2>1, <3>2, AskedAged
    <3> QED BY <2>1, <3>1, <3>2
  <2> QED BY <1>0, <2>1, <2>2, <2>3 DEF AppInv
<1>2. ASSUME CacheAdd PROVE AppInv'
  <2>1. pending' = NoId /\ now' = now
    BY <1>2 DEF CacheAdd
  <2>2. Aged(cache', now')
    BY <1>2, AddedAged
  <2>3. \A i \in DOMAIN cache' : cache'[i].id \in Id
    BY <2>2, AgedTypes
  <2> QED BY <1>0, <2>1, <2>2, <2>3 DEF AppInv
<1>3. ASSUME CacheClear PROVE AppInv'
  <2>1. cache' = <<>> /\ pending' = pending /\ now' = now
    BY <1>3 DEF CacheClear
  <2>2. Aged(cache', now') /\ DOMAIN cache' = {}
    BY <1>0, <2>1, EmptyAged
  <2> QED BY <1>0, <2>1, <2>2 DEF AppInv
<1>4. ASSUME CacheTick PROVE AppInv'
  <2>1. now' = now + 1 /\ now' \in 0 .. MaxTime /\ UNCHANGED <<cache, pending>>
    BY <1>0, <1>4, AppCacheAssumption DEF CacheTick
  <2>2. Aged(cache', now')
    BY <1>0, <2>1, TickedAged
  <2> QED BY <1>0, <2>1, <2>2 DEF AppInv
<1>5. ASSUME UNCHANGED cacheVars PROVE AppInv'
  BY <1>5 DEF cacheVars, AppInv
<1> QED BY <1>1, <1>2, <1>3, <1>4, <1>5 DEF CacheNext

\* What the cache of the app stands for.
AppRecent == {e \in Entries : ~Expired(e)}

\* The same set, as that of the lemmas.
LEMMA AppRecentIs == AppRecent = Recent(cache, now) /\ AppRecent' = Recent(cache', now')
BY DEF AppRecent, Recent, Entries, Expired

\* Map counts as this module does.
LEMMA AppCardinality == ASSUME NEW S PROVE Map!Cardinality(S) = Cardinality(S)
BY DEF Map!Cardinality, Cardinality

(* Every call is a step of the map or leaves it alone, but for the switch. *)
LEMMA NextAppMaps ==
    AppInv /\ [CacheNext]_cacheVars => [Map!MapNext \/ CacheClear]_cacheVars
<1> SUFFICES ASSUME AppInv, CacheNext PROVE Map!MapNext \/ CacheClear
  BY DEF cacheVars
<1>0. Aged(cache, now) /\ now \in Nat
  BY DEF AppInv, Aged
<1>1. ASSUME NEW id \in Id, CacheHas(id) PROVE Map!Ask(id)
  <2>1. AppRecent' = AppRecent
    <3>1. cache' = AfterHas(id) /\ now' = now
      BY <1>1 DEF CacheHas
    <3>2. Recent(cache', now') = Recent(cache, now)
      BY <3>1, AskedAged
    <3> QED BY <3>2, AppRecentIs
  <2>2. (\E e \in Entries : e.id = id /\ ~Expired(e)) <=> \E r \in AppRecent : r.id = id
    BY DEF AppRecent
  <2>3. Map!Known(id) <=> \E r \in AppRecent : r.id = id
    BY DEF Map!Known, AppRecent
  <2>4. pending = NoId /\ now' = now /\ pending' = IF Map!Known(id) THEN NoId ELSE id
    BY <1>1, <2>2, <2>3 DEF CacheHas
  <2> QED BY <2>1, <2>4 DEF Map!Ask, AppRecent
<1>2. ASSUME CacheAdd PROVE Map!MapMarkSeen
  <2> DEFINE new == [id |-> pending, at |-> now]
  <2>1. AppRecent' = Recent(RoomMade, now) \cup {new}
    BY <1>2, AddedAged, AppRecentIs
  <2>2. \/ /\ Recent(RoomMade, now) = AppRecent
           /\ Cardinality(AppRecent) < Capacity
        \/ /\ Cardinality(AppRecent) = Capacity
           /\ \E lost \in AppRecent :
                /\ \A r \in AppRecent : lost.at <= r.at
                /\ Recent(RoomMade, now) = AppRecent \ {lost}
    BY RoomAged, AppRecentIs
  <2>3. \/ /\ Cardinality(AppRecent) < Capacity
           /\ AppRecent' = AppRecent \cup {new}
        \/ /\ Cardinality(AppRecent) = Capacity
           /\ \E lost \in AppRecent :
                /\ \A r \in AppRecent : lost.at <= r.at
                /\ AppRecent' = (AppRecent \ {lost}) \cup {new}
    BY <2>1, <2>2
  <2>4. Map!Remember(pending)
    BY <2>3, AppCardinality DEF Map!Remember, AppRecent
  <2> QED BY <1>2, <2>4 DEF CacheAdd, Map!MapMarkSeen
<1>3. ASSUME CacheTick PROVE Map!MapTick
  <2>1. now' = now + 1 /\ now < MaxTime /\ UNCHANGED <<cache, pending>>
    BY <1>3 DEF CacheTick
  <2>2. AppRecent' = {r \in AppRecent : now + 1 - r.at <= TtlSec}
    <3>1. Recent(cache, now + 1) = {r \in Recent(cache, now) : now + 1 - r.at <= TtlSec}
      BY <1>0, TickedAged
    <3> QED BY <2>1, <3>1, AppRecentIs
  <2> QED BY <2>1, <2>2 DEF Map!MapTick, AppRecent
<1> QED BY <1>1, <1>2, <1>3 DEF CacheNext, Map!MapNext

(* The app: its Map stays aged, so that the entry inserted first is one of *)
(* the oldest, and no id is in it twice (App.tsx:131-159).                 *)
THEOREM AppCacheInvariant == CacheSpec => []AppInv
BY InitAppCache, NextAppCache, PTL DEF CacheSpec

(* The types, and that the Map never has more than SEEN_CACHE_MAX entries  *)
(* (App.tsx:145).                                                          *)
THEOREM AppCacheTypes == CacheSpec => []CacheTypeOK
<1>1. AppInv => CacheTypeOK
  <2> SUFFICES ASSUME AppInv PROVE CacheTypeOK
    OBVIOUS
  <2>1. /\ Aged(cache, now) /\ pending \in Id \cup {NoId} /\ now \in 0 .. MaxTime
        /\ now \in Nat /\ Len(cache) <= Capacity
    BY DEF AppInv, Aged
  <2>2. ASSUME NEW i \in DOMAIN cache PROVE cache[i] \in [id : Id, at : 0 .. now]
    <3>1. cache[i] \in AppEntry /\ cache[i].at \in Nat /\ cache[i].at <= now
      BY <2>1, AgedTypes DEF Aged
    <3>2. cache[i].at \in 0 .. now
      BY <2>1, <3>1
    <3> QED BY <3>1, <3>2 DEF AppEntry
  <2> QED BY <2>1, <2>2 DEF CacheTypeOK, Entries
<1> QED BY <1>1, AppCacheInvariant, PTL

(* The cache of the app implements the map that the cache of the C node    *)
(* implements, up to the switch: expired entries that stay in the Map and  *)
(* count for its size never cost an id that is remembered (App.tsx:134-150)*)
THEOREM AppImplementsMap == CacheSpec => AppImplementsSeenMap
<1>1. CacheInit => Map!MapInit
  BY InitAppCache
<1> QED BY <1>1, AppCacheInvariant, NextAppMaps, PTL DEF CacheSpec, AppImplementsSeenMap

=============================================================================
