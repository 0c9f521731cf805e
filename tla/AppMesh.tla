------------------------------ MODULE AppMesh ------------------------------
(***************************************************************************)
(* The mesh of the React Native app, src/app/App.tsx without a native      *)
(* service: one JavaScript thread whose functions are cut at each await,   *)
(* with callbacks of the Bluetooth library in between.                     *)
(*                                                                         *)
(* External, as App.tsx uses it: react-native-ble-plx.  connect and        *)
(* discovery resolve or reject at any time; a link may break at any time,  *)
(* and the callback that tells of it runs later; cancelConnection breaks   *)
(* the link at once; a write succeeds only while the link is up, and may   *)
(* fail even then.  Scanning reports a device at any time while the mesh   *)
(* is on (the duty cycle only makes it rarer).                             *)
(***************************************************************************)
EXTENDS Integers, FiniteSets, FiniteSetsExt

CONSTANTS
    Device,         \* the devices nearby
    NoDevice,       \* "no device"
    Packet,         \* packet ids
    MaxConnections, \* MAX_CONNECTIONS
    MaxAttempts,    \* bound on the connection attempts under way
    MaxPlaces       \* bound on the places of the Map

ASSUME AppAssumption ==
    /\ NoDevice \notin Device
    /\ MaxConnections \in Nat \ {0}
    /\ MaxAttempts \in Nat \ {0}
    /\ MaxPlaces \in Nat

VARIABLES
    active,     \* the switch
    place,      \* place[d]: where connectedNodes has the entry of d, or 0
    silent,     \* the entries whose lastSeen is more than 120 s ago
    dialling,   \* dialling[d]: calls that await device.connect
    probing,    \* probing[d]: calls that await the discovery of services
    linked,     \* devices with a radio link
    monitored,  \* devices whose link has the monitor callback
    heard,      \* devices with an onDisconnected callback; never removed
    gone,       \* devices whose onDisconnected callback is yet to run
    seen,       \* seenCache
    relays      \* relays[p]: the loop that relays p, at an await or ended

appVars == <<active, place, silent, dialling, probing, linked, monitored,
             heard, gone, seen, relays>>

(***************************************************************************)
(* A relay loop: the device the packet came from, the device it is being   *)
(* written to (NoDevice when the loop has ended), and the place up to      *)
(* which its iterator has passed the Map.  `stay` and `reached` are        *)
(* history: the entries that were in the Map all the time, and the writes  *)
(* that came through.                                                      *)
(***************************************************************************)
Relay == [source  : Device \cup {NoDevice},
          at      : Device \cup {NoDevice},
          passed  : 0 .. MaxPlaces,
          stay    : SUBSET Device,
          reached : SUBSET Device]

Ended == [source |-> NoDevice, at |-> NoDevice, passed |-> 0, stay |-> {}, reached |-> {}]

Nodes == {d \in Device : place[d] # 0}

\* The loop goes to the next entry that is not the source, or ends.
Advance(r, places) ==
    LET next == {d \in Device \ {r.source} : places[d] > r.passed}
        d == CHOOSE d \in next : \A e \in next : places[d] <= places[e]
    IN  IF next = {} THEN Ended ELSE [r EXCEPT !.at = d, !.passed = places[d]]

(* The places behind all entries and all iterators.  A Map puts a new entry*)
(* behind the last one, and gives a place only once; the least of these    *)
(* keeps the same order with fewer numbers.                                *)
Behind == {n \in 1 .. MaxPlaces : /\ \A d \in Device : place[d] < n
                                  /\ \A p \in Packet : relays[p].passed < n}

ClosedUp(S) ==      \* mutant: as in an array, the entries behind move up
    [d \in Device |-> IF d \in S THEN 0
                      ELSE place[d] - Cardinality({e \in S \cap Nodes : place[e] < place[d]})]

\* Deleting the entries of S leaves the others, and the iterators, in place.
Deleted(S) == [d \in Device |-> IF d \in S THEN 0 ELSE place[d]]

\* The loops after the entries of S are deleted.
Bypassed(S) == [p \in Packet |-> [relays[p] EXCEPT !.stay = @ \ S]]

DeleteEntries(S) ==     \* mutant: lastSeen outlives the entry
    /\ place' = Deleted(S)
    /\ relays' = Bypassed(S)
    /\ UNCHANGED silent

Delete(S) ==
    /\ place' = Deleted(S)
    /\ silent' = silent \ S
    /\ relays' = Bypassed(S)

\* The links to S break, and the callbacks that were registered will run.
Break(S) ==
    /\ linked' = linked \ S
    /\ monitored' = monitored \ S
    /\ gone' = gone \cup (S \cap linked \cap heard)

(***************************************************************************)
(* connectToDevice: its tests, then two awaits, then the entry.            *)
(***************************************************************************)
Attempts == MapThenSumSet(LAMBDA d : dialling[d] + probing[d], Device)

Discover(d) ==
    /\ active
    /\ Attempts < MaxAttempts
    /\ d \notin Nodes
    /\ Cardinality(Nodes) < MaxConnections
    /\ dialling' = [dialling EXCEPT ![d] = @ + 1]
    /\ UNCHANGED <<active, place, silent, probing, linked, monitored, heard, gone, seen, relays>>

Connect(d) ==
    /\ dialling[d] > 0
    /\ dialling' = [dialling EXCEPT ![d] = @ - 1]
    /\ probing' = [probing EXCEPT ![d] = @ + 1]
    /\ linked' = linked \cup {d}
    /\ UNCHANGED <<active, place, silent, monitored, heard, gone, seen, relays>>

\* A rejected promise; the catch block only touches discoveredDevices.
Reject(d) ==
    /\ \/ dialling[d] > 0 /\ dialling' = [dialling EXCEPT ![d] = @ - 1] /\ UNCHANGED probing
       \/ probing[d] > 0 /\ probing' = [probing EXCEPT ![d] = @ - 1] /\ UNCHANGED dialling
    /\ UNCHANGED <<active, place, silent, linked, monitored, heard, gone, seen, relays>>

(* connectedNodes.set and the two callbacks.  Nothing is tested again: the *)
(* mesh may be off, the limit reached, the entry there, the link broken.   *)
(* Bound: MaxPlaces.                                                       *)
Enter(d) ==
    /\ probing[d] > 0
    /\ probing' = [probing EXCEPT ![d] = @ - 1]
    /\ \/ d \in Nodes /\ UNCHANGED place
       \/ d \notin Nodes /\ Behind # {} /\ place' = [place EXCEPT ![d] = Min(Behind)]
    /\ silent' = silent \ {d}
    /\ heard' = heard \cup {d}
    /\ monitored' = IF d \in linked THEN monitored \cup {d} ELSE monitored
    /\ UNCHANGED <<active, dialling, linked, gone, seen, relays>>

\* Bound: one untold loss of a link at a time.
LoseLink(d) ==
    /\ d \in linked \ gone
    /\ Break({d})
    /\ UNCHANGED <<active, place, silent, dialling, probing, heard, seen, relays>>

\* The onDisconnected callback: the entry goes, whichever link it is for.
Disconnected(d) ==
    /\ d \in gone
    /\ gone' = gone \ {d}
    /\ Delete({d})
    /\ UNCHANGED <<active, dialling, probing, linked, monitored, heard, seen>>

(***************************************************************************)
(* Packets.                                                                *)
(***************************************************************************)

\* The monitor callback with a duplicate, or another version.
ReceiveKnown(d) ==
    /\ d \in monitored
    /\ d \in silent
    /\ silent' = silent \ {d}
    /\ UNCHANGED <<active, place, dialling, probing, linked, monitored, heard, gone, seen, relays>>

(* The monitor callback and relayPacket up to the first await, if the TTL  *)
(* lets it relay.  Bound: one loop for a packet at a time.                 *)
ReceiveNew(p, d) ==
    /\ d \in monitored
    /\ p \notin seen
    /\ relays[p].at = NoDevice
    /\ seen' = seen \cup {p}
    /\ silent' = silent \ {d}
    /\ \/ relays' = [relays EXCEPT ![p] =
                       Advance([Ended EXCEPT !.source = d, !.stay = Nodes], place)]
       \/ UNCHANGED relays
    /\ UNCHANGED <<active, place, dialling, probing, linked, monitored, heard, gone>>

Reached(r) == [r EXCEPT !.reached = @ \cup {r.at}]

Written(p) ==
    /\ relays[p].at \in linked
    /\ relays' = [relays EXCEPT ![p] = Advance(Reached(@), place)]
    /\ UNCHANGED <<active, place, silent, dialling, probing, linked, monitored, heard, gone, seen>>

\* The entry of the device goes, be it the one the loop took or a later one.
WriteFailed(p) ==
    LET d == relays[p].at
    IN  /\ d # NoDevice
        /\ place' = Deleted({d})
        /\ silent' = silent \ {d}
        /\ relays' = [Bypassed({d}) EXCEPT ![p] = Advance(@, Deleted({d}))]
        /\ UNCHANGED <<active, dialling, probing, linked, monitored, heard, gone, seen>>

\* The id expires or is evicted (module AppSeenCache).
ForgetId(p) ==
    /\ p \in seen
    /\ seen' = seen \ {p}
    /\ UNCHANGED <<active, place, silent, dialling, probing, linked, monitored, heard, gone, relays>>

(***************************************************************************)
(* The pruner, which runs while the mesh is on, and the switch.            *)
(***************************************************************************)
Silence(d) ==
    /\ d \in Nodes \ silent
    /\ silent' = silent \cup {d}
    /\ UNCHANGED <<active, place, dialling, probing, linked, monitored, heard, gone, seen, relays>>

CancelledOnly == silent \cap linked     \* mutant: a cancel that fails keeps the entry

\* The entries one run of the pruner deletes.
Stale == silent

Prune ==
    /\ active
    /\ Stale # {}
    /\ Break(Stale)
    /\ Delete(Stale)
    /\ UNCHANGED <<active, dialling, probing, heard, seen>>

SwitchOn ==
    /\ ~active
    /\ active' = TRUE
    /\ UNCHANGED <<place, silent, dialling, probing, linked, monitored, heard, gone, seen, relays>>

SwitchOff ==
    /\ active
    /\ active' = FALSE
    /\ Break(Nodes)
    /\ Delete(Nodes)
    /\ seen' = {}
    /\ UNCHANGED <<dialling, probing, heard>>

AppInit ==
    /\ active = FALSE
    /\ place = [d \in Device |-> 0]
    /\ dialling = [d \in Device |-> 0]
    /\ probing = [d \in Device |-> 0]
    /\ silent = {} /\ linked = {} /\ monitored = {} /\ heard = {} /\ gone = {} /\ seen = {}
    /\ relays = [p \in Packet |-> Ended]

AppNext ==
    \/ \E d \in Device : \/ Discover(d) \/ Connect(d) \/ Reject(d) \/ Enter(d)
                         \/ LoseLink(d) \/ Disconnected(d)
                         \/ ReceiveKnown(d) \/ Silence(d)
    \/ \E p \in Packet, d \in Device : ReceiveNew(p, d)
    \/ \E p \in Packet : Written(p) \/ WriteFailed(p) \/ ForgetId(p)
    \/ Prune \/ SwitchOn \/ SwitchOff

AppSpec == AppInit /\ [][AppNext]_appVars

(* Time passes, and setInterval runs the pruner.  Nothing obliges the      *)
(* radio to find, keep or lose anybody.                                    *)
AppFairness == WF_appVars(Prune) /\ \A d \in Device : WF_appVars(Silence(d))

(***************************************************************************)
(* Properties.                                                             *)
(***************************************************************************)
AppTypeOK ==
    /\ active \in BOOLEAN
    /\ place \in [Device -> 0 .. MaxPlaces]
    /\ silent \subseteq Nodes
    /\ dialling \in [Device -> Nat] /\ probing \in [Device -> Nat]
    /\ monitored \subseteq linked /\ linked \subseteq Device
    /\ heard \subseteq Device /\ gone \subseteq heard
    /\ seen \subseteq Packet
    /\ relays \in [Packet -> Relay]

(* A loop over the Map is suspended at each write while disconnections,    *)
(* the pruner, failed writes of other loops and the switch delete entries. *)
(* Every node that was there all the time, but the one the packet came     *)
(* from, has been given the packet when the loop ends (App.tsx:315-328).   *)
StayersGetIt ==
    [][\A p \in Packet :
         relays[p].at # NoDevice /\ relays'[p] = Ended =>
           relays[p].stay \ {relays[p].source, relays[p].at} \subseteq relays[p].reached]_appVars

(* An entry may be made after its link broke, and no callback will delete  *)
(* it; the pruner does, as long as the mesh is on (App.tsx:364, :427).     *)
GhostsAreCleared ==
    \A d \in Device :
      (active /\ d \in Nodes \ linked) ~> (~active \/ d \notin Nodes \ linked)

(* "max 5 concurrent BLE connections" (src/app/README.md:43).              *)
LimitOf5 == Cardinality(Nodes) <= MaxConnections

=============================================================================
