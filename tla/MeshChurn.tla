----------------------------- MODULE MeshChurn -----------------------------
(***************************************************************************)
(* MeshFlood when processes come and go and forget.  A node is a process:  *)
(* it starts once, dials the --peer paths of its command line once, and    *)
(* when it ends (quit, signal, crash) its sockets close; a restarted node  *)
(* is another process, since nothing of the mesh is kept on disk.  No      *)
(* connection is dialled again after it is lost.                           *)
(*                                                                         *)
(* A connection has two ends.  The dialled end is queued in the listener's *)
(* backlog until it accepts, and each end closes for itself; the other     *)
(* then finds out by reading end-of-file, or by writing, which kills it:   *)
(* main.c:140-141 handles SIGINT and SIGTERM only, so write() to a closed  *)
(* socket raises SIGPIPE before transport_unix.c:127 can see its result.   *)
(***************************************************************************)
EXTENDS MeshFlood

CONSTANTS
    Dial,       \* Dial[n]: the nodes n is told to --peer with
    MaxPeers,   \* VEX_MAX_PEERS
    Faults      \* which faults happen: a subset of {"forget", "torn"}

ASSUME ChurnAssumption ==
    /\ Dial \in [Node -> SUBSET Node]
    /\ \A m, n \in Node : n \in Dial[m] => m \notin Dial[n]
    /\ MaxPeers \in Nat \ {0}
    /\ \A n \in Node : Cardinality(Dial[n]) <= MaxPeers
    /\ Faults \subseteq {"forget", "torn"}
    /\ \A n \in Node : Topology[n] = {}     \* until it starts

VARIABLES
    status,     \* status[n]: "new", "up" or "dead"
    backlog     \* backlog[n]: the nodes whose connection n has yet to accept

churnVars == <<floodVars, status, backlog>>

Up(n) == status[n] = "up"

(* n's end of its connection with x is open: it holds the descriptor, or   *)
(* the kernel holds it for n in the backlog.                               *)
HasEnd(n, x) == x \in peers[n] \/ x \in backlog[n]

(***************************************************************************)
(* Processes and connections.                                              *)
(***************************************************************************)

\* main: listen, then vex_transport_unix_connect to each peer that listens.
Start(n) ==
    LET dialled == {x \in Dial[n] : Up(x)}
    IN  /\ status[n] = "new"
        /\ status' = [status EXCEPT ![n] = "up"]
        /\ peers' = [peers EXCEPT ![n] = dialled]
        /\ backlog' = [x \in Node |-> IF x \in dialled THEN backlog[x] \cup {n}
                                                       ELSE backlog[x]]
        /\ UNCHANGED <<wire, seen, stats, origin, accepted, forwarded>>

FullLate(n) == Cardinality(peers[n]) > MaxPeers     \* mutant: > for >=

\* No peer slot of n is inactive.
Full(n) == Cardinality(peers[n]) >= MaxPeers

\* vex_transport_unix_accept: a slot for the peer, or its connection closed.
Accept(n, x) ==
    /\ x \in backlog[n]
    /\ backlog' = [backlog EXCEPT ![n] = @ \ {x}]
    /\ IF Full(n)
         THEN wire' = [wire EXCEPT ![<<x, n>>] = <<>>] /\ UNCHANGED peers
         ELSE peers' = [peers EXCEPT ![n] = @ \cup {x}] /\ UNCHANGED wire
    /\ UNCHANGED <<seen, stats, origin, accepted, forwarded, status>>

\* mutant: the descriptors stay open
LeakEnds(w, n) == w

(* The wire when n's ends close: what was on its way to n is gone; what it *)
(* has written can still be read.                                          *)
CloseEnds(w, n) == [c \in Conn |-> IF c[2] = n THEN <<>> ELSE w[c]]

\* /quit, SIGINT, SIGTERM, or a crash, between two handlers.
Stop(n) ==
    /\ Up(n)
    /\ status' = [status EXCEPT ![n] = "dead"]
    /\ peers' = [peers EXCEPT ![n] = {}]
    /\ backlog' = [backlog EXCEPT ![n] = {}]
    /\ wire' = CloseEnds(wire, n)
    /\ UNCHANGED <<seen, stats, origin, accepted, forwarded>>

\* mutant: only a connection that was accepted once counts as open
GoneNever(n, x) == FALSE

\* x's end of its connection with n is closed.
Gone(n, x) == ~HasEnd(x, n)

(* vex_transport_unix_read finds end-of-file, once all that x wrote has    *)
(* been read, and closes n's end.                                          *)
Hangup(n, x) ==
    /\ x \in peers[n]
    /\ wire[<<x, n>>] = <<>>
    /\ Gone(n, x)
    /\ peers' = [peers EXCEPT ![n] = @ \ {x}]
    /\ UNCHANGED <<wire, seen, stats, origin, accepted, forwarded, status, backlog>>

(***************************************************************************)
(* Handlers.  A broadcast to peers that are all there is that of MeshFlood.*)
(***************************************************************************)
AllThere(n, to) == \A x \in to : ~Gone(n, x)

ChurnSend(n, p) ==
    /\ Up(n)
    /\ AllThere(n, peers[n])
    /\ Send(n, p)
    /\ UNCHANGED <<status, backlog>>

ChurnReceive(m, n) ==
    /\ Up(n)
    /\ Incoming(m, n)
    /\ \/ ReceiveSeen(m, n)
       \/ /\ WillRelay(n, NextFrame(m, n)) => AllThere(n, peers[n] \ {m})
          /\ ReceiveNew(m, n)
    /\ UNCHANGED <<status, backlog>>

(* n dies of SIGPIPE while it writes frame to the nodes of `to`: victim's  *)
(* end is closed, or (a torn frame) closes between the two writes of       *)
(* vex_transport_send_to_peer, because the victim read the header and took *)
(* the missing payload for a lost peer (transport_unix.c:185).  The slots  *)
(* before the victim's have been served.                                   *)
Sigpipe(n, w, frame, to) ==
    \E victim \in to, served \in SUBSET to :
      /\ \A x \in served : ~Gone(n, x) /\ x # victim
      /\ \/ /\ Gone(n, victim)
            /\ peers' = [peers EXCEPT ![n] = {}]
         \/ /\ "torn" \in Faults
            /\ n \in peers[victim]
            /\ wire[<<n, victim>>] = <<>>
            /\ peers' = [peers EXCEPT ![n] = {}, ![victim] = @ \ {n}]
      /\ wire' = CloseEnds(SendToAll(w, n, frame, served), n)
      /\ status' = [status EXCEPT ![n] = "dead"]
      /\ backlog' = [backlog EXCEPT ![n] = {}]

KilledSending(n, p) ==
    /\ Up(n)
    /\ origin[p] = NoNode
    /\ origin' = [origin EXCEPT ![p] = n]
    /\ seen' = Mark(n, p)
    /\ accepted' = Accepted(n, p)
    /\ Sigpipe(n, wire, [id |-> p, ttl |-> DefaultTtl[n]], peers[n])
    /\ UNCHANGED <<stats, forwarded>>

KilledRelaying(m, n) ==
    LET f == NextFrame(m, n)
    IN  /\ Up(n)
        /\ Incoming(m, n)
        /\ f.id \notin seen[n]
        /\ WillRelay(n, f)
        /\ seen' = Mark(n, f.id)
        /\ stats' = Count(stats, n, "received")
        /\ accepted' = Accepted(n, f.id)
        /\ Sigpipe(n, Taken(m, n), Hop(f), peers[n] \ {m})
        /\ UNCHANGED <<origin, forwarded>>

(* The torn frame without the kill: the payload arrives before n closes    *)
(* its end.  The frame is lost with the connection, and so is whatever m   *)
(* wrote behind it between the failed read and the close                   *)
(* (transport_unix.c:187-190); m is alive.                                 *)
Misread(m, n) ==
    /\ "torn" \in Faults
    /\ m \in peers[n]
    /\ wire[<<m, n>>] # <<>>
    /\ wire' = [wire EXCEPT ![<<m, n>>] = <<>>]
    /\ peers' = [peers EXCEPT ![n] = @ \ {m}]
    /\ UNCHANGED <<seen, stats, origin, accepted, forwarded, status, backlog>>

\* p expires in the cache of n (60 s), or is evicted by newer ids.
Forget(n, p) ==
    /\ "forget" \in Faults
    /\ Up(n)
    /\ p \in seen[n]
    /\ seen' = [seen EXCEPT ![n] = @ \ {p}]
    /\ UNCHANGED <<peers, wire, stats, origin, accepted, forwarded, status, backlog>>

ChurnInit ==
    /\ FloodInit
    /\ status = [n \in Node |-> "new"]
    /\ backlog = [n \in Node |-> {}]

ChurnNext ==
    \/ \E n \in Node : Start(n) \/ Stop(n)
    \/ \E n \in Node, p \in Packet : ChurnSend(n, p) \/ KilledSending(n, p) \/ Forget(n, p)
    \/ \E m, n \in Node : \/ Accept(m, n) \/ Hangup(m, n) \/ Misread(m, n)
                          \/ ChurnReceive(m, n) \/ KilledRelaying(m, n)

ChurnSpec == ChurnInit /\ [][ChurnNext]_churnVars

(* Each turn of the main loop accepts (main.c:237-243) and reads once from *)
(* every active peer (main.c:246-257).  Nothing obliges a node to start,   *)
(* send, stop, forget or lose a frame.                                     *)
ChurnFairness ==
    \A m, n \in Node : /\ WF_churnVars(Accept(m, n))
                       /\ WF_churnVars(Hangup(m, n))
                       /\ WF_churnVars(ChurnReceive(m, n) \/ KilledRelaying(m, n))

FairChurnSpec == ChurnSpec /\ ChurnFairness

(***************************************************************************)
(* Properties.                                                             *)
(***************************************************************************)
ChurnTypeOK ==
    /\ FloodTypeOK
    /\ status \in [Node -> {"new", "up", "dead"}]
    /\ backlog \in [Node -> SUBSET Node]

(* Frames wait only where somebody can read them: at an end that is open   *)
(* in a process that is up; and no process holds more than MaxPeers slots. *)
ReaderIsThere ==
    \A m, n \in Node :
      /\ wire[<<m, n>>] # <<>> => Up(n) /\ HasEnd(n, m)
      /\ Cardinality(peers[n]) <= MaxPeers

\* The nodes that n may ever have a connection with.
Links == [n \in Node |-> Dial[n] \cup {m \in Node : n \in Dial[m]}]

(* TTL is a bound in space (PROTOCOL.md:64), whatever is forgotten, torn   *)
(* or cut short, and also when the packet goes in circles: it is only ever *)
(* seen by nodes at most Scope links from its sender, along nodes that     *)
(* relay and connections that somebody dials.                              *)
DialledScope ==
    \A n \in Node, p \in Packet :
      p \in seen[n] =>
        Sent(p) /\ \E k \in 0 .. Scope(origin[p]) : WalkOver(Links, origin[p], n, k)

(* Every flood ends, whatever is forgotten and whoever comes and goes: the *)
(* TTL alone stops a packet that the caches no longer know (PROTOCOL.md:63)*)
FloodEnds == \A p \in Packet : Sent(p) ~> Quiet(p)

(* A process that ends leaves every peer table: the neighbours read what   *)
(* it still had on the wire and then the end-of-file, or end themselves.   *)
(* One that was in a backlog is accepted after its end, and leaves again.  *)
DeadAreDropped ==
    \A m \in Node : status[m] = "dead" ~> \A n \in Node : m \notin peers[n]

(* "Send data to all active peers" (transport_unix.c:143): when a node     *)
(* sends its packet, every active peer whose connection is open gets it.   *)
BroadcastServesAll ==
    [][\A n \in Node, p \in Packet :
         origin[p] = NoNode /\ origin'[p] = n =>
           \A x \in peers[n] : ~Gone(n, x) => InFlight(p, n, x)']_churnVars

=============================================================================
