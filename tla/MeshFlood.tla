----------------------------- MODULE MeshFlood -----------------------------
(***************************************************************************)
(* The routing of src/src/mesh.c: every node that takes a packet for new   *)
(* shows it and writes it, with its TTL one lower, to every peer but the   *)
(* one it came from.  A node is one thread and handles one frame or one    *)
(* line of input at a time, so each handler is one action.                 *)
(*                                                                         *)
(* Here the peers do not change and nothing seen is forgotten (SeenCache   *)
(* says when that is so); MeshChurn lifts both.  Only the id and the TTL   *)
(* of a packet are kept: every node derives the same mesh key from the     *)
(* service UUID (vex_crypto_derive_mesh_key), so decryption succeeds, and  *)
(* every frame a node writes is one that its reader decodes.               *)
(***************************************************************************)
EXTENDS Integers, FiniteSets, Sequences

CONSTANTS
    Node,           \* the processes of the mesh
    Packet,         \* packet ids, each sent by at most one vex_mesh_send
    NoNode,         \* "no node"
    Topology,       \* Topology[n]: the nodes that n has a connection with
    DefaultTtl,     \* DefaultTtl[n]: node->default_ttl, the --ttl of n
    Relays          \* the nodes with relay_enabled, started without --no-relay

ASSUME FloodAssumption ==
    /\ IsFiniteSet(Node)
    /\ NoNode \notin Node
    /\ Topology \in [Node -> SUBSET Node]
    /\ \A m, n \in Node : n \in Topology[m] => m \in Topology[n] /\ m # n
    /\ DefaultTtl \in [Node -> 0 .. 255]
    /\ Relays \subseteq Node

VARIABLES
    peers,      \* peers[n]: the nodes of the active peer slots of n
    wire,       \* wire[<<m, n>>]: the frames m has written and n has not read
    seen,       \* seen[n]: the ids in the cache of n
    stats,      \* stats[n]: the packets_* counters of n
    origin,     \* origin[p]: the node that sent p, or NoNode
    accepted,   \* history: how many times n took p for new, its own included
    forwarded   \* history: the ids n has written to its peers

floodVars == <<peers, wire, seen, stats, origin, accepted, forwarded>>

Conn == Node \X Node

Frame == [id : Packet, ttl : 0 .. 255]

Counters == [sent : Nat, received : Nat, relayed : Nat, dropped : Nat]

Count(s, n, counter) == [s EXCEPT ![n][counter] = @ + 1]

(***************************************************************************)
(* The wire.                                                               *)
(***************************************************************************)
NextFrame(m, n) == Head(wire[<<m, n>>])

\* The wire without the frame n reads from m.
Taken(m, n) == [wire EXCEPT ![<<m, n>>] = Tail(@)]

\* mutant: the first target is missed, as by a loop from slot 1
SendToSome(w, n, frame, to) ==
    [c \in Conn |-> IF c[1] = n /\ c[2] \in to /\ c[2] # CHOOSE x \in to : TRUE
                      THEN Append(w[c], frame)
                      ELSE w[c]]

\* vex_transport_send_to_all: w with frame written by n to each node of to.
SendToAll(w, n, frame, to) ==
    [c \in Conn |-> IF c[1] = n /\ c[2] \in to
                      THEN Append(w[c], frame)
                      ELSE w[c]]

(***************************************************************************)
(* vex_mesh_send                                                           *)
(***************************************************************************)
\* mutant: the id of an own packet is not added to the cache
MarkNone(n, p) == seen

\* vex_seen_add
Mark(n, p) == [seen EXCEPT ![n] = @ \cup {p}]

Accepted(n, p) == [accepted EXCEPT ![n][p] = @ + 1]

Send(n, p) ==
    /\ origin[p] = NoNode
    /\ origin' = [origin EXCEPT ![p] = n]
    /\ seen' = Mark(n, p)
    /\ wire' = SendToAll(wire, n, [id |-> p, ttl |-> DefaultTtl[n]], peers[n])
    /\ stats' = Count(stats, n, "sent")
    /\ accepted' = Accepted(n, p)
    /\ forwarded' = [forwarded EXCEPT ![n] = @ \cup {p}]
    /\ UNCHANGED peers

(***************************************************************************)
(* vex_mesh_receive, with vex_mesh_relay                                   *)
(***************************************************************************)
Incoming(m, n) == m \in peers[n] /\ wire[<<m, n>>] # <<>>

ReceiveSeen(m, n) ==
    /\ Incoming(m, n)
    /\ NextFrame(m, n).id \in seen[n]
    /\ wire' = Taken(m, n)
    /\ stats' = Count(stats, n, "dropped")
    /\ UNCHANGED <<peers, seen, origin, accepted, forwarded>>

KeepTtl(f) == f                                  \* mutant: no decrement

\* The packet that vex_mesh_relay encodes again.
Hop(f) == [f EXCEPT !.ttl = @ - 1]

RelaysAny(n, f) == n \in Relays                  \* mutant: no TTL test
RelaysAbove(n, f) == n \in Relays /\ f.ttl > 2   \* mutant: off by one

\* relay_enabled and the TTL test of vex_mesh_relay
WillRelay(n, f) == n \in Relays /\ f.ttl > 1

ReceiveNew(m, n) ==
    LET f == NextFrame(m, n)
    IN  /\ Incoming(m, n)
        /\ f.id \notin seen[n]
        /\ seen' = Mark(n, f.id)
        /\ accepted' = Accepted(n, f.id)
        /\ IF WillRelay(n, f)
             THEN /\ wire' = SendToAll(Taken(m, n), n, Hop(f), peers[n] \ {m})
                  /\ stats' = Count(Count(stats, n, "received"), n, "relayed")
                  /\ forwarded' = [forwarded EXCEPT ![n] = @ \cup {f.id}]
             ELSE /\ wire' = Taken(m, n)
                  /\ stats' = Count(stats, n, "received")
                  /\ UNCHANGED forwarded
        /\ UNCHANGED <<peers, origin>>

Receive(m, n) == ReceiveSeen(m, n) \/ ReceiveNew(m, n)

FloodInit ==
    /\ peers = Topology
    /\ wire = [c \in Conn |-> <<>>]
    /\ seen = [n \in Node |-> {}]
    /\ stats = [n \in Node |-> [sent |-> 0, received |-> 0, relayed |-> 0, dropped |-> 0]]
    /\ origin = [p \in Packet |-> NoNode]
    /\ accepted = [n \in Node |-> [p \in Packet |-> 0]]
    /\ forwarded = [n \in Node |-> {}]

FloodNext ==
    \/ \E n \in Node, p \in Packet : Send(n, p)
    \/ \E m, n \in Node : Receive(m, n)

FloodSpec == FloodInit /\ [][FloodNext]_floodVars

(* The main loop reads from every active peer on each turn (main.c:246),   *)
(* so a frame that has been written is read.  Nobody has to type.          *)
FairFloodSpec == FloodSpec /\ \A m, n \in Node : WF_floodVars(Receive(m, n))

(***************************************************************************)
(* Properties.                                                             *)
(***************************************************************************)

FloodTypeOK ==
    /\ peers \in [Node -> SUBSET Node]
    /\ wire \in [Conn -> Seq(Frame)]
    /\ seen \in [Node -> SUBSET Packet]
    /\ stats \in [Node -> Counters]
    /\ origin \in [Packet -> Node \cup {NoNode}]
    /\ accepted \in [Node -> [Packet -> Nat]]
    /\ forwarded \in [Node -> SUBSET Packet]

\* A copy of p is on its way from m to n.
InFlight(p, m, n) == \E i \in DOMAIN wire[<<m, n>>] : wire[<<m, n>>][i].id = p

Sent(p) == origin[p] # NoNode

Quiet(p) == Sent(p) /\ \A m, n \in Node : ~InFlight(p, m, n)

(* No hole behind the flood: every peer of a node that has forwarded p has *)
(* seen p or has a copy on the way from that very node; also the source,   *)
(* which the relay leaves out (mesh.c:170), and although a duplicate is    *)
(* dropped whatever its TTL (mesh.c:116).                                  *)
FrontierCovered ==
    \A m, n \in Node, p \in Packet :
      p \in forwarded[m] /\ n \in peers[m] => p \in seen[n] \/ InFlight(p, m, n)

(* A packet traverses each node once (PROTOCOL.md:55): a node never takes  *)
(* the same packet for new twice, nor its own when it comes back.          *)
TraverseOnce == \A n \in Node, p \in Packet : accepted[n][p] <= 1

(* The counters of /stats tell the truth: received counts the packets of   *)
(* others that were shown, sent the own ones, relayed the forwarded ones.  *)
StatsAddUp ==
    \A n \in Node :
      /\ stats[n].sent = Cardinality({p \in Packet : origin[p] = n})
      /\ stats[n].received = Cardinality({p \in seen[n] : origin[p] # n})
      /\ stats[n].sent + stats[n].relayed = Cardinality(forwarded[n])

(* A walk of k links from o to n, with relays between them, of a packet    *)
(* that starts at o; links[x] are the nodes that x is linked to.           *)
WalkOver(links, o, n, k) ==
    \E w \in [0 .. k -> Node] :
      /\ w[0] = o
      /\ w[k] = n
      /\ \A i \in 0 .. k - 1 : /\ w[i + 1] \in links[w[i]]
                               /\ i > 0 => w[i] \in Relays

Walk(o, n, k) == WalkOver(Topology, o, n, k)

\* How many links a packet of o crosses: a neighbour reads even a TTL of 0.
Scope(o) == IF DefaultTtl[o] = 0 THEN 1 ELSE DefaultTtl[o]

(* TTL is a bound in space (PROTOCOL.md:64): a packet is only ever seen by *)
(* nodes at most Scope links from its sender, along nodes that relay.      *)
ScopeBound ==
    \A n \in Node, p \in Packet :
      p \in seen[n] => Sent(p) /\ \E k \in 0 .. Scope(origin[p]) : Walk(origin[p], n, k)

(* When the flood of p is over, p has crossed every link out of its sender *)
(* and out of every relay that has it, however the copies raced: provided  *)
(* that the TTL it started with is no smaller than the number of the other *)
(* nodes.                                                                  *)
FloodComplete ==
    \A p \in Packet :
      Quiet(p) /\ DefaultTtl[origin[p]] >= Cardinality(Node) - 1 =>
        \A m, n \in Node :
          /\ p \in seen[m]
          /\ m \in Relays \/ m = origin[p]
          /\ n \in peers[m]
          => p \in seen[n]

(* What "Maximum mesh diameter: 7 hops" (PROTOCOL.md:64) promises: when    *)
(* the flood of p is over, every node within the scope of its TTL has it.  *)
ReachesScope ==
    \A n \in Node, p \in Packet :
      Quiet(p) /\ (\E k \in 0 .. Scope(origin[p]) : Walk(origin[p], n, k)) => p \in seen[n]

(* In a mesh connected through its relays, every packet whose TTL is large *)
(* enough, as in FloodComplete, reaches every node.                        *)
DeliveredToAll ==
    \A p \in Packet :
      Sent(p) /\ DefaultTtl[origin[p]] >= Cardinality(Node) - 1
        ~> \A n \in Node : p \in seen[n]

=============================================================================
