-------------------------- MODULE MeshFloodProofs --------------------------
(***************************************************************************)
(* The flood of MeshFlood leaves no hole, takes no packet twice, keeps to  *)
(* the scope of its TTL, is counted rightly, and is complete when it is    *)
(* over, for every finite mesh, every set of packets, every choice of      *)
(* relays and every TTL (for completeness, every one that is large enough).*)
(***************************************************************************)
EXTENDS MeshFlood, FiniteSetTheorems, SequenceTheorems, TLAPS

(***************************************************************************)
(* The frames of a wire, as a set.                                         *)
(***************************************************************************)
On(w, m, n) == {w[<<m, n>>][i] : i \in DOMAIN w[<<m, n>>]}

WireType == [Conn -> Seq(Frame)]

(* The frames of a sequence but for its head are those of its tail.        *)
LEMMA TailFrames ==
    ASSUME NEW S, NEW s \in Seq(S), s # <<>>
    PROVE  /\ Head(s) \in S
           /\ Tail(s) \in Seq(S)
           /\ \A i \in DOMAIN Tail(s) : \E j \in DOMAIN s : Tail(s)[i] = s[j]
           /\ \A j \in DOMAIN s : s[j] = Head(s) \/ \E i \in DOMAIN Tail(s) : Tail(s)[i] = s[j]
           /\ \E j \in DOMAIN s : s[j] = Head(s)
<1>1. /\ Len(s) \in Nat \ {0}
      /\ DOMAIN s = 1 .. Len(s)
  BY EmptySeq, LenProperties
<1>2. /\ Head(s) \in S
      /\ Tail(s) \in Seq(S)
      /\ Len(Tail(s)) = Len(s) - 1
      /\ \A i \in 1 .. Len(Tail(s)) : Tail(s)[i] = s[i + 1]
  BY HeadTailProperties
<1>3. DOMAIN Tail(s) = 1 .. Len(s) - 1
  BY <1>2, LenProperties
<1>4. Head(s) = s[1]
  OBVIOUS
<1>5. ASSUME NEW i \in DOMAIN Tail(s) PROVE \E j \in DOMAIN s : Tail(s)[i] = s[j]
  <2>1. i + 1 \in DOMAIN s /\ Tail(s)[i] = s[i + 1]
    BY <1>1, <1>2, <1>3, <1>5
  <2> QED BY <2>1
<1>6. ASSUME NEW j \in DOMAIN s, j # 1
      PROVE  \E i \in DOMAIN Tail(s) : Tail(s)[i] = s[j]
  <2>1. j - 1 \in DOMAIN Tail(s) /\ Tail(s)[j - 1] = s[j]
    BY <1>1, <1>2, <1>3, <1>6
  <2> QED BY <2>1
<1> QED BY <1>1, <1>2, <1>4, <1>5, <1>6

(* Reading a frame takes it from its wire and touches no other.            *)
LEMMA TakenFrames ==
    ASSUME wire \in WireType, NEW m \in Node, NEW n \in Node, wire[<<m, n>>] # <<>>
    PROVE  /\ Taken(m, n) \in WireType
           /\ NextFrame(m, n) \in Frame
           /\ NextFrame(m, n) \in On(wire, m, n)
           /\ \A x, y \in Node :
                /\ On(Taken(m, n), x, y) \subseteq On(wire, x, y)
                /\ \A f \in On(wire, x, y) :
                     f \in On(Taken(m, n), x, y) \/ (x = m /\ y = n /\ f = NextFrame(m, n))
<1>1. wire[<<m, n>>] \in Seq(Frame) /\ <<m, n>> \in Conn
  BY DEF WireType, Conn
<1>2. /\ Head(wire[<<m, n>>]) \in Frame
      /\ Tail(wire[<<m, n>>]) \in Seq(Frame)
      /\ \A i \in DOMAIN Tail(wire[<<m, n>>]) :
           \E j \in DOMAIN wire[<<m, n>>] : Tail(wire[<<m, n>>])[i] = wire[<<m, n>>][j]
      /\ \A j \in DOMAIN wire[<<m, n>>] :
           \/ wire[<<m, n>>][j] = Head(wire[<<m, n>>])
           \/ \E i \in DOMAIN Tail(wire[<<m, n>>]) : Tail(wire[<<m, n>>])[i] = wire[<<m, n>>][j]
      /\ \E j \in DOMAIN wire[<<m, n>>] : wire[<<m, n>>][j] = Head(wire[<<m, n>>])
  BY <1>1, TailFrames
<1>3. Taken(m, n) \in WireType
  BY <1>1, <1>2 DEF Taken, WireType
<1>4. ASSUME NEW x \in Node, NEW y \in Node
      PROVE  /\ On(Taken(m, n), x, y) \subseteq On(wire, x, y)
             /\ \A f \in On(wire, x, y) :
                  f \in On(Taken(m, n), x, y) \/ (x = m /\ y = n /\ f = NextFrame(m, n))
  <2>1. <<x, y>> \in Conn /\ (<<x, y>> = <<m, n>> <=> x = m /\ y = n)
    BY DEF Conn
  <2>2. CASE x = m /\ y = n
    <3>1. Taken(m, n)[<<x, y>>] = Tail(wire[<<m, n>>])
      BY <1>1, <2>1, <2>2 DEF Taken, WireType
    <3>2. ASSUME NEW f \in On(Taken(m, n), x, y) PROVE f \in On(wire, x, y)
      <4>1. PICK i \in DOMAIN Tail(wire[<<m, n>>]) : f = Tail(wire[<<m, n>>])[i]
        BY <2>2, <3>1, <3>2, Zenon DEF On
      <4>2. \E j \in DOMAIN wire[<<m, n>>] : f = wire[<<m, n>>][j]
        BY <1>2, <4>1, Zenon
      <4> QED BY <2>2, <4>2, Zenon DEF On
    <3>3. ASSUME NEW f \in On(wire, x, y)
          PROVE  f \in On(Taken(m, n), x, y) \/ f = NextFrame(m, n)
      BY <1>2, <2>2, <3>1 DEF On, NextFrame
    <3> QED BY <2>2, <3>2, <3>3
  <2>3. CASE ~(x = m /\ y = n)
    <3>1. Taken(m, n)[<<x, y>>] = wire[<<x, y>>]
      BY <1>1, <2>1, <2>3 DEF Taken, WireType
    <3> QED BY <2>3, <3>1 DEF On
  <2> QED BY <2>2, <2>3
<1> QED BY <1>2, <1>3, <1>4 DEF NextFrame, On

(* A broadcast adds its frame to the wires of its targets and to no other. *)
LEMMA SentFrames ==
    ASSUME NEW w \in WireType, NEW n \in Node, NEW frame \in Frame, NEW to \in SUBSET Node
    PROVE  /\ SendToAll(w, n, frame, to) \in WireType
           /\ \A x, y \in Node :
                /\ On(w, x, y) \subseteq On(SendToAll(w, n, frame, to), x, y)
                /\ x = n /\ y \in to => frame \in On(SendToAll(w, n, frame, to), x, y)
                /\ \A f \in On(SendToAll(w, n, frame, to), x, y) :
                     f \in On(w, x, y) \/ (x = n /\ y \in to /\ f = frame)
<1> DEFINE v == SendToAll(w, n, frame, to)
<1>1. ASSUME NEW x \in Node, NEW y \in Node
      PROVE  /\ w[<<x, y>>] \in Seq(Frame)
             /\ v[<<x, y>>] = IF x = n /\ y \in to THEN Append(w[<<x, y>>], frame) ELSE w[<<x, y>>]
  BY DEF SendToAll, WireType, Conn
<1>2. v \in WireType
  <2>1. \A c \in Conn : w[c] \in Seq(Frame) /\ Append(w[c], frame) \in Seq(Frame)
    BY AppendProperties DEF WireType
  <2> QED BY <2>1 DEF SendToAll, WireType
<1>3. ASSUME NEW x \in Node, NEW y \in Node
      PROVE  /\ On(w, x, y) \subseteq On(v, x, y)
             /\ x = n /\ y \in to => frame \in On(v, x, y)
             /\ \A f \in On(v, x, y) : f \in On(w, x, y) \/ (x = n /\ y \in to /\ f = frame)
  <2>1. CASE ~(x = n /\ y \in to)
    BY <1>1, <2>1 DEF On
  <2>2. CASE x = n /\ y \in to
    <3> DEFINE s == w[<<x, y>>]
    <3>1. s \in Seq(Frame) /\ v[<<x, y>>] = Append(s, frame)
      BY <1>1, <2>2
    <3>2. /\ Len(s) \in Nat
          /\ DOMAIN s = 1 .. Len(s)
          /\ DOMAIN Append(s, frame) = 1 .. Len(s) + 1
          /\ \A i \in 1 .. Len(s) : Append(s, frame)[i] = s[i]
          /\ Append(s, frame)[Len(s) + 1] = frame
      BY <3>1, AppendProperties, LenProperties
    <3>3. \A i \in 1 .. Len(s) + 1 : i \in 1 .. Len(s) \/ i = Len(s) + 1
      BY <3>2
    <3>4. {Append(s, frame)[i] : i \in DOMAIN Append(s, frame)} =
            {s[i] : i \in DOMAIN s} \cup {frame}
      BY <3>2, <3>3
    <3> HIDE DEF s, v
    <3>5. On(v, x, y) = On(w, x, y) \cup {frame}
      BY <3>1, <3>4 DEF On, s
    <3> QED BY <2>2, <3>5
  <2> QED BY <2>1, <2>2
<1> QED BY <1>2, <1>3

\* A packet is in flight on a wire when the wire has a frame of it.
LEMMA InFlightOn ==
    ASSUME NEW p, NEW m \in Node, NEW n \in Node
    PROVE  InFlight(p, m, n) <=> \E f \in On(wire, m, n) : f.id = p
BY DEF InFlight, On

(***************************************************************************)
(* The inductive invariant.  FloodComplete is about the end of a flood; on *)
(* the way there, what holds is that a TTL can only be used up by nodes    *)
(* that have seen the packet: the TTL of a copy and the number of those    *)
(* nodes together exceed the TTL at the start, whatever way it came.       *)
(***************************************************************************)
SeenBy(p) == {n \in Node : p \in seen[n]}

Ttl(p) == DefaultTtl[origin[p]]

\* Only packets that were sent are seen, by their sender first.
SeenIsSent ==
    /\ \A n \in Node, p \in Packet : p \in seen[n] => Sent(p)
    /\ \A p \in Packet : Sent(p) => p \in seen[origin[p]]

\* A copy was written by a node that has seen it, and its TTL is accounted for.
CopiesLawful ==
    \A m, n \in Node : \A f \in On(wire, m, n) :
      /\ f.id \in seen[m]
      /\ f.ttl + Cardinality(SeenBy(f.id)) > Ttl(f.id)

\* A relay keeps a packet to itself only when the TTL has been used up.
RelaysForward ==
    \A n \in Node, p \in Packet :
      p \in seen[n] /\ (n \in Relays \/ n = origin[p]) =>
        p \in forwarded[n] \/ Cardinality(SeenBy(p)) > Ttl(p)

\* The cache counts: taken for new once if seen, and otherwise never.
AcceptedOnce ==
    \A n \in Node, p \in Packet : accepted[n][p] = IF p \in seen[n] THEN 1 ELSE 0

FloodInv ==
    /\ FloodTypeOK
    /\ SeenIsSent
    /\ CopiesLawful
    /\ RelaysForward
    /\ FrontierCovered
    /\ AcceptedOnce

(* Only p is marked, at n, and the number of nodes that know p grows by it.*)
LEMMA MarkCounts ==
    ASSUME FloodTypeOK, NEW n \in Node, NEW p \in Packet, seen' = Mark(n, p)
    PROVE  /\ \A q \in Packet : /\ IsFiniteSet(SeenBy(q))
                               /\ Cardinality(SeenBy(q)) \in Nat
                               /\ Cardinality(SeenBy(q)') \in Nat
                               /\ Cardinality(SeenBy(q)') >= Cardinality(SeenBy(q))
           /\ p \notin seen[n] => Cardinality(SeenBy(p)') = Cardinality(SeenBy(p)) + 1
           /\ \A x \in Node, q \in Packet :
                q \in seen'[x] <=> q \in seen[x] \/ (x = n /\ q = p)
           /\ seen' \in [Node -> SUBSET Packet]
<1>1. \A x \in Node, q \in Packet : q \in seen'[x] <=> q \in seen[x] \/ (x = n /\ q = p)
  BY DEF FloodTypeOK, Mark
<1>2. seen' \in [Node -> SUBSET Packet]
  BY DEF FloodTypeOK, Mark
<1>3. SeenBy(p)' = SeenBy(p) \cup {n}
  BY <1>1 DEF SeenBy
<1>4. \A q \in Packet : q # p => SeenBy(q)' = SeenBy(q)
  BY <1>1 DEF SeenBy
<1>5. ASSUME NEW q \in Packet
      PROVE  IsFiniteSet(SeenBy(q)) /\ Cardinality(SeenBy(q)) \in Nat
  <2>1. SeenBy(q) \in SUBSET Node
    BY DEF SeenBy
  <2>2. IsFiniteSet(SeenBy(q))
    BY <2>1, FloodAssumption, FS_Subset
  <2> QED BY <2>2, FS_CardinalityType
<1>6. /\ IsFiniteSet(SeenBy(p)')
      /\ Cardinality(SeenBy(p)') = IF n \in SeenBy(p) THEN Cardinality(SeenBy(p))
                                                      ELSE Cardinality(SeenBy(p)) + 1
  BY <1>3, <1>5, FS_AddElement
<1>7. n \in SeenBy(p) <=> p \in seen[n]
  BY DEF SeenBy
<1>8. ASSUME NEW q \in Packet
      PROVE  /\ Cardinality(SeenBy(q)') \in Nat
             /\ Cardinality(SeenBy(q)') >= Cardinality(SeenBy(q))
  <2>1. CASE q = p
    BY <1>5, <1>6, <2>1
  <2>2. CASE q # p
    BY <1>4, <1>5, <2>2
  <2> QED BY <2>1, <2>2
<1> QED BY <1>1, <1>2, <1>5, <1>6, <1>7, <1>8

\* The invariant holds at the start.
LEMMA InitFloodInv == FloodInit => FloodInv
<1> SUFFICES ASSUME FloodInit PROVE FloodInv
  OBVIOUS
<1>1. FloodTypeOK
  BY FloodAssumption DEF FloodInit, FloodTypeOK, Counters
<1>2. \A m, n \in Node : On(wire, m, n) = {}
  BY DEF FloodInit, On, Conn
<1>3. SeenIsSent /\ RelaysForward /\ FrontierCovered /\ AcceptedOnce
  BY DEF FloodInit, SeenIsSent, RelaysForward, FrontierCovered, AcceptedOnce, Sent
<1>4. CopiesLawful
  BY <1>2 DEF CopiesLawful
<1> QED BY <1>1, <1>3, <1>4 DEF FloodInv

\* A relayed frame is the frame with the TTL one lower.
LEMMA HopFrame ==
    ASSUME NEW n \in Node, NEW f \in Frame, WillRelay(n, f)
    PROVE  Hop(f) \in Frame /\ Hop(f).id = f.id /\ Hop(f).ttl = f.ttl - 1
<1>1. PICK p \in Packet, t \in 0 .. 255 : f = [id |-> p, ttl |-> t]
  BY DEF Frame
<1>2. f.id = p /\ f.ttl = t /\ t > 1
  BY <1>1 DEF WillRelay
<1>3. Hop(f) = [id |-> p, ttl |-> t - 1]
  BY <1>1 DEF Hop
<1>4. t - 1 \in 0 .. 255
  BY <1>2
<1> QED BY <1>2, <1>3, <1>4 DEF Frame

(* The effect of each action on the wires, as sets of frames.              *)
LEMMA SendWires ==
    ASSUME FloodTypeOK, NEW n \in Node, NEW p \in Packet, Send(n, p),
           NEW frame, frame = [id |-> p, ttl |-> DefaultTtl[n]]
    PROVE  /\ frame \in Frame /\ frame.id = p /\ frame.ttl = DefaultTtl[n]
           /\ wire' \in WireType
           /\ \A x, y \in Node :
                /\ On(wire, x, y) \subseteq On(wire', x, y)
                /\ x = n /\ y \in peers[n] => frame \in On(wire', x, y)
                /\ \A f \in On(wire', x, y) :
                     f \in On(wire, x, y) \/ (x = n /\ y \in peers[n] /\ f = frame)
<1>1. frame \in Frame /\ frame.id = p /\ frame.ttl = DefaultTtl[n]
  BY FloodAssumption DEF Frame
<1>2. wire \in WireType /\ peers[n] \in SUBSET Node
  BY DEF FloodTypeOK, WireType
<1>3. wire' = SendToAll(wire, n, frame, peers[n])
  BY DEF Send
<1> QED BY <1>1, <1>2, <1>3, SentFrames

\* The wires after a duplicate is read.
LEMMA SeenWires ==
    ASSUME FloodTypeOK, NEW m \in Node, NEW n \in Node, ReceiveSeen(m, n),
           NEW f, f = NextFrame(m, n)
    PROVE  /\ f \in Frame /\ f.id \in seen[n]
           /\ wire' \in WireType
           /\ \A x, y \in Node :
                /\ On(wire', x, y) \subseteq On(wire, x, y)
                /\ \A g \in On(wire, x, y) :
                     g \in On(wire', x, y) \/ (x = m /\ y = n /\ g = f)
<1>1. wire \in WireType /\ wire[<<m, n>>] # <<>>
  BY DEF FloodTypeOK, WireType, ReceiveSeen, Incoming
<1>2. wire' = Taken(m, n) /\ f.id \in seen[n]
  BY DEF ReceiveSeen
<1> QED BY <1>1, <1>2, TakenFrames

\* The wires after a new packet is read, and relayed or not.
LEMMA NewWires ==
    ASSUME FloodTypeOK, NEW m \in Node, NEW n \in Node, ReceiveNew(m, n),
           NEW f, f = NextFrame(m, n)
    PROVE  /\ f \in Frame /\ f \in On(wire, m, n) /\ f.id \in Packet /\ f.ttl \in 0 .. 255
           /\ m \in peers[n]
           /\ wire' \in WireType
           /\ WillRelay(n, f) => /\ Hop(f) \in Frame
                                 /\ Hop(f).id = f.id
                                 /\ Hop(f).ttl = f.ttl - 1
           /\ \A x, y \in Node :
                /\ \A g \in On(wire, x, y) :
                     g \in On(wire', x, y) \/ (x = m /\ y = n /\ g = f)
                /\ WillRelay(n, f) /\ x = n /\ y \in peers[n] \ {m} => Hop(f) \in On(wire', x, y)
                /\ \A g \in On(wire', x, y) :
                     \/ g \in On(wire, x, y)
                     \/ WillRelay(n, f) /\ x = n /\ y \in peers[n] \ {m} /\ g = Hop(f)
<1>1. wire \in WireType /\ wire[<<m, n>>] # <<>> /\ m \in peers[n]
  BY DEF FloodTypeOK, WireType, ReceiveNew, Incoming
<1> DEFINE w == Taken(m, n)
<1>2. /\ w \in WireType
      /\ f \in Frame /\ f \in On(wire, m, n)
      /\ \A x, y \in Node :
           /\ On(w, x, y) \subseteq On(wire, x, y)
           /\ \A g \in On(wire, x, y) : g \in On(w, x, y) \/ (x = m /\ y = n /\ g = f)
  BY <1>1, TakenFrames
<1>3. f.id \in Packet /\ f.ttl \in 0 .. 255
  BY <1>2 DEF Frame
<1>4. WillRelay(n, f) => wire' = SendToAll(w, n, Hop(f), peers[n] \ {m})
  BY DEF ReceiveNew
<1>5. ~WillRelay(n, f) => wire' = w
  BY DEF ReceiveNew
<1>6. peers[n] \ {m} \in SUBSET Node
  BY DEF FloodTypeOK
<1> HIDE DEF w
<1>7. CASE WillRelay(n, f)
  <2>1. Hop(f) \in Frame /\ Hop(f).id = f.id /\ Hop(f).ttl = f.ttl - 1
    BY <1>2, <1>7, HopFrame
  <2>2. /\ wire' \in WireType
        /\ \A x, y \in Node :
             /\ On(w, x, y) \subseteq On(wire', x, y)
             /\ x = n /\ y \in peers[n] \ {m} => Hop(f) \in On(wire', x, y)
             /\ \A g \in On(wire', x, y) :
                  g \in On(w, x, y) \/ (x = n /\ y \in peers[n] \ {m} /\ g = Hop(f))
    BY <1>2, <1>4, <1>6, <1>7, <2>1, SentFrames
  <2> QED BY <1>1, <1>2, <1>3, <1>7, <2>1, <2>2
<1>8. CASE ~WillRelay(n, f)
  BY <1>1, <1>2, <1>3, <1>5, <1>8
<1> QED BY <1>7, <1>8

(* The types, action by action.                                            *)
LEMMA TypeStep == FloodTypeOK /\ [FloodNext]_floodVars => FloodTypeOK'
<1> SUFFICES ASSUME FloodTypeOK, [FloodNext]_floodVars PROVE FloodTypeOK'
  OBVIOUS
<1>b. ASSUME NEW n \in Node, NEW p \in Packet
      PROVE  Accepted(n, p) \in [Node -> [Packet -> Nat]]
  BY DEF FloodTypeOK, Accepted
<1>c. ASSUME NEW s \in [Node -> Counters], NEW n \in Node
      PROVE  \A counter \in {"sent", "received", "relayed", "dropped"} :
               Count(s, n, counter) \in [Node -> Counters]
  <2>1. s[n] \in Counters
    OBVIOUS
  <2>2. /\ [s[n] EXCEPT !.sent = @ + 1] \in Counters
        /\ [s[n] EXCEPT !.received = @ + 1] \in Counters
        /\ [s[n] EXCEPT !.relayed = @ + 1] \in Counters
        /\ [s[n] EXCEPT !.dropped = @ + 1] \in Counters
    BY <2>1 DEF Counters
  <2> QED BY <2>1, <2>2 DEF Count
<1>d. stats \in [Node -> Counters]
  BY DEF FloodTypeOK
<1>1. ASSUME NEW n \in Node, NEW p \in Packet, Send(n, p) PROVE FloodTypeOK'
  <2>1. wire' \in WireType
    BY <1>1, SendWires
  <2>2. stats' \in [Node -> Counters]
    BY <1>1, <1>c, <1>d DEF Send
  <2>3. seen' \in [Node -> SUBSET Packet]
    BY <1>1 DEF Send, Mark, FloodTypeOK
  <2> QED BY <1>1, <1>b, <2>1, <2>2, <2>3 DEF Send, FloodTypeOK, WireType
<1>2. ASSUME NEW m \in Node, NEW n \in Node, ReceiveSeen(m, n) PROVE FloodTypeOK'
  <2>1. wire' \in WireType
    BY <1>2, SeenWires
  <2>2. stats' \in [Node -> Counters]
    BY <1>2, <1>c, <1>d DEF ReceiveSeen
  <2> QED BY <1>2, <2>1, <2>2 DEF ReceiveSeen, FloodTypeOK, WireType
<1>3. ASSUME NEW m \in Node, NEW n \in Node, ReceiveNew(m, n) PROVE FloodTypeOK'
  <2> DEFINE f == NextFrame(m, n)
  <2>1. f.id \in Packet /\ wire' \in WireType
    BY <1>3, NewWires
  <2>2. seen' \in [Node -> SUBSET Packet] /\ accepted' \in [Node -> [Packet -> Nat]]
    BY <1>3, <1>b, <2>1 DEF ReceiveNew, Mark, FloodTypeOK
  <2>3. stats' \in [Node -> Counters]
    <3>1. CASE WillRelay(n, f)
      <4>1. stats' = Count(Count(stats, n, "received"), n, "relayed")
        BY <1>3, <3>1 DEF ReceiveNew
      <4>2. Count(stats, n, "received") \in [Node -> Counters]
        BY <1>c, <1>d
      <4> QED BY <1>c, <4>1, <4>2
    <3>2. CASE ~WillRelay(n, f)
      BY <1>3, <1>c, <1>d, <3>2 DEF ReceiveNew
    <3> QED BY <3>1, <3>2
  <2>4. forwarded' \in [Node -> SUBSET Packet]
    <3>1. forwarded \in [Node -> SUBSET Packet]
      BY DEF FloodTypeOK
    <3>2. forwarded' = forwarded \/ forwarded' = [forwarded EXCEPT ![n] = @ \cup {f.id}]
      BY <1>3 DEF ReceiveNew
    <3> QED BY <2>1, <3>1, <3>2
  <2>5. UNCHANGED <<peers, origin>>
    BY <1>3 DEF ReceiveNew
  <2> QED BY <2>1, <2>2, <2>3, <2>4, <2>5 DEF FloodTypeOK, WireType
<1>4. ASSUME UNCHANGED floodVars PROVE FloodTypeOK'
  BY <1>4 DEF floodVars, FloodTypeOK
<1> QED BY <1>1, <1>2, <1>3, <1>4 DEF FloodNext, Receive

(***************************************************************************)
(* The invariant, action by action.                                        *)
(***************************************************************************)

(* A packet that is sent is new to everyone.                               *)
LEMMA SendStep ==
    ASSUME FloodInv, FloodTypeOK', NEW n \in Node, NEW p \in Packet, Send(n, p)
    PROVE  FloodInv'
<1> DEFINE frame == [id |-> p, ttl |-> DefaultTtl[n]]
<1>0. FloodTypeOK /\ SeenIsSent /\ CopiesLawful /\ RelaysForward /\ FrontierCovered /\ AcceptedOnce
  BY DEF FloodInv
<1>1. /\ frame \in Frame /\ frame.id = p /\ frame.ttl = DefaultTtl[n]
      /\ wire' \in WireType
      /\ \A x, y \in Node :
           /\ On(wire, x, y) \subseteq On(wire', x, y)
           /\ x = n /\ y \in peers[n] => frame \in On(wire', x, y)
           /\ \A f \in On(wire', x, y) :
                f \in On(wire, x, y) \/ (x = n /\ y \in peers[n] /\ f = frame)
  BY <1>0, SendWires
<1> HIDE DEF frame
<1>2. /\ \A q \in Packet : /\ Cardinality(SeenBy(q)) \in Nat
                           /\ Cardinality(SeenBy(q)') \in Nat
                           /\ Cardinality(SeenBy(q)') >= Cardinality(SeenBy(q))
      /\ p \notin seen[n] => Cardinality(SeenBy(p)') = Cardinality(SeenBy(p)) + 1
      /\ \A x \in Node, q \in Packet : q \in seen'[x] <=> q \in seen[x] \/ (x = n /\ q = p)
  <2>1. seen' = Mark(n, p)
    BY DEF Send
  <2> QED BY <1>0, <2>1, MarkCounts
<1>3. ~Sent(p) /\ \A x \in Node : p \notin seen[x]
  BY <1>0 DEF Send, SeenIsSent, Sent
<1>4. /\ origin'[p] = n
      /\ \A q \in Packet : q # p => origin'[q] = origin[q]
      /\ \A q \in Packet : origin[q] \in Node \cup {NoNode}
  BY <1>0 DEF Send, FloodTypeOK
<1>5. /\ UNCHANGED peers
      /\ \A x \in Node, q \in Packet :
           q \in forwarded'[x] <=> q \in forwarded[x] \/ (x = n /\ q = p)
  BY <1>0 DEF Send, FloodTypeOK
<1>6. /\ Sent(p)' /\ Ttl(p)' = DefaultTtl[n]
      /\ \A q \in Packet : q # p => (Sent(q)' <=> Sent(q)) /\ Ttl(q)' = Ttl(q)
  BY <1>4, FloodAssumption DEF Sent, Ttl
<1>7. SeenIsSent'
  <2>1. ASSUME NEW x \in Node, NEW q \in Packet, q \in seen'[x] PROVE Sent(q)'
    BY <1>0, <1>2, <1>6, <2>1 DEF SeenIsSent
  <2>2. ASSUME NEW q \in Packet, Sent(q)' PROVE q \in seen'[origin'[q]]
    <3>1. CASE q = p
      BY <1>2, <1>4, <3>1
    <3>2. CASE q # p
      <4>1. Sent(q) /\ origin'[q] = origin[q] /\ origin[q] \in Node
        BY <1>4, <1>6, <2>2, <3>2 DEF Sent
      <4> QED BY <1>0, <1>2, <4>1 DEF SeenIsSent
    <3> QED BY <3>1, <3>2
  <2> QED BY <2>1, <2>2 DEF SeenIsSent
<1>8. CopiesLawful'
  <2> SUFFICES ASSUME NEW x \in Node, NEW y \in Node, NEW g \in On(wire', x, y)
               PROVE  g.id \in seen'[x] /\ g.ttl + Cardinality(SeenBy(g.id)') > Ttl(g.id)'
    BY DEF CopiesLawful
  <2>1. CASE g \in On(wire, x, y)
    <3>1. g.id \in seen[x] /\ g.ttl + Cardinality(SeenBy(g.id)) > Ttl(g.id)
      BY <1>0, <2>1 DEF CopiesLawful
    <3>2. g \in Frame
      <4>1. <<x, y>> \in Conn /\ wire[<<x, y>>] \in Seq(Frame)
        BY <1>0 DEF Conn, FloodTypeOK
      <4> QED BY <2>1, <4>1, LenProperties DEF On
    <3>3. g.id \in Packet /\ g.ttl \in Nat /\ g.id # p
      BY <1>3, <3>1, <3>2 DEF Frame
    <3>4. Ttl(g.id)' = Ttl(g.id) /\ Ttl(g.id) \in Nat
      <4>1. Sent(g.id)
        BY <1>0, <3>1, <3>3 DEF SeenIsSent
      <4>2. origin[g.id] \in Node
        BY <1>4, <3>3, <4>1 DEF Sent
      <4> QED BY <1>6, <3>3, <4>2, FloodAssumption DEF Ttl
    <3> QED BY <1>2, <3>1, <3>3, <3>4
  <2>2. CASE g \notin On(wire, x, y)
    <3>1. x = n /\ g = frame
      BY <1>1, <2>2
    <3>2. DefaultTtl[n] \in Nat
      BY FloodAssumption
    <3>3. Cardinality(SeenBy(p)') > 0
      BY <1>2, <1>3
    <3>4. p \in seen'[n]
      BY <1>2
    <3> QED BY <1>1, <1>2, <1>6, <3>1, <3>2, <3>3, <3>4
  <2> QED BY <2>1, <2>2
<1>9. RelaysForward'
  <2> SUFFICES ASSUME NEW x \in Node, NEW q \in Packet, q \in seen'[x],
                      x \in Relays \/ x = origin'[q]
               PROVE  q \in forwarded'[x] \/ Cardinality(SeenBy(q)') > Ttl(q)'
    BY DEF RelaysForward
  <2>1. CASE q = p
    BY <1>2, <1>3, <1>5, <2>1
  <2>2. CASE q # p
    <3>1. q \in seen[x] /\ Sent(q)
      BY <1>0, <1>2, <2>2 DEF SeenIsSent
    <3>2. q \in forwarded[x] \/ Cardinality(SeenBy(q)) > Ttl(q)
      BY <1>0, <1>4, <2>2, <3>1 DEF RelaysForward
    <3>3. Ttl(q)' = Ttl(q) /\ Ttl(q) \in Nat
      BY <1>4, <1>6, <2>2, <3>1, FloodAssumption DEF Ttl, Sent
    <3> QED BY <1>2, <1>5, <3>2, <3>3
  <2> QED BY <2>1, <2>2
<1>10. FrontierCovered'
  <2> SUFFICES ASSUME NEW x \in Node, NEW y \in Node, NEW q \in Packet,
                      q \in forwarded'[x], y \in peers'[x]
               PROVE  q \in seen'[y] \/ InFlight(q, x, y)'
    BY DEF FrontierCovered
  <2>1. InFlight(q, x, y)' <=> \E f \in On(wire', x, y) : f.id = q
    BY DEF InFlight, On
  <2>2. CASE q \in forwarded[x]
    BY <1>0, <1>1, <1>2, <1>5, <2>1, <2>2, InFlightOn DEF FrontierCovered
  <2>3. CASE q \notin forwarded[x]
    BY <1>1, <1>5, <2>1, <2>3
  <2> QED BY <2>2, <2>3
<1>11. AcceptedOnce'
  <2>1. accepted \in [Node -> [Packet -> Nat]] /\ accepted' = Accepted(n, p)
    BY <1>0 DEF Send, FloodTypeOK
  <2>2. ASSUME NEW x \in Node, NEW q \in Packet
        PROVE  accepted'[x][q] = IF x = n /\ q = p THEN accepted[x][q] + 1 ELSE accepted[x][q]
    BY <2>1 DEF Accepted
  <2> QED BY <1>0, <1>2, <1>3, <2>2 DEF AcceptedOnce
<1> QED BY <1>7, <1>8, <1>9, <1>10, <1>11 DEF FloodInv

(* A duplicate is dropped where its packet has been seen.                  *)
LEMMA SeenStep ==
    ASSUME FloodInv, FloodTypeOK', NEW m \in Node, NEW n \in Node, ReceiveSeen(m, n)
    PROVE  FloodInv'
<1> DEFINE f == NextFrame(m, n)
<1>0. FloodTypeOK /\ SeenIsSent /\ CopiesLawful /\ RelaysForward /\ FrontierCovered /\ AcceptedOnce
  BY DEF FloodInv
<1>1. /\ f.id \in seen[n]
      /\ \A x, y \in Node :
           /\ On(wire', x, y) \subseteq On(wire, x, y)
           /\ \A g \in On(wire, x, y) : g \in On(wire', x, y) \/ (x = m /\ y = n /\ g = f)
  BY <1>0, SeenWires
<1> HIDE DEF f
<1>2. UNCHANGED <<peers, seen, origin, accepted, forwarded>>
  BY DEF ReceiveSeen
<1>3. SeenIsSent' /\ RelaysForward' /\ AcceptedOnce'
  BY <1>0, <1>2 DEF SeenIsSent, Sent, RelaysForward, SeenBy, Ttl, AcceptedOnce
<1>4. CopiesLawful'
  <2> SUFFICES ASSUME NEW x \in Node, NEW y \in Node, NEW g \in On(wire', x, y)
               PROVE  g.id \in seen'[x] /\ g.ttl + Cardinality(SeenBy(g.id)') > Ttl(g.id)'
    BY DEF CopiesLawful
  <2>1. g.id \in seen[x] /\ g.ttl + Cardinality(SeenBy(g.id)) > Ttl(g.id)
    BY <1>0, <1>1 DEF CopiesLawful
  <2>2. SeenBy(g.id)' = SeenBy(g.id) /\ Ttl(g.id)' = Ttl(g.id)
    BY <1>2 DEF SeenBy, Ttl
  <2> QED BY <1>2, <2>1, <2>2
<1>5. FrontierCovered'
  <2> SUFFICES ASSUME NEW x \in Node, NEW y \in Node, NEW q \in Packet,
                      q \in forwarded[x], y \in peers[x]
               PROVE  q \in seen[y] \/ InFlight(q, x, y)'
    BY <1>2 DEF FrontierCovered
  <2>1. InFlight(q, x, y)' <=> \E g \in On(wire', x, y) : g.id = q
    BY DEF InFlight, On
  <2>2. q \in seen[y] \/ \E g \in On(wire, x, y) : g.id = q
    BY <1>0, InFlightOn DEF FrontierCovered
  <2> QED BY <1>1, <2>1, <2>2
<1> QED BY <1>3, <1>4, <1>5 DEF FloodInv

(* A new packet is one node further, and one TTL lower.                    *)
LEMMA NewStep ==
    ASSUME FloodInv, FloodTypeOK', NEW m \in Node, NEW n \in Node, ReceiveNew(m, n)
    PROVE  FloodInv'
<1> DEFINE f == NextFrame(m, n)
<1>0. FloodTypeOK /\ SeenIsSent /\ CopiesLawful /\ RelaysForward /\ FrontierCovered /\ AcceptedOnce
  BY DEF FloodInv
<1>p. PICK p \in Packet : p = f.id
  BY <1>0, NewWires
<1>1. /\ f \in Frame /\ f \in On(wire, m, n) /\ f.id = p /\ p \in Packet /\ f.ttl \in 0 .. 255
      /\ m \in peers[n]
      /\ WillRelay(n, f) => Hop(f).id = p /\ Hop(f).ttl = f.ttl - 1
      /\ \A x, y \in Node :
           /\ \A g \in On(wire, x, y) : g \in On(wire', x, y) \/ (x = m /\ y = n /\ g = f)
           /\ WillRelay(n, f) /\ x = n /\ y \in peers[n] \ {m} => Hop(f) \in On(wire', x, y)
           /\ \A g \in On(wire', x, y) :
                \/ g \in On(wire, x, y)
                \/ WillRelay(n, f) /\ x = n /\ y \in peers[n] \ {m} /\ g = Hop(f)
  BY <1>0, <1>p, NewWires
<1>2. p \notin seen[n] /\ seen' = Mark(n, p) /\ accepted' = Accepted(n, p)
  BY <1>p DEF ReceiveNew
<1>3. UNCHANGED <<peers, origin>>
  BY DEF ReceiveNew
<1>4. \A x \in Node, q \in Packet :
        q \in forwarded'[x] <=> q \in forwarded[x] \/ (WillRelay(n, f) /\ x = n /\ q = p)
  <2>1. forwarded \in [Node -> SUBSET Packet]
    BY <1>0 DEF FloodTypeOK
  <2>2. CASE WillRelay(n, f)
    <3>1. forwarded' = [forwarded EXCEPT ![n] = @ \cup {p}]
      BY <1>p, <2>2 DEF ReceiveNew
    <3> HIDE DEF f
    <3> QED BY <2>1, <2>2, <3>1
  <2>3. CASE ~WillRelay(n, f)
    <3>1. forwarded' = forwarded
      BY <2>3 DEF ReceiveNew
    <3> HIDE DEF f
    <3> QED BY <2>3, <3>1
  <2> QED BY <2>2, <2>3
<1> HIDE DEF f
<1>5. /\ \A q \in Packet : /\ Cardinality(SeenBy(q)) \in Nat
                           /\ Cardinality(SeenBy(q)') \in Nat
                           /\ Cardinality(SeenBy(q)') >= Cardinality(SeenBy(q))
      /\ Cardinality(SeenBy(p)') = Cardinality(SeenBy(p)) + 1
      /\ \A x \in Node, q \in Packet : q \in seen'[x] <=> q \in seen[x] \/ (x = n /\ q = p)
  BY <1>0, <1>1, <1>2, MarkCounts
<1>6. \A q : Ttl(q)' = Ttl(q) /\ (Sent(q)' <=> Sent(q))
  BY <1>3 DEF Ttl, Sent
<1>7. p \in seen[m] /\ f.ttl + Cardinality(SeenBy(p)) > Ttl(p) /\ Sent(p)
  BY <1>0, <1>1 DEF CopiesLawful, SeenIsSent
<1>8. \A q \in Packet : Sent(q) => origin[q] \in Node /\ Ttl(q) \in Nat
  <2>1. \A q \in Packet : origin[q] \in Node \cup {NoNode}
    BY <1>0 DEF FloodTypeOK
  <2>2. \A x \in Node : DefaultTtl[x] \in Nat
    BY FloodAssumption
  <2> QED BY <2>1, <2>2 DEF Sent, Ttl
<1>9. SeenIsSent'
  <2>1. ASSUME NEW x \in Node, NEW q \in Packet, q \in seen'[x] PROVE Sent(q)'
    BY <1>0, <1>5, <1>6, <1>7, <2>1 DEF SeenIsSent
  <2>2. ASSUME NEW q \in Packet, Sent(q)' PROVE q \in seen'[origin'[q]]
    <3>1. Sent(q) /\ origin'[q] = origin[q] /\ origin[q] \in Node
      BY <1>3, <1>6, <1>8, <2>2
    <3> QED BY <1>0, <1>5, <3>1 DEF SeenIsSent
  <2> QED BY <2>1, <2>2 DEF SeenIsSent
<1>10. CopiesLawful'
  <2> SUFFICES ASSUME NEW x \in Node, NEW y \in Node, NEW g \in On(wire', x, y)
               PROVE  g.id \in seen'[x] /\ g.ttl + Cardinality(SeenBy(g.id)') > Ttl(g.id)'
    BY DEF CopiesLawful
  <2>1. CASE g \in On(wire, x, y)
    <3>1. g.id \in seen[x] /\ g.ttl + Cardinality(SeenBy(g.id)) > Ttl(g.id)
      BY <1>0, <2>1 DEF CopiesLawful
    <3>2. g \in Frame
      <4>1. <<x, y>> \in Conn /\ wire[<<x, y>>] \in Seq(Frame)
        BY <1>0 DEF Conn, FloodTypeOK
      <4> QED BY <2>1, <4>1, LenProperties DEF On
    <3>3. g.id \in Packet /\ g.ttl \in Nat
      BY <3>2 DEF Frame
    <3>4. Ttl(g.id) \in Nat
      BY <1>0, <1>8, <3>1, <3>3 DEF SeenIsSent
    <3>5. Ttl(g.id)' = Ttl(g.id)
      BY <1>6
    <3>6. g.ttl + Cardinality(SeenBy(g.id)') > Ttl(g.id)
      BY <1>5, <3>1, <3>3, <3>4
    <3> QED BY <1>5, <3>1, <3>3, <3>5, <3>6
  <2>2. CASE g \notin On(wire, x, y)
    <3>1. x = n /\ g = Hop(f) /\ g.id = p /\ g.ttl = f.ttl - 1
      BY <1>1, <2>2
    <3>2. Ttl(p) \in Nat
      BY <1>1, <1>7, <1>8
    <3>3. (f.ttl - 1) + (Cardinality(SeenBy(p)) + 1) > Ttl(p)
      BY <1>1, <1>5, <1>7, <3>2
    <3>4. p \in seen'[n]
      BY <1>1, <1>5
    <3>5. g.ttl + Cardinality(SeenBy(p)') > Ttl(p)'
      <4>1. Cardinality(SeenBy(p)') = Cardinality(SeenBy(p)) + 1 /\ Ttl(p)' = Ttl(p)
        BY <1>5, <1>6
      <4> QED BY <3>1, <3>3, <4>1
    <3> QED BY <3>1, <3>4, <3>5
  <2> QED BY <2>1, <2>2
<1>11. RelaysForward'
  <2> SUFFICES ASSUME NEW x \in Node, NEW q \in Packet, q \in seen'[x],
                      x \in Relays \/ x = origin[q]
               PROVE  q \in forwarded'[x] \/ Cardinality(SeenBy(q)') > Ttl(q)
    BY <1>3, <1>6 DEF RelaysForward
  <2>1. CASE q \in seen[x]
    <3>1. q \in forwarded[x] \/ Cardinality(SeenBy(q)) > Ttl(q)
      BY <1>0, <2>1 DEF RelaysForward
    <3>2. Ttl(q) \in Nat
      BY <1>0, <1>8, <2>1 DEF SeenIsSent
    <3> QED BY <1>4, <1>5, <3>1, <3>2
  <2>2. CASE q \notin seen[x]
    <3>1. x = n /\ q = p
      BY <1>5, <2>2
    <3>2. n # origin[p]
      BY <1>0, <1>1, <1>2, <1>7 DEF SeenIsSent
    <3>3. WillRelay(n, f) \/ f.ttl <= 1
      BY <1>1, <3>1, <3>2 DEF WillRelay
    <3>4. CASE WillRelay(n, f)
      BY <1>4, <3>1, <3>4
    <3>5. CASE f.ttl <= 1
      <4>1. Ttl(p) \in Nat
        BY <1>1, <1>7, <1>8
      <4>2. Cardinality(SeenBy(p)') = Cardinality(SeenBy(p)) + 1
        BY <1>5
      <4>3. Cardinality(SeenBy(p)) \in Nat
        BY <1>1, <1>5
      <4>4. Cardinality(SeenBy(p)) + 1 > Ttl(p)
        BY <1>1, <1>7, <3>5, <4>1, <4>3
      <4> QED BY <3>1, <4>2, <4>4
    <3> QED BY <3>3, <3>4, <3>5
  <2> QED BY <2>1, <2>2
<1>12. FrontierCovered'
  <2> SUFFICES ASSUME NEW x \in Node, NEW y \in Node, NEW q \in Packet,
                      q \in forwarded'[x], y \in peers[x]
               PROVE  q \in seen'[y] \/ InFlight(q, x, y)'
    BY <1>3 DEF FrontierCovered
  <2>1. InFlight(q, x, y)' <=> \E g \in On(wire', x, y) : g.id = q
    BY DEF InFlight, On
  <2>2. CASE q \in forwarded[x]
    <3>1. q \in seen[y] \/ \E g \in On(wire, x, y) : g.id = q
      BY <1>0, <2>2, InFlightOn DEF FrontierCovered
    <3> QED BY <1>1, <1>5, <2>1, <3>1
  <2>3. CASE q \notin forwarded[x]
    <3>1. WillRelay(n, f) /\ x = n /\ q = p
      BY <1>4, <2>3
    <3>2. CASE y = m
      BY <1>5, <1>7, <3>1, <3>2
    <3>3. CASE y # m
      BY <1>1, <2>1, <3>1, <3>3
    <3> QED BY <3>2, <3>3
  <2> QED BY <2>2, <2>3
<1>13. AcceptedOnce'
  <2>1. accepted \in [Node -> [Packet -> Nat]]
    BY <1>0 DEF FloodTypeOK
  <2>2. ASSUME NEW x \in Node, NEW q \in Packet
        PROVE  accepted'[x][q] = IF x = n /\ q = p THEN accepted[x][q] + 1 ELSE accepted[x][q]
    BY <1>1, <1>2, <2>1 DEF Accepted
  <2> QED BY <1>0, <1>1, <1>2, <1>5, <2>2 DEF AcceptedOnce
<1> QED BY <1>9, <1>10, <1>11, <1>12, <1>13 DEF FloodInv

\* Every step keeps the invariant.
LEMMA NextFloodInv == FloodInv /\ [FloodNext]_floodVars => FloodInv'
<1> SUFFICES ASSUME FloodInv, [FloodNext]_floodVars PROVE FloodInv'
  OBVIOUS
<1>1. FloodTypeOK'
  BY TypeStep DEF FloodInv
<1>2. ASSUME NEW n \in Node, NEW p \in Packet, Send(n, p) PROVE FloodInv'
  BY <1>1, <1>2, SendStep
<1>3. ASSUME NEW m \in Node, NEW n \in Node, ReceiveSeen(m, n) PROVE FloodInv'
  BY <1>1, <1>3, SeenStep
<1>4. ASSUME NEW m \in Node, NEW n \in Node, ReceiveNew(m, n) PROVE FloodInv'
  BY <1>1, <1>4, NewStep
<1>5. ASSUME UNCHANGED floodVars PROVE FloodInv'
  <2>1. /\ UNCHANGED <<peers, wire, seen, stats, origin, accepted, forwarded>>
        /\ FloodTypeOK /\ SeenIsSent /\ CopiesLawful
        /\ RelaysForward /\ FrontierCovered /\ AcceptedOnce
    BY <1>5 DEF floodVars, FloodInv
  <2>2. \A q : Sent(q)' = Sent(q) /\ Ttl(q)' = Ttl(q) /\ SeenBy(q)' = SeenBy(q)
    BY <2>1 DEF Sent, Ttl, SeenBy
  <2>3. SeenIsSent' /\ AcceptedOnce' /\ RelaysForward'
    BY <2>1, <2>2 DEF SeenIsSent, AcceptedOnce, RelaysForward
  <2>4. CopiesLawful'
    BY <2>1, <2>2 DEF CopiesLawful
  <2>5. FrontierCovered'
    BY <2>1 DEF FrontierCovered, InFlight
  <2> QED BY <1>1, <2>3, <2>4, <2>5 DEF FloodInv
<1> QED BY <1>2, <1>3, <1>4, <1>5 DEF FloodNext, Receive

(***************************************************************************)
(* How far a packet comes.  A copy that has crossed k links has lost k of  *)
(* its TTL, and has been kept to the relays.                               *)
(***************************************************************************)
Travelled(m, n, f) ==
    \E k \in Nat : /\ Walk(origin[f.id], m, k)
                   /\ f.ttl + k = Ttl(f.id)
                   /\ n \in Topology[m]
                   /\ k > 0 => m \in Relays /\ f.ttl >= 1

CopiesTravelled == \A m, n \in Node : \A f \in On(wire, m, n) : Travelled(m, n, f)

ScopeInv ==
    /\ peers = Topology
    /\ CopiesTravelled
    /\ ScopeBound

\* A node is no link away from itself.
LEMMA WalkNone ==
    ASSUME NEW links, NEW o \in Node
    PROVE  WalkOver(links, o, o, 0)
<1> DEFINE w == [i \in 0 .. 0 |-> o]
<1>1. w \in [0 .. 0 -> Node] /\ w[0] = o
  OBVIOUS
<1>2. 0 .. 0 - 1 = {}
  OBVIOUS
<1> HIDE DEF w
<1> QED BY <1>1, <1>2 DEF WalkOver

\* A neighbour of a relay, or of the sender, is one link further.
LEMMA WalkFurther ==
    ASSUME NEW links, NEW o \in Node, NEW m \in Node, NEW n \in Node, NEW k \in Nat,
           WalkOver(links, o, m, k), n \in links[m], k > 0 => m \in Relays
    PROVE  WalkOver(links, o, n, k + 1)
<1>1. PICK w \in [0 .. k -> Node] :
        /\ w[0] = o
        /\ w[k] = m
        /\ \A i \in 0 .. k - 1 : /\ w[i + 1] \in links[w[i]]
                                 /\ i > 0 => w[i] \in Relays
  BY DEF WalkOver
<1> DEFINE v == [i \in 0 .. k + 1 |-> IF i = k + 1 THEN n ELSE w[i]]
<1>2. /\ v \in [0 .. k + 1 -> Node]
      /\ v[k + 1] = n
      /\ \A i \in 0 .. k : v[i] = w[i]
  OBVIOUS
<1>3. v[0] = o /\ v[k] = m
  BY <1>1, <1>2
<1>4. ASSUME NEW i \in 0 .. k + 1 - 1
      PROVE  v[i + 1] \in links[v[i]] /\ (i > 0 => v[i] \in Relays)
  <2>1. CASE i = k
    BY <1>2, <1>3, <2>1
  <2>2. CASE i # k
    <3>1. i \in 0 .. k - 1 /\ i \in 0 .. k /\ i + 1 \in 0 .. k
      BY <2>2
    <3> HIDE DEF v
    <3> QED BY <1>1, <1>2, <3>1
  <2> QED BY <2>1, <2>2
<1> HIDE DEF v
<1>5. v \in [0 .. k + 1 -> Node] /\ v[0] = o /\ v[k + 1] = n
  BY <1>2, <1>3
<1> QED BY <1>4, <1>5 DEF WalkOver

(* A packet that is sent is at its sender, and its copies have crossed no  *)
(* link.                                                                   *)
LEMMA SendScope ==
    ASSUME FloodInv, ScopeInv, NEW n \in Node, NEW p \in Packet, Send(n, p)
    PROVE  ScopeInv'
<1> DEFINE frame == [id |-> p, ttl |-> DefaultTtl[n]]
<1>0. FloodTypeOK /\ SeenIsSent /\ CopiesLawful /\ peers = Topology /\ CopiesTravelled /\ ScopeBound
  BY DEF FloodInv, ScopeInv
<1>1. /\ frame \in Frame /\ frame.id = p /\ frame.ttl = DefaultTtl[n]
      /\ wire' \in WireType
      /\ \A x, y \in Node :
           /\ On(wire, x, y) \subseteq On(wire', x, y)
           /\ x = n /\ y \in peers[n] => frame \in On(wire', x, y)
           /\ \A f \in On(wire', x, y) :
                f \in On(wire, x, y) \/ (x = n /\ y \in peers[n] /\ f = frame)
  BY <1>0, SendWires
<1> HIDE DEF frame
<1>2. \A x \in Node, q \in Packet : q \in seen'[x] <=> q \in seen[x] \/ (x = n /\ q = p)
  BY <1>0, MarkCounts DEF Send
<1>3. ~Sent(p) /\ \A x \in Node : p \notin seen[x]
  BY <1>0 DEF Send, SeenIsSent, Sent
<1>4. /\ origin'[p] = n
      /\ \A q \in Packet : q # p => origin'[q] = origin[q]
      /\ peers' = peers
  BY <1>0 DEF Send, FloodTypeOK
<1>5. Walk(n, n, 0)
  BY WalkNone DEF Walk
<1>6. CopiesTravelled'
  <2> SUFFICES ASSUME NEW x \in Node, NEW y \in Node, NEW f \in On(wire', x, y)
               PROVE  Travelled(x, y, f)'
    BY DEF CopiesTravelled
  <2>1. CASE f \in On(wire, x, y)
    <3>1. f.id \in Packet /\ f.id \in seen[x]
      <4>1. <<x, y>> \in Conn /\ wire[<<x, y>>] \in Seq(Frame)
        BY <1>0 DEF Conn, FloodTypeOK
      <4>2. f \in Frame
        BY <2>1, <4>1, LenProperties DEF On
      <4> QED BY <1>0, <2>1, <4>2 DEF Frame, CopiesLawful
    <3>2. origin'[f.id] = origin[f.id]
      BY <1>3, <1>4, <3>1
    <3> QED BY <1>0, <2>1, <3>2 DEF CopiesTravelled, Travelled, Ttl
  <2>2. CASE f \notin On(wire, x, y)
    <3>1. x = n /\ y \in Topology[n] /\ f.id = p /\ f.ttl = DefaultTtl[n]
      BY <1>0, <1>1, <2>2
    <3>2. DefaultTtl[n] \in Nat
      BY FloodAssumption
    <3>3. Walk(origin'[f.id], x, 0) /\ f.ttl + 0 = Ttl(f.id)'
      BY <1>4, <1>5, <3>1, <3>2 DEF Ttl
    <3> QED BY <3>1, <3>3 DEF Travelled
  <2> QED BY <2>1, <2>2
<1>7. ScopeBound'
  <2> SUFFICES ASSUME NEW x \in Node, NEW q \in Packet, q \in seen'[x]
               PROVE  Sent(q)' /\ \E k \in 0 .. Scope(origin'[q]) : Walk(origin'[q], x, k)
    BY DEF ScopeBound
  <2>1. CASE q = p
    <3>1. x = n /\ origin'[q] = n /\ n # NoNode
      BY <1>2, <1>3, <1>4, <2>1, FloodAssumption
    <3>2. 0 \in 0 .. Scope(n)
      BY FloodAssumption DEF Scope
    <3> QED BY <1>5, <3>1, <3>2 DEF Sent
  <2>2. CASE q # p
    BY <1>0, <1>2, <1>4, <2>2 DEF ScopeBound, Sent
  <2> QED BY <2>1, <2>2
<1> QED BY <1>0, <1>4, <1>6, <1>7 DEF ScopeInv

(* A packet that is taken for new is one link further than its copy, and   *)
(* is relayed with the TTL one lower.                                      *)
LEMMA NewScope ==
    ASSUME FloodInv, ScopeInv, NEW m \in Node, NEW n \in Node, ReceiveNew(m, n)
    PROVE  ScopeInv'
<1> DEFINE f == NextFrame(m, n)
<1>0. FloodTypeOK /\ SeenIsSent /\ CopiesLawful /\ peers = Topology /\ CopiesTravelled /\ ScopeBound
  BY DEF FloodInv, ScopeInv
<1>p. PICK p \in Packet : p = f.id
  BY <1>0, NewWires
<1>1. /\ f \in On(wire, m, n) /\ f.ttl \in 0 .. 255
      /\ WillRelay(n, f) => Hop(f).id = p /\ Hop(f).ttl = f.ttl - 1
      /\ \A x, y \in Node :
           \A g \in On(wire', x, y) :
             \/ g \in On(wire, x, y)
             \/ WillRelay(n, f) /\ x = n /\ y \in peers[n] \ {m} /\ g = Hop(f)
  BY <1>0, <1>p, NewWires
<1>2. /\ seen' = Mark(n, p)
      /\ UNCHANGED <<peers, origin>>
  BY <1>p DEF ReceiveNew
<1> HIDE DEF f
<1>3. \A x \in Node, q \in Packet : q \in seen'[x] <=> q \in seen[x] \/ (x = n /\ q = p)
  BY <1>0, <1>2, MarkCounts
<1>4. Sent(p) /\ origin[p] \in Node /\ DefaultTtl[origin[p]] \in Nat
  <2>1. Sent(p)
    BY <1>0, <1>1, <1>p DEF CopiesLawful, SeenIsSent
  <2>2. origin[p] \in Node
    BY <1>0, <2>1 DEF FloodTypeOK, Sent
  <2> QED BY <2>1, <2>2, FloodAssumption
<1>5. PICK k \in Nat : /\ Walk(origin[p], m, k)
                       /\ f.ttl + k = DefaultTtl[origin[p]]
                       /\ n \in Topology[m]
                       /\ k > 0 => m \in Relays /\ f.ttl >= 1
  BY <1>0, <1>1, <1>p DEF CopiesTravelled, Travelled, Ttl
<1>6. Walk(origin[p], n, k + 1)
  BY <1>4, <1>5, WalkFurther DEF Walk
<1>7. k + 1 \in 0 .. Scope(origin[p])
  <2>1. CASE k = 0
    BY <1>4, <2>1 DEF Scope
  <2>2. CASE k > 0
    <3>1. k + 1 <= DefaultTtl[origin[p]] /\ DefaultTtl[origin[p]] # 0
      BY <1>1, <1>4, <1>5, <2>2
    <3> QED BY <1>4, <3>1 DEF Scope
  <2> QED BY <2>1, <2>2
<1>8. CopiesTravelled'
  <2> SUFFICES ASSUME NEW x \in Node, NEW y \in Node, NEW g \in On(wire', x, y)
               PROVE  Travelled(x, y, g)'
    BY DEF CopiesTravelled
  <2>1. CASE g \in On(wire, x, y)
    BY <1>0, <1>2, <2>1 DEF CopiesTravelled, Travelled, Ttl
  <2>2. CASE g \notin On(wire, x, y)
    <3>1. /\ n \in Relays /\ f.ttl > 1 /\ x = n /\ y \in Topology[n]
          /\ g.id = p /\ g.ttl = f.ttl - 1
      BY <1>0, <1>1, <2>2 DEF WillRelay
    <3>2. g.ttl + (k + 1) = DefaultTtl[origin[p]] /\ g.ttl >= 1
      BY <1>1, <1>4, <1>5, <3>1
    <3>3. /\ k + 1 \in Nat
          /\ Walk(origin'[g.id], x, k + 1)
          /\ g.ttl + (k + 1) = Ttl(g.id)'
          /\ y \in Topology[x]
          /\ x \in Relays /\ g.ttl >= 1
      BY <1>2, <1>6, <3>1, <3>2 DEF Ttl
    <3> QED BY <3>3 DEF Travelled
  <2> QED BY <2>1, <2>2
<1>9. ScopeBound'
  <2> SUFFICES ASSUME NEW x \in Node, NEW q \in Packet, q \in seen'[x]
               PROVE  Sent(q) /\ \E j \in 0 .. Scope(origin[q]) : Walk(origin[q], x, j)
    BY <1>2 DEF ScopeBound, Sent
  <2>1. CASE q \in seen[x]
    BY <1>0, <2>1 DEF ScopeBound
  <2>2. CASE q \notin seen[x]
    BY <1>3, <1>4, <1>6, <1>7, <2>2
  <2> QED BY <2>1, <2>2
<1> QED BY <1>0, <1>2, <1>8, <1>9 DEF ScopeInv

\* No step takes a packet out of its scope.
LEMMA NextScope == FloodInv /\ ScopeInv /\ [FloodNext]_floodVars => ScopeInv'
<1> SUFFICES ASSUME FloodInv, ScopeInv, [FloodNext]_floodVars PROVE ScopeInv'
  OBVIOUS
<1>1. ASSUME NEW n \in Node, NEW p \in Packet, Send(n, p) PROVE ScopeInv'
  BY <1>1, SendScope
<1>2. ASSUME NEW m \in Node, NEW n \in Node, ReceiveNew(m, n) PROVE ScopeInv'
  BY <1>2, NewScope
<1>3. ASSUME UNCHANGED <<peers, seen, origin>>,
             \A x, y \in Node : On(wire', x, y) \subseteq On(wire, x, y)
      PROVE  ScopeInv'
  <2>1. CopiesTravelled'
    BY <1>3 DEF ScopeInv, CopiesTravelled, Travelled, Ttl
  <2> QED BY <1>3, <2>1 DEF ScopeInv, ScopeBound, Sent
<1>4. ASSUME NEW m \in Node, NEW n \in Node, ReceiveSeen(m, n) PROVE ScopeInv'
  <2>1. \A x, y \in Node : On(wire', x, y) \subseteq On(wire, x, y)
    BY <1>4, SeenWires DEF FloodInv
  <2> QED BY <1>3, <1>4, <2>1 DEF ReceiveSeen
<1>5. CASE UNCHANGED floodVars
  BY <1>3, <1>5 DEF floodVars
<1> QED BY <1>1, <1>2, <1>4, <1>5 DEF FloodNext, Receive

(***************************************************************************)
(* The counters.                                                           *)
(***************************************************************************)
Own(n) == {p \in Packet : origin[p] = n}
Foreign(n) == {p \in seen[n] : origin[p] # n}

\* What is forwarded has been seen, and at any time only so much has been.
StatsInv ==
    /\ StatsAddUp
    /\ \A n \in Node : /\ forwarded[n] \subseteq seen[n]
                       /\ IsFiniteSet(seen[n])
                       /\ IsFiniteSet(Own(n))

\* One more element, for the sets that the counters count.
LEMMA CountsOne ==
    ASSUME NEW S, IsFiniteSet(S), NEW x, x \notin S
    PROVE  IsFiniteSet(S \cup {x}) /\ Cardinality(S \cup {x}) = Cardinality(S) + 1
BY FS_AddElement

\* The counters of one node, from its sets.
LEMMA StatsOf ==
    ASSUME FloodTypeOK, StatsInv, NEW n \in Node
    PROVE  /\ stats[n].sent \in Nat /\ stats[n].received \in Nat /\ stats[n].relayed \in Nat
           /\ stats[n].sent = Cardinality(Own(n))
           /\ stats[n].received = Cardinality(Foreign(n))
           /\ stats[n].sent + stats[n].relayed = Cardinality(forwarded[n])
           /\ IsFiniteSet(Own(n)) /\ IsFiniteSet(Foreign(n)) /\ IsFiniteSet(forwarded[n])
           /\ IsFiniteSet(seen[n])
<1>1. stats[n] \in Counters
  BY DEF FloodTypeOK
<1>2. IsFiniteSet(Foreign(n)) /\ IsFiniteSet(forwarded[n])
  <2>1. Foreign(n) \in SUBSET seen[n] /\ forwarded[n] \in SUBSET seen[n] /\ IsFiniteSet(seen[n])
    BY DEF StatsInv, Foreign
  <2> QED BY <2>1, FS_Subset
<1> QED BY <1>1, <1>2 DEF Counters, StatsInv, StatsAddUp, Own, Foreign

\* A node whose counters and sets a step leaves alone.
LEMMA StatsKept ==
    ASSUME StatsInv, NEW x \in Node,
           stats'[x] = stats[x], forwarded'[x] = forwarded[x], seen'[x] = seen[x],
           Own(x)' = Own(x), Foreign(x)' = Foreign(x)
    PROVE  /\ stats'[x].sent = Cardinality(Own(x)')
           /\ stats'[x].received = Cardinality(Foreign(x)')
           /\ stats'[x].sent + stats'[x].relayed = Cardinality(forwarded'[x])
           /\ forwarded'[x] \subseteq seen'[x]
           /\ IsFiniteSet(seen'[x]) /\ IsFiniteSet(Own(x)')
BY DEF StatsInv, StatsAddUp, Own, Foreign

\* The counters and the sets of every node, put together.
LEMMA StatsFrom ==
    ASSUME \A x \in Node :
             /\ stats'[x].sent = Cardinality(Own(x)')
             /\ stats'[x].received = Cardinality(Foreign(x)')
             /\ stats'[x].sent + stats'[x].relayed = Cardinality(forwarded'[x])
             /\ forwarded'[x] \subseteq seen'[x]
             /\ IsFiniteSet(seen'[x]) /\ IsFiniteSet(Own(x)')
    PROVE  StatsInv'
BY DEF StatsInv, StatsAddUp, Own, Foreign

\* A packet that is sent is one more own packet, and one more that is forwarded.
LEMMA SendStats ==
    ASSUME FloodInv, StatsInv, NEW n \in Node, NEW p \in Packet, Send(n, p)
    PROVE  StatsInv'
<1>0. FloodTypeOK /\ SeenIsSent
  BY DEF FloodInv
<1>1. ~Sent(p) /\ \A x \in Node : p \notin seen[x]
  BY <1>0 DEF Send, SeenIsSent, Sent
<1>2. /\ origin'[p] = n
      /\ \A q \in Packet : q # p => origin'[q] = origin[q]
      /\ seen'[n] = seen[n] \cup {p} /\ forwarded'[n] = forwarded[n] \cup {p}
      /\ \A x \in Node : x # n => seen'[x] = seen[x] /\ forwarded'[x] = forwarded[x]
  BY <1>0 DEF Send, Mark, FloodTypeOK
<1>3. /\ \A x \in Node : x # n => stats'[x] = stats[x]
      /\ stats'[n].sent = stats[n].sent + 1
      /\ stats'[n].received = stats[n].received
      /\ stats'[n].relayed = stats[n].relayed
  <2>1. stats' = Count(stats, n, "sent") /\ stats \in [Node -> Counters]
    BY <1>0 DEF Send, FloodTypeOK
  <2> QED BY <2>1 DEF Count, Counters
<1>4. Own(n)' = Own(n) \cup {p} /\ p \notin Own(n)
  BY <1>1, <1>2, FloodAssumption DEF Own, Sent
<1>5. \A x \in Node : x # n => Own(x)' = Own(x)
  BY <1>1, <1>2, FloodAssumption DEF Own, Sent
<1>6. \A x \in Node : Foreign(x)' = Foreign(x)
  <2>1. \A x \in Node : seen[x] \subseteq Packet
    BY <1>0 DEF FloodTypeOK
  <2> QED BY <1>1, <1>2, <2>1 DEF Foreign
<1>7. ASSUME NEW x \in Node
      PROVE  /\ stats'[x].sent = Cardinality(Own(x)')
             /\ stats'[x].received = Cardinality(Foreign(x)')
             /\ stats'[x].sent + stats'[x].relayed = Cardinality(forwarded'[x])
             /\ forwarded'[x] \subseteq seen'[x]
             /\ IsFiniteSet(seen'[x]) /\ IsFiniteSet(Own(x)')
  <2>1. CASE x # n
    BY <1>2, <1>3, <1>5, <1>6, <2>1, StatsKept
  <2>2. CASE x = n
    <3>1. /\ stats[n].sent \in Nat /\ stats[n].relayed \in Nat
          /\ stats[n].sent = Cardinality(Own(n))
          /\ stats[n].received = Cardinality(Foreign(n))
          /\ stats[n].sent + stats[n].relayed = Cardinality(forwarded[n])
          /\ IsFiniteSet(Own(n)) /\ IsFiniteSet(forwarded[n]) /\ IsFiniteSet(seen[n])
      BY <1>0, StatsOf
    <3>2. forwarded[n] \subseteq seen[n]
      BY DEF StatsInv
    <3>3. Cardinality(Own(n)') = stats[n].sent + 1 /\ IsFiniteSet(Own(n)')
      BY <1>4, <3>1, CountsOne
    <3>4. Cardinality(forwarded'[n]) = Cardinality(forwarded[n]) + 1
      BY <1>1, <1>2, <3>1, <3>2, CountsOne
    <3>5. IsFiniteSet(seen'[n])
      BY <1>1, <1>2, <3>1, CountsOne
    <3>6. stats'[n].sent + stats'[n].relayed = Cardinality(forwarded'[n])
      BY <1>3, <3>1, <3>4
    <3> QED BY <1>2, <1>3, <1>6, <2>2, <3>1, <3>2, <3>3, <3>5, <3>6
  <2> QED BY <2>1, <2>2
<1> QED BY <1>7, StatsFrom

\* A packet that is taken for new is another's, and is forwarded or not.
LEMMA NewStats ==
    ASSUME FloodInv, StatsInv, NEW m \in Node, NEW n \in Node, ReceiveNew(m, n)
    PROVE  StatsInv'
<1> DEFINE f == NextFrame(m, n)
<1>0. FloodTypeOK /\ SeenIsSent /\ CopiesLawful
  BY DEF FloodInv
<1>p. PICK p \in Packet : p = f.id
  BY <1>0, NewWires
<1>1. /\ p \notin seen[n] /\ seen' = Mark(n, p) /\ UNCHANGED origin
  BY <1>p DEF ReceiveNew
<1>2. Sent(p) /\ origin[p] # n
  <2>1. f \in On(wire, m, n)
    BY <1>0, NewWires
  <2> QED BY <1>0, <1>1, <1>p, <2>1 DEF CopiesLawful, SeenIsSent
<1>3. /\ seen'[n] = seen[n] \cup {p}
      /\ \A x \in Node : x # n => seen'[x] = seen[x]
  BY <1>0, <1>1 DEF Mark, FloodTypeOK
<1>4. /\ \A x \in Node : Own(x)' = Own(x)
      /\ Foreign(n)' = Foreign(n) \cup {p} /\ p \notin Foreign(n)
      /\ \A x \in Node : x # n => Foreign(x)' = Foreign(x)
  BY <1>1, <1>2, <1>3 DEF Own, Foreign
<1>5. /\ stats[n].sent \in Nat /\ stats[n].received \in Nat /\ stats[n].relayed \in Nat
      /\ stats[n].sent = Cardinality(Own(n))
      /\ stats[n].received = Cardinality(Foreign(n))
      /\ stats[n].sent + stats[n].relayed = Cardinality(forwarded[n])
      /\ IsFiniteSet(Own(n)) /\ IsFiniteSet(Foreign(n)) /\ IsFiniteSet(forwarded[n])
      /\ IsFiniteSet(seen[n])
  BY <1>0, StatsOf
<1>6. /\ Cardinality(Foreign(n)') = stats[n].received + 1
      /\ IsFiniteSet(seen'[n]) /\ IsFiniteSet(Own(n)')
  <2>1. Cardinality(Foreign(n)') = stats[n].received + 1
    BY <1>4, <1>5, CountsOne
  <2>2. IsFiniteSet(seen'[n])
    BY <1>1, <1>3, <1>5, CountsOne
  <2> QED BY <1>4, <1>5, <2>1, <2>2
<1>7. forwarded[n] \subseteq seen[n]
  BY DEF StatsInv
<1>8. /\ \A x \in Node : x # n => stats'[x] = stats[x] /\ forwarded'[x] = forwarded[x]
      /\ stats'[n].sent = stats[n].sent
      /\ stats'[n].received = stats[n].received + 1
      /\ stats'[n].sent + stats'[n].relayed = Cardinality(forwarded'[n])
      /\ forwarded'[n] \subseteq seen'[n]
  <2>1. stats \in [Node -> Counters] /\ stats[n] \in Counters /\ forwarded \in [Node -> SUBSET Packet]
    BY <1>0 DEF FloodTypeOK
  <2>2. CASE WillRelay(n, f)
    <3>1. /\ stats' = Count(Count(stats, n, "received"), n, "relayed")
          /\ forwarded' = [forwarded EXCEPT ![n] = @ \cup {p}]
      BY <1>p, <2>2 DEF ReceiveNew
    <3> HIDE DEF f
    <3>2. /\ \A x \in Node : x # n => stats'[x] = stats[x] /\ forwarded'[x] = forwarded[x]
          /\ stats'[n].sent = stats[n].sent
          /\ stats'[n].received = stats[n].received + 1
          /\ stats'[n].relayed = stats[n].relayed + 1
          /\ forwarded'[n] = forwarded[n] \cup {p}
      BY <2>1, <3>1 DEF Count, Counters
    <3>3. Cardinality(forwarded'[n]) = Cardinality(forwarded[n]) + 1
      BY <1>1, <1>5, <1>7, <3>2, CountsOne
    <3>4. stats'[n].sent + stats'[n].relayed = Cardinality(forwarded'[n])
      BY <1>5, <3>2, <3>3
    <3> QED BY <1>3, <1>7, <3>2, <3>4
  <2>3. CASE ~WillRelay(n, f)
    <3>1. stats' = Count(stats, n, "received") /\ forwarded' = forwarded
      BY <2>3 DEF ReceiveNew
    <3> HIDE DEF f
    <3>2. /\ \A x \in Node : x # n => stats'[x] = stats[x]
          /\ stats'[n].sent = stats[n].sent
          /\ stats'[n].received = stats[n].received + 1
          /\ stats'[n].relayed = stats[n].relayed
      BY <2>1, <3>1 DEF Count, Counters
    <3> QED BY <1>3, <1>5, <1>7, <3>1, <3>2
  <2> QED BY <2>2, <2>3
<1>9. ASSUME NEW x \in Node
      PROVE  /\ stats'[x].sent = Cardinality(Own(x)')
             /\ stats'[x].received = Cardinality(Foreign(x)')
             /\ stats'[x].sent + stats'[x].relayed = Cardinality(forwarded'[x])
             /\ forwarded'[x] \subseteq seen'[x]
             /\ IsFiniteSet(seen'[x]) /\ IsFiniteSet(Own(x)')
  <2>1. CASE x # n
    BY <1>3, <1>4, <1>8, <2>1, StatsKept
  <2>2. CASE x = n
    BY <1>4, <1>5, <1>6, <1>8, <2>2
  <2> QED BY <2>1, <2>2
<1> QED BY <1>9, StatsFrom

\* No step leaves a counter behind.
LEMMA NextStats == FloodInv /\ StatsInv /\ [FloodNext]_floodVars => StatsInv'
<1> SUFFICES ASSUME FloodInv, StatsInv, [FloodNext]_floodVars PROVE StatsInv'
  OBVIOUS
<1>1. ASSUME NEW n \in Node, NEW p \in Packet, Send(n, p) PROVE StatsInv'
  BY <1>1, SendStats
<1>2. ASSUME NEW m \in Node, NEW n \in Node, ReceiveNew(m, n) PROVE StatsInv'
  BY <1>2, NewStats
<1>3. ASSUME NEW m \in Node, NEW n \in Node, ReceiveSeen(m, n) PROVE StatsInv'
  <2>1. stats' = Count(stats, n, "dropped") /\ stats \in [Node -> Counters]
    BY <1>3 DEF ReceiveSeen, FloodInv, FloodTypeOK
  <2>2. \A x \in Node : /\ stats'[x].sent = stats[x].sent
                        /\ stats'[x].received = stats[x].received
                        /\ stats'[x].relayed = stats[x].relayed
    BY <2>1 DEF Count, Counters
  <2>3. UNCHANGED <<seen, origin, forwarded>>
    BY <1>3 DEF ReceiveSeen
  <2>4. \A x \in Node : Own(x)' = Own(x) /\ Foreign(x)' = Foreign(x)
    BY <2>3 DEF Own, Foreign
  <2>5. ASSUME NEW x \in Node
        PROVE  /\ stats'[x].sent = Cardinality(Own(x)')
               /\ stats'[x].received = Cardinality(Foreign(x)')
               /\ stats'[x].sent + stats'[x].relayed = Cardinality(forwarded'[x])
               /\ forwarded'[x] \subseteq seen'[x]
               /\ IsFiniteSet(seen'[x]) /\ IsFiniteSet(Own(x)')
    <3>1. /\ stats[x].sent = Cardinality(Own(x))
          /\ stats[x].received = Cardinality(Foreign(x))
          /\ stats[x].sent + stats[x].relayed = Cardinality(forwarded[x])
      BY DEF StatsInv, StatsAddUp, Own, Foreign
    <3>2. forwarded[x] \subseteq seen[x] /\ IsFiniteSet(seen[x]) /\ IsFiniteSet(Own(x))
      BY DEF StatsInv
    <3>3. forwarded'[x] = forwarded[x] /\ seen'[x] = seen[x]
      BY <2>3
    <3> QED BY <2>2, <2>4, <3>1, <3>2, <3>3, Zenon
  <2> QED BY <2>5, StatsFrom
<1>4. CASE UNCHANGED floodVars
  BY <1>4 DEF floodVars, StatsInv, StatsAddUp, Own
<1> QED BY <1>1, <1>2, <1>3, <1>4 DEF FloodNext, Receive

(***************************************************************************)
(* The theorems.                                                           *)
(***************************************************************************)

(* The invariant holds throughout the run of every mesh (mesh.c:45-178).   *)
THEOREM FloodInvariant == FloodSpec => []FloodInv
<1> QED BY InitFloodInv, NextFloodInv, PTL DEF FloodSpec

(* mesh.c keeps to its types: the TTL that vex_mesh_relay lowers (mesh.c:  *)
(* 163) never wraps below zero.                                            *)
THEOREM FloodTypes == FloodSpec => []FloodTypeOK
<1>1. FloodInv => FloodTypeOK
  BY DEF FloodInv
<1> QED BY <1>1, FloodInvariant, PTL

(* The flood leaves no hole behind it, in any mesh and any race: neither   *)
(* the peer that a relay leaves out (mesh.c:170) nor the duplicates that   *)
(* are dropped (mesh.c:116) ever cost a neighbour the packet.              *)
THEOREM FrontierTheorem == FloodSpec => []FrontierCovered
<1>1. FloodInv => FrontierCovered
  BY DEF FloodInv
<1> QED BY <1>1, FloodInvariant, PTL

(* While nothing is forgotten, no node takes a packet for new twice.       *)
THEOREM TraverseTheorem == FloodSpec => []TraverseOnce
<1>1. FloodInv => TraverseOnce
  BY DEF FloodInv, AcceptedOnce, TraverseOnce
<1> QED BY <1>1, FloodInvariant, PTL

(* A flood that is over has crossed every link it could, when its TTL was  *)
(* no smaller than the number of the other nodes: a TTL is used up (mesh.c:*)
(* 157) only by as many nodes as have the packet, and then all have it.    *)
THEOREM CompleteTheorem == FloodSpec => []FloodComplete
<1>1. FloodInv => FloodComplete
  <2> SUFFICES ASSUME FloodInv, NEW p \in Packet, Quiet(p),
                      DefaultTtl[origin[p]] >= Cardinality(Node) - 1,
                      NEW m \in Node, NEW n \in Node,
                      p \in seen[m], m \in Relays \/ m = origin[p], n \in peers[m]
               PROVE  p \in seen[n]
    BY DEF FloodComplete
  <2>1. CASE p \in forwarded[m]
    BY <2>1 DEF FloodInv, FrontierCovered, Quiet
  <2>2. CASE p \notin forwarded[m]
    <3>1. Cardinality(SeenBy(p)) > Ttl(p)
      BY <2>2 DEF FloodInv, RelaysForward
    <3>2. /\ SeenBy(p) \in SUBSET Node
          /\ IsFiniteSet(SeenBy(p))
          /\ Cardinality(SeenBy(p)) \in Nat
          /\ Cardinality(SeenBy(p)) <= Cardinality(Node)
          /\ Cardinality(Node) \in Nat
          /\ Cardinality(SeenBy(p)) = Cardinality(Node) => SeenBy(p) = Node
      <4>1. SeenBy(p) \in SUBSET Node
        BY DEF SeenBy
      <4> QED BY <4>1, FloodAssumption, FS_Subset, FS_CardinalityType
    <3>3. Ttl(p) \in Nat
      <4>1. origin[p] \in Node
        BY DEF FloodInv, FloodTypeOK, Quiet, Sent
      <4> QED BY <4>1, FloodAssumption DEF Ttl
    <3>4. SeenBy(p) = Node
      BY <3>1, <3>2, <3>3 DEF Ttl
    <3> QED BY <3>4 DEF SeenBy
  <2> QED BY <2>1, <2>2
<1> QED BY <1>1, FloodInvariant, PTL

(* TTL is a bound in space, in every mesh: a packet is seen by no node     *)
(* further from its sender than its TTL (1 link for a TTL of 0, which      *)
(* vex_mesh_send writes all the same), nor beyond one that does not relay. *)
THEOREM ScopeTheorem == FloodSpec => []ScopeBound
<1>1. FloodInit => ScopeInv
  <2>1. ASSUME FloodInit PROVE \A m, n \in Node : On(wire, m, n) = {}
    BY <2>1 DEF FloodInit, On, Conn
  <2> QED BY <2>1 DEF FloodInit, ScopeInv, ScopeBound, CopiesTravelled
<1>2. ScopeInv => ScopeBound
  BY DEF ScopeInv
<1> QED BY <1>1, <1>2, FloodInvariant, NextScope, PTL DEF FloodSpec

(* The counters that print_stats shows (main.c:59) agree with what has     *)
(* been sent, shown and forwarded.                                         *)
THEOREM StatsTheorem == FloodSpec => []StatsAddUp
<1>1. FloodInit => StatsInv
  <2> SUFFICES ASSUME FloodInit, NEW n \in Node
               PROVE  /\ stats[n].sent = Cardinality(Own(n))
                      /\ stats[n].received = Cardinality(Foreign(n))
                      /\ stats[n].sent + stats[n].relayed = Cardinality(forwarded[n])
                      /\ forwarded[n] \subseteq seen[n]
                      /\ IsFiniteSet(seen[n]) /\ IsFiniteSet(Own(n))
    BY DEF StatsInv, StatsAddUp, Own, Foreign
  <2>1. Own(n) = {} /\ Foreign(n) = {} /\ forwarded[n] = {} /\ seen[n] = {}
    BY FloodAssumption DEF FloodInit, Own, Foreign
  <2>2. stats[n].sent = 0 /\ stats[n].received = 0 /\ stats[n].relayed = 0
    BY DEF FloodInit
  <2> QED BY <2>1, <2>2, FS_EmptySet
<1>2. StatsInv => StatsAddUp
  BY DEF StatsInv
<1> QED BY <1>1, <1>2, FloodInvariant, NextStats, PTL DEF FloodSpec

=============================================================================
