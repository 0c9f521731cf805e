-------------------------- MODULE MeshChurnProofs --------------------------
(***************************************************************************)
(* Processes may start, end and be killed in the middle of a broadcast:    *)
(* still, no frame of MeshChurn waits where nobody can read it, no process *)
(* has more peers than slots, no packet comes further than its TTL, and,   *)
(* while nothing is forgotten, none is taken for new twice.  For every     *)
(* finite set of processes, whoever dials whom, every number of slots and  *)
(* every choice of faults.                                                 *)
(***************************************************************************)
EXTENDS MeshChurn, MeshFloodProofs

(***************************************************************************)
(* The inductive invariant: ReaderIsThere with its reason, that only a     *)
(* process that is up has ends at all.                                     *)
(***************************************************************************)
OnlyUpHasEnds == \A n \in Node : peers[n] # {} \/ backlog[n] # {} => Up(n)

ChurnInv == ChurnTypeOK /\ ReaderIsThere /\ OnlyUpHasEnds

(* What w holds for n, n can read: ReaderIsThere of another wire.          *)
Readable(w) ==
    \A m, n \in Node : w[<<m, n>>] # <<>> => Up(n) /\ HasEnd(n, m)

\* At most MaxPeers, as the cardinality of a finite set.
LEMMA FewPeers ==
    ASSUME ChurnInv, NEW n \in Node, NEW S \in SUBSET peers[n]
    PROVE  /\ IsFiniteSet(S) /\ Cardinality(S) \in Nat /\ Cardinality(S) <= MaxPeers
           /\ IsFiniteSet(peers[n]) /\ Cardinality(peers[n]) \in Nat
<1>1. peers[n] \in SUBSET Node /\ Cardinality(peers[n]) <= MaxPeers /\ MaxPeers \in Nat
  BY ChurnAssumption DEF ChurnInv, ChurnTypeOK, FloodTypeOK, ReaderIsThere
<1>2. IsFiniteSet(peers[n])
  BY <1>1, FloodAssumption, FS_Subset
<1>3. IsFiniteSet(S) /\ Cardinality(S) <= Cardinality(peers[n])
  BY <1>2, FS_Subset
<1>4. Cardinality(S) \in Nat /\ Cardinality(peers[n]) \in Nat
  BY <1>2, <1>3, FS_CardinalityType
<1> QED BY <1>1, <1>2, <1>3, <1>4

(* Reading takes a frame from one wire; what is left was there before.     *)
LEMMA TakenReadable ==
    ASSUME ChurnInv, NEW m \in Node, NEW n \in Node, wire[<<m, n>>] # <<>>
    PROVE  /\ Taken(m, n) \in WireType
           /\ \A x, y \in Node : Taken(m, n)[<<x, y>>] # <<>> => wire[<<x, y>>] # <<>>
<1>1. wire \in WireType
  BY DEF ChurnInv, ChurnTypeOK, FloodTypeOK, WireType
<1>2. Taken(m, n) \in WireType
  BY <1>1, TakenFrames
<1>3. ASSUME NEW x \in Node, NEW y \in Node, Taken(m, n)[<<x, y>>] # <<>>
      PROVE  wire[<<x, y>>] # <<>>
  <2>1. <<x, y>> \in Conn
    BY DEF Conn
  <2>2. CASE <<x, y>> = <<m, n>>
    BY <2>2
  <2>3. CASE <<x, y>> # <<m, n>>
    BY <1>1, <1>3, <2>1, <2>3 DEF Taken, WireType
  <2> QED BY <2>2, <2>3
<1> QED BY <1>2, <1>3

(* The frames that a broadcast leaves on a wire: those that were there, or *)
(* the new one on the way to a target.                                     *)
LEMMA SentReadable ==
    ASSUME NEW w \in WireType, NEW n \in Node, NEW frame \in Frame, NEW to \in SUBSET Node
    PROVE  /\ SendToAll(w, n, frame, to) \in WireType
           /\ \A x, y \in Node :
                SendToAll(w, n, frame, to)[<<x, y>>] # <<>> =>
                  w[<<x, y>>] # <<>> \/ (x = n /\ y \in to)
<1>1. ASSUME NEW x \in Node, NEW y \in Node
      PROVE  SendToAll(w, n, frame, to)[<<x, y>>] # <<>> =>
               w[<<x, y>>] # <<>> \/ (x = n /\ y \in to)
  BY DEF SendToAll, Conn
<1>2. SendToAll(w, n, frame, to) \in WireType
  BY SentFrames
<1> QED BY <1>1, <1>2

(* When a process ends, nothing is left on the way to it.                  *)
LEMMA ClosedReadable ==
    ASSUME NEW w \in WireType, NEW n \in Node
    PROVE  /\ CloseEnds(w, n) \in WireType
           /\ \A x, y \in Node :
                CloseEnds(w, n)[<<x, y>>] # <<>> => y # n /\ w[<<x, y>>] # <<>>
<1>1. <<>> \in Seq(Frame)
  BY EmptySeq
<1>2. CloseEnds(w, n) \in WireType
  BY <1>1 DEF CloseEnds, WireType
<1>3. ASSUME NEW x \in Node, NEW y \in Node
      PROVE  CloseEnds(w, n)[<<x, y>>] # <<>> => y # n /\ w[<<x, y>>] # <<>>
  BY DEF CloseEnds, Conn
<1> QED BY <1>2, <1>3

\* The processes, one by one.
LEMMA ChurnTypes ==
    ASSUME ChurnInv
    PROVE  /\ FloodTypeOK /\ wire \in WireType
           /\ status \in [Node -> {"new", "up", "dead"}]
           /\ backlog \in [Node -> SUBSET Node]
           /\ peers \in [Node -> SUBSET Node]
BY DEF ChurnInv, ChurnTypeOK, FloodTypeOK, WireType

(* A step that leaves the ends and the processes as they are keeps the     *)
(* invariant if what it writes can be read.                                *)
LEMMA SameEnds ==
    ASSUME ChurnInv, FloodTypeOK', UNCHANGED <<peers, status, backlog>>,
           \A m, n \in Node : wire'[<<m, n>>] # <<>> => Up(n) /\ HasEnd(n, m)
    PROVE  ChurnInv'
<1>1. ChurnTypeOK'
  BY DEF ChurnInv, ChurnTypeOK
<1>2. ReaderIsThere'
  BY DEF ChurnInv, ReaderIsThere, Up, HasEnd
<1>3. OnlyUpHasEnds'
  BY DEF ChurnInv, OnlyUpHasEnds, Up
<1> QED BY <1>1, <1>2, <1>3 DEF ChurnInv

(* main listens and dials: its new ends and those in the backlogs of the   *)
(* others are at processes that are up.                                    *)
LEMMA StartStep ==
    ASSUME ChurnInv, NEW n \in Node, Start(n)
    PROVE  ChurnInv'
<1> DEFINE dialled == {x \in Dial[n] : Up(x)}
<1>0. /\ FloodTypeOK /\ wire \in WireType
      /\ status \in [Node -> {"new", "up", "dead"}]
      /\ backlog \in [Node -> SUBSET Node]
      /\ peers \in [Node -> SUBSET Node]
  BY ChurnTypes
<1>1. /\ status' = [status EXCEPT ![n] = "up"]
      /\ peers' = [peers EXCEPT ![n] = dialled]
      /\ backlog' = [x \in Node |-> IF x \in dialled THEN backlog[x] \cup {n} ELSE backlog[x]]
      /\ UNCHANGED <<wire, seen, stats, origin, accepted, forwarded>>
      /\ ~Up(n)
  BY DEF Start, Up
<1>2. /\ dialled \in SUBSET Node
      /\ IsFiniteSet(dialled) /\ Cardinality(dialled) <= MaxPeers
      /\ \A x \in dialled : Up(x) /\ x # n
  <2>1. Dial[n] \in SUBSET Node /\ Cardinality(Dial[n]) <= MaxPeers /\ MaxPeers \in Nat
    BY ChurnAssumption
  <2>2. IsFiniteSet(Dial[n])
    BY <2>1, FloodAssumption, FS_Subset
  <2>3. dialled \in SUBSET Dial[n]
    OBVIOUS
  <2>4. IsFiniteSet(dialled) /\ Cardinality(dialled) <= Cardinality(Dial[n])
    BY <2>2, <2>3, FS_Subset
  <2>5. Cardinality(dialled) \in Nat /\ Cardinality(Dial[n]) \in Nat
    BY <2>2, <2>4, FS_CardinalityType
  <2>6. \A x \in dialled : Up(x) /\ x # n
    BY <1>1
  <2> HIDE DEF dialled
  <2> QED BY <2>1, <2>3, <2>4, <2>5, <2>6
<1> HIDE DEF dialled
<1>3. ASSUME NEW x \in Node
      PROVE  /\ x # n => /\ peers'[x] = peers[x] /\ (Up(x)' <=> Up(x))
                         /\ backlog'[x] = IF x \in dialled THEN backlog[x] \cup {n}
                                                           ELSE backlog[x]
             /\ x = n => peers'[x] = dialled /\ Up(x)' /\ backlog'[x] = backlog[x]
  BY <1>0, <1>1, <1>2 DEF Up
<1>4. ChurnTypeOK'
  <2>1. peers' \in [Node -> SUBSET Node] /\ backlog' \in [Node -> SUBSET Node]
    BY <1>0, <1>1, <1>2
  <2>2. status' \in [Node -> {"new", "up", "dead"}]
    BY <1>0, <1>1
  <2> QED BY <1>0, <1>1, <2>1, <2>2 DEF ChurnTypeOK, FloodTypeOK
<1>5. ReaderIsThere'
  <2>1. ASSUME NEW x \in Node, NEW y \in Node, wire[<<x, y>>] # <<>>
        PROVE  Up(y)' /\ HasEnd(y, x)'
    <3>1. Up(y) /\ HasEnd(y, x)
      BY <2>1 DEF ChurnInv, ReaderIsThere
    <3>2. y # n
      BY <1>1, <3>1
    <3> QED BY <1>3, <3>1, <3>2 DEF HasEnd
  <2>2. ASSUME NEW y \in Node PROVE Cardinality(peers'[y]) <= MaxPeers
    BY <1>2, <1>3 DEF ChurnInv, ReaderIsThere
  <2> QED BY <1>1, <2>1, <2>2 DEF ReaderIsThere
<1>6. OnlyUpHasEnds'
  BY <1>2, <1>3 DEF ChurnInv, OnlyUpHasEnds
<1> QED BY <1>4, <1>5, <1>6 DEF ChurnInv

(* vex_transport_unix_accept: the connection gets a slot, or what its      *)
(* other end has written is gone with it.                                  *)
LEMMA AcceptStep ==
    ASSUME ChurnInv, NEW n \in Node, NEW x \in Node, Accept(n, x)
    PROVE  ChurnInv'
<1>0. /\ FloodTypeOK /\ wire \in WireType
      /\ status \in [Node -> {"new", "up", "dead"}]
      /\ backlog \in [Node -> SUBSET Node]
      /\ peers \in [Node -> SUBSET Node]
  BY ChurnTypes
<1>1. /\ x \in backlog[n] /\ Up(n)
      /\ backlog' = [backlog EXCEPT ![n] = @ \ {x}]
      /\ UNCHANGED <<seen, stats, origin, accepted, forwarded, status>>
  BY DEF Accept, ChurnInv, OnlyUpHasEnds
<1>2. /\ backlog' \in [Node -> SUBSET Node]
      /\ \A y \in Node : backlog'[y] = IF y = n THEN backlog[y] \ {x} ELSE backlog[y]
      /\ \A y \in Node : Up(y)' <=> Up(y)
  BY <1>0, <1>1 DEF Up
<1>3. CASE Full(n)
  <2>1. wire' = [wire EXCEPT ![<<x, n>>] = <<>>] /\ UNCHANGED peers
    BY <1>3 DEF Accept
  <2>2. wire' \in WireType
    <3>1. <<>> \in Seq(Frame)
      BY EmptySeq
    <3> QED BY <1>0, <2>1, <3>1 DEF WireType
  <2>3. ChurnTypeOK'
    BY <1>0, <1>1, <1>2, <2>1, <2>2 DEF ChurnTypeOK, FloodTypeOK, WireType
  <2>4. ASSUME NEW y \in Node, NEW z \in Node, wire'[<<y, z>>] # <<>>
        PROVE  Up(z)' /\ HasEnd(z, y)'
    <3>1. <<y, z>> \in Conn /\ <<x, n>> \in Conn
      BY DEF Conn
    <3>2. wire[<<y, z>>] # <<>> /\ ~(y = x /\ z = n)
      BY <1>0, <2>1, <2>4, <3>1 DEF WireType
    <3>3. Up(z) /\ HasEnd(z, y)
      BY <3>2 DEF ChurnInv, ReaderIsThere
    <3> QED BY <1>2, <2>1, <3>2, <3>3 DEF HasEnd
  <2>5. ReaderIsThere'
    BY <2>1, <2>4 DEF ChurnInv, ReaderIsThere
  <2>6. OnlyUpHasEnds'
    BY <1>1, <1>2, <2>1 DEF ChurnInv, OnlyUpHasEnds
  <2> QED BY <2>3, <2>5, <2>6 DEF ChurnInv
<1>4. CASE ~Full(n)
  <2>1. peers' = [peers EXCEPT ![n] = @ \cup {x}] /\ UNCHANGED wire
    BY <1>4 DEF Accept
  <2>2. /\ peers' \in [Node -> SUBSET Node]
        /\ \A y \in Node : peers'[y] = IF y = n THEN peers[y] \cup {x} ELSE peers[y]
    BY <1>0, <2>1
  <2>3. ChurnTypeOK'
    BY <1>0, <1>1, <1>2, <2>1, <2>2 DEF ChurnTypeOK, FloodTypeOK
  <2>4. ASSUME NEW y \in Node, NEW z \in Node, wire[<<y, z>>] # <<>>
        PROVE  Up(z)' /\ HasEnd(z, y)'
    <3>1. Up(z) /\ HasEnd(z, y)
      BY <2>4 DEF ChurnInv, ReaderIsThere
    <3> QED BY <1>2, <2>2, <3>1 DEF HasEnd
  <2>5. ASSUME NEW y \in Node PROVE Cardinality(peers'[y]) <= MaxPeers
    <3>1. CASE y = n
      <4>1. /\ IsFiniteSet(peers[n]) /\ Cardinality(peers[n]) \in Nat /\ MaxPeers \in Nat
            /\ ~(Cardinality(peers[n]) >= MaxPeers)
        BY <1>4, FewPeers, ChurnAssumption DEF Full
      <4>2. Cardinality(peers[n] \cup {x}) = IF x \in peers[n] THEN Cardinality(peers[n])
                                                              ELSE Cardinality(peers[n]) + 1
        BY <4>1, FS_AddElement
      <4>3. Cardinality(peers[n] \cup {x}) <= MaxPeers
        BY <4>1, <4>2
      <4> QED BY <2>2, <3>1, <4>3
    <3>2. CASE y # n
      BY <2>2, <3>2 DEF ChurnInv, ReaderIsThere
    <3> QED BY <3>1, <3>2
  <2>6. ReaderIsThere'
    BY <2>1, <2>4, <2>5 DEF ReaderIsThere
  <2>7. OnlyUpHasEnds'
    BY <1>1, <1>2, <2>2 DEF ChurnInv, OnlyUpHasEnds
  <2> QED BY <2>3, <2>6, <2>7 DEF ChurnInv
<1> QED BY <1>3, <1>4

(* The end of a process n, with victim's slot for it also closed or not:   *)
(* what is still on the wires has its reader.                              *)
LEMMA DeathStep ==
    ASSUME ChurnInv, NEW n \in Node, NEW victim \in Node, NEW w \in WireType,
           FloodTypeOK', wire' = CloseEnds(w, n),
           status' = [status EXCEPT ![n] = "dead"],
           backlog' = [backlog EXCEPT ![n] = {}],
           \A x, y \in Node : w[<<x, y>>] # <<>> => Up(y) /\ HasEnd(y, x),
           \/ peers' = [peers EXCEPT ![n] = {}]
           \/ /\ peers' = [peers EXCEPT ![n] = {}, ![victim] = @ \ {n}]
              /\ w[<<n, victim>>] = <<>>
    PROVE  ChurnInv'
<1>0. /\ status \in [Node -> {"new", "up", "dead"}]
      /\ backlog \in [Node -> SUBSET Node]
      /\ peers \in [Node -> SUBSET Node]
  BY ChurnTypes
<1>1. ASSUME NEW y \in Node
      PROVE  /\ y = n => peers'[y] = {} /\ backlog'[y] = {}
             /\ y # n => /\ Up(y)' <=> Up(y)
                         /\ backlog'[y] = backlog[y]
                         /\ peers'[y] = peers[y] \/ (y = victim /\ peers'[y] = peers[y] \ {n})
  BY <1>0 DEF Up
<1>2. ChurnTypeOK'
  <2>1. backlog' \in [Node -> SUBSET Node] /\ status' \in [Node -> {"new", "up", "dead"}]
    BY <1>0
  <2> QED BY <2>1 DEF ChurnTypeOK
<1>3. ASSUME NEW x \in Node, NEW y \in Node, wire'[<<x, y>>] # <<>>
      PROVE  Up(y)' /\ HasEnd(y, x)'
  <2>1. y # n /\ w[<<x, y>>] # <<>>
    <3>1. \A u, v \in Node :
            CloseEnds(w, n)[<<u, v>>] # <<>> => v # n /\ w[<<u, v>>] # <<>>
      BY ClosedReadable
    <3>2. CloseEnds(w, n)[<<x, y>>] # <<>>
      BY <1>3
    <3> QED BY <3>1, <3>2
  <2>2. Up(y) /\ HasEnd(y, x)
    BY <2>1
  <2>3. CASE peers'[y] = peers[y]
    BY <1>1, <2>1, <2>2, <2>3 DEF HasEnd
  <2>4. CASE y = victim /\ peers'[y] = peers[y] \ {n} /\ peers'[y] # peers[y]
    <3>1. w[<<n, victim>>] = <<>>
      BY <1>0, <2>1, <2>4
    <3>2. x # n
      BY <2>1, <2>4, <3>1
    <3> QED BY <1>1, <2>1, <2>2, <2>4, <3>2 DEF HasEnd
  <2> QED BY <1>1, <2>1, <2>3, <2>4
<1>4. ASSUME NEW y \in Node PROVE Cardinality(peers'[y]) <= MaxPeers
  <2>1. CASE peers'[y] \in SUBSET peers[y]
    BY <2>1, FewPeers
  <2>2. peers'[y] \in SUBSET peers[y]
    BY <1>1
  <2> QED BY <2>1, <2>2
<1>5. ReaderIsThere'
  BY <1>3, <1>4 DEF ReaderIsThere
<1>6. OnlyUpHasEnds'
  <2>1. ASSUME NEW y \in Node, peers'[y] # {} \/ backlog'[y] # {}
        PROVE  Up(y)'
    <3>1. y # n /\ (peers[y] # {} \/ backlog[y] # {})
      BY <1>1, <2>1
    <3>2. Up(y)
      BY <3>1 DEF ChurnInv, OnlyUpHasEnds
    <3> QED BY <1>1, <3>1, <3>2
  <2> QED BY <2>1 DEF OnlyUpHasEnds
<1> QED BY <1>2, <1>5, <1>6 DEF ChurnInv

\* A process ends between two handlers.
LEMMA StopStep ==
    ASSUME ChurnInv, NEW n \in Node, Stop(n)
    PROVE  ChurnInv'
<1>0. /\ FloodTypeOK /\ wire \in WireType
      /\ peers \in [Node -> SUBSET Node]
  BY ChurnTypes
<1>1. /\ status' = [status EXCEPT ![n] = "dead"]
      /\ peers' = [peers EXCEPT ![n] = {}]
      /\ backlog' = [backlog EXCEPT ![n] = {}]
      /\ wire' = CloseEnds(wire, n)
      /\ UNCHANGED <<seen, stats, origin, accepted, forwarded>>
  BY DEF Stop
<1>2. FloodTypeOK'
  <2>1. wire' \in WireType
    BY <1>0, <1>1, ClosedReadable
  <2>2. peers' \in [Node -> SUBSET Node]
    BY <1>0, <1>1
  <2> QED BY <1>0, <1>1, <2>1, <2>2 DEF FloodTypeOK, WireType
<1>3. \A x, y \in Node : wire[<<x, y>>] # <<>> => Up(y) /\ HasEnd(y, x)
  BY DEF ChurnInv, ReaderIsThere
<1> QED BY <1>0, <1>1, <1>2, <1>3, DeathStep

(* One end is closed, with nothing left to read (Hangup) or with what was  *)
(* left to read lost (Misread).                                            *)
LEMMA CloseStep ==
    ASSUME ChurnInv, NEW m \in Node, NEW n \in Node, FloodTypeOK',
           peers' = [peers EXCEPT ![n] = @ \ {m}],
           UNCHANGED <<status, backlog>>,
           wire'[<<m, n>>] = <<>>,
           \A x, y \in Node : wire'[<<x, y>>] # <<>> => wire[<<x, y>>] # <<>>
    PROVE  ChurnInv'
<1>0. /\ status \in [Node -> {"new", "up", "dead"}]
      /\ backlog \in [Node -> SUBSET Node]
      /\ peers \in [Node -> SUBSET Node]
  BY ChurnTypes
<1>1. \A y \in Node : /\ peers'[y] = IF y = n THEN peers[y] \ {m} ELSE peers[y]
                      /\ Up(y)' <=> Up(y)
  BY <1>0 DEF Up
<1>2. ChurnTypeOK'
  BY <1>0 DEF ChurnTypeOK
<1>3. ASSUME NEW x \in Node, NEW y \in Node, wire'[<<x, y>>] # <<>>
      PROVE  Up(y)' /\ HasEnd(y, x)'
  <2>1. wire[<<x, y>>] # <<>> /\ ~(x = m /\ y = n)
    BY <1>3
  <2>2. Up(y) /\ HasEnd(y, x)
    BY <2>1 DEF ChurnInv, ReaderIsThere
  <2>3. backlog' = backlog /\ (x \in peers[y] => x \in peers'[y])
    BY <1>1, <2>1
  <2> QED BY <1>1, <2>2, <2>3 DEF HasEnd
<1>4. ASSUME NEW y \in Node PROVE Cardinality(peers'[y]) <= MaxPeers
  <2>1. peers'[y] \in SUBSET peers[y]
    BY <1>1
  <2> QED BY <2>1, FewPeers
<1>5. ReaderIsThere'
  BY <1>3, <1>4 DEF ReaderIsThere
<1>6. OnlyUpHasEnds'
  BY <1>1 DEF ChurnInv, OnlyUpHasEnds
<1> QED BY <1>2, <1>5, <1>6 DEF ChurnInv

\* End-of-file.
LEMMA HangupStep ==
    ASSUME ChurnInv, NEW n \in Node, NEW x \in Node, Hangup(n, x)
    PROVE  ChurnInv'
<1>0. FloodTypeOK /\ peers \in [Node -> SUBSET Node]
  BY ChurnTypes
<1>1. /\ wire[<<x, n>>] = <<>>
      /\ peers' = [peers EXCEPT ![n] = @ \ {x}]
      /\ UNCHANGED <<wire, seen, stats, origin, accepted, forwarded, status, backlog>>
  BY DEF Hangup
<1>2. FloodTypeOK'
  <2>1. peers' \in [Node -> SUBSET Node]
    BY <1>0, <1>1
  <2> QED BY <1>0, <1>1, <2>1 DEF FloodTypeOK
<1> QED BY <1>1, <1>2, CloseStep

\* What is on the wire is lost with its connection.
LEMMA MisreadStep ==
    ASSUME ChurnInv, NEW m \in Node, NEW n \in Node, Misread(m, n)
    PROVE  ChurnInv'
<1>0. /\ FloodTypeOK /\ peers \in [Node -> SUBSET Node] /\ wire \in WireType
  BY ChurnTypes
<1>1. /\ wire' = [wire EXCEPT ![<<m, n>>] = <<>>]
      /\ peers' = [peers EXCEPT ![n] = @ \ {m}]
      /\ UNCHANGED <<seen, stats, origin, accepted, forwarded, status, backlog>>
  BY DEF Misread
<1>2. <<m, n>> \in Conn /\ <<>> \in Seq(Frame)
  BY DEF Conn
<1>3. wire'[<<m, n>>] = <<>> /\ wire' \in WireType
  BY <1>0, <1>1, <1>2 DEF WireType
<1>4. ASSUME NEW x \in Node, NEW y \in Node, wire'[<<x, y>>] # <<>>
      PROVE  wire[<<x, y>>] # <<>>
  <2>1. <<x, y>> \in Conn
    BY DEF Conn
  <2> QED BY <1>0, <1>1, <1>4, <2>1 DEF WireType
<1>5. FloodTypeOK'
  <2>1. peers' \in [Node -> SUBSET Node]
    BY <1>0, <1>1
  <2> QED BY <1>0, <1>1, <1>3, <2>1 DEF FloodTypeOK, WireType
<1> QED BY <1>1, <1>3, <1>4, <1>5, CloseStep

(* What a process writes to peers that are there can be read.              *)
LEMMA ThereReadable ==
    ASSUME ChurnInv, NEW n \in Node, NEW w \in WireType, NEW frame \in Frame,
           NEW to \in SUBSET Node, \A x \in to : ~Gone(n, x),
           \A x, y \in Node : w[<<x, y>>] # <<>> => wire[<<x, y>>] # <<>>
    PROVE  /\ SendToAll(w, n, frame, to) \in WireType
           /\ \A x, y \in Node :
                SendToAll(w, n, frame, to)[<<x, y>>] # <<>> => Up(y) /\ HasEnd(y, x)
<1>1. /\ SendToAll(w, n, frame, to) \in WireType
      /\ \A x, y \in Node :
           SendToAll(w, n, frame, to)[<<x, y>>] # <<>> =>
             w[<<x, y>>] # <<>> \/ (x = n /\ y \in to)
  BY SentReadable
<1>2. \A x, y \in Node : wire[<<x, y>>] # <<>> => Up(y) /\ HasEnd(y, x)
  BY DEF ChurnInv, ReaderIsThere
<1>3. \A y \in Node : y \in to => Up(y) /\ HasEnd(y, n)
  BY DEF ChurnInv, OnlyUpHasEnds, Gone, HasEnd
<1> QED BY <1>1, <1>2, <1>3

\* A broadcast of the process's own packet that comes to its end.
LEMMA ChurnSendStep ==
    ASSUME ChurnInv, NEW n \in Node, NEW p \in Packet, ChurnSend(n, p)
    PROVE  ChurnInv'
<1> DEFINE frame == [id |-> p, ttl |-> DefaultTtl[n]]
<1>0. FloodTypeOK /\ wire \in WireType /\ peers[n] \in SUBSET Node
  BY ChurnTypes
<1>1. /\ Send(n, p) /\ UNCHANGED <<status, backlog>>
      /\ \A x \in peers[n] : ~Gone(n, x)
      /\ wire' = SendToAll(wire, n, frame, peers[n])
      /\ UNCHANGED peers
  BY DEF ChurnSend, AllThere, Send
<1>2. FloodTypeOK'
  BY <1>0, <1>1, TypeStep DEF FloodNext
<1>3. frame \in Frame
  BY FloodAssumption DEF Frame
<1> HIDE DEF frame
<1>4. \A x, y \in Node : wire'[<<x, y>>] # <<>> => Up(y) /\ HasEnd(y, x)
  BY <1>0, <1>1, <1>3, ThereReadable
<1> QED BY <1>1, <1>2, <1>4, SameEnds

\* A frame is read, and its packet passed on or not.
LEMMA ChurnReceiveStep ==
    ASSUME ChurnInv, NEW m \in Node, NEW n \in Node, ChurnReceive(m, n)
    PROVE  ChurnInv'
<1> DEFINE f == NextFrame(m, n)
           w == Taken(m, n)
<1>0. /\ FloodTypeOK /\ wire \in WireType /\ peers[n] \in SUBSET Node
      /\ \A x, y \in Node : wire[<<x, y>>] # <<>> => Up(y) /\ HasEnd(y, x)
  BY ChurnTypes DEF ChurnInv, ReaderIsThere
<1>1. /\ Receive(m, n) /\ UNCHANGED <<status, backlog>> /\ UNCHANGED peers
      /\ wire[<<m, n>>] # <<>>
  BY DEF ChurnReceive, Receive, ReceiveSeen, ReceiveNew, Incoming
<1>2. FloodTypeOK'
  BY <1>0, <1>1, TypeStep DEF FloodNext
<1>3. /\ w \in WireType
      /\ \A x, y \in Node : w[<<x, y>>] # <<>> => wire[<<x, y>>] # <<>>
  BY <1>1, TakenReadable
<1>4. f \in Frame
  BY <1>0, <1>1, TakenFrames
<1>5. \/ wire' = w
      \/ /\ WillRelay(n, f)
         /\ \A x \in peers[n] \ {m} : ~Gone(n, x)
         /\ wire' = SendToAll(w, n, Hop(f), peers[n] \ {m})
  BY DEF ChurnReceive, ReceiveSeen, ReceiveNew, AllThere
<1> HIDE DEF f, w
<1>6. \A x, y \in Node : wire'[<<x, y>>] # <<>> => Up(y) /\ HasEnd(y, x)
  <2>1. CASE wire' = w
    BY <1>0, <1>3, <2>1
  <2>2. CASE /\ WillRelay(n, f)
             /\ \A x \in peers[n] \ {m} : ~Gone(n, x)
             /\ wire' = SendToAll(w, n, Hop(f), peers[n] \ {m})
    <3>1. Hop(f) \in Frame
      BY <1>4, <2>2, HopFrame
    <3>2. peers[n] \ {m} \in SUBSET Node
      BY <1>0
    <3>3. \A x, y \in Node :
            SendToAll(w, n, Hop(f), peers[n] \ {m})[<<x, y>>] # <<>> => Up(y) /\ HasEnd(y, x)
      BY <1>3, <2>2, <3>1, <3>2, ThereReadable
    <3> QED BY <2>2, <3>3
  <2> QED BY <1>5, <2>1, <2>2
<1> QED BY <1>1, <1>2, <1>6, SameEnds

(* SIGPIPE in the middle of a broadcast: only peers that are there have    *)
(* been served.                                                            *)
LEMMA SigpipeStep ==
    ASSUME ChurnInv, NEW n \in Node, NEW w \in WireType, NEW frame \in Frame,
           NEW to \in SUBSET Node, Sigpipe(n, w, frame, to),
           \A x, y \in Node : w[<<x, y>>] # <<>> => wire[<<x, y>>] # <<>>,
           seen' \in [Node -> SUBSET Packet],
           stats' \in [Node -> Counters],
           origin' \in [Packet -> Node \cup {NoNode}],
           accepted' \in [Node -> [Packet -> Nat]],
           forwarded' \in [Node -> SUBSET Packet]
    PROVE  ChurnInv'
<1>0. peers \in [Node -> SUBSET Node]
  BY ChurnTypes
<1>1. PICK victim \in to, served \in SUBSET to :
        /\ \A x \in served : ~Gone(n, x) /\ x # victim
        /\ \/ peers' = [peers EXCEPT ![n] = {}]
           \/ /\ wire[<<n, victim>>] = <<>>
              /\ peers' = [peers EXCEPT ![n] = {}, ![victim] = @ \ {n}]
        /\ wire' = CloseEnds(SendToAll(w, n, frame, served), n)
        /\ status' = [status EXCEPT ![n] = "dead"]
        /\ backlog' = [backlog EXCEPT ![n] = {}]
  BY DEF Sigpipe
<1> DEFINE v == SendToAll(w, n, frame, served)
<1>2. victim \in Node /\ served \in SUBSET Node /\ \A x \in served : ~Gone(n, x)
  BY <1>1
<1>3. /\ v \in WireType
      /\ \A x, y \in Node : v[<<x, y>>] # <<>> => Up(y) /\ HasEnd(y, x)
  BY <1>2, ThereReadable
<1>4. wire[<<n, victim>>] = <<>> => v[<<n, victim>>] = <<>>
  <2>1. /\ v \in WireType
        /\ \A x, y \in Node :
             v[<<x, y>>] # <<>> => w[<<x, y>>] # <<>> \/ (x = n /\ y \in served)
    <3>1. served \in SUBSET Node
      BY <1>2
    <3> HIDE DEF v
    <3> QED BY <3>1, SentReadable DEF v
  <2> HIDE DEF v
  <2>2. v[<<n, victim>>] # <<>> => w[<<n, victim>>] # <<>> \/ victim \in served
    BY <1>2, <2>1
  <2>3. w[<<n, victim>>] # <<>> => wire[<<n, victim>>] # <<>>
    BY <1>2
  <2> QED BY <1>1, <2>2, <2>3
<1> HIDE DEF v
<1>5. FloodTypeOK'
  <2>1. wire' \in WireType
    BY <1>1, <1>3, ClosedReadable DEF v
  <2>2. peers' \in [Node -> SUBSET Node]
    <3>1. [peers EXCEPT ![n] = {}] \in [Node -> SUBSET Node]
      BY <1>0
    <3>2. [peers EXCEPT ![n] = {}, ![victim] = @ \ {n}] \in [Node -> SUBSET Node]
      BY <1>0, <1>2
    <3> QED BY <1>1, <3>1, <3>2
  <2> QED BY <2>1, <2>2 DEF FloodTypeOK, WireType
<1>6. wire' = CloseEnds(v, n)
  BY <1>1 DEF v
<1>7. \/ peers' = [peers EXCEPT ![n] = {}]
      \/ /\ peers' = [peers EXCEPT ![n] = {}, ![victim] = @ \ {n}]
         /\ v[<<n, victim>>] = <<>>
  BY <1>1, <1>4
<1> QED BY <1>1, <1>2, <1>3, <1>5, <1>6, <1>7, DeathStep

\* A process is killed while it sends its own packet.
LEMMA KilledSendingStep ==
    ASSUME ChurnInv, NEW n \in Node, NEW p \in Packet, KilledSending(n, p)
    PROVE  ChurnInv'
<1> DEFINE frame == [id |-> p, ttl |-> DefaultTtl[n]]
<1>0. FloodTypeOK /\ wire \in WireType /\ peers[n] \in SUBSET Node
  BY ChurnTypes
<1>1. /\ seen' \in [Node -> SUBSET Packet]
      /\ stats' \in [Node -> Counters]
      /\ origin' \in [Packet -> Node \cup {NoNode}]
      /\ accepted' \in [Node -> [Packet -> Nat]]
      /\ forwarded' \in [Node -> SUBSET Packet]
  BY <1>0 DEF KilledSending, FloodTypeOK, Mark, Accepted
<1>2. Sigpipe(n, wire, frame, peers[n])
  BY DEF KilledSending
<1>3. frame \in Frame
  BY FloodAssumption DEF Frame
<1> HIDE DEF frame
<1> QED BY <1>0, <1>1, <1>2, <1>3, SigpipeStep

\* A process is killed while it relays.
LEMMA KilledRelayingStep ==
    ASSUME ChurnInv, NEW m \in Node, NEW n \in Node, KilledRelaying(m, n)
    PROVE  ChurnInv'
<1> DEFINE f == NextFrame(m, n)
           w == Taken(m, n)
           to == peers[n] \ {m}
<1>0. FloodTypeOK /\ wire \in WireType /\ to \in SUBSET Node
  BY ChurnTypes
<1>1. /\ wire[<<m, n>>] # <<>> /\ WillRelay(n, f)
      /\ seen' = Mark(n, f.id)
      /\ stats' = Count(stats, n, "received")
      /\ accepted' = Accepted(n, f.id)
      /\ Sigpipe(n, w, Hop(f), to)
      /\ UNCHANGED <<origin, forwarded>>
  BY DEF KilledRelaying, Incoming
<1>2. /\ w \in WireType
      /\ \A x, y \in Node : w[<<x, y>>] # <<>> => wire[<<x, y>>] # <<>>
  BY <1>1, TakenReadable
<1>3. PICK p \in Packet : p = f.id
  <2>1. f \in Frame
    BY <1>0, <1>1, TakenFrames
  <2> QED BY <2>1 DEF Frame
<1>4. Hop(f) \in Frame
  <2>1. f \in Frame
    BY <1>0, <1>1, TakenFrames
  <2> QED BY <1>1, <2>1, HopFrame
<1> HIDE DEF f, w, to
<1>5. /\ seen' \in [Node -> SUBSET Packet]
      /\ accepted' \in [Node -> [Packet -> Nat]]
      /\ origin' \in [Packet -> Node \cup {NoNode}]
      /\ forwarded' \in [Node -> SUBSET Packet]
  BY <1>0, <1>1, <1>3 DEF FloodTypeOK, Mark, Accepted
<1>6. stats' \in [Node -> Counters]
  <2>1. stats \in [Node -> Counters]
    BY <1>0 DEF FloodTypeOK
  <2>2. stats[n] \in Counters
    BY <2>1
  <2>3. [stats[n] EXCEPT !.received = @ + 1] \in Counters
    BY <2>2 DEF Counters
  <2> QED BY <1>1, <2>1, <2>3 DEF Count
<1> QED BY <1>0, <1>1, <1>2, <1>4, <1>5, <1>6, SigpipeStep

\* The cache of a process loses an id.
LEMMA ForgetStep ==
    ASSUME ChurnInv, NEW n \in Node, NEW p \in Packet, Forget(n, p)
    PROVE  ChurnInv'
<1>0. FloodTypeOK
  BY ChurnTypes
<1>1. /\ seen' = [seen EXCEPT ![n] = @ \ {p}]
      /\ UNCHANGED <<peers, wire, stats, origin, accepted, forwarded, status, backlog>>
  BY DEF Forget
<1>2. FloodTypeOK'
  BY <1>0, <1>1 DEF FloodTypeOK
<1>3. \A x, y \in Node : wire'[<<x, y>>] # <<>> => Up(y) /\ HasEnd(y, x)
  BY <1>1 DEF ChurnInv, ReaderIsThere
<1> QED BY <1>1, <1>2, <1>3, SameEnds

(***************************************************************************)
(* What a step is to the packets: frames are lost and ids forgotten, or a  *)
(* packet is sent, or taken for new and relayed.  Whatever else happens to *)
(* the processes and connections, there is nothing more to know for how    *)
(* often and how far a packet comes.                                       *)
(***************************************************************************)
Fades ==
    /\ UNCHANGED <<origin, accepted>>
    /\ \A n \in Node : seen'[n] \subseteq seen[n]
    /\ "forget" \in Faults \/ UNCHANGED seen
    /\ \A x, y \in Node : On(wire', x, y) \subseteq On(wire, x, y)

\* Every frame was on its wire before, but for those from n, which are frame.
OnlyFrom(n, frame) ==
    \A x, y \in Node : \A g \in On(wire', x, y) :
      g \in On(wire, x, y) \/ (x = n /\ y \in peers[n] /\ g = frame)

Sends(n, p) ==
    /\ ~Sent(p)
    /\ origin' = [origin EXCEPT ![p] = n]
    /\ seen' = Mark(n, p)
    /\ accepted' = Accepted(n, p)
    /\ OnlyFrom(n, [id |-> p, ttl |-> DefaultTtl[n]])

Takes(m, n, f) ==
    /\ f \in Frame
    /\ f \in On(wire, m, n)
    /\ f.id \notin seen[n]
    /\ UNCHANGED origin
    /\ seen' = Mark(n, f.id)
    /\ accepted' = Accepted(n, f.id)
    /\ \/ \A x, y \in Node : On(wire', x, y) \subseteq On(wire, x, y)
       \/ WillRelay(n, f) /\ OnlyFrom(n, Hop(f))

\* Closing the ends of a process adds no frame.
LEMMA ClosedFrames ==
    ASSUME NEW w, NEW n \in Node, NEW x \in Node, NEW y \in Node
    PROVE  On(CloseEnds(w, n), x, y) \subseteq On(w, x, y)
<1>1. <<x, y>> \in Conn
  BY DEF Conn
<1>2. CASE y = n
  <2>1. CloseEnds(w, n)[<<x, y>>] = <<>>
    BY <1>1, <1>2 DEF CloseEnds
  <2>2. On(CloseEnds(w, n), x, y) = {}
    BY <2>1 DEF On
  <2> QED BY <2>2
<1>3. CASE y # n
  <2>1. CloseEnds(w, n)[<<x, y>>] = w[<<x, y>>]
    BY <1>1, <1>3 DEF CloseEnds
  <2> QED BY <2>1 DEF On
<1> QED BY <1>2, <1>3

\* Nor does a broadcast that kills, but for the frame it is about.
LEMMA SigpipeFrames ==
    ASSUME NEW w \in WireType, NEW n \in Node, NEW frame \in Frame,
           NEW to \in SUBSET peers[n], peers[n] \in SUBSET Node,
           Sigpipe(n, w, frame, to),
           \A x, y \in Node : On(w, x, y) \subseteq On(wire, x, y)
    PROVE  OnlyFrom(n, frame)
<1>1. PICK served \in SUBSET to : wire' = CloseEnds(SendToAll(w, n, frame, served), n)
  BY DEF Sigpipe
<1>2. served \in SUBSET Node /\ served \in SUBSET peers[n]
  BY <1>1
<1> SUFFICES ASSUME NEW x \in Node, NEW y \in Node, NEW g \in On(wire', x, y)
             PROVE  g \in On(wire, x, y) \/ (x = n /\ y \in peers[n] /\ g = frame)
  BY DEF OnlyFrom
<1>3. g \in On(SendToAll(w, n, frame, served), x, y)
  <2> DEFINE v == SendToAll(w, n, frame, served)
  <2> HIDE DEF v
  <2>1. On(CloseEnds(v, n), x, y) \subseteq On(v, x, y)
    BY ClosedFrames
  <2>2. g \in On(CloseEnds(v, n), x, y)
    BY <1>1 DEF v
  <2> QED BY <2>1, <2>2 DEF v
<1>4. g \in On(w, x, y) \/ (x = n /\ y \in served /\ g = frame)
  BY <1>2, <1>3, SentFrames
<1> QED BY <1>2, <1>4

\* What connects, ends, loses and forgets.
LEMMA FadingSteps ==
    ASSUME ChurnInv, NEW m \in Node, NEW n \in Node,
           \/ Start(n) \/ Stop(n) \/ (\E p \in Packet : Forget(n, p))
           \/ Accept(n, m) \/ Hangup(n, m) \/ Misread(m, n)
           \/ ReceiveSeen(m, n)
    PROVE  Fades
<1>0. wire \in WireType /\ seen \in [Node -> SUBSET Packet]
  BY ChurnTypes DEF FloodTypeOK
<1>1. CASE Start(n) \/ Hangup(n, m)
  BY <1>1 DEF Start, Hangup, Fades
<1>2. CASE \E p \in Packet : Forget(n, p)
  BY <1>0, <1>2 DEF Forget, Fades
<1>3. CASE Stop(n)
  <2>1. \A x, y \in Node : On(wire', x, y) \subseteq On(wire, x, y)
    BY <1>3, ClosedFrames DEF Stop
  <2> QED BY <1>3, <2>1 DEF Stop, Fades
<1>4. CASE Accept(n, m)
  <2>1. ASSUME NEW x \in Node, NEW y \in Node
        PROVE  On(wire', x, y) \subseteq On(wire, x, y)
    <3>1. <<x, y>> \in Conn /\ <<m, n>> \in Conn
      BY DEF Conn
    <3>2. wire'[<<x, y>>] = wire[<<x, y>>] \/ wire'[<<x, y>>] = <<>>
      BY <1>0, <1>4, <3>1 DEF Accept, WireType
    <3> QED BY <3>2 DEF On
  <2> QED BY <1>4, <2>1 DEF Accept, Fades
<1>5. CASE ReceiveSeen(m, n)
  <2>1. wire' = Taken(m, n) /\ UNCHANGED <<seen, origin, accepted>>
    BY <1>5 DEF ReceiveSeen
  <2>2. wire[<<m, n>>] # <<>>
    BY <1>5 DEF ReceiveSeen, Incoming
  <2>3. \A x, y \in Node : On(wire', x, y) \subseteq On(wire, x, y)
    BY <1>0, <2>1, <2>2, TakenFrames
  <2> QED BY <2>1, <2>3 DEF Fades
<1>6. CASE Misread(m, n)
  <2>1. ASSUME NEW x \in Node, NEW y \in Node
        PROVE  On(wire', x, y) \subseteq On(wire, x, y)
    <3>1. <<x, y>> \in Conn /\ <<m, n>> \in Conn
      BY DEF Conn
    <3>2. wire'[<<x, y>>] = wire[<<x, y>>] \/ wire'[<<x, y>>] = <<>>
      BY <1>0, <1>6, <3>1 DEF Misread, WireType
    <3> QED BY <3>2 DEF On
  <2> QED BY <1>6, <2>1 DEF Misread, Fades
<1> QED BY <1>1, <1>2, <1>3, <1>4, <1>5, <1>6

\* A packet is sent, by a process that survives it or not.
LEMMA SendingSteps ==
    ASSUME ChurnInv, NEW n \in Node, NEW p \in Packet,
           ChurnSend(n, p) \/ KilledSending(n, p)
    PROVE  Sends(n, p)
<1> DEFINE frame == [id |-> p, ttl |-> DefaultTtl[n]]
<1>0. wire \in WireType /\ peers[n] \in SUBSET Node
  BY ChurnTypes
<1>1. frame \in Frame
  BY FloodAssumption DEF Frame
<1>2. OnlyFrom(n, frame)
  <2>1. CASE ChurnSend(n, p)
    <3>1. wire' = SendToAll(wire, n, frame, peers[n])
      BY <2>1 DEF ChurnSend, Send
    <3> HIDE DEF frame
    <3> QED BY <1>0, <1>1, <3>1, SentFrames DEF OnlyFrom
  <2>2. CASE KilledSending(n, p)
    <3>1. Sigpipe(n, wire, frame, peers[n])
      BY <2>2 DEF KilledSending
    <3>2. \A x, y \in Node : On(wire, x, y) \subseteq On(wire, x, y)
      OBVIOUS
    <3> HIDE DEF frame
    <3> QED BY <1>0, <1>1, <3>1, <3>2, SigpipeFrames
  <2> QED BY <2>1, <2>2
<1> QED BY <1>2 DEF Sends, ChurnSend, Send, KilledSending, Sent

\* A packet is taken for new, and relayed to all, to some or not at all.
LEMMA TakingSteps ==
    ASSUME ChurnInv, NEW m \in Node, NEW n \in Node,
           \/ UNCHANGED peers /\ ReceiveNew(m, n)
           \/ KilledRelaying(m, n)
    PROVE  Takes(m, n, NextFrame(m, n))
<1> DEFINE f == NextFrame(m, n)
           w == Taken(m, n)
<1>0. wire \in WireType /\ peers[n] \in SUBSET Node /\ peers[n] \ {m} \in SUBSET peers[n]
  BY ChurnTypes
<1>1. /\ wire[<<m, n>>] # <<>>
      /\ f.id \notin seen[n]
      /\ UNCHANGED origin
      /\ seen' = Mark(n, f.id)
      /\ accepted' = Accepted(n, f.id)
  BY DEF ReceiveNew, KilledRelaying, Incoming
<1>2. /\ f \in Frame /\ f \in On(wire, m, n)
      /\ w \in WireType
      /\ \A x, y \in Node : On(w, x, y) \subseteq On(wire, x, y)
  BY <1>0, <1>1, TakenFrames
<1>3. \/ wire' = w
      \/ WillRelay(n, f) /\ wire' = SendToAll(w, n, Hop(f), peers[n] \ {m})
      \/ WillRelay(n, f) /\ Sigpipe(n, w, Hop(f), peers[n] \ {m})
  BY DEF ReceiveNew, KilledRelaying
<1> HIDE DEF f, w
<1>4. WillRelay(n, f) => Hop(f) \in Frame
  BY <1>2, HopFrame
<1>5. \/ \A x, y \in Node : On(wire', x, y) \subseteq On(wire, x, y)
      \/ WillRelay(n, f) /\ OnlyFrom(n, Hop(f))
  <2>1. CASE wire' = w
    BY <1>2, <2>1
  <2>2. CASE WillRelay(n, f) /\ wire' = SendToAll(w, n, Hop(f), peers[n] \ {m})
    <3>1. ASSUME NEW x \in Node, NEW y \in Node, NEW g \in On(wire', x, y)
          PROVE  g \in On(wire, x, y) \/ (x = n /\ y \in peers[n] /\ g = Hop(f))
      <4>1. peers[n] \ {m} \in SUBSET Node
        BY <1>0
      <4>2. g \in On(w, x, y) \/ (x = n /\ y \in peers[n] \ {m} /\ g = Hop(f))
        BY <1>2, <1>4, <2>2, <3>1, <4>1, SentFrames
      <4> QED BY <1>2, <4>2
    <3> QED BY <2>2, <3>1 DEF OnlyFrom
  <2>3. CASE WillRelay(n, f) /\ Sigpipe(n, w, Hop(f), peers[n] \ {m})
    BY <1>0, <1>2, <1>4, <2>3, SigpipeFrames
  <2> QED BY <1>3, <2>1, <2>2, <2>3
<1> QED BY <1>1, <1>2, <1>5 DEF Takes, f

(* Every step is one of these.                                             *)
LEMMA StepOfPackets ==
    ASSUME ChurnInv, [ChurnNext]_churnVars
    PROVE  \/ Fades
           \/ \E n \in Node, p \in Packet : Sends(n, p)
           \/ \E m, n \in Node : \E f \in Frame : Takes(m, n, f)
<1>1. ASSUME NEW n \in Node, Start(n) \/ Stop(n) PROVE Fades
  BY <1>1, FadingSteps
<1>2. ASSUME NEW n \in Node, NEW p \in Packet, Forget(n, p) PROVE Fades
  BY <1>2, FadingSteps
<1>3. ASSUME NEW n \in Node, NEW p \in Packet, ChurnSend(n, p) \/ KilledSending(n, p)
      PROVE  Sends(n, p)
  BY <1>3, SendingSteps
<1>4. ASSUME NEW m \in Node, NEW n \in Node,
             Accept(m, n) \/ Hangup(m, n) \/ Misread(m, n)
      PROVE  Fades
  BY <1>4, FadingSteps
<1>5. ASSUME NEW m \in Node, NEW n \in Node, ChurnReceive(m, n) \/ KilledRelaying(m, n)
      PROVE  Fades \/ \E f \in Frame : Takes(m, n, f)
  <2>1. CASE ReceiveSeen(m, n)
    BY <2>1, FadingSteps
  <2>2. CASE ~ReceiveSeen(m, n)
    <3>1. Takes(m, n, NextFrame(m, n))
      BY <1>5, <2>2, TakingSteps DEF ChurnReceive, ReceiveNew
    <3> QED BY <3>1 DEF Takes
  <2> QED BY <2>1, <2>2
<1>6. CASE UNCHANGED churnVars
  BY <1>6 DEF churnVars, floodVars, Fades
<1> QED BY <1>1, <1>2, <1>3, <1>4, <1>5, <1>6 DEF ChurnNext

\* Before anybody starts there are neither ends nor frames.
LEMMA InitChurnInv == ChurnInit => ChurnInv
<1> SUFFICES ASSUME ChurnInit PROVE ChurnInv
  OBVIOUS
<1>1. /\ \A n \in Node : peers[n] = {} /\ backlog[n] = {}
      /\ \A c \in Conn : wire[c] = <<>>
  BY ChurnAssumption DEF ChurnInit, FloodInit
<1>2. FloodTypeOK
  BY InitFloodInv DEF ChurnInit, FloodInv
<1>3. ChurnTypeOK
  BY <1>2 DEF ChurnInit, ChurnTypeOK
<1>4. ReaderIsThere
  <2>1. \A m, n \in Node : wire[<<m, n>>] = <<>>
    BY <1>1 DEF Conn
  <2>2. Cardinality({}) <= MaxPeers
    BY FS_EmptySet, ChurnAssumption
  <2> QED BY <1>1, <2>1, <2>2 DEF ReaderIsThere
<1>5. OnlyUpHasEnds
  BY <1>1 DEF OnlyUpHasEnds
<1> QED BY <1>3, <1>4, <1>5 DEF ChurnInv

\* Every step keeps the invariant.
LEMMA NextChurnInv == ChurnInv /\ [ChurnNext]_churnVars => ChurnInv'
<1> SUFFICES ASSUME ChurnInv, [ChurnNext]_churnVars PROVE ChurnInv'
  OBVIOUS
<1>1. ASSUME NEW n \in Node, Start(n) \/ Stop(n) PROVE ChurnInv'
  BY <1>1, StartStep, StopStep
<1>2. ASSUME NEW n \in Node, NEW p \in Packet,
             ChurnSend(n, p) \/ KilledSending(n, p) \/ Forget(n, p)
      PROVE  ChurnInv'
  BY <1>2, ChurnSendStep, KilledSendingStep, ForgetStep
<1>3. ASSUME NEW m \in Node, NEW n \in Node,
             \/ Accept(m, n) \/ Hangup(m, n) \/ Misread(m, n)
             \/ ChurnReceive(m, n) \/ KilledRelaying(m, n)
      PROVE  ChurnInv'
  BY <1>3, AcceptStep, HangupStep, MisreadStep, ChurnReceiveStep, KilledRelayingStep
<1>4. ASSUME UNCHANGED churnVars PROVE ChurnInv'
  BY <1>4 DEF churnVars, floodVars, ChurnInv, ChurnTypeOK, FloodTypeOK, ReaderIsThere,
              OnlyUpHasEnds, Up, HasEnd
<1> QED BY <1>1, <1>2, <1>3, <1>4 DEF ChurnNext

(***************************************************************************)
(* What is seen or under way has been sent; where nothing is forgotten, the*)
(* count of a packet at a node says whether it is seen.                    *)
(***************************************************************************)
CopiesSent == \A x, y \in Node : \A g \in On(wire, x, y) : g.id \in Packet /\ Sent(g.id)

OnlySent ==
    /\ \A n \in Node, p \in Packet : p \in seen[n] => Sent(p)
    /\ CopiesSent

OnceInv == "forget" \in Faults \/ AcceptedOnce

\* The packets a step leaves alone.
LEMMA SendsOne ==
    ASSUME ChurnInv, OnlySent, NEW n \in Node, NEW p \in Packet, Sends(n, p)
    PROVE  /\ origin'[p] = n /\ Sent(p)' /\ ~Sent(p)
           /\ \A q \in Packet : q # p => origin'[q] = origin[q] /\ (Sent(q)' <=> Sent(q))
           /\ \A x \in Node, q \in Packet : q \in seen'[x] <=> q \in seen[x] \/ (x = n /\ q = p)
           /\ \A x \in Node : p \notin seen[x]
<1>0. FloodTypeOK /\ origin \in [Packet -> Node \cup {NoNode}]
  BY ChurnTypes DEF FloodTypeOK
<1>1. origin'[p] = n /\ \A q \in Packet : q # p => origin'[q] = origin[q]
  BY <1>0 DEF Sends
<1>2. n # NoNode
  BY FloodAssumption
<1>3. \A x \in Node, q \in Packet : q \in seen'[x] <=> q \in seen[x] \/ (x = n /\ q = p)
  BY <1>0, MarkCounts DEF Sends
<1> QED BY <1>1, <1>2, <1>3 DEF Sends, Sent, OnlySent

LEMMA TakesOne ==
    ASSUME ChurnInv, OnlySent, NEW m \in Node, NEW n \in Node, NEW f \in Frame, Takes(m, n, f)
    PROVE  /\ f.id \in Packet /\ f.ttl \in 0 .. 255 /\ Sent(f.id)
           /\ UNCHANGED origin /\ \A q \in Packet : Sent(q)' <=> Sent(q)
           /\ \A x \in Node, q \in Packet :
                q \in seen'[x] <=> q \in seen[x] \/ (x = n /\ q = f.id)
           /\ WillRelay(n, f) => Hop(f).id = f.id /\ Hop(f).ttl = f.ttl - 1
<1>1. f.id \in Packet /\ f.ttl \in 0 .. 255
  BY DEF Frame
<1>2. FloodTypeOK
  BY ChurnTypes
<1>3. \A x \in Node, q \in Packet : q \in seen'[x] <=> q \in seen[x] \/ (x = n /\ q = f.id)
  BY <1>1, <1>2, MarkCounts DEF Takes
<1>4. Sent(f.id)
  BY DEF Takes, OnlySent, CopiesSent
<1>5. WillRelay(n, f) => Hop(f).id = f.id /\ Hop(f).ttl = f.ttl - 1
  BY HopFrame
<1> QED BY <1>1, <1>3, <1>4, <1>5 DEF Takes, Sent

LEMMA NextOnlySent ==
    ASSUME ChurnInv, OnlySent, [ChurnNext]_churnVars
    PROVE  OnlySent'
<1>1. CASE Fades
  <2>1. \A q : Sent(q)' <=> Sent(q)
    BY <1>1 DEF Fades, Sent
  <2> QED BY <1>1, <2>1 DEF Fades, OnlySent, CopiesSent
<1>2. ASSUME NEW n \in Node, NEW p \in Packet, Sends(n, p) PROVE OnlySent'
  <2>1. /\ Sent(p)' /\ \A q \in Packet : Sent(q) => Sent(q)'
        /\ \A x \in Node, q \in Packet : q \in seen'[x] <=> q \in seen[x] \/ (x = n /\ q = p)
    BY <1>2, SendsOne
  <2>2. CopiesSent'
    <3> SUFFICES ASSUME NEW x \in Node, NEW y \in Node, NEW g \in On(wire', x, y)
                 PROVE  g.id \in Packet /\ Sent(g.id)'
      BY DEF CopiesSent
    <3>1. g \in On(wire, x, y) \/ g.id = p
      BY <1>2 DEF Sends, OnlyFrom
    <3> QED BY <2>1, <3>1 DEF OnlySent, CopiesSent
  <2> QED BY <2>1, <2>2 DEF OnlySent
<1>3. ASSUME NEW m \in Node, NEW n \in Node, NEW f \in Frame, Takes(m, n, f) PROVE OnlySent'
  <2>1. /\ f.id \in Packet /\ Sent(f.id) /\ \A q \in Packet : Sent(q)' <=> Sent(q)
        /\ \A x \in Node, q \in Packet : q \in seen'[x] <=> q \in seen[x] \/ (x = n /\ q = f.id)
        /\ WillRelay(n, f) => Hop(f).id = f.id
    BY <1>3, TakesOne
  <2>2. CopiesSent'
    <3> SUFFICES ASSUME NEW x \in Node, NEW y \in Node, NEW g \in On(wire', x, y)
                 PROVE  g.id \in Packet /\ Sent(g.id)'
      BY DEF CopiesSent
    <3>1. g \in On(wire, x, y) \/ g.id = f.id
      BY <1>3, <2>1 DEF Takes, OnlyFrom
    <3> QED BY <2>1, <3>1 DEF OnlySent, CopiesSent
  <2> QED BY <2>1, <2>2 DEF OnlySent
<1> QED BY <1>1, <1>2, <1>3, StepOfPackets

LEMMA NextOnce ==
    ASSUME ChurnInv, OnlySent, OnceInv, [ChurnNext]_churnVars
    PROVE  OnceInv'
<1> SUFFICES ASSUME "forget" \notin Faults PROVE AcceptedOnce'
  BY DEF OnceInv
<1>0. AcceptedOnce /\ accepted \in [Node -> [Packet -> Nat]]
  BY ChurnTypes DEF OnceInv, FloodTypeOK
<1>1. CASE Fades
  BY <1>0, <1>1 DEF Fades, AcceptedOnce
<1>2. ASSUME NEW n \in Node, NEW p \in Packet, accepted' = Accepted(n, p), p \notin seen[n],
             \A x \in Node, q \in Packet : q \in seen'[x] <=> q \in seen[x] \/ (x = n /\ q = p)
      PROVE  AcceptedOnce'
  <2>1. \A x \in Node, q \in Packet :
          accepted'[x][q] = IF x = n /\ q = p THEN accepted[n][p] + 1 ELSE accepted[x][q]
    BY <1>0, <1>2 DEF Accepted
  <2>2. accepted[n][p] = 0
    BY <1>0, <1>2 DEF AcceptedOnce
  <2> QED BY <1>0, <1>2, <2>1, <2>2 DEF AcceptedOnce
<1>3. ASSUME NEW n \in Node, NEW p \in Packet, Sends(n, p) PROVE AcceptedOnce'
  <2>1. /\ p \notin seen[n]
        /\ \A x \in Node, q \in Packet : q \in seen'[x] <=> q \in seen[x] \/ (x = n /\ q = p)
    BY <1>3, SendsOne
  <2>2. accepted' = Accepted(n, p)
    BY <1>3 DEF Sends
  <2> QED BY <1>2, <2>1, <2>2
<1>4. ASSUME NEW m \in Node, NEW n \in Node, NEW f \in Frame, Takes(m, n, f)
      PROVE  AcceptedOnce'
  <2>1. /\ f.id \in Packet
        /\ \A x \in Node, q \in Packet : q \in seen'[x] <=> q \in seen[x] \/ (x = n /\ q = f.id)
    BY <1>4, TakesOne
  <2>2. accepted' = Accepted(n, f.id) /\ f.id \notin seen[n]
    BY <1>4 DEF Takes
  <2> QED BY <1>2, <2>1, <2>2
<1> QED BY <1>1, <1>3, <1>4, StepOfPackets

(***************************************************************************)
(* How far a packet comes.  Connections come and go among the same links,  *)
(* and a copy that has crossed k of them has lost k of its TTL, whoever    *)
(* has forgotten it in the meantime.                                       *)
(***************************************************************************)
EndsLinked == \A n \in Node : peers[n] \subseteq Links[n] /\ backlog[n] \subseteq Links[n]

OnWay(m, n, f) ==
    \E k \in Nat : /\ WalkOver(Links, origin[f.id], m, k)
                   /\ f.ttl + k = Ttl(f.id)
                   /\ n \in Links[m]
                   /\ k > 0 => m \in Relays /\ f.ttl >= 1

FarInv ==
    /\ EndsLinked
    /\ \A x, y \in Node : \A g \in On(wire, x, y) : OnWay(x, y, g)
    /\ DialledScope

LEMMA NextLinked ==
    ASSUME ChurnInv, EndsLinked, [ChurnNext]_churnVars
    PROVE  EndsLinked'
<1>0. /\ peers \in [Node -> SUBSET Node] /\ backlog \in [Node -> SUBSET Node]
      /\ Dial \in [Node -> SUBSET Node]
  BY ChurnTypes, ChurnAssumption
<1>1. ASSUME NEW n \in Node, Start(n) PROVE EndsLinked'
  <2>1. \A x \in Node : /\ peers'[x] \subseteq peers[x] \cup Dial[x]
                        /\ backlog'[x] \subseteq backlog[x] \cup {y \in Node : x \in Dial[y]}
    BY <1>0, <1>1 DEF Start
  <2> QED BY <2>1 DEF EndsLinked, Links
<1>2. ASSUME \A x \in Node : peers'[x] \subseteq peers[x] \cup backlog[x]
                             /\ backlog'[x] \subseteq backlog[x]
      PROVE  EndsLinked'
  BY <1>2 DEF EndsLinked
<1>3. ASSUME UNCHANGED <<peers, backlog>> PROVE EndsLinked'
  BY <1>3 DEF EndsLinked
<1>4. ASSUME NEW m \in Node, NEW n \in Node, Accept(m, n) \/ Hangup(m, n) \/ Misread(m, n)
      PROVE  EndsLinked'
  <2>1. \A x \in Node : peers'[x] \subseteq peers[x] \cup backlog[x]
                        /\ backlog'[x] \subseteq backlog[x]
    BY <1>0, <1>4 DEF Accept, Hangup, Misread
  <2> QED BY <1>2, <2>1
<1>5. ASSUME NEW n \in Node, Stop(n) PROVE EndsLinked'
  <2>1. \A x \in Node : peers'[x] \subseteq peers[x] \cup backlog[x]
                        /\ backlog'[x] \subseteq backlog[x]
    BY <1>0, <1>5 DEF Stop
  <2> QED BY <1>2, <2>1
<1>6. ASSUME NEW n \in Node, NEW w, NEW frame, NEW to \in SUBSET Node, Sigpipe(n, w, frame, to)
      PROVE  EndsLinked'
  <2>1. PICK victim \in to :
          /\ \/ peers' = [peers EXCEPT ![n] = {}]
             \/ peers' = [peers EXCEPT ![n] = {}, ![victim] = @ \ {n}]
          /\ backlog' = [backlog EXCEPT ![n] = {}]
    BY <1>6 DEF Sigpipe
  <2>2. victim \in Node
    BY <2>1
  <2>3. \A x \in Node : peers'[x] \subseteq peers[x] \cup backlog[x]
                        /\ backlog'[x] \subseteq backlog[x]
    BY <1>0, <2>1, <2>2
  <2> QED BY <1>2, <2>3
<1>7. ASSUME NEW n \in Node, NEW p \in Packet, ChurnSend(n, p) \/ KilledSending(n, p) \/ Forget(n, p)
      PROVE  EndsLinked'
  <2>1. CASE ChurnSend(n, p) \/ Forget(n, p)
    BY <1>3, <2>1 DEF ChurnSend, Send, Forget
  <2>2. CASE KilledSending(n, p)
    BY <1>0, <1>6, <2>2 DEF KilledSending
  <2> QED BY <1>7, <2>1, <2>2
<1>8. ASSUME NEW m \in Node, NEW n \in Node, ChurnReceive(m, n) \/ KilledRelaying(m, n)
      PROVE  EndsLinked'
  <2>1. CASE ChurnReceive(m, n)
    BY <1>3, <2>1 DEF ChurnReceive, ReceiveSeen, ReceiveNew
  <2>2. CASE KilledRelaying(m, n)
    <3>1. Sigpipe(n, Taken(m, n), Hop(NextFrame(m, n)), peers[n] \ {m})
      BY <2>2 DEF KilledRelaying
    <3>2. peers[n] \ {m} \in SUBSET Node
      BY <1>0
    <3> QED BY <1>6, <3>1, <3>2
  <2> QED BY <1>8, <2>1, <2>2
<1>9. CASE UNCHANGED churnVars
  BY <1>3, <1>9 DEF churnVars, floodVars
<1> QED BY <1>1, <1>4, <1>5, <1>7, <1>8, <1>9 DEF ChurnNext

(* A packet that is sent is at its sender, and its copies have crossed no  *)
(* link.                                                                   *)
LEMMA SendsFar ==
    ASSUME ChurnInv, OnlySent, FarInv, EndsLinked', NEW n \in Node, NEW p \in Packet, Sends(n, p)
    PROVE  FarInv'
<1>0. /\ origin'[p] = n /\ Sent(p)'
      /\ \A q \in Packet : q # p => origin'[q] = origin[q] /\ (Sent(q)' <=> Sent(q))
      /\ \A x \in Node, q \in Packet : q \in seen'[x] <=> q \in seen[x] \/ (x = n /\ q = p)
      /\ ~Sent(p)
  BY SendsOne
<1>1. WalkOver(Links, n, n, 0)
  BY WalkNone
<1>2. ASSUME NEW x \in Node, NEW y \in Node, NEW g \in On(wire', x, y)
      PROVE  OnWay(x, y, g)'
  <2>1. CASE g \in On(wire, x, y)
    <3>1. g.id \in Packet /\ g.id # p
      BY <1>0, <2>1 DEF OnlySent, CopiesSent
    <3>2. origin'[g.id] = origin[g.id] /\ OnWay(x, y, g)
      BY <1>0, <2>1, <3>1 DEF FarInv
    <3> QED BY <3>2 DEF OnWay, Ttl
  <2>2. CASE x = n /\ y \in peers[n] /\ g = [id |-> p, ttl |-> DefaultTtl[n]]
    <3>1. g.id = p /\ g.ttl = DefaultTtl[n] /\ y \in Links[x] /\ DefaultTtl[n] \in Nat
      BY <2>2, FloodAssumption DEF FarInv, EndsLinked
    <3>2. WalkOver(Links, origin'[g.id], x, 0) /\ g.ttl + 0 = Ttl(g.id)'
      BY <1>0, <1>1, <2>2, <3>1 DEF Ttl
    <3> QED BY <3>1, <3>2 DEF OnWay
  <2> QED BY <1>2, <2>1, <2>2 DEF Sends, OnlyFrom
<1>3. ASSUME NEW x \in Node, NEW q \in Packet, q \in seen'[x]
      PROVE  Sent(q)' /\ \E k \in 0 .. Scope(origin'[q]) : WalkOver(Links, origin'[q], x, k)
  <2>1. CASE q = p
    <3>1. x = n
      BY <1>0, <1>3, <2>1 DEF OnlySent
    <3>2. 0 \in 0 .. Scope(n)
      BY FloodAssumption DEF Scope
    <3> QED BY <1>0, <1>1, <2>1, <3>1, <3>2
  <2>2. CASE q # p
    BY <1>0, <1>3, <2>2 DEF FarInv, DialledScope
  <2> QED BY <2>1, <2>2
<1> QED BY <1>2, <1>3 DEF FarInv, DialledScope

(* A packet that is taken for new is one link further than its copy, and   *)
(* is relayed with the TTL one lower.                                      *)
LEMMA TakesFar ==
    ASSUME ChurnInv, OnlySent, FarInv, EndsLinked',
           NEW m \in Node, NEW n \in Node, NEW f \in Frame, Takes(m, n, f)
    PROVE  FarInv'
<1> DEFINE o == origin[f.id]
<1>0. /\ f.id \in Packet /\ f.ttl \in 0 .. 255 /\ Sent(f.id)
      /\ UNCHANGED origin /\ \A q \in Packet : Sent(q)' <=> Sent(q)
      /\ \A x \in Node, q \in Packet : q \in seen'[x] <=> q \in seen[x] \/ (x = n /\ q = f.id)
      /\ WillRelay(n, f) => Hop(f).id = f.id /\ Hop(f).ttl = f.ttl - 1
  BY TakesOne
<1>1. o \in Node /\ DefaultTtl[o] \in Nat
  <2>1. origin \in [Packet -> Node \cup {NoNode}]
    BY ChurnTypes DEF FloodTypeOK
  <2>2. o \in Node
    BY <1>0, <2>1 DEF Sent
  <2> QED BY <2>2, FloodAssumption
<1>2. f \in On(wire, m, n)
  BY DEF Takes
<1>3. PICK k \in Nat : /\ WalkOver(Links, o, m, k)
                       /\ f.ttl + k = DefaultTtl[o]
                       /\ n \in Links[m]
                       /\ k > 0 => m \in Relays /\ f.ttl >= 1
  BY <1>2 DEF FarInv, OnWay, Ttl
<1> HIDE DEF o
<1>4. WalkOver(Links, o, n, k + 1)
  BY <1>1, <1>3, WalkFurther
<1>5. k + 1 \in 0 .. Scope(o)
  <2>1. CASE k = 0
    BY <1>1, <2>1 DEF Scope
  <2>2. CASE k > 0
    <3>1. k + 1 <= DefaultTtl[o] /\ DefaultTtl[o] # 0
      BY <1>0, <1>1, <1>3, <2>2
    <3> QED BY <1>1, <3>1 DEF Scope
  <2> QED BY <2>1, <2>2
<1>6. ASSUME NEW x \in Node, NEW y \in Node, NEW g \in On(wire', x, y)
      PROVE  OnWay(x, y, g)'
  <2>1. CASE g \in On(wire, x, y)
    BY <1>0, <2>1 DEF FarInv, OnWay, Ttl
  <2>2. CASE WillRelay(n, f) /\ x = n /\ y \in peers[n] /\ g = Hop(f)
    <3>1. n \in Relays /\ f.ttl > 1 /\ g.id = f.id /\ g.ttl = f.ttl - 1 /\ y \in Links[x]
      BY <1>0, <2>2 DEF WillRelay, FarInv, EndsLinked
    <3>2. g.ttl + (k + 1) = DefaultTtl[o] /\ g.ttl >= 1
      BY <1>0, <1>1, <1>3, <3>1
    <3>3. /\ k + 1 \in Nat
          /\ WalkOver(Links, origin'[g.id], x, k + 1)
          /\ g.ttl + (k + 1) = Ttl(g.id)'
          /\ y \in Links[x]
          /\ x \in Relays /\ g.ttl >= 1
      BY <1>0, <1>4, <2>2, <3>1, <3>2 DEF Ttl, o
    <3> QED BY <3>3 DEF OnWay
  <2> QED BY <1>6, <2>1, <2>2 DEF Takes, OnlyFrom
<1>7. ASSUME NEW x \in Node, NEW q \in Packet, q \in seen'[x]
      PROVE  Sent(q)' /\ \E j \in 0 .. Scope(origin'[q]) : WalkOver(Links, origin'[q], x, j)
  <2>1. CASE q \in seen[x]
    BY <1>0, <2>1 DEF FarInv, DialledScope
  <2>2. CASE q \notin seen[x]
    BY <1>0, <1>4, <1>5, <1>7, <2>2 DEF o
  <2> QED BY <2>1, <2>2
<1> QED BY <1>6, <1>7 DEF FarInv, DialledScope

\* No step takes a packet out of its scope.
LEMMA NextFar ==
    ASSUME ChurnInv, OnlySent, FarInv, [ChurnNext]_churnVars
    PROVE  FarInv'
<1>1. EndsLinked'
  BY NextLinked DEF FarInv
<1>2. CASE Fades
  <2>1. \A x, y \in Node : \A g \in On(wire', x, y) : OnWay(x, y, g)'
    BY <1>2 DEF Fades, FarInv, OnWay, Ttl
  <2>2. DialledScope'
    BY <1>2 DEF Fades, FarInv, DialledScope, Sent
  <2> QED BY <1>1, <2>1, <2>2 DEF FarInv
<1> QED BY <1>1, <1>2, SendsFar, TakesFar, StepOfPackets

(***************************************************************************)
(* The theorems.                                                           *)
(***************************************************************************)

(* The invariant holds in every state of every mesh whose processes come   *)
(* and go.                                                                 *)
THEOREM ChurnInvariant == ChurnSpec => []ChurnInv
BY InitChurnInv, NextChurnInv, PTL DEF ChurnSpec

\* The variables have their types (vex_node_t and vex_transport_t of vex.h).
THEOREM ChurnTypesTheorem == ChurnSpec => []ChurnTypeOK
BY ChurnInvariant, PTL DEF ChurnInv

(* A frame that has been written and not read is at an open end of a       *)
(* process that is up, and no process has more than VEX_MAX_PEERS peers,   *)
(* although a connection may be refused, closed at either end or torn in   *)
(* the middle of a broadcast (transport_unix.c:75-82, :127, :185).         *)
THEOREM ReaderTheorem == ChurnSpec => []ReaderIsThere
BY ChurnInvariant, PTL DEF ChurnInv

\* Only packets that were sent are seen or on the wires.
LEMMA OnlySentAlways == ChurnSpec => []OnlySent
<1>1. ASSUME ChurnInit PROVE OnlySent
  <2>1. \A x, y \in Node : On(wire, x, y) = {}
    BY <1>1 DEF ChurnInit, FloodInit, On, Conn
  <2> QED BY <1>1, <2>1 DEF ChurnInit, FloodInit, OnlySent, CopiesSent
<1>2. ChurnInv /\ OnlySent /\ [ChurnNext]_churnVars => OnlySent'
  BY NextOnlySent
<1> QED BY <1>1, <1>2, ChurnInvariant, PTL DEF ChurnSpec

(* A packet traverses each node once (PROTOCOL.md:55) also when processes  *)
(* come and go, die in the middle of a broadcast and lose frames, as long  *)
(* as no id expires or is evicted: an id is marked before it is written    *)
(* or shown (mesh.c:75, :123), and stays marked.                           *)
THEOREM OnceTheorem ==
  ASSUME "forget" \notin Faults
  PROVE  ChurnSpec => []TraverseOnce
<1>1. ChurnInit => OnceInv
  BY DEF ChurnInit, FloodInit, OnceInv, AcceptedOnce
<1>2. ChurnInv /\ OnlySent /\ OnceInv /\ [ChurnNext]_churnVars => OnceInv'
  BY NextOnce
<1>3. OnceInv => TraverseOnce
  BY DEF OnceInv, AcceptedOnce, TraverseOnce
<1> QED BY <1>1, <1>2, <1>3, ChurnInvariant, OnlySentAlways, PTL DEF ChurnSpec

(* TTL is a bound in space (PROTOCOL.md:64) whoever comes, goes, dies in   *)
(* the middle of a broadcast, loses frames or forgets: a packet is seen by *)
(* no node further from its sender than its TTL, over connections that     *)
(* somebody dials, for mesh.c:157-163 lowers the TTL of what it writes.    *)
THEOREM DialledScopeTheorem == ChurnSpec => []DialledScope
<1>1. ASSUME ChurnInit PROVE FarInv
  <2>1. \A x, y \in Node : On(wire, x, y) = {}
    BY <1>1 DEF ChurnInit, FloodInit, On, Conn
  <2>2. EndsLinked
    BY <1>1, ChurnAssumption DEF ChurnInit, FloodInit, EndsLinked
  <2> QED BY <1>1, <2>1, <2>2 DEF ChurnInit, FloodInit, FarInv, DialledScope
<1>2. ChurnInv /\ OnlySent /\ FarInv /\ [ChurnNext]_churnVars => FarInv'
  BY NextFar
<1>3. FarInv => DialledScope
  BY DEF FarInv
<1> QED BY <1>1, <1>2, <1>3, ChurnInvariant, OnlySentAlways, PTL DEF ChurnSpec

=============================================================================
