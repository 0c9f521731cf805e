---------------------------- MODULE MCMeshChurn ----------------------------
(***************************************************************************)
(* Four processes for MeshChurn.  Three of them can form a triangle, in    *)
(* which a packet that is forgotten goes round; or else all of them come,  *)
(* but b and c are not connected, and a is dialled by three with two slots *)
(* to give.                                                                *)
(***************************************************************************)
EXTENDS MeshChurn, TLC

CONSTANTS a, b, c, d

NoTopology == [n \in Node |-> {}]

\* All dial a, and c dials b too.
Dialled == (a :> {}) @@ (b :> {a}) @@ (c :> {a, b}) @@ (d :> {a})

\* A packet from d ends at a, and the others go as far as they can.
Ttls == [n \in Node |-> IF n = d THEN 1 ELSE 3]

TriangleOrStar == status[d] = "new" \/ (~HasEnd(b, c) /\ ~HasEnd(c, b))

MCSpec ==
    /\ ChurnInit
    /\ [][ChurnNext /\ TriangleOrStar']_churnVars
    /\ ChurnFairness

=============================================================================
