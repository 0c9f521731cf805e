---------------------------- MODULE MCMeshFlood ----------------------------
(* Small meshes of relays for MeshFlood.                                   *)
EXTENDS MeshFlood, TLC

CONSTANTS a, b, c, d

(* A triangle a, b, c with d behind c: a short way and a longer one.       *)
Kite == (a :> {b, c}) @@ (b :> {a, c}) @@ (c :> {a, b, d}) @@ (d :> {c})

Ttl2 == [n \in Node |-> 2]
TtlMixed == (a :> 3) @@ (b :> 1) @@ (c :> 0) @@ (d :> 2)

=============================================================================
