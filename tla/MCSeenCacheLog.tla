--------------------------- MODULE MCSeenCacheLog ---------------------------
(* SeenCacheLog on a small instance: the ids are interchangeable.          *)
EXTENDS SeenCacheLog, TLC

Symmetry == Permutations(Id)

=============================================================================
