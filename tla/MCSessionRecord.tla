--------------------------- MODULE MCSessionRecord ---------------------------
(* SessionRecord on small instances.                                        *)
EXTENDS SessionRecord, TLC

\* Selections are interchangeable.
Symmetry == Permutations(Models)
=============================================================================
