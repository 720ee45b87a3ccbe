----------------------------- MODULE MCTurnLoop -----------------------------
(* TurnLoop on small instances; the drafts of a kind are interchangeable.   *)
EXTENDS TurnLoop, TLC

Symmetry == Permutations(Msgs) \cup Permutations(Shells)
=============================================================================
