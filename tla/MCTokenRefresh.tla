--------------------------- MODULE MCTokenRefresh ---------------------------
(* TokenRefresh on small instances: ChatGPT, Claude and Cline; Copilot; and *)
(* Antigravity.                                                             *)
EXTENDS TokenRefresh, TLC

CONSTANTS t1, t2

Subscriptions == {[rotates |-> TRUE, remembers |-> TRUE], [rotates |-> FALSE, remembers |-> TRUE],
                  [rotates |-> TRUE, remembers |-> FALSE]}

Symmetry == Permutations(Threads)
=============================================================================
