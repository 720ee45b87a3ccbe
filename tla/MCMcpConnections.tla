-------------------------- MODULE MCMcpConnections --------------------------
(* McpConnections on small instances: a server of the user's over HTTP, and *)
(* one of the project's over standard input and output.                     *)
EXTENDS McpConnections, TLC

CONSTANTS l1, l2, c1

Servers == {[kind |-> "http", scope |-> "user"], [kind |-> "stdio", scope |-> "project"]}

Symmetry == Permutations(Catalogs)
=============================================================================
