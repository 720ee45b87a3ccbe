---------------------------- MODULE MCToolRounds ----------------------------
(* ToolRounds on small instances.                                           *)
EXTENDS ToolRounds
=============================================================================
