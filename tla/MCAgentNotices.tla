--------------------------- MODULE MCAgentNotices ---------------------------
(* AgentNotices on small instances.                                         *)
EXTENDS AgentNotices
=============================================================================
