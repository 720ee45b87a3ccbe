--------------------------- MODULE MCShellNotices ---------------------------
(* ShellNotices on small instances.                                        *)
EXTENDS ShellNotices
=============================================================================
