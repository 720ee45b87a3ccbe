-------------------------- MODULE MCPermissionGate --------------------------
(* PermissionGate on small instances.                                       *)
EXTENDS PermissionGate
=============================================================================
