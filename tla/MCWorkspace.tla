------------------------------ MODULE MCWorkspace ------------------------------
(* Small instances of Workspace, whose liveness forbids symmetry. *)
EXTENDS Workspace
=============================================================================
