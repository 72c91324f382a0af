-------------------------- MODULE MCWorkspaceSave --------------------------
(* Bounds for model checking WorkspaceSave. *)
EXTENDS WorkspaceSave

CONSTANTS plain, split, chart

Looks == {plain, split, chart}
=============================================================================
