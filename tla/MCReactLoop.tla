---------------------------- MODULE MCReactLoop ----------------------------
(* ReactLoop on the default thread and one other.                          *)
EXTENDS ReactLoop
=============================================================================
