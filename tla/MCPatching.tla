----------------------------- MODULE MCPatching -----------------------------
(* One chat by itself: what happens when its caller submits again a history   *)
(* whose last run was stopped between a tool call and its result.             *)
EXTENDS Patching

Spec == PatchSpec
=============================================================================
