---------------------------- MODULE MCJobRegistry ----------------------------
(***************************************************************************)
(* JobRegistry with two callers that each use a label of their own, or one *)
(* label between them.  Commands that are waited for (CommandExec) share   *)
(* nothing with the registry: they move while no job was ever started, and *)
(* jobs while no command was.                                              *)
(***************************************************************************)
EXTENDS JobRegistry, CommandExec, TLC

CONSTANTS c1, c2, a, b

OwnLabels == (c1 :> {a}) @@ (c2 :> {b})
SameLabel == (c1 :> {a}) @@ (c2 :> {a})
SettledAwaits == Awaits \ {"spawn", "meta"}
NoAwaits == {}

JobsMove == call = [c \in Calls |-> Unmade] /\ Next /\ UNCHANGED call
CommandsMove == Unborn = Procs /\ pc = [c \in Clients |-> "idle"] /\ ExecNext /\ UNCHANGED vars

Start == Init /\ ExecInit

Shell == Start /\ [][JobsMove \/ CommandsMove]_<<vars, call>>
=============================================================================
