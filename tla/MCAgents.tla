------------------------------ MODULE MCAgents ------------------------------
(***************************************************************************)
(* What several agents and runs share: managed subagents, signals,         *)
(* checkpoints and the patching middleware.  They share no state, so       *)
(* nothing is gained from their product: while one of them moves, the      *)
(* others rest in their initial state.                                     *)
(***************************************************************************)
EXTENDS ManagedSubagents, SignalStore, CheckpointProxy, Patching, TLC

CONSTANTS a, b, procA, procB

\* Two agents in one process, or in two.
MCHosts == {(a :> procA) @@ (b :> procA), (a :> procA) @@ (b :> procB)}

Init == SubInit /\ SigInit /\ CpInit /\ PatchInit

Next ==
    \/ SigInit /\ CpInit /\ PatchInit /\ SubNext /\ UNCHANGED <<sigVars, cpVars, patchVars>>
    \/ SubInit /\ CpInit /\ PatchInit /\ SigNext /\ UNCHANGED <<subVars, cpVars, patchVars>>
    \/ SubInit /\ SigInit /\ PatchInit /\ CpNext /\ UNCHANGED <<subVars, sigVars, patchVars>>
    \/ SubInit /\ SigInit /\ CpInit /\ PatchNext /\ UNCHANGED <<subVars, sigVars, cpVars>>

Spec == Init /\ [][Next]_<<subVars, sigVars, cpVars, patchVars>>

\* Bounds: a reader of the list meets one run, no pending writes and no faults;
\* three checkpoints are made with one execution of a task, two with two; only
\* one chat gets beyond its first message, the other keeps to one model and
\* meets no tool call; the last message belongs to a repaired input.
Slice ==
    /\ walk.pc # "idle" => writes = <<>> /\ faults = 0 /\ \E r \in LgRuns : run[r] = Stopped
    /\ clock + attempts <= 4
    /\ Len(chat["d"]) <= 1 /\ request["d"].model \in {"none", "ChatMoonshot"}
    /\ chat["d"] # <<>> => called = 0
    /\ lastId = MaxLastId => patched # {}
=============================================================================
