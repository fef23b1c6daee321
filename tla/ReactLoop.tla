------------------------------ MODULE ReactLoop ------------------------------
(***************************************************************************)
(* The react graph (graph.py) with the plan guard: runs of an agent on     *)
(* several checkpointed threads, one at a time per thread, all with the    *)
(* one plan registry of the agent.                                         *)
(*                                                                         *)
(* The checkpoint of a thread names the next node; a node commits when it  *)
(* ends, so a run that is stopped inside a node starts that node again     *)
(* when it is resumed.  Compression (see Compression) leaves the plan      *)
(* alone and is left out.                                                  *)
(***************************************************************************)
EXTENDS PlanRegistry, FiniteSets

CONSTANTS
  MaxRetries,      \* MAX_SELF_HEAL_RETRIES
  RecursionLimit,  \* recursion_limit
  MaxCalls,        \* bound: tool calls of one message
  MaxTurns,        \* bound: calls of ainvoke
  MaxFaults        \* bound: stopped runs, failed writes and restarts

ASSUME LoopAssumption ==
  /\ MaxRetries \in Nat /\ RecursionLimit \in Nat
  /\ MaxCalls \in Nat \ {0} /\ MaxTurns \in Nat /\ MaxFaults \in Nat

VARIABLES
  node,       \* the node the thread's checkpoint names next
  calls,      \* tool calls of the last message of the checkpoint
  run,        \* the thread's run, if one is under way
  overlapped, \* history: two runs have been under way at once
  turns, faults

checkpointVars == <<node, calls>>
boundVars == <<overlapped, turns, faults>>
vars == <<registryVars, checkpointVars, run, boundVars>>

Nodes == {"model", "tools", "guard", "end"}

(* Where a run is (before a node or inside it), its supersteps, the failed *)
(* attempts of its model call, the tool calls it has still to execute,     *)
(* and, as history, the nudges it was given.                               *)
Runs ==
  [at : {"before", "inside"}, steps : 0..RecursionLimit, failed : 0..MaxRetries,
   left : 0..MaxCalls, nudged : Nat]
NoRun == [at |-> "out", steps |-> 0, failed |-> 0, left |-> 0, nudged |-> 0]
RunBefore(steps, nudged) ==
  [at |-> "before", steps |-> steps, failed |-> 0, left |-> 0, nudged |-> nudged]

Running == {t \in Threads : run[t] # NoRun}

-----------------------------------------------------------------------------

Init ==
  /\ RegistryInit
  /\ node = [t \in Threads |-> "end"] /\ calls = [t \in Threads |-> 0]
  /\ run = [t \in Threads |-> NoRun]
  /\ overlapped = FALSE /\ turns = 0 /\ faults = 0

(* ainvoke with a message starts at the model, whatever the checkpoint     *)
(* named; without one it goes on with what the checkpoint names.           *)
Start(t, first) ==
  /\ t \notin Running
  /\ turns < MaxTurns
  /\ turns' = turns + 1
  /\ Activate(t)
  /\ node' = [node EXCEPT ![t] = first]
  /\ run' = [run EXCEPT ![t] = RunBefore(0, 0)]
  /\ overlapped' = (overlapped \/ Running # {})
  /\ UNCHANGED <<calls, faults>>

Invoke(t) == Start(t, "model")
Resume(t) == node[t] # "end" /\ Start(t, node[t])

(* The run is about to start node n, as its next superstep. *)
Enters(t, n) ==
  /\ run[t].at = "before" /\ node[t] = n
  /\ run[t].steps < RecursionLimit

Inside(t, n) == run[t].at = "inside" /\ node[t] = n

(* The node ends: its update is committed, and the graph's edge taken. *)
Leaves(t, next, nudges) ==
  /\ node' = [node EXCEPT ![t] = next]
  /\ run' = [run EXCEPT ![t] =
       IF next = "end" THEN NoRun
       ELSE RunBefore(run[t].steps + 1, run[t].nudged + nudges)]

(* An exception leaves the graph: nothing is committed. *)
Raises(t) ==
  /\ run' = [run EXCEPT ![t] = NoRun]
  /\ UNCHANGED <<registryVars, checkpointVars, overlapped, turns>>

RecursionError(t) ==
  /\ run[t].at = "before" /\ run[t].steps >= RecursionLimit
  /\ Raises(t)
  /\ UNCHANGED faults

(* A stop between nodes or inside a tool, or a cancelled run. *)
Stopped(t) ==
  /\ t \in Running /\ faults < MaxFaults
  /\ faults' = faults + 1
  /\ Raises(t)

Restart ==
  /\ faults < MaxFaults
  /\ faults' = faults + 1
  /\ Reload
  /\ run' = [t \in Threads |-> NoRun]
  /\ UNCHANGED <<checkpointVars, overlapped, turns>>

-----------------------------------------------------------------------------
(* model_node *)

ModelBegins(t) ==
  /\ Enters(t, "model")
  /\ run' = [run EXCEPT ![t].at = "inside"]
  /\ UNCHANGED <<registryVars, checkpointVars, boundVars>>

(* Mutant: a failure does not count as an attempt. *)
AttemptUncounted(t) ==
  /\ Inside(t, "model")
  /\ run' = [run EXCEPT ![t].failed = 1 - @]
  /\ UNCHANGED <<registryVars, checkpointVars, boundVars>>

(* A provider error, an empty response, or an abort noticed while the      *)
(* request is under way: all are retried alike.                            *)
AttemptFails(t) ==
  /\ Inside(t, "model")
  /\ run[t].failed < MaxRetries
  /\ run' = [run EXCEPT ![t].failed = @ + 1]
  /\ UNCHANGED <<registryVars, checkpointVars, boundVars>>

AttemptsExhausted(t) ==
  /\ Inside(t, "model")
  /\ run[t].failed >= MaxRetries
  /\ Raises(t)
  /\ UNCHANGED faults

ModelCalls(t, k) ==
  /\ Inside(t, "model")
  /\ calls' = [calls EXCEPT ![t] = k]
  /\ Leaves(t, "tools", 0)
  /\ UNCHANGED <<registryVars, boundVars>>

(* should_continue asks the registry about the thread that is active. *)
ModelStops(t) ==
  /\ Inside(t, "model")
  /\ calls' = [calls EXCEPT ![t] = 0]
  /\ Leaves(t, IF should_nudge(MaxNudges) THEN "guard" ELSE "end", 0)
  /\ UNCHANGED <<registryVars, boundVars>>

-----------------------------------------------------------------------------
(* tool_node: the calls of a message one after the other. *)

ToolsBegin(t) ==
  /\ Enters(t, "tools")
  /\ run' = [run EXCEPT ![t].at = "inside", ![t].left = calls[t]]
  /\ UNCHANGED <<registryVars, checkpointVars, boundVars>>

Executes(t) ==
  /\ Inside(t, "tools") /\ run[t].left > 0
  /\ run' = [run EXCEPT ![t].left = @ - 1]
  /\ UNCHANGED <<checkpointVars, overlapped, turns>>

OtherTool(t) == Executes(t) /\ UNCHANGED <<registryVars, faults>>

UpdatePlan(t, pending) ==
  /\ Executes(t)
  /\ Update([by |-> t, pending |-> pending])
  /\ UNCHANGED faults

UpdatePlanFails(t, pending) ==
  /\ Executes(t)
  /\ UpdateUnsaved([by |-> t, pending |-> pending])
  /\ faults < MaxFaults
  /\ faults' = faults + 1

ToolsDone(t) ==
  /\ Inside(t, "tools") /\ run[t].left = 0
  /\ Leaves(t, "model", 0)
  /\ UNCHANGED <<registryVars, calls, boundVars>>

-----------------------------------------------------------------------------

(* plan_guard_node *)
Guard(t) ==
  /\ Enters(t, "guard")
  /\ format_nudge_message
  /\ Leaves(t, "model", 1)
  /\ UNCHANGED <<calls, boundVars>>

RunStep(t) ==
  \/ RecursionError(t)
  \/ ModelBegins(t) \/ AttemptFails(t) \/ AttemptsExhausted(t)
  \/ \E k \in 1..MaxCalls : ModelCalls(t, k)
  \/ ModelStops(t)
  \/ ToolsBegin(t) \/ OtherTool(t) \/ ToolsDone(t)
  \/ \E pending \in BOOLEAN : UpdatePlan(t, pending) \/ UpdatePlanFails(t, pending)
  \/ Guard(t)

Next ==
  \/ \E t \in Threads : Invoke(t) \/ Resume(t) \/ RunStep(t) \/ Stopped(t)
  \/ Restart

(* The event loop runs every run on; calls of models and tools return or   *)
(* time out.                                                               *)
Fairness == \A t \in Threads : WF_vars(RunStep(t))

Spec == Init /\ [][Next]_vars /\ Fairness

-----------------------------------------------------------------------------

(* Registry, checkpoints and runs keep their shape.                        *)
TypeOK ==
  /\ RegistryTypeOK
  /\ node \in [Threads -> Nodes]
  /\ calls \in [Threads -> 0..MaxCalls]
  /\ run \in [Threads -> Runs \cup {NoRun}]
  /\ overlapped \in BOOLEAN

(* Plans are isolated by thread: what the registry or a file holds for a   *)
(* thread was written by its own runs, across switches, failed runs,       *)
(* resumptions and restarts.  The registry's docstring promises it.        *)
ThreadsIsolated == \A t \in Threads : PlanOf(t).by \in {t, Nobody}

(* The code keeps it as long as no two runs were under way at once.        *)
OwnPlan == ~ overlapped => ThreadsIsolated

(* A run is nudged at most MaxNudges times, if runs do not overlap.        *)
NudgesPerRun ==
  ~ overlapped => \A t \in Threads : run[t].nudged <= MaxNudges

(* A run that waits at the guard has work pending in its own plan, so that *)
(* the nudge names items of it; also after a resumption by a new process,  *)
(* unless the plan did not reach its file.                                 *)
GuardHasWork ==
  ~ overlapped =>
    \A t \in Running \ unsaved : node[t] = "guard" => PlanOf(t).pending

(* The guard nudges no more than it may and never for nothing, with all    *)
(* the loop's variables as declared.                                       *)
NudgesJustified == TypeOK /\ NudgesPerRun /\ GuardHasWork

(* A restart loses no plan: overlapping runs or not, what the registry     *)
(* holds for a thread, in hand or cached, is what its file holds, unless   *)
(* the write failed.                                                       *)
PlansSurvive == \A t \in Threads \ unsaved : PlanOf(t) = files[t]

(* Every run ends, whatever the model and the other runs do.               *)
RunsEnd == \A t \in Threads : t \in Running ~> t \notin Running
=============================================================================
