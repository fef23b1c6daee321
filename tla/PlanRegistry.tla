----------------------------- MODULE PlanRegistry -----------------------------
(***************************************************************************)
(* The registry of work plans (environments/agentic_core): one active      *)
(* thread, whose plan and nudge count are in hand, a cache of the threads  *)
(* that were active before, and a plan file per thread.                    *)
(*                                                                         *)
(* A plan is the thread whose run wrote it and whether an item of it is    *)
(* pending or in progress.                                                 *)
(***************************************************************************)
EXTENDS Integers

CONSTANTS
  Threads,
  Default,     \* the thread a new registry takes to be active
  Nobody,      \* wrote the empty plan
  MaxNudges    \* max_nudges

ASSUME RegistryAssumption ==
  /\ Default \in Threads
  /\ Nobody \notin Threads
  /\ MaxNudges \in Nat

VARIABLES
  active,       \* _active_thread
  plan,         \* items and sections of the active thread
  nudge_count,
  cache,        \* _thread_cache
  files,        \* the plan files
  unsaved       \* history: threads whose last update did not reach the file

registryVars == <<active, plan, nudge_count, cache, files, unsaved>>

Plans == [by : Threads, pending : BOOLEAN]
NoPlan == [by |-> Nobody, pending |-> FALSE]
NotCached == [plan |-> NoPlan, nudges |-> -1]
Snapshots == [plan : Plans \cup {NoPlan}, nudges : Nat] \cup {NotCached}

(* What the registry, once switched to t, holds as t's plan. *)
PlanOf(t) ==
  IF t = active THEN plan
  ELSE IF cache[t] # NotCached THEN cache[t].plan
  ELSE files[t]

-----------------------------------------------------------------------------

RegistryInit ==
  /\ active = Default /\ plan = NoPlan /\ nudge_count = 0
  /\ cache = [t \in Threads |-> NotCached]
  /\ files = [t \in Threads |-> NoPlan]
  /\ unsaved = {}

(* _snapshot of the active thread *)
Snapshot == [plan |-> plan, nudges |-> nudge_count]

(* Mutant: a thread without a file keeps the plan in hand. *)
SetActiveKeeps(t) ==
  /\ plan' = IF PlanOf(t) = NoPlan THEN plan ELSE PlanOf(t)
  /\ cache' = IF t = active THEN cache ELSE [cache EXCEPT ![active] = Snapshot]
  /\ active' = t

(* set_active_thread *)
SetActive(t) ==
  /\ plan' = PlanOf(t)
  /\ cache' = IF t = active THEN cache ELSE [cache EXCEPT ![active] = Snapshot]
  /\ active' = t

(* patched_ainvoke switches to its thread, and before_agent resets the     *)
(* count that came along.                                                  *)
Activate(t) ==
  /\ SetActive(t)
  /\ nudge_count' = 0
  /\ UNCHANGED <<files, unsaved>>

(* Mutant: every plan goes to the default thread's file. *)
UpdateDefaultFile(p) ==
  /\ plan' = p
  /\ files' = [files EXCEPT ![Default] = p]
  /\ unsaved' = unsaved \ {active}
  /\ UNCHANGED <<active, nudge_count, cache>>

(* update_plan: the active thread's plan and file, whoever calls. *)
Update(p) ==
  /\ plan' = p
  /\ files' = [files EXCEPT ![active] = p]
  /\ unsaved' = unsaved \ {active}
  /\ UNCHANGED <<active, nudge_count, cache>>

(* The file cannot be written: the tool fails after set_plan. *)
UpdateUnsaved(p) ==
  /\ plan' = p
  /\ unsaved' = unsaved \cup {active}
  /\ UNCHANGED <<active, nudge_count, cache, files>>

(* Mutant: one nudge too many. *)
ShouldNudgeOnce(limit) == plan.pending /\ nudge_count <= limit

should_nudge(limit) == plan.pending /\ nudge_count < limit

format_nudge_message ==
  /\ nudge_count' = nudge_count + 1
  /\ UNCHANGED <<active, plan, cache, files, unsaved>>

(* A new process: the constructor loads the default thread's file. *)
Reload ==
  /\ active' = Default
  /\ plan' = files[Default]
  /\ nudge_count' = 0
  /\ cache' = [t \in Threads |-> NotCached]
  /\ UNCHANGED <<files, unsaved>>

RegistryTypeOK ==
  /\ active \in Threads
  /\ plan \in Plans \cup {NoPlan}
  /\ nudge_count \in Nat
  /\ cache \in [Threads -> Snapshots]
  /\ files \in [Threads -> Plans \cup {NoPlan}]
  /\ unsaved \subseteq Threads
=============================================================================
