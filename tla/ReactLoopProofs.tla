--------------------------- MODULE ReactLoopProofs ---------------------------
(***************************************************************************)
(* Theorems about ReactLoop: for every set of threads and every bound, the *)
(* plans of threads survive a restart; and as long as no two runs overlap, *)
(* threads are isolated, nudges are bounded and name work that is pending. *)
(***************************************************************************)
EXTENDS ReactLoop, TLAPS

(* A run is inside a node only below the recursion limit. *)
StepsLeft ==
  \A t \in Threads : run[t].at = "inside" => run[t].steps < RecursionLimit

(* What holds while runs do not overlap: there is one run at most, and its *)
(* thread is the active one; files are isolated like plans; the count in   *)
(* hand is the one of the run, and it is at the guard only with budget     *)
(* left; a thread at the guard has work pending, run or not.               *)
Alone == \A t \in Running : t = active
FilesOwn == \A t \in Threads : files[t].by \in {t, Nobody}
Budget ==
  \A t \in Running :
    /\ run[t].nudged = nudge_count
    /\ nudge_count <= MaxNudges
    /\ node[t] = "guard" => nudge_count < MaxNudges
Work == \A t \in Threads \ unsaved : node[t] = "guard" => PlanOf(t).pending

(* A registry that never nudges sends no run to the guard. *)
GuardMeansNudges == \A t \in Threads : node[t] = "guard" => MaxNudges > 0

TypeInv == TypeOK /\ StepsLeft
OneRun == ThreadsIsolated /\ Alone /\ FilesOwn /\ Budget /\ Work
LoopInv == PlansSurvive /\ GuardMeansNudges /\ (~ overlapped => OneRun)

-----------------------------------------------------------------------------
(* The registry. *)

LEMMA PlansShape ==
  /\ NoPlan \notin Plans
  /\ \A p \in Plans : p.by \in Threads /\ p.pending \in BOOLEAN
  /\ NoPlan.by = Nobody /\ NoPlan.pending = FALSE
  /\ \A p \in Plans \cup {NoPlan}, n \in Nat : [plan |-> p, nudges |-> n] # NotCached
  /\ \A p \in Plans \cup {NoPlan}, n \in Nat : [plan |-> p, nudges |-> n].plan = p
BY RegistryAssumption DEF Plans, NoPlan, NotCached

LEMMA PlanOfType ==
  ASSUME RegistryTypeOK, NEW t \in Threads
  PROVE  PlanOf(t) \in Plans \cup {NoPlan}
BY DEF RegistryTypeOK, PlanOf, Snapshots, NotCached

(* Switching threads changes what the registry holds for none of them. *)
LEMMA SwitchKeepsPlans ==
  ASSUME RegistryTypeOK, NEW t \in Threads, Activate(t)
  PROVE  /\ RegistryTypeOK'
         /\ active' = t /\ nudge_count' = 0
         /\ \A u \in Threads : PlanOf(u)' = PlanOf(u)
<1>1. PlanOf(t) \in Plans \cup {NoPlan}
  BY PlanOfType
<1>2. CASE t = active
  BY <1>1, <1>2 DEF RegistryTypeOK, Activate, SetActive, PlanOf
<1>3. CASE t # active
  <2>1. Snapshot \in Snapshots /\ Snapshot # NotCached /\ Snapshot.plan = plan
    BY PlansShape DEF Snapshot, Snapshots, RegistryTypeOK
  <2>2. cache' = [cache EXCEPT ![active] = Snapshot] /\ plan' = PlanOf(t) /\ active' = t
    BY <1>3 DEF Activate, SetActive
  <2>3. RegistryTypeOK'
    BY <1>1, <2>1, <2>2 DEF RegistryTypeOK, Activate
  <2>4. ASSUME NEW u \in Threads
        PROVE  PlanOf(u)' = PlanOf(u)
    <3>1. cache'[u] = IF u = active THEN Snapshot ELSE cache[u]
      BY <2>2 DEF RegistryTypeOK
    <3>2. files' = files
      BY DEF Activate
    <3>. QED BY <1>3, <2>1, <2>2, <3>1, <3>2 DEF PlanOf
  <2>. QED BY <2>2, <2>3, <2>4 DEF Activate
<1>. QED BY <1>2, <1>3

(* Writing a plan changes that of the active thread only. *)
LEMMA UpdateIsLocal ==
  ASSUME RegistryTypeOK, NEW p \in Plans, Update(p) \/ UpdateUnsaved(p)
  PROVE  /\ RegistryTypeOK'
         /\ active' = active /\ nudge_count' = nudge_count
         /\ PlanOf(active)' = p
         /\ \A u \in Threads \ {active} : PlanOf(u)' = PlanOf(u) /\ files'[u] = files[u]
         /\ active \notin unsaved' => files'[active] = p
         /\ unsaved' \ {active} = unsaved \ {active}
BY DEF RegistryTypeOK, Update, UpdateUnsaved, PlanOf

LEMMA ReloadLoads ==
  ASSUME RegistryTypeOK, Reload
  PROVE  /\ RegistryTypeOK'
         /\ \A u \in Threads : PlanOf(u)' = files[u]
         /\ files' = files /\ unsaved' = unsaved
BY RegistryAssumption DEF RegistryTypeOK, Reload, PlanOf, Snapshots, NotCached

-----------------------------------------------------------------------------
(* Types. *)

RunsOk == run \in [Threads -> Runs \cup {NoRun}]

LEMMA RunsShape ==
  /\ NoRun.at = "out" /\ NoRun.nudged = 0 /\ NoRun.steps = 0
  /\ RunBefore(0, 0) \in Runs
  /\ NoRun \notin Runs
  /\ \A r \in Runs : r.at \in {"before", "inside"} /\ r # NoRun
BY LoopAssumption DEF NoRun, RunBefore, Runs

LEMMA RunBeforeIs ==
  ASSUME NEW s, NEW n
  PROVE  RunBefore(s, n).at = "before" /\ RunBefore(s, n).nudged = n
BY DEF RunBefore

LEMMA RunIs ==
  ASSUME RunsOk, NEW t \in Threads, run[t].at # "out"
  PROVE  run[t] \in Runs /\ t \in Running
BY RunsShape DEF RunsOk, Running

(* One run changes. *)
LEMMA RunChanges ==
  ASSUME RunsOk, StepsLeft, NEW t \in Threads, NEW r \in Runs \cup {NoRun},
         run' = [run EXCEPT ![t] = r],
         r.at = "inside" => r.steps < RecursionLimit
  PROVE  /\ RunsOk' /\ StepsLeft'
         /\ run'[t] = r
         /\ \A u \in Threads \ {t} : run'[u] = run[u]
         /\ Running' = IF r = NoRun THEN Running \ {t} ELSE Running \cup {t}
<1>1. run'[t] = r /\ \A u \in Threads \ {t} : run'[u] = run[u]
  BY DEF RunsOk
<1>2. RunsOk'
  BY DEF RunsOk
<1>3. StepsLeft'
  BY <1>1 DEF StepsLeft
<1>. QED BY <1>1, <1>2, <1>3 DEF Running

(* What each kind of step makes of its run. *)
LEMMA RunEnters ==
  ASSUME RunsOk, NEW t \in Threads, NEW k \in 0..MaxCalls,
         run[t].at = "before", run[t].steps < RecursionLimit
  PROVE  /\ [run[t] EXCEPT !.at = "inside"] \in Runs
         /\ [run[t] EXCEPT !.at = "inside"].steps < RecursionLimit
         /\ [run[t] EXCEPT !.at = "inside"].nudged = run[t].nudged
         /\ [run[t] EXCEPT !.at = "inside", !.left = k] \in Runs
         /\ [run[t] EXCEPT !.at = "inside", !.left = k].steps < RecursionLimit
         /\ [run[t] EXCEPT !.at = "inside", !.left = k].nudged = run[t].nudged
<1>1. run[t] \in Runs
  BY RunIs
<1>. QED BY <1>1 DEF Runs

LEMMA RunStays ==
  ASSUME RunsOk, StepsLeft, NEW t \in Threads, run[t].at = "inside"
  PROVE  /\ run[t].failed < MaxRetries
              => LET r == [run[t] EXCEPT !.failed = @ + 1]
                 IN  r \in Runs /\ r.steps < RecursionLimit /\ r.nudged = run[t].nudged
         /\ run[t].left > 0
              => LET r == [run[t] EXCEPT !.left = @ - 1]
                 IN  r \in Runs /\ r.steps < RecursionLimit /\ r.nudged = run[t].nudged
<1>1. run[t] \in Runs /\ run[t].steps < RecursionLimit
  BY RunIs DEF StepsLeft
<1>. QED BY <1>1, LoopAssumption DEF Runs

LEMMA RunLeaves ==
  ASSUME RunsOk, NEW t \in Threads, NEW n \in Nat,
         run[t].at # "out", run[t].steps < RecursionLimit
  PROVE  RunBefore(run[t].steps + 1, run[t].nudged + n) \in Runs
<1>1. run[t] \in Runs
  BY RunIs
<1>2. /\ run[t].steps + 1 \in 0..RecursionLimit /\ run[t].nudged + n \in Nat
      /\ 0 \in 0..MaxRetries /\ 0 \in 0..MaxCalls
  BY <1>1, LoopAssumption DEF Runs
<1>. QED BY <1>2 DEF Runs, RunBefore

(* The node's end: the checkpoint moves on, and the run with it. *)
LEMMA NodeEnds ==
  ASSUME RunsOk, StepsLeft, node \in [Threads -> Nodes], NEW t \in Threads,
         NEW next \in Nodes, NEW n \in Nat,
         run[t].at # "out", run[t].steps < RecursionLimit, Leaves(t, next, n)
  PROVE  /\ RunsOk' /\ StepsLeft' /\ node' \in [Threads -> Nodes]
         /\ node'[t] = next
         /\ next # "end" => t \in Running' /\ run'[t].nudged = run[t].nudged + n
         /\ next = "end" => t \notin Running'
         /\ \A u \in Threads \ {t} : run'[u] = run[u] /\ node'[u] = node[u]
         /\ Running' \subseteq Running
<1> DEFINE r == IF next = "end" THEN NoRun
                ELSE RunBefore(run[t].steps + 1, run[t].nudged + n)
<1>1. /\ run' = [run EXCEPT ![t] = r] /\ node' = [node EXCEPT ![t] = next]
  BY DEF Leaves
<1>2. /\ r \in Runs \cup {NoRun} /\ r.at # "inside" /\ (r = NoRun <=> next = "end")
      /\ next # "end" => r.nudged = run[t].nudged + n
  BY RunLeaves, RunsShape, RunBeforeIs
<1>3. t \in Running
  BY RunIs
<1>. HIDE DEF r
<1>4. /\ RunsOk' /\ StepsLeft' /\ run'[t] = r
      /\ \A u \in Threads \ {t} : run'[u] = run[u]
      /\ Running' = IF r = NoRun THEN Running \ {t} ELSE Running \cup {t}
  BY <1>1, <1>2, RunChanges
<1>5. /\ node' \in [Threads -> Nodes] /\ node'[t] = next
      /\ \A u \in Threads \ {t} : node'[u] = node[u]
  BY <1>1
<1>. QED BY <1>2, <1>3, <1>4, <1>5

(* A run goes on inside its node, or starts it. *)
Continues(t) ==
  \E r \in Runs :
    /\ run' = [run EXCEPT ![t] = r]
    /\ r.steps < RecursionLimit /\ r.nudged = run[t].nudged

LEMMA ContinuesRun ==
  ASSUME RunsOk, StepsLeft, NEW t \in Threads, run[t].at # "out", Continues(t)
  PROVE  /\ RunsOk' /\ StepsLeft' /\ Running' = Running
         /\ \A u \in Threads : run'[u].nudged = run[u].nudged
<1>1. PICK r \in Runs : /\ run' = [run EXCEPT ![t] = r]
                        /\ r.steps < RecursionLimit /\ r.nudged = run[t].nudged
  BY DEF Continues
<1>2. /\ RunsOk' /\ StepsLeft' /\ run'[t] = r
      /\ \A u \in Threads \ {t} : run'[u] = run[u]
      /\ Running' = IF r = NoRun THEN Running \ {t} ELSE Running \cup {t}
  BY <1>1, RunChanges
<1>3. r # NoRun /\ t \in Running
  BY RunsShape, RunIs
<1>. QED BY <1>1, <1>2, <1>3

LEMMA EntersContinues ==
  ASSUME TypeInv, NEW t \in Threads, ModelBegins(t) \/ ToolsBegin(t)
  PROVE  run[t].at # "out" /\ Continues(t)
<1>1. /\ RunsOk /\ run[t].at = "before" /\ run[t].steps < RecursionLimit
      /\ calls[t] \in 0..MaxCalls
  BY DEF TypeInv, TypeOK, RunsOk, ModelBegins, ToolsBegin, Enters
<1>2. CASE ModelBegins(t)
  <2>1. 0 \in 0..MaxCalls
    BY LoopAssumption
  <2>2. run' = [run EXCEPT ![t] = [run[t] EXCEPT !.at = "inside"]]
    BY <1>2 DEF ModelBegins
  <2>. QED BY <1>1, <2>1, <2>2, RunEnters DEF Continues
<1>3. CASE ToolsBegin(t)
  <2>1. run' = [run EXCEPT ![t] = [run[t] EXCEPT !.at = "inside", !.left = calls[t]]]
    BY <1>3 DEF ToolsBegin
  <2>. QED BY <1>1, <2>1, RunEnters DEF Continues
<1>. QED BY <1>2, <1>3

LEMMA StaysContinues ==
  ASSUME TypeInv, NEW t \in Threads, AttemptFails(t) \/ Executes(t)
  PROVE  run[t].at # "out" /\ Continues(t)
<1>1. RunsOk /\ StepsLeft /\ run[t].at = "inside"
  BY DEF TypeInv, TypeOK, RunsOk, AttemptFails, Executes, Inside
<1>2. CASE AttemptFails(t)
  <2>1. /\ run[t].failed < MaxRetries
        /\ run' = [run EXCEPT ![t] = [run[t] EXCEPT !.failed = @ + 1]]
    BY <1>2 DEF AttemptFails
  <2>. QED BY <1>1, <2>1, RunStays DEF Continues
<1>3. CASE Executes(t)
  <2>1. /\ run[t].left > 0
        /\ run' = [run EXCEPT ![t] = [run[t] EXCEPT !.left = @ - 1]]
    BY <1>3 DEF Executes
  <2>. QED BY <1>1, <2>1, RunStays DEF Continues
<1>. QED BY <1>2, <1>3

LEMMA RaisesRun ==
  ASSUME RunsOk, StepsLeft, NEW t \in Threads, Raises(t)
  PROVE  /\ RunsOk' /\ StepsLeft' /\ Running' = Running \ {t}
         /\ \A u \in Threads \ {t} : run'[u] = run[u]
<1>1. run' = [run EXCEPT ![t] = NoRun] /\ NoRun.at # "inside"
  BY RunsShape DEF Raises
<1>2. NoRun \in Runs \cup {NoRun}
  OBVIOUS
<1>. QED BY <1>1, <1>2, RunChanges

LEMMA StartRun ==
  ASSUME RunsOk, StepsLeft, NEW t \in Threads, NEW n \in Nodes, Start(t, n)
  PROVE  /\ RunsOk' /\ StepsLeft' /\ Running' = Running \cup {t}
         /\ run'[t].nudged = 0
<1>1. /\ run' = [run EXCEPT ![t] = RunBefore(0, 0)]
      /\ RunBefore(0, 0) \in Runs
      /\ RunBefore(0, 0).at # "inside" /\ RunBefore(0, 0).nudged = 0
  BY RunsShape, RunBeforeIs DEF Start
<1>2. RunBefore(0, 0) # NoRun
  BY <1>1, RunsShape
<1>. QED BY <1>1, <1>2, RunChanges

LEMMA TypeParts ==
  TypeOK <=> /\ RegistryTypeOK /\ RunsOk
             /\ node \in [Threads -> Nodes] /\ calls \in [Threads -> 0..MaxCalls]
             /\ overlapped \in BOOLEAN
BY DEF TypeOK, RunsOk

LEMMA RegistrySame ==
  ASSUME UNCHANGED registryVars
  PROVE  /\ RegistryTypeOK' = RegistryTypeOK
         /\ \A u : PlanOf(u)' = PlanOf(u)
BY DEF registryVars, RegistryTypeOK, PlanOf

LEMMA NudgeKeeps ==
  ASSUME RegistryTypeOK, format_nudge_message
  PROVE  RegistryTypeOK' /\ \A u : PlanOf(u)' = PlanOf(u)
BY DEF format_nudge_message, RegistryTypeOK, PlanOf

(* ModelCalls, ModelStops and ToolsDone end a node without a nudge. *)
LEMMA LeavesFrom ==
  ASSUME TypeInv, NEW t \in Threads,
         (\E k \in 1..MaxCalls : ModelCalls(t, k)) \/ ModelStops(t) \/ ToolsDone(t)
  PROVE  /\ run[t].at # "out" /\ run[t].steps < RecursionLimit
         /\ UNCHANGED <<registryVars, boundVars>>
         /\ calls' \in [Threads -> 0..MaxCalls]
         /\ \E next \in Nodes :
              /\ Leaves(t, next, 0)
              /\ next = "guard" => should_nudge(MaxNudges)
<1>0. /\ calls \in [Threads -> 0..MaxCalls] /\ StepsLeft
      /\ 0 \in 0..MaxCalls /\ 1..MaxCalls \subseteq 0..MaxCalls
  BY LoopAssumption DEF TypeInv, TypeOK
<1>1. ASSUME NEW k \in 1..MaxCalls, ModelCalls(t, k)
      PROVE  /\ Inside(t, "model") /\ UNCHANGED <<registryVars, boundVars>>
             /\ calls' \in [Threads -> 0..MaxCalls] /\ Leaves(t, "tools", 0)
  BY <1>0, <1>1 DEF ModelCalls
<1>2. ASSUME ModelStops(t)
      PROVE  /\ Inside(t, "model") /\ UNCHANGED <<registryVars, boundVars>>
             /\ calls' \in [Threads -> 0..MaxCalls]
             /\ \/ Leaves(t, "end", 0)
                \/ Leaves(t, "guard", 0) /\ should_nudge(MaxNudges)
  <2>1. CASE should_nudge(MaxNudges)
    BY <1>0, <1>2, <2>1 DEF ModelStops
  <2>2. CASE ~ should_nudge(MaxNudges)
    BY <1>0, <1>2, <2>2 DEF ModelStops
  <2>. QED BY <2>1, <2>2
<1>3. ASSUME ToolsDone(t)
      PROVE  /\ Inside(t, "tools") /\ UNCHANGED <<registryVars, boundVars>>
             /\ calls' \in [Threads -> 0..MaxCalls] /\ Leaves(t, "model", 0)
  BY <1>0, <1>3 DEF ToolsDone
<1>4. run[t].at = "inside" /\ UNCHANGED <<registryVars, boundVars>>
      /\ calls' \in [Threads -> 0..MaxCalls]
  BY <1>1, <1>2, <1>3 DEF Inside
<1>5. \E next \in Nodes : Leaves(t, next, 0) /\ (next = "guard" => should_nudge(MaxNudges))
  BY <1>1, <1>2, <1>3 DEF Nodes
<1>. QED BY <1>0, <1>4, <1>5 DEF StepsLeft

LEMMA TypeInvStep ==
  ASSUME TypeInv, [Next]_vars
  PROVE  TypeInv'
<1>0. /\ RegistryTypeOK /\ RunsOk /\ StepsLeft /\ node \in [Threads -> Nodes]
      /\ calls \in [Threads -> 0..MaxCalls] /\ overlapped \in BOOLEAN
  BY TypeParts DEF TypeInv
<1>1. ASSUME NEW t \in Threads, Invoke(t) \/ Resume(t)
      PROVE  TypeInv'
  <2>1. PICK n \in Nodes : Start(t, n)
    BY <1>0, <1>1 DEF Invoke, Resume, Nodes
  <2>2. RegistryTypeOK' /\ RunsOk' /\ StepsLeft'
    BY <1>0, <2>1, StartRun, SwitchKeepsPlans DEF Start
  <2>. QED BY <1>0, <2>1, <2>2 DEF Start, TypeInv, TypeOK, RunsOk
<1>2. ASSUME NEW t \in Threads, Raises(t)
      PROVE  TypeInv'
  BY <1>0, <1>2, RaisesRun, RegistrySame
     DEF Raises, checkpointVars, TypeInv, TypeOK, RunsOk
<1>3. CASE Restart
  <2>1. RunsOk' /\ StepsLeft'
    BY <1>3, RunsShape DEF Restart, RunsOk, StepsLeft
  <2>. QED BY <1>0, <1>3, <2>1, ReloadLoads DEF Restart, checkpointVars, TypeInv, TypeOK, RunsOk
<1>4. ASSUME NEW t \in Threads, ModelBegins(t) \/ ToolsBegin(t) \/ AttemptFails(t) \/ OtherTool(t)
      PROVE  TypeInv'
  <2>1. run[t].at # "out" /\ Continues(t)
    BY <1>4, EntersContinues, StaysContinues DEF OtherTool
  <2>2. UNCHANGED <<registryVars, node, calls, overlapped>>
    BY <1>4 DEF ModelBegins, ToolsBegin, AttemptFails, OtherTool, Executes,
                checkpointVars, boundVars
  <2>. QED BY <1>0, <2>1, <2>2, ContinuesRun, RegistrySame DEF TypeInv, TypeOK, RunsOk
<1>5. ASSUME NEW t \in Threads,
             (\E k \in 1..MaxCalls : ModelCalls(t, k)) \/ ModelStops(t) \/ ToolsDone(t)
      PROVE  TypeInv'
  <2>1. /\ run[t].at # "out" /\ run[t].steps < RecursionLimit
        /\ UNCHANGED <<registryVars, boundVars>> /\ calls' \in [Threads -> 0..MaxCalls]
        /\ \E next \in Nodes : Leaves(t, next, 0)
    BY <1>5, LeavesFrom
  <2>2. RunsOk' /\ StepsLeft' /\ node' \in [Threads -> Nodes]
    BY <1>0, <2>1, NodeEnds
  <2>. QED BY <1>0, <2>1, <2>2, RegistrySame DEF boundVars, TypeInv, TypeOK, RunsOk
<1>6. ASSUME NEW t \in Threads, NEW pending \in BOOLEAN,
             UpdatePlan(t, pending) \/ UpdatePlanFails(t, pending)
      PROVE  TypeInv'
  <2>1. [by |-> t, pending |-> pending] \in Plans
    BY DEF Plans
  <2>2. RegistryTypeOK'
    BY <1>0, <1>6, <2>1, UpdateIsLocal DEF UpdatePlan, UpdatePlanFails
  <2>3. Executes(t)
    BY <1>6 DEF UpdatePlan, UpdatePlanFails
  <2>4. RunsOk' /\ StepsLeft'
    BY <1>0, <2>3, StaysContinues, ContinuesRun
  <2>. QED BY <1>0, <2>2, <2>3, <2>4 DEF Executes, checkpointVars, TypeInv, TypeOK, RunsOk
<1>7. ASSUME NEW t \in Threads, Guard(t)
      PROVE  TypeInv'
  <2>1. /\ run[t].at # "out" /\ run[t].steps < RecursionLimit
        /\ Leaves(t, "model", 1) /\ "model" \in Nodes /\ 1 \in Nat
    BY <1>7 DEF Guard, Enters, Nodes
  <2>2. RunsOk' /\ StepsLeft' /\ node' \in [Threads -> Nodes]
    BY <1>0, <2>1, NodeEnds
  <2>3. RegistryTypeOK'
    BY <1>0, <1>7, NudgeKeeps DEF Guard
  <2>. QED BY <1>0, <1>7, <2>2, <2>3 DEF Guard, boundVars, TypeInv, TypeOK, RunsOk
<1>8. CASE UNCHANGED vars
  <2>1. UNCHANGED <<registryVars, node, calls, run, overlapped>>
    BY <1>8 DEF vars, checkpointVars, boundVars
  <2>. QED BY <1>0, <2>1, RegistrySame DEF RunsOk, StepsLeft, TypeInv, TypeOK
<1>9. ASSUME NEW t \in Threads, RunStep(t) \/ Stopped(t)
      PROVE  TypeInv'
  BY <1>2, <1>4, <1>5, <1>6, <1>7, <1>9
     DEF RunStep, RecursionError, Stopped, AttemptsExhausted
<1>. QED BY <1>1, <1>3, <1>8, <1>9 DEF Next

LEMMA TypeInvInit == Init => TypeInv
<1>. SUFFICES ASSUME Init PROVE TypeInv
  OBVIOUS
<1>1. RegistryTypeOK
  BY RegistryAssumption DEF Init, RegistryInit, RegistryTypeOK, Snapshots
<1>2. RunsOk /\ StepsLeft
  BY RunsShape DEF Init, RunsOk, StepsLeft
<1>3. /\ node \in [Threads -> Nodes] /\ calls \in [Threads -> 0..MaxCalls]
      /\ overlapped \in BOOLEAN
  <2>1. 0 \in 0..MaxCalls /\ "end" \in Nodes
    BY LoopAssumption DEF Nodes
  <2>. QED BY <2>1 DEF Init
<1>. QED BY <1>1, <1>2, <1>3, TypeParts DEF TypeInv

(* The registry, the checkpoints and the runs keep their shape, for all    *)
(* threads and bounds.                                                     *)
THEOREM LoopTypeCorrect == Spec => []TypeOK
<1>1. TypeInv => TypeOK
  BY DEF TypeInv
<1>2. TypeInv /\ [Next]_vars => TypeInv'
  BY TypeInvStep
<1>. QED BY TypeInvInit, <1>1, <1>2, PTL DEF Spec

-----------------------------------------------------------------------------
(* Plans, nudges and the guard: one lemma per kind of step. *)

LEMMA StartKeeps ==
  ASSUME TypeInv, LoopInv, NEW t \in Threads, Invoke(t) \/ Resume(t)
  PROVE  LoopInv'
<1>1. PICK n \in Nodes : Start(t, n) /\ (n = "guard" => node[t] = "guard")
  BY DEF TypeInv, TypeOK, Invoke, Resume, Nodes
<1>2. /\ active' = t /\ nudge_count' = 0
      /\ \A u \in Threads : PlanOf(u)' = PlanOf(u)
      /\ files' = files /\ unsaved' = unsaved
  BY <1>1, SwitchKeepsPlans DEF Start, Activate, TypeInv, TypeOK
<1>3. Running' = Running \cup {t} /\ run'[t].nudged = 0
  BY <1>1, StartRun, TypeParts DEF TypeInv
<1>4. \A u \in Threads : node'[u] = "guard" => node[u] = "guard"
  BY <1>1 DEF Start, TypeInv, TypeOK
<1>5. PlansSurvive' /\ GuardMeansNudges'
  BY <1>2, <1>4 DEF LoopInv, PlansSurvive, GuardMeansNudges
<1>6. ASSUME ~ overlapped'
      PROVE  OneRun'
  <2>1. ~ overlapped /\ Running = {}
    BY <1>1, <1>6 DEF Start
  <2>2. Running' = {t} /\ OneRun
    BY <1>3, <2>1 DEF LoopInv
  <2>3. ThreadsIsolated' /\ FilesOwn' /\ Work'
    BY <1>2, <1>4, <2>2 DEF OneRun, ThreadsIsolated, FilesOwn, Work
  <2>4. Alone'
    BY <1>2, <2>2 DEF Alone
  <2>5. Budget'
    BY <1>2, <1>3, <1>4, <2>2, RegistryAssumption DEF Budget, LoopInv, GuardMeansNudges
  <2>. QED BY <2>3, <2>4, <2>5 DEF OneRun
<1>. QED BY <1>5, <1>6 DEF LoopInv

(* Steps that leave the registry and the checkpoints alone. *)
LEMMA RunOnlyKeeps ==
  ASSUME LoopInv, UNCHANGED <<registryVars, node, overlapped>>,
         Running' \subseteq Running,
         \A t \in Running' : run'[t].nudged = run[t].nudged
  PROVE  LoopInv'
<1>1. /\ \A u \in Threads : PlanOf(u)' = PlanOf(u)
      /\ UNCHANGED <<active, nudge_count, files, unsaved>>
  BY RegistrySame DEF registryVars
<1>2. PlansSurvive' /\ GuardMeansNudges'
  BY <1>1 DEF LoopInv, PlansSurvive, GuardMeansNudges
<1>3. ASSUME OneRun
      PROVE  OneRun'
  <2>1. ThreadsIsolated' /\ FilesOwn' /\ Work'
    BY <1>1, <1>3 DEF OneRun, ThreadsIsolated, FilesOwn, Work
  <2>2. Alone' /\ Budget'
    BY <1>1, <1>3 DEF OneRun, Alone, Budget
  <2>. QED BY <2>1, <2>2 DEF OneRun
<1>. QED BY <1>2, <1>3 DEF LoopInv

LEMMA LeavesKeeps ==
  ASSUME TypeInv, LoopInv, NEW t \in Threads,
         (\E k \in 1..MaxCalls : ModelCalls(t, k)) \/ ModelStops(t) \/ ToolsDone(t)
  PROVE  LoopInv'
<1>1. /\ run[t].at # "out" /\ run[t].steps < RecursionLimit
      /\ UNCHANGED <<registryVars, boundVars>>
      /\ \E next \in Nodes : Leaves(t, next, 0) /\ (next = "guard" => should_nudge(MaxNudges))
  BY LeavesFrom
<1>2. PICK next \in Nodes : Leaves(t, next, 0) /\ (next = "guard" => should_nudge(MaxNudges))
  BY <1>1
<1>3. /\ node'[t] = next
      /\ next # "end" => t \in Running' /\ run'[t].nudged = run[t].nudged + 0
      /\ next = "end" => t \notin Running'
      /\ \A u \in Threads \ {t} : run'[u] = run[u] /\ node'[u] = node[u]
      /\ Running' \subseteq Running
  BY <1>1, <1>2, NodeEnds, TypeParts DEF TypeInv
<1>4. run[t] \in Runs /\ t \in Running
  BY <1>1, RunIs, TypeParts DEF TypeInv
<1>5. run[t].nudged + 0 = run[t].nudged
  BY <1>4 DEF Runs
<1>6. /\ \A u \in Threads : PlanOf(u)' = PlanOf(u)
      /\ UNCHANGED <<active, nudge_count, files, unsaved, overlapped>>
  BY <1>1, RegistrySame DEF registryVars, boundVars
<1>7. next = "guard" => plan.pending /\ nudge_count < MaxNudges /\ MaxNudges > 0
  BY <1>2, RegistryAssumption DEF should_nudge, TypeInv, TypeOK, RegistryTypeOK
<1>8. PlansSurvive' /\ GuardMeansNudges'
  BY <1>3, <1>6, <1>7 DEF LoopInv, PlansSurvive, GuardMeansNudges
<1>9. ASSUME OneRun
      PROVE  OneRun'
  <2>1. t = active /\ PlanOf(t) = plan
    BY <1>4, <1>9 DEF OneRun, Alone, PlanOf
  <2>2. ThreadsIsolated' /\ FilesOwn'
    BY <1>6, <1>9 DEF OneRun, ThreadsIsolated, FilesOwn
  <2>3. Work'
    BY <1>3, <1>6, <1>7, <1>9, <2>1 DEF OneRun, Work
  <2>4. Alone'
    BY <1>3, <1>6, <1>9 DEF OneRun, Alone
  <2>5. Budget'
    BY <1>3, <1>5, <1>6, <1>7, <1>9 DEF OneRun, Budget, Running
  <2>. QED BY <2>2, <2>3, <2>4, <2>5 DEF OneRun
<1>. QED BY <1>6, <1>8, <1>9 DEF LoopInv

LEMMA UpdateKeeps ==
  ASSUME TypeInv, LoopInv, NEW t \in Threads, NEW pending \in BOOLEAN,
         UpdatePlan(t, pending) \/ UpdatePlanFails(t, pending)
  PROVE  LoopInv'
<1> DEFINE p == [by |-> t, pending |-> pending]
<1>1. p \in Plans /\ p.by = t
  BY DEF Plans
<1>2. /\ Executes(t) /\ Inside(t, "tools")
      /\ Update(p) \/ UpdateUnsaved(p)
      /\ UNCHANGED <<node, overlapped>>
  BY DEF UpdatePlan, UpdatePlanFails, Executes, checkpointVars
<1>. HIDE DEF p
<1>3. /\ active' = active /\ nudge_count' = nudge_count /\ active \in Threads
      /\ PlanOf(active)' = p
      /\ \A u \in Threads \ {active} : PlanOf(u)' = PlanOf(u) /\ files'[u] = files[u]
      /\ active \notin unsaved' => files'[active] = p
      /\ unsaved' \ {active} = unsaved \ {active}
  BY <1>1, <1>2, UpdateIsLocal DEF TypeInv, TypeOK, RegistryTypeOK
<1>4. /\ files'[active] = p \/ files'[active] = files[active]
  BY <1>2, <1>3 DEF Update, UpdateUnsaved, TypeInv, TypeOK, RegistryTypeOK
<1>5. /\ run[t].at # "out" /\ t \in Running
      /\ Running' = Running /\ \A u \in Threads : run'[u].nudged = run[u].nudged
  BY <1>2, StaysContinues, ContinuesRun, RunIs, TypeParts DEF TypeInv
<1>6. PlansSurvive'
  BY <1>3 DEF LoopInv, PlansSurvive
<1>7. GuardMeansNudges'
  BY <1>2 DEF LoopInv, GuardMeansNudges
<1>8. ASSUME OneRun
      PROVE  OneRun'
  <2>1. t = active
    BY <1>5, <1>8 DEF OneRun, Alone
  <2>2. ThreadsIsolated' /\ FilesOwn'
    BY <1>1, <1>3, <1>4, <1>8, <2>1 DEF OneRun, ThreadsIsolated, FilesOwn
  <2>3. node[t] # "guard"
    BY <1>2 DEF Inside
  <2>4. Work'
    BY <1>2, <1>3, <1>8, <2>1, <2>3 DEF OneRun, Work
  <2>5. Alone' /\ Budget'
    BY <1>2, <1>3, <1>5, <1>8 DEF OneRun, Alone, Budget, Running
  <2>. QED BY <2>2, <2>4, <2>5 DEF OneRun
<1>. QED BY <1>2, <1>6, <1>7, <1>8 DEF LoopInv

LEMMA GuardKeeps ==
  ASSUME TypeInv, LoopInv, NEW t \in Threads, Guard(t)
  PROVE  LoopInv'
<1>1. /\ run[t].at # "out" /\ run[t].steps < RecursionLimit /\ node[t] = "guard"
      /\ Leaves(t, "model", 1) /\ "model" \in Nodes /\ 1 \in Nat
      /\ format_nudge_message /\ overlapped' = overlapped
  BY DEF Guard, Enters, Nodes, boundVars
<1>2. /\ node'[t] = "model"
      /\ t \in Running' /\ run'[t].nudged = run[t].nudged + 1
      /\ \A u \in Threads \ {t} : run'[u] = run[u] /\ node'[u] = node[u]
      /\ Running' \subseteq Running
  BY <1>1, NodeEnds, TypeParts DEF TypeInv
<1>3. /\ \A u \in Threads : PlanOf(u)' = PlanOf(u)
      /\ UNCHANGED <<active, files, unsaved>> /\ nudge_count' = nudge_count + 1
  BY <1>1, NudgeKeeps, TypeParts DEF format_nudge_message, TypeInv
<1>4. PlansSurvive' /\ GuardMeansNudges'
  BY <1>2, <1>3 DEF LoopInv, PlansSurvive, GuardMeansNudges
<1>5. ASSUME OneRun
      PROVE  OneRun'
  <2>1. t = active /\ t \in Running
    BY <1>2, <1>5 DEF OneRun, Alone
  <2>2. ThreadsIsolated' /\ FilesOwn' /\ Work'
    BY <1>2, <1>3, <1>5 DEF OneRun, ThreadsIsolated, FilesOwn, Work
  <2>3. Alone' /\ Running' = {t}
    BY <1>2, <1>3, <1>5, <2>1 DEF OneRun, Alone
  <2>4. nudge_count < MaxNudges /\ run[t].nudged = nudge_count /\ nudge_count \in Nat
    BY <1>1, <1>5, <2>1 DEF OneRun, Budget, TypeInv, TypeOK, RegistryTypeOK
  <2>5. Budget'
    BY <1>2, <1>3, <2>3, <2>4, RegistryAssumption DEF Budget
  <2>. QED BY <2>2, <2>3, <2>5 DEF OneRun
<1>. QED BY <1>1, <1>4, <1>5 DEF LoopInv

LEMMA RestartKeeps ==
  ASSUME TypeInv, LoopInv, Restart
  PROVE  LoopInv'
<1>1. /\ \A u \in Threads : PlanOf(u)' = files[u]
      /\ UNCHANGED <<files, unsaved, node, overlapped>>
      /\ Running' = {}
  BY ReloadLoads, TypeParts DEF Restart, checkpointVars, Running, TypeInv
<1>2. PlansSurvive' /\ GuardMeansNudges'
  BY <1>1 DEF LoopInv, PlansSurvive, GuardMeansNudges
<1>3. ASSUME OneRun
      PROVE  OneRun'
  <2>1. ThreadsIsolated' /\ FilesOwn' /\ Alone' /\ Budget'
    BY <1>1, <1>3 DEF OneRun, ThreadsIsolated, FilesOwn, Alone, Budget
  <2>2. Work'
    BY <1>1, <1>3 DEF OneRun, Work, LoopInv, PlansSurvive
  <2>. QED BY <2>1, <2>2 DEF OneRun
<1>. QED BY <1>1, <1>2, <1>3 DEF LoopInv

LEMMA LoopInvStep ==
  ASSUME TypeInv, LoopInv, [Next]_vars
  PROVE  LoopInv'
<1>1. ASSUME NEW t \in Threads, Raises(t)
      PROVE  LoopInv'
  <2>1. Running' = Running \ {t} /\ \A u \in Threads \ {t} : run'[u] = run[u]
    BY <1>1, RaisesRun, TypeParts DEF TypeInv
  <2>2. UNCHANGED <<registryVars, node, overlapped>>
    BY <1>1 DEF Raises, checkpointVars
  <2>. QED BY <2>1, <2>2, RunOnlyKeeps DEF Running
<1>2. ASSUME NEW t \in Threads, ModelBegins(t) \/ ToolsBegin(t) \/ AttemptFails(t) \/ OtherTool(t)
      PROVE  LoopInv'
  <2>1. run[t].at # "out" /\ Continues(t)
    BY <1>2, EntersContinues, StaysContinues DEF OtherTool
  <2>2. UNCHANGED <<registryVars, node, overlapped>>
    BY <1>2 DEF ModelBegins, ToolsBegin, AttemptFails, OtherTool, Executes,
                checkpointVars, boundVars
  <2>3. Running' = Running /\ \A u \in Threads : run'[u].nudged = run[u].nudged
    BY <2>1, ContinuesRun, TypeParts DEF TypeInv
  <2>. QED BY <2>2, <2>3, RunOnlyKeeps DEF Running
<1>3. CASE UNCHANGED vars
  <2>1. UNCHANGED <<registryVars, node, run, overlapped>>
    BY <1>3 DEF vars, checkpointVars, boundVars
  <2>. QED BY <2>1, RunOnlyKeeps DEF Running
<1>4. ASSUME NEW t \in Threads, RunStep(t) \/ Stopped(t)
      PROVE  LoopInv'
  BY <1>1, <1>2, <1>4, LeavesKeeps, UpdateKeeps, GuardKeeps
     DEF RunStep, RecursionError, Stopped, AttemptsExhausted
<1>. QED BY <1>3, <1>4, StartKeeps, RestartKeeps DEF Next

LEMMA LoopInvInit == Init => LoopInv
<1>. SUFFICES ASSUME Init PROVE LoopInv
  OBVIOUS
<1>1. /\ \A t \in Threads : PlanOf(t) = NoPlan /\ files[t] = NoPlan
      /\ Running = {} /\ \A t \in Threads : node[t] # "guard"
  BY DEF Init, RegistryInit, PlanOf, Running
<1>. QED BY <1>1, PlansShape
         DEF LoopInv, PlansSurvive, GuardMeansNudges, OneRun, ThreadsIsolated, Alone,
             FilesOwn, Budget, Work

LEMMA LoopInvariant == Spec => [](TypeInv /\ LoopInv)
<1>1. TypeInv /\ LoopInv /\ [Next]_vars => (TypeInv /\ LoopInv)'
  BY TypeInvStep, LoopInvStep
<1>. QED BY TypeInvInit, LoopInvInit, <1>1, PTL DEF Spec

-----------------------------------------------------------------------------

(* As long as no two runs overlap, what the registry holds for a thread is *)
(* the work of its own runs.                                               *)
THEOREM PlansIsolated == Spec => []OwnPlan
<1>1. LoopInv => OwnPlan
  BY DEF LoopInv, OneRun, OwnPlan
<1>. QED BY LoopInvariant, <1>1, PTL

(* A restart loses no plan that was written, overlapping runs or not.      *)
THEOREM RestartSafe == Spec => []PlansSurvive
<1>1. LoopInv => PlansSurvive
  BY DEF LoopInv
<1>. QED BY LoopInvariant, <1>1, PTL

(* As long as no two runs overlap, no run is nudged more than MaxNudges    *)
(* times.                                                                  *)
THEOREM NudgesBounded == Spec => []NudgesPerRun
<1>1. ASSUME LoopInv, ~ overlapped, NEW t \in Threads
      PROVE  run[t].nudged <= MaxNudges
  <2>1. CASE t \in Running
    BY <1>1, <2>1 DEF LoopInv, OneRun, Budget
  <2>2. CASE t \notin Running
    BY <2>2, RunsShape, RegistryAssumption DEF Running
  <2>. QED BY <2>1, <2>2
<1>2. LoopInv => NudgesPerRun
  BY <1>1 DEF NudgesPerRun
<1>. QED BY LoopInvariant, <1>2, PTL

(* As long as no two runs overlap, a run at the guard has work pending in  *)
(* its own plan.                                                           *)
THEOREM NudgesHaveWork == Spec => []GuardHasWork
<1>1. LoopInv => GuardHasWork
  BY DEF LoopInv, OneRun, Work, GuardHasWork, Running
<1>. QED BY LoopInvariant, <1>1, PTL

(* Budget and reason of every nudge together, as the run checks them.      *)
THEOREM NudgesSound == Spec => []NudgesJustified
<1>1. TypeOK /\ NudgesPerRun /\ GuardHasWork => NudgesJustified
  BY DEF NudgesJustified
<1>. QED BY <1>1, LoopTypeCorrect, NudgesBounded, NudgesHaveWork, PTL
=============================================================================
