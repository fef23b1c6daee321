----------------------------- MODULE Heartbeat -----------------------------
(***************************************************************************)
(* The heartbeat scheduler, environments/heartbeat/scheduler.py: start()   *)
(* fires the hibernation triggers and creates the tick loop, every tick    *)
(* reads HEARTBEAT_SCHEDULE.md, fires the entries that are due, reports    *)
(* malformed entries to the agent, polls the watched files, and sleeps.    *)
(* What has fired is remembered in memory and in heartbeat_log.jsonl, of   *)
(* which the last MaxLog records survive; a process that starts again      *)
(* reads them back.                                                        *)
(*                                                                         *)
(* Everything runs on one asyncio thread: a coroutine keeps the thread     *)
(* until its next await, so the steps of a tick between two awaits are not *)
(* interleaved with another coroutine (Turn).  Time is kept as ages that   *)
(* saturate at Cap, so the model runs for ever; a unit of time is shorter  *)
(* than a minute of the cron clock.                                        *)
(***************************************************************************)
EXTENDS Integers, Sequences, FiniteSets, SequencesExt

CONSTANTS
    Calls,            \* calls of start() whose coroutine or loop may be alive
    Schedule,         \* the entries of the schedule file, in file order
    Every,            \* entry with "cron: every Xs" -> its interval
    CronMinutes,      \* entry with a cron expression -> the minutes it matches
    Period,           \* units of time after which the cron clock repeats
    MinuteLen,        \* units of time in one minute of the cron clock
    WatchPaths,       \* watched paths of the file_changed trigger, in order
    TickInterval,     \* config.tick_interval
    Cooldown,         \* cooldown of the file_changed trigger
    MaxLog,           \* config.max_log_entries
    AllowConcurrent,  \* config.allow_concurrent
    SelfHeal,         \* config.self_heal
    Editable,         \* bound: the entries that somebody edits
    Late,             \* bound: a sleep overruns by at most so much
    MaxTick,          \* bound: a tick lasts at most so long
    None              \* no task, nothing in hand

Entries == ToSet(Schedule)
Watched == ToSet(WatchPaths)
Heal  == "self-heal"    \* what a task has in hand: the self-heal prompt ...
Other == "other"        \* ... and the name of a log record of no entry
Never == -1             \* no firing remembered

ASSUME HeartbeatAssumption ==
    /\ Schedule \in Seq(Entries) /\ WatchPaths \in Seq(Watched)
    /\ Entries = DOMAIN Every \cup DOMAIN CronMinutes
    /\ DOMAIN Every \cap DOMAIN CronMinutes = {}
    /\ \A n \in DOMAIN Every : Every[n] \in Nat \ {0}
    /\ {Period, MinuteLen, TickInterval, MaxLog, MaxTick} \subseteq Nat \ {0}
    /\ {Late, Cooldown} \subseteq Nat
    /\ {AllowConcurrent, SelfHeal} \subseteq BOOLEAN
    /\ Editable \subseteq Entries
    /\ None \notin Calls \cup Entries \cup Watched
    /\ {Heal, Other} \cap (Entries \cup Watched) = {} /\ Entries \cap Watched = {}

\* The age past which no comparison of the scheduler changes its answer.
Cap(n) == MaxTick + IF n \in DOMAIN Every THEN Every[n] ELSE Max({TickInterval, MinuteLen})
EventCap == MaxTick + Cooldown

Older(a, cap) == IF a \in {Never, cap} THEN a ELSE a + 1

VARIABLES
    phase,      \* position on the cron clock
    health,     \* entry -> what the schedule file holds for it
    log,        \* heartbeat_log.jsonl: records [name, age]
    running,    \* _running
    task,       \* _task: the call whose loop it is, or None
    stopping,   \* the loop stop() is waiting for, or None
    lock,       \* holder of _lock, or None
    lastFired,  \* _last_fired: entry -> age, or Never
    eventLast,  \* _event_last_fired of the file_changed trigger
    cache,      \* _file_mtimes: path -> unseen, current or stale
    healed,     \* _last_heal_errors
    pc,         \* call -> where its coroutine is
    clock,      \* call -> age of its tick, or of its sleep
    todo,       \* call -> blocks of its tick still to evaluate, by position
    errors,     \* call -> malformed entries its tick found
    inHand,     \* call -> what its effector runs for
    overlapped, \* history: start and stop have overlapped in this process
    owed        \* history: watched paths edited since their last event

file == <<phase, health, log>>
object == <<running, task, stopping, lock>>
memory == <<lastFired, eventLast, cache, healed>>
coroutines == <<pc, clock, todo, errors, inHand>>
history == <<overlapped, owed>>
vars == <<file, object, memory, coroutines, history>>

-----------------------------------------------------------------------------
\* A coroutine between two awaits has the thread.
Busy == {"periodic", "event"}
Turn(t) == \A u \in Calls \ {t} : pc[u] \notin Busy
HostTurn == \A u \in Calls : pc[u] \notin Busy

\* _log_execution with _trim_log: append, then keep the last MaxLog records.
LogExecution(name, age) ==
    LET longer == Append(log, [name |-> name, age |-> age])
    IN log' = SubSeq(longer, 1 + Max({0, Len(longer) - MaxLog}), Len(longer))

(* Mutant: a new process does not read the log back. *)
ForgetLastFired == [n \in Entries |-> Never]

\* _load_last_fired: the last record of each entry.
Fired(n) == {i \in DOMAIN log : log[i].name = n}
LoadLastFired ==
    [n \in Entries |-> IF Fired(n) = {} THEN Never ELSE log[Max(Fired(n))].age]

\* The schedule as a tick's parse_schedule_full and its cron parser see it.
ValidBlocks == {i \in DOMAIN Schedule : health[Schedule[i]] # "malformed"}
NextBlock(t) == Schedule[Min(todo[t])]
Others(t) == todo[t] \ {Min(todo[t])}
ParseErrors == {n \in Entries : health[n] = "malformed"}

\* The time a tick goes by is the one at which it began.
TickPhase(t) == (phase - clock[t]) % Period
Elapsed(t, age) == age - clock[t]

\* _should_fire_interval
IntervalDue(t, n) == lastFired[n] = Never \/ Elapsed(t, lastFired[n]) >= Every[n]

\* croniter.match, and not _was_recently_fired
CronMatches(t, n) == TickPhase(t) \div MinuteLen \in CronMinutes[n]
RecentlyFired(t, n) == lastFired[n] # Never /\ Elapsed(t, lastFired[n]) < TickInterval

\* The branches of _evaluate_periodic_triggers; a field handler may hold a
\* cron entry back (see SkipBlock).
Due(t, n) ==
    IF n \in DOMAIN Every THEN IntervalDue(t, n)
    ELSE CronMatches(t, n) /\ ~RecentlyFired(t, n)

\* _resolve_effector finds a built-in effector or the factory makes one.
Resolved(n) == health[n] # "unresolved"

(* Mutant: the effector does not wait for the lock. *)
EnterUnlocked(t, what) ==
    /\ inHand' = [inHand EXCEPT ![t] = what]
    /\ lock' = t
    /\ pc' = [pc EXCEPT ![t] = "run"]
    /\ owed' = owed \ {what}

\* `async with self._lock`, unless allow_concurrent: a free lock is taken
\* without giving up the thread and the effector begins, otherwise t waits.
Enter(t, what) ==
    /\ inHand' = [inHand EXCEPT ![t] = what]
    /\ IF AllowConcurrent \/ lock = None
       THEN /\ lock' = IF AllowConcurrent THEN lock ELSE t
            /\ pc' = [pc EXCEPT ![t] = "run"]
            /\ owed' = owed \ {what}
       ELSE pc' = [pc EXCEPT ![t] = "wait"] /\ UNCHANGED <<lock, owed>>

-----------------------------------------------------------------------------
Init ==
    /\ phase = 0
    /\ health = [n \in Entries |-> "ok"]
    /\ log = <<>>
    /\ running = FALSE /\ task = None /\ stopping = None /\ lock = None
    /\ lastFired = [n \in Entries |-> Never]
    /\ eventLast = Never
    /\ cache = [f \in Watched |-> "unseen"]
    /\ healed = {}
    /\ pc = [t \in Calls |-> "idle"]
    /\ clock = [t \in Calls |-> 0]
    /\ todo = [t \in Calls |-> {}]
    /\ errors = [t \in Calls |-> {}]
    /\ inHand = [t \in Calls |-> None]
    /\ overlapped = FALSE
    /\ owed = {}

\* start(): the flag is set, then the hibernation triggers are awaited.
Start(t) ==
    /\ HostTurn /\ pc[t] = "idle" /\ stopping # t
    /\ ~running
    /\ running' = TRUE
    /\ pc' = [pc EXCEPT ![t] = "hibernate"]
    /\ clock' = [clock EXCEPT ![t] = 0]
    /\ overlapped' = (overlapped \/ stopping # None)
    /\ UNCHANGED <<file, task, stopping, lock, memory, todo, errors, inHand, owed>>

\* The hibernation triggers have fired, or their condition held them back;
\* either way they are logged, and the tick loop is created.
Hibernated(t) ==
    /\ Turn(t) /\ pc[t] = "hibernate"
    /\ LogExecution(Other, 0)
    /\ task' = t
    /\ pc' = [pc EXCEPT ![t] = "created"]
    /\ clock' = [clock EXCEPT ![t] = 0]
    /\ UNCHANGED <<phase, health, running, stopping, lock, memory, todo, errors,
                   inHand, history>>

\* The head of _tick_loop, first or after a sleep, up to the parse of the
\* schedule file.
BeginTick(t) ==
    /\ Turn(t) /\ stopping # t
    /\ pc[t] = "created" \/ (pc[t] = "sleep" /\ clock[t] >= TickInterval)
    /\ clock' = [clock EXCEPT ![t] = 0]
    /\ IF running
       THEN /\ pc' = [pc EXCEPT ![t] = "periodic"]
            /\ todo' = [todo EXCEPT ![t] = ValidBlocks]
            /\ errors' = [errors EXCEPT ![t] = ParseErrors]
       ELSE pc' = [pc EXCEPT ![t] = "idle"] /\ UNCHANGED <<todo, errors>>
    /\ UNCHANGED <<file, object, memory, inHand, history>>

\* One block that does not fire: not due, held back by a field handler (cron
\* entries only), or naming an effector that nothing resolves.
SkipBlock(t) ==
    /\ pc[t] = "periodic" /\ todo[t] # {}
    /\ LET n == NextBlock(t)
       IN ~Due(t, n) \/ n \in DOMAIN CronMinutes \/ ~Resolved(n)
    /\ todo' = [todo EXCEPT ![t] = Others(t)]
    /\ UNCHANGED <<file, object, memory, pc, clock, errors, inHand, history>>

\* _fire_periodic for a block that is due: its effector is resolved and runs.
FireBlock(t) ==
    /\ pc[t] = "periodic" /\ todo[t] # {}
    /\ LET n == NextBlock(t)
       IN Due(t, n) /\ Resolved(n) /\ Enter(t, n)
    /\ UNCHANGED <<file, running, task, stopping, memory, clock, todo, errors,
                   overlapped>>

\* _fire_self_heal: a prompt when the errors are not those last reported.
SelfHealing(t) ==
    /\ pc[t] = "periodic" /\ todo[t] = {}
    /\ IF SelfHeal /\ errors[t] # {} /\ errors[t] # healed
       THEN healed' = errors[t] /\ Enter(t, Heal)
       ELSE pc' = [pc EXCEPT ![t] = "event"] /\ UNCHANGED <<healed, inHand, lock, owed>>
    /\ errors' = [errors EXCEPT ![t] = {}]
    /\ UNCHANGED <<file, running, task, stopping, lastFired, eventLast, cache, clock,
                   todo, overlapped>>

\* _check_file_changed: the paths up to the first one that is newer are
\* cached, the later ones are left for the next tick.
PathsChecked ==
    LET newer == {i \in DOMAIN WatchPaths : cache[WatchPaths[i]] = "stale"}
    IN IF newer = {} THEN Len(WatchPaths) ELSE Min(newer)

CacheChecked ==
    [f \in Watched |-> IF \E i \in 1 .. PathsChecked : WatchPaths[i] = f
                       THEN "current" ELSE cache[f]]

(* Mutant: the files are polled, and their times cached, before the cooldown
   is looked at. *)
PollBeforeCooldown(t) ==
    /\ pc[t] = "event"
    /\ cache' = CacheChecked
    /\ IF \/ eventLast # Never /\ Elapsed(t, eventLast) < Cooldown
          \/ \A f \in Watched : cache[f] # "stale"
       THEN /\ pc' = [pc EXCEPT ![t] = "sleep"] /\ clock' = [clock EXCEPT ![t] = 0]
            /\ UNCHANGED <<inHand, lock, owed>>
       ELSE Enter(t, WatchPaths[PathsChecked]) /\ UNCHANGED clock
    /\ UNCHANGED <<file, running, task, stopping, lastFired, eventLast, healed, todo,
                   errors, overlapped>>

\* _evaluate_event_triggers, for one file_changed trigger.
PollEvent(t) ==
    /\ pc[t] = "event"
    /\ IF eventLast # Never /\ Elapsed(t, eventLast) < Cooldown
       THEN /\ pc' = [pc EXCEPT ![t] = "sleep"] /\ clock' = [clock EXCEPT ![t] = 0]
            /\ UNCHANGED <<cache, inHand, lock, owed>>
       ELSE /\ cache' = CacheChecked
            /\ IF \E f \in Watched : cache[f] = "stale"
               THEN Enter(t, WatchPaths[PathsChecked]) /\ UNCHANGED clock
               ELSE /\ pc' = [pc EXCEPT ![t] = "sleep"]
                    /\ clock' = [clock EXCEPT ![t] = 0]
                    /\ UNCHANGED <<inHand, lock, owed>>
    /\ UNCHANGED <<file, running, task, stopping, lastFired, eventLast, healed, todo,
                   errors, overlapped>>

\* The lock is free again and reaches t.
Acquire(t) ==
    /\ Turn(t) /\ pc[t] = "wait" /\ stopping # t /\ lock = None
    /\ Enter(t, inHand[t])
    /\ UNCHANGED <<file, running, task, stopping, memory, clock, todo, errors, overlapped>>

\* The effector returned, raised, or was suppressed by before_invoke: all
\* three leave _execute_effector the same way, and the firing is recorded
\* under the time the tick began.
EndEffector(t) ==
    /\ Turn(t) /\ pc[t] = "run" /\ stopping # t
    /\ lock' = IF AllowConcurrent THEN lock ELSE None
    /\ inHand' = [inHand EXCEPT ![t] = None]
    /\ IF inHand[t] \in Entries
       THEN /\ lastFired' = [lastFired EXCEPT ![inHand[t]] = clock[t]]
            /\ LogExecution(inHand[t], clock[t])
            /\ todo' = [todo EXCEPT ![t] = Others(t)]
            /\ pc' = [pc EXCEPT ![t] = "periodic"]
            /\ UNCHANGED <<eventLast, clock>>
       ELSE IF inHand[t] = Heal
       THEN /\ pc' = [pc EXCEPT ![t] = "event"]
            /\ UNCHANGED <<lastFired, eventLast, log, todo, clock>>
       ELSE /\ eventLast' = clock[t]
            /\ LogExecution(Other, 0)
            /\ pc' = [pc EXCEPT ![t] = "sleep"]
            /\ clock' = [clock EXCEPT ![t] = 0]
            /\ UNCHANGED <<lastFired, todo>>
    /\ UNCHANGED <<phase, health, running, task, stopping, cache, healed, errors,
                   history>>

(* Mutant: stop clears the flag and leaves the loop to notice. *)
StopWithoutCancel ==
    /\ HostTurn /\ stopping = None /\ running
    /\ running' = FALSE /\ task' = None
    /\ LogExecution(Other, 0)
    /\ UNCHANGED <<phase, health, stopping, lock, memory, coroutines, history>>

\* stop(): the flag is cleared; a loop that is alive is cancelled and awaited,
\* otherwise stop returns at once.  (A stop of a scheduler that does not run
\* only logs and is left out.)
Stop ==
    /\ HostTurn /\ stopping = None /\ running
    /\ running' = FALSE
    /\ IF task # None /\ pc[task] # "idle"
       THEN stopping' = task /\ UNCHANGED <<task, log>>
       ELSE task' = None /\ LogExecution(Other, 0) /\ UNCHANGED stopping
    /\ overlapped' = (overlapped \/ \E u \in Calls : pc[u] = "hibernate")
    /\ UNCHANGED <<phase, health, lock, memory, coroutines, owed>>

(* Mutant: a cancelled effector keeps the lock. *)
CancelledLocked(t) ==
    /\ HostTurn /\ stopping = t /\ pc[t] # "idle"
    /\ pc' = [pc EXCEPT ![t] = "idle"]
    /\ inHand' = [inHand EXCEPT ![t] = None]
    /\ clock' = [clock EXCEPT ![t] = 0]
    /\ todo' = [todo EXCEPT ![t] = {}]
    /\ UNCHANGED <<file, object, memory, errors, history>>

\* The CancelledError reaches the loop at the await it is in.
Cancelled(t) ==
    /\ HostTurn /\ stopping = t /\ pc[t] # "idle"
    /\ pc' = [pc EXCEPT ![t] = "idle"]
    /\ lock' = IF lock = t THEN None ELSE lock
    /\ inHand' = [inHand EXCEPT ![t] = None]
    /\ clock' = [clock EXCEPT ![t] = 0]
    /\ todo' = [todo EXCEPT ![t] = {}]
    /\ UNCHANGED <<file, running, task, stopping, memory, errors, history>>

\* stop() resumes: it forgets the task and logs the shutdown.
Stopped ==
    /\ HostTurn /\ stopping # None /\ pc[stopping] = "idle"
    /\ stopping' = None
    /\ task' = None
    /\ LogExecution(Other, 0)
    /\ UNCHANGED <<phase, health, running, lock, memory, coroutines, history>>

\* The process dies and a new one constructs the scheduler from the log.
Crash ==
    /\ running' = FALSE /\ task' = None /\ stopping' = None /\ lock' = None
    /\ lastFired' = LoadLastFired
    /\ eventLast' = Never
    /\ cache' = [f \in Watched |-> "unseen"]
    /\ healed' = {}
    /\ pc' = [t \in Calls |-> "idle"]
    /\ clock' = [t \in Calls |-> 0]
    /\ todo' = [t \in Calls |-> {}]
    /\ errors' = [t \in Calls |-> {}]
    /\ inHand' = [t \in Calls |-> None]
    /\ overlapped' = FALSE
    /\ owed' = {}
    /\ UNCHANGED file

\* An entry of the schedule file is edited: by the agent that the self-heal
\* prompt reached, or while the scheduler is down (a bound: at other times the
\* edit is seen by the next tick all the same).
EditSchedule(n, h) ==
    /\ \/ \E t \in Calls : pc[t] = "run" /\ inHand[t] = Heal
       \/ \A t \in Calls : pc[t] = "idle"
    /\ health[n] # h
    /\ health' = [health EXCEPT ![n] = h]
    /\ UNCHANGED <<phase, log, object, memory, coroutines, history>>

\* A watched file is written: newer than the time the cache holds, if any.
EditFile(f) ==
    /\ cache[f] = "current"
    /\ cache' = [cache EXCEPT ![f] = "stale"]
    /\ owed' = owed \cup {f}
    /\ UNCHANGED <<file, object, lastFired, eventLast, healed, coroutines, overlapped>>

\* A unit of time passes while every coroutine awaits.
Elapse ==
    /\ HostTurn
    /\ \A t \in Calls :
          /\ pc[t] \in {"hibernate", "wait", "run"} => clock[t] < MaxTick
          /\ pc[t] = "sleep" => clock[t] < TickInterval + Late
          /\ pc[t] # "created"
    /\ phase' = (phase + 1) % Period
    /\ log' = [i \in DOMAIN log |->
                  IF log[i].name = Other THEN log[i] ELSE [log[i] EXCEPT !.age = Older(@, Cap(log[i].name))]]
    /\ lastFired' = [n \in Entries |-> Older(lastFired[n], Cap(n))]
    /\ eventLast' = Older(eventLast, EventCap)
    /\ clock' = [t \in Calls |-> IF pc[t] = "idle" THEN clock[t] ELSE clock[t] + 1]
    /\ UNCHANGED <<health, object, cache, healed, pc, todo, errors, inHand, history>>

\* Conditions an edit leaves an entry in: one that can fire, one that the
\* parser or croniter rejects, one whose effector type is unknown.
Conditions == {"ok", "malformed", "unresolved"}

LoopStep(t) ==
    \/ Hibernated(t) \/ BeginTick(t) \/ SkipBlock(t) \/ FireBlock(t) \/ SelfHealing(t)
    \/ PollEvent(t) \/ Acquire(t) \/ EndEffector(t) \/ Cancelled(t)

Next ==
    \/ \E t \in Calls : Start(t) \/ LoopStep(t)
    \/ Stop \/ Stopped \/ Crash \/ Elapse
    \/ \E n \in Editable, h \in Conditions : EditSchedule(n, h)
    \/ \E f \in Watched : EditFile(f)

\* Time passes and the event loop runs what is ready: an effector returns
\* in the end.  Nothing is assumed of the host, the users or crashes.
Fairness ==
    /\ WF_vars(Elapse) /\ WF_vars(Stopped)
    /\ \A t \in Calls : WF_vars(LoopStep(t))

Spec == Init /\ [][Next]_vars /\ Fairness

-----------------------------------------------------------------------------
TypeOK ==
    /\ phase \in 0 .. Period - 1
    /\ health \in [Entries -> Conditions]
    /\ Len(log) <= MaxLog
    /\ \A i \in DOMAIN log :
          log[i] \in (UNION {[name : {n}, age : 0 .. Cap(n)] : n \in Entries})
                      \cup [name : {Other}, age : {0}]
    /\ running \in BOOLEAN
    /\ {task, stopping, lock} \subseteq Calls \cup {None}
    /\ \A n \in Entries : lastFired[n] \in {Never} \cup 0 .. Cap(n)
    /\ eventLast \in {Never} \cup 0 .. EventCap
    /\ cache \in [Watched -> {"unseen", "current", "stale"}]
    /\ healed \subseteq Entries
    /\ pc \in [Calls -> {"idle", "hibernate", "created", "periodic", "event", "wait",
                         "run", "sleep"}]
    /\ clock \in [Calls -> 0 .. Max({MaxTick, TickInterval + Late})]
    /\ \A t \in Calls : todo[t] \subseteq DOMAIN Schedule /\ errors[t] \subseteq Entries
    /\ inHand \in [Calls -> Entries \cup Watched \cup {Heal, None}]
    /\ overlapped \in BOOLEAN
    /\ owed \subseteq Watched

\* stop() cancels the loop: once it has returned, and until start is called
\* again, no coroutine of the scheduler is alive and none holds the lock, so
\* one loop runs at a time.  (A stop that overlaps a start is the exception:
\* start's coroutine is not known to stop, and stop forgets the task a start
\* created while it waited.)  The scheduler's state is as declared.
StopCancels ==
    /\ TypeOK
    /\ ~overlapped =>
        /\ ~running /\ stopping = None => \A t \in Calls : pc[t] = "idle" /\ lock # t
        /\ \A t, u \in Calls : pc[t] # "idle" /\ pc[u] # "idle" => t = u

\* Without allow_concurrent no two effectors of tick loops run at once, not
\* even when a start that overlapped a stop left two loops alive.
EffectorsExclusive ==
    ~AllowConcurrent =>
        \A t, u \in Calls : pc[t] = "run" /\ pc[u] = "run" => t = u

\* An effector never begins for an entry too early: while the log still
\* holds a firing of the entry, by this process or by one before a crash, an
\* interval has passed since the last of them, and a cron entry's minute is
\* another one.  (Loops that overlapped may have recorded firings out of
\* order, which is why it is the last record that counts.)
Begun(t, n) == pc[t] # "run" /\ pc'[t] = "run" /\ inHand'[t] = n
SameMinute(t, age) == Elapsed(t, age) <= TickPhase(t) % MinuteLen
TooEarly(t, n) ==
    \E i \in Fired(n) :
        /\ \A j \in Fired(n) : j <= i
        /\ IF n \in DOMAIN Every THEN Elapsed(t, log[i].age) < Every[n]
           ELSE SameMinute(t, log[i].age)
NeverTooEarly ==
    [][\A t \in Calls, n \in Entries : Begun(t, n) /\ ~overlapped => ~TooEarly(t, n)]_vars

\* No edit of a watched file is missed: until an event effector begins for
\* it, the cached time is older than the file, so a later tick will see it.
NoEditMissed == ~overlapped => \A f \in owed : cache[f] = "stale" \/ \E t \in Calls : inHand[t] = f /\ pc[t] = "wait"

\* A scheduler that is left alone keeps firing an interval entry that stays
\* well formed.
Steady(n) == running /\ ~overlapped /\ health[n] = "ok"
KeepsBeating ==
    \A n \in DOMAIN Every : <>[]Steady(n) => []<>(\E t \in Calls : inHand[t] = n /\ pc[t] = "run")
=============================================================================
