-------------------------- MODULE HeartbeatProofs --------------------------
(***************************************************************************)
(* Theorems about Heartbeat for any schedule, watched files and number of  *)
(* calls of start().  The lock is held by the effector that runs, and by   *)
(* nobody else; while no start has overlapped a stop, one loop is alive,   *)
(* it is the task that stop() knows, and it never waits for the lock; and  *)
(* what is remembered of an entry is its last record.                      *)
(***************************************************************************)
EXTENDS Heartbeat, SequenceTheorems, FiniteSetTheorems, TLAPS

Working == {"hibernate", "created", "periodic", "event", "wait", "run"}

(* The records of the log, by name and age. *)
Records ==
  {r \in [name : Entries \cup {Other}, age : Nat] :
    IF r.name = Other THEN r.age = 0 ELSE r.age <= Cap(r.name)}

(* TypeOK, and how long a tick and a sleep can be. *)
Shape ==
  /\ phase \in 0 .. Period - 1
  /\ health \in [Entries -> Conditions]
  /\ log \in Seq(Records) /\ Len(log) <= MaxLog
  /\ running \in BOOLEAN
  /\ task \in Calls \cup {None} /\ stopping \in Calls \cup {None} /\ lock \in Calls \cup {None}
  /\ lastFired \in [Entries -> Int]
  /\ \A n \in Entries : lastFired[n] = Never \/ lastFired[n] \in 0 .. Cap(n)
  /\ eventLast \in {Never} \cup 0 .. EventCap
  /\ cache \in [Watched -> {"unseen", "current", "stale"}]
  /\ healed \subseteq Entries
  /\ pc \in [Calls -> Working \cup {"idle", "sleep"}]
  /\ clock \in [Calls -> Nat]
  /\ \A t \in Calls :
      /\ pc[t] \in Working => clock[t] <= MaxTick
      /\ pc[t] = "sleep" => clock[t] <= TickInterval + Late
      /\ clock[t] <= MaxTick \/ clock[t] <= TickInterval + Late
  /\ todo \in [Calls -> SUBSET DOMAIN Schedule]
  /\ errors \in [Calls -> SUBSET Entries]
  /\ inHand \in [Calls -> Entries \cup Watched \cup {Heal, None}]
  /\ overlapped \in BOOLEAN
  /\ owed \subseteq Watched

(* Who holds the lock. *)
LockInv ==
  /\ lock # None => ~ AllowConcurrent /\ pc[lock] = "run"
  /\ ~ AllowConcurrent => \A t \in Calls : pc[t] = "run" => lock = t

(* One loop at a time, known to stop(), and never waiting. *)
AloneInv == ~ overlapped =>
  /\ \A t, u \in Calls : pc[t] # "idle" /\ pc[u] # "idle" => t = u
  /\ \A t \in Calls : pc[t] \notin {"idle", "hibernate"} => task = t
  /\ stopping # None => ~ running
  /\ ~ running => \A t \in Calls : pc[t] # "idle" => stopping = t
  /\ \A t \in Calls : pc[t] # "wait"

(* What is remembered of an entry is its last record. *)
RecordInv ==
  \A n \in Entries : \A i \in Fired(n) :
    (\A j \in Fired(n) : j <= i) => lastFired[n] = log[i].age

(* An edit is owed by the cache. *)
EditInv == ~ overlapped => \A f \in owed : cache[f] = "stale"

-----------------------------------------------------------------------------
(* Least and greatest elements. *)

LEMMA Least ==
  ASSUME NEW N \in Nat, NEW T \in SUBSET (0 .. N), T # {}
  PROVE  \E x \in T : \A y \in T : x <= y
<1> DEFINE Less == {ss \in Nat \X Nat : ss[1] < ss[2]}
<1>1. IsWellFoundedOn(Less, Nat)
  BY NatLessThanWellFounded DEF OpToRel
<1>2. T \subseteq Nat
  <2>1. 0 .. N \subseteq Nat
    OBVIOUS
  <2> QED
    BY <2>1
<1> HIDE DEF Less
<1>3. PICK x \in T : \A y \in T : <<y, x>> \notin Less
  BY <1>1, <1>2, WFMin
<1>4. \A y \in T : ~ (y < x)
  BY <1>2, <1>3 DEF Less
<1> QED
  BY <1>4

LEMMA MinOf ==
  ASSUME NEW N \in Nat, NEW T \in SUBSET (0 .. N), T # {}
  PROVE  Min(T) \in T /\ \A y \in T : Min(T) <= y
  BY Least DEF Min

LEMMA MaxOf ==
  ASSUME NEW N \in Nat, NEW T \in SUBSET (0 .. N), T # {}
  PROVE  Max(T) \in T /\ \A y \in T : y <= Max(T)
<1> DEFINE R == {N - x : x \in T}
<1>1. R \in SUBSET (0 .. N) /\ R # {}
  <2>1. \A x \in T : x \in 0 .. N /\ N - x \in 0 .. N
    OBVIOUS
  <2> QED
    BY <2>1
<1>2. PICK r \in R : \A y \in R : r <= y
  <2> HIDE DEF R
  <2> QED
    BY <1>1, Least
<1>3. PICK x \in T : r = N - x
  OBVIOUS
<1>4. ASSUME NEW y \in T PROVE y <= x
  <2>1. N - y \in R
    OBVIOUS
  <2>2. r <= N - y
    BY <1>2, <2>1
  <2> QED
    BY <1>3, <2>2
<1> QED
  BY <1>4 DEF Max

LEMMA MaxOfTwo == ASSUME NEW a \in Int, NEW b \in Int
                  PROVE  Max({a, b}) = IF a >= b THEN a ELSE b
  BY DEF Max

LEMMA Numbers ==
  /\ Period \in Nat /\ Period >= 1 /\ MinuteLen \in Nat /\ MinuteLen >= 1
  /\ TickInterval \in Nat /\ TickInterval >= 1 /\ MaxTick \in Nat /\ MaxTick >= 1
  /\ Late \in Nat /\ TickInterval + Late \in Nat
  BY HeartbeatAssumption

LEMMA Periods == \A n \in DOMAIN Every : Every[n] \in Nat
  BY HeartbeatAssumption

LEMMA Apart ==
  /\ None \notin Calls /\ None \notin Entries /\ None \notin Watched
  /\ Heal \notin Entries /\ Heal \notin Watched /\ Other \notin Entries /\ Other \notin Watched
  /\ Entries \cap Watched = {} /\ AllowConcurrent \in BOOLEAN
  BY HeartbeatAssumption

LEMMA Scheduled ==
  /\ Schedule \in Seq(Entries) /\ Len(Schedule) \in Nat /\ DOMAIN Schedule = 1 .. Len(Schedule)
  /\ \A i \in DOMAIN Schedule : Schedule[i] \in Entries
  BY HeartbeatAssumption

LEMMA Caps ==
  /\ \A n : Cap(n) \in Nat /\ MaxTick <= Cap(n)
  /\ EventCap \in Nat /\ MaxTick <= EventCap
<1>1. Max({TickInterval, MinuteLen}) \in Nat
  BY MaxOfTwo, Numbers
<1>3. Cooldown \in Nat
  BY HeartbeatAssumption
<1>4. ASSUME NEW n PROVE Cap(n) \in Nat /\ MaxTick <= Cap(n)
  BY <1>1, Periods, Numbers DEF Cap
<1>5. EventCap \in Nat /\ MaxTick <= EventCap
  BY <1>3, Numbers DEF EventCap
<1> QED
  BY <1>4, <1>5

-----------------------------------------------------------------------------
(* The log. *)

LEMMA Logged ==
  ASSUME log \in Seq(Records), Len(log) <= MaxLog,
         NEW name, NEW age, [name |-> name, age |-> age] \in Records,
         LogExecution(name, age)
  PROVE  /\ log' \in Seq(Records) /\ Len(log') <= MaxLog
         /\ \E d \in Nat :
              /\ Len(log') = Len(log) + 1 - d
              /\ Len(log') >= 1
              /\ log'[Len(log')] = [name |-> name, age |-> age]
              /\ \A i \in 1 .. Len(log') - 1 : i + d \in 1 .. Len(log) /\ log'[i] = log[i + d]
<1> DEFINE r == [name |-> name, age |-> age]
           longer == Append(log, r)
           d == Max({0, Len(longer) - MaxLog})
<1>1. /\ longer \in Seq(Records) /\ Len(longer) = Len(log) + 1 /\ longer[Len(log) + 1] = r
      /\ \A i \in 1 .. Len(log) : longer[i] = log[i]
  BY AppendProperties
<1>2. Len(log) \in Nat /\ MaxLog \in Nat /\ MaxLog >= 1
  BY HeartbeatAssumption
<1>3. d \in Nat /\ d = IF Len(log) + 1 >= MaxLog THEN Len(log) + 1 - MaxLog ELSE 0
  BY <1>1, <1>2, MaxOfTwo
<1>4. log' = SubSeq(longer, 1 + d, Len(longer))
  BY DEF LogExecution
<1> HIDE DEF longer, d
<1>5. d \in 0 .. Len(log) /\ 1 + d \in Int /\ Len(longer) \in Int
      /\ \A i \in 1 + d .. Len(longer) : longer[i] \in Records
  BY <1>1, <1>2, <1>3
<1>6. /\ log' \in Seq(Records) /\ Len(log') = Len(log) + 1 - d
      /\ \A i \in 1 .. Len(log') : log'[i] = longer[i + d]
  <2>1. /\ log' \in Seq(Records)
        /\ Len(log') = IF 1 + d <= Len(longer) THEN Len(longer) - (1 + d) + 1 ELSE 0
        /\ \A i \in 1 .. Len(longer) - (1 + d) + 1 : log'[i] = longer[(1 + d) + i - 1]
    BY <1>1, <1>4, <1>5, SubSeqProperties
  <2>2. Len(log') = Len(log) + 1 - d
    BY <1>1, <1>2, <1>5, <2>1
  <2>3. ASSUME NEW i \in 1 .. Len(log') PROVE log'[i] = longer[i + d]
    <3>1. i \in 1 .. Len(longer) - (1 + d) + 1 /\ (1 + d) + i - 1 = i + d
      BY <1>1, <1>2, <1>5, <2>2
    <3>2. log'[i] = longer[(1 + d) + i - 1]
      BY <2>1, <3>1
    <3> QED
      BY <3>1, <3>2
  <2> QED
    BY <2>1, <2>2, <2>3
<1>7. /\ Len(log') >= 1 /\ Len(log') <= MaxLog /\ Len(log') + d = Len(log) + 1
  BY <1>2, <1>3, <1>6
<1>8. log'[Len(log')] = r
  BY <1>1, <1>6, <1>7
<1>9. ASSUME NEW i \in 1 .. Len(log') - 1
      PROVE  i + d \in 1 .. Len(log) /\ log'[i] = log[i + d]
  <2>1. i + d \in 1 .. Len(log) /\ i \in 1 .. Len(log')
    BY <1>2, <1>5, <1>6, <1>7
  <2> QED
    BY <1>1, <1>6, <2>1
<1> QED
  BY <1>3, <1>6, <1>7, <1>8, <1>9

-----------------------------------------------------------------------------
(* Shapes. *)

LEMMA ShapeInit == Init => Shape
<1> SUFFICES ASSUME Init PROVE Shape
  OBVIOUS
<1>1. log \in Seq(Records) /\ Len(log) <= MaxLog
  BY HeartbeatAssumption, EmptySeq DEF Init
<1>2. /\ phase \in 0 .. Period - 1 /\ health \in [Entries -> Conditions]
      /\ running \in BOOLEAN /\ overlapped \in BOOLEAN
      /\ task = None /\ stopping = None /\ lock = None
  <2>1. phase \in 0 .. Period - 1
    BY Numbers DEF Init
  <2> QED
    BY <2>1 DEF Init, Conditions
<1>3. /\ lastFired \in [Entries -> Int] /\ \A n \in Entries : lastFired[n] = Never
      /\ eventLast = Never /\ cache \in [Watched -> {"unseen", "current", "stale"}]
      /\ healed = {} /\ owed = {}
  BY DEF Init, Never
<1>4. /\ pc \in [Calls -> Working \cup {"idle", "sleep"}] /\ \A t \in Calls : pc[t] = "idle"
      /\ clock \in [Calls -> Nat] /\ \A t \in Calls : clock[t] = 0
      /\ todo \in [Calls -> SUBSET DOMAIN Schedule] /\ errors \in [Calls -> SUBSET Entries]
      /\ inHand \in [Calls -> Entries \cup Watched \cup {Heal, None}]
  BY DEF Init
<1>5. MaxTick \in Nat
  BY HeartbeatAssumption
<1> QED
  BY <1>1, <1>2, <1>3, <1>4, <1>5 DEF Shape, Working

LEMMA Works ==
  /\ "hibernate" \in Working /\ "created" \in Working /\ "periodic" \in Working
  /\ "run" \in Working /\ "wait" \in Working
  /\ "idle" \notin Working /\ "sleep" \notin Working
  BY DEF Working

(* A coroutine goes on: its tick or its sleep is no longer than it may be. *)
LEMMA Timed ==
  ASSUME Shape, NEW t \in Calls, NEW p \in Working \cup {"idle", "sleep"}, NEW a \in 0 .. MaxTick,
         pc' = [pc EXCEPT ![t] = p], clock' = [clock EXCEPT ![t] = a], p = "sleep" => a = 0
  PROVE  /\ pc' \in [Calls -> Working \cup {"idle", "sleep"}]
         /\ clock' \in [Calls -> Nat]
         /\ \A u \in Calls :
              /\ pc'[u] \in Working => clock'[u] <= MaxTick
              /\ pc'[u] = "sleep" => clock'[u] <= TickInterval + Late
              /\ clock'[u] <= MaxTick \/ clock'[u] <= TickInterval + Late
<1>1. pc' \in [Calls -> Working \cup {"idle", "sleep"}] /\ clock' \in [Calls -> Nat]
  BY Numbers DEF Shape
<1>2. ASSUME NEW u \in Calls
      PROVE  /\ pc'[u] \in Working => clock'[u] <= MaxTick
             /\ pc'[u] = "sleep" => clock'[u] <= TickInterval + Late
             /\ clock'[u] <= MaxTick \/ clock'[u] <= TickInterval + Late
  <2>1. CASE u = t
    BY <2>1, Numbers DEF Shape
  <2>2. CASE u # t
    BY <2>2 DEF Shape
  <2> QED
    BY <2>1, <2>2
<1> QED
  BY <1>1, <1>2

LEMMA Entered ==
  ASSUME Shape, NEW t \in Calls, NEW what \in Entries \cup Watched \cup {Heal},
         pc[t] \in Working, Enter(t, what)
  PROVE  /\ inHand' = [inHand EXCEPT ![t] = what]
         /\ lock' \in Calls \cup {None}
         /\ pc' \in [Calls -> Working \cup {"idle", "sleep"}]
         /\ pc' = [pc EXCEPT ![t] = pc'[t]] /\ pc'[t] \in {"run", "wait"}
         /\ owed' \subseteq owed
         /\ pc'[t] = "wait" => ~ AllowConcurrent /\ lock # None /\ lock' = lock /\ owed' = owed
         /\ pc'[t] = "run" => /\ lock' = (IF AllowConcurrent THEN lock ELSE t) /\ owed' = owed \ {what}
                              /\ AllowConcurrent \/ lock = None
  BY DEF Shape, Enter, Working

(* The path that an event effector runs for is the first stale one. *)
LEMMA FirstStale ==
  ASSUME Shape
  PROVE  /\ CacheChecked \in [Watched -> {"unseen", "current", "stale"}]
         /\ (\E f \in Watched : cache[f] = "stale") =>
              /\ WatchPaths[PathsChecked] \in Watched
              /\ \A f \in Watched : cache[f] = "stale" /\ f # WatchPaths[PathsChecked]
                   => CacheChecked[f] = "stale"
<1> DEFINE newer == {i \in DOMAIN WatchPaths : cache[WatchPaths[i]] = "stale"}
<1>1. /\ Len(WatchPaths) \in Nat /\ DOMAIN WatchPaths = 1 .. Len(WatchPaths)
      /\ Watched = {WatchPaths[i] : i \in DOMAIN WatchPaths}
  BY HeartbeatAssumption DEF Watched, ToSet
<1>2. CacheChecked \in [Watched -> {"unseen", "current", "stale"}]
  BY DEF CacheChecked, Shape
<1>3. ASSUME NEW g \in Watched, cache[g] = "stale"
      PROVE  /\ WatchPaths[PathsChecked] \in Watched
             /\ \A f \in Watched : cache[f] = "stale" /\ f # WatchPaths[PathsChecked]
                   => CacheChecked[f] = "stale"
  <2>1. newer \in SUBSET (0 .. Len(WatchPaths)) /\ newer # {}
    BY <1>1, <1>3
  <2>2. Min(newer) \in newer /\ \A i \in newer : Min(newer) <= i
    <3> HIDE DEF newer
    <3> QED
      BY <1>1, <2>1, MinOf
  <2>3. PathsChecked = Min(newer)
    BY <2>1 DEF PathsChecked
  <2>4. ASSUME NEW f \in Watched, cache[f] = "stale", f # WatchPaths[PathsChecked]
        PROVE  CacheChecked[f] = "stale"
    <3>1. ASSUME NEW i \in 1 .. PathsChecked PROVE WatchPaths[i] # f
      <4>1. PathsChecked \in DOMAIN WatchPaths /\ i \in DOMAIN WatchPaths
        BY <1>1, <2>2, <2>3
      <4>2. CASE i = PathsChecked
        BY <2>4, <4>2
      <4>3. CASE i # PathsChecked
        <5>1. i \notin newer
          <6>1. i < Min(newer) /\ i \in Int /\ Min(newer) \in Int
            BY <1>1, <2>1, <2>2, <2>3, <4>1, <4>3
          <6>2. \A k \in newer : Min(newer) <= k
            BY <2>2
          <6> HIDE DEF newer
          <6> QED
            BY <6>1, <6>2
        <5> QED
          BY <2>4, <4>1, <5>1
      <4> QED
        BY <4>2, <4>3
    <3> QED
      BY <2>4, <3>1 DEF CacheChecked
  <2> QED
    BY <1>1, <2>2, <2>3, <2>4
<1> QED
  BY <1>2, <1>3

LEMMA NextIsEntry ==
  ASSUME Shape, NEW t \in Calls, todo[t] # {}
  PROVE  NextBlock(t) \in Entries
<1>1. Len(Schedule) \in Nat /\ todo[t] \in SUBSET (0 .. Len(Schedule))
  BY Scheduled DEF Shape
<1>2. Min(todo[t]) \in todo[t]
  BY <1>1, MinOf
<1> QED
  BY <1>2, Scheduled DEF Shape, NextBlock

LEMMA RecordsOf ==
  /\ [name |-> Other, age |-> 0] \in Records
  /\ \A n \in Entries, a \in 0 .. MaxTick : [name |-> n, age |-> a] \in Records
  BY Caps, Numbers, Apart DEF Records

LEMMA Aged ==
  ASSUME NEW cap \in Nat, NEW a \in {Never} \cup 0 .. cap
  PROVE  /\ Older(a, cap) \in {Never} \cup 0 .. cap
         /\ a = Never <=> Older(a, cap) = Never
  BY DEF Older, Never

LEMMA ShapeStep == Shape /\ [Next]_vars => Shape'
<1> SUFFICES ASSUME Shape, [Next]_vars
             PROVE  Shape'
  OBVIOUS
<1> USE DEF Shape
<1>1. ASSUME NEW t \in Calls, Start(t) PROVE Shape'
  <2>1. pc' = [pc EXCEPT ![t] = "hibernate"] /\ clock' = [clock EXCEPT ![t] = 0]
    BY <1>1 DEF Start
  <2>2. overlapped' \in BOOLEAN
    BY <1>1 DEF Start
  <2> QED
    BY <1>1, <2>1, <2>2, Timed, Numbers, Works DEF Start, file, memory
<1>2. ASSUME NEW t \in Calls, Hibernated(t) PROVE Shape'
  <2>1. log' \in Seq(Records) /\ Len(log') <= MaxLog
    BY <1>2, RecordsOf, Logged DEF Hibernated
  <2>2. pc' = [pc EXCEPT ![t] = "created"] /\ clock' = [clock EXCEPT ![t] = 0]
    BY <1>2 DEF Hibernated
  <2> QED
    BY <1>2, <2>1, <2>2, Timed, Numbers, Works DEF Hibernated, memory, history
<1>3. ASSUME NEW t \in Calls, BeginTick(t) PROVE Shape'
  <2>1. \E p \in {"periodic", "idle"} : pc' = [pc EXCEPT ![t] = p] /\ clock' = [clock EXCEPT ![t] = 0]
    BY <1>3 DEF BeginTick
  <2>2. todo' \in [Calls -> SUBSET DOMAIN Schedule] /\ errors' \in [Calls -> SUBSET Entries]
    <3>1. ValidBlocks \in SUBSET DOMAIN Schedule /\ ParseErrors \in SUBSET Entries
      BY DEF ValidBlocks, ParseErrors
    <3>2. \/ todo' = [todo EXCEPT ![t] = ValidBlocks] /\ errors' = [errors EXCEPT ![t] = ParseErrors]
          \/ UNCHANGED <<todo, errors>>
      BY <1>3 DEF BeginTick
    <3> QED
      BY <3>1, <3>2
  <2>3. /\ pc' \in [Calls -> Working \cup {"idle", "sleep"}] /\ clock' \in [Calls -> Nat]
        /\ \A u \in Calls :
            /\ pc'[u] \in Working => clock'[u] <= MaxTick
            /\ pc'[u] = "sleep" => clock'[u] <= TickInterval + Late
            /\ clock'[u] <= MaxTick \/ clock'[u] <= TickInterval + Late
    BY <2>1, Timed, Numbers, Works
  <2> QED
    BY <1>3, <2>2, <2>3
    DEF BeginTick, file, object, memory, history
<1>4. ASSUME NEW t \in Calls, SkipBlock(t) PROVE Shape'
  BY <1>4 DEF SkipBlock, Others, file, object, memory, history
<1>5. ASSUME NEW t \in Calls, FireBlock(t) PROVE Shape'
  <2>1. NextBlock(t) \in Entries /\ pc[t] \in Working
    BY <1>5, NextIsEntry DEF FireBlock, Working
  <2>2. Enter(t, NextBlock(t))
    BY <1>5 DEF FireBlock
  <2> QED
    BY <1>5, <2>1, <2>2, Entered DEF FireBlock, file, memory, Working
<1>6. ASSUME NEW t \in Calls, SelfHealing(t) PROVE Shape'
  <2>1. pc[t] \in Working /\ errors' \in [Calls -> SUBSET Entries]
    BY <1>6 DEF SelfHealing, Working
  <2>2. CASE Enter(t, Heal) /\ healed' = errors[t]
    BY <1>6, <2>1, <2>2, Entered DEF SelfHealing, file, Working
  <2>3. CASE pc' = [pc EXCEPT ![t] = "event"] /\ UNCHANGED <<healed, inHand, lock, owed>>
    BY <1>6, <2>1, <2>3 DEF SelfHealing, file, Working
  <2> QED
    BY <1>6, <2>2, <2>3 DEF SelfHealing
<1>7. ASSUME NEW t \in Calls, PollEvent(t) PROVE Shape'
  <2>1. pc[t] \in Working /\ cache' \in [Watched -> {"unseen", "current", "stale"}]
    BY <1>7, FirstStale DEF PollEvent, Working
  <2>2. CASE /\ pc' = [pc EXCEPT ![t] = "sleep"] /\ clock' = [clock EXCEPT ![t] = 0]
             /\ UNCHANGED <<inHand, lock, owed>>
    BY <1>7, <2>1, <2>2, Timed, Numbers DEF PollEvent, file
  <2>3. CASE Enter(t, WatchPaths[PathsChecked]) /\ UNCHANGED clock /\ \E f \in Watched : cache[f] = "stale"
    <3>1. WatchPaths[PathsChecked] \in Watched
      BY <2>3, FirstStale
    <3> QED
      <4>1. /\ inHand' = [inHand EXCEPT ![t] = WatchPaths[PathsChecked]]
            /\ lock' \in Calls \cup {None} /\ owed' \subseteq owed
            /\ pc' = [pc EXCEPT ![t] = pc'[t]] /\ pc'[t] \in {"run", "wait"}
        BY <2>1, <2>3, <3>1, Entered
      <4>2. clock' = [clock EXCEPT ![t] = clock[t]] /\ clock[t] \in 0 .. MaxTick
        BY <2>1, <2>3, Numbers
      <4>3. /\ pc' \in [Calls -> Working \cup {"idle", "sleep"}] /\ clock' \in [Calls -> Nat]
            /\ \A u \in Calls :
                /\ pc'[u] \in Working => clock'[u] <= MaxTick
                /\ pc'[u] = "sleep" => clock'[u] <= TickInterval + Late
                /\ clock'[u] <= MaxTick \/ clock'[u] <= TickInterval + Late
        BY <4>1, <4>2, Timed, Works
      <4>4. inHand' \in [Calls -> Entries \cup Watched \cup {Heal, None}] /\ owed' \subseteq Watched
        BY <3>1, <4>1
      <4> QED
        BY <1>7, <2>1, <4>1, <4>3, <4>4 DEF PollEvent, file
  <2> QED
    BY <1>7, <2>2, <2>3 DEF PollEvent
<1>8. ASSUME NEW t \in Calls, Acquire(t) PROVE Shape'
  <2>1. pc[t] \in Working /\ (lock = None)
    BY <1>8 DEF Acquire, Working
  <2>2. Enter(t, inHand[t])
    BY <1>8 DEF Acquire
  <2>3. /\ pc' \in [Calls -> Working \cup {"idle", "sleep"}] /\ pc' = [pc EXCEPT ![t] = "run"]
        /\ inHand' = inHand /\ lock' \in Calls \cup {None} /\ owed' \subseteq owed
    BY <2>1, <2>2 DEF Enter, Working
  <2> QED
    BY <1>8, <2>1, <2>3 DEF Acquire, file, memory, Working
<1>9. ASSUME NEW t \in Calls, EndEffector(t) PROVE Shape'
  <2>1. clock[t] \in 0 .. MaxTick /\ MaxTick \in Nat /\ TickInterval + Late \in Nat
    BY <1>9, Numbers DEF EndEffector, Working
  <2>2. CASE inHand[t] \in Entries
    <3>1. log' \in Seq(Records) /\ Len(log') <= MaxLog
      <4>1. LogExecution(inHand[t], clock[t]) /\ [name |-> inHand[t], age |-> clock[t]] \in Records
        BY <1>9, <2>1, <2>2, RecordsOf DEF EndEffector
      <4> QED
        BY <4>1, Logged
    <3>2. /\ lastFired' \in [Entries -> Int]
          /\ \A n \in Entries : lastFired'[n] = Never \/ lastFired'[n] \in 0 .. Cap(n)
      BY <1>9, <2>1, <2>2, Caps DEF EndEffector
    <3>3. todo' \in [Calls -> SUBSET DOMAIN Schedule]
      <4>1. todo' = [todo EXCEPT ![t] = Others(t)] /\ Others(t) \in SUBSET DOMAIN Schedule
        BY <1>9, <2>2 DEF EndEffector, Others
      <4> QED
        BY <4>1
    <3> QED
      BY <1>9, <2>1, <2>2, <3>1, <3>2, <3>3 DEF EndEffector, history, Working
  <2>3. CASE inHand[t] \notin Entries /\ inHand[t] = Heal
    BY <1>9, <2>1, <2>3 DEF EndEffector, history, Working
  <2>4. CASE inHand[t] \notin Entries /\ inHand[t] # Heal
    <3>1. log' \in Seq(Records) /\ Len(log') <= MaxLog
      <4>1. LogExecution(Other, 0)
        BY <1>9, <2>4 DEF EndEffector
      <4> QED
        BY <4>1, RecordsOf, Logged
    <3>2. eventLast' \in {Never} \cup 0 .. EventCap
      BY <1>9, <2>1, <2>4, Caps DEF EndEffector
    <3> QED
      <4>1. pc' = [pc EXCEPT ![t] = "sleep"] /\ clock' = [clock EXCEPT ![t] = 0]
        BY <1>9, <2>4 DEF EndEffector
      <4>2. lock' \in Calls \cup {None} /\ inHand' \in [Calls -> Entries \cup Watched \cup {Heal, None}]
        BY <1>9 DEF EndEffector
      <4> QED
        BY <1>9, <2>4, <3>1, <3>2, <4>1, <4>2, Timed, Numbers DEF EndEffector, history
  <2> QED
    BY <2>2, <2>3, <2>4
<1>10. ASSUME NEW t \in Calls, Cancelled(t) PROVE Shape'
  BY <1>10, Numbers, Apart DEF Cancelled, file, memory, history, Working
<1>11. CASE Stop
  <2>1. log' \in Seq(Records) /\ Len(log') <= MaxLog
    <3>1. CASE LogExecution(Other, 0)
      BY <3>1, RecordsOf, Logged
    <3> QED
      BY <1>11, <3>1 DEF Stop
  <2> QED
    BY <1>11, <2>1 DEF Stop, memory, coroutines
<1>12. CASE Stopped
  <2>1. log' \in Seq(Records) /\ Len(log') <= MaxLog
    BY <1>12, RecordsOf, Logged DEF Stopped
  <2> QED
    BY <1>12, <2>1 DEF Stopped, memory, coroutines, history
<1>13. CASE Crash
  <2>1. ASSUME NEW n \in Entries PROVE LoadLastFired[n] \in {Never} \cup 0 .. Cap(n)
    <3>1. CASE Fired(n) = {}
      BY <3>1 DEF LoadLastFired
    <3>2. CASE Fired(n) # {}
      <4>1. Fired(n) \in SUBSET (0 .. Len(log)) /\ Len(log) \in Nat
        BY DEF Fired
      <4>2. Max(Fired(n)) \in Fired(n)
        BY <3>2, <4>1, MaxOf
      <4>3. log[Max(Fired(n))] \in Records /\ log[Max(Fired(n))].name = n
        BY <4>2 DEF Fired
      <4> QED
        BY <3>2, <4>3, Apart, Caps, n # Other DEF LoadLastFired, Records
    <3> QED
      BY <3>1, <3>2
  <2>2. /\ lastFired' \in [Entries -> Int]
        /\ \A n \in Entries : lastFired'[n] = Never \/ lastFired'[n] \in 0 .. Cap(n)
    <3>1. lastFired' = LoadLastFired /\ LoadLastFired = [n \in Entries |-> LoadLastFired[n]]
      BY <1>13 DEF Crash, LoadLastFired
    <3>2. \A n \in Entries : LoadLastFired[n] \in Int
      BY <2>1, Caps DEF Never
    <3> HIDE DEF Shape
    <3> QED
      BY <2>1, <3>1, <3>2
  <2>3. /\ pc' \in [Calls -> Working \cup {"idle", "sleep"}] /\ clock' \in [Calls -> Nat]
        /\ \A t \in Calls : pc'[t] = "idle" /\ clock'[t] = 0
        /\ todo' \in [Calls -> SUBSET DOMAIN Schedule] /\ errors' \in [Calls -> SUBSET Entries]
        /\ inHand' \in [Calls -> Entries \cup Watched \cup {Heal, None}]
    BY <1>13 DEF Crash
  <2>4. /\ cache' \in [Watched -> {"unseen", "current", "stale"}] /\ eventLast' = Never
        /\ healed' = {} /\ owed' = {} /\ overlapped' = FALSE
        /\ running' = FALSE /\ task' = None /\ stopping' = None /\ lock' = None
        /\ UNCHANGED <<phase, health, log>>
    BY <1>13 DEF Crash, file
  <2> QED
    <3>1. \A t \in Calls :
            /\ pc'[t] \in Working => clock'[t] <= MaxTick
            /\ pc'[t] = "sleep" => clock'[t] <= TickInterval + Late
            /\ clock'[t] <= MaxTick \/ clock'[t] <= TickInterval + Late
      BY <2>3, Numbers, Works
    <3>2. /\ phase' \in 0 .. Period - 1 /\ health' \in [Entries -> Conditions]
          /\ log' \in Seq(Records) /\ Len(log') <= MaxLog
      BY <2>4
    <3> QED
      BY <2>2, <2>3, <2>4, <3>1, <3>2
<1>14. CASE Elapse
  <2>1. phase' \in 0 .. Period - 1
    <3>1. phase' = (phase + 1) % Period
      BY <1>14 DEF Elapse
    <3>2. phase + 1 \in Nat /\ Period \in Nat \ {0}
      BY Numbers DEF Shape
    <3> QED
      BY <3>1, <3>2
  <2>2. log' \in Seq(Records) /\ Len(log') <= MaxLog
    <3>1. /\ Len(log) \in Nat /\ DOMAIN log = 1 .. Len(log)
          /\ log' = [i \in DOMAIN log |-> IF log[i].name = Other THEN log[i]
                       ELSE [log[i] EXCEPT !.age = Older(@, Cap(log[i].name))]]
      BY <1>14 DEF Elapse
    <3>2. ASSUME NEW r \in Records, r.name # Other
          PROVE  [r EXCEPT !.age = Older(@, Cap(r.name))] \in Records
      <4>1. r.age \in 0 .. Cap(r.name) /\ Cap(r.name) \in Nat
        BY <3>2, Caps DEF Records
      <4>2. Older(r.age, Cap(r.name)) \in 0 .. Cap(r.name)
        BY <4>1 DEF Older, Never
      <4> QED
        <5> DEFINE a == Older(r.age, Cap(r.name))
        <5>1. [r EXCEPT !.age = a] = [name |-> r.name, age |-> a]
          BY DEF Records
        <5>2. a \in Nat /\ a <= Cap(r.name) /\ r.name \in Entries \cup {Other}
          BY <4>1, <4>2 DEF Records
        <5> HIDE DEF a
        <5>3. [name |-> r.name, age |-> a] \in Records
          BY <3>2, <5>2 DEF Records
        <5> QED
          BY <5>1, <5>3 DEF a
    <3>3. ASSUME NEW i \in 1 .. Len(log) PROVE log'[i] \in Records
      <4>1. log[i] \in Records
        BY <3>1
      <4>2. log'[i] = IF log[i].name = Other THEN log[i]
                      ELSE [log[i] EXCEPT !.age = Older(@, Cap(log[i].name))]
        BY <3>1
      <4> HIDE DEF Shape
      <4> QED
        BY <3>2, <4>1, <4>2
    <3>4. log' = [i \in 1 .. Len(log) |-> log'[i]]
      BY <3>1
    <3>5. log' \in Seq(Records) /\ Len(log') = Len(log)
      <4> HIDE DEF Shape
      <4> QED
        BY <3>1, <3>3, <3>4, IsASeq
    <3> QED
      BY <3>5
  <2>3. /\ lastFired' \in [Entries -> Int]
        /\ \A n \in Entries : lastFired'[n] = Never \/ lastFired'[n] \in 0 .. Cap(n)
    <3>1. \A n \in Entries : Older(lastFired[n], Cap(n)) \in {Never} \cup 0 .. Cap(n)
      BY Aged, Caps
    <3>2. lastFired' = [n \in Entries |-> Older(lastFired[n], Cap(n))]
      BY <1>14 DEF Elapse
    <3> QED
      BY <3>1, <3>2, Caps DEF Never
  <2>4. eventLast' \in {Never} \cup 0 .. EventCap
    BY <1>14, Aged, Caps DEF Elapse
  <2>5. /\ clock' \in [Calls -> Nat]
        /\ \A t \in Calls :
            /\ pc[t] \in Working => clock'[t] <= MaxTick
            /\ pc[t] = "sleep" => clock'[t] <= TickInterval + Late
            /\ clock'[t] <= MaxTick \/ clock'[t] <= TickInterval + Late
    <3>1. clock' = [t \in Calls |-> IF pc[t] = "idle" THEN clock[t] ELSE clock[t] + 1]
      BY <1>14 DEF Elapse
    <3>2. \A t \in Calls : pc[t] \in Working => clock[t] < MaxTick
      BY <1>14 DEF Elapse, HostTurn, Busy, Working
    <3>3. \A t \in Calls : pc[t] = "sleep" => clock[t] < TickInterval + Late
      BY <1>14 DEF Elapse
    <3>4. MaxTick \in Nat /\ TickInterval + Late \in Nat
      BY Numbers
    <3> QED
      BY <3>1, <3>2, <3>3, <3>4 DEF Working
  <2>6. UNCHANGED <<health, object, cache, healed, pc, todo, errors, inHand, history>>
    BY <1>14 DEF Elapse
  <2> QED
    BY <2>1, <2>2, <2>3, <2>4, <2>5, <2>6 DEF object, history
<1>15. ASSUME NEW n \in Editable, NEW h \in Conditions, EditSchedule(n, h) PROVE Shape'
  BY <1>15, Numbers, Apart DEF EditSchedule, object, memory, coroutines, history
<1>16. ASSUME NEW f \in Watched, EditFile(f) PROVE Shape'
  BY <1>16 DEF EditFile, file, object, coroutines
<1>17. CASE UNCHANGED vars
  BY <1>17 DEF vars, file, object, memory, coroutines, history
<1> QED
  BY <1>1, <1>2, <1>3, <1>4, <1>5, <1>6, <1>7, <1>8, <1>9, <1>10, <1>11, <1>12, <1>13,
     <1>14, <1>15, <1>16, <1>17 DEF Next, LoopStep

LEMMA ShapeTypes == Shape => TypeOK
<1> SUFFICES ASSUME Shape PROVE TypeOK
  OBVIOUS
<1>1. ASSUME NEW i \in DOMAIN log
      PROVE  log[i] \in (UNION {[name : {n}, age : 0 .. Cap(n)] : n \in Entries})
                       \cup [name : {Other}, age : {0}]
  <2>1. log[i] \in Records
    BY DEF Shape
  <2>2. log[i] = [name |-> log[i].name, age |-> log[i].age]
    BY <2>1 DEF Records
  <2>3. CASE log[i].name = Other
    <3>1. log[i].age = 0
      BY <2>1, <2>3 DEF Records
    <3>2. log[i] \in [name : {Other}, age : {0}]
      BY <2>2, <2>3, <3>1
    <3> QED
      BY <3>2
  <2>4. CASE log[i].name # Other
    <3> DEFINE n == log[i].name
    <3>1. n \in Entries /\ log[i].age \in 0 .. Cap(n)
      BY <2>1, <2>4, Caps DEF Records
    <3>2. log[i] \in [name : {n}, age : 0 .. Cap(n)]
      BY <2>2, <3>1
    <3> QED
      BY <3>1, <3>2
  <2> QED
    BY <2>3, <2>4
<1>2. clock \in [Calls -> 0 .. Max({MaxTick, TickInterval + Late})]
  <2>1. Max({MaxTick, TickInterval + Late})
         = IF MaxTick >= TickInterval + Late THEN MaxTick ELSE TickInterval + Late
    BY Numbers, MaxOfTwo
  <2>2. \A t \in Calls : clock[t] \in 0 .. Max({MaxTick, TickInterval + Late})
    BY <2>1, Numbers DEF Shape
  <2> QED
    BY <2>2 DEF Shape
<1>3. /\ {task, stopping, lock} \subseteq Calls \cup {None}
      /\ \A n \in Entries : lastFired[n] \in {Never} \cup 0 .. Cap(n)
      /\ pc \in [Calls -> {"idle", "hibernate", "created", "periodic", "event", "wait",
                           "run", "sleep"}]
      /\ \A t \in Calls : todo[t] \subseteq DOMAIN Schedule /\ errors[t] \subseteq Entries
  BY DEF Shape, Working
<1> QED
  BY <1>1, <1>2, <1>3 DEF Shape, TypeOK

-----------------------------------------------------------------------------
(* The loops and the lock. *)

LoopInv == Shape /\ LockInv /\ AloneInv

LEMMA LoopInit == Init => LoopInv
  BY ShapeInit DEF Init, LoopInv, LockInv, AloneInv

LEMMA Moved ==
  ASSUME Shape, NEW t \in Calls, NEW p, pc' = [pc EXCEPT ![t] = p]
  PROVE  pc'[t] = p /\ \A u \in Calls : u # t => pc'[u] = pc[u]
  BY DEF Shape

(* Alone, a loop that enters an effector finds the lock free. *)
LEMMA FreeAlone ==
  ASSUME LoopInv, ~ overlapped, NEW t \in Calls, pc[t] \notin {"idle", "run"}
  PROVE  lock = None
  BY DEF LoopInv, Shape, LockInv, AloneInv

(* Entering an effector keeps the lock and the loops in order.             *)
LEMMA EnterLoop ==
  ASSUME LoopInv, NEW t \in Calls, pc[t] \in {"periodic", "event", "wait"},
         NEW what, Enter(t, what), UNCHANGED <<running, task, stopping, overlapped>>
  PROVE  LockInv' /\ AloneInv'
<1>1. /\ pc' = [pc EXCEPT ![t] = pc'[t]] /\ pc'[t] \in {"run", "wait"}
      /\ pc'[t] = "wait" => ~ AllowConcurrent /\ lock # None /\ lock' = lock
      /\ pc'[t] = "run" => /\ lock' = (IF AllowConcurrent THEN lock ELSE t)
                           /\ AllowConcurrent \/ lock = None
  BY DEF Enter, LoopInv, Shape
<1>2. LockInv'
  BY <1>1, Apart DEF LoopInv, Shape, LockInv
<1>3. AloneInv'
  <2> SUFFICES ASSUME ~ overlapped PROVE AloneInv'
    BY DEF AloneInv
  <2>1. pc[t] # "idle" /\ pc[t] # "hibernate" /\ pc[t] # "run" /\ lock = None
    BY FreeAlone
  <2>2. pc'[t] = "run" /\ \A u \in Calls : u # t => pc'[u] = pc[u]
    BY <1>1, <2>1, Moved DEF LoopInv
  <2> QED
    BY <2>1, <2>2 DEF LoopInv, AloneInv
<1> QED
  BY <1>2, <1>3

LEMMA LoopStepInv == LoopInv /\ [Next]_vars => LoopInv'
<1> SUFFICES ASSUME LoopInv, [Next]_vars
             PROVE  LockInv' /\ AloneInv'
  BY ShapeStep DEF LoopInv
<1>0. Shape /\ Shape' /\ LockInv /\ AloneInv
  BY ShapeStep DEF LoopInv
<1> DEFINE Kept == LockInv' /\ AloneInv'
<1>1. ASSUME NEW t \in Calls, Start(t) PROVE Kept
  <2>1. LockInv'
    BY <1>0, <1>1, Apart DEF Start, LockInv, Shape
  <2>2. AloneInv'
    <3> SUFFICES ASSUME ~ overlapped' PROVE AloneInv'
      BY DEF AloneInv
    <3>1. ~ overlapped /\ stopping = None /\ ~ running /\ running' /\ stopping' = None
      BY <1>1 DEF Start
    <3>2. pc'[t] = "hibernate" /\ \A u \in Calls : u # t => pc'[u] = pc[u]
      BY <1>0, <1>1, Moved DEF Start
    <3>3. \A u \in Calls : pc[u] = "idle"
      BY <1>0, <3>1, Apart DEF AloneInv
    <3> QED
      BY <3>1, <3>2, <3>3 DEF AloneInv
  <2> QED
    BY <2>1, <2>2
<1>2. ASSUME NEW t \in Calls, Hibernated(t) PROVE Kept
  <2>1. LockInv'
    BY <1>0, <1>2, Apart DEF Hibernated, LockInv, Shape
  <2>2. AloneInv'
    <3>1. pc'[t] = "created" /\ \A u \in Calls : u # t => pc'[u] = pc[u]
      BY <1>0, <1>2, Moved DEF Hibernated
    <3>2. task' = t /\ pc[t] = "hibernate" /\ UNCHANGED <<running, stopping, overlapped>>
      BY <1>2 DEF Hibernated, history
    <3> QED
      BY <1>0, <3>1, <3>2 DEF AloneInv
  <2> QED
    BY <2>1, <2>2
<1>3. ASSUME NEW t \in Calls, BeginTick(t) PROVE Kept
  <2>0. PICK p \in {"periodic", "idle"} : pc' = [pc EXCEPT ![t] = p]
    BY <1>3 DEF BeginTick
  <2>1. /\ pc'[t] = p /\ \A u \in Calls : u # t => pc'[u] = pc[u]
        /\ pc[t] \in {"created", "sleep"} /\ UNCHANGED <<lock, running, task, stopping, overlapped>>
    BY <1>0, <1>3, <2>0, Moved DEF BeginTick, object, history
  <2>2. LockInv'
    BY <1>0, <2>0, <2>1 DEF LockInv, Shape
  <2>3. AloneInv'
    BY <1>0, <2>0, <2>1 DEF AloneInv
  <2> QED
    BY <2>2, <2>3
<1>4. ASSUME NEW t \in Calls, SkipBlock(t) PROVE Kept
  <2>1. LockInv'
    BY <1>0, <1>4, Apart DEF SkipBlock, object, history, LockInv, Shape
  <2>2. AloneInv'
    BY <1>0, <1>4, Apart DEF SkipBlock, object, history, AloneInv, Shape
  <2> QED
    BY <2>1, <2>2
<1>5. ASSUME NEW t \in Calls, FireBlock(t) PROVE Kept
  BY <1>5, EnterLoop DEF FireBlock
<1>6. ASSUME NEW t \in Calls, SelfHealing(t) PROVE Kept
  <2>1. CASE Enter(t, Heal)
    BY <1>6, <2>1, EnterLoop DEF SelfHealing
  <2>2. CASE pc' = [pc EXCEPT ![t] = "event"] /\ UNCHANGED lock
    BY <1>0, <1>6, <2>2 DEF SelfHealing, LockInv, AloneInv, Shape
  <2> QED
    BY <1>6, <2>1, <2>2 DEF SelfHealing
<1>7. ASSUME NEW t \in Calls, PollEvent(t) PROVE Kept
  <2>1. CASE Enter(t, WatchPaths[PathsChecked])
    BY <1>7, <2>1, EnterLoop DEF PollEvent
  <2>2. CASE pc' = [pc EXCEPT ![t] = "sleep"] /\ UNCHANGED lock
    <3>1. /\ pc[t] = "event" /\ pc'[t] = "sleep" /\ \A u \in Calls : u # t => pc'[u] = pc[u]
          /\ UNCHANGED <<running, task, stopping, overlapped>>
      BY <1>0, <1>7, <2>2 DEF PollEvent, Shape
    <3>2. LockInv'
      BY <1>0, <2>2, <3>1 DEF LockInv
    <3>3. AloneInv'
      BY <1>0, <3>1 DEF AloneInv
    <3> QED
      BY <3>2, <3>3
  <2> QED
    BY <1>7, <2>1, <2>2 DEF PollEvent
<1>8. ASSUME NEW t \in Calls, Acquire(t) PROVE Kept
  BY <1>8, EnterLoop DEF Acquire
<1>9. ASSUME NEW t \in Calls, EndEffector(t) PROVE Kept
  <2>1. PICK p \in {"periodic", "event", "sleep"} : pc' = [pc EXCEPT ![t] = p]
    BY <1>9 DEF EndEffector
  <2>2. /\ pc'[t] = p /\ \A u \in Calls : u # t => pc'[u] = pc[u]
        /\ pc[t] = "run" /\ lock' = (IF AllowConcurrent THEN lock ELSE None)
        /\ UNCHANGED <<running, task, stopping, overlapped>>
    BY <1>0, <1>9, <2>1, Moved DEF EndEffector, history
  <2>3. LockInv'
    BY <1>0, <2>1, <2>2 DEF LockInv, Shape
  <2>4. AloneInv'
    BY <1>0, <2>1, <2>2 DEF AloneInv
  <2> QED
    BY <2>3, <2>4
<1>10. ASSUME NEW t \in Calls, Cancelled(t) PROVE Kept
  <2>1. LockInv'
    BY <1>0, <1>10, Apart DEF Cancelled, history, LockInv, Shape
  <2>2. AloneInv'
    BY <1>0, <1>10, Apart DEF Cancelled, history, AloneInv, Shape
  <2> QED
    BY <2>1, <2>2
<1>11. CASE Stop
  <2>1. UNCHANGED <<pc, lock>> /\ ~ running' /\ stopping = None
    BY <1>11 DEF Stop, coroutines
  <2>2. LockInv'
    BY <1>0, <2>1 DEF LockInv
  <2>3. AloneInv'
    <3> SUFFICES ASSUME ~ overlapped' PROVE AloneInv'
      BY DEF AloneInv
    <3>1. ~ overlapped /\ \A u \in Calls : pc[u] # "hibernate"
      BY <1>11 DEF Stop
    <3>2. \/ task # None /\ stopping' = task /\ task' = task
          \/ (task = None \/ pc[task] = "idle") /\ UNCHANGED stopping
      BY <1>11 DEF Stop
    <3>3. \A u \in Calls : pc[u] # "idle" => task = u
      BY <1>0, <3>1 DEF AloneInv
    <3> QED
      BY <1>0, <2>1, <3>1, <3>2, <3>3, Apart DEF AloneInv
  <2> QED
    BY <2>2, <2>3
<1>12. CASE Stopped
  BY <1>0, <1>12, Apart DEF Stopped, memory, coroutines, history, LockInv, AloneInv, Shape
<1>13. CASE Crash
  BY <1>0, <1>13, Apart DEF Crash, LockInv, AloneInv, Shape
<1>14. CASE Elapse
  BY <1>0, <1>14, Apart DEF Elapse, object, history, LockInv, AloneInv, Shape
<1>15. ASSUME NEW n \in Editable, NEW h \in Conditions, EditSchedule(n, h) PROVE Kept
  BY <1>0, <1>15, Apart DEF EditSchedule, object, coroutines, history, LockInv, AloneInv, Shape
<1>16. ASSUME NEW f \in Watched, EditFile(f) PROVE Kept
  BY <1>0, <1>16, Apart DEF EditFile, object, coroutines, LockInv, AloneInv, Shape
<1>17. CASE UNCHANGED vars
  BY <1>0, <1>17, Apart DEF vars, object, coroutines, history, LockInv, AloneInv, Shape
<1> QED
  BY <1>1, <1>2, <1>3, <1>4, <1>5, <1>6, <1>7, <1>8, <1>9, <1>10, <1>11, <1>12, <1>13, <1>14, <1>15, <1>16, <1>17 DEF Next, LoopStep

-----------------------------------------------------------------------------
(* Edits. *)

LEMMA EditStep == LoopInv /\ EditInv /\ [Next]_vars => EditInv'
<1> SUFFICES ASSUME LoopInv, EditInv, [Next]_vars, ~ overlapped'
             PROVE  \A f \in owed' : cache'[f] = "stale"
  BY DEF EditInv
<1> DEFINE Kept == \A f \in owed' : cache'[f] = "stale"
<1>1. ASSUME ~ overlapped, UNCHANGED cache, owed' \subseteq owed PROVE Kept
  BY <1>1 DEF EditInv
<1>2. ASSUME NEW t \in Calls, NEW what, Enter(t, what) PROVE owed' \subseteq owed
  BY <1>2 DEF Enter
<1>3. ASSUME NEW t \in Calls, Start(t) PROVE Kept
  BY <1>1, <1>3 DEF Start, memory
<1>4. ASSUME NEW t \in Calls, \/ Hibernated(t) \/ BeginTick(t) \/ SkipBlock(t)
                            \/ EndEffector(t) \/ Cancelled(t) PROVE Kept
  BY <1>1, <1>4 DEF Hibernated, BeginTick, SkipBlock, EndEffector, Cancelled, memory, history
<1>5. ASSUME NEW t \in Calls, FireBlock(t) \/ SelfHealing(t) \/ Acquire(t) PROVE Kept
  BY <1>1, <1>2, <1>5 DEF FireBlock, SelfHealing, Acquire, memory
<1>6. ASSUME NEW t \in Calls, PollEvent(t) PROVE Kept
  <2>1. ~ overlapped /\ pc[t] = "event" /\ lock = None /\ Shape
    BY <1>6, FreeAlone DEF PollEvent, LoopInv
  <2>2. CASE UNCHANGED <<cache, owed>>
    BY <1>1, <2>1, <2>2
  <2>3. CASE /\ \E f \in Watched : cache[f] = "stale"
             /\ cache' = CacheChecked /\ Enter(t, WatchPaths[PathsChecked])
    <3>1. owed' = owed \ {WatchPaths[PathsChecked]}
      BY <2>1, <2>3 DEF Enter
    <3>2. \A f \in owed : f \in Watched /\ cache[f] = "stale"
      BY <2>1 DEF EditInv, Shape
    <3> QED
      BY <2>1, <2>3, <3>1, <3>2, FirstStale
  <2>4. CASE (\A f \in Watched : cache[f] # "stale") /\ UNCHANGED owed
    BY <2>1, <2>4 DEF EditInv, Shape
  <2> QED
    BY <1>6, <2>2, <2>3, <2>4 DEF PollEvent
<1>7. CASE Stop \/ Stopped \/ Elapse
  BY <1>1, <1>7 DEF Stop, Stopped, Elapse, memory, history
<1>8. CASE Crash
  BY <1>8 DEF Crash
<1>9. ASSUME NEW n \in Editable, NEW h \in Conditions, EditSchedule(n, h) PROVE Kept
  BY <1>1, <1>9 DEF EditSchedule, memory, history
<1>10. ASSUME NEW f \in Watched, EditFile(f) PROVE Kept
  BY <1>10 DEF EditFile, EditInv, LoopInv, Shape
<1>11. CASE UNCHANGED vars
  BY <1>1, <1>11 DEF vars, memory, history
<1> QED
  BY <1>3, <1>4, <1>5, <1>6, <1>7, <1>8, <1>9, <1>10, <1>11 DEF Next, LoopStep

-----------------------------------------------------------------------------
(* Records. *)

LEMMA RecordInit == Init => RecordInv
  BY DEF Init, RecordInv, Fired

(* A new last record, and the loss of the oldest, leave the last record of *)
(* every other entry the last.                                             *)
LEMMA RecordLogged ==
  ASSUME Shape, RecordInv, NEW name \in Entries \cup {Other}, NEW age,
         [name |-> name, age |-> age] \in Records, LogExecution(name, age),
         lastFired' = IF name \in Entries THEN [lastFired EXCEPT ![name] = age] ELSE lastFired
  PROVE  RecordInv'
<1>1. /\ log' \in Seq(Records) /\ Len(log') \in Nat /\ Len(log) \in Nat
      /\ DOMAIN log = 1 .. Len(log) /\ DOMAIN log' = 1 .. Len(log')
  BY Logged DEF Shape
<1>2. PICK d \in Nat :
        /\ Len(log') = Len(log) + 1 - d /\ Len(log') >= 1
        /\ log'[Len(log')] = [name |-> name, age |-> age]
        /\ \A i \in 1 .. Len(log') - 1 : i + d \in 1 .. Len(log) /\ log'[i] = log[i + d]
  <2>1. log \in Seq(Records) /\ Len(log) <= MaxLog
    BY DEF Shape
  <2> QED
    BY SMTT(30), <2>1, Logged
<1> SUFFICES ASSUME NEW n \in Entries, NEW i \in 1 .. Len(log'), log'[i].name = n,
                    \A j \in 1 .. Len(log') : log'[j].name = n => j <= i
             PROVE  lastFired'[n] = log'[i].age
  BY <1>1 DEF RecordInv, Fired
<1>3. CASE i = Len(log')
  <2>1. n = name /\ log'[i].age = age
    BY <1>2, <1>3
  <2> QED
    BY <2>1 DEF Shape
<1>4. CASE i # Len(log')
  <2>1. i \in 1 .. Len(log') - 1
    <3>1. Len(log') \in Nat
      BY <1>1
    <3> QED
      BY <1>4, <3>1
  <2>2. n # name
    BY <1>1, <1>2, <2>1
  <2>3. i + d \in 1 .. Len(log) /\ log'[i] = log[i + d]
    BY <1>2, <2>1
  <2>4. ASSUME NEW j \in 1 .. Len(log), log[j].name = n PROVE j <= i + d
    <3>1. CASE j > i + d
      <4>1. j - d \in 1 .. Len(log') - 1 /\ (j - d) + d = j
        BY <1>1, <1>2, <2>1, <3>1
      <4>2. log'[j - d] = log[j] /\ j - d \in 1 .. Len(log')
        <5>1. log'[j - d] = log[(j - d) + d]
          BY <1>2, <4>1
        <5> QED
          BY <1>1, <4>1, <5>1
      <4>3. j - d <= i
        BY <2>4, <4>2
      <4> QED
        BY <1>2, <2>1, <3>1, <4>3
    <3> QED
      BY <1>2, <2>1, <3>1
  <2>5. lastFired[n] = log[i + d].age
    BY <1>1, <2>3, <2>4 DEF RecordInv, Fired
  <2> QED
    BY <2>2, <2>3, <2>5 DEF Shape
<1> QED
  BY <1>3, <1>4

LEMMA RecordStep == Shape /\ RecordInv /\ [Next]_vars => RecordInv'
<1> SUFFICES ASSUME Shape, RecordInv, [Next]_vars PROVE RecordInv'
  OBVIOUS
<1>0. ASSUME UNCHANGED <<log, lastFired>> PROVE RecordInv'
  BY <1>0 DEF RecordInv, Fired
<1>1. ASSUME LogExecution(Other, 0), UNCHANGED lastFired PROVE RecordInv'
  BY <1>1, RecordLogged, RecordsOf, Numbers, Apart
<1>2. ASSUME NEW t \in Calls, \/ Start(t) \/ BeginTick(t) \/ SkipBlock(t) \/ FireBlock(t)
                            \/ SelfHealing(t) \/ PollEvent(t) \/ Acquire(t) \/ Cancelled(t)
      PROVE  RecordInv'
  BY <1>0, <1>2 DEF Start, BeginTick, SkipBlock, FireBlock, SelfHealing, PollEvent, Acquire,
     Cancelled, file, memory
<1>3. ASSUME NEW t \in Calls, Hibernated(t) PROVE RecordInv'
  BY <1>1, <1>3 DEF Hibernated, memory
<1>4. ASSUME NEW t \in Calls, EndEffector(t) PROVE RecordInv'
  <2>1. CASE inHand[t] \in Entries
    <3>1. clock[t] \in 0 .. MaxTick
      BY <1>4, Numbers, Works DEF EndEffector, Shape
    <3>2. [name |-> inHand[t], age |-> clock[t]] \in Records
      BY <2>1, <3>1, RecordsOf
    <3> QED
      BY <1>4, <2>1, <3>2, RecordLogged DEF EndEffector
  <2>2. CASE inHand[t] \notin Entries
    BY <1>0, <1>1, <1>4, <2>2 DEF EndEffector
  <2> QED
    BY <2>1, <2>2
<1>5. CASE Stop
  BY <1>0, <1>1, <1>5 DEF Stop, memory
<1>6. CASE Stopped
  BY <1>1, <1>6 DEF Stopped, memory
<1>7. CASE Crash
  <2> SUFFICES ASSUME NEW n \in Entries, NEW i \in Fired(n), \A j \in Fired(n) : j <= i
               PROVE  LoadLastFired[n] = log[i].age
    BY <1>7 DEF Crash, file, RecordInv, Fired
  <2>1. Fired(n) \in SUBSET (0 .. Len(log)) /\ Fired(n) # {} /\ Len(log) \in Nat
    BY DEF Fired, Shape
  <2>2. Max(Fired(n)) \in Fired(n) /\ i <= Max(Fired(n))
    BY <2>1, MaxOf
  <2>3. Max(Fired(n)) = i
    BY <2>1, <2>2
  <2> QED
    BY <2>1, <2>3 DEF LoadLastFired
<1>8. CASE Elapse
  <2> SUFFICES ASSUME NEW n \in Entries, NEW i \in Fired(n)', \A j \in Fired(n)' : j <= i
               PROVE  lastFired'[n] = log'[i].age
    BY DEF RecordInv
  <2>1. /\ DOMAIN log' = DOMAIN log
        /\ \A j \in DOMAIN log : log'[j].name = log[j].name
        /\ \A j \in DOMAIN log : log[j].name # Other =>
              log'[j].age = Older(log[j].age, Cap(log[j].name))
    <3>1. log' = [j \in DOMAIN log |-> IF log[j].name = Other THEN log[j]
                     ELSE [log[j] EXCEPT !.age = Older(@, Cap(log[j].name))]]
      BY <1>8 DEF Elapse
    <3>2. \A j \in DOMAIN log : log[j] \in [name : Entries \cup {Other}, age : Nat]
      BY DEF Shape, Records
    <3> QED
      BY <3>1, <3>2
  <2>2. Fired(n)' = Fired(n)
    BY <2>1 DEF Fired
  <2>3. lastFired[n] = log[i].age /\ i \in DOMAIN log /\ log[i].name = n
    BY <2>2 DEF RecordInv, Fired
  <2>4. lastFired'[n] = Older(lastFired[n], Cap(n))
    BY <1>8 DEF Elapse
  <2> QED
    BY <2>1, <2>3, <2>4, Numbers, Apart
<1>9. ASSUME NEW n \in Editable, NEW h \in Conditions, EditSchedule(n, h) PROVE RecordInv'
  BY <1>0, <1>9 DEF EditSchedule, memory
<1>10. ASSUME NEW f \in Watched, EditFile(f) PROVE RecordInv'
  BY <1>0, <1>10 DEF EditFile, file
<1>11. CASE UNCHANGED vars
  BY <1>0, <1>11 DEF vars, file, memory
<1> QED
  BY <1>2, <1>3, <1>4, <1>5, <1>6, <1>7, <1>8, <1>9, <1>10, <1>11 DEF Next, LoopStep

-----------------------------------------------------------------------------
(* The theorems.                                                           *)

LEMMA LoopsInvariant == Spec => []LoopInv
  BY LoopInit, LoopStepInv, PTL DEF Spec

(* Once stop() has returned, and until start() is called again, no         *)
(* coroutine of the scheduler is alive and none holds the lock, so one     *)
(* loop runs at a time, unless a start has overlapped a stop; and every    *)
(* age, clock and position of the scheduler stays within its bounds        *)
(* (start, stop and _tick_loop of scheduler.py).                           *)
THEOREM StopAlwaysCancels == Spec => []StopCancels
<1>1. LoopInv => StopCancels
  BY ShapeTypes, Apart DEF LoopInv, LockInv, AloneInv, StopCancels
<1> QED
  BY LoopsInvariant, <1>1, PTL

(* Without allow_concurrent no two effectors of tick loops run at once,    *)
(* however starts, stops, cancellations and crashes interleave             *)
(* (_execute_effector under self._lock).                                   *)
THEOREM EffectorsAlwaysExclusive == Spec => []EffectorsExclusive
<1>1. LoopInv => EffectorsExclusive
  BY DEF LoopInv, LockInv, EffectorsExclusive
<1> QED
  BY LoopsInvariant, <1>1, PTL

(* An edit of a watched file stays visible in the cached times until an    *)
(* event effector begins for it, whatever the cooldown, the order of the   *)
(* paths and the other triggers of the tick (_check_file_changed and       *)
(* _evaluate_event_triggers).                                              *)
THEOREM NoEditEverMissed == Spec => []NoEditMissed
<1>1. Init => EditInv
  BY DEF Init, EditInv
<1>2. EditInv => NoEditMissed
  BY DEF EditInv, NoEditMissed
<1> QED
  BY LoopsInvariant, EditStep, <1>1, <1>2, PTL DEF Spec

(* No effector begins for an entry before an interval has passed since the *)
(* last firing the log holds, and none for a cron entry in the minute of   *)
(* that firing, across crashes, late ticks and trimmed logs, provided that *)
(* ticks are no less than a minute of the cron clock apart: shorter ticks  *)
(* meet a minute twice (_should_fire_interval and _was_recently_fired).    *)
THEOREM NeverFiresTooEarly ==
  ASSUME MinuteLen <= TickInterval
  PROVE  Spec => NeverTooEarly
<1> DEFINE OnTime == \A t \in Calls, n \in Entries : Begun(t, n) /\ ~ overlapped => ~ TooEarly(t, n)
<1>1. LoopInv /\ RecordInv /\ [Next]_vars => OnTime
  <2> SUFFICES ASSUME LoopInv, RecordInv, [Next]_vars, ~ overlapped,
                      NEW u \in Calls, NEW n \in Entries, Begun(u, n)
               PROVE  ~ TooEarly(u, n)
    OBVIOUS
  <2>0. Shape /\ \A t \in Calls : pc[t] # "wait"
    BY DEF LoopInv, AloneInv
  <2>1. ASSUME Due(u, n) PROVE ~ TooEarly(u, n)
    <3> SUFFICES ASSUME NEW i \in Fired(n), \A j \in Fired(n) : j <= i
                 PROVE  ~ (IF n \in DOMAIN Every THEN Elapsed(u, log[i].age) < Every[n]
                           ELSE SameMinute(u, log[i].age))
      BY DEF TooEarly
    <3>1. lastFired[n] = log[i].age
      BY DEF RecordInv
    <3>2. log[i] \in Records /\ log[i].age \in Nat /\ lastFired[n] # Never /\ clock[u] \in Nat
      BY <2>0, <3>1 DEF Fired, Shape, Records, Never
    <3>3. CASE n \in DOMAIN Every
      <4>1. Every[n] \in Nat
        BY <3>3, Periods
      <4> QED
        BY <2>1, <3>1, <3>2, <3>3, <4>1 DEF Due, IntervalDue, Elapsed
    <3>4. CASE n \notin DOMAIN Every
      <4>1. ~ (Elapsed(u, lastFired[n]) < TickInterval)
        BY <2>1, <3>2, <3>4 DEF Due, RecentlyFired
      <4>2. TickPhase(u) \in Int
        BY <2>0, <3>2, Numbers DEF TickPhase, Shape
      <4>3. TickPhase(u) % MinuteLen < MinuteLen
        BY <4>2, Numbers
      <4>4. TickPhase(u) % MinuteLen \in Int
        BY <4>2, Numbers
      <4> QED
        BY <3>1, <3>2, <3>4, <4>1, <4>3, <4>4, Numbers DEF SameMinute, Elapsed
    <3> QED
      BY <3>3, <3>4
  <2>2. ASSUME NEW t \in Calls, LoopStep(t) PROVE Due(u, n)
    <3>1. CASE FireBlock(t)
      <4>1. u = t
        BY <2>0, <3>1 DEF FireBlock, Enter, Begun, Shape
      <4>2. inHand'[t] = NextBlock(t)
        BY <2>0, <3>1 DEF FireBlock, Enter, Shape
      <4> QED
        BY <3>1, <4>1, <4>2 DEF FireBlock, Begun
    <3>2. CASE SelfHealing(t)
      BY <2>0, <3>2, Apart DEF SelfHealing, Enter, Begun, Shape
    <3>3. CASE PollEvent(t)
      <4>1. CASE Enter(t, WatchPaths[PathsChecked]) /\ \E f \in Watched : cache[f] = "stale"
        <5>1. u = t
          BY <2>0, <4>1 DEF Enter, Begun, Shape
        <5>2. inHand'[t] = WatchPaths[PathsChecked] /\ WatchPaths[PathsChecked] \in Watched
          BY <2>0, <4>1, FirstStale DEF Enter, Shape
        <5> QED
          BY <5>1, <5>2, Apart DEF Begun
      <4>2. CASE pc' = [pc EXCEPT ![t] = "sleep"]
        BY <2>0, <4>2 DEF Begun, Shape
      <4> QED
        BY <3>3, <4>1, <4>2 DEF PollEvent
    <3>4. CASE Acquire(t)
      BY <2>0, <3>4 DEF Acquire
    <3>5. CASE Hibernated(t) \/ BeginTick(t) \/ SkipBlock(t) \/ Cancelled(t)
      BY <2>0, <3>5 DEF Hibernated, BeginTick, SkipBlock, Cancelled, Begun, Shape
    <3>6. CASE EndEffector(t)
      BY <2>0, <3>6 DEF EndEffector, Begun, Shape
    <3> QED
      BY <2>2, <3>1, <3>2, <3>3, <3>4, <3>5, <3>6 DEF LoopStep
  <2>3. ASSUME NEW t \in Calls, Start(t) PROVE FALSE
    BY <2>0, <2>3 DEF Start, Begun, Shape
  <2>4. CASE Stop \/ Stopped \/ Elapse
    BY <2>4 DEF Stop, Stopped, Elapse, coroutines, Begun
  <2>5. CASE Crash
    BY <2>5 DEF Crash, Begun
  <2>6. ASSUME NEW m \in Editable, NEW h \in Conditions, EditSchedule(m, h) PROVE FALSE
    BY <2>6 DEF EditSchedule, coroutines, Begun
  <2>7. ASSUME NEW f \in Watched, EditFile(f) PROVE FALSE
    BY <2>7 DEF EditFile, coroutines, Begun
  <2>8. CASE UNCHANGED vars
    BY <2>8 DEF vars, coroutines, Begun
  <2> QED
    BY <2>1, <2>2, <2>3, <2>4, <2>5, <2>6, <2>7, <2>8 DEF Next
<1>2. LoopInv => Shape
  BY DEF LoopInv
<1>3. OnTime => [OnTime]_vars
  OBVIOUS
<1> QED
  BY LoopsInvariant, RecordInit, RecordStep, <1>1, <1>2, PTL DEF Spec, NeverTooEarly

=============================================================================
