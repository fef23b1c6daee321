-------------------------- MODULE CheckpointProxy --------------------------
(***************************************************************************)
(* The checkpoints of one thread, kept by a service: the saver             *)
(* checkpoint/proxy.py posts every request to the handlers of              *)
(* serve/handlers.py, which keep two SQLite tables, and LangGraph runs     *)
(* (external) use the saver.  A run reads the latest checkpoint with its   *)
(* pending writes, and then, superstep after superstep, executes a task    *)
(* unless its writes are pending, saves its writes (put_writes) and saves  *)
(* the next checkpoint (put).                                              *)
(*                                                                         *)
(* The handlers do not await and use one transaction, so a request is      *)
(* handled in one step or not at all.  It can be lost, its answer can be   *)
(* lost, it can be handled after the client gave up (30 s), and it can be  *)
(* answered with an error: the saver does not look at the status, so an    *)
(* error with a JSON body passes for success.                              *)
(***************************************************************************)
EXTENDS Integers, FiniteSets, Sequences, SequencesExt

CONSTANTS
    LgRuns,         \* runs of the graph on the thread; they may overlap
    MaxId,          \* bound: checkpoints made (ids are times, so they grow)
    MaxAttempts,    \* bound: executions of a task
    MaxWrites,      \* bound: writes of a task
    PageLimit,      \* limit of alist
    MaxFaults       \* bound: requests that are not answered properly

ASSUME CheckpointAssumption ==
    {MaxId, MaxAttempts, MaxWrites, PageLimit, MaxFaults} \subseteq Nat \ {0}

VARIABLES
    rows,       \* table checkpoints: id -> parent (0: no parent)
    writes,     \* table checkpoint_writes: <<checkpoint, idx>> -> who wrote it
    clock,      \* the highest id made
    attempts,   \* executions of a task so far
    run,        \* where a run is
    faults,     \* requests not answered properly so far
    belated,    \* requests the client has given up that may still be handled
    walk,       \* a reader that pages through the list (alist)
    acked,      \* ghost: checkpoints whose put was handled and answered
    silent,     \* ghost: requests answered with an error that was not noticed
    vague       \* ghost: checkpoints two executions of whose task were in flight

cpVars == <<rows, writes, clock, attempts, run, faults, belated, walk, acked, silent, vague>>

Stopped == [pc |-> "stopped"]
Ids == 1..MaxId
Attempt == [no : 1..MaxAttempts, width : 1..MaxWrites]
Put == [kind : {"put"}, id : Ids, parent : 0..MaxId]
PutWrites == [kind : {"writes"}, cp : 0..MaxId, by : Attempt]
Going == [pc : {"ready", "written"},      \* before a task, after it
          head : 0..MaxId, least : 0..MaxId, doubt : BOOLEAN]
Walking == [pc : {"on", "over"}, seen : Seq(Ids), first : SUBSET Ids]

CpInit ==
    /\ rows = <<>> /\ writes = <<>>
    /\ clock = 0 /\ attempts = 0
    /\ run = [r \in LgRuns |-> Stopped]
    /\ faults = 0 /\ belated = {}
    /\ walk = [pc |-> "idle"]
    /\ acked = {} /\ silent = {} /\ vague = {}

Highest(ids) == Max(ids \cup {0})

\* ----------------------------------------------------------------- service
\* INSERT OR REPLACE of the rows with these keys.
Upserted(table, keys, value) == [k \in DOMAIN table \cup keys |-> IF k \in keys THEN value ELSE table[k]]

\* INTO checkpoints.
RowsAfter(q) == IF q.kind = "put" THEN Upserted(rows, {q.id}, q.parent) ELSE rows

\* INTO checkpoint_writes, one row for each write.
WritesAfter(q) == IF q.kind = "writes" THEN Upserted(writes, {q.cp} \X (1..q.by.width), q.by) ELSE writes

Handled(q) == rows' = RowsAfter(q) /\ writes' = WritesAfter(q)
Unhandled == UNCHANGED <<rows, writes>>

\* Mutant: the table is read in the order of the ids.
LatestAscending == IF rows = <<>> THEN 0 ELSE Min(DOMAIN rows)

\* ORDER BY checkpoint_id DESC LIMIT 1.
Latest == Highest(DOMAIN rows)

Pending(id) == {k \in DOMAIN writes : k[1] = id}

\* The saver posts q; what the client sees is the answer ("ok") or an exception.
Posted(q, answer) ==
    /\ \/ answer = "ok" /\ Handled(q) /\ UNCHANGED <<faults, belated, silent>>
       \/ /\ faults < MaxFaults /\ faults' = faults + 1
          /\ \/ answer = "ok" /\ Unhandled /\ silent' = silent \cup {q} /\ UNCHANGED belated
             \/ answer = "raises" /\ Handled(q) /\ UNCHANGED <<belated, silent>>
             \/ answer = "raises" /\ Unhandled /\ UNCHANGED <<belated, silent>>
             \/ answer = "raises" /\ Unhandled /\ belated' = belated \cup {q} /\ UNCHANGED silent

HandledLate == \E q \in belated :
    /\ Handled(q) /\ belated' = belated \ {q}
    /\ UNCHANGED <<clock, attempts, run, faults, walk, acked, silent, vague>>

\* -------------------------------------------------------------------- runs
\* Requests with writes for a checkpoint that may still be handled.
LateFor(cp) == \E q \in belated : q.kind = "writes" /\ q.cp = cp

\* aget_tuple: the latest checkpoint, and whether its task's writes are
\* pending.  A run with an input saves a checkpoint for it first, one without
\* goes on with the task.  (An error body has no "type": this request raises.)
Starts(r) ==
    /\ run[r] = Stopped
    /\ \E pc \in {"written"} \cup IF Latest # 0 /\ Pending(Latest) = {} THEN {"ready"} ELSE {} :
        run' = [run EXCEPT ![r] = [pc |-> pc, head |-> Latest, least |-> Highest(acked), doubt |-> LateFor(Latest)]]
    /\ UNCHANGED <<rows, writes, clock, attempts, faults, belated, walk, acked, silent, vague>>

\* May another execution of r's task be in flight, or have been when r looked?
Rivals(r) ==
    \/ run[r].doubt \/ LateFor(run[r].head)
    \/ \E s \in LgRuns \ {r} : run[s] # Stopped /\ run[s].head = run[r].head

\* The run executes the task of its checkpoint and posts the writes.
Executes(r) ==
    /\ run[r] # Stopped /\ run[r].pc = "ready" /\ attempts < MaxAttempts
    /\ attempts' = attempts + 1
    /\ vague' = vague \cup IF Rivals(r) THEN {run[r].head} ELSE {}
    /\ \E width \in 1..MaxWrites, answer \in {"ok", "raises"} :
        /\ Posted([kind |-> "writes", cp |-> run[r].head, by |-> [no |-> attempts', width |-> width]], answer)
        /\ run' = [run EXCEPT ![r] = IF answer = "ok" THEN [@ EXCEPT !.pc = "written"] ELSE Stopped]
    /\ UNCHANGED <<clock, walk, acked>>

\* The next checkpoint: its parent is the one the run has come from.
Saves(r) ==
    /\ run[r] # Stopped /\ run[r].pc = "written" /\ clock < MaxId
    /\ clock' = clock + 1
    /\ LET q == [kind |-> "put", id |-> clock', parent |-> run[r].head] IN
       \E answer \in {"ok", "raises"} :
        /\ Posted(q, answer)
        /\ acked' = acked \cup IF answer = "ok" /\ q \notin silent' THEN {q.id} ELSE {}
        /\ run' = [run EXCEPT ![r] =
            IF answer = "ok" THEN [@ EXCEPT !.pc = "ready", !.head = q.id, !.doubt = FALSE] ELSE Stopped]
    /\ UNCHANGED <<attempts, walk, vague>>

\* A run has come to its end, is stopped, or dies, between two requests.
Ends(r) ==
    /\ run[r] # Stopped
    /\ run' = [run EXCEPT ![r] = Stopped]
    /\ UNCHANGED <<rows, writes, clock, attempts, faults, belated, walk, acked, silent, vague>>

\* -------------------------------------------------------------------- list
\* A reader pages through the checkpoints, newest first, giving alist the last
\* checkpoint it has seen as "before".
WalkStarts ==
    /\ walk.pc = "idle" /\ rows # <<>>
    /\ walk' = [pc |-> "on", seen |-> <<>>, first |-> DOMAIN rows]
    /\ UNCHANGED <<rows, writes, clock, attempts, run, faults, belated, acked, silent, vague>>

\* checkpoint_id < before_id.
Before(cursor) == {id \in DOMAIN rows : id < cursor}

\* ORDER BY checkpoint_id DESC LIMIT limit: the one sequence that is such a page.
Page(ids) == {page \in SeqOf(ids, PageLimit) :
    /\ \A i, j \in DOMAIN page : i < j => page[i] > page[j]
    /\ \A id \in ids \ ToSet(page) : Len(page) = PageLimit /\ \A i \in DOMAIN page : id < page[i]}

WalkReads ==
    /\ walk.pc = "on"
    /\ \E page \in Page(IF walk.seen = <<>> THEN DOMAIN rows ELSE Before(Last(walk.seen))) :
        walk' = [walk EXCEPT !.seen = @ \o page, !.pc = IF page = <<>> THEN "over" ELSE "on"]
    /\ UNCHANGED <<rows, writes, clock, attempts, run, faults, belated, acked, silent, vague>>

CpNext ==
    \/ \E r \in LgRuns : Starts(r) \/ Executes(r) \/ Saves(r) \/ Ends(r)
    \/ HandledLate \/ WalkStarts \/ WalkReads

CpSpec == CpInit /\ [][CpNext]_cpVars

\* ------------------------------------------------------------- properties
CpTypeOK ==
    /\ DOMAIN rows \subseteq Ids /\ \A id \in DOMAIN rows : rows[id] \in 0..(id - 1)
    /\ DOMAIN writes \subseteq (0..MaxId) \X (1..MaxWrites)
    /\ \A k \in DOMAIN writes : writes[k] \in Attempt
    /\ belated \cup silent \subseteq Put \cup PutWrites
    /\ acked \cup vague \subseteq 0..MaxId
    /\ clock \in 0..MaxId /\ attempts \in 0..MaxAttempts /\ faults \in 0..MaxFaults
    /\ run \in [LgRuns -> {Stopped} \cup Going]
    /\ walk \in [pc : {"idle"}] \cup Walking

\* A checkpoint whose put was answered is in the table for good, with the
\* checkpoint it continues, unless the service answered with an error.
Durable ==
    /\ acked \subseteq DOMAIN rows
    /\ \A id \in DOMAIN rows : rows[id] \in DOMAIN rows \cup {0} \cup {q.id : q \in {s \in silent : s.kind = "put"}}

\* A run that starts after a put was answered continues that checkpoint or a
\* later one: a late request of an older run does not take it back.
ResumesNewest == \A r \in LgRuns : run[r] # Stopped => run[r].head >= run[r].least

\* The pending writes of a checkpoint are those of one execution of its task,
\* all of them, unless two executions had their writes in flight at once.
WritesWhole == \A cp \in (0..MaxId) \ vague :
    \A k \in Pending(cp) : Pending(cp) = {cp} \X (1..writes[k].width)

\* A reader that pages through the list sees, newest first and once, every
\* checkpoint that was there when it began, whatever is saved meanwhile.
PagesComplete == walk.pc # "idle" =>
    /\ \A i, j \in DOMAIN walk.seen : i < j => walk.seen[i] > walk.seen[j]
    /\ walk.pc = "over" => walk.first \subseteq ToSet(walk.seen)

\* Checkpoints are durable, resumed from, written and listed as they were saved.
CheckpointsKept == CpTypeOK /\ Durable /\ ResumesNewest /\ WritesWhole /\ PagesComplete
=============================================================================
