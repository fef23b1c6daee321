----------------------------- MODULE JobRegistry -----------------------------
(***************************************************************************)
(* The background jobs of a workspace: JobRegistry of                      *)
(* arion_agent/environments/shell/jobs.py on Unix.  Agents call run and    *)
(* stop concurrently on one event loop; every job is a detached process    *)
(* group whose shell writes the exit code to a status file.  The registry  *)
(* keeps nothing in memory: a job is its metadata file, its status file    *)
(* and its processes.                                                      *)
(***************************************************************************)
EXTENDS Integers, FiniteSets

CONSTANTS
  Clients,        \* concurrent callers of the registry
  Labels,         \* sanitised labels of jobs (description or first word)
  LabelsOf,       \* the labels each client uses
  Procs,          \* bound: the processes that can ever be spawned
  MaxRunning,     \* MAX_RUNNING_JOBS
  Unruly,         \* bound: the jobs that leave children or are killed by others
  KidKinds,       \* children of a job: in its "group", or in another "session"
  Interruptible,  \* the awaits at which a call may be cancelled or die
  NoProc, NoId, NoStatus, Empty, Stopped

Awaits == {"spawn", "meta", "settle", "term", "grace", "kill", "record"}

ASSUME JobAssumption ==
  /\ IsFiniteSet(Clients) /\ Clients # {}
  /\ IsFiniteSet(Procs)
  /\ LabelsOf \in [Clients -> SUBSET Labels]
  /\ MaxRunning \in Nat \ {0}
  /\ KidKinds \subseteq {"group", "session"}
  /\ Interruptible \subseteq Awaits
  /\ NoProc \notin Procs
  /\ Procs \cap {NoStatus, Empty, Stopped} = {}
  /\ NoStatus # Empty /\ NoStatus # Stopped /\ Empty # Stopped

(* "label", "label-2", ...: every spawn takes at most one copy. *)
Copies == 1..Cardinality(Procs)
Ids == Labels \X Copies

ASSUME NoIdAssumption == NoId \notin Ids

VARIABLES
  meta,    \* <id>.json: the pid it names, or NoProc if there is no file
  status,  \* <id>.status: no file, an empty one, Stopped, or the exit code of p
  root,    \* the shell of each job
  home,    \* the status file that shell writes to
  kids,    \* its children that are alive besides the command it waits for
  pc,      \* where each client's call is suspended
  job,     \* the job_id of that call
  pid      \* its local pid

vars == <<meta, status, root, home, kids, pc, job, pid>>

Exited == Procs \cup {Stopped}
Alive == {"running", "writing", "zombie"}

(* _pid_alive: a zombie still answers to signal 0. *)
PidAlive(p) == root[p] \in Alive

(* Mutant: only the shell counts. *)
GroupAliveShell(p) == PidAlive(p)

(* _group_alive *)
GroupAlive(p) == PidAlive(p) \/ "group" \in kids[p]

(* _resolve_state = "running": no exit code recorded and the pid exists. *)
Running(i) == meta[i] # NoProc /\ status[i] \notin Exited /\ PidAlive(meta[i])
Counted == {i \in Ids : Running(i)}

(* Mutant: the limit is passed by one. *)
RoomLoose == Cardinality(Counted) <= MaxRunning

Room == Cardinality(Counted) < MaxRunning

(* Mutant: an id is never taken. *)
UniqueIdFirst(i, label) == i = <<label, 1>>

(* _unique_id: the first copy without a metadata file. *)
UniqueId(i, label) ==
  /\ i[1] = label
  /\ meta[i] = NoProc
  /\ \A k \in 1..(i[2] - 1) : meta[<<label, k>>] # NoProc

(* subprocess.Popen first reaps the zombies among its dropped siblings. *)
Reaped == [p \in Procs |-> IF root[p] = "zombie" THEN "gone" ELSE root[p]]

Unborn == {p \in Procs : root[p] = "unborn"}

-----------------------------------------------------------------------------

(* A call returns or is abandoned: its locals are gone. *)
Over(c) ==
  /\ pc' = [pc EXCEPT ![c] = "idle"]
  /\ job' = [job EXCEPT ![c] = NoId]
  /\ pid' = [pid EXCEPT ![c] = NoProc]

Init ==
  /\ meta = [i \in Ids |-> NoProc]
  /\ status = [i \in Ids |-> NoStatus]
  /\ root = [p \in Procs |-> "unborn"]
  /\ home = [p \in Procs |-> NoId]
  /\ kids = [p \in Procs |-> {}]
  /\ pc = [c \in Clients |-> "idle"]
  /\ job = [c \in Clients |-> NoId]
  /\ pid = [c \in Clients |-> NoProc]

(* run, up to its first await: the limit and the id are decided, a status  *)
(* file left under that id is unlinked (a shell that has it open goes on   *)
(* writing to nowhere).                                                    *)
Run(c) ==
  /\ pc[c] = "idle"
  /\ Unborn # {}
  /\ Room
  /\ \E label \in LabelsOf[c], i \in Ids :
       /\ UniqueId(i, label)
       /\ job' = [job EXCEPT ![c] = i]
       /\ status' = [status EXCEPT ![i] = NoStatus]
       /\ home' = [p \in Procs |->
                     IF home[p] = i /\ root[p] = "writing" THEN NoId ELSE home[p]]
  /\ pc' = [pc EXCEPT ![c] = "spawn"]
  /\ UNCHANGED <<meta, root, kids, pid>>

(* _spawn, in a thread. *)
Spawn(c) ==
  /\ pc[c] = "spawn"
  /\ Unborn # {}
  /\ LET p == CHOOSE q \in Unborn : TRUE IN
       /\ root' = [Reaped EXCEPT ![p] = "running"]
       /\ home' = [home EXCEPT ![p] = job[c]]
       /\ pid' = [pid EXCEPT ![c] = p]
  /\ pc' = [pc EXCEPT ![c] = "meta"]
  /\ UNCHANGED <<meta, status, kids, job>>

SpawnFails(c) ==
  /\ pc[c] = "spawn"
  /\ Over(c)
  /\ UNCHANGED <<meta, status, root, home, kids>>

WriteMeta(c) ==
  /\ pc[c] = "meta"
  /\ meta' = [meta EXCEPT ![job[c]] = pid[c]]
  /\ pc' = [pc EXCEPT ![c] = "settle"]
  /\ UNCHANGED <<status, root, home, kids, job, pid>>

(* _settle ends when the status file exists, or at its deadline. *)
Settled(c) ==
  /\ pc[c] = "settle"
  /\ Over(c)
  /\ UNCHANGED <<meta, status, root, home, kids>>

(* stop, up to its first await; cleanup_all calls it for each running job. *)
Stop(c) ==
  /\ pc[c] = "idle"
  /\ \E i \in Counted :
       /\ job' = [job EXCEPT ![c] = i]
       /\ pid' = [pid EXCEPT ![c] = meta[i]]
  /\ pc' = [pc EXCEPT ![c] = "term"]
  /\ UNCHANGED <<meta, status, root, home, kids>>

(* Whom a signal of _signal_unix_tree reaches: ps (a Popen) lists the      *)
(* descendants while the shell still is their parent, killpg the group.    *)
Reached(p) ==
  IF Reaped[p] \in {"running", "writing"} THEN kids[p]
                                          ELSE kids[p] \cap {"group"}
Signalled(p) ==
  IF Reaped[p] \in {"running", "writing"} THEN [Reaped EXCEPT ![p] = "zombie"]
                                          ELSE Reaped

(* _terminate_tree: SIGTERM, which any of the processes may ignore. *)
Terminate(c) ==
  /\ pc[c] = "term"
  /\ LET p == pid[c] IN
       /\ root' \in {Reaped, Signalled(p)}
       /\ \E killed \in SUBSET Reached(p) :
            kids' = [kids EXCEPT ![p] = @ \ killed]
  /\ pc' = [pc EXCEPT ![c] = "grace"]
  /\ UNCHANGED <<meta, status, home, job, pid>>

(* Mutant: whatever is recorded is overwritten. *)
RecordStopAlways(c) ==
  /\ status' = [status EXCEPT ![job[c]] = Stopped]
  /\ Over(c)

(* stop's last statement: the status file is written unless there is one. *)
RecordStop(c) ==
  /\ status' = [status EXCEPT ![job[c]] = IF @ = NoStatus THEN Stopped ELSE @]
  /\ Over(c)

(* The grace loop ends with the group or at its deadline. *)
GraceOver(c) ==
  /\ pc[c] = "grace"
  /\ IF GroupAlive(pid[c])
       THEN /\ pc' = [pc EXCEPT ![c] = "kill"]
            /\ UNCHANGED <<status, job, pid>>
       ELSE RecordStop(c)
  /\ UNCHANGED <<meta, root, home, kids>>

(* _force_kill_tree: SIGKILL. *)
ForceKill(c) ==
  /\ pc[c] = "kill"
  /\ root' = Signalled(pid[c])
  /\ kids' = [kids EXCEPT ![pid[c]] = @ \ Reached(pid[c])]
  /\ pc' = [pc EXCEPT ![c] = "record"]
  /\ UNCHANGED <<meta, status, home, job, pid>>

Record(c) ==
  /\ pc[c] = "record"
  /\ RecordStop(c)
  /\ UNCHANGED <<meta, root, home, kids>>

-----------------------------------------------------------------------------
(* The jobs: a shell forks children, and when its command is over creates  *)
(* the status file and fills it (the sentinel of _compose_invocation).     *)

Fork(p) ==
  /\ p \in Unruly
  /\ root[p] = "running"
  /\ \E k \in KidKinds \ kids[p] : kids' = [kids EXCEPT ![p] = @ \cup {k}]
  /\ UNCHANGED <<meta, status, root, home, pc, job, pid>>

CreateStatus(p) ==
  /\ root[p] = "running"
  /\ root' = [root EXCEPT ![p] = "writing"]
  /\ status' = [status EXCEPT ![home[p]] = Empty]
  /\ UNCHANGED <<meta, home, kids, pc, job, pid>>

FillStatus(p) ==
  /\ root[p] = "writing"
  /\ root' = [root EXCEPT ![p] = "zombie"]
  /\ status' = IF home[p] = NoId THEN status
                                 ELSE [status EXCEPT ![home[p]] = p]
  /\ UNCHANGED <<meta, home, kids, pc, job, pid>>

(* Killed by somebody else, or a child that ends. *)
Killed(p) ==
  /\ p \in Unruly
  /\ root[p] \in {"running", "writing"}
  /\ root' = [root EXCEPT ![p] = "zombie"]
  /\ UNCHANGED <<meta, status, home, kids, pc, job, pid>>

KidEnds(p) ==
  /\ \E k \in kids[p] : kids' = [kids EXCEPT ![p] = @ \ {k}]
  /\ UNCHANGED <<meta, status, root, home, pc, job, pid>>

-----------------------------------------------------------------------------
(* The agent process: any other subprocess it starts reaps the zombies; a  *)
(* call is cancelled at an await (what its thread still does then is what  *)
(* Killed and KidEnds do); a crash ends all calls, and the orphaned        *)
(* processes are reaped by init.                                           *)

OtherPopen ==
  /\ root' = Reaped
  /\ UNCHANGED <<meta, status, home, kids, pc, job, pid>>

Cancel(c) ==
  /\ pc[c] \in Interruptible
  /\ Over(c)
  /\ UNCHANGED <<meta, status, root, home, kids>>

Crash ==
  /\ \A c \in Clients : pc[c] \in Interruptible \cup {"idle"}
  /\ pc' = [c \in Clients |-> "idle"]
  /\ job' = [c \in Clients |-> NoId]
  /\ pid' = [c \in Clients |-> NoProc]
  /\ root' = Reaped
  /\ UNCHANGED <<meta, status, home, kids>>

ClientStep(c) ==
  \/ Run(c) \/ Stop(c) \/ Cancel(c)
  \/ Spawn(c) \/ SpawnFails(c) \/ WriteMeta(c) \/ Settled(c)
  \/ Terminate(c) \/ GraceOver(c) \/ ForceKill(c) \/ Record(c)

JobStep(p) ==
  Fork(p) \/ CreateStatus(p) \/ FillStatus(p) \/ Killed(p) \/ KidEnds(p)

Next ==
  \/ \E c \in Clients : ClientStep(c)
  \/ \E p \in Procs : JobStep(p)
  \/ OtherPopen
  \/ Crash

Spec == Init /\ [][Next]_vars

-----------------------------------------------------------------------------

TypeOK ==
  /\ meta \in [Ids -> Procs \cup {NoProc}]
  /\ status \in [Ids -> Exited \cup {NoStatus, Empty}]
  /\ root \in [Procs -> Alive \cup {"unborn", "gone"}]
  /\ home \in [Procs -> Ids \cup {NoId}]
  /\ kids \in [Procs -> SUBSET KidKinds]
  /\ pc \in [Clients -> Awaits \cup {"idle"}]
  /\ job \in [Clients -> Ids \cup {NoId}]
  /\ pid \in [Clients -> Procs \cup {NoProc}]
  /\ \A c \in Clients :
       /\ job[c] = NoId <=> pc[c] = "idle"
       /\ pid[c] = NoProc <=> pc[c] \in {"idle", "spawn"}

(* The limit is checked before the await of the spawn, so that every other *)
(* caller may pass it too; it is never missed by more than that.           *)
RunningBounded ==
  Cardinality(Counted) <= MaxRunning + Cardinality(Clients) - 1

(* A process the registry has spawned is, while it lives, named by a       *)
(* metadata file, or by the call that is about to write it: it is listed,  *)
(* counted and can be stopped, by this agent or one started later.         *)
LiveJobsListed ==
  \A p \in Procs : root[p] \in {"running", "writing"} =>
    \/ \E i \in Ids : meta[i] = p
    \/ \E c \in Clients : pc[c] = "meta" /\ pid[c] = p

(* The exit code shown under an id is that of the process its metadata     *)
(* names.                                                                  *)
StatusIsOwn ==
  \A i \in Ids : meta[i] # NoProc /\ status[i] \in Procs => status[i] = meta[i]

(* Well-formed files keep track of every process and of none but its own   *)
(* exit code.                                                              *)
OnRecord == TypeOK /\ LiveJobsListed /\ StatusIsOwn

(* A job reported as stopped is dead with its process group, whatever the  *)
(* processes do with SIGTERM and whenever they exit or fork.               *)
StoppedIsDead ==
  \A i \in Ids : status[i] = Stopped =>
    /\ meta[i] # NoProc
    /\ root[meta[i]] \in {"zombie", "gone"}
    /\ "group" \notin kids[meta[i]]

(* Once an exit code or a stop is recorded for a listed job, no later run, *)
(* stop or late sentinel changes it.                                       *)
StatusFinal ==
  [][\A i \in Ids : meta[i] # NoProc /\ status[i] \in Exited
                      => status'[i] = status[i]]_vars
=============================================================================
