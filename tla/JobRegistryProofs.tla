-------------------------- MODULE JobRegistryProofs --------------------------
(***************************************************************************)
(* Theorems about JobRegistry for every number of callers, labels,         *)
(* processes and limit.  The type invariant holds outright; the rest needs *)
(* what the code does not enforce: that no two callers start jobs under    *)
(* one label, and that no call is interrupted between spawning a job and   *)
(* writing its metadata.  The commands that are waited for (CommandExec)   *)
(* come last; they share nothing with the jobs and need no assumption.     *)
(***************************************************************************)
EXTENDS JobRegistry, CommandExec, FiniteSetTheorems, TLAPS

Careful ==
  /\ \A c, d \in Clients : c # d => LabelsOf[c] \cap LabelsOf[d] = {}
  /\ Interruptible \cap {"spawn", "meta"} = {}

Starting(c) == pc[c] \in {"spawn", "meta"}
Stopping(c) == pc[c] \in {"term", "grace", "kill", "record"}
Live(p) == root[p] \in {"running", "writing"}
Dead(p) == root[p] \in {"zombie", "gone"} /\ "group" \notin kids[p]

(* The id of a call that starts a job has no metadata yet, and is of the   *)
(* caller's labels; nothing is recorded under it before the process is     *)
(* there.                                                                  *)
StartsFresh ==
  \A c \in Clients : Starting(c) =>
    /\ job[c][1] \in LabelsOf[c]
    /\ meta[job[c]] = NoProc
    /\ pc[c] = "spawn" => status[job[c]] = NoStatus
    /\ pc[c] = "meta" => /\ root[pid[c]] # "unborn"
                         /\ Live(pid[c]) => home[pid[c]] = job[c]
                         /\ status[job[c]] \in Exited => status[job[c]] = pid[c]

(* A call that stops a job holds the pid its metadata names, and the       *)
(* group is dead once it is time to record the stop.                       *)
StopsOwn ==
  \A c \in Clients :
    /\ pc[c] = "settle" \/ Stopping(c) => meta[job[c]] = pid[c]
    /\ pc[c] = "record" => Dead(pid[c])

(* A live process writes to the status file of the id that names it, or    *)
(* that its caller is about to give it.                                    *)
HomeNamed ==
  \A p \in Procs : Live(p) =>
    /\ home[p] \in Ids
    /\ \/ meta[home[p]] = p
       \/ \E c \in Clients : pc[c] = "meta" /\ pid[c] = p /\ job[c] = home[p]

MetaNamesBorn ==
  \A i \in Ids : meta[i] # NoProc =>
    /\ root[meta[i]] # "unborn"
    /\ Live(meta[i]) => home[meta[i]] = i

(* What is recorded is the exit code of a process that is over, or a stop  *)
(* that took the whole group.                                              *)
RecordedIsOver ==
  \A i \in Ids :
    /\ status[i] \in Procs => root[status[i]] \in {"zombie", "gone"}
    /\ status[i] = Stopped => meta[i] # NoProc /\ Dead(meta[i])

JobInv ==
  /\ TypeOK
  /\ StartsFresh
  /\ StopsOwn
  /\ HomeNamed
  /\ MetaNamesBorn
  /\ RecordedIsOver
  /\ StatusIsOwn

Starters == {c \in Clients : Starting(c)}

(* A caller that has passed the check may add a job yet.                   *)
RoomInv ==
  /\ IsFiniteSet(Counted)
  /\ Cardinality(Counted) + Cardinality(Starters)
       <= MaxRunning + Cardinality(Clients) - 1

-----------------------------------------------------------------------------

LEMMA TypeInit == Init => TypeOK
  BY NoIdAssumption, JobAssumption DEF Init, TypeOK, Exited, Alive, Awaits

LEMMA TypeStep == TypeOK /\ [Next]_vars => TypeOK'
<1> SUFFICES ASSUME TypeOK, [Next]_vars
             PROVE  TypeOK'
  OBVIOUS
<1> USE JobAssumption, NoIdAssumption DEF TypeOK, Exited, Alive, Awaits
<1>1. ASSUME NEW c \in Clients, Run(c) PROVE TypeOK'
  BY <1>1 DEF Run, UniqueId
<1>2. ASSUME NEW c \in Clients, Stop(c) PROVE TypeOK'
  BY <1>2 DEF Stop, Counted, Running
<1>3. ASSUME NEW c \in Clients, Cancel(c) PROVE TypeOK'
  BY <1>3 DEF Cancel, Over
<1>4. ASSUME NEW c \in Clients, Spawn(c) PROVE TypeOK'
  BY <1>4 DEF Spawn, Reaped, Unborn
<1>5. ASSUME NEW c \in Clients, SpawnFails(c) PROVE TypeOK'
  BY <1>5 DEF SpawnFails, Over
<1>6. ASSUME NEW c \in Clients, WriteMeta(c) PROVE TypeOK'
  BY <1>6 DEF WriteMeta
<1>7. ASSUME NEW c \in Clients, Settled(c) PROVE TypeOK'
  BY <1>7 DEF Settled, Over
<1>8. ASSUME NEW c \in Clients, Terminate(c) PROVE TypeOK'
  BY <1>8 DEF Terminate, Signalled, Reached, Reaped
<1>9. ASSUME NEW c \in Clients, GraceOver(c) PROVE TypeOK'
  BY <1>9 DEF GraceOver, RecordStop, Over
<1>10. ASSUME NEW c \in Clients, ForceKill(c) PROVE TypeOK'
  BY <1>10 DEF ForceKill, Signalled, Reached, Reaped
<1>11. ASSUME NEW c \in Clients, Record(c) PROVE TypeOK'
  BY <1>11 DEF Record, RecordStop, Over
<1>12. ASSUME NEW p \in Procs, Fork(p) PROVE TypeOK'
  BY <1>12 DEF Fork
<1>13. ASSUME NEW p \in Procs, CreateStatus(p) PROVE TypeOK'
  BY <1>13 DEF CreateStatus
<1>14. ASSUME NEW p \in Procs, FillStatus(p) PROVE TypeOK'
  BY <1>14 DEF FillStatus
<1>15. ASSUME NEW p \in Procs, Killed(p) PROVE TypeOK'
  BY <1>15 DEF Killed
<1>16. ASSUME NEW p \in Procs, KidEnds(p) PROVE TypeOK'
  BY <1>16 DEF KidEnds
<1>17. CASE OtherPopen
  BY <1>17 DEF OtherPopen, Reaped
<1>18. CASE Crash
  BY <1>18 DEF Crash, Reaped
<1>19. CASE UNCHANGED vars
  BY <1>19 DEF vars
<1> QED
  BY <1>1, <1>2, <1>3, <1>4, <1>5, <1>6, <1>7, <1>8, <1>9, <1>10, <1>11, <1>12,
     <1>13, <1>14, <1>15, <1>16, <1>17, <1>18, <1>19
  DEF Next, ClientStep, JobStep

(* Files, processes and calls keep their types, and a call holds an id and *)
(* a pid exactly while it is suspended where it needs them.                *)
THEOREM JobTypeCorrect == Spec => []TypeOK
  BY TypeInit, TypeStep, PTL DEF Spec

-----------------------------------------------------------------------------
(* With careful callers, ids and processes stay together. *)

LEMMA JobInvInit == Init => JobInv
  BY TypeInit, JobAssumption DEF Init, JobInv, StartsFresh, StopsOwn, HomeNamed,
     MetaNamesBorn, RecordedIsOver, StatusIsOwn, Starting, Stopping, Live, Exited

LEMMA JobInvStep == Careful /\ JobInv /\ [Next]_vars => JobInv'
<1> SUFFICES ASSUME Careful, JobInv, [Next]_vars
             PROVE  JobInv'
  OBVIOUS
<1>0. TypeOK'
  BY TypeStep DEF JobInv
<1> USE JobAssumption, NoIdAssumption DEF JobInv, TypeOK, Exited, Alive, Awaits,
        Starting, Stopping, Live, Dead
<1> DEFINE Rest == StartsFresh /\ StopsOwn /\ HomeNamed /\ MetaNamesBorn
                   /\ RecordedIsOver /\ StatusIsOwn
<1>1. ASSUME NEW c \in Clients, Run(c) PROVE Rest'
  <2>1. StartsFresh'
    BY <1>0, <1>1 DEF Run, UniqueId, StartsFresh, HomeNamed, MetaNamesBorn, Careful
  <2>2. StopsOwn'
    BY <1>0, <1>1 DEF Run, UniqueId, StopsOwn
  <2>3. HomeNamed'
    BY <1>0, <1>1 DEF Run, UniqueId, StartsFresh, HomeNamed, MetaNamesBorn, Careful
  <2>4. MetaNamesBorn'
    BY <1>0, <1>1 DEF Run, UniqueId, MetaNamesBorn
  <2>5. RecordedIsOver'
    BY <1>0, <1>1 DEF Run, UniqueId, RecordedIsOver
  <2>6. StatusIsOwn'
    BY <1>0, <1>1 DEF Run, UniqueId, StatusIsOwn
  <2> QED
    BY <2>1, <2>2, <2>3, <2>4, <2>5, <2>6
<1>2. ASSUME NEW c \in Clients, Stop(c) PROVE Rest'
  <2>1. StartsFresh'
    BY <1>0, <1>2 DEF Stop, Counted, Running, StartsFresh
  <2>2. StopsOwn'
    BY <1>0, <1>2 DEF Stop, Counted, Running, StopsOwn
  <2>3. HomeNamed'
    BY <1>0, <1>2 DEF Stop, Counted, Running, HomeNamed
  <2>4. MetaNamesBorn'
    BY <1>0, <1>2 DEF Stop, Counted, Running, MetaNamesBorn
  <2>5. RecordedIsOver'
    BY <1>0, <1>2 DEF Stop, Counted, Running, RecordedIsOver
  <2>6. StatusIsOwn'
    BY <1>0, <1>2 DEF Stop, Counted, Running, StatusIsOwn
  <2> QED
    BY <2>1, <2>2, <2>3, <2>4, <2>5, <2>6
<1>3. ASSUME NEW c \in Clients, Cancel(c) PROVE Rest'
  <2>1. StartsFresh'
    BY <1>0, <1>3 DEF Cancel, Over, StartsFresh
  <2>2. StopsOwn'
    BY <1>0, <1>3 DEF Cancel, Over, StopsOwn
  <2>3. HomeNamed'
    BY <1>0, <1>3 DEF Cancel, Over, StartsFresh, HomeNamed, MetaNamesBorn, Careful
  <2>4. MetaNamesBorn'
    BY <1>0, <1>3 DEF Cancel, Over, MetaNamesBorn
  <2>5. RecordedIsOver'
    BY <1>0, <1>3 DEF Cancel, Over, RecordedIsOver
  <2>6. StatusIsOwn'
    BY <1>0, <1>3 DEF Cancel, Over, StatusIsOwn
  <2> QED
    BY <2>1, <2>2, <2>3, <2>4, <2>5, <2>6
<1>4. ASSUME NEW c \in Clients, Spawn(c) PROVE Rest'
  <2>1. StartsFresh'
    BY <1>0, <1>4 DEF Spawn, Reaped, Unborn, StartsFresh
  <2>2. StopsOwn'
    BY <1>0, <1>4 DEF Spawn, Reaped, Unborn, StopsOwn
  <2>3. HomeNamed'
    BY <1>0, <1>4 DEF Spawn, Reaped, Unborn, HomeNamed
  <2>4. MetaNamesBorn'
    BY <1>0, <1>4 DEF Spawn, Reaped, Unborn, MetaNamesBorn
  <2>5. RecordedIsOver'
    BY <1>0, <1>4 DEF Spawn, Reaped, Unborn, RecordedIsOver
  <2>6. StatusIsOwn'
    BY <1>0, <1>4 DEF Spawn, Reaped, Unborn, StatusIsOwn
  <2> QED
    BY <2>1, <2>2, <2>3, <2>4, <2>5, <2>6
<1>5. ASSUME NEW c \in Clients, SpawnFails(c) PROVE Rest'
  <2>1. StartsFresh'
    BY <1>0, <1>5 DEF SpawnFails, Over, StartsFresh
  <2>2. StopsOwn'
    BY <1>0, <1>5 DEF SpawnFails, Over, StopsOwn
  <2>3. HomeNamed'
    BY <1>0, <1>5 DEF SpawnFails, Over, HomeNamed
  <2>4. MetaNamesBorn'
    BY <1>0, <1>5 DEF SpawnFails, Over, MetaNamesBorn
  <2>5. RecordedIsOver'
    BY <1>0, <1>5 DEF SpawnFails, Over, RecordedIsOver
  <2>6. StatusIsOwn'
    BY <1>0, <1>5 DEF SpawnFails, Over, StatusIsOwn
  <2> QED
    BY <2>1, <2>2, <2>3, <2>4, <2>5, <2>6
<1>6. ASSUME NEW c \in Clients, WriteMeta(c) PROVE Rest'
  <2>1. StartsFresh'
    BY <1>0, <1>6 DEF WriteMeta, StartsFresh, HomeNamed, MetaNamesBorn, Careful
  <2>2. StopsOwn'
    BY <1>0, <1>6 DEF WriteMeta, StartsFresh, StopsOwn
  <2>3. HomeNamed'
    BY <1>0, <1>6 DEF WriteMeta, StartsFresh, StopsOwn, HomeNamed
  <2>4. MetaNamesBorn'
    BY <1>0, <1>6 DEF WriteMeta, StartsFresh, StopsOwn, MetaNamesBorn
  <2>5. RecordedIsOver'
    BY <1>0, <1>6 DEF WriteMeta, StartsFresh, StopsOwn, RecordedIsOver
  <2>6. StatusIsOwn'
    BY <1>0, <1>6 DEF WriteMeta, StartsFresh, StopsOwn, StatusIsOwn
  <2> QED
    BY <2>1, <2>2, <2>3, <2>4, <2>5, <2>6
<1>7. ASSUME NEW c \in Clients, Settled(c) PROVE Rest'
  <2>1. StartsFresh'
    BY <1>0, <1>7 DEF Settled, Over, StartsFresh
  <2>2. StopsOwn'
    BY <1>0, <1>7 DEF Settled, Over, StopsOwn
  <2>3. HomeNamed'
    BY <1>0, <1>7 DEF Settled, Over, HomeNamed
  <2>4. MetaNamesBorn'
    BY <1>0, <1>7 DEF Settled, Over, MetaNamesBorn
  <2>5. RecordedIsOver'
    BY <1>0, <1>7 DEF Settled, Over, RecordedIsOver
  <2>6. StatusIsOwn'
    BY <1>0, <1>7 DEF Settled, Over, StatusIsOwn
  <2> QED
    BY <2>1, <2>2, <2>3, <2>4, <2>5, <2>6
<1>8. ASSUME NEW c \in Clients, Terminate(c) PROVE Rest'
  <2>a. \A q \in Procs :
          /\ root'[q] = root[q] \/ (root'[q] \in {"zombie", "gone"} /\ root[q] # "unborn")
          /\ root[q] \in {"zombie", "gone"} => root'[q] \in {"zombie", "gone"}
          /\ kids'[q] \subseteq kids[q]
    <3>1. CASE root' = Reaped
      BY <1>0, <1>8, <3>1 DEF Terminate, Reaped
    <3>2. CASE root' = Signalled(pid[c])
      BY <1>0, <1>8, <3>2 DEF Terminate, Signalled, Reaped
    <3> QED
      BY <1>8, <3>1, <3>2 DEF Terminate
  <2>b. UNCHANGED <<meta, status, home, job, pid>>
        /\ pc[c] = "term" /\ pc' = [pc EXCEPT ![c] = "grace"]
    BY <1>8 DEF Terminate
  <2>1. StartsFresh'
    BY <1>0, <2>a, <2>b DEF StartsFresh
  <2>2. StopsOwn'
    BY <1>0, <2>a, <2>b DEF StopsOwn
  <2>3. HomeNamed'
    BY <1>0, <2>a, <2>b DEF HomeNamed
  <2>4. MetaNamesBorn'
    BY <1>0, <2>a, <2>b DEF MetaNamesBorn
  <2>5. RecordedIsOver'
    BY <1>0, <2>a, <2>b DEF RecordedIsOver
  <2>6. StatusIsOwn'
    BY <1>0, <2>a, <2>b DEF StatusIsOwn
  <2> QED
    BY <2>1, <2>2, <2>3, <2>4, <2>5, <2>6
<1>9. ASSUME NEW c \in Clients, GraceOver(c) PROVE Rest'
  <2>1. StartsFresh'
    BY <1>0, <1>9
    DEF GraceOver, RecordStop, Over, GroupAlive, PidAlive, StartsFresh, StopsOwn
  <2>2. StopsOwn'
    BY <1>0, <1>9 DEF GraceOver, RecordStop, Over, GroupAlive, PidAlive, StopsOwn
  <2>3. HomeNamed'
    BY <1>0, <1>9 DEF GraceOver, RecordStop, Over, GroupAlive, PidAlive, HomeNamed
  <2>4. MetaNamesBorn'
    BY <1>0, <1>9 DEF GraceOver, RecordStop, Over, GroupAlive, PidAlive, MetaNamesBorn
  <2>5. RecordedIsOver'
    BY <1>0, <1>9
    DEF GraceOver, RecordStop, Over, GroupAlive, PidAlive, StartsFresh, StopsOwn,
       HomeNamed, MetaNamesBorn, RecordedIsOver, StatusIsOwn, Careful
  <2>6. StatusIsOwn'
    BY <1>0, <1>9 DEF GraceOver, RecordStop, Over, GroupAlive, PidAlive, StatusIsOwn
  <2> QED
    BY <2>1, <2>2, <2>3, <2>4, <2>5, <2>6
<1>10. ASSUME NEW c \in Clients, ForceKill(c) PROVE Rest'
  <2>1. StartsFresh'
    BY <1>0, <1>10 DEF ForceKill, Signalled, Reached, Reaped, StartsFresh
  <2>2. StopsOwn'
    BY <1>0, <1>10
    DEF ForceKill, Signalled, Reached, Reaped, StartsFresh, StopsOwn, HomeNamed,
       MetaNamesBorn, Careful
  <2>3. HomeNamed'
    BY <1>0, <1>10 DEF ForceKill, Signalled, Reached, Reaped, HomeNamed
  <2>4. MetaNamesBorn'
    BY <1>0, <1>10 DEF ForceKill, Signalled, Reached, Reaped, MetaNamesBorn
  <2>5. RecordedIsOver'
    BY <1>0, <1>10 DEF ForceKill, Signalled, Reached, Reaped, RecordedIsOver
  <2>6. StatusIsOwn'
    BY <1>0, <1>10 DEF ForceKill, Signalled, Reached, Reaped, StatusIsOwn
  <2> QED
    BY <2>1, <2>2, <2>3, <2>4, <2>5, <2>6
<1>11. ASSUME NEW c \in Clients, Record(c) PROVE Rest'
  <2>1. StartsFresh'
    BY <1>0, <1>11 DEF Record, RecordStop, Over, StartsFresh, StopsOwn
  <2>2. StopsOwn'
    BY <1>0, <1>11 DEF Record, RecordStop, Over, StopsOwn
  <2>3. HomeNamed'
    BY <1>0, <1>11 DEF Record, RecordStop, Over, HomeNamed
  <2>4. MetaNamesBorn'
    BY <1>0, <1>11 DEF Record, RecordStop, Over, MetaNamesBorn
  <2>5. RecordedIsOver'
    BY <1>0, <1>11 DEF Record, RecordStop, Over, StartsFresh, StopsOwn, RecordedIsOver
  <2>6. StatusIsOwn'
    BY <1>0, <1>11 DEF Record, RecordStop, Over, StatusIsOwn
  <2> QED
    BY <2>1, <2>2, <2>3, <2>4, <2>5, <2>6
<1>12. ASSUME NEW p \in Procs, Fork(p) PROVE Rest'
  <2>1. StartsFresh'
    BY <1>0, <1>12 DEF Fork, StartsFresh
  <2>2. StopsOwn'
    BY <1>0, <1>12 DEF Fork, StopsOwn
  <2>3. HomeNamed'
    BY <1>0, <1>12 DEF Fork, HomeNamed
  <2>4. MetaNamesBorn'
    BY <1>0, <1>12 DEF Fork, MetaNamesBorn
  <2>5. RecordedIsOver'
    BY <1>0, <1>12 DEF Fork, RecordedIsOver
  <2>6. StatusIsOwn'
    BY <1>0, <1>12 DEF Fork, StatusIsOwn
  <2> QED
    BY <2>1, <2>2, <2>3, <2>4, <2>5, <2>6
<1>13. ASSUME NEW p \in Procs, CreateStatus(p) PROVE Rest'
  <2>1. StartsFresh'
    BY <1>0, <1>13 DEF CreateStatus, StartsFresh, HomeNamed, MetaNamesBorn, Careful
  <2>2. StopsOwn'
    BY <1>0, <1>13 DEF CreateStatus, StopsOwn
  <2>3. HomeNamed'
    BY <1>0, <1>13 DEF CreateStatus, HomeNamed
  <2>4. MetaNamesBorn'
    BY <1>0, <1>13 DEF CreateStatus, MetaNamesBorn
  <2>5. RecordedIsOver'
    BY <1>0, <1>13 DEF CreateStatus, RecordedIsOver
  <2>6. StatusIsOwn'
    BY <1>0, <1>13 DEF CreateStatus, StatusIsOwn
  <2> QED
    BY <2>1, <2>2, <2>3, <2>4, <2>5, <2>6
<1>14. ASSUME NEW p \in Procs, FillStatus(p) PROVE Rest'
  <2>1. StartsFresh'
    BY <1>0, <1>14 DEF FillStatus, StartsFresh, HomeNamed, MetaNamesBorn, Careful
  <2>2. StopsOwn'
    BY <1>0, <1>14 DEF FillStatus, StopsOwn
  <2>3. HomeNamed'
    BY <1>0, <1>14 DEF FillStatus, HomeNamed
  <2>4. MetaNamesBorn'
    BY <1>0, <1>14 DEF FillStatus, MetaNamesBorn
  <2>5. RecordedIsOver'
    BY <1>0, <1>14 DEF FillStatus, RecordedIsOver
  <2>6. StatusIsOwn'
    BY <1>0, <1>14 DEF FillStatus, StartsFresh, HomeNamed, StatusIsOwn
  <2> QED
    BY <2>1, <2>2, <2>3, <2>4, <2>5, <2>6
<1>15. ASSUME NEW p \in Procs, Killed(p) PROVE Rest'
  <2>1. StartsFresh'
    BY <1>0, <1>15 DEF Killed, StartsFresh
  <2>2. StopsOwn'
    BY <1>0, <1>15 DEF Killed, StopsOwn
  <2>3. HomeNamed'
    BY <1>0, <1>15 DEF Killed, HomeNamed
  <2>4. MetaNamesBorn'
    BY <1>0, <1>15 DEF Killed, MetaNamesBorn
  <2>5. RecordedIsOver'
    BY <1>0, <1>15 DEF Killed, RecordedIsOver
  <2>6. StatusIsOwn'
    BY <1>0, <1>15 DEF Killed, StatusIsOwn
  <2> QED
    BY <2>1, <2>2, <2>3, <2>4, <2>5, <2>6
<1>16. ASSUME NEW p \in Procs, KidEnds(p) PROVE Rest'
  <2>1. StartsFresh'
    BY <1>0, <1>16 DEF KidEnds, StartsFresh
  <2>2. StopsOwn'
    BY <1>0, <1>16 DEF KidEnds, StopsOwn
  <2>3. HomeNamed'
    BY <1>0, <1>16 DEF KidEnds, HomeNamed
  <2>4. MetaNamesBorn'
    BY <1>0, <1>16 DEF KidEnds, MetaNamesBorn
  <2>5. RecordedIsOver'
    BY <1>0, <1>16 DEF KidEnds, RecordedIsOver
  <2>6. StatusIsOwn'
    BY <1>0, <1>16 DEF KidEnds, StatusIsOwn
  <2> QED
    BY <2>1, <2>2, <2>3, <2>4, <2>5, <2>6
<1>17. ASSUME OtherPopen PROVE Rest'
  <2>1. StartsFresh'
    BY <1>0, <1>17 DEF OtherPopen, Reaped, StartsFresh
  <2>2. StopsOwn'
    BY <1>0, <1>17 DEF OtherPopen, Reaped, StopsOwn
  <2>3. HomeNamed'
    BY <1>0, <1>17 DEF OtherPopen, Reaped, HomeNamed
  <2>4. MetaNamesBorn'
    BY <1>0, <1>17 DEF OtherPopen, Reaped, MetaNamesBorn
  <2>5. RecordedIsOver'
    BY <1>0, <1>17 DEF OtherPopen, Reaped, RecordedIsOver
  <2>6. StatusIsOwn'
    BY <1>0, <1>17 DEF OtherPopen, Reaped, StatusIsOwn
  <2> QED
    BY <2>1, <2>2, <2>3, <2>4, <2>5, <2>6
<1>18. ASSUME Crash PROVE Rest'
  <2>1. StartsFresh'
    BY <1>0, <1>18 DEF Crash, Reaped, StartsFresh
  <2>2. StopsOwn'
    BY <1>0, <1>18 DEF Crash, Reaped, StopsOwn
  <2>3. HomeNamed'
    BY <1>0, <1>18 DEF Crash, Reaped, StartsFresh, HomeNamed, MetaNamesBorn, Careful
  <2>4. MetaNamesBorn'
    BY <1>0, <1>18 DEF Crash, Reaped, MetaNamesBorn
  <2>5. RecordedIsOver'
    BY <1>0, <1>18 DEF Crash, Reaped, RecordedIsOver
  <2>6. StatusIsOwn'
    BY <1>0, <1>18 DEF Crash, Reaped, StatusIsOwn
  <2> QED
    BY <2>1, <2>2, <2>3, <2>4, <2>5, <2>6
<1>19. CASE UNCHANGED vars
  BY <1>19
  DEF vars, StartsFresh, StopsOwn, HomeNamed, MetaNamesBorn, RecordedIsOver, StatusIsOwn
<1> QED
  BY <1>0, <1>1, <1>2, <1>3, <1>4, <1>5, <1>6, <1>7, <1>8, <1>9, <1>10, <1>11,
     <1>12, <1>13, <1>14, <1>15, <1>16, <1>17, <1>18, <1>19
  DEF Next, ClientStep, JobStep

-----------------------------------------------------------------------------
(* A step that leaves the started calls and the counted jobs no larger,    *)
(* passes the check, or turns a started call into a counted job.           *)
LEMMA RoomInit == Init => RoomInv
<1> SUFFICES ASSUME Init PROVE RoomInv
  OBVIOUS
<1>1. Counted = {} /\ Starters = {}
  BY DEF Init, Counted, Running, Starters, Starting
<1>2. Cardinality(Clients) \in Nat \ {0}
  BY JobAssumption, FS_CardinalityType, FS_EmptySet
<1> QED
  BY <1>1, <1>2, FS_EmptySet, JobAssumption DEF RoomInv

LEMMA RoomKept ==
  ASSUME RoomInv, Counted' \subseteq Counted, Starters' \subseteq Starters
  PROVE  RoomInv'
<1>1. IsFiniteSet(Starters)
  BY JobAssumption, FS_Subset DEF Starters
<1>2. Cardinality(Counted') <= Cardinality(Counted) /\ IsFiniteSet(Counted')
  BY FS_Subset DEF RoomInv
<1>3. Cardinality(Starters') <= Cardinality(Starters) /\ IsFiniteSet(Starters')
  BY <1>1, FS_Subset
<1>4. /\ Cardinality(Counted) \in Nat /\ Cardinality(Counted') \in Nat
      /\ Cardinality(Starters) \in Nat /\ Cardinality(Starters') \in Nat
      /\ Cardinality(Clients) \in Nat
  BY <1>1, <1>2, <1>3, FS_CardinalityType, JobAssumption DEF RoomInv
<1> QED
  BY <1>2, <1>3, <1>4, JobAssumption DEF RoomInv

LEMMA RoomStep == Careful /\ JobInv /\ RoomInv /\ [Next]_vars => RoomInv'
<1> SUFFICES ASSUME Careful, JobInv, RoomInv, [Next]_vars
             PROVE  RoomInv'
  OBVIOUS
<1> USE JobAssumption, NoIdAssumption DEF JobInv, TypeOK, Exited, Alive, Awaits,
        Starting, Live, Dead
<1> DEFINE Quiet == Counted' \subseteq Counted /\ Starters' \subseteq Starters
<1>1. ASSUME NEW c \in Clients, Run(c) PROVE RoomInv'
  <2>1. Counted' \subseteq Counted
    BY <1>1 DEF Run, UniqueId, Counted, Running, PidAlive
  <2>2. Starters' \subseteq Clients
    BY DEF Starters
  <2>3. IsFiniteSet(Counted') /\ Cardinality(Counted') <= Cardinality(Counted)
    BY <2>1, FS_Subset DEF RoomInv
  <2>4. Cardinality(Starters') <= Cardinality(Clients) /\ IsFiniteSet(Starters')
    BY <2>2, FS_Subset
  <2>5. /\ Cardinality(Counted) \in Nat /\ Cardinality(Counted') \in Nat
        /\ Cardinality(Starters') \in Nat /\ Cardinality(Clients) \in Nat
    BY <2>3, <2>4, FS_CardinalityType DEF RoomInv
  <2>6. Cardinality(Counted) < MaxRunning
    BY <1>1 DEF Run, Room
  <2> QED
    BY <2>3, <2>4, <2>5, <2>6 DEF RoomInv
<1>2. ASSUME NEW c \in Clients, WriteMeta(c) PROVE RoomInv'
  <2>1. Counted' \subseteq Counted \cup {job[c]}
    BY <1>2 DEF WriteMeta, Counted, Running, PidAlive
  <2>2. Starters' \subseteq Starters \ {c} /\ c \in Starters
    BY <1>2 DEF WriteMeta, Starters
  <2>3. /\ IsFiniteSet(Counted \cup {job[c]})
        /\ Cardinality(Counted \cup {job[c]}) <= Cardinality(Counted) + 1
    <3>1. IsFiniteSet(Counted) /\ Cardinality(Counted) \in Nat
      BY FS_CardinalityType DEF RoomInv
    <3>2. /\ IsFiniteSet(Counted \cup {job[c]})
          /\ Cardinality(Counted \cup {job[c]}) =
               IF job[c] \in Counted THEN Cardinality(Counted) ELSE Cardinality(Counted) + 1
      BY <3>1, FS_AddElement, Zenon
    <3> QED
      BY <3>1, <3>2
  <2>4. IsFiniteSet(Counted') /\ Cardinality(Counted') <= Cardinality(Counted \cup {job[c]})
    BY <2>1, <2>3, FS_Subset
  <2>5. IsFiniteSet(Starters) /\ IsFiniteSet(Starters \ {c})
        /\ Cardinality(Starters \ {c}) = Cardinality(Starters) - 1
    <3>1. IsFiniteSet(Starters)
      BY FS_Subset DEF Starters
    <3> QED
      BY <2>2, <3>1, FS_RemoveElement
  <2>6. IsFiniteSet(Starters') /\ Cardinality(Starters') <= Cardinality(Starters \ {c})
    BY <2>2, <2>5, FS_Subset
  <2>7. /\ Cardinality(Counted) \in Nat /\ Cardinality(Counted') \in Nat
        /\ Cardinality(Counted \cup {job[c]}) \in Nat
        /\ Cardinality(Starters) \in Nat /\ Cardinality(Starters') \in Nat
        /\ Cardinality(Clients) \in Nat
    BY <2>3, <2>4, <2>5, <2>6, FS_CardinalityType DEF RoomInv
  <2> QED
    BY <2>3, <2>4, <2>5, <2>6, <2>7 DEF RoomInv
<1>3. ASSUME NEW c \in Clients, Spawn(c) PROVE Quiet
  BY <1>3 DEF Spawn, Reaped, Unborn, Counted, Running, PidAlive, Starters, MetaNamesBorn
<1>4. ASSUME NEW c \in Clients,
             Stop(c) \/ Cancel(c) \/ SpawnFails(c) \/ Settled(c)
      PROVE  Quiet
  BY <1>4 DEF Stop, Cancel, SpawnFails, Settled, Over, Counted, Running, PidAlive,
     Starters
<1>5. ASSUME NEW c \in Clients, Terminate(c) \/ ForceKill(c) PROVE Quiet
  <2>1. \A q \in Procs : root'[q] \in Alive => root[q] \in Alive
    <3>1. CASE root' = Reaped
      BY <3>1 DEF Reaped
    <3>2. CASE root' = Signalled(pid[c])
      BY <3>2 DEF Signalled, Reaped
    <3> QED
      BY <1>5, <3>1, <3>2 DEF Terminate, ForceKill
  <2> QED
    BY <1>5, <2>1 DEF Terminate, ForceKill, Counted, Running, PidAlive, Starters
<1>6. ASSUME NEW c \in Clients, GraceOver(c) \/ Record(c) PROVE Quiet
  BY <1>6 DEF GraceOver, Record, RecordStop, Over, Counted, Running, PidAlive, Starters
<1>7. ASSUME NEW p \in Procs, CreateStatus(p) PROVE Quiet
  <2>1. status[home[p]] \notin Exited
    BY <1>7 DEF CreateStatus, HomeNamed, StartsFresh, RecordedIsOver, StatusIsOwn
  <2> QED
    BY <1>7, <2>1 DEF CreateStatus, Counted, Running, PidAlive, Starters
<1>8. ASSUME NEW p \in Procs, Fork(p) \/ FillStatus(p) \/ Killed(p) \/ KidEnds(p)
      PROVE  Quiet
  BY <1>8 DEF Fork, FillStatus, Killed, KidEnds, Counted, Running, PidAlive, Starters
<1>9. ASSUME OtherPopen \/ Crash PROVE Quiet
  BY <1>9 DEF OtherPopen, Crash, Reaped, Counted, Running, PidAlive, Starters
<1>10. ASSUME UNCHANGED vars PROVE Quiet
  BY <1>10 DEF vars, Counted, Running, PidAlive, Starters
<1> HIDE DEF Quiet
<1>11. Quiet \/ RoomInv'
  BY <1>1, <1>2, <1>3, <1>4, <1>5, <1>6, <1>7, <1>8, <1>9, <1>10
  DEF Next, ClientStep, JobStep
<1> QED
  BY <1>11, RoomKept DEF Quiet

-----------------------------------------------------------------------------

(* Started and stopping calls, metadata, processes and status files agree. *)
THEOREM JobInvariant ==
  ASSUME Careful
  PROVE  Spec => []JobInv
<1>1. JobInv /\ [Next]_vars => JobInv'
  BY JobInvStep
<1> QED
  BY <1>1, JobInvInit, PTL DEF Spec

(* However many runs pass the limit while another one is awaiting its      *)
(* spawn, at most one job per further caller is started above it.          *)
THEOREM Bounded ==
  ASSUME Careful
  PROVE  Spec => []RunningBounded
<1>1. RoomInv => RunningBounded
  <2> SUFFICES ASSUME RoomInv PROVE RunningBounded
    OBVIOUS
  <2>1. IsFiniteSet(Starters)
    BY JobAssumption, FS_Subset DEF Starters
  <2>2. /\ Cardinality(Counted) \in Nat /\ Cardinality(Starters) \in Nat
        /\ Cardinality(Clients) \in Nat
    BY <2>1, FS_CardinalityType, JobAssumption DEF RoomInv
  <2> QED
    BY <2>2, JobAssumption DEF RoomInv, RunningBounded
<1>2. JobInv /\ [Next]_vars => JobInv'
  BY JobInvStep
<1>3. JobInv /\ RoomInv /\ [Next]_vars => RoomInv'
  BY RoomStep
<1> QED
  BY <1>1, <1>2, <1>3, JobInvInit, RoomInit, PTL DEF Spec

(* No live process is without an id that lists it.                         *)
THEOREM Listed ==
  ASSUME Careful
  PROVE  Spec => []LiveJobsListed
<1>1. JobInv => LiveJobsListed
  BY DEF JobInv, HomeNamed, Live, LiveJobsListed
<1> QED
  BY <1>1, JobInvariant, PTL

(* An id shows the exit code of its own process.                           *)
THEOREM OwnStatus ==
  ASSUME Careful
  PROVE  Spec => []StatusIsOwn
<1>1. JobInv => StatusIsOwn
  BY DEF JobInv
<1> QED
  BY <1>1, JobInvariant, PTL

(* A job recorded as stopped is dead with its group.                       *)
THEOREM DeadWhenStopped ==
  ASSUME Careful
  PROVE  Spec => []StoppedIsDead
<1>1. JobInv => StoppedIsDead
  BY DEF JobInv, RecordedIsOver, Dead, StoppedIsDead
<1> QED
  BY <1>1, JobInvariant, PTL

(* What is recorded of a listed job is never overwritten.                  *)
THEOREM Final ==
  ASSUME Careful
  PROVE  Spec => StatusFinal
<1> DEFINE Keeps == \A i \in Ids : meta[i] # NoProc /\ status[i] \in Exited
                                  => status'[i] = status[i]
<1>1. ASSUME JobInv, [Next]_vars PROVE Keeps
  <2> USE JobAssumption, NoIdAssumption DEF JobInv, TypeOK, Exited, Alive, Awaits
  <2>1. ASSUME NEW c \in Clients, ClientStep(c) PROVE Keeps
    BY <1>1, <2>1
    DEF ClientStep, Run, Stop, Cancel, Spawn, SpawnFails, WriteMeta, Settled,
       Terminate, GraceOver, ForceKill, Record, RecordStop, UniqueId
  <2>2. ASSUME NEW p \in Procs, CreateStatus(p) \/ FillStatus(p) PROVE Keeps
    BY <1>1, <2>2
    DEF CreateStatus, FillStatus, HomeNamed, StartsFresh, Starting, Live, Dead,
       RecordedIsOver, StatusIsOwn
  <2>3. ASSUME NEW p \in Procs, Fork(p) \/ Killed(p) \/ KidEnds(p) PROVE Keeps
    BY <2>3 DEF Fork, Killed, KidEnds
  <2>4. ASSUME OtherPopen \/ Crash \/ UNCHANGED vars PROVE Keeps
    BY <2>4 DEF OtherPopen, Crash, vars
  <2> QED
    BY <1>1, <2>1, <2>2, <2>3, <2>4 DEF Next, JobStep
<1>2. JobInv /\ [Next]_vars => JobInv'
  BY JobInvStep
<1> QED
  BY <1>1, <1>2, JobInvInit, PTL DEF Spec, StatusFinal

(* The shape of files and processes, the listing of live jobs and their    *)
(* exit codes together, as the run checks them.                            *)
THEOREM Recorded ==
  ASSUME Careful
  PROVE  Spec => []OnRecord
<1>1. TypeOK /\ LiveJobsListed /\ StatusIsOwn => OnRecord
  BY DEF OnRecord
<1> QED
  BY <1>1, JobTypeCorrect, Listed, OwnStatus, PTL

-----------------------------------------------------------------------------
(* Commands that are waited for.                                           *)

CallStates == [
  caller : {"idle", "waits", "over"},
  via    : {"local", "remote"},
  runner : {"none", "reads", "kills", "over", "dropped"},
  child  : {"none", "running", "killed", "ok", "bad"},
  held   : BOOLEAN,
  result : {"none", "ok", "bad", "timeout", "notfound", "error"},
  reply  : {"none", "ok", "bad", "timeout", "notfound", "error", "cancelled"}]

(* The parts of CallInv.  A result is true of the child, whose pipes nobody *)
(* can take hold of any more; a runner that kills has no running child; a   *)
(* child that runs has a runner that reads, unless a cancellation dropped   *)
(* it; and what the caller is told is the result.                           *)
ResultTrue(s) ==
  /\ s.result \in {"ok", "bad"} => s.child = s.result /\ ~ s.held
  /\ s.result = "timeout" => s.child \notin {"none", "running"}
  /\ s.result \in {"notfound", "error"} => s.child = "none"
  /\ s.result # "none" <=> s.runner = "over"

Watched(s) ==
  /\ s.runner = "kills" => s.child \notin {"none", "running"}
  /\ s.child = "running" => s.runner \in {"reads", "dropped"}
  /\ s.runner = "dropped" => s.via = "local" /\ s.reply = "cancelled"
  /\ s.child = "none" => ~ s.held /\ s.runner \in {"none", "over"}

Replied(s) ==
  /\ s.caller = "over" <=> s.reply # "none"
  /\ s.caller = "idle" => s.child = "none" /\ s.runner = "none"
  /\ s.reply \in {"ok", "bad", "timeout", "notfound"} => s.result = s.reply
  /\ s.reply = "error" => (s.child = "none" /\ s.runner = "over") \/ s.via = "remote"

CallInv == call \in [Calls -> CallStates] /\ \A c \in Calls :
  ResultTrue(call[c]) /\ Watched(call[c]) /\ Replied(call[c])

(* Every step keeps it: each replaces the record of one call by a good one. *)
LEMMA CallStep == CallInv /\ [ExecNext]_call => CallInv'
<1> SUFFICES ASSUME CallInv, ExecNext PROVE CallInv'
  BY DEF CallInv
<1>1. PICK c \in Calls :
        \/ Submit(c) \/ Inherit(c) \/ LetGo(c) \/ Exits(c)
        \/ Communicated(c) \/ TimesOut(c) \/ Reaps(c)
        \/ Returns(c) \/ LosesLink(c) \/ Cancelled(c)
  BY DEF ExecNext
<1> DEFINE Good(s) == s \in CallStates /\ ResultTrue(s) /\ Watched(s) /\ Replied(s)
<1>2. ASSUME NEW s, Good(s), Becomes(c, s) PROVE CallInv'
  BY <1>2 DEF CallInv, Becomes
<1>3. Good(call[c])
  BY DEF CallInv
<1> HIDE DEF Good
<1>4. CASE Submit(c)
  <2>1. PICK via \in {"local", "remote"} :
          \E state \in {Spawned([call[c] EXCEPT !.caller = "waits", !.via = via])}
                       \cup Refusals([call[c] EXCEPT !.caller = "waits", !.via = via]) : Becomes(c, state)
    BY <1>4 DEF Submit
  <2>2. call[c].caller = "idle"
    BY <1>4 DEF Submit
  <2>3. CASE Becomes(c, Spawned([call[c] EXCEPT !.caller = "waits", !.via = via]))
    <3>1. Good(Spawned([call[c] EXCEPT !.caller = "waits", !.via = via]))
      BY <1>3, <2>2 DEF Spawned, Good, CallStates, ResultTrue, Watched, Replied
    <3> QED
      BY <1>2, <2>3, <3>1
  <2>4. ASSUME NEW r \in {"notfound", "error"},
               Becomes(c, [[call[c] EXCEPT !.caller = "waits", !.via = via]
                             EXCEPT !.runner = "over", !.result = r])
        PROVE  CallInv'
    <3>1. Good([[call[c] EXCEPT !.caller = "waits", !.via = via]
                   EXCEPT !.runner = "over", !.result = r])
      BY <1>3, <2>2 DEF Good, CallStates, ResultTrue, Watched, Replied
    <3> QED
      BY <1>2, <2>4, <3>1
  <2> QED
    BY <2>1, <2>3, <2>4 DEF Refusals
<1>5. CASE Inherit(c)
  BY ZenonT(40), <1>2, <1>3, <1>5 DEF Inherit, Good, CallStates, ResultTrue, Watched, Replied
<1>6. CASE LetGo(c)
  BY ZenonT(40), <1>2, <1>3, <1>6 DEF LetGo, Good, CallStates, ResultTrue, Watched, Replied
<1>7. CASE Exits(c)
  BY ZenonT(40), <1>2, <1>3, <1>7 DEF Exits, Good, CallStates, ResultTrue, Watched, Replied
<1>8. CASE Communicated(c)
  BY ZenonT(40), <1>2, <1>3, <1>8 DEF Communicated, Finished, Good, CallStates, ResultTrue, Watched, Replied
<1>9. CASE TimesOut(c)
  BY ZenonT(40), <1>2, <1>3, <1>9 DEF TimesOut, AfterTimeout, Good, CallStates, ResultTrue, Watched, Replied
<1>10. CASE Reaps(c)
  BY ZenonT(40), <1>2, <1>3, <1>10 DEF Reaps, Finished, Good, CallStates, ResultTrue, Watched, Replied
<1>11. CASE Returns(c)
  BY ZenonT(40), <1>2, <1>3, <1>11 DEF Returns, Told, Good, CallStates, ResultTrue, Watched, Replied
<1>12. CASE LosesLink(c)
  BY ZenonT(40), <1>2, <1>3, <1>12 DEF LosesLink, Told, Good, CallStates, ResultTrue, Watched, Replied
<1>13. CASE Cancelled(c)
  BY ZenonT(40), <1>2, <1>3, <1>13 DEF Cancelled, Told, Good, CallStates, ResultTrue, Watched, Replied
<1> QED
  BY <1>1, <1>4, <1>5, <1>6, <1>7, <1>8, <1>9, <1>10, <1>11, <1>12, <1>13

(* However exits, inherited pipes, timeouts, broken links and cancellations  *)
(* interleave, the exit code or the timeout a caller is told of is true of the *)
(* child, and no child runs on unwatched but that of a cancelled local call  *)
(* (run_command, handle_shell_exec).                                         *)
THEOREM CommandsTrue == ExecSpec => []CommandsAccounted
<1>1. ExecInit => CallInv
  BY DEF ExecInit, Unmade, CallInv, CallStates, ResultTrue, Watched, Replied
<1>2. CallInv => CommandsAccounted
  BY DEF CallInv, CommandsAccounted, RepliesTrue, NoStrays, CallStates, ResultTrue, Watched, Replied
<1> QED
  BY <1>1, <1>2, CallStep, PTL DEF ExecSpec
=============================================================================
