---------------------------- MODULE MCHeartbeat ----------------------------
(***************************************************************************)
(* One interval entry and one entry with "* * * * *", on a cron clock of   *)
(* half minutes with a tick every minute: a late tick, and a process that  *)
(* starts again, can both hit an interval or a minute twice.  Two calls of *)
(* start() can be alive at once.                                           *)
(***************************************************************************)
EXTENDS Heartbeat

MCSchedule == <<"beat", "nine">>
MCEvery == [n \in {"beat"} |-> 2]
MCCronMinutes == [n \in {"nine"} |-> {0}]
MCWatchPaths == <<"a">>

\* After a start has overlapped a stop, the behaviours are followed on a slice:
\* a well-formed schedule, no watched file, no entry fired yet.
OverlapSlice ==
    overlapped =>
        /\ \A n \in Entries : health[n] = "ok"
        /\ \A f \in Watched : cache[f] = "unseen"
        /\ \A i \in DOMAIN log : log[i].name = Other
=============================================================================
