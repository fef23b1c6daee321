---------------------------- MODULE SignalStore ----------------------------
(***************************************************************************)
(* The signal environment, environments/signal/: every agent keeps the     *)
(* signals of a channel in a JSONL file and the newest of them in memory;  *)
(* a hub relays a signal to the other agents it knows of, to a live agent  *)
(* of its own process through the store, to any other agent straight into  *)
(* its file.  A store that starts archives what its file has too much of.  *)
(*                                                                         *)
(* Channels do not touch one another, so one is modelled.  In a process    *)
(* nothing here awaits, so a handler is one step and a store that starts   *)
(* lets no other agent of its process run; processes interleave with one   *)
(* another, and may die between two writes.                                *)
(***************************************************************************)
EXTENDS Integers, FiniteSets, Sequences, SequencesExt

CONSTANTS
    Agents, Procs,
    Hosts,          \* bound: who may live where, a set of maps from Agents to Procs
    MaxPerChannel,  \* max_per_channel
    Threshold,      \* archive_threshold
    MaxSignals      \* bound: signals sent

ASSUME SignalAssumption ==
    /\ Hosts \subseteq [Agents -> Procs]
    /\ {MaxPerChannel, Threshold, MaxSignals} \subseteq Nat \ {0}
    /\ MaxPerChannel <= Threshold
    /\ "down" \notin Agents      \* the mark of a process that does not run

VARIABLES
    host,       \* the process an agent lives in
    phase,      \* "down", "archiving" or "live"
    memory,     \* _channels[channel]
    counter,    \* _counters[channel]: the number of the next id
    active,     \* <channel>.jsonl
    archive,    \* the records in archive/<channel>/*.jsonl
    loaded,     \* the records a store that starts has read
    hub,        \* SignalHub._registry in the memory of a process
    registry,   \* the registry file
    sent,       \* the number of signals sent
    filed,      \* ghost: the signals ever appended to an agent's file
    late,       \* ghost: those another process appended to it during a start
    foreign     \* ghost: agents another process has filed something for since they read their file

sigVars == <<host, phase, memory, counter, active, archive, loaded, hub, registry, sent, filed, late, foreign>>

Signals == [num : 1..MaxSignals, from : Agents, n : 1..MaxSignals]
Down == {"down"}     \* the hub of a process that is not running
Newest(s) == SubSeq(s, Max({1, Len(s) - MaxPerChannel + 1}), Len(s))
Nums(s) == {s[i].num : i \in DOMAIN s}
NextNum(s) == Max(Nums(s) \cup {0}) + 1

SigInit ==
    /\ host \in Hosts
    /\ phase = [a \in Agents |-> "down"]
    /\ memory = [a \in Agents |-> <<>>]
    /\ counter = [a \in Agents |-> 1]
    /\ active = memory /\ loaded = memory
    /\ archive = [a \in Agents |-> {}]
    /\ hub = [p \in Procs |-> Down]
    /\ registry = {}
    /\ sent = 0
    /\ filed = archive /\ late = archive
    /\ foreign = {}

Running(p) == hub[p] # Down
Free(p) == Running(p) /\ \A a \in Agents : host[a] = p => phase[a] # "archiving"
Live(p) == {a \in Agents : host[a] = p /\ phase[a] = "live"}

\* ------------------------------------------------------- process and stores
\* A process creates its hub, which reads the registry file.
HubStarts(p) ==
    /\ ~ Running(p)
    /\ hub' = [hub EXCEPT ![p] = registry]
    /\ UNCHANGED <<host, phase, memory, counter, active, archive, loaded, registry, sent, filed, late, foreign>>

\* The store has its records: they go into memory, the counter starts behind
\* their highest number, and the agent is registered: the hub's registry, as it
\* knows it, replaces the registry file.
Ready(a, records) ==
    /\ phase' = [phase EXCEPT ![a] = "live"]
    /\ memory' = [memory EXCEPT ![a] = Newest(records)]
    /\ counter' = [counter EXCEPT ![a] = NextNum(records)]
    /\ hub' = [hub EXCEPT ![host[a]] = @ \cup {a}]
    /\ registry' = hub'[host[a]]

\* SignalStore.__init__ reads the file.
Open(a) ==
    /\ phase[a] = "down" /\ Free(host[a])
    /\ foreign' = foreign \ {a}
    /\ IF Len(active[a]) > Threshold
       THEN /\ phase' = [phase EXCEPT ![a] = "archiving"]
            /\ loaded' = [loaded EXCEPT ![a] = active[a]]
            /\ UNCHANGED <<memory, counter, hub, registry>>
       ELSE Ready(a, active[a]) /\ UNCHANGED loaded
    /\ UNCHANGED <<host, active, archive, sent, filed, late>>

\* What is in excess, oldest first, goes into the archive one by one.
Excess(a) == SubSeq(loaded[a], 1, Len(loaded[a]) - MaxPerChannel)
Missing(a) == {i \in DOMAIN Excess(a) : Excess(a)[i] \notin archive[a]}

Archive(a) ==
    /\ phase[a] = "archiving"
    /\ \E i \in Missing(a) :
        /\ \A j \in Missing(a) : i <= j
        /\ archive' = [archive EXCEPT ![a] = @ \cup {Excess(a)[i]}]
    /\ UNCHANGED <<host, phase, memory, counter, active, loaded, hub, registry, sent, filed, late, foreign>>

\* Mutant: the active file is rewritten before its excess is archived.
ArchivedLater(a) == TRUE

\* May the active file be rewritten?  When everything in excess is archived.
Archived(a) == Missing(a) = {}

\* The active file is replaced by the records that are kept.
Rewrite(a) ==
    /\ phase[a] = "archiving" /\ Archived(a)
    /\ active' = [active EXCEPT ![a] = Newest(loaded[a])]
    /\ Ready(a, Newest(loaded[a]))
    /\ loaded' = [loaded EXCEPT ![a] = <<>>]
    /\ UNCHANGED <<host, archive, sent, filed, late, foreign>>

Dead(p) ==
    /\ phase' = [a \in Agents |-> IF host[a] = p THEN "down" ELSE phase[a]]
    /\ memory' = [a \in Agents |-> IF host[a] = p THEN <<>> ELSE memory[a]]
    /\ counter' = [a \in Agents |-> IF host[a] = p THEN 1 ELSE counter[a]]
    /\ loaded' = [a \in Agents |-> IF host[a] = p THEN <<>> ELSE loaded[a]]
    /\ hub' = [hub EXCEPT ![p] = Down]

Dies(p) ==
    /\ Running(p) /\ Dead(p)
    /\ UNCHANGED <<host, active, archive, registry, sent, filed, late, foreign>>

\* ------------------------------------------------------------ send, receive
\* What the agents of set to, and the sender, have filed after s was sent by a.
Files(a, to, s) ==
    /\ active' = [b \in Agents |-> IF b \in to \cup {a} THEN Append(active[b], s) ELSE active[b]]
    /\ filed' = [b \in Agents |-> IF b \in to \cup {a} THEN filed[b] \cup {s} ELSE filed[b]]
    /\ late' = [b \in Agents |->
                 IF b \in to /\ phase[b] = "archiving" THEN late[b] \cup {s} ELSE late[b]]
    /\ foreign' = foreign \cup {b \in to : phase[b] # "down" /\ host[b] # host[a]}

\* receive: the counter follows the ids of others.
Bumped(b, s) == Max({counter[b], s.num + 1})

Signal(a) == [num |-> counter[a], from |-> a, n |-> sent + 1]

\* send, and the relay to every agent the hub knows.
SendSignal(a) ==
    /\ phase[a] = "live" /\ Free(host[a]) /\ sent < MaxSignals
    /\ LET s == Signal(a)
           to == hub[host[a]] \ {a}
           stores == Live(host[a]) \cap (to \cup {a}) IN
       /\ Files(a, to, s)
       /\ memory' = [b \in Agents |-> IF b \in stores THEN Newest(Append(memory[b], s)) ELSE memory[b]]
       /\ counter' = [b \in Agents |-> IF b = a THEN counter[a] + 1
                                       ELSE IF b \in stores THEN Bumped(b, s) ELSE counter[b]]
    /\ sent' = sent + 1
    /\ UNCHANGED <<host, phase, archive, loaded, hub, registry>>

\* The process dies in the middle of it: some have the signal, some have not.
SendDies(a) ==
    /\ phase[a] = "live" /\ Free(host[a]) /\ sent < MaxSignals
    /\ \E to \in SUBSET (hub[host[a]] \ {a}) : Files(a, to, Signal(a))
    /\ sent' = sent + 1
    /\ Dead(host[a])
    /\ UNCHANGED <<host, archive, registry>>

SigNext ==
    \/ \E p \in Procs : HubStarts(p) \/ Dies(p)
    \/ \E a \in Agents : Open(a) \/ Archive(a) \/ Rewrite(a) \/ SendSignal(a) \/ SendDies(a)

SigSpec == SigInit /\ [][SigNext]_sigVars

\* ------------------------------------------------------------- properties
SigTypeOK ==
    /\ host \in Hosts
    /\ phase \in [Agents -> {"down", "archiving", "live"}]
    /\ {memory, active, loaded} \subseteq [Agents -> Seq(Signals)]
    /\ \A a \in Agents : Len(memory[a]) <= MaxPerChannel
    /\ counter \in [Agents -> 1..(MaxSignals + 1)]
    /\ {archive, filed, late} \subseteq [Agents -> SUBSET Signals]
    /\ hub \in [Procs -> {Down} \cup SUBSET Agents]
    /\ registry \subseteq Agents /\ foreign \subseteq Agents
    /\ sent \in 0..MaxSignals

\* Wherever processes die, a signal that was filed for an agent is in its active file
\* or in its archive, except one that another process put into the file while
\* the agent was starting.
NothingLost == \A a \in Agents : filed[a] \subseteq ToSet(active[a]) \cup archive[a] \cup late[a]

\* A live agent sees what its file has, and gives out no id its file has,
\* across relays, archiving and restarts, unless another process has filed
\* something since it read the file.
StoreAgrees == \A a \in Agents :
    phase[a] = "live" /\ a \notin foreign =>
        /\ memory[a] = Newest(active[a])
        /\ \A i \in Nums(active[a]) : i < counter[a]

\* What is archived is older than what is kept: a reader of the archive and the active file
\* has the agent's own signals in the order they were sent.
ArchiveIsOlder == \A a \in Agents : \A s \in archive[a] \ ToSet(active[a]) :
    \A i \in DOMAIN active[a] : active[a][i].from = s.from => s.n < active[a][i].n

SignalsKept == SigTypeOK /\ NothingLost /\ StoreAgrees /\ ArchiveIsOlder
=============================================================================
