-------------------------- MODULE ManagedSubagents --------------------------
(***************************************************************************)
(* Subagents of one parent agent: the terminal-like tools of               *)
(* subagenting/managed.py (spawn, send, read, dismiss) and the task tool   *)
(* of subagenting/middleware.py, which runs a child for one turn.          *)
(*                                                                         *)
(* The tool calls of one run of the parent follow one another, but the     *)
(* parent may have several runs under way (threads, a heartbeat prompt),   *)
(* and all of them share the middleware: a caller is such a run.  What a   *)
(* tool does between two awaits is one step; the one await is the child's  *)
(* turn, an ainvoke of the child's graph.                                  *)
(*                                                                         *)
(* A conversation is the set of its exchanges (a message and its answer);  *)
(* a turn reads the child's checkpoint when it starts, adds what it was    *)
(* given, and writes the result back when it ends.                         *)
(***************************************************************************)
EXTENDS Naturals, FiniteSets

CONSTANTS
    Callers,        \* runs of the parent that may be under way at once
    Names,          \* names the model gives to managed subagents
    Kids,           \* child agents; each id is used once
    Nobody, NoName, \* no child, no name
    MaxManaged,     \* MAX_MANAGED_SUBAGENTS
    MaxExchanges    \* bound: messages sent to children

ASSUME SubagentsAssumption ==
    /\ {MaxManaged, MaxExchanges} \subseteq Nat \ {0}
    /\ IsFiniteSet(Callers) /\ IsFiniteSet(Kids) /\ Callers # {}
    /\ Nobody \notin Kids

VARIABLES
    children,     \* _children: name -> the registered child
    messages,     \* _ManagedChild.messages, as a set of exchanges
    thread,       \* the latest checkpoint of the child's thread
    call,         \* what a caller is awaiting
    fired,        \* the phases of the events fired for a child, counted
    made,         \* the number of exchanges begun so far
    asked,        \* ghost: the exchanges addressed to a child
    answered,     \* ghost: those of its managed turns that were answered
    overlapped,   \* ghost: children that had two turns under way at once
    unclosed      \* ghost: children whose end nobody reports, see Abandoned

kidVars == <<messages, thread, asked, answered>>
subVars == <<children, kidVars, call, fired, made, overlapped, unclosed>>

Phases == {"spawn", "complete", "error"}
Idle == [op |-> "idle", name |-> NoName, kid |-> Nobody, state |-> {}]
Turns == [op : {"spawn"}, name : Names, kid : Kids, state : SUBSET (1..MaxExchanges)]
         \cup [op : {"send", "task"}, name : {NoName}, kid : Kids, state : SUBSET (1..MaxExchanges)]
Busy(k) == {c \in Callers : call[c].kid = k}
Listed == {children[n] : n \in Names} \ {Nobody}

SubInit ==
    /\ children = [n \in Names |-> Nobody]
    /\ messages = [k \in Kids |-> {}] /\ thread = messages
    /\ call = [c \in Callers |-> Idle]
    /\ fired = [k \in Kids |-> [p \in Phases |-> 0]]
    /\ made = 0
    /\ asked = messages /\ answered = messages
    /\ overlapped = {} /\ unclosed = {}

Fire(k, phase) == fired' = [fired EXCEPT ![k][phase] = @ + 1]

\* uuid4: an id no child has had.
Unused == {k \in Kids : fired[k]["spawn"] = 0}
Fresh == CHOOSE k \in Unused : TRUE

\* A turn of k starts: its input is what the caller submits and a new message.
\* A spawn registers k under name n when the turn has returned.
Begin(c, op, n, k, submitted) ==
    /\ made < MaxExchanges
    /\ made' = made + 1
    /\ call' = [call EXCEPT ![c] = 
                 [op |-> op, name |-> n, kid |-> k, state |-> thread[k] \cup submitted \cup {made'}]]
    /\ asked' = [asked EXCEPT ![k] = @ \cup {made'}]
    /\ overlapped' = overlapped \cup IF Busy(k) # {} THEN {k} ELSE {}
    /\ UNCHANGED <<messages, thread, answered>>

\* A turn that does not return has written its checkpoints, or has not.
Broken(k, state) == thread' \in {thread, [thread EXCEPT ![k] = state]}

\* ------------------------------------------------------ managed subagents
\* Mutant: the limit may be exceeded by one.
AdmitsOneMore(n) ==
    /\ children[n] = Nobody
    /\ Cardinality({m \in Names : children[m] # Nobody}) <= MaxManaged

\* subagent_spawn refuses a name that is taken, and more than MaxManaged.
Admits(n) ==
    /\ children[n] = Nobody
    /\ Cardinality({m \in Names : children[m] # Nobody}) < MaxManaged

\* subagent_spawn up to the child's first turn: the event, the agent, ainvoke.
Spawn(c, n) ==
    /\ call[c] = Idle /\ Admits(n)
    /\ Unused # {} /\ Fire(Fresh, "spawn") /\ Begin(c, "spawn", n, Fresh, {})
    /\ UNCHANGED <<children, unclosed>>

\* The parent's identity cannot be read: that happens after the event and
\* outside of the try, in both schemes.
SpawnRaises(c) ==
    /\ call[c] = Idle
    /\ Unused # {} /\ Fire(Fresh, "spawn") /\ unclosed' = unclosed \cup {Fresh}
    /\ UNCHANGED <<children, kidVars, call, made, overlapped>>

\* What registering k under n does to a child that another spawn of the name
\* has registered meanwhile: nobody can reach it any more.
Replaced(n) == {children[n]} \ {Nobody}

\* The first turn has returned: the child is registered.
SpawnDone(c) ==
    /\ call[c].op = "spawn"
    /\ LET k == call[c].kid  n == call[c].name IN
       /\ thread' = [thread EXCEPT ![k] = call[c].state]
       /\ messages' = [messages EXCEPT ![k] = call[c].state]
       /\ answered' = [answered EXCEPT ![k] = call[c].state]
       /\ children' = [children EXCEPT ![n] = k]
       /\ unclosed' = unclosed \cup Replaced(n)
    /\ call' = [call EXCEPT ![c] = Idle]
    /\ UNCHANGED <<fired, made, asked, overlapped>>

\* The first turn, or the making of the agent, raises.
SpawnFails(c) ==
    /\ call[c].op = "spawn"
    /\ Broken(call[c].kid, call[c].state)
    /\ Fire(call[c].kid, "error")
    /\ call' = [call EXCEPT ![c] = Idle]
    /\ UNCHANGED <<children, messages, asked, answered, made, overlapped, unclosed>>

\* subagent_send submits the messages it knows of and one more.
Ask(c, n) ==
    /\ call[c] = Idle /\ children[n] # Nobody
    /\ Begin(c, "send", NoName, children[n], messages[children[n]])
    /\ UNCHANGED <<children, fired, unclosed>>

\* Mutant: a child keeps only what the turn has added.
KeptNew(k, state) == [messages EXCEPT ![k] = state \ @]

\* What send keeps of the turn that has returned.
Kept(k, state) == [messages EXCEPT ![k] = state]

\* The answer comes, even if the child has been dismissed since.
AskDone(c) ==
    /\ call[c].op = "send"
    /\ LET k == call[c].kid IN
       /\ thread' = [thread EXCEPT ![k] = call[c].state]
       /\ messages' = Kept(k, call[c].state)
       /\ answered' = [answered EXCEPT ![k] = @ \cup (call[c].state \cap asked[k])]
    /\ call' = [call EXCEPT ![c] = Idle]
    /\ UNCHANGED <<children, fired, made, asked, overlapped, unclosed>>

AskFails(c) ==
    /\ call[c].op = "send"
    /\ Broken(call[c].kid, call[c].state)
    /\ call' = [call EXCEPT ![c] = Idle]
    /\ UNCHANGED <<children, messages, fired, made, asked, answered, overlapped, unclosed>>

\* subagent_dismiss: the child is forgotten, with an event.
Dismiss(c, n) ==
    /\ call[c] = Idle /\ children[n] # Nobody
    /\ children' = [children EXCEPT ![n] = Nobody]
    /\ Fire(children[n], "complete")
    /\ UNCHANGED <<kidVars, call, made, overlapped, unclosed>>

\* --------------------------------------------------------------- task tool
Task(c) ==
    /\ call[c] = Idle
    /\ Unused # {} /\ Fire(Fresh, "spawn") /\ Begin(c, "task", NoName, Fresh, {})
    /\ UNCHANGED <<children, unclosed>>

TaskEnds(c) ==
    /\ call[c].op = "task"
    /\ \/ /\ thread' = [thread EXCEPT ![call[c].kid] = call[c].state]
          /\ Fire(call[c].kid, "complete")
       \/ /\ Broken(call[c].kid, call[c].state)
          /\ Fire(call[c].kid, "error")
    /\ call' = [call EXCEPT ![c] = Idle]
    /\ UNCHANGED <<children, messages, asked, answered, made, overlapped, unclosed>>

\* The caller is cancelled while it waits: CancelledError is no Exception, so
\* no handler runs and nobody reports the end of a child not yet registered.
Abandoned(c) == IF call[c].op = "send" THEN {} ELSE {call[c].kid}

Cancelled(c) ==
    /\ call[c] # Idle
    /\ Broken(call[c].kid, call[c].state)
    /\ unclosed' = unclosed \cup Abandoned(c)
    /\ call' = [call EXCEPT ![c] = Idle]
    /\ UNCHANGED <<children, messages, fired, made, asked, answered, overlapped>>

SubNext == \E c \in Callers :
    \/ \E n \in Names : Spawn(c, n) \/ Ask(c, n) \/ Dismiss(c, n)
    \/ SpawnRaises(c) \/ SpawnDone(c) \/ SpawnFails(c)
    \/ AskDone(c) \/ AskFails(c)
    \/ Task(c) \/ TaskEnds(c)
    \/ Cancelled(c)

SubSpec == SubInit /\ [][SubNext]_subVars

\* ------------------------------------------------------------- properties
\* Registry, children and callers keep their shape.
SubTypeOK ==
    /\ children \in [Names -> Kids \cup {Nobody}]
    /\ {messages, thread, asked, answered} \subseteq [Kids -> SUBSET (1..MaxExchanges)]
    /\ call \in [Callers -> Turns \cup {Idle}]
    /\ fired \in [Kids -> [Phases -> 0..2]]
    /\ made \in 0..MaxExchanges
    /\ overlapped \subseteq Kids /\ unclosed \subseteq Kids

\* The limit is checked before the child's first turn and the child registered
\* after it: with several callers it is missed, but never by more than the
\* other callers.
SpawnsBounded == Cardinality(Listed) < MaxManaged + Cardinality(Callers)

\* An observer of the events (a front end's list of running subagents) can
\* trust them: a child has exactly one "spawn" and at most one end; before its
\* end a managed child is registered under one name, or its first turn is under
\* way; only a cancelled call, a parent whose identity cannot be read and two
\* spawns of one name leave a child whose end nobody reports.
EventsBalanced == \A k \in Kids \ Unused :
    LET ends == fired[k]["complete"] + fired[k]["error"]
        names == {n \in Names : children[n] = k}
        starting == {c \in Busy(k) : call[c].op # "send"} IN
    /\ fired[k]["spawn"] = 1
    /\ ends + Cardinality(names) + Cardinality(starting) + Cardinality({k} \cap unclosed) = 1

SpawnsAccounted == SubTypeOK /\ SpawnsBounded /\ EventsBalanced

\* A child hears only what was addressed to it, and forgets nothing it has
\* answered, whatever fails, is cancelled, dismissed or spawned again under
\* its name meanwhile, unless two of its own turns overlapped.
ConversationKept == \A k \in Kids :
    /\ messages[k] \cup thread[k] \subseteq asked[k]
    /\ k \notin overlapped => answered[k] \subseteq messages[k] \cap thread[k]
=============================================================================
