---------------------------- MODULE AgentsProofs ----------------------------
(***************************************************************************)
(* Theorems about ManagedSubagents for any callers, names, children and    *)
(* limit.  Events: a child that was made is in one of four states, and no  *)
(* step takes it anywhere but towards its end.  The limit: a caller that   *)
(* has passed the check counts like the child it will register.            *)
(* Conversations: a turn under way holds everything its child has said, as *)
(* long as it is the only one.                                             *)
(*                                                                         *)
(* And about Patching for any threads and providers: every request is      *)
(* paired and shaped for the provider it goes to.  The argument is about   *)
(* lists.  A thread is grouped: behind a message are all its results, in   *)
(* order, or none.  Patching makes such a list exact, conversion keeps it  *)
(* exact, and what is exact is left alone when a request is healed.  Every *)
(* step keeps a thread grouped: what is removed from it is a result that   *)
(* nobody declared, alone behind a message with a call that could not be   *)
(* parsed.                                                                 *)
(*                                                                         *)
(* A request begins with the one before, if the model is the same: that    *)
(* was for a beginning of the thread, behind which no result follows. Each *)
(* pass looks only at what stands before a message and at the results      *)
(* behind it, so it does to this beginning what it did; and converting     *)
(* twice is converting once, so healing changes nothing that is sent.      *)
(***************************************************************************)
EXTENDS ManagedSubagents, Patching, SequenceTheorems, FiniteSetTheorems, FunctionTheorems, TLAPS

(* Who begins a child, and what is said of its end. *)
Ends(k) == fired[k]["complete"] + fired[k]["error"]
Starts(c, k) == call[c].kid = k /\ call[c].op # "send"

Ended(k) ==
  /\ Ends(k) = 1 /\ k \notin unclosed
  /\ \A n \in Names : children[n] # k
  /\ \A c \in Callers : ~ Starts(c, k)

Unclosed(k) ==
  /\ Ends(k) = 0 /\ k \in unclosed
  /\ \A n \in Names : children[n] # k
  /\ \A c \in Callers : ~ Starts(c, k)

Registered(k) ==
  /\ Ends(k) = 0 /\ k \notin unclosed
  /\ \E n \in Names : \A m \in Names : children[m] = k <=> m = n
  /\ \A c \in Callers : ~ Starts(c, k)

BeingStarted(k) ==
  /\ Ends(k) = 0 /\ k \notin unclosed
  /\ \A n \in Names : children[n] # k
  /\ \E c \in Callers : \A d \in Callers : Starts(d, k) <=> d = c

Unborn(k) ==
  /\ Ends(k) = 0 /\ k \notin unclosed
  /\ \A n \in Names : children[n] # k
  /\ \A c \in Callers : call[c].kid # k

LifeOf(k) ==
  /\ fired[k]["spawn"] \in {0, 1}
  /\ fired[k]["spawn"] = 0 => Unborn(k)
  /\ fired[k]["spawn"] = 1 => Ended(k) \/ Unclosed(k) \/ Registered(k) \/ BeingStarted(k)

(* SubTypeOK but for the count of the events, which LifeOf bounds. *)
Shape ==
  /\ children \in [Names -> Kids \cup {Nobody}]
  /\ messages \in [Kids -> SUBSET (1..MaxExchanges)]
  /\ thread \in [Kids -> SUBSET (1..MaxExchanges)]
  /\ asked \in [Kids -> SUBSET (1..MaxExchanges)]
  /\ answered \in [Kids -> SUBSET (1..MaxExchanges)]
  /\ call \in [Callers -> Turns \cup {Idle}]
  /\ fired \in [Kids -> [Phases -> Nat]]
  /\ made \in 0..MaxExchanges
  /\ overlapped \subseteq Kids /\ unclosed \subseteq Kids

LifeInv == Shape /\ \A k \in Kids : LifeOf(k)

(* Names in use, and callers that will register one. *)
Named == {n \in Names : children[n] # Nobody}
Spawners == {c \in Callers : call[c].op = "spawn"}

RoomInv ==
  /\ IsFiniteSet(Named)
  /\ Cardinality(Named) + Cardinality(Spawners) < MaxManaged + Cardinality(Callers)

(* A turn of a child that has no other turn holds what the child has said. *)
TurnsHold ==
  /\ \A k \in Kids : messages[k] \cup thread[k] \subseteq asked[k]
  /\ \A c \in Callers : call[c] # Idle => call[c].state \subseteq asked[call[c].kid]
  /\ \A k \in Kids \ overlapped :
      /\ answered[k] \subseteq messages[k] \cap thread[k]
      /\ \A c \in Callers : call[c].kid = k => answered[k] \subseteq call[c].state
      /\ \A c, d \in Callers : call[c].kid = k /\ call[d].kid = k => c = d

TalkInv == Shape /\ TurnsHold

-----------------------------------------------------------------------------

LEMMA UnusedKid == Unused # {} => Fresh \in Unused
  BY DEF Fresh

LEMMA CallTypes ==
  ASSUME Shape, NEW c \in Callers
  PROVE  /\ call[c].op \in {"idle", "spawn", "send", "task"}
         /\ call[c].op = "idle" <=> call[c] = Idle
         /\ call[c].op = "idle" <=> call[c].kid = Nobody
         /\ call[c] # Idle => call[c].kid \in Kids /\ call[c].state \subseteq 1..MaxExchanges
         /\ call[c].op = "spawn" => call[c].name \in Names
  BY SubagentsAssumption DEF Shape, Turns, Idle

-----------------------------------------------------------------------------
(* Shapes. *)

LEMMA ShapeInit == SubInit => Shape
  BY SubagentsAssumption DEF SubInit, Shape, Phases

LEMMA BrokenShape ==
  ASSUME Shape, NEW k \in Kids, NEW state \in SUBSET (1..MaxExchanges), Broken(k, state)
  PROVE  thread' \in [Kids -> SUBSET (1..MaxExchanges)]
<1>1. CASE thread' = thread
  BY <1>1 DEF Shape
<1>2. CASE thread' = [thread EXCEPT ![k] = state]
  BY <1>2 DEF Shape
<1> QED
  BY <1>1, <1>2 DEF Broken

LEMMA ShapeStep == Shape /\ [SubNext]_subVars => Shape'
<1> SUFFICES ASSUME Shape, [SubNext]_subVars
             PROVE  Shape'
  OBVIOUS
<1>1. ASSUME NEW c \in Callers, NEW n \in Names, Spawn(c, n) PROVE Shape'
  BY <1>1, UnusedKid, SubagentsAssumption DEF Shape, Turns, Idle, Phases, Unused, Spawn, Begin, Fire
<1>2. ASSUME NEW c \in Callers, NEW n \in Names, Ask(c, n) PROVE Shape'
  BY <1>2, SubagentsAssumption DEF Shape, Turns, Idle, Phases, Unused, Ask, Begin
<1>3. ASSUME NEW c \in Callers, NEW n \in Names, Dismiss(c, n) PROVE Shape'
  BY <1>3, SubagentsAssumption DEF Shape, Turns, Idle, Phases, Unused, Dismiss, Fire, kidVars
<1>4. ASSUME NEW c \in Callers, SpawnRaises(c) PROVE Shape'
  BY <1>4, UnusedKid, SubagentsAssumption DEF Shape, Turns, Idle, Phases, Unused, SpawnRaises, Fire, kidVars
<1>5. ASSUME NEW c \in Callers, SpawnDone(c) PROVE Shape'
  BY <1>5, CallTypes, SubagentsAssumption DEF Shape, Turns, Idle, Phases, Unused, SpawnDone, Replaced
<1>6. ASSUME NEW c \in Callers, SpawnFails(c) PROVE Shape'
  <2>1. call[c].kid \in Kids /\ call[c].state \in SUBSET (1..MaxExchanges)
    BY <1>6, CallTypes DEF SpawnFails, Idle
  <2>2. thread' \in [Kids -> SUBSET (1..MaxExchanges)]
    BY <1>6, <2>1, BrokenShape DEF SpawnFails
  <2>3. fired' \in [Kids -> [Phases -> Nat]]
    BY <1>6, <2>1 DEF SpawnFails, Fire, Shape, Phases
  <2> QED
    BY <1>6, <2>1, <2>2, <2>3 DEF Shape, SpawnFails, Fire
<1>7. ASSUME NEW c \in Callers, AskDone(c) PROVE Shape'
  BY <1>7, CallTypes, SubagentsAssumption DEF Shape, Turns, Idle, Phases, Unused, AskDone, Kept
<1>8. ASSUME NEW c \in Callers, AskFails(c) PROVE Shape'
  <2>1. call[c].kid \in Kids /\ call[c].state \in SUBSET (1..MaxExchanges)
    BY <1>8, CallTypes DEF AskFails, Idle
  <2>2. thread' \in [Kids -> SUBSET (1..MaxExchanges)]
    BY <1>8, <2>1, BrokenShape DEF AskFails
  <2>3. fired' \in [Kids -> [Phases -> Nat]]
    BY <1>8, <2>1 DEF AskFails, Shape, Phases
  <2> QED
    BY <1>8, <2>1, <2>2, <2>3 DEF Shape, AskFails
<1>9. ASSUME NEW c \in Callers, Task(c) PROVE Shape'
  BY <1>9, UnusedKid, SubagentsAssumption DEF Shape, Turns, Idle, Phases, Unused, Task, Begin, Fire
<1>10. ASSUME NEW c \in Callers, TaskEnds(c) PROVE Shape'
  <2>1. call[c].kid \in Kids /\ call[c].state \in SUBSET (1..MaxExchanges)
    BY <1>10, CallTypes DEF TaskEnds, Idle
  <2>2. thread' \in [Kids -> SUBSET (1..MaxExchanges)]
    BY <1>10, <2>1, BrokenShape DEF TaskEnds, Shape
  <2>3. fired' \in [Kids -> [Phases -> Nat]]
    BY <1>10, <2>1 DEF TaskEnds, Fire, Shape, Phases
  <2> QED
    BY <1>10, <2>1, <2>2, <2>3 DEF Shape, TaskEnds
<1>11. ASSUME NEW c \in Callers, Cancelled(c) PROVE Shape'
  <2>1. call[c].kid \in Kids /\ call[c].state \in SUBSET (1..MaxExchanges)
    BY <1>11, CallTypes DEF Cancelled, Idle
  <2>2. thread' \in [Kids -> SUBSET (1..MaxExchanges)]
    BY <1>11, <2>1, BrokenShape DEF Cancelled
  <2>3. fired' \in [Kids -> [Phases -> Nat]]
    BY <1>11, <2>1 DEF Cancelled, Abandoned, Shape, Phases
  <2> QED
    BY <1>11, <2>1, <2>2, <2>3 DEF Shape, Cancelled, Abandoned
<1>12. CASE UNCHANGED subVars
  BY <1>12 DEF Shape, subVars, kidVars
<1> QED
  BY <1>1, <1>2, <1>3, <1>4, <1>5, <1>6, <1>7, <1>8, <1>9, <1>10, <1>11, <1>12 DEF SubNext

-----------------------------------------------------------------------------
(* Lives. *)

LEMMA LifeInit == SubInit => LifeInv
  BY ShapeInit, SubagentsAssumption
  DEF LifeInv, LifeOf, SubInit, Unborn, Ends, Idle, Phases

(* A child keeps its state if its events, its names and its first turn do. *)
LEMMA Unaffected ==
  ASSUME NEW k \in Kids, LifeOf(k),
         fired'[k] = fired[k],
         k \in unclosed' <=> k \in unclosed,
         \A n \in Names : children'[n] = k <=> children[n] = k,
         fired[k]["spawn"] = 0 => \A c \in Callers : call'[c].kid = k => call[c].kid = k,
         \A c \in Callers : Starts(c, k)' <=> Starts(c, k)
  PROVE  LifeOf(k)'
<1>1. Ends(k)' = Ends(k)
  BY DEF Ends
<1>2. fired[k]["spawn"] = 0 /\ Unborn(k) => Unborn(k)'
  BY <1>1 DEF Unborn
<1>3. Ended(k) => Ended(k)'
  BY <1>1 DEF Ended
<1>4. Unclosed(k) => Unclosed(k)'
  BY <1>1 DEF Unclosed
<1>5. Registered(k) => Registered(k)'
  BY <1>1 DEF Registered
<1>6. BeingStarted(k) => BeingStarted(k)'
  BY <1>1 DEF BeingStarted
<1> QED
  BY <1>2, <1>3, <1>4, <1>5, <1>6 DEF LifeOf

(* A child whose first turn is under way has been made and is not known.   *)
LEMMA StartedBy ==
  ASSUME LifeInv, NEW c \in Callers, call[c].op \in {"spawn", "task"}
  PROVE  call[c].kid \in Kids /\ fired[call[c].kid]["spawn"] = 1 /\ BeingStarted(call[c].kid)
<1>1. call[c].kid \in Kids /\ Starts(c, call[c].kid)
  BY CallTypes DEF LifeInv, Starts, Idle
<1> QED
  BY <1>1 DEF LifeInv, LifeOf, Unborn, Ended, Unclosed, Registered

LEMMA FreshUnborn ==
  ASSUME LifeInv, Unused # {}
  PROVE  Fresh \in Kids /\ fired[Fresh]["spawn"] = 0 /\ Unborn(Fresh)
  BY UnusedKid DEF LifeInv, LifeOf, Unused

LEMMA KnownRegistered ==
  ASSUME LifeInv, NEW n \in Names, children[n] # Nobody
  PROVE  children[n] \in Kids /\ fired[children[n]]["spawn"] = 1 /\ Registered(children[n])
  BY DEF LifeInv, LifeOf, Shape, Unborn, Ended, Unclosed, BeingStarted

LEMMA LifeStep == LifeInv /\ [SubNext]_subVars => LifeInv'
<1> SUFFICES ASSUME LifeInv, [SubNext]_subVars
             PROVE  LifeInv'
  OBVIOUS
<1>0. Shape'
  BY ShapeStep DEF LifeInv
<1>1. ASSUME NEW c \in Callers, NEW n \in Names, Spawn(c, n) PROVE LifeInv'
  <2> SUFFICES ASSUME NEW k \in Kids PROVE LifeOf(k)'
    BY <1>0 DEF LifeInv
  <2>0. LifeOf(k)
    BY DEF LifeInv
  <2>1. Fresh \in Kids /\ fired[Fresh]["spawn"] = 0 /\ Unborn(Fresh)
    BY <1>1, FreshUnborn DEF Spawn
  <2>2. CASE k = Fresh
    BY <1>1, <2>1, <2>2, SubagentsAssumption DEF LifeInv, Shape, Phases, LifeOf, Unborn, Ended, Unclosed, Registered, BeingStarted, Ends, Starts, Idle, Spawn, Begin, Fire
  <2>3. CASE k # Fresh
    <3>1. /\ call' = [call EXCEPT ![c] = call'[c]] /\ call'[c].kid = Fresh /\ call[c] = Idle
          /\ fired'[k] = fired[k] /\ UNCHANGED <<children, unclosed>>
      BY <1>1, <2>1, <2>3 DEF Spawn, Begin, Fire, LifeInv, Shape
    <3>2. \A d \in Callers : call'[d].kid = k => call[d].kid = k
      BY <2>3, <3>1 DEF LifeInv, Shape
    <3>3. \A d \in Callers : Starts(d, k)' <=> Starts(d, k)
      BY <2>3, <3>1, SubagentsAssumption DEF Starts, Idle, LifeInv, Shape
    <3> QED
      BY <2>0, <3>1, <3>2, <3>3, Unaffected
  <2> QED
    BY <2>2, <2>3
<1>2. ASSUME NEW c \in Callers, NEW n \in Names, Ask(c, n) PROVE LifeInv'
  <2> SUFFICES ASSUME NEW k \in Kids PROVE LifeOf(k)'
    BY <1>0 DEF LifeInv
  <2>0. LifeOf(k)
    BY DEF LifeInv
  <2>1. /\ call' = [call EXCEPT ![c] = call'[c]] /\ call'[c].op = "send" /\ call'[c].kid = children[n]
        /\ call[c] = Idle /\ UNCHANGED <<children, fired, unclosed>>
    BY <1>2 DEF Ask, Begin, LifeInv, Shape
  <2>2. \A d \in Callers : Starts(d, k)' <=> Starts(d, k)
    <3>1. ASSUME NEW d \in Callers, d # c PROVE call'[d] = call[d]
      BY <2>1, <3>1 DEF LifeInv, Shape
    <3>2. ~ Starts(c, k) /\ ~ Starts(c, k)'
      BY <2>1, SubagentsAssumption DEF Starts, Idle
    <3> QED
      BY <3>1, <3>2 DEF Starts
  <2>3. fired[children[n]]["spawn"] = 1
    BY <1>2, KnownRegistered DEF Ask
  <2>4. fired[k]["spawn"] = 0 => \A d \in Callers : call'[d].kid = k => call[d].kid = k
    BY <2>1, <2>3 DEF LifeInv, Shape
  <2> QED
    BY <2>0, <2>1, <2>2, <2>4, Unaffected
<1>3. ASSUME NEW c \in Callers, NEW n \in Names, Dismiss(c, n) PROVE LifeInv'
  <2> SUFFICES ASSUME NEW k \in Kids PROVE LifeOf(k)'
    BY <1>0 DEF LifeInv
  <2>0. LifeOf(k)
    BY DEF LifeInv
  <2>1. children[n] \in Kids /\ fired[children[n]]["spawn"] = 1 /\ Registered(children[n])
    BY <1>3, KnownRegistered DEF Dismiss
  <2>2. CASE k = children[n]
    BY <1>3, <2>1, <2>2, SubagentsAssumption DEF LifeInv, Shape, Phases, LifeOf, Unborn, Ended, Unclosed, Registered, BeingStarted, Ends, Starts, Idle, Dismiss, Fire, kidVars
  <2>3. CASE k # children[n]
    BY <1>3, <2>0, <2>1, <2>3, Unaffected, SubagentsAssumption DEF LifeInv, Shape, Starts, Idle, Dismiss, Fire, kidVars
  <2> QED
    BY <2>2, <2>3
<1>4. ASSUME NEW c \in Callers, SpawnRaises(c) PROVE LifeInv'
  <2> SUFFICES ASSUME NEW k \in Kids PROVE LifeOf(k)'
    BY <1>0 DEF LifeInv
  <2>0. LifeOf(k)
    BY DEF LifeInv
  <2>1. Fresh \in Kids /\ fired[Fresh]["spawn"] = 0 /\ Unborn(Fresh)
    BY <1>4, FreshUnborn DEF SpawnRaises
  <2>2. CASE k = Fresh
    BY <1>4, <2>1, <2>2, SubagentsAssumption DEF LifeInv, Shape, Phases, LifeOf, Unborn, Ended, Unclosed, Registered, BeingStarted, Ends, Starts, Idle, SpawnRaises, Fire, kidVars
  <2>3. CASE k # Fresh
    BY <1>4, <2>0, <2>1, <2>3, Unaffected DEF LifeInv, Shape, Starts, SpawnRaises, Fire
  <2> QED
    BY <2>2, <2>3
<1>5. ASSUME NEW c \in Callers, SpawnDone(c) PROVE LifeInv'
  <2> SUFFICES ASSUME NEW k \in Kids PROVE LifeOf(k)'
    BY <1>0 DEF LifeInv
  <2>0. LifeOf(k)
    BY DEF LifeInv
  <2> DEFINE n == call[c].name
  <2>1. call[c].kid \in Kids /\ fired[call[c].kid]["spawn"] = 1 /\ BeingStarted(call[c].kid)
    BY <1>5, StartedBy DEF SpawnDone
  <2>2. n \in Names /\ children[n] # call[c].kid
    BY <1>5, <2>1, CallTypes DEF SpawnDone, BeingStarted, LifeInv
  <2>3. CASE k = call[c].kid
    BY SMTT(30), <1>5, <2>1, <2>2, <2>3, SubagentsAssumption DEF LifeInv, Shape, Phases, LifeOf, Unborn, Ended, Unclosed, Registered, BeingStarted, Ends, Starts, Idle, SpawnDone, Replaced
  <2>4. CASE k = children[n]
    <3>1. fired[k]["spawn"] = 1 /\ Registered(k)
      BY <2>2, <2>4, KnownRegistered, SubagentsAssumption
    <3> QED
      BY <1>5, <2>1, <2>2, <2>4, <3>1, SubagentsAssumption DEF LifeInv, Shape, Phases, LifeOf, Unborn, Ended, Unclosed, Registered, BeingStarted, Ends, Starts, Idle, SpawnDone, Replaced
  <2>5. CASE k # call[c].kid /\ k # children[n]
    BY <1>5, <2>0, <2>1, <2>2, <2>5, Unaffected, SubagentsAssumption DEF LifeInv, Shape, Starts, Idle, SpawnDone, Replaced
  <2> QED
    BY <2>3, <2>4, <2>5
<1>6. ASSUME NEW c \in Callers, SpawnFails(c) PROVE LifeInv'
  <2> SUFFICES ASSUME NEW k \in Kids PROVE LifeOf(k)'
    BY <1>0 DEF LifeInv
  <2>0. LifeOf(k)
    BY DEF LifeInv
  <2>1. call[c].kid \in Kids /\ fired[call[c].kid]["spawn"] = 1 /\ BeingStarted(call[c].kid)
    BY <1>6, StartedBy DEF SpawnFails
  <2>2. CASE k = call[c].kid
    BY <1>6, <2>1, <2>2, SubagentsAssumption DEF LifeInv, Shape, Phases, LifeOf, Unborn, Ended, Unclosed, Registered, BeingStarted, Ends, Starts, Idle, SpawnFails, Fire
  <2>3. CASE k # call[c].kid
    BY <1>6, <2>0, <2>1, <2>3, Unaffected, SubagentsAssumption DEF LifeInv, Shape, Starts, Idle, SpawnFails, Fire
  <2> QED
    BY <2>2, <2>3
<1>7. ASSUME NEW c \in Callers, AskDone(c) PROVE LifeInv'
  <2> SUFFICES ASSUME NEW k \in Kids PROVE LifeOf(k)'
    BY <1>0 DEF LifeInv
  <2>0. LifeOf(k)
    BY DEF LifeInv
  <2> QED
    BY <1>7, <2>0, Unaffected, CallTypes, SubagentsAssumption DEF Starts, Idle, LifeInv, Shape, AskDone, Kept
<1>8. ASSUME NEW c \in Callers, AskFails(c) PROVE LifeInv'
  <2> SUFFICES ASSUME NEW k \in Kids PROVE LifeOf(k)'
    BY <1>0 DEF LifeInv
  <2>0. LifeOf(k)
    BY DEF LifeInv
  <2> QED
    BY <1>8, <2>0, Unaffected, CallTypes, SubagentsAssumption DEF Starts, Idle, LifeInv, Shape, AskFails
<1>9. ASSUME NEW c \in Callers, Task(c) PROVE LifeInv'
  <2> SUFFICES ASSUME NEW k \in Kids PROVE LifeOf(k)'
    BY <1>0 DEF LifeInv
  <2>0. LifeOf(k)
    BY DEF LifeInv
  <2>1. Fresh \in Kids /\ fired[Fresh]["spawn"] = 0 /\ Unborn(Fresh)
    BY <1>9, FreshUnborn DEF Task
  <2>2. CASE k = Fresh
    BY <1>9, <2>1, <2>2, SubagentsAssumption DEF LifeInv, Shape, Phases, LifeOf, Unborn, Ended, Unclosed, Registered, BeingStarted, Ends, Starts, Idle, Task, Begin, Fire
  <2>3. CASE k # Fresh
    <3>1. /\ call' = [call EXCEPT ![c] = call'[c]] /\ call'[c].kid = Fresh /\ call[c] = Idle
          /\ fired'[k] = fired[k] /\ UNCHANGED <<children, unclosed>>
      BY <1>9, <2>1, <2>3 DEF Task, Begin, Fire, LifeInv, Shape
    <3>2. \A d \in Callers : call'[d].kid = k => call[d].kid = k
      BY <2>3, <3>1 DEF LifeInv, Shape
    <3>3. \A d \in Callers : Starts(d, k)' <=> Starts(d, k)
      BY <2>3, <3>1, SubagentsAssumption DEF Starts, Idle, LifeInv, Shape
    <3> QED
      BY <2>0, <3>1, <3>2, <3>3, Unaffected
  <2> QED
    BY <2>2, <2>3
<1>10. ASSUME NEW c \in Callers, TaskEnds(c) PROVE LifeInv'
  <2> SUFFICES ASSUME NEW k \in Kids PROVE LifeOf(k)'
    BY <1>0 DEF LifeInv
  <2>0. LifeOf(k)
    BY DEF LifeInv
  <2>1. call[c].kid \in Kids /\ fired[call[c].kid]["spawn"] = 1 /\ BeingStarted(call[c].kid)
    BY <1>10, StartedBy DEF TaskEnds
  <2>2. CASE k = call[c].kid
    BY <1>10, <2>1, <2>2, SubagentsAssumption DEF LifeInv, Shape, Phases, LifeOf, Unborn, Ended, Unclosed, Registered, BeingStarted, Ends, Starts, Idle, TaskEnds, Fire
  <2>3. CASE k # call[c].kid
    BY <1>10, <2>0, <2>1, <2>3, Unaffected, SubagentsAssumption DEF LifeInv, Shape, Starts, Idle, TaskEnds, Fire
  <2> QED
    BY <2>2, <2>3
<1>11. ASSUME NEW c \in Callers, Cancelled(c) PROVE LifeInv'
  <2> SUFFICES ASSUME NEW k \in Kids PROVE LifeOf(k)'
    BY <1>0 DEF LifeInv
  <2>0. LifeOf(k)
    BY DEF LifeInv
  <2>1. CASE call[c].op = "send"
    BY <1>11, <2>0, <2>1, Unaffected, SubagentsAssumption DEF Cancelled, Abandoned, LifeInv, Shape, Starts, Idle
  <2>2. CASE call[c].op # "send"
    <3>1. call[c].kid \in Kids /\ fired[call[c].kid]["spawn"] = 1 /\ BeingStarted(call[c].kid)
      BY <1>11, <2>2, StartedBy, CallTypes DEF Cancelled, LifeInv
    <3>2. CASE k = call[c].kid
      BY <1>11, <2>2, <3>1, <3>2, SubagentsAssumption DEF LifeInv, Shape, Phases, LifeOf, Unborn, Ended, Unclosed, Registered, BeingStarted, Ends, Starts, Idle, Cancelled, Abandoned
    <3>3. CASE k # call[c].kid
      BY <1>11, <2>0, <2>2, <3>1, <3>3, Unaffected, SubagentsAssumption DEF LifeInv, Shape, Starts, Idle, Cancelled, Abandoned
    <3> QED
      BY <3>2, <3>3
  <2> QED
    BY <2>1, <2>2
<1>12. CASE UNCHANGED subVars
  BY <1>0, <1>12 DEF LifeInv, Shape, LifeOf, Unborn, Ended, Unclosed, Registered, BeingStarted, Ends, Starts, subVars, kidVars
<1> QED
  BY <1>1, <1>2, <1>3, <1>4, <1>5, <1>6, <1>7, <1>8, <1>9, <1>10, <1>11, <1>12 DEF SubNext

-----------------------------------------------------------------------------
(* The limit. *)

LEMMA RoomKept ==
  ASSUME RoomInv, Named' \subseteq Named, Spawners' \subseteq Spawners
  PROVE  RoomInv'
<1>1. IsFiniteSet(Callers) /\ IsFiniteSet(Spawners)
  BY SubagentsAssumption, FS_Subset, Spawners \in SUBSET Callers DEF Spawners
<1>2. IsFiniteSet(Named') /\ Cardinality(Named') <= Cardinality(Named)
  BY FS_Subset DEF RoomInv
<1>3. Cardinality(Spawners') <= Cardinality(Spawners)
  BY <1>1, FS_Subset
<1>4. /\ Cardinality(Named) \in Nat /\ Cardinality(Named') \in Nat
      /\ Cardinality(Spawners) \in Nat /\ Cardinality(Spawners') \in Nat
      /\ Cardinality(Callers) \in Nat /\ MaxManaged \in Nat
  BY <1>1, <1>2, FS_Subset, FS_CardinalityType, SubagentsAssumption DEF RoomInv
<1> QED
  BY <1>2, <1>3, <1>4 DEF RoomInv

LEMMA RoomStep == Shape /\ RoomInv /\ [SubNext]_subVars => RoomInv'
<1> SUFFICES ASSUME Shape /\ RoomInv, [SubNext]_subVars
             PROVE  RoomInv'
  OBVIOUS
<1>1. ASSUME NEW c \in Callers, NEW n \in Names, Spawn(c, n) PROVE RoomInv'
  <2>1. Named' = Named /\ Cardinality(Named) < MaxManaged
    BY <1>1 DEF Spawn, Admits, Named
  <2>2. Spawners' \in SUBSET Callers
    BY DEF Spawners
  <2>3. Cardinality(Spawners') <= Cardinality(Callers) /\ Cardinality(Spawners') \in Nat
    BY <2>2, SubagentsAssumption, FS_Subset, FS_CardinalityType
  <2>4. Cardinality(Named) \in Nat /\ Cardinality(Callers) \in Nat /\ MaxManaged \in Nat
    BY SubagentsAssumption, FS_CardinalityType DEF RoomInv
  <2> QED
    BY <2>1, <2>3, <2>4 DEF RoomInv
<1>2. ASSUME NEW c \in Callers, NEW n \in Names, Ask(c, n) PROVE RoomInv'
  <2>1. Named' \subseteq Named
    BY <1>2, SubagentsAssumption DEF Named, Shape, Ask, Begin
  <2>2. Spawners' \subseteq Spawners
    BY <1>2 DEF Spawners, Shape, Idle, Ask, Begin
  <2> QED
    BY <2>1, <2>2, RoomKept
<1>3. ASSUME NEW c \in Callers, NEW n \in Names, Dismiss(c, n) PROVE RoomInv'
  <2>1. Named' \subseteq Named
    BY <1>3, SubagentsAssumption DEF Named, Shape, Dismiss, Fire, kidVars
  <2>2. Spawners' \subseteq Spawners
    BY <1>3 DEF Spawners, Shape, Idle, Dismiss, Fire, kidVars
  <2> QED
    BY <2>1, <2>2, RoomKept
<1>4. ASSUME NEW c \in Callers, SpawnRaises(c) PROVE RoomInv'
  <2>1. Named' \subseteq Named
    BY <1>4, SubagentsAssumption DEF Named, Shape, SpawnRaises, Fire, kidVars
  <2>2. Spawners' \subseteq Spawners
    BY <1>4 DEF Spawners, Shape, Idle, SpawnRaises, Fire, kidVars
  <2> QED
    BY <2>1, <2>2, RoomKept
<1>5. ASSUME NEW c \in Callers, SpawnDone(c) PROVE RoomInv'
  <2> DEFINE n == call[c].name
  <2>1. c \in Spawners /\ n \in Names
    BY <1>5, CallTypes DEF SpawnDone, Spawners
  <2>2. Spawners' = Spawners \ {c}
    BY <1>5, <2>1 DEF SpawnDone, Spawners, Shape, Idle
  <2>3. Named' = Named \cup {n}
    <3>1. call[c].kid \in Kids
      BY <1>5, CallTypes DEF SpawnDone, Idle
    <3> QED
      BY <1>5, <2>1, <3>1, SubagentsAssumption DEF SpawnDone, Named, Shape
  <2>4. IsFiniteSet(Spawners) /\ Cardinality(Spawners) \in Nat
    BY SubagentsAssumption, FS_Subset, FS_CardinalityType, Spawners \in SUBSET Callers DEF Spawners
  <2>5. Cardinality(Spawners') = Cardinality(Spawners) - 1
    BY <2>1, <2>2, <2>4, FS_RemoveElement
  <2>6. IsFiniteSet(Named') /\ Cardinality(Named') <= Cardinality(Named) + 1
    <3>1. IsFiniteSet(Named) /\ Cardinality(Named) \in Nat
      BY FS_CardinalityType DEF RoomInv
    <3>2. ASSUME NEW S, IsFiniteSet(S), Cardinality(S) \in Nat, NEW e
          PROVE  IsFiniteSet(S \cup {e}) /\ Cardinality(S \cup {e}) <= Cardinality(S) + 1
      <4>1. CASE e \in S
        <5>1. S \cup {e} = S
          BY <4>1
        <5> QED
          BY <3>2, <5>1
      <4>2. CASE e \notin S
        <5>1. IsFiniteSet(S \cup {e}) /\ Cardinality(S \cup {e}) = Cardinality(S) + 1
          BY <3>2, <4>2, FS_AddElement
        <5> QED
          BY <3>2, <5>1
      <4> QED
        BY <4>1, <4>2
    <3>3. IsFiniteSet(Named \cup {n}) /\ Cardinality(Named \cup {n}) <= Cardinality(Named) + 1
      <4> HIDE DEF Named, n
      <4> QED
        BY <3>1, <3>2
    <3> QED
      BY <2>3, <3>3
  <2>7. /\ Cardinality(Named) \in Nat /\ Cardinality(Named') \in Nat
        /\ Cardinality(Callers) \in Nat /\ MaxManaged \in Nat
    BY <2>6, SubagentsAssumption, FS_CardinalityType DEF RoomInv
  <2> QED
    BY <2>4, <2>5, <2>6, <2>7 DEF RoomInv
<1>6. ASSUME NEW c \in Callers, SpawnFails(c) PROVE RoomInv'
  <2>1. Named' \subseteq Named
    BY <1>6, SubagentsAssumption DEF Named, Shape, SpawnFails, Fire
  <2>2. Spawners' \subseteq Spawners
    BY <1>6 DEF Spawners, Shape, Idle, SpawnFails, Fire
  <2> QED
    BY <2>1, <2>2, RoomKept
<1>7. ASSUME NEW c \in Callers, AskDone(c) PROVE RoomInv'
  <2>1. Named' \subseteq Named
    BY <1>7, SubagentsAssumption DEF Named, Shape, AskDone, Kept
  <2>2. Spawners' \subseteq Spawners
    BY <1>7 DEF Spawners, Shape, Idle, AskDone, Kept
  <2> QED
    BY <2>1, <2>2, RoomKept
<1>8. ASSUME NEW c \in Callers, AskFails(c) PROVE RoomInv'
  <2>1. Named' \subseteq Named
    BY <1>8, SubagentsAssumption DEF Named, Shape, AskFails
  <2>2. Spawners' \subseteq Spawners
    BY <1>8 DEF Spawners, Shape, Idle, AskFails
  <2> QED
    BY <2>1, <2>2, RoomKept
<1>9. ASSUME NEW c \in Callers, Task(c) PROVE RoomInv'
  <2>1. Named' \subseteq Named
    BY <1>9, SubagentsAssumption DEF Named, Shape, Task, Begin, Fire
  <2>2. Spawners' \subseteq Spawners
    BY <1>9 DEF Spawners, Shape, Idle, Task, Begin, Fire
  <2> QED
    BY <2>1, <2>2, RoomKept
<1>10. ASSUME NEW c \in Callers, TaskEnds(c) PROVE RoomInv'
  <2>1. Named' \subseteq Named
    BY <1>10, SubagentsAssumption DEF Named, Shape, TaskEnds, Fire
  <2>2. Spawners' \subseteq Spawners
    BY <1>10 DEF Spawners, Shape, Idle, TaskEnds, Fire
  <2> QED
    BY <2>1, <2>2, RoomKept
<1>11. ASSUME NEW c \in Callers, Cancelled(c) PROVE RoomInv'
  <2>1. Named' \subseteq Named
    BY <1>11, SubagentsAssumption DEF Named, Shape, Cancelled, Abandoned
  <2>2. Spawners' \subseteq Spawners
    BY <1>11 DEF Spawners, Shape, Idle, Cancelled, Abandoned
  <2> QED
    BY <2>1, <2>2, RoomKept
<1>12. CASE UNCHANGED subVars
  BY <1>12 DEF RoomInv, Named, Spawners, subVars, kidVars
<1> QED
  BY <1>1, <1>2, <1>3, <1>4, <1>5, <1>6, <1>7, <1>8, <1>9, <1>10, <1>11, <1>12 DEF SubNext

-----------------------------------------------------------------------------
(* Conversations. *)

LEMMA TalkInit == SubInit => TalkInv
  BY ShapeInit, SubagentsAssumption DEF SubInit, TalkInv, TurnsHold, Idle

LEMMA TalkStep == TalkInv /\ [SubNext]_subVars => TalkInv'
<1> SUFFICES ASSUME TalkInv, [SubNext]_subVars
             PROVE  TalkInv'
  OBVIOUS
<1>0. Shape'
  BY ShapeStep DEF TalkInv
<1>1. ASSUME NEW c \in Callers, NEW n \in Names, Spawn(c, n) PROVE TalkInv'
  BY <1>1, <1>0, UnusedKid, CallTypes, SubagentsAssumption DEF TalkInv, TurnsHold, Busy, Unused, Shape, Idle, Spawn, Begin, Fire
<1>2. ASSUME NEW c \in Callers, NEW n \in Names, Ask(c, n) PROVE TalkInv'
  BY <1>2, <1>0, UnusedKid, CallTypes, SubagentsAssumption DEF TalkInv, TurnsHold, Busy, Unused, Shape, Idle, Ask, Begin
<1>3. ASSUME NEW c \in Callers, NEW n \in Names, Dismiss(c, n) PROVE TalkInv'
  BY <1>3, <1>0, UnusedKid, CallTypes, SubagentsAssumption DEF TalkInv, TurnsHold, Busy, Unused, Shape, Idle, Dismiss, Fire, kidVars
<1>4. ASSUME NEW c \in Callers, SpawnRaises(c) PROVE TalkInv'
  BY <1>4, <1>0, UnusedKid, CallTypes, SubagentsAssumption DEF TalkInv, TurnsHold, Busy, Unused, Shape, Idle, SpawnRaises, Fire, kidVars
<1>5. ASSUME NEW c \in Callers, SpawnDone(c) PROVE TalkInv'
  BY <1>5, <1>0, UnusedKid, CallTypes, SubagentsAssumption DEF TalkInv, TurnsHold, Busy, Unused, Shape, Idle, SpawnDone, Replaced
<1>6. ASSUME NEW c \in Callers, SpawnFails(c) PROVE TalkInv'
  <2>1. /\ call' = [call EXCEPT ![c] = Idle] /\ call[c].kid \in Kids
        /\ call[c].state \subseteq asked[call[c].kid]
        /\ UNCHANGED <<messages, asked, answered, overlapped>>
    BY <1>6, CallTypes DEF SpawnFails, TalkInv, TurnsHold, Idle
  <2>2. CASE thread' = thread
    BY <1>0, <2>1, <2>2, SubagentsAssumption DEF TalkInv, TurnsHold, Shape, Idle
  <2>3. CASE thread' = [thread EXCEPT ![call[c].kid] = call[c].state]
    BY <1>0, <2>1, <2>3, SubagentsAssumption DEF TalkInv, TurnsHold, Shape, Idle
  <2> QED
    BY <1>6, <2>2, <2>3 DEF SpawnFails, Broken
<1>7. ASSUME NEW c \in Callers, AskDone(c) PROVE TalkInv'
  BY <1>7, <1>0, UnusedKid, CallTypes, SubagentsAssumption DEF TalkInv, TurnsHold, Busy, Unused, Shape, Idle, AskDone, Kept
<1>8. ASSUME NEW c \in Callers, AskFails(c) PROVE TalkInv'
  <2>1. /\ call' = [call EXCEPT ![c] = Idle] /\ call[c].kid \in Kids
        /\ call[c].state \subseteq asked[call[c].kid]
        /\ UNCHANGED <<messages, asked, answered, overlapped>>
    BY <1>8, CallTypes DEF AskFails, TalkInv, TurnsHold, Idle
  <2>2. CASE thread' = thread
    BY <1>0, <2>1, <2>2, SubagentsAssumption DEF TalkInv, TurnsHold, Shape, Idle
  <2>3. CASE thread' = [thread EXCEPT ![call[c].kid] = call[c].state]
    BY <1>0, <2>1, <2>3, SubagentsAssumption DEF TalkInv, TurnsHold, Shape, Idle
  <2> QED
    BY <1>8, <2>2, <2>3 DEF AskFails, Broken
<1>9. ASSUME NEW c \in Callers, Task(c) PROVE TalkInv'
  BY <1>9, <1>0, UnusedKid, CallTypes, SubagentsAssumption DEF TalkInv, TurnsHold, Busy, Unused, Shape, Idle, Task, Begin, Fire
<1>10. ASSUME NEW c \in Callers, TaskEnds(c) PROVE TalkInv'
  <2>1. /\ call' = [call EXCEPT ![c] = Idle] /\ call[c].kid \in Kids
        /\ call[c].state \subseteq asked[call[c].kid]
        /\ UNCHANGED <<messages, asked, answered, overlapped>>
    BY <1>10, CallTypes DEF TaskEnds, TalkInv, TurnsHold, Idle
  <2>2. CASE thread' = thread
    BY <1>0, <2>1, <2>2, SubagentsAssumption DEF TalkInv, TurnsHold, Shape, Idle
  <2>3. CASE thread' = [thread EXCEPT ![call[c].kid] = call[c].state]
    BY <1>0, <2>1, <2>3, SubagentsAssumption DEF TalkInv, TurnsHold, Shape, Idle
  <2> QED
    BY <1>10, <2>2, <2>3 DEF TaskEnds, Broken
<1>11. ASSUME NEW c \in Callers, Cancelled(c) PROVE TalkInv'
  <2>1. /\ call' = [call EXCEPT ![c] = Idle] /\ call[c].kid \in Kids
        /\ call[c].state \subseteq asked[call[c].kid]
        /\ UNCHANGED <<messages, asked, answered, overlapped>>
    BY <1>11, CallTypes DEF Cancelled, TalkInv, TurnsHold, Idle
  <2>2. CASE thread' = thread
    BY <1>0, <2>1, <2>2, SubagentsAssumption DEF TalkInv, TurnsHold, Shape, Idle
  <2>3. CASE thread' = [thread EXCEPT ![call[c].kid] = call[c].state]
    BY <1>0, <2>1, <2>3, SubagentsAssumption DEF TalkInv, TurnsHold, Shape, Idle
  <2> QED
    BY <1>11, <2>2, <2>3 DEF Cancelled, Broken
<1>12. CASE UNCHANGED subVars
  BY <1>0, <1>12 DEF TalkInv, TurnsHold, subVars, kidVars
<1> QED
  BY <1>1, <1>2, <1>3, <1>4, <1>5, <1>6, <1>7, <1>8, <1>9, <1>10, <1>11, <1>12 DEF SubNext

-----------------------------------------------------------------------------
(* What the invariants say. *)

LEMMA RoomInit == SubInit => RoomInv
<1> SUFFICES ASSUME SubInit PROVE RoomInv
  OBVIOUS
<1>1. Named = {} /\ Spawners = {}
  BY DEF SubInit, Named, Spawners, Idle
<1>2. Cardinality(Callers) \in Nat /\ Cardinality(Callers) # 0
  BY SubagentsAssumption, FS_CardinalityType, FS_EmptySet
<1> QED
  BY <1>1, <1>2, FS_EmptySet, SubagentsAssumption DEF RoomInv

LEMMA LifeTypes == LifeInv => SubTypeOK
<1> SUFFICES ASSUME LifeInv PROVE SubTypeOK
  OBVIOUS
<1>1. ASSUME NEW k \in Kids, NEW p \in Phases PROVE fired[k][p] \in 0..2
  <2>1. fired[k] \in [Phases -> Nat] /\ LifeOf(k)
    BY DEF LifeInv, Shape
  <2> QED
    BY <2>1 DEF LifeOf, Unborn, Ended, Unclosed, Registered, BeingStarted, Ends, Phases
<1>2. fired \in [Kids -> [Phases -> 0..2]]
  BY <1>1 DEF LifeInv, Shape
<1> QED
  BY <1>2 DEF LifeInv, Shape, SubTypeOK

(* Every listed child has a name of its own among the names in use. *)
LEMMA RoomBound == Shape /\ RoomInv => SpawnsBounded
<1> SUFFICES ASSUME Shape, RoomInv PROVE SpawnsBounded
  OBVIOUS
<1> DEFINE f == [n \in Named |-> children[n]]
<1>1. f \in Surjection(Named, Listed)
  BY DEF Surjection, Named, Listed
<1>2. IsFiniteSet(Listed) /\ Cardinality(Listed) <= Cardinality(Named)
  <2> HIDE DEF f
  <2> QED
    BY <1>1, FS_Surjection DEF RoomInv
<1>3. IsFiniteSet(Spawners) /\ Spawners \subseteq Callers
  BY SubagentsAssumption, FS_Subset, Spawners \in SUBSET Callers DEF Spawners
<1>4. /\ Cardinality(Listed) \in Nat /\ Cardinality(Named) \in Nat
      /\ Cardinality(Spawners) \in Nat /\ Cardinality(Callers) \in Nat /\ MaxManaged \in Nat
  BY <1>2, <1>3, SubagentsAssumption, FS_CardinalityType DEF RoomInv
<1> QED
  BY <1>2, <1>4 DEF RoomInv, SpawnsBounded

OneOf(k) ==
  Ends(k) + Cardinality({n \in Names : children[n] = k})
    + Cardinality({c \in Busy(k) : call[c].op # "send"}) + Cardinality({k} \cap unclosed) = 1

LEMMA LifeBalanced == LifeInv => EventsBalanced
<1> SUFFICES ASSUME LifeInv, NEW k \in Kids \ Unused
             PROVE  fired[k]["spawn"] = 1 /\ OneOf(k)
  BY DEF EventsBalanced, Ends, OneOf
<1> DEFINE names == {n \in Names : children[n] = k}
           starting == {c \in Busy(k) : call[c].op # "send"}
           left == {k} \cap unclosed
           total == Ends(k) + Cardinality(names) + Cardinality(starting) + Cardinality(left)
<1>1. fired[k]["spawn"] = 1
  BY DEF LifeInv, LifeOf, Unused
<1>2. SUFFICES total = 1
  BY <1>1 DEF OneOf
<1>3. starting = {c \in Callers : Starts(c, k)}
  BY DEF Busy, Starts
<1>4. Cardinality({}) = 0
  BY FS_EmptySet
<1>5. CASE Ended(k)
  <2>1. names = {} /\ starting = {} /\ left = {} /\ Ends(k) = 1
    BY <1>3, <1>5 DEF Ended
  <2> HIDE DEF names, starting, left
  <2> QED
    BY <1>4, <2>1
<1>6. CASE Unclosed(k)
  <2>1. names = {} /\ starting = {} /\ left = {k} /\ Ends(k) = 0
    BY <1>3, <1>6 DEF Unclosed
  <2>2. Cardinality(left) = 1
    BY <2>1, FS_Singleton
  <2> HIDE DEF names, starting, left
  <2> QED
    BY <1>4, <2>1, <2>2
<1>7. CASE Registered(k)
  <2>1. PICK n \in Names : names = {n}
    BY <1>7 DEF Registered
  <2>2. starting = {} /\ left = {} /\ Ends(k) = 0
    BY <1>3, <1>7 DEF Registered
  <2>3. Cardinality(names) = 1
    BY <2>1, FS_Singleton
  <2> HIDE DEF names, starting, left
  <2> QED
    BY <1>4, <2>1, <2>2, <2>3
<1>8. CASE BeingStarted(k)
  <2>1. PICK c \in Callers : starting = {c}
    BY <1>3, <1>8 DEF BeingStarted
  <2>2. names = {} /\ left = {} /\ Ends(k) = 0
    BY <1>8 DEF BeingStarted
  <2>3. Cardinality(starting) = 1
    BY <2>1, FS_Singleton
  <2> HIDE DEF names, starting, left
  <2> QED
    BY <1>4, <2>1, <2>2, <2>3
<1> QED
  BY <1>1, <1>5, <1>6, <1>7, <1>8 DEF LifeInv, LifeOf

-----------------------------------------------------------------------------
(* The three invariants, and what they give.                               *)

LEMMA LivesInvariant == SubSpec => []LifeInv
  BY LifeInit, LifeStep, PTL DEF SubSpec

(* Whatever the callers spawn, dismiss, cancel or lose, an observer of the *)
(* events can trust them: each child has one spawn event and at most one   *)
(* end, and between the two somebody can reach it; and the limit on the    *)
(* managed children is missed by less than the number of callers           *)
(* (subagent_spawn and subagent_dismiss of managed.py, the task tool).     *)
THEOREM SpawnsAlwaysAccounted == SubSpec => []SpawnsAccounted
<1>1. SubSpec => []RoomInv
  <2>1. RoomInv /\ Shape /\ [SubNext]_subVars => RoomInv'
    BY RoomStep
  <2>2. LifeInv => Shape
    BY DEF LifeInv
  <2> QED
    BY RoomInit, LivesInvariant, <2>1, <2>2, PTL DEF SubSpec
<1>2. LifeInv /\ RoomInv => SpawnsAccounted
  BY LifeTypes, RoomBound, LifeBalanced DEF LifeInv, SpawnsAccounted
<1> QED
  BY LivesInvariant, <1>1, <1>2, PTL

(* A child hears only what was addressed to it and forgets nothing it has  *)
(* answered, in its registered history and in its checkpoint, unless two   *)
(* turns of its own overlapped (subagent_send, with turns that fail or are *)
(* cancelled before or after they have written their checkpoint).          *)
THEOREM ConversationAlwaysKept == SubSpec => []ConversationKept
<1>1. TalkInv => ConversationKept
  BY DEF TalkInv, TurnsHold, ConversationKept
<1> QED
  BY TalkInit, TalkStep, <1>1, PTL DEF SubSpec

\* -------------------------------------------------------- joining sequences

(* A set of numbers has a least one. *)
LEMMA LeastOf ==
  ASSUME NEW T, T \subseteq Nat, T # {}
  PROVE  \E m \in T : \A k \in T : m <= k
<1> DEFINE Less == {ss \in Nat \X Nat : ss[1] < ss[2]}
<1>1. IsWellFoundedOn(Less, Nat)
  BY NatLessThanWellFounded DEF OpToRel
<1> HIDE DEF Less
<1>2. PICK m \in T : \A k \in T : <<k, m>> \notin Less
  BY <1>1, WFMin
<1>3. \A k \in T : ~ (k < m)
  BY <1>2 DEF Less
<1> QED
  BY <1>3

(* A set that goes on with each number goes up to n. *)
LEMMA Upwards ==
  ASSUME NEW n \in Nat, NEW P, \A k \in 0..n : (k > 0 => k - 1 \in P) => k \in P
  PROVE  0..n \subseteq P
<1> DEFINE T == {k \in Nat : k <= n /\ k \notin P}
<1>1. CASE T = {}
  <2>1. \A k \in 0..n : k \in Nat /\ k <= n
    OBVIOUS
  <2> QED
    BY <1>1, <2>1
<1>2. CASE T # {}
  <2>1. PICK m \in T : \A k \in T : m <= k
    BY <1>2, LeastOf
  <2>2. m \in 0..n /\ m \notin P
    OBVIOUS
  <2>3. m > 0 => m - 1 \in P
    <3>1. ASSUME m > 0, m - 1 \notin P PROVE FALSE
      <4>1. m - 1 \in Nat /\ m - 1 <= n /\ ~ m <= m - 1
        BY <2>2, <3>1
      <4>2. m - 1 \in T
        BY <3>1, <4>1
      <4> QED
        BY <2>1, <4>1, <4>2
    <3> QED
      BY <3>1
  <2> QED
    BY <2>2, <2>3
<1> QED
  BY <1>1, <1>2

(* What stands where when the sequences f[1], ..., f[n] are joined: f[i]      *)
(* begins at p[i].                                                            *)
Laid(out, f, n, p) ==
  /\ p \in [1..(n + 1) -> Nat \ {0}] /\ p[1] = 1
  /\ \A i \in 1..n : p[i + 1] = p[i] + Len(f[i])
  /\ Len(out) = p[n + 1] - 1
  /\ \A i \in 1..n : \A k \in 1..Len(f[i]) : p[i] + k - 1 \in 1..Len(out) /\ out[p[i] + k - 1] = f[i][k]
  /\ \A j \in 1..Len(out) : \E i \in 1..n : \E k \in 1..Len(f[i]) : j = p[i] + k - 1

FlatEq(h, seqs) == h = [i \in 1..Len(seqs) |-> IF i = 1 THEN seqs[i] ELSE h[i - 1] \o seqs[i]]
Flat(seqs) == CHOOSE h : FlatEq(h, seqs)

(* FlattenSeq, by name. *)
LEMMA FlattenIs ==
  ASSUME NEW seqs
  PROVE  FlattenSeq(seqs) = IF Len(seqs) = 0 THEN seqs ELSE Flat(seqs)[Len(seqs)]
  BY Zenon DEF FlattenSeq, Flat, FlatEq

Joins(h, f, n) == \A i \in 1..n : h[i] = IF i = 1 THEN f[i] ELSE h[i - 1] \o f[i]

(* Joining is a recursion over the sequences, and there is one. *)
LEMMA FlatIs ==
  ASSUME NEW S, NEW n \in Nat \ {0}, NEW f \in [1..n -> Seq(S)]
  PROVE  \E h \in [1..n -> Seq(S)] : FlattenSeq(f) = h[n] /\ Joins(h, f, n)
<1>0. Len(f) = n /\ f \in Seq(Seq(S))
  OBVIOUS
<1> DEFINE Step(h, m) == \A i \in 1..m : h[i] = IF i = 1 THEN f[i] ELSE h[i - 1] \o f[i]
           P == {m \in 0..n : \E h \in [1..m -> Seq(S)] : Step(h, m)}
<1>1. ASSUME NEW m \in 0..n, m > 0 => m - 1 \in P
      PROVE  m \in P
  <2>1. CASE m = 0
    <3>1. [i \in 1..0 |-> <<>>] \in [1..m -> Seq(S)] /\ Step([i \in 1..0 |-> <<>>], m)
      BY <2>1
    <3> QED
      BY <3>1
  <2>2. CASE m > 0
    <3>1. PICK g \in [1..(m - 1) -> Seq(S)] : Step(g, m - 1)
      BY <1>1, <2>2
    <3> DEFINE h == [i \in 1..m |-> IF i < m THEN g[i] ELSE IF m = 1 THEN f[m] ELSE g[m - 1] \o f[m]]
    <3>2. m \in 1..n /\ f[m] \in Seq(S)
      BY <2>2
    <3>3. \A i \in 1..m : h[i] \in Seq(S)
      <4> TAKE i \in 1..m
      <4>1. CASE i < m
        <5>1. i \in 1..(m - 1)
          BY <4>1
        <5>2. g[i] \in Seq(S)
          BY <3>1, <5>1
        <5> QED
          BY <4>1, <5>2
      <4>2. CASE i = m /\ m = 1
        BY <3>2, <4>2
      <4>3. CASE i = m /\ m # 1
        <5>1. m - 1 \in 1..(m - 1)
          BY <2>2, <4>3
        <5>2. g[m - 1] \in Seq(S)
          BY <3>1, <5>1
        <5>3. g[m - 1] \o f[m] \in Seq(S)
          BY <3>2, <5>2
        <5> QED
          BY <4>3, <5>3
      <4> QED
        BY <4>1, <4>2, <4>3
    <3>4. h \in [1..m -> Seq(S)]
      BY <3>3
    <3>5. Step(h, m)
      <4> SUFFICES ASSUME NEW i \in 1..m
                   PROVE  h[i] = IF i = 1 THEN f[i] ELSE h[i - 1] \o f[i]
        OBVIOUS
      <4>1. CASE i < m
        <5>1. i \in 1..(m - 1) /\ (i # 1 => i - 1 \in 1..m /\ i - 1 < m)
          BY <4>1
        <5>2. g[i] = IF i = 1 THEN f[i] ELSE g[i - 1] \o f[i]
          BY <3>1, <5>1
        <5>3. h[i] = g[i] /\ (i # 1 => h[i - 1] = g[i - 1])
          BY <4>1, <5>1
        <5> QED
          BY <5>2, <5>3
      <4>2. CASE i = m /\ m = 1
        BY <4>2
      <4>3. CASE i = m /\ m # 1
        <5>1. m - 1 \in 1..m /\ m - 1 < m
          BY <2>2, <4>3
        <5>2. h[m - 1] = g[m - 1]
          BY <5>1
        <5>3. h[m] = g[m - 1] \o f[m]
          BY <3>2, <4>3
        <5> QED
          BY <4>3, <5>2, <5>3
      <4> QED
        BY <4>1, <4>2, <4>3
    <3> HIDE DEF h, Step
    <3> QED
      BY <3>4, <3>5
  <2> HIDE DEF P
  <2> QED
    BY <2>1, <2>2
<1>2. n \in P
  <2> HIDE DEF P
  <2>1. 0..n \subseteq P
    BY <1>1, Upwards
  <2> QED
    BY <2>1
<1>3. PICK g \in [1..n -> Seq(S)] : Step(g, n)
  BY <1>2
<1>4. FlatEq(g, f)
  BY <1>0, <1>3 DEF FlatEq
<1> DEFINE h == Flat(f)
<1>5. FlatEq(h, f)
  <2>1. \E x : FlatEq(x, f)
    BY <1>4
  <2> QED
    BY <2>1 DEF Flat
<1> HIDE DEF h
<1>6. DOMAIN h = 1..n /\ Step(h, n)
  <2>1. h = [i \in 1..n |-> IF i = 1 THEN f[i] ELSE h[i - 1] \o f[i]]
    BY <1>0, <1>5 DEF FlatEq
  <2> DEFINE F(i) == IF i = 1 THEN f[i] ELSE h[i - 1] \o f[i]
  <2> HIDE DEF F
  <2>2. h = [i \in 1..n |-> F(i)]
    BY <2>1 DEF F
  <2>3. DOMAIN h = 1..n /\ \A i \in 1..n : h[i] = F(i)
    BY <2>2
  <2> QED
    BY <2>3 DEF F
<1>7. \A i \in 1..n : h[i] \in Seq(S)
  <2> DEFINE PutIn == {m \in 0..n : m = 0 \/ h[m] \in Seq(S)}
  <2>1. ASSUME NEW m \in 0..n, m > 0 => m - 1 \in PutIn
        PROVE  m \in PutIn
    <3>1. CASE m = 0
      BY <3>1
    <3>2. CASE m = 1
      BY <1>6, <3>2
    <3>3. CASE m > 1
      <4>1. m \in 1..n /\ m # 1 /\ m - 1 # 0 /\ f[m] \in Seq(S)
        BY <3>3
      <4>2. h[m - 1] \in Seq(S)
        BY <2>1, <3>3, <4>1
      <4>3. h[m] = h[m - 1] \o f[m]
        BY <1>6, <4>1
      <4>4. h[m] \in Seq(S)
        BY <4>1, <4>2, <4>3
      <4> QED
        BY <4>4
    <3> QED
      BY <3>1, <3>2, <3>3
  <2>2. 0..n \subseteq PutIn
    <3> HIDE DEF PutIn
    <3> QED
      BY <2>1, Upwards
  <2>3. ASSUME NEW i \in 1..n PROVE h[i] \in Seq(S)
    <3>1. i \in 0..n /\ i # 0
      OBVIOUS
    <3> QED
      BY <2>2, <3>1
  <2> QED
    BY <2>3
<1>8. FlattenSeq(f) = h[n]
  <2>1. Len(f) # 0
    BY <1>0
  <2> QED
    BY <1>0, <2>1, FlattenIs DEF h
<1>9. h = [i \in 1..n |-> h[i]]
  <2>1. h = [i \in 1..n |-> IF i = 1 THEN f[i] ELSE h[i - 1] \o f[i]]
    BY <1>0, <1>5 DEF FlatEq
  <2> QED
    BY <1>6, <2>1
<1>10. h \in [1..n -> Seq(S)]
  BY <1>7, <1>9
<1> QED
  BY <1>6, <1>8, <1>10 DEF Joins

(* The layout of a joined sequence. *)
LEMMA FlatLaid ==
  ASSUME NEW S, NEW n \in Nat, NEW f \in [1..n -> Seq(S)]
  PROVE  FlattenSeq(f) \in Seq(S) /\ \E p : Laid(FlattenSeq(f), f, n, p)
<1>0. Len(f) = n
  OBVIOUS
<1>1. CASE n = 0
  <2> DEFINE p == [i \in 1..1 |-> 1]
  <2>1. f = <<>> /\ FlattenSeq(f) = f
    <3>1. f = <<>>
      BY <1>1
    <3> QED
      BY <1>0, <1>1, <3>1, FlattenIs
  <2>2. Laid(<<>>, f, n, p)
    BY <1>1 DEF Laid
  <2>3. FlattenSeq(f) = <<>>
    BY <2>1
  <2> HIDE DEF p
  <2> QED
    BY <2>2, <2>3
<1>2. CASE n > 0
  <2>0. n \in Nat \ {0}
    BY <1>2
  <2>a. PICK h \in [1..n -> Seq(S)] : FlattenSeq(f) = h[n] /\ Joins(h, f, n)
    BY <2>0, FlatIs
  <2>1. /\ FlattenSeq(f) = h[n]
        /\ \A i \in 1..n : h[i] = IF i = 1 THEN f[i] ELSE h[i - 1] \o f[i]
    BY <2>a DEF Joins
  <2>2. \A i \in 1..n : h[i] \in Seq(S) /\ Len(h[i]) \in Nat /\ f[i] \in Seq(S) /\ Len(f[i]) \in Nat
    OBVIOUS
  <2> DEFINE p == [i \in 1..(n + 1) |-> IF i = 1 THEN 1 ELSE Len(h[i - 1]) + 1]
  <2>3. p[1] = 1 /\ \A i \in 1..n : p[i + 1] = Len(h[i]) + 1
    <3>1. p[1] = 1
      OBVIOUS
    <3>2. ASSUME NEW i \in 1..n PROVE p[i + 1] = Len(h[i]) + 1
      <4>1. i + 1 \in 1..(n + 1) /\ i + 1 # 1 /\ (i + 1) - 1 = i
        OBVIOUS
      <4> QED
        BY <4>1
    <3> QED
      BY <3>1, <3>2
  <2>4. p \in [1..(n + 1) -> Nat \ {0}]
    <3>1. ASSUME NEW i \in 1..(n + 1), i # 1 PROVE p[i] \in Nat \ {0}
      <4>1. i - 1 \in 1..n /\ p[i] = Len(h[i - 1]) + 1
        BY <3>1
      <4> QED
        BY <2>2, <4>1
    <3> QED
      BY <3>1
  <2> HIDE DEF p
  <2>5. \A i \in 1..n : p[i + 1] = p[i] + Len(f[i])
    <3> TAKE i \in 1..n
    <3>1. CASE i = 1
      BY <2>1, <2>3, <2>2, <3>1
    <3>2. CASE i # 1
      <4>1. i - 1 \in 1..n /\ (i - 1) + 1 = i
        BY <3>2
      <4>2. h[i] = h[i - 1] \o f[i] /\ h[i - 1] \in Seq(S) /\ f[i] \in Seq(S)
        BY <2>1, <2>2, <3>2, <4>1
      <4>3. Len(h[i]) = Len(h[i - 1]) + Len(f[i]) /\ Len(h[i - 1]) \in Nat /\ Len(f[i]) \in Nat
        BY <4>2
      <4>4. p[i] = Len(h[i - 1]) + 1 /\ p[i + 1] = Len(h[i]) + 1
        BY <2>3, <4>1
      <4> QED
        BY <4>3, <4>4
    <3> QED
      BY <3>1, <3>2
  <2> DEFINE P == {m \in 0..n : m = 0 \/
                 /\ \A i \in 1..m : \A k \in 1..Len(f[i]) : p[i] + k - 1 \in 1..Len(h[m]) /\ h[m][p[i] + k - 1] = f[i][k]
                 /\ \A j \in 1..Len(h[m]) : \E i \in 1..m : \E k \in 1..Len(f[i]) : j = p[i] + k - 1}
  <2>6. ASSUME NEW m \in 0..n, m > 0 => m - 1 \in P
        PROVE  m \in P
    <3>1. CASE m = 0
      BY <3>1
    <3>2. CASE m = 1
      <4>1. h[1] = f[1]
        BY <2>1, <3>2
      <4>2. \A k \in 1..Len(f[1]) : p[1] + k - 1 = k
        BY <2>3
      <4>3. \A i \in 1..m : \A k \in 1..Len(f[i]) : p[i] + k - 1 \in 1..Len(h[m]) /\ h[m][p[i] + k - 1] = f[i][k]
        BY <3>2, <4>1, <4>2
      <4>4. \A j \in 1..Len(h[m]) : \E i \in 1..m : \E k \in 1..Len(f[i]) : j = p[i] + k - 1
        <5> TAKE j \in 1..Len(h[m])
        <5>1. j \in 1..Len(f[1]) /\ j = p[1] + j - 1 /\ 1 \in 1..m
          BY <3>2, <4>1, <4>2
        <5> QED
          BY <5>1
      <4> QED
        BY <4>3, <4>4
    <3>3. CASE m > 1
      <4> DEFINE a == h[m - 1]  b == f[m]
      <4>0. m \in 1..n /\ m - 1 \in 1..n /\ m # 1 /\ (m - 1) + 1 = m
        BY <3>3
      <4>1. h[m] = a \o b /\ a \in Seq(S) /\ b \in Seq(S)
        BY <2>1, <2>2, <4>0
      <4>2. Len(a) \in Nat /\ Len(b) \in Nat /\ Len(h[m]) = Len(a) + Len(b) /\ p[m] = Len(a) + 1
        <5>1. p[m] = Len(a) + 1
          BY <2>3, <4>0
        <5> QED
          BY <4>1, <5>1
      <4>3. /\ \A i \in 1..(m - 1) : \A k \in 1..Len(f[i]) : p[i] + k - 1 \in 1..Len(a) /\ a[p[i] + k - 1] = f[i][k]
            /\ \A j \in 1..Len(a) : \E i \in 1..(m - 1) : \E k \in 1..Len(f[i]) : j = p[i] + k - 1
        <5>1. m - 1 \in P /\ m - 1 # 0
          BY <2>6, <3>3
        <5> QED
          BY <5>1
      <4> HIDE DEF P, a, b
      <4>4. \A k \in 1..Len(b) : p[m] + k - 1 \in 1..Len(h[m]) /\ h[m][p[m] + k - 1] = b[k]
        <5> TAKE k \in 1..Len(b)
        <5>1. p[m] + k - 1 = Len(a) + k /\ Len(a) + k \in 1..Len(h[m]) /\ ~ Len(a) + k <= Len(a)
          BY <4>2
        <5>2. (a \o b)[Len(a) + k] = b[k]
          BY <4>1, <4>2
        <5> QED
          BY <4>1, <5>1, <5>2
      <4>5. \A i \in 1..(m - 1) : \A k \in 1..Len(f[i]) : p[i] + k - 1 \in 1..Len(h[m]) /\ h[m][p[i] + k - 1] = f[i][k]
        <5> TAKE i \in 1..(m - 1)
        <5> TAKE k \in 1..Len(f[i])
        <5> DEFINE x == p[i] + k - 1
        <5>1. x \in 1..Len(a) /\ a[x] = f[i][k]
          BY <4>3
        <5> HIDE DEF x
        <5>2. x \in 1..Len(h[m]) /\ (a \o b)[x] = a[x]
          BY <4>1, <4>2, <5>1
        <5> QED
          BY <4>1, <5>1, <5>2 DEF x
      <4>6. \A i \in 1..m : \A k \in 1..Len(f[i]) : p[i] + k - 1 \in 1..Len(h[m]) /\ h[m][p[i] + k - 1] = f[i][k]
        <5> TAKE i \in 1..m
        <5>1. i = m \/ i \in 1..(m - 1)
          OBVIOUS
        <5> QED
          BY <4>4, <4>5, <5>1 DEF b
      <4>7. \A j \in 1..Len(h[m]) : \E i \in 1..m : \E k \in 1..Len(f[i]) : j = p[i] + k - 1
        <5> TAKE j \in 1..Len(h[m])
        <5>1. CASE j <= Len(a)
          <6>1. j \in 1..Len(a)
            BY <4>2, <5>1
          <6>2. PICK i \in 1..(m - 1) : \E k \in 1..Len(f[i]) : j = p[i] + k - 1
            BY <4>3, <6>1
          <6>3. i \in 1..m
            OBVIOUS
          <6> QED
            BY <6>2, <6>3
        <5>2. CASE ~ j <= Len(a)
          <6>1. j - Len(a) \in 1..Len(b) /\ j = p[m] + (j - Len(a)) - 1 /\ m \in 1..m
            BY <4>0, <4>2, <5>2
          <6> QED
            BY <6>1 DEF b
        <5> QED
          BY <5>1, <5>2
      <4> QED
        BY <4>6, <4>7 DEF P
    <3> HIDE DEF P
    <3> QED
      BY <3>1, <3>2, <3>3
  <2>7. n \in P
    <3> HIDE DEF P
    <3>1. 0..n \subseteq P
      BY <2>6, Upwards
    <3> QED
      BY <3>1
  <2>8. n \in 1..n /\ n # 0 /\ Len(h[n]) = p[n + 1] - 1
    <3>1. n \in 1..n
      BY <2>0
    <3> QED
      BY <2>0, <2>2, <2>3, <3>1
  <2>9. Laid(h[n], f, n, p)
    BY <2>3, <2>4, <2>5, <2>7, <2>8 DEF Laid
  <2> QED
    BY <2>1, <2>2, <2>8, <2>9
<1> QED
  BY <1>1, <1>2

(* Where what stands in the place of each ms[i] is found in the whole. *)
LEMMA Expanded ==
  ASSUME NEW S, NEW T, NEW ms \in Seq(T), NEW f, \A i \in 1..Len(ms) : f[i] \in Seq(S)
  PROVE  /\ Expand(ms, f) \in Seq(S)
         /\ \E p : Laid(Expand(ms, f), f, Len(ms), p)
<1> DEFINE n == Len(ms)
           g == [i \in 1..n |-> f[i]]
<1>1. n \in Nat /\ DOMAIN ms = 1..n
  OBVIOUS
<1>2. Expand(ms, f) = FlattenSeq(g)
  BY <1>1 DEF Expand
<1>3. g \in [1..n -> Seq(S)] /\ \A i \in 1..n : g[i] = f[i]
  OBVIOUS
<1> HIDE DEF n, g
<1>4. FlattenSeq(g) \in Seq(S) /\ \E p : Laid(FlattenSeq(g), g, n, p)
  BY <1>1, <1>3, FlatLaid
<1>5. PICK p : Laid(FlattenSeq(g), g, n, p)
  BY <1>4
<1> DEFINE out == FlattenSeq(g)
<1> HIDE DEF out
<1>6. Laid(out, f, n, p)
  <2>0. Laid(out, g, n, p)
    BY <1>5 DEF out
  <2>1. p \in [1..(n + 1) -> Nat \ {0}] /\ p[1] = 1 /\ Len(out) = p[n + 1] - 1
        /\ \A i \in 1..n : p[i + 1] = p[i] + Len(f[i])
    BY <1>3, <2>0 DEF Laid
  <2>2. ASSUME NEW i \in 1..n, NEW k \in 1..Len(f[i])
        PROVE  p[i] + k - 1 \in 1..Len(out) /\ out[p[i] + k - 1] = f[i][k]
    <3>1. k \in 1..Len(g[i]) /\ g[i] = f[i]
      BY <1>3
    <3> QED
      BY <2>0, <3>1 DEF Laid
  <2>3. ASSUME NEW j \in 1..Len(out)
        PROVE  \E i \in 1..n : \E k \in 1..Len(f[i]) : j = p[i] + k - 1
    <3>1. PICK i \in 1..n : \E k \in 1..Len(g[i]) : j = p[i] + k - 1
      BY <2>0 DEF Laid
    <3>2. g[i] = f[i]
      BY <1>3
    <3> QED
      BY <3>1, <3>2
  <2> QED
    BY <2>1, <2>2, <2>3 DEF Laid
<1> QED
  BY <1>2, <1>4, <1>6 DEF n, out

(* From i on the next m sequences have one element each. *)
Ones(f, i, m) == \A j \in i..(i + m - 1) : Len(f[j]) = 1
StepsBy(p, i, m) == \A k \in 0..m : p[i + k] = p[i] + k

(* Where every sequence has one element, each keeps its distance to the next. *)
LEMMA Chain ==
  ASSUME NEW out, NEW f, NEW n \in Nat, NEW p, Laid(out, f, n, p),
         NEW i \in Nat \ {0}, NEW m \in Nat, i + m <= n + 1,
         Ones(f, i, m)
  PROVE  StepsBy(p, i, m)
<1> DEFINE P == {k \in 0..m : p[i + k] = p[i] + k}
<1>0. p[i] \in Nat
  <2>1. i \in 1..(n + 1)
    OBVIOUS
  <2> QED
    BY <2>1 DEF Laid
<1>1. ASSUME NEW k \in 0..m, k > 0 => k - 1 \in P
      PROVE  k \in P
  <2>1. CASE k = 0
    BY <1>0, <2>1
  <2>2. CASE k > 0
    <3> DEFINE x == i + k - 1
    <3>1. x \in 1..n /\ x + 1 = i + k /\ x = i + (k - 1) /\ x \in i..(i + m - 1)
      BY <2>2
    <3>2. Len(f[x]) = 1 /\ p[i + (k - 1)] = p[i] + (k - 1)
      BY <1>1, <2>2, <3>1 DEF Ones
    <3> HIDE DEF x
    <3>3. p[x + 1] = p[x] + Len(f[x])
      BY <3>1 DEF Laid
    <3> QED
      BY <1>0, <3>1, <3>2, <3>3
  <2> QED
    BY <2>1, <2>2
<1> HIDE DEF P
<1>2. 0..m \subseteq P
  BY <1>1, Upwards
<1> QED
  BY <1>2 DEF P, StepsBy

(* Each of the first n sequences consists of one member of S. *)
Each(f, g, n, S) == \A i \in 1..n : g[i] \in S /\ f[i] = <<g[i]>>

Lists(out, g, n) == Len(out) = n /\ \A i \in 1..n : out[i] = g[i]

(* One element in the place of each. *)
LEMMA Singles ==
  ASSUME NEW S, NEW T, NEW ms \in Seq(T), NEW f, NEW g, Each(f, g, Len(ms), S)
  PROVE  Expand(ms, f) \in Seq(S) /\ Lists(Expand(ms, f), g, Len(ms))
<1> DEFINE n == Len(ms)  out == Expand(ms, f)
<1>1. n \in Nat /\ 1 \in 1..(n + 1)
  OBVIOUS
<1>2. \A i \in 1..n : f[i] \in Seq(S) /\ Len(f[i]) = 1 /\ f[i][1] = g[i]
  <2> TAKE i \in 1..n
  <2> DEFINE x == g[i]
  <2>1. x \in S /\ f[i] = <<x>>
    BY DEF Each
  <2> HIDE DEF x
  <2>2. <<x>> \in Seq(S) /\ Len(<<x>>) = 1 /\ <<x>>[1] = x
    BY <2>1
  <2> QED
    BY <2>1, <2>2 DEF x
<1>3. out \in Seq(S) /\ \E p : Laid(out, f, n, p)
  BY <1>2, Expanded
<1>4. PICK p : Laid(out, f, n, p)
  BY <1>3
<1> HIDE DEF n, out
<1>5. p[1] = 1 /\ p \in [1..(n + 1) -> Nat \ {0}]
  BY <1>4 DEF Laid
<1>6. \A k \in 0..n : p[1 + k] = p[1] + k
  <2> DEFINE one == 1
  <2>1. one \in Nat \ {0} /\ one + n <= n + 1
    BY <1>1
  <2>2. Ones(f, one, n)
    <3>1. one..(one + n - 1) = 1..n
      BY <1>1
    <3> QED
      BY <1>2, <3>1 DEF Ones
  <2> HIDE DEF one
  <2>3. StepsBy(p, one, n)
    BY <1>1, <1>4, <2>1, <2>2, Chain
  <2> QED
    BY <2>3 DEF one, StepsBy
<1>7. Len(out) = n
  <2>1. p[1 + n] = 1 + n
    BY <1>1, <1>5, <1>6
  <2> QED
    BY <1>1, <1>4, <2>1 DEF Laid
<1>8. ASSUME NEW i \in 1..n PROVE out[i] = g[i]
  <2>1. i - 1 \in 0..n /\ 1 + (i - 1) = i /\ 1 \in 1..1
    BY <1>1
  <2>2. p[i] = i
    BY <1>5, <1>6, <2>1
  <2>3. out[p[i] + 1 - 1] = f[i][1]
    BY <1>2, <1>4, <2>1 DEF Laid
  <2> QED
    BY <1>2, <2>2, <2>3
<1> QED
  BY <1>3, <1>7, <1>8 DEF n, out, Lists

(* Nothing in the place of any. *)
LEMMA Nones ==
  ASSUME NEW T, NEW ms \in Seq(T), NEW f, \A i \in 1..Len(ms) : f[i] = <<>>
  PROVE  Expand(ms, f) = <<>>
<1> DEFINE n == Len(ms)  out == Expand(ms, f)
<1>1. n \in Nat
  OBVIOUS
<1>2. \A i \in 1..n : f[i] \in Seq({}) /\ Len(f[i]) = 0
  <2>1. <<>> \in Seq({}) /\ Len(<<>>) = 0
    OBVIOUS
  <2> QED
    BY <2>1
<1>3. out \in Seq({}) /\ \E p : Laid(out, f, n, p)
  BY <1>2, Expanded
<1>4. PICK p : Laid(out, f, n, p)
  BY <1>3
<1> HIDE DEF n, out
<1>5. Len(out) = 0
  <2>1. ASSUME NEW j \in 1..Len(out) PROVE FALSE
    <3>1. PICK i \in 1..n : \E k \in 1..Len(f[i]) : j = p[i] + k - 1
      BY <1>4 DEF Laid
    <3> QED
      BY <1>2, <3>1
  <2>2. Len(out) \in Nat
    BY <1>3
  <2> QED
    BY <2>1, <2>2
<1> QED
  BY <1>3, <1>5 DEF out

-----------------------------------------------------------------------------
Call == [no : Nat, clean : BOOLEAN]
HumanMsg == [id : Nat, type : {"human"}]
ToolMsg == [id : Nat, type : {"tool"}, call : Call]
AiMsg == [id : Nat, type : {"ai"}, from : Models \cup {"none"}, form : {"string", "list"},
          parts : SUBSET {"text", "tool_use", "signed", "unsigned"},
          extra : SUBSET {"tool_calls", "reasoning_content", "signatures"},
          calls : Seq(Call), bad : Seq(Call)]
Msg == HumanMsg \cup ToolMsg \cup AiMsg

(* The calls a message of the thread may get results for. *)
Made(m) == IF m.type # "ai" THEN <<>> ELSE IF m.calls # <<>> THEN m.calls ELSE m.bad

(* The results of u, in order, and no others directly follow ms[i]. *)
Follows(ms, i, u) ==
  /\ \A k \in 1..Len(u) : IsToolAt(ms, i + k) /\ ms[i + k].call = u[k]
  /\ ~ IsToolAt(ms, i + Len(u) + 1)

(* ms[i] is a result of the message at h. *)
OwnedBy(ms, h, i) == h \in 1..(i - 1) /\ ms[h].type # "tool" /\ i <= h + Len(Made(ms[h]))

(* What a thread looks like: all the results a message has are in order       *)
(* behind it, and it has all of them or none.                                 *)
Grouped(ms) == \A i \in 1..Len(ms) :
  /\ ms[i].type = "tool" => \E h \in 1..Len(ms) : OwnedBy(ms, h, i) /\ Follows(ms, h, Made(ms[h]))
  /\ ms[i].type # "tool" => ~ IsToolAt(ms, i + 1) \/ Follows(ms, i, Made(ms[i]))

(* No call without its result. *)
Complete(ms) == \A i \in 1..Len(ms) : Calls(ms[i]) # <<>> => Follows(ms, i, Calls(ms[i]))

(* No result without its call either. *)
Exact(ms) == \A i \in 1..Len(ms) :
  /\ ms[i].type = "tool" => \E h \in 1..(i - 1) : ms[h].type # "tool" /\ i <= h + Len(Calls(ms[h]))
  /\ ms[i].type # "tool" => Follows(ms, i, Calls(ms[i]))

Apart(ms) == \A i, j \in 1..Len(ms) : i # j => ToSet(Made(ms[i])) \cap ToSet(Made(ms[j])) = {}

(* At most one call that cannot be parsed, and none beside the others. *)
FewBad(m) == m.type = "ai" => Len(m.bad) <= 1 /\ (m.calls = <<>> \/ m.bad = <<>>)

(* What the fields of a message are. *)
LEMMA MsgFacts ==
  ASSUME NEW m \in Msg
  PROVE  /\ m.id \in Nat /\ m.type \in {"human", "tool", "ai"}
         /\ m.type = "tool" => m \in ToolMsg /\ m.call \in Call
         /\ m.type = "ai" => m \in AiMsg /\ m.calls \in Seq(Call) /\ m.bad \in Seq(Call)
         /\ m.type = "human" => m \in HumanMsg
         /\ Calls(m) \in Seq(Call) /\ Made(m) \in Seq(Call)
<1>1. m.id \in Nat /\ m.type \in {"human", "tool", "ai"}
  BY DEF Msg, HumanMsg, ToolMsg, AiMsg
<1>2. m.type = "tool" => m \in ToolMsg /\ m.call \in Call
  BY DEF Msg, HumanMsg, ToolMsg, AiMsg
<1>3. m.type = "ai" => m \in AiMsg /\ m.calls \in Seq(Call) /\ m.bad \in Seq(Call)
  BY DEF Msg, HumanMsg, ToolMsg, AiMsg
<1>4. m.type = "human" => m \in HumanMsg
  BY DEF Msg, HumanMsg, ToolMsg, AiMsg
<1>5. Calls(m) \in Seq(Call) /\ Made(m) \in Seq(Call)
  BY <1>3 DEF Calls, Made
<1> QED
  BY <1>1, <1>2, <1>3, <1>4, <1>5

(* Results made up for calls. *)
MadeUp(calls) == [id : {0}, type : {"tool"}, call : ToSet(calls)]

(* Results made up are results, of the calls. *)
LEMMA ResultsType ==
  ASSUME NEW calls \in Seq(Call), NEW K
  PROVE  Results(calls, K) \in Seq(MadeUp(calls)) /\ MadeUp(calls) \subseteq ToolMsg
<1> DEFINE f == [k \in DOMAIN calls |-> IF k \in K THEN <<Tool(0, calls[k])>> ELSE <<>>]
<1>1. DOMAIN calls = 1..Len(calls) /\ Len(calls) \in Nat
  OBVIOUS
<1>2. \A k \in 1..Len(calls) : f[k] \in Seq(MadeUp(calls))
  <2> TAKE k \in 1..Len(calls)
  <2>1. Tool(0, calls[k]) \in MadeUp(calls)
    BY <1>1 DEF Tool, MadeUp, ToSet
  <2> QED
    BY <1>1, <2>1
<1>3. Results(calls, K) = Expand(calls, f)
  BY DEF Results
<1> HIDE DEF f
<1>4. Results(calls, K) \in Seq(MadeUp(calls))
  BY <1>2, <1>3, Expanded
<1>5. MadeUp(calls) \subseteq ToolMsg
  <2>1. ToSet(calls) \subseteq Call
    BY DEF ToSet
  <2> QED
    BY <2>1 DEF MadeUp, ToolMsg
<1> QED
  BY <1>4, <1>5

(* Every call gets one. *)
LEMMA ResultsAll ==
  ASSUME NEW calls \in Seq(Call), NEW K, DOMAIN calls \subseteq K
  PROVE  /\ Len(Results(calls, K)) = Len(calls)
         /\ \A k \in 1..Len(calls) : Results(calls, K)[k] = Tool(0, calls[k])
<1> DEFINE f == [k \in DOMAIN calls |-> IF k \in K THEN <<Tool(0, calls[k])>> ELSE <<>>]
           g == [k \in DOMAIN calls |-> Tool(0, calls[k])]
<1>1. DOMAIN calls = 1..Len(calls) /\ Len(calls) \in Nat
  OBVIOUS
<1>2. \A k \in 1..Len(calls) : g[k] \in ToolMsg /\ f[k] = <<g[k]>>
  <2> TAKE k \in 1..Len(calls)
  <2>1. calls[k] \in Call /\ k \in DOMAIN calls /\ k \in K
    BY <1>1
  <2>2. Tool(0, calls[k]) \in ToolMsg
    BY <2>1 DEF Tool, ToolMsg
  <2> QED
    BY <2>1, <2>2
<1>3. Results(calls, K) = Expand(calls, f)
  BY DEF Results
<1>4. \A k \in 1..Len(calls) : g[k] = Tool(0, calls[k])
  BY <1>1
<1> HIDE DEF f, g
<1>5. Each(f, g, Len(calls), ToolMsg)
  BY <1>2 DEF Each
<1>6. Lists(Expand(calls, f), g, Len(calls))
  BY <1>5, Singles
<1> QED
  BY <1>3, <1>4, <1>6 DEF Lists

(* No call gets one. *)
LEMMA ResultsNone ==
  ASSUME NEW calls \in Seq(Call), NEW K, DOMAIN calls \cap K = {}
  PROVE  Results(calls, K) = <<>>
<1> DEFINE f == [k \in DOMAIN calls |-> IF k \in K THEN <<Tool(0, calls[k])>> ELSE <<>>]
<1>1. \A k \in 1..Len(calls) : f[k] = <<>>
  <2> TAKE k \in 1..Len(calls)
  <2>1. k \in DOMAIN calls /\ k \notin K
    OBVIOUS
  <2> QED
    BY <2>1
<1>2. Results(calls, K) = Expand(calls, f)
  BY DEF Results
<1> HIDE DEF f
<1> QED
  BY <1>1, <1>2, Nones

\* ----------------------------------------------------------- results put in

(* Results are put in directly behind the messages, or nothing is. *)
PutIn(ms, K, i) == Results(Calls(ms[i]), K[i])
PutIns(ms, K) == [i \in DOMAIN ms |-> <<ms[i]>> \o PutIn(ms, K, i)]
Grow(ms, K) == Expand(ms, PutIns(ms, K))

GrownAt(out, ms, K, p) ==
  /\ p \in [1..(Len(ms) + 1) -> Nat \ {0}] /\ p[1] = 1 /\ Len(out) = p[Len(ms) + 1] - 1
  /\ \A i \in 1..Len(ms) : p[i] \in 1..Len(out) /\ out[p[i]] = ms[i] /\ p[i + 1] = p[i] + 1 + Len(PutIn(ms, K, i))
  /\ \A i \in 1..Len(ms) : \A k \in 1..Len(PutIn(ms, K, i)) :
        p[i] + k \in 1..Len(out) /\ out[p[i] + k] = PutIn(ms, K, i)[k]
  /\ \A j \in 1..Len(out) : \E i \in 1..Len(ms) : \E k \in 0..Len(PutIn(ms, K, i)) : j = p[i] + k

(* What is put in behind ms[i]: results without an id, of its calls. *)
LEMMA PutInType ==
  ASSUME NEW ms \in Seq(Msg), NEW K, NEW i \in 1..Len(ms)
  PROVE  /\ PutIn(ms, K, i) \in Seq(MadeUp(Calls(ms[i]))) /\ Len(PutIn(ms, K, i)) \in Nat
         /\ PutIn(ms, K, i) \in Seq(Msg)
         /\ \A k \in 1..Len(PutIn(ms, K, i)) : /\ PutIn(ms, K, i)[k].type = "tool" /\ PutIn(ms, K, i)[k].id = 0
                                               /\ PutIn(ms, K, i)[k].call \in ToSet(Calls(ms[i]))
         /\ Calls(ms[i]) = <<>> => PutIn(ms, K, i) = <<>>
<1> DEFINE calls == Calls(ms[i])  r == PutIn(ms, K, i)
<1>1. calls \in Seq(Call)
  <2>1. ms[i] \in Msg
    OBVIOUS
  <2> QED
    BY <2>1, MsgFacts
<1>2. r = Results(calls, K[i])
  BY DEF PutIn
<1> HIDE DEF calls, r
<1>3. r \in Seq(MadeUp(calls)) /\ MadeUp(calls) \subseteq ToolMsg
  BY <1>1, <1>2, ResultsType
<1>4. Len(r) \in Nat /\ r \in Seq(Msg)
  <2>1. ToolMsg \subseteq Msg
    BY DEF Msg
  <2> QED
    BY <1>3, <2>1
<1>5. \A k \in 1..Len(r) : r[k].type = "tool" /\ r[k].id = 0 /\ r[k].call \in ToSet(calls)
  <2> TAKE k \in 1..Len(r)
  <2>1. r[k] \in MadeUp(calls)
    BY <1>3, <1>4
  <2> QED
    BY <2>1 DEF MadeUp
<1>6. ASSUME calls = <<>> PROVE r = <<>>
  <2>1. DOMAIN calls \cap K[i] = {}
    BY <1>6
  <2> QED
    BY <1>1, <1>2, <2>1, ResultsNone
<1> QED
  BY <1>3, <1>4, <1>5, <1>6 DEF calls, r

(* Where the messages are when results have been put in. *)
LEMMA GrowLaid ==
  ASSUME NEW ms \in Seq(Msg), NEW K
  PROVE  /\ Grow(ms, K) \in Seq(Msg)
         /\ \E p : Laid(Grow(ms, K), PutIns(ms, K), Len(ms), p) /\ GrownAt(Grow(ms, K), ms, K, p)
<1> DEFINE n == Len(ms)  f == PutIns(ms, K)  out == Grow(ms, K)
<1>0. n \in Nat /\ DOMAIN ms = 1..n
  OBVIOUS
<1>1. ASSUME NEW i \in 1..n
      PROVE  /\ f[i] \in Seq(Msg) /\ Len(f[i]) = 1 + Len(PutIn(ms, K, i)) /\ f[i][1] = ms[i]
             /\ \A k \in 1..Len(PutIn(ms, K, i)) : f[i][k + 1] = PutIn(ms, K, i)[k]
             /\ Len(PutIn(ms, K, i)) \in Nat
  <2> DEFINE r == PutIn(ms, K, i)  m == ms[i]
  <2>1. m \in Msg /\ f[i] = <<m>> \o r
    BY <1>0 DEF PutIns
  <2>2. r \in Seq(Msg) /\ Len(r) \in Nat
    BY PutInType
  <2> HIDE DEF r, m
  <2>3. <<m>> \in Seq(Msg) /\ Len(<<m>>) = 1 /\ <<m>>[1] = m
    BY <2>1
  <2>4. <<m>> \o r \in Seq(Msg) /\ Len(<<m>> \o r) = 1 + Len(r) /\ (<<m>> \o r)[1] = m
    BY <2>2, <2>3
  <2>5. \A k \in 1..Len(r) : (<<m>> \o r)[k + 1] = r[k]
    BY <2>1, <2>2, <2>3
  <2> QED
    BY <2>1, <2>2, <2>4, <2>5 DEF r, m
<1> HIDE DEF n, f
<1>2. out \in Seq(Msg) /\ \E p : Laid(out, f, n, p)
  <2>1. \A i \in 1..n : f[i] \in Seq(Msg)
    BY <1>1
  <2>2. out = Expand(ms, f)
    BY DEF Grow, f
  <2> QED
    BY <2>1, <2>2, Expanded DEF n
<1>3. PICK p : Laid(out, f, n, p)
  BY <1>2
<1> HIDE DEF out
<1>4. p \in [1..(n + 1) -> Nat \ {0}] /\ p[1] = 1 /\ Len(out) = p[n + 1] - 1
  BY <1>3 DEF Laid
<1>5. ASSUME NEW i \in 1..n
      PROVE  p[i] \in 1..Len(out) /\ out[p[i]] = ms[i] /\ p[i + 1] = p[i] + 1 + Len(PutIn(ms, K, i))
  <2>1. Len(f[i]) = 1 + Len(PutIn(ms, K, i)) /\ f[i][1] = ms[i] /\ Len(PutIn(ms, K, i)) \in Nat
    BY <1>1
  <2>2. p[i + 1] = p[i] + Len(f[i])
    BY <1>3 DEF Laid
  <2>3. 1 \in 1..Len(f[i]) /\ i \in 1..(n + 1) /\ p[i] \in Nat
    BY <1>0, <1>4, <2>1
  <2>4. p[i] + 1 - 1 \in 1..Len(out) /\ out[p[i] + 1 - 1] = f[i][1]
    BY <1>3, <2>3 DEF Laid
  <2>5. p[i] + 1 - 1 = p[i]
    BY <2>3
  <2>6. p[i] \in 1..Len(out) /\ out[p[i]] = ms[i]
    BY <2>1, <2>4, <2>5
  <2> DEFINE q == p[i]  r == Len(PutIn(ms, K, i))
  <2>7. p[i + 1] = q + (1 + r) /\ q \in Nat /\ r \in Nat
    BY <2>1, <2>2, <2>3
  <2> HIDE DEF q, r
  <2>8. p[i + 1] = q + 1 + r
    BY <2>7
  <2> QED
    BY <2>6, <2>8 DEF q, r
<1>6. ASSUME NEW i \in 1..n, NEW k \in 1..Len(PutIn(ms, K, i))
      PROVE  p[i] + k \in 1..Len(out) /\ out[p[i] + k] = PutIn(ms, K, i)[k]
  <2>1. Len(f[i]) = 1 + Len(PutIn(ms, K, i)) /\ Len(PutIn(ms, K, i)) \in Nat /\ f[i][k + 1] = PutIn(ms, K, i)[k]
    BY <1>1
  <2>2. k + 1 \in 1..Len(f[i]) /\ i \in 1..(n + 1) /\ p[i] \in Nat
    BY <1>0, <1>4, <2>1
  <2>3. p[i] + (k + 1) - 1 \in 1..Len(out) /\ out[p[i] + (k + 1) - 1] = f[i][k + 1]
    BY <1>3, <2>2 DEF Laid
  <2>4. p[i] + (k + 1) - 1 = p[i] + k
    BY <2>2
  <2> QED
    BY <2>1, <2>3, <2>4
<1>7. ASSUME NEW j \in 1..Len(out)
      PROVE  \E i \in 1..n : \E k \in 0..Len(PutIn(ms, K, i)) : j = p[i] + k
  <2>1. PICK i \in 1..n : \E k \in 1..Len(f[i]) : j = p[i] + k - 1
    BY <1>3 DEF Laid
  <2>2. PICK k \in 1..Len(f[i]) : j = p[i] + k - 1
    BY <2>1
  <2>3. Len(f[i]) = 1 + Len(PutIn(ms, K, i)) /\ Len(PutIn(ms, K, i)) \in Nat
    BY <1>1
  <2>4. k - 1 \in 0..Len(PutIn(ms, K, i)) /\ i \in 1..(n + 1) /\ p[i] \in Nat
    BY <1>0, <1>4, <2>3
  <2>5. j = p[i] + (k - 1)
    BY <2>2, <2>4
  <2> QED
    BY <2>4, <2>5
<1>8. GrownAt(out, ms, K, p)
  BY <1>4, <1>5, <1>6, <1>7 DEF GrownAt, n
<1> QED
  BY <1>2, <1>3, <1>8 DEF out, f, n

(* The block behind a message is its results, if those follow it. *)
LEMMA BlockIs ==
  ASSUME NEW ms \in Seq(Msg), NEW i \in 1..Len(ms), NEW u \in Seq(Call), Follows(ms, i, u)
  PROVE  Block(ms, i) = (i + 1)..(i + Len(u)) /\ i + Len(u) <= Len(ms)
<1> DEFINE m == Len(u)
<1>0. m \in Nat /\ Len(ms) \in Nat /\ DOMAIN ms = 1..Len(ms)
  OBVIOUS
<1>1. \A k \in 1..m : IsToolAt(ms, i + k)
  BY DEF Follows
<1>2. ~ IsToolAt(ms, i + m + 1)
  BY DEF Follows
<1>3. i + m <= Len(ms)
  <2>1. CASE m = 0
    BY <1>0, <2>1
  <2>2. CASE m > 0
    <3>1. m \in 1..m
      BY <1>0, <2>2
    <3> QED
      BY <1>0, <1>1, <3>1 DEF IsToolAt
  <2> QED
    BY <1>0, <2>1, <2>2
<1> HIDE DEF m
<1>4. \A j \in (i + 1)..(i + m) : IsToolAt(ms, j)
  <2> TAKE j \in (i + 1)..(i + m)
  <2>1. j - i \in 1..m /\ i + (j - i) = j
    BY <1>0
  <2> QED
    BY <1>1, <2>1
<1>5. ASSUME NEW j \in (i + 1)..(i + m) PROVE j \in Block(ms, i)
  <2>1. j \in (i + 1)..Len(ms)
    BY <1>0, <1>3
  <2>2. \A k \in (i + 1)..j : ms[k].type = "tool"
    <3> TAKE k \in (i + 1)..j
    <3>1. k \in (i + 1)..(i + m)
      BY <1>0
    <3> QED
      BY <1>4, <3>1 DEF IsToolAt
  <2> QED
    BY <2>1, <2>2 DEF Block
<1>6. ASSUME NEW j \in Block(ms, i) PROVE j \in (i + 1)..(i + m)
  <2>1. j \in (i + 1)..Len(ms) /\ \A k \in (i + 1)..j : ms[k].type = "tool"
    BY DEF Block
  <2>2. ASSUME ~ j <= i + m PROVE FALSE
    <3>1. i + m + 1 \in (i + 1)..j /\ i + m + 1 \in 1..Len(ms)
      BY <1>0, <2>1, <2>2
    <3>2. ms[i + m + 1].type = "tool"
      BY <2>1, <3>1
    <3> QED
      BY <1>0, <1>2, <3>1, <3>2 DEF IsToolAt
  <2> QED
    BY <1>0, <2>1, <2>2
<1> QED
  BY <1>3, <1>5, <1>6 DEF m

(* The message after ms[i] comes behind what is put in behind ms[i]. *)
LEMMA GrownNext ==
  ASSUME NEW ms \in Seq(Msg), NEW K, NEW out \in Seq(Msg), NEW p, GrownAt(out, ms, K, p), NEW i \in 0..Len(ms)
  PROVE  IsToolAt(out, p[i + 1]) <=> IsToolAt(ms, i + 1)
<1>0. Len(ms) \in Nat /\ DOMAIN ms = 1..Len(ms)
  OBVIOUS
<1>1. CASE i < Len(ms)
  <2> DEFINE x == i + 1
  <2>1. x \in 1..Len(ms)
    BY <1>0, <1>1
  <2> HIDE DEF x
  <2>2. p[x] \in 1..Len(out) /\ out[p[x]] = ms[x]
    BY <2>1 DEF GrownAt
  <2>3. IsToolAt(out, p[x]) <=> IsToolAt(ms, x)
    BY <1>0, <2>1, <2>2 DEF IsToolAt
  <2> QED
    BY <2>3 DEF x
<1>2. CASE i = Len(ms)
  <2>1. ~ IsToolAt(ms, i + 1)
    BY <1>0, <1>2 DEF IsToolAt
  <2>2. p[i + 1] = Len(out) + 1
    BY <1>0, <1>2 DEF GrownAt
  <2> QED
    BY <2>1, <2>2 DEF IsToolAt
<1>3. i < Len(ms) \/ i = Len(ms)
  <2> DEFINE n == Len(ms)
  <2>1. n \in Nat /\ i \in 0..n
    BY <1>0
  <2> HIDE DEF n
  <2>2. i < n \/ i = n
    BY <2>1
  <2> QED
    BY <2>2 DEF n
<1> QED
  BY <1>1, <1>2, <1>3

(* A message nothing is put behind keeps its results. *)
LEMMA GrownKept ==
  ASSUME NEW ms \in Seq(Msg), NEW K, NEW out \in Seq(Msg), NEW p, GrownAt(out, ms, K, p),
         Laid(out, PutIns(ms, K), Len(ms), p),
         NEW i \in 1..Len(ms), PutIn(ms, K, i) = <<>>, NEW w \in Seq(Call), Follows(ms, i, w)
  PROVE  Follows(out, p[i], w) /\ StepsBy(p, i, Len(w))
<1> DEFINE n == Len(ms)  m == Len(w)  f == PutIns(ms, K)
<1>0. n \in Nat /\ DOMAIN ms = 1..n /\ m \in Nat
  OBVIOUS
<1>1. Block(ms, i) = (i + 1)..(i + m) /\ i + m <= n
  BY BlockIs
<1>2. ~ IsToolAt(ms, i + m + 1) /\ \A k \in 1..m : IsToolAt(ms, i + k) /\ ms[i + k].call = w[k]
  BY DEF Follows
<1> HIDE DEF n, m, f
<1>3. ASSUME NEW j \in i..(i + m) PROVE Len(f[j]) = 1 /\ j \in 1..n
  <2>0. j \in 1..n
    BY <1>0, <1>1 DEF n
  <2> DEFINE mj == ms[j]
  <2>1. PutIn(ms, K, j) = <<>>
    <3>1. CASE j = i
      BY <3>1
    <3>2. CASE j # i
      <4>1. j - i \in 1..m /\ i + (j - i) = j
        BY <1>0, <3>2 DEF n
      <4>2. IsToolAt(ms, j)
        BY <1>2, <4>1
      <4>3. Calls(ms[j]) = <<>>
        BY <4>2 DEF IsToolAt, Calls
      <4> QED
        BY <2>0, <4>3, PutInType DEF n
    <3> QED
      BY <3>1, <3>2
  <2>2. f[j] = <<mj>> \o PutIn(ms, K, j)
    BY <1>0, <2>0 DEF f, PutIns
  <2>3. mj \in Msg
    BY <1>0, <2>0 DEF n
  <2> HIDE DEF mj
  <2>4. Len(<<mj>> \o <<>>) = 1
    BY <2>3
  <2> QED
    BY <2>0, <2>1, <2>2, <2>4
<1>4. StepsBy(p, i, m + 1)
  <2> DEFINE m1 == m + 1
  <2>1. m1 \in Nat /\ i + m1 <= n + 1 /\ i + m1 - 1 = i + m /\ i \in Nat \ {0}
    BY <1>0, <1>1 DEF n
  <2>2. Ones(f, i, m1)
    BY <1>3, <2>1 DEF Ones
  <2> HIDE DEF m1
  <2>3. StepsBy(p, i, m1)
    BY <1>0, <2>1, <2>2, Chain DEF n, f
  <2> QED
    BY <2>3 DEF m1
<1>5. StepsBy(p, i, m)
  BY <1>0, <1>4 DEF StepsBy
<1>6. p[i] \in Nat /\ DOMAIN out = 1..Len(out)
  BY <1>0 DEF GrownAt, n
<1>7. ASSUME NEW k \in 1..m PROVE IsToolAt(out, p[i] + k) /\ out[p[i] + k].call = w[k]
  <2> DEFINE x == i + k
  <2>1. x \in 1..n /\ p[x] = p[i] + k
    BY <1>0, <1>1, <1>5 DEF StepsBy, n
  <2>2. IsToolAt(ms, x) /\ ms[x].call = w[k]
    BY <1>2
  <2> HIDE DEF x
  <2>3. p[x] \in 1..Len(out) /\ out[p[x]] = ms[x]
    BY <2>1 DEF GrownAt, n
  <2>4. IsToolAt(out, p[x]) /\ out[p[x]].call = w[k]
    BY <1>6, <2>2, <2>3 DEF IsToolAt
  <2> QED
    BY <2>1, <2>4
<1>8. ~ IsToolAt(out, p[i] + m + 1)
  <2> DEFINE x == i + m
  <2>1. x \in 0..n /\ x + 1 = i + (m + 1) /\ x + 1 = i + m + 1 /\ m + 1 \in 0..(m + 1)
    BY <1>0, <1>1 DEF n
  <2>a. p[i + (m + 1)] = p[i] + (m + 1)
    BY <1>4, <2>1 DEF StepsBy
  <2> HIDE DEF x
  <2>d. p[i] + (m + 1) = p[i] + m + 1
    <3> DEFINE q == p[i]
    <3>1. q \in Nat /\ m \in Nat
      BY <1>0, <1>6
    <3> HIDE DEF q, m
    <3>2. q + (m + 1) = q + m + 1
      BY <3>1
    <3> QED
      BY <3>2 DEF q
  <2> DEFINE y == x + 1  z == i + (m + 1)
  <2>e. y = z /\ p[z] = p[i] + (m + 1)
    BY <2>1, <2>a
  <2> HIDE DEF y, z
  <2>f. p[y] = p[i] + (m + 1)
    BY <2>e
  <2>c. p[x + 1] = p[i] + (m + 1)
    BY <2>f DEF y
  <2>b. p[x + 1] = p[i] + m + 1 /\ ~ IsToolAt(ms, x + 1)
    BY <1>2, <2>1, <2>c, <2>d
  <2>2. ~ IsToolAt(out, p[x + 1])
    BY <2>1, <2>b, GrownNext DEF n
  <2> QED
    BY <2>b, <2>2
<1> QED
  BY <1>5, <1>7, <1>8 DEF Follows, m

(* A message without results gets all of them. *)
LEMMA GrownFilled ==
  ASSUME NEW ms \in Seq(Msg), NEW K, NEW out \in Seq(Msg), NEW p, GrownAt(out, ms, K, p),
         NEW i \in 1..Len(ms), ~ IsToolAt(ms, i + 1), DOMAIN Calls(ms[i]) \subseteq K[i]
  PROVE  Follows(out, p[i], Calls(ms[i])) /\ Len(PutIn(ms, K, i)) = Len(Calls(ms[i]))
<1> DEFINE u == Calls(ms[i])  r == PutIn(ms, K, i)
<1>0. u \in Seq(Call) /\ Len(u) \in Nat /\ r = Results(u, K[i])
  <2>1. ms[i] \in Msg
    OBVIOUS
  <2>2. u \in Seq(Call)
    BY <2>1, MsgFacts
  <2> QED
    BY <2>2 DEF PutIn
<1> HIDE DEF u, r
<1>1. Len(r) = Len(u) /\ \A k \in 1..Len(u) : r[k] = Tool(0, u[k])
  <2>1. DOMAIN u \subseteq K[i]
    BY DEF u
  <2> QED
    BY <1>0, <2>1, ResultsAll
<1>2. p[i] \in Nat /\ DOMAIN out = 1..Len(out)
  BY DEF GrownAt
<1>3. ASSUME NEW k \in 1..Len(u) PROVE IsToolAt(out, p[i] + k) /\ out[p[i] + k].call = u[k]
  <2>1. p[i] + k \in 1..Len(out) /\ out[p[i] + k] = r[k]
    BY <1>1 DEF GrownAt, r
  <2>2. r[k] = Tool(0, u[k])
    BY <1>1
  <2>3. r[k].type = "tool" /\ r[k].call = u[k]
    BY <2>2 DEF Tool
  <2> DEFINE x == p[i] + k
  <2>4. x \in 1..Len(out) /\ out[x].type = "tool" /\ out[x].call = u[k]
    BY <2>1, <2>3
  <2> HIDE DEF x
  <2>5. IsToolAt(out, x) /\ out[x].call = u[k]
    BY <1>2, <2>4 DEF IsToolAt
  <2> QED
    BY <2>5 DEF x
<1>4. ~ IsToolAt(out, p[i] + Len(u) + 1)
  <2>1. p[i + 1] = p[i] + 1 + Len(r)
    BY DEF GrownAt, r
  <2>2. p[i + 1] = p[i] + Len(u) + 1
    BY <1>0, <1>1, <1>2, <2>1
  <2>3. ~ IsToolAt(out, p[i + 1])
    <3>1. i \in 0..Len(ms)
      OBVIOUS
    <3> QED
      BY <3>1, GrownNext
  <2> QED
    BY <2>2, <2>3
<1> QED
  BY <1>1, <1>3, <1>4 DEF Follows, u, r

\* ----------------------------------------------------------- dangling calls

(* The calls of ms[i] that have no result behind it. *)
MissingAt(ms) == [i \in DOMAIN ms |->
  {k \in DOMAIN Calls(ms[i]) : \A j \in Block(ms, i) : ms[j].call # Calls(ms[i])[k]}]

(* DanglingPatched puts in the missing results, and nothing else. *)
LEMMA DanglingIs ==
  ASSUME NEW ms \in Seq(Msg)
  PROVE  DanglingPatched(ms) = Grow(ms, MissingAt(ms))
<1> DEFINE f == [i \in DOMAIN ms |->
    <<ms[i]>> \o LET calls == Calls(ms[i]) IN
        Results(calls, {k \in DOMAIN calls : \A j \in Block(ms, i) : ms[j].call # calls[k]})]
<1>1. f = PutIns(ms, MissingAt(ms))
  BY DEF PutIns, PutIn, MissingAt
<1>2. DanglingPatched(ms) = Expand(ms, f)
  BY DEF DanglingPatched
<1> QED
  BY <1>1, <1>2 DEF Grow

(* Who gets results: a message with calls and none behind it, and no other. *)
LEMMA DanglingCases ==
  ASSUME NEW ms \in Seq(Msg), NEW i \in 1..Len(ms)
  PROVE  /\ ~ IsToolAt(ms, i + 1) => DOMAIN Calls(ms[i]) \subseteq MissingAt(ms)[i]
         /\ Follows(ms, i, Calls(ms[i])) => PutIn(ms, MissingAt(ms), i) = <<>>
         /\ Calls(ms[i]) = <<>> => PutIn(ms, MissingAt(ms), i) = <<>>
<1> DEFINE u == Calls(ms[i])
<1>0. u \in Seq(Call) /\ DOMAIN u = 1..Len(u) /\ Len(u) \in Nat /\ DOMAIN ms = 1..Len(ms) /\ Len(ms) \in Nat
  <2>1. ms[i] \in Msg
    OBVIOUS
  <2>2. u \in Seq(Call)
    BY <2>1, MsgFacts
  <2> HIDE DEF u
  <2> QED
    BY <2>2
<1>1. MissingAt(ms)[i] = {k \in DOMAIN u : \A j \in Block(ms, i) : ms[j].call # u[k]}
  BY <1>0 DEF MissingAt
<1>2. PutIn(ms, MissingAt(ms), i) = Results(u, MissingAt(ms)[i])
  BY DEF PutIn
<1> HIDE DEF u
<1>3. ASSUME ~ IsToolAt(ms, i + 1) PROVE DOMAIN u \subseteq MissingAt(ms)[i]
  <2>1. ASSUME NEW j \in Block(ms, i) PROVE FALSE
    <3>1. j \in (i + 1)..Len(ms) /\ \A k \in (i + 1)..j : ms[k].type = "tool"
      BY DEF Block
    <3>2. i + 1 \in (i + 1)..j /\ i + 1 \in 1..Len(ms)
      BY <1>0, <3>1
    <3> QED
      BY <1>0, <1>3, <3>1, <3>2 DEF IsToolAt
  <2> QED
    BY <1>1, <2>1
<1>4. ASSUME Follows(ms, i, u) PROVE PutIn(ms, MissingAt(ms), i) = <<>>
  <2>1. Block(ms, i) = (i + 1)..(i + Len(u))
    BY <1>0, <1>4, BlockIs
  <2>2. ASSUME NEW k \in DOMAIN u, k \in MissingAt(ms)[i] PROVE FALSE
    <3>1. i + k \in Block(ms, i)
      BY <1>0, <2>1
    <3>2. ms[i + k].call = u[k]
      BY <1>0, <1>4 DEF Follows
    <3> QED
      BY <1>1, <2>2, <3>1, <3>2
  <2>3. DOMAIN u \cap MissingAt(ms)[i] = {}
    BY <2>2
  <2> QED
    BY <1>0, <1>2, <2>3, ResultsNone
<1>5. ASSUME u = <<>> PROVE PutIn(ms, MissingAt(ms), i) = <<>>
  BY <1>5, PutInType DEF u
<1> QED
  BY <1>3, <1>4, <1>5 DEF u

(* After it every call of a thread has its result behind it. *)
LEMMA DanglingGroups ==
  ASSUME NEW ms \in Seq(Msg), Grouped(ms), \A i \in 1..Len(ms) : FewBad(ms[i]), Apart(ms)
  PROVE  /\ DanglingPatched(ms) \in Seq(Msg)
         /\ Grouped(DanglingPatched(ms)) /\ Complete(DanglingPatched(ms)) /\ Apart(DanglingPatched(ms))
         /\ \A j \in 1..Len(DanglingPatched(ms)) : FewBad(DanglingPatched(ms)[j])
<1> DEFINE n == Len(ms)  K == MissingAt(ms)  out == DanglingPatched(ms)
<1>0. n \in Nat /\ DOMAIN ms = 1..n
  OBVIOUS
<1>1. out = Grow(ms, K)
  BY DanglingIs
<1> HIDE DEF out, n, K
<1>2. out \in Seq(Msg) /\ \E p : Laid(out, PutIns(ms, K), Len(ms), p) /\ GrownAt(out, ms, K, p)
  BY <1>1, GrowLaid
<1>3. PICK p : Laid(out, PutIns(ms, K), Len(ms), p) /\ GrownAt(out, ms, K, p)
  BY <1>2
<1>4. DOMAIN out = 1..Len(out) /\ Len(out) \in Nat
  BY <1>2
<1>5. ASSUME NEW i \in 1..n
      PROVE  ms[i] \in Msg /\ Calls(ms[i]) \in Seq(Call) /\ Made(ms[i]) \in Seq(Call) /\ p[i] \in 1..Len(out)
             /\ out[p[i]] = ms[i] /\ i \in 1..Len(ms)
  <2>1. ms[i] \in Msg
    BY <1>0 DEF n
  <2>2. p[i] \in 1..Len(out) /\ out[p[i]] = ms[i]
    BY <1>3 DEF GrownAt, n
  <2> QED
    BY <2>1, <2>2, MsgFacts DEF n
(* Messages that were closed stay so. *)
<1>6. ASSUME NEW i \in 1..n, NEW w \in Seq(Call), Follows(ms, i, w), PutIn(ms, K, i) = <<>>
      PROVE  Follows(out, p[i], w) /\ StepsBy(p, i, Len(w))
  BY <1>2, <1>3, <1>5, <1>6, GrownKept
<1>7. ASSUME NEW i \in 1..n, ~ IsToolAt(ms, i + 1)
      PROVE  Follows(out, p[i], Calls(ms[i])) /\ Len(PutIn(ms, K, i)) = Len(Calls(ms[i]))
  <2>1. DOMAIN Calls(ms[i]) \subseteq K[i]
    BY <1>5, <1>7, DanglingCases DEF K
  <2> QED
    BY <1>2, <1>3, <1>5, <1>7, <2>1, GrownFilled
<1>8. ASSUME NEW i \in 1..n, Follows(ms, i, Made(ms[i]))
      PROVE  Follows(out, p[i], Made(ms[i])) /\ StepsBy(p, i, Len(Made(ms[i]))) /\ PutIn(ms, K, i) = <<>>
  <2>1. PutIn(ms, K, i) = <<>>
    <3>1. Calls(ms[i]) = <<>> \/ Calls(ms[i]) = Made(ms[i])
      BY DEF Calls, Made
    <3>2. CASE Calls(ms[i]) = <<>>
      BY <1>5, <3>2, DanglingCases DEF K
    <3>3. CASE Calls(ms[i]) = Made(ms[i])
      <4>1. Follows(ms, i, Calls(ms[i]))
        BY <1>8, <3>3
      <4> QED
        BY <1>5, <4>1, DanglingCases DEF K
    <3> QED
      BY <3>1, <3>2, <3>3
  <2> QED
    BY <1>5, <1>6, <1>8, <2>1
<1>9. ASSUME NEW i \in 1..n
      PROVE  /\ ms[i].type = "tool" => \E h \in 1..n : OwnedBy(ms, h, i) /\ Follows(ms, h, Made(ms[h]))
             /\ ms[i].type # "tool" => ~ IsToolAt(ms, i + 1) \/ Follows(ms, i, Made(ms[i]))
  BY DEF Grouped, n
(* The messages of the thread. *)
<1>10. ASSUME NEW i \in 1..n, ms[i].type # "tool"
       PROVE  /\ ~ IsToolAt(out, p[i] + 1) \/ Follows(out, p[i], Made(ms[i]))
              /\ Calls(ms[i]) # <<>> => Follows(out, p[i], Calls(ms[i]))
  <2>1. CASE Follows(ms, i, Made(ms[i]))
    <3>1. Follows(out, p[i], Made(ms[i]))
      BY <1>8, <2>1
    <3>2. Calls(ms[i]) # <<>> => Calls(ms[i]) = Made(ms[i])
      BY DEF Calls, Made
    <3> QED
      BY <3>1, <3>2
  <2>2. CASE ~ IsToolAt(ms, i + 1)
    <3>1. Follows(out, p[i], Calls(ms[i]))
      BY <1>7, <2>2
    <3>2. CASE Calls(ms[i]) # <<>>
      <4>1. Calls(ms[i]) = Made(ms[i])
        BY <3>2 DEF Calls, Made
      <4> QED
        BY <3>1, <4>1
    <3>3. CASE Calls(ms[i]) = <<>>
      <4>1. ~ IsToolAt(out, p[i] + Len(<<>>) + 1)
        BY <3>1, <3>3 DEF Follows
      <4>2. p[i] + Len(<<>>) + 1 = p[i] + 1
        BY <1>4, <1>5
      <4> QED
        BY <3>3, <4>1, <4>2
    <3> QED
      BY <3>2, <3>3
  <2> QED
    BY <1>9, <1>10, <2>1, <2>2
<1>11. ASSUME NEW i \in 1..n, ms[i].type = "tool"
       PROVE  \E h \in 1..Len(out) : OwnedBy(out, h, p[i]) /\ Follows(out, h, Made(out[h]))
  <2>1. PICK h \in 1..n : OwnedBy(ms, h, i) /\ Follows(ms, h, Made(ms[h]))
    BY <1>9, <1>11
  <2>2. Follows(out, p[h], Made(ms[h])) /\ StepsBy(p, h, Len(Made(ms[h]))) /\ out[p[h]] = ms[h]
    BY <1>5, <1>8, <2>1
  <2>3. h \in 1..(i - 1) /\ ms[h].type # "tool" /\ i <= h + Len(Made(ms[h])) /\ Len(Made(ms[h])) \in Nat
    BY <1>5, <2>1 DEF OwnedBy
  <2>4. i - h \in 0..Len(Made(ms[h])) /\ h + (i - h) = i /\ i - h > 0
    BY <1>0, <2>3
  <2>5. p[i] = p[h] + (i - h)
    <3>1. p[h + (i - h)] = p[h] + (i - h)
      BY <2>2, <2>4 DEF StepsBy
    <3> QED
      BY <2>4, <3>1
  <2>6. p[i] \in 1..Len(out) /\ p[h] \in 1..Len(out)
    BY <1>5
  <2> DEFINE x == p[h]  y == p[i]  u == Made(ms[h])  d == i - h
  <2>7. x \in 1..Len(out) /\ y \in 1..Len(out) /\ y = x + d /\ d \in 0..Len(u) /\ d > 0 /\ Len(u) \in Nat
        /\ out[x].type # "tool" /\ Made(out[x]) = u /\ Follows(out, x, Made(out[x]))
    BY <2>2, <2>3, <2>4, <2>5, <2>6
  <2> HIDE DEF x, y, u, d
  <2>8. x \in 1..(y - 1) /\ y <= x + Len(u)
    BY <1>4, <2>7
  <2>9. OwnedBy(out, x, y)
    BY <2>7, <2>8 DEF OwnedBy
  <2> QED
    BY <2>7, <2>9 DEF y
(* The results put in. *)
<1>12. ASSUME NEW i \in 1..n, NEW k \in 1..Len(PutIn(ms, K, i))
       PROVE  /\ p[i] + k \in 1..Len(out) /\ out[p[i] + k].type = "tool"
              /\ \E h \in 1..Len(out) : OwnedBy(out, h, p[i] + k) /\ Follows(out, h, Made(out[h]))
  <2>1. p[i] + k \in 1..Len(out) /\ out[p[i] + k] = PutIn(ms, K, i)[k]
    BY <1>3 DEF GrownAt, n
  <2>2. PutIn(ms, K, i)[k].type = "tool" /\ Len(PutIn(ms, K, i)) \in Nat
    BY <1>5, PutInType
  <2>3. PutIn(ms, K, i) # <<>>
    BY <2>2
  <2>4. Calls(ms[i]) # <<>>
    BY <1>5, <2>3, PutInType
  <2>5. ms[i].type # "tool" /\ Calls(ms[i]) = Made(ms[i])
    BY <2>4 DEF Calls, Made
  <2>6. ~ IsToolAt(ms, i + 1)
    BY <1>8, <1>9, <2>3, <2>5
  <2>7. Follows(out, p[i], Made(ms[i])) /\ Len(PutIn(ms, K, i)) = Len(Made(ms[i]))
    BY <1>7, <2>5, <2>6
  <2> DEFINE x == p[i]  u == Made(ms[i])
  <2>8. x \in 1..Len(out) /\ out[x].type # "tool" /\ Made(out[x]) = u /\ k \in 1..Len(u)
        /\ Follows(out, x, Made(out[x])) /\ Len(u) \in Nat
    BY <1>5, <2>5, <2>7
  <2> HIDE DEF x, u
  <2>9. x \in 1..((x + k) - 1) /\ x + k <= x + Len(u)
    BY <1>4, <2>8
  <2>10. OwnedBy(out, x, x + k)
    BY <2>8, <2>9 DEF OwnedBy
  <2>11. out[p[i] + k].type = "tool"
    BY <2>1, <2>2
  <2> QED
    BY <2>1, <2>8, <2>10, <2>11 DEF x
<1>13. ASSUME NEW j \in 1..Len(out)
       PROVE  (\E i \in 1..n : j = p[i]) \/ \E i \in 1..n : \E k \in 1..Len(PutIn(ms, K, i)) : j = p[i] + k
  <2>1. PICK i \in 1..n : \E k \in 0..Len(PutIn(ms, K, i)) : j = p[i] + k
    BY <1>3 DEF GrownAt, n
  <2>2. PICK k \in 0..Len(PutIn(ms, K, i)) : j = p[i] + k
    BY <2>1
  <2>3. CASE k = 0
    <3>1. j = p[i]
      BY <1>4, <1>5, <2>2, <2>3
    <3> QED
      BY <3>1
  <2>4. CASE k # 0
    <3>1. k \in 1..Len(PutIn(ms, K, i))
      BY <2>4
    <3> QED
      BY <2>2, <3>1
  <2> QED
    BY <2>3, <2>4
<1>14. Grouped(out)
  <2> SUFFICES ASSUME NEW j \in 1..Len(out)
               PROVE  /\ out[j].type = "tool" => \E h \in 1..Len(out) : OwnedBy(out, h, j) /\ Follows(out, h, Made(out[h]))
                      /\ out[j].type # "tool" => ~ IsToolAt(out, j + 1) \/ Follows(out, j, Made(out[j]))
    BY DEF Grouped
  <2>1. ASSUME NEW i \in 1..n, j = p[i]
        PROVE  /\ out[j].type = "tool" => \E h \in 1..Len(out) : OwnedBy(out, h, j) /\ Follows(out, h, Made(out[h]))
               /\ out[j].type # "tool" => ~ IsToolAt(out, j + 1) \/ Follows(out, j, Made(out[j]))
    <3>1. out[j] = ms[i]
      BY <1>5, <2>1
    <3>2. CASE ms[i].type = "tool"
      BY <1>11, <2>1, <3>1, <3>2
    <3>3. CASE ms[i].type # "tool"
      BY <1>10, <2>1, <3>1, <3>3
    <3> QED
      BY <3>2, <3>3
  <2>2. ASSUME NEW i \in 1..n, NEW k \in 1..Len(PutIn(ms, K, i)), j = p[i] + k
        PROVE  out[j].type = "tool" /\ \E h \in 1..Len(out) : OwnedBy(out, h, j) /\ Follows(out, h, Made(out[h]))
    BY <1>12, <2>2
  <2> QED
    BY <1>13, <2>1, <2>2
<1>15. Complete(out)
  <2> SUFFICES ASSUME NEW j \in 1..Len(out), Calls(out[j]) # <<>>
               PROVE  Follows(out, j, Calls(out[j]))
    BY DEF Complete
  <2>0. out[j].type # "tool"
    BY DEF Calls
  <2>1. PICK i \in 1..n : j = p[i]
    BY <1>12, <1>13, <2>0
  <2>2. out[j] = ms[i]
    BY <1>5, <2>1
  <2> QED
    BY <1>10, <2>0, <2>1, <2>2
<1>16. Apart(out)
  <2> SUFFICES ASSUME NEW j \in 1..Len(out), NEW l \in 1..Len(out), j # l
               PROVE  ToSet(Made(out[j])) \cap ToSet(Made(out[l])) = {}
    BY DEF Apart
  <2>1. ToSet(<<>>) = {}
    BY DEF ToSet
  <2>2. CASE out[j].type = "tool" \/ out[l].type = "tool"
    <3>1. Made(out[j]) = <<>> \/ Made(out[l]) = <<>>
      BY <2>2 DEF Made
    <3> QED
      BY <2>1, <3>1
  <2>3. CASE out[j].type # "tool" /\ out[l].type # "tool"
    <3>1. PICK i \in 1..n : j = p[i]
      BY <1>12, <1>13, <2>3
    <3>2. PICK i2 \in 1..n : l = p[i2]
      BY <1>12, <1>13, <2>3
    <3>3. out[j] = ms[i] /\ out[l] = ms[i2] /\ i # i2
      BY <1>5, <3>1, <3>2
    <3> QED
      BY <3>3 DEF Apart, n
  <2> QED
    BY <2>2, <2>3
<1>17. ASSUME NEW j \in 1..Len(out) PROVE FewBad(out[j])
  <2>1. ASSUME NEW i \in 1..n, j = p[i] PROVE FewBad(out[j])
    BY <1>5, <2>1
  <2>2. ASSUME NEW i \in 1..n, NEW k \in 1..Len(PutIn(ms, K, i)), j = p[i] + k PROVE FewBad(out[j])
    BY <1>12, <2>2 DEF FewBad
  <2> QED
    BY <1>13, <2>1, <2>2
<1> QED
  BY <1>2, <1>14, <1>15, <1>16, <1>17 DEF out

\* ------------------------------------------------------------------ orphans

Batch(ms, i) == {j \in i..Len(ms) : \A k \in i..j : IsOrphan(ms, k)}
Declarer(ms, i) == Ai(0, "none", "string", {}, {},
                      [n \in 1..Cardinality(Batch(ms, i)) |-> ms[i + n - 1].call])
StartsBatch(ms, i) == IsOrphan(ms, i) /\ ~ IsOrphan(ms, i - 1)
Declarings(ms) == [i \in DOMAIN ms |-> IF StartsBatch(ms, i) THEN <<Declarer(ms, i), ms[i]>> ELSE <<ms[i]>>]

(* OrphansPatched, by what stands in the place of each message. *)
LEMMA OrphansIs ==
  ASSUME NEW ms
  PROVE  OrphansPatched(ms) = Expand(ms, Declarings(ms))
  BY DEF OrphansPatched, Declarings, StartsBatch, Declarer, Batch

(* A batch is an interval, and ends before what is no orphan. *)
LEMMA BatchIs ==
  ASSUME NEW ms \in Seq(Msg), NEW i \in 1..Len(ms)
  PROVE  \E c \in Nat : /\ Batch(ms, i) = i..(i + c - 1) /\ Cardinality(Batch(ms, i)) = c
                        /\ i + c <= Len(ms) + 1 /\ ~ IsOrphan(ms, i + c)
<1>0. Len(ms) \in Nat /\ DOMAIN ms = 1..Len(ms)
  OBVIOUS
<1> DEFINE n == Len(ms)
           T == {j \in i..(n + 1) : ~ IsOrphan(ms, j)}
<1>1. n + 1 \in T
  <2>1. ~ IsOrphan(ms, n + 1)
    BY <1>0 DEF IsOrphan, IsToolAt
  <2> QED
    BY <1>0, <2>1
<1>2. T \subseteq Nat /\ T # {}
  BY <1>0, <1>1
<1> HIDE DEF T
<1>3. PICK m \in T : \A j \in T : m <= j
  BY <1>2, LeastOf
<1> DEFINE c == m - i
<1>4. m \in i..(n + 1) /\ ~ IsOrphan(ms, m) /\ \A j \in i..(m - 1) : IsOrphan(ms, j)
  <2>1. m \in i..(n + 1) /\ ~ IsOrphan(ms, m)
    BY <1>3 DEF T
  <2>2. ASSUME NEW j \in i..(m - 1), ~ IsOrphan(ms, j) PROVE FALSE
    <3>1. j \in i..(n + 1) /\ ~ m <= j
      BY <1>0, <2>1
    <3>2. j \in T
      BY <2>2, <3>1 DEF T
    <3> QED
      BY <1>3, <3>1, <3>2
  <2> QED
    BY <2>1, <2>2
<1>5. Batch(ms, i) = i..(m - 1)
  <2>1. ASSUME NEW j \in Batch(ms, i) PROVE j \in i..(m - 1)
    <3>1. j \in i..n /\ \A k \in i..j : IsOrphan(ms, k)
      BY DEF Batch, n
    <3>2. ASSUME m <= j PROVE FALSE
      <4>1. m \in i..j
        BY <1>0, <1>4, <3>1, <3>2
      <4> QED
        BY <1>4, <3>1, <4>1
    <3> QED
      BY <1>0, <1>4, <3>1, <3>2
  <2>2. ASSUME NEW j \in i..(m - 1) PROVE j \in Batch(ms, i)
    <3>1. j \in i..n /\ \A k \in i..j : k \in i..(m - 1)
      BY <1>0, <1>4
    <3>2. \A k \in i..j : IsOrphan(ms, k)
      BY <1>4, <3>1
    <3> QED
      BY <3>1, <3>2 DEF Batch, n
  <2> QED
    BY <2>1, <2>2
<1>6. Cardinality(i..(m - 1)) = m - i
  <2>1. i \in Int /\ m - 1 \in Int /\ (i > m - 1 => m - i = 0)
    BY <1>0, <1>4
  <2>2. Cardinality(i..(m - 1)) = IF i > m - 1 THEN 0 ELSE (m - 1) - i + 1
    BY <2>1, FS_Interval
  <2> QED
    BY <1>0, <1>4, <2>1, <2>2
<1>7. c \in Nat /\ i + c = m /\ i + c - 1 = m - 1 /\ i + c <= n + 1
  BY <1>0, <1>4
<1> HIDE DEF c
<1>8. c = m - i
  BY DEF c
<1> QED
  BY <1>4, <1>5, <1>6, <1>7, <1>8 DEF n

(* The message that is put in declares calls, by itself. *)
LEMMA DeclarerType ==
  ASSUME NEW ms \in Seq(Msg), NEW i \in 1..Len(ms)
  PROVE  /\ Declarer(ms, i) \in Msg /\ Declarer(ms, i).type = "ai" /\ Declarer(ms, i).id = 0
         /\ Batch(ms, i) = {i} => Calls(Declarer(ms, i)) = <<ms[i].call>>
<1>1. PICK c \in Nat : Batch(ms, i) = i..(i + c - 1) /\ Cardinality(Batch(ms, i)) = c /\ i + c <= Len(ms) + 1
  BY BatchIs
<1> DEFINE s == [k \in 1..c |-> ms[i + k - 1].call]
<1>2. Declarer(ms, i) = Ai(0, "none", "string", {}, {}, s)
  BY <1>1 DEF Declarer
<1>3. s \in Seq(Call)
  <2>1. ASSUME NEW k \in 1..c PROVE ms[i + k - 1].call \in Call
    <3> DEFINE x == i + k - 1
    <3>1. x \in i..(i + c - 1) /\ x \in 1..Len(ms)
      BY <1>1
    <3>2. IsOrphan(ms, x)
      <4>1. x \in Batch(ms, i) /\ x \in i..x
        BY <1>1, <3>1
      <4> QED
        BY <4>1 DEF Batch
    <3> HIDE DEF x
    <3>3. ms[x] \in Msg /\ ms[x].type = "tool"
      BY <3>1, <3>2 DEF IsOrphan, IsToolAt
    <3>4. ms[x].call \in Call
      <4> DEFINE m == ms[x]
      <4>1. m \in Msg /\ m.type = "tool"
        BY <3>3
      <4> HIDE DEF m
      <4>2. m.call \in Call
        BY <4>1, MsgFacts
      <4> QED
        BY <4>2 DEF m
    <3> QED
      BY <3>4 DEF x
  <2>2. s \in [1..c -> Call]
    BY <2>1
  <2> HIDE DEF s
  <2> QED
    BY <2>2
<1>4. ASSUME Batch(ms, i) = {i} PROVE s = <<ms[i].call>>
  <2>1. c = 1
    <3>1. Cardinality({i}) = 1
      BY FS_Singleton
    <3> QED
      BY <1>1, <1>4, <3>1
  <2> DEFINE x == ms[i].call
  <2>2. \A k \in 1..1 : ms[i + k - 1].call = x
    <3> TAKE k \in 1..1
    <3>1. i + k - 1 = i
      OBVIOUS
    <3> QED
      BY <3>1
  <2>3. s = [k \in 1..1 |-> x]
    BY <2>1, <2>2
  <2> HIDE DEF s, x
  <2>4. s = <<x>>
    BY <2>3
  <2> QED
    BY <2>4 DEF x
<1> HIDE DEF s
<1>5. Ai(0, "none", "string", {}, {}, s) \in AiMsg
  <2>1. <<>> \in Seq(Call)
    OBVIOUS
  <2> QED
    BY <1>3, <2>1 DEF Ai, AiMsg
<1>6. Declarer(ms, i).type = "ai" /\ Declarer(ms, i).id = 0 /\ Calls(Declarer(ms, i)) = s
  BY <1>2 DEF Ai, Calls
<1> QED
  BY <1>2, <1>4, <1>5, <1>6 DEF Msg

(* Where the messages are when orphans have been declared. *)
LEMMA OrphansLaid ==
  ASSUME NEW ms \in Seq(Msg)
  PROVE  /\ OrphansPatched(ms) \in Seq(Msg)
         /\ \E p : Laid(OrphansPatched(ms), Declarings(ms), Len(ms), p)
<1> DEFINE n == Len(ms)  f == Declarings(ms)
<1>1. \A i \in 1..n : f[i] \in Seq(Msg)
  <2> TAKE i \in 1..n
  <2> DEFINE a == Declarer(ms, i)  m == ms[i]
  <2>1. a \in Msg /\ m \in Msg
    BY DeclarerType
  <2>2. f[i] = IF StartsBatch(ms, i) THEN <<a, m>> ELSE <<m>>
    <3>1. i \in DOMAIN ms
      OBVIOUS
    <3> QED
      BY <3>1, Zenon DEF Declarings
  <2> HIDE DEF a, m, f
  <2>3. <<a, m>> \in Seq(Msg) /\ <<m>> \in Seq(Msg)
    BY <2>1
  <2> QED
    BY <2>2, <2>3
<1> HIDE DEF f
<1>2. OrphansPatched(ms) = Expand(ms, f)
  BY OrphansIs DEF f
<1> QED
  BY <1>1, <1>2, Expanded DEF f

(* What stands where. *)
OrphanedAt(out, ms, p) ==
  /\ p \in [1..(Len(ms) + 1) -> Nat \ {0}] /\ p[1] = 1 /\ Len(out) = p[Len(ms) + 1] - 1
  /\ \A i \in 1..Len(ms) : /\ p[i] \in 1..Len(out)
                           /\ ~ StartsBatch(ms, i) => out[p[i]] = ms[i] /\ p[i + 1] = p[i] + 1
                           /\ StartsBatch(ms, i) => /\ out[p[i]] = Declarer(ms, i) /\ out[p[i] + 1] = ms[i]
                                                    /\ p[i] + 1 \in 1..Len(out) /\ p[i + 1] = p[i] + 2
  /\ \A j \in 1..Len(out) : \E i \in 1..Len(ms) : j = p[i] \/ (StartsBatch(ms, i) /\ j = p[i] + 1)

(* The same, message by message. *)
LEMMA OrphansAt ==
  ASSUME NEW ms \in Seq(Msg), NEW out, NEW p, Laid(out, Declarings(ms), Len(ms), p)
  PROVE  OrphanedAt(out, ms, p)
<1> DEFINE n == Len(ms)  f == Declarings(ms)
<1>0. n \in Nat /\ DOMAIN ms = 1..n
  OBVIOUS
<1>1. ASSUME NEW i \in 1..n
      PROVE  /\ ~ StartsBatch(ms, i) => Len(f[i]) = 1 /\ f[i][1] = ms[i]
             /\ StartsBatch(ms, i) => Len(f[i]) = 2 /\ f[i][1] = Declarer(ms, i) /\ f[i][2] = ms[i]
  <2> DEFINE a == Declarer(ms, i)  m == ms[i]
  <2>1. f[i] = IF StartsBatch(ms, i) THEN <<a, m>> ELSE <<m>>
    BY <1>0 DEF Declarings
  <2> HIDE DEF a, m, f
  <2>2. Len(<<a, m>>) = 2 /\ <<a, m>>[1] = a /\ <<a, m>>[2] = m /\ Len(<<m>>) = 1 /\ <<m>>[1] = m
    OBVIOUS
  <2> QED
    BY <2>1, <2>2 DEF a, m
<1> HIDE DEF n, f
<1>2. p \in [1..(n + 1) -> Nat \ {0}] /\ p[1] = 1 /\ Len(out) = p[n + 1] - 1
  BY DEF Laid, n
<1>3. ASSUME NEW i \in 1..n
      PROVE  /\ p[i] \in Nat /\ p[i + 1] = p[i] + Len(f[i])
             /\ \A k \in 1..Len(f[i]) : p[i] + k - 1 \in 1..Len(out) /\ out[p[i] + k - 1] = f[i][k]
  <2>1. i \in 1..(n + 1)
    BY <1>0
  <2>2. p[i] \in Nat
    BY <1>2, <2>1
  <2> QED
    BY <2>2 DEF Laid, n, f
<1>4. ASSUME NEW i \in 1..n, ~ StartsBatch(ms, i)
      PROVE  p[i] \in 1..Len(out) /\ out[p[i]] = ms[i] /\ p[i + 1] = p[i] + 1
  <2>1. Len(f[i]) = 1 /\ f[i][1] = ms[i] /\ 1 \in 1..Len(f[i])
    BY <1>1, <1>4
  <2>2. p[i] + 1 - 1 \in 1..Len(out) /\ out[p[i] + 1 - 1] = f[i][1] /\ p[i] + 1 - 1 = p[i]
    BY <1>3, <2>1
  <2> QED
    BY <1>3, <2>1, <2>2
<1>5. ASSUME NEW i \in 1..n, StartsBatch(ms, i)
      PROVE  /\ p[i] \in 1..Len(out) /\ out[p[i]] = Declarer(ms, i) /\ out[p[i] + 1] = ms[i]
             /\ p[i] + 1 \in 1..Len(out) /\ p[i + 1] = p[i] + 2
  <2>1. Len(f[i]) = 2 /\ f[i][1] = Declarer(ms, i) /\ f[i][2] = ms[i] /\ 1 \in 1..Len(f[i]) /\ 2 \in 1..Len(f[i])
    BY <1>1, <1>5
  <2>2. p[i] + 1 - 1 \in 1..Len(out) /\ out[p[i] + 1 - 1] = f[i][1] /\ p[i] + 1 - 1 = p[i]
    BY <1>3, <2>1
  <2>3. p[i] + 2 - 1 \in 1..Len(out) /\ out[p[i] + 2 - 1] = f[i][2] /\ p[i] + 2 - 1 = p[i] + 1
    BY <1>3, <2>1
  <2> QED
    BY <1>3, <2>1, <2>2, <2>3
<1>6. ASSUME NEW j \in 1..Len(out)
      PROVE  \E i \in 1..n : j = p[i] \/ (StartsBatch(ms, i) /\ j = p[i] + 1)
  <2>1. PICK i \in 1..n : \E k \in 1..Len(f[i]) : j = p[i] + k - 1
    BY DEF Laid, n, f
  <2>2. PICK k \in 1..Len(f[i]) : j = p[i] + k - 1
    BY <2>1
  <2>3. CASE StartsBatch(ms, i)
    <3>0. Len(f[i]) = 2
      BY <1>1, <2>3
    <3>a. k \in 1..2
      BY <3>0
    <3>1. k = 1 \/ k = 2
      BY <3>a
    <3>2. j = p[i] \/ j = p[i] + 1
      BY <1>3, <2>2, <3>1
    <3> QED
      BY <2>3, <3>2
  <2>4. CASE ~ StartsBatch(ms, i)
    <3>0. Len(f[i]) = 1
      BY <1>1, <2>4
    <3>a. k \in 1..1
      BY <3>0
    <3>1. k = 1
      BY <3>a
    <3>2. j = p[i]
      BY <1>3, <2>2, <3>1
    <3> QED
      BY <3>2
  <2> QED
    BY <2>3, <2>4
<1> QED
  BY <1>2, <1>4, <1>5, <1>6 DEF OrphanedAt, n

(* A result is one of its message's calls and no orphan, or is the only one   *)
(* behind a message that declares nothing.                                    *)
Matched(ms, i) ==
  /\ ~ IsOrphan(ms, i)
  /\ \E h \in 1..Len(ms) : OwnedBy(ms, h, i) /\ Calls(ms[h]) # <<>> /\ Follows(ms, h, Calls(ms[h]))
Lone(ms, i) ==
  /\ IsOrphan(ms, i) /\ ~ IsToolAt(ms, i + 1)
  /\ i - 1 \in 1..Len(ms) /\ ms[i - 1].type # "tool" /\ Calls(ms[i - 1]) = <<>>

(* A call of the message at h is declared by no other message. *)
LEMMA Declares ==
  ASSUME NEW ms \in Seq(Msg), Apart(ms), NEW h \in 1..Len(ms), NEW c \in ToSet(Made(ms[h])),
         NEW g \in 1..Len(ms), c \in ToSet(Made(ms[g]))
  PROVE  g = h
  BY DEF Apart

(* Every result of a thread is matched, or is alone. *)
LEMMA ToolCases ==
  ASSUME NEW ms \in Seq(Msg), Grouped(ms), Apart(ms), \A i \in 1..Len(ms) : FewBad(ms[i]),
         NEW i \in 1..Len(ms), ms[i].type = "tool"
  PROVE  Matched(ms, i) \/ Lone(ms, i)
<1>0. Len(ms) \in Nat /\ DOMAIN ms = 1..Len(ms)
  OBVIOUS
<1>1. PICK h \in 1..Len(ms) : OwnedBy(ms, h, i) /\ Follows(ms, h, Made(ms[h]))
  BY DEF Grouped
<1> DEFINE u == Made(ms[h])  c == ms[i].call
<1>2. u \in Seq(Call) /\ Len(u) \in Nat /\ DOMAIN u = 1..Len(u) /\ FewBad(ms[h])
  <2>1. ms[h] \in Msg
    OBVIOUS
  <2>2. u \in Seq(Call)
    BY <2>1, MsgFacts
  <2> HIDE DEF u
  <2> QED
    BY <2>2
<1> HIDE DEF u
<1>3. h \in 1..(i - 1) /\ ms[h].type # "tool" /\ i <= h + Len(u)
  BY <1>1 DEF OwnedBy, u
<1>4. i - h \in 1..Len(u) /\ h + (i - h) = i
  BY <1>0, <1>2, <1>3
<1>5. c = u[i - h] /\ c \in ToSet(u)
  <2>1. ms[h + (i - h)].call = u[i - h]
    BY <1>1, <1>4 DEF Follows, u
  <2> QED
    BY <1>2, <1>4, <2>1 DEF ToSet
<1>6. CASE Calls(ms[h]) # <<>>
  <2>1. u = Calls(ms[h])
    BY <1>6 DEF Calls, Made, u
  <2>2. c \in Declared(ms)
    BY <1>0, <1>5, <2>1 DEF Declared
  <2>3. ~ IsOrphan(ms, i)
    BY <2>2 DEF IsOrphan
  <2> QED
    BY <1>1, <1>6, <2>1, <2>3 DEF Matched, u
<1>7. CASE Calls(ms[h]) = <<>>
  <2>1. u = <<>> \/ (ms[h].type = "ai" /\ u = ms[h].bad)
    BY <1>7 DEF Calls, Made, u
  <2>2. Len(u) = 1
    <3>1. Len(u) > 0
      BY <1>2, <1>4
    <3>2. u # <<>>
      BY <3>1
    <3>3. Len(u) <= 1
      BY <1>2, <2>1, <3>2 DEF FewBad
    <3> QED
      BY <1>2, <3>1, <3>3
  <2>3. h = i - 1
    BY <1>0, <1>3, <2>2
  <2>4. c \notin Declared(ms)
    <3>1. ASSUME c \in Declared(ms) PROVE FALSE
      <4>1. PICK g \in 1..Len(ms) : c \in ToSet(Calls(ms[g]))
        BY <1>0, <3>1 DEF Declared
      <4>2. Calls(ms[g]) # <<>>
        <5>1. ToSet(<<>>) = {}
          BY DEF ToSet
        <5> QED
          BY <4>1, <5>1
      <4>3. Made(ms[g]) = Calls(ms[g])
        BY <4>2 DEF Calls, Made
      <4>4. g = h
        BY <1>5, <4>1, <4>3, Declares DEF u
      <4> QED
        BY <1>7, <4>2, <4>4
    <3> QED
      BY <3>1
  <2>5. ASSUME NEW j \in 1..(i - 1), IsToolAt(ms, j), ms[j].call = c
        PROVE  FALSE
    <3>0. j \in 1..Len(ms) /\ ms[j].type = "tool"
      BY <1>0, <2>5 DEF IsToolAt
    <3>1. PICK g \in 1..Len(ms) : OwnedBy(ms, g, j) /\ Follows(ms, g, Made(ms[g]))
      BY <3>0 DEF Grouped
    <3> DEFINE v == Made(ms[g])
    <3>2. v \in Seq(Call) /\ Len(v) \in Nat /\ DOMAIN v = 1..Len(v)
      <4>1. ms[g] \in Msg
        OBVIOUS
      <4>2. v \in Seq(Call)
        BY <4>1, MsgFacts
      <4> HIDE DEF v
      <4> QED
        BY <4>2
    <3> HIDE DEF v
    <3>3. g \in 1..(j - 1) /\ j <= g + Len(v)
      BY <3>1 DEF OwnedBy, v
    <3>4. j - g \in 1..Len(v) /\ g + (j - g) = j
      BY <1>0, <3>0, <3>2, <3>3
    <3>5. ms[g + (j - g)].call = v[j - g]
      BY <3>1, <3>4 DEF Follows, v
    <3>6. c \in ToSet(v)
      BY <2>5, <3>2, <3>4, <3>5 DEF ToSet
    <3>7. g = h
      BY <1>5, <3>6, Declares DEF u, v
    <3> QED
      BY <1>0, <2>3, <2>5, <3>3, <3>7
  <2>6. IsOrphan(ms, i)
    BY <1>0, <2>4, <2>5 DEF IsOrphan, IsToolAt
  <2>7. ~ IsToolAt(ms, i + 1)
    <3>1. ~ IsToolAt(ms, h + Len(u) + 1)
      BY <1>1 DEF Follows, u
    <3>2. h + Len(u) + 1 = i + 1
      BY <1>0, <2>2, <2>3
    <3> QED
      BY <3>1, <3>2
  <2> QED
    BY <1>3, <1>7, <2>3, <2>6, <2>7 DEF Lone
<1> QED
  BY <1>6, <1>7

(* What follows a message that is no result. *)
LEMMA NextCases ==
  ASSUME NEW ms \in Seq(Msg), Grouped(ms), Complete(ms), Apart(ms), \A i \in 1..Len(ms) : FewBad(ms[i]),
         NEW i \in 1..Len(ms), ms[i].type # "tool"
  PROVE  /\ Calls(ms[i]) = <<>> /\ IsToolAt(ms, i + 1) => Lone(ms, i + 1)
         /\ \A k \in 1..Len(Calls(ms[i])) : i + k \in 1..Len(ms) /\ ms[i + k].type = "tool" /\ ~ IsOrphan(ms, i + k)
<1>0. Len(ms) \in Nat /\ DOMAIN ms = 1..Len(ms)
  OBVIOUS
<1>1. ASSUME Calls(ms[i]) = <<>>, IsToolAt(ms, i + 1)
      PROVE  Lone(ms, i + 1)
  <2> DEFINE j == i + 1
  <2>1. j \in 1..Len(ms) /\ ms[j].type = "tool"
    BY <1>0, <1>1 DEF IsToolAt
  <2> HIDE DEF j
  <2>2. Matched(ms, j) \/ Lone(ms, j)
    BY <2>1, ToolCases
  <2>3. ASSUME Matched(ms, j) PROVE FALSE
    <3>1. PICK h \in 1..Len(ms) : OwnedBy(ms, h, j) /\ Calls(ms[h]) # <<>> /\ Follows(ms, h, Calls(ms[h]))
      BY <2>3 DEF Matched
    <3> DEFINE u == Calls(ms[h])
    <3>2. u = Made(ms[h])
      BY <3>1 DEF Calls, Made
    <3>3. u \in Seq(Call) /\ Len(u) \in Nat
      <4>1. ms[h] \in Msg
        OBVIOUS
      <4>2. u \in Seq(Call)
        BY <4>1, MsgFacts
      <4> HIDE DEF u
      <4> QED
        BY <4>2
    <3>4. h \in 1..(j - 1) /\ j <= h + Len(u)
      BY <3>1, <3>2 DEF OwnedBy
    <3> HIDE DEF u
    <3>5. h # i
      BY <1>1, <3>1
    <3>6. i - h \in 1..Len(u) /\ h + (i - h) = i
      BY <1>0, <3>3, <3>4, <3>5 DEF j
    <3>7. IsToolAt(ms, h + (i - h))
      BY <3>1, <3>6 DEF Follows, u
    <3> QED
      BY <3>6, <3>7 DEF IsToolAt
  <2> QED
    BY <2>2, <2>3 DEF j
<1>2. ASSUME NEW k \in 1..Len(Calls(ms[i]))
      PROVE  i + k \in 1..Len(ms) /\ ms[i + k].type = "tool" /\ ~ IsOrphan(ms, i + k)
  <2> DEFINE u == Calls(ms[i])
  <2>1. u \in Seq(Call) /\ DOMAIN u = 1..Len(u) /\ Len(u) \in Nat
    <3>1. ms[i] \in Msg
      OBVIOUS
    <3>2. u \in Seq(Call)
      BY <3>1, MsgFacts
    <3> HIDE DEF u
    <3> QED
      BY <3>2
  <2>2. u # <<>>
    BY <1>2
  <2>3. Follows(ms, i, u)
    BY <2>2 DEF Complete
  <2> HIDE DEF u
  <2>4. IsToolAt(ms, i + k) /\ ms[i + k].call = u[k]
    BY <1>2, <2>3 DEF Follows, u
  <2>5. u[k] \in Declared(ms)
    BY <1>0, <1>2, <2>1 DEF Declared, ToSet, u
  <2> QED
    BY <1>0, <2>4, <2>5 DEF IsToolAt, IsOrphan
<1> QED
  BY <1>1, <1>2

(* After a message that stays where it is comes what came after it, unless    *)
(* that is an orphan.                                                         *)
LEMMA OrphansNext ==
  ASSUME NEW ms \in Seq(Msg), NEW out \in Seq(Msg), NEW p, OrphanedAt(out, ms, p), NEW i \in 0..Len(ms),
         ~ IsToolAt(ms, i + 1) \/ StartsBatch(ms, i + 1)
  PROVE  ~ IsToolAt(out, p[i + 1])
<1> DEFINE n == Len(ms)  x == i + 1
<1>0. n \in Nat /\ DOMAIN ms = 1..n /\ i \in 0..n
  OBVIOUS
<1> HIDE DEF n
<1>1. x \in 1..n \/ x = n + 1
  BY <1>0
<1> HIDE DEF x
<1>2. CASE x = n + 1
  <2>1. p[x] = Len(out) + 1
    BY <1>0, <1>2 DEF OrphanedAt, n
  <2> QED
    BY <2>1 DEF IsToolAt, x
<1>3. CASE x \in 1..n
  <2>1. CASE StartsBatch(ms, x)
    <3>1. out[p[x]] = Declarer(ms, x)
      BY <1>3, <2>1 DEF OrphanedAt, n
    <3>2. Declarer(ms, x).type = "ai"
      BY <1>3, DeclarerType DEF n
    <3> QED
      BY <3>1, <3>2 DEF IsToolAt, x
  <2>2. CASE ~ StartsBatch(ms, x)
    <3>1. out[p[x]] = ms[x]
      BY <1>3, <2>2 DEF OrphanedAt, n
    <3>2. ms[x].type # "tool"
      BY <1>0, <1>3, <2>2 DEF IsToolAt, x
    <3> QED
      BY <3>1, <3>2 DEF IsToolAt, x
  <2> QED
    BY <2>1, <2>2
<1> QED
  BY <1>1, <1>2, <1>3

(* Calls that have their results keep them. *)
LEMMA OrphansKept ==
  ASSUME NEW ms \in Seq(Msg), Grouped(ms), Complete(ms), Apart(ms), \A i \in 1..Len(ms) : FewBad(ms[i]),
         NEW out \in Seq(Msg), NEW p, OrphanedAt(out, ms, p), Laid(out, Declarings(ms), Len(ms), p),
         NEW i \in 1..Len(ms), Calls(ms[i]) # <<>>
  PROVE  Follows(out, p[i], Calls(ms[i])) /\ StepsBy(p, i, Len(Calls(ms[i])))
<1> DEFINE n == Len(ms)  u == Calls(ms[i])  m == Len(u)  f == Declarings(ms)
<1>0. n \in Nat /\ DOMAIN ms = 1..n /\ DOMAIN out = 1..Len(out)
  OBVIOUS
<1>1. u \in Seq(Call) /\ m \in Nat /\ ms[i].type # "tool"
  <2>1. ms[i] \in Msg
    OBVIOUS
  <2>2. u \in Seq(Call)
    BY <2>1, MsgFacts
  <2>3. ms[i].type # "tool"
    BY DEF Calls
  <2> HIDE DEF u
  <2> QED
    BY <2>2, <2>3
<1>2. Follows(ms, i, u)
  BY DEF Complete
<1>3. \A k \in 1..m : i + k \in 1..n /\ ms[i + k].type = "tool" /\ ~ IsOrphan(ms, i + k)
  BY <1>1, NextCases
<1> HIDE DEF u, f
<1>4. i + m <= n
  BY <1>1, <1>2, BlockIs
<1> HIDE DEF n, m
<1>5. ASSUME NEW j \in i..(i + m) PROVE j \in 1..n /\ ~ StartsBatch(ms, j) /\ Len(f[j]) = 1
  <2>1. j \in 1..n
    BY <1>0, <1>1, <1>4 DEF n
  <2>2. ~ IsOrphan(ms, j)
    <3>1. CASE j = i
      BY <1>1, <3>1 DEF IsOrphan, IsToolAt
    <3>2. CASE j # i
      <4>1. j - i \in 1..m /\ i + (j - i) = j
        BY <1>0, <1>1, <3>2 DEF n
      <4> QED
        BY <1>3, <4>1
    <3> QED
      BY <3>1, <3>2
  <2>3. ~ StartsBatch(ms, j)
    BY <2>2 DEF StartsBatch
  <2> DEFINE mj == ms[j]
  <2>4. f[j] = <<mj>>
    BY <1>0, <2>1, <2>3 DEF f, Declarings
  <2> HIDE DEF mj
  <2>5. Len(f[j]) = 1
    BY <2>4
  <2> QED
    BY <2>1, <2>3, <2>5
<1>6. StepsBy(p, i, m + 1)
  <2> DEFINE m1 == m + 1
  <2>1. m1 \in Nat /\ i + m1 <= n + 1 /\ i + m1 - 1 = i + m /\ i \in Nat \ {0}
    BY <1>0, <1>1, <1>4 DEF n
  <2>2. Ones(f, i, m1)
    BY <1>5, <2>1 DEF Ones
  <2> HIDE DEF m1
  <2>3. StepsBy(p, i, m1)
    BY <1>0, <2>1, <2>2, Chain DEF n, f
  <2> QED
    BY <2>3 DEF m1
<1>7. StepsBy(p, i, m)
  BY <1>1, <1>6 DEF StepsBy
<1>8. p[i] \in Nat
  BY DEF OrphanedAt
<1>9. ASSUME NEW k \in 1..m PROVE IsToolAt(out, p[i] + k) /\ out[p[i] + k].call = u[k]
  <2> DEFINE x == i + k
  <2>1. x \in i..(i + m) /\ p[x] = p[i] + k
    BY <1>1, <1>7 DEF StepsBy
  <2>2. IsToolAt(ms, x) /\ ms[x].call = u[k]
    BY <1>2 DEF Follows, m
  <2> HIDE DEF x
  <2>3. p[x] \in 1..Len(out) /\ out[p[x]] = ms[x]
    BY <1>5, <2>1 DEF OrphanedAt, n
  <2>4. IsToolAt(out, p[x]) /\ out[p[x]].call = u[k]
    BY <1>0, <2>2, <2>3 DEF IsToolAt
  <2> QED
    BY <2>1, <2>4
<1>10. ~ IsToolAt(out, p[i] + m + 1)
  <2> DEFINE x == i + m  y == x + 1  z == i + (m + 1)
  <2>a. x \in 0..n /\ y = z /\ y = i + m + 1
    BY <1>0, <1>1, <1>4 DEF n
  <2>b. m + 1 \in 0..(m + 1) /\ p[i] + (m + 1) = p[i] + m + 1
    <3> DEFINE q == p[i]
    <3>1. q \in Nat /\ m \in Nat
      BY <1>1, <1>8
    <3> HIDE DEF q, m
    <3>2. m + 1 \in 0..(m + 1)
      BY <3>1
    <3>3. q + (m + 1) = q + m + 1
      BY <3>1
    <3> QED
      BY <3>2, <3>3 DEF q
  <2>1. x \in 0..n /\ y = z /\ m + 1 \in 0..(m + 1) /\ p[i] + (m + 1) = p[i] + m + 1 /\ y = i + m + 1
    BY <2>a, <2>b
  <2>2. p[z] = p[i] + (m + 1)
    BY <1>6, <2>1 DEF StepsBy
  <2>3. ~ IsToolAt(ms, y)
    BY <1>2, <2>1 DEF Follows, m
  <2> HIDE DEF x, z
  <2>4. ~ IsToolAt(out, p[x + 1])
    BY <2>1, <2>3, OrphansNext DEF n
  <2> HIDE DEF y
  <2>5. p[y] = p[i] + m + 1
    BY <2>1, <2>2
  <2> QED
    BY <2>4, <2>5 DEF y
<1> QED
  BY <1>7, <1>9, <1>10 DEF Follows, m, u

(* What is left is paired: every call with a result, every result with a call. *)
LEMMA OrphansExact ==
  ASSUME NEW ms \in Seq(Msg), Grouped(ms), Complete(ms), Apart(ms), \A i \in 1..Len(ms) : FewBad(ms[i])
  PROVE  OrphansPatched(ms) \in Seq(Msg) /\ Exact(OrphansPatched(ms))
<1> DEFINE n == Len(ms)  out == OrphansPatched(ms)
<1>0. n \in Nat /\ DOMAIN ms = 1..n
  OBVIOUS
<1>1. out \in Seq(Msg) /\ \E p : Laid(out, Declarings(ms), n, p)
  BY OrphansLaid
<1>2. PICK p : Laid(out, Declarings(ms), n, p)
  BY <1>1
<1> HIDE DEF out
<1>3. OrphanedAt(out, ms, p)
  BY <1>2, OrphansAt
<1>4. DOMAIN out = 1..Len(out) /\ Len(out) \in Nat
  BY <1>1
<1>5. ASSUME NEW i \in 1..n, ms[i].type = "tool" PROVE Matched(ms, i) \/ Lone(ms, i)
  BY <1>5, ToolCases
<1>6. ASSUME NEW i \in 1..n, Calls(ms[i]) # <<>>
      PROVE  Follows(out, p[i], Calls(ms[i])) /\ StepsBy(p, i, Len(Calls(ms[i])))
  BY <1>1, <1>2, <1>3, <1>6, OrphansKept
<1> HIDE DEF n
<1>7. ASSUME NEW i \in 1..n
      PROVE  /\ p[i] \in 1..Len(out)
             /\ ~ StartsBatch(ms, i) => out[p[i]] = ms[i] /\ p[i + 1] = p[i] + 1
             /\ StartsBatch(ms, i) => /\ out[p[i]] = Declarer(ms, i) /\ out[p[i] + 1] = ms[i]
                                      /\ p[i] + 1 \in 1..Len(out) /\ p[i + 1] = p[i] + 2
  BY <1>3 DEF OrphanedAt, n
(* An orphan has its declarer in front of it. *)
<1>8. ASSUME NEW i \in 1..n, IsOrphan(ms, i)
      PROVE  StartsBatch(ms, i) /\ Calls(Declarer(ms, i)) = <<ms[i].call>> /\ ~ IsToolAt(ms, i + 1) /\ ms[i].type = "tool"
  <2>1. ms[i].type = "tool"
    BY <1>8 DEF IsOrphan, IsToolAt
  <2>2. Lone(ms, i)
    BY <1>5, <1>8, <2>1 DEF Matched
  <2>3. ~ IsOrphan(ms, i - 1) /\ ~ IsOrphan(ms, i + 1)
    BY <2>2 DEF Lone, IsOrphan, IsToolAt
  <2>4. Batch(ms, i) = {i}
    <3>1. PICK c \in Nat : Batch(ms, i) = i..(i + c - 1) /\ ~ IsOrphan(ms, i + c)
      BY BatchIs DEF n
    <3>2. i \in Batch(ms, i)
      <4>1. i \in i..Len(ms) /\ \A k \in i..i : k = i
        BY <1>0 DEF n
      <4> QED
        BY <1>8, <4>1 DEF Batch
    <3>3. ASSUME NEW j \in Batch(ms, i), j # i PROVE FALSE
      <4>1. i + 1 \in i..j
        BY <1>0, <3>1, <3>3 DEF n
      <4>2. IsOrphan(ms, i + 1)
        BY <4>1 DEF Batch
      <4> QED
        BY <2>3, <4>2
    <3> QED
      BY <3>2, <3>3
  <2>5. Calls(Declarer(ms, i)) = <<ms[i].call>>
    BY <2>4, DeclarerType DEF n
  <2> QED
    BY <1>8, <2>1, <2>2, <2>3, <2>5 DEF StartsBatch, Lone
(* A message that is no result. *)
<1>9. ASSUME NEW i \in 1..n, ms[i].type # "tool"
      PROVE  out[p[i]] = ms[i] /\ Follows(out, p[i], Calls(ms[i]))
  <2>1. ~ StartsBatch(ms, i)
    BY <1>8, <1>9 DEF StartsBatch
  <2>2. CASE Calls(ms[i]) # <<>>
    BY <1>6, <1>7, <2>1, <2>2
  <2>3. CASE Calls(ms[i]) = <<>>
    <3>1. ~ IsToolAt(ms, i + 1) \/ StartsBatch(ms, i + 1)
      <4>1. ASSUME IsToolAt(ms, i + 1) PROVE StartsBatch(ms, i + 1)
        <5>1. Lone(ms, i + 1)
          BY <1>9, <2>3, <4>1, NextCases DEF n
        <5>2. i + 1 \in 1..n /\ IsOrphan(ms, i + 1)
          BY <1>0, <5>1 DEF Lone, IsOrphan, IsToolAt
        <5> QED
          BY <1>8, <5>2
      <4> QED
        BY <4>1
    <3>2. ~ IsToolAt(out, p[i + 1])
      <4>1. i \in 0..Len(ms)
        BY <1>0 DEF n
      <4> QED
        BY <1>1, <1>3, <3>1, <4>1, OrphansNext
    <3>3. p[i + 1] = p[i] + Len(<<>>) + 1
      <4>1. p[i + 1] = p[i] + 1 /\ p[i] \in Nat
        BY <1>4, <1>7, <2>1
      <4> QED
        BY <4>1
    <3>4. Follows(out, p[i], <<>>)
      BY <3>2, <3>3 DEF Follows
    <3> QED
      BY <1>7, <2>1, <2>3, <3>4
  <2> QED
    BY <2>2, <2>3
(* A result that is no orphan. *)
<1>10. ASSUME NEW i \in 1..n, ms[i].type = "tool", ~ IsOrphan(ms, i)
       PROVE  out[p[i]] = ms[i] /\ \E h \in 1..(p[i] - 1) : out[h].type # "tool" /\ p[i] <= h + Len(Calls(out[h]))
  <2>1. out[p[i]] = ms[i]
    BY <1>7, <1>10 DEF StartsBatch
  <2>2. PICK h \in 1..n : OwnedBy(ms, h, i) /\ Calls(ms[h]) # <<>> /\ Follows(ms, h, Calls(ms[h]))
    BY <1>5, <1>10 DEF Matched, Lone, n
  <2> DEFINE u == Calls(ms[h])
  <2>3. u = Made(ms[h])
    BY <2>2 DEF Calls, Made
  <2>4. Len(u) \in Nat
    <3>1. ms[h] \in Msg
      BY <1>0 DEF n
    <3>2. u \in Seq(Call)
      BY <3>1, MsgFacts
    <3> HIDE DEF u
    <3> QED
      BY <3>2
  <2>5. StepsBy(p, h, Len(u))
    BY <1>6, <2>2
  <2>6. h \in 1..(i - 1) /\ i <= h + Len(u) /\ ms[h].type # "tool"
    BY <2>2, <2>3 DEF OwnedBy
  <2> HIDE DEF u
  <2> DEFINE d == i - h
  <2>7. d \in 0..Len(u) /\ h + d = i /\ d > 0
    BY <1>0, <2>4, <2>6
  <2> HIDE DEF d
  <2>8. p[i] = p[h] + d
    BY <2>5, <2>7 DEF StepsBy
  <2>9. out[p[h]] = ms[h] /\ p[h] \in 1..Len(out) /\ p[i] \in 1..Len(out)
    BY <1>7, <1>9, <2>6
  <2> DEFINE x == p[h]  y == p[i]
  <2>10. x \in 1..(y - 1) /\ y <= x + Len(u)
    BY <1>4, <2>4, <2>7, <2>8, <2>9
  <2>11. out[x].type # "tool" /\ Calls(out[x]) = u
    BY <2>6, <2>9 DEF u
  <2> QED
    BY <2>1, <2>10, <2>11
(* An orphan. *)
<1>11. ASSUME NEW i \in 1..n, IsOrphan(ms, i)
       PROVE  /\ out[p[i]].type # "tool" /\ Follows(out, p[i], Calls(out[p[i]]))
              /\ out[p[i] + 1].type = "tool" /\ p[i] \in 1..Len(out)
              /\ Calls(out[p[i]]) = <<ms[i].call>>
  <2>1. StartsBatch(ms, i) /\ Calls(Declarer(ms, i)) = <<ms[i].call>> /\ ~ IsToolAt(ms, i + 1) /\ ms[i].type = "tool"
    BY <1>8, <1>11
  <2> DEFINE x == p[i]  c == ms[i].call
  <2>2. /\ out[x] = Declarer(ms, i) /\ out[x + 1] = ms[i] /\ x \in 1..Len(out) /\ x + 1 \in 1..Len(out)
        /\ p[i + 1] = x + 2
    BY <1>7, <2>1
  <2>3. Declarer(ms, i).type = "ai"
    BY DeclarerType DEF n
  <2>4. ~ IsToolAt(out, x + 2)
    <3>1. i \in 0..Len(ms)
      BY <1>0 DEF n
    <3>2. ~ IsToolAt(out, p[i + 1])
      BY <1>1, <1>3, <2>1, <3>1, OrphansNext
    <3> QED
      BY <2>2, <3>2
  <2>5. IsToolAt(out, x + 1) /\ out[x + 1].call = c
    BY <1>4, <2>1, <2>2 DEF IsToolAt
  <2> HIDE DEF x, c
  <2>6. Follows(out, x, <<c>>)
    <3>1. Len(<<c>>) = 1 /\ <<c>>[1] = c /\ x + 1 + 1 = x + 2
      BY <1>4, <2>2
    <3> QED
      BY <2>4, <2>5, <3>1 DEF Follows
  <2>7. Calls(out[x]) = <<c>> /\ out[x].type # "tool" /\ out[x + 1].type = "tool"
    BY <2>1, <2>2, <2>3 DEF c
  <2>8. Follows(out, x, Calls(out[x]))
    BY <2>6, <2>7
  <2> QED
    BY <2>2, <2>7, <2>8 DEF x, c
<1>12. Exact(out)
  <2> SUFFICES ASSUME NEW j \in 1..Len(out)
               PROVE  /\ out[j].type = "tool" =>
                           \E h \in 1..(j - 1) : out[h].type # "tool" /\ j <= h + Len(Calls(out[h]))
                      /\ out[j].type # "tool" => Follows(out, j, Calls(out[j]))
    BY DEF Exact
  <2>1. PICK i \in 1..n : j = p[i] \/ (StartsBatch(ms, i) /\ j = p[i] + 1)
    BY <1>3 DEF OrphanedAt, n
  <2>2. CASE ms[i].type # "tool"
    <3>1. ~ StartsBatch(ms, i)
      BY <1>8, <2>2 DEF StartsBatch
    <3>2. j = p[i]
      BY <2>1, <3>1
    <3> QED
      BY <1>9, <2>2, <3>2
  <2>3. CASE ms[i].type = "tool" /\ ~ IsOrphan(ms, i)
    <3>1. ~ StartsBatch(ms, i)
      BY <2>3 DEF StartsBatch
    <3>2. j = p[i]
      BY <2>1, <3>1
    <3> QED
      BY <1>10, <2>3, <3>2
  <2>4. CASE IsOrphan(ms, i) /\ j = p[i]
    BY <1>11, <2>4
  <2>5. CASE IsOrphan(ms, i) /\ j = p[i] + 1
    <3> DEFINE x == p[i]  c == ms[i].call
    <3>1. x \in 1..Len(out) /\ out[x].type # "tool" /\ Calls(out[x]) = <<c>> /\ j = x + 1 /\ out[j].type = "tool"
      BY <1>11, <2>5
    <3> HIDE DEF x, c
    <3>2. Len(Calls(out[x])) = 1
      BY <3>1
    <3>3. x \in 1..(j - 1) /\ j <= x + Len(Calls(out[x]))
      BY <1>4, <3>1, <3>2
    <3> QED
      BY <3>1, <3>3
  <2> QED
    BY <2>1, <2>2, <2>3, <2>4, <2>5
<1> QED
  BY <1>1, <1>12 DEF out

\* --------------------------------------------- exact lists stay as they are

(* What is exact is what WellPaired asks for. *)
LEMMA ExactPaired ==
  ASSUME NEW ms \in Seq(Msg), Exact(ms)
  PROVE  WellPaired(ms)
<1>0. Len(ms) \in Nat /\ DOMAIN ms = 1..Len(ms)
  OBVIOUS
<1>1. ~ IsToolAt(ms, 1)
  <2>1. ASSUME IsToolAt(ms, 1) PROVE FALSE
    <3>1. 1 \in 1..Len(ms) /\ ms[1].type = "tool"
      BY <1>0, <2>1 DEF IsToolAt
    <3>2. \E h \in 1..(1 - 1) : TRUE
      BY <3>1 DEF Exact
    <3> QED
      BY <3>2
  <2> QED
    BY <2>1
<1>2. ASSUME NEW i \in 1..Len(ms), ms[i].type # "tool"
      PROVE  Paired(ms, i)
  <2> DEFINE u == Calls(ms[i])
  <2>1. u \in Seq(Call) /\ DOMAIN u = 1..Len(u) /\ Len(u) \in Nat
    <3>1. ms[i] \in Msg
      OBVIOUS
    <3>2. u \in Seq(Call)
      BY <3>1, MsgFacts
    <3> HIDE DEF u
    <3> QED
      BY <3>2
  <2>2. Follows(ms, i, u)
    BY <1>2 DEF Exact
  <2> HIDE DEF u
  <2>3. Block(ms, i) = (i + 1)..(i + Len(u))
    BY <2>1, <2>2, BlockIs
  <2>4. \A k \in 1..Len(u) : ms[i + k].call = u[k]
    BY <2>2 DEF Follows
  <2>5. {ms[j].call : j \in Block(ms, i)} = ToSet(u)
    <3>1. ASSUME NEW j \in Block(ms, i) PROVE ms[j].call \in ToSet(u)
      <4>1. j - i \in 1..Len(u) /\ i + (j - i) = j
        BY <2>1, <2>3
      <4>2. ms[i + (j - i)].call = u[j - i]
        BY <2>4, <4>1
      <4> QED
        BY <2>1, <4>1, <4>2 DEF ToSet
    <3>2. ASSUME NEW c \in ToSet(u) PROVE \E j \in Block(ms, i) : ms[j].call = c
      <4>1. PICK k \in 1..Len(u) : u[k] = c
        BY <2>1 DEF ToSet
      <4>2. i + k \in Block(ms, i)
        BY <2>1, <2>3
      <4> QED
        BY <2>4, <4>1, <4>2
    <3> QED
      BY <3>1, <3>2
  <2>6. Cardinality(Block(ms, i)) = Len(u)
    <3>1. i + 1 \in Int /\ i + Len(u) \in Int /\ (i + 1 > i + Len(u) => Len(u) = 0)
      BY <2>1
    <3>2. Cardinality((i + 1)..(i + Len(u))) = IF i + 1 > i + Len(u) THEN 0 ELSE (i + Len(u)) - (i + 1) + 1
      BY <3>1, FS_Interval
    <3>3. (i + Len(u)) - (i + 1) + 1 = Len(u)
      BY <2>1
    <3> QED
      BY <2>3, <3>1, <3>2, <3>3
  <2> QED
    BY <2>5, <2>6 DEF Paired, u
<1> QED
  BY <1>0, <1>1, <1>2 DEF WellPaired

(* Nothing is put into a list that has what it needs. *)
LEMMA GrownNothing ==
  ASSUME NEW ms \in Seq(Msg), NEW K, \A i \in 1..Len(ms) : PutIn(ms, K, i) = <<>>
  PROVE  Grow(ms, K) = ms
<1> DEFINE n == Len(ms)  f == PutIns(ms, K)  out == Expand(ms, f)
<1>1. Each(f, ms, n, Msg)
  <2> SUFFICES ASSUME NEW i \in 1..n PROVE ms[i] \in Msg /\ f[i] = <<ms[i]>>
    BY DEF Each
  <2> DEFINE m == ms[i]
  <2>1. m \in Msg /\ f[i] = <<m>> \o PutIn(ms, K, i) /\ PutIn(ms, K, i) = <<>>
    BY DEF PutIns
  <2> HIDE DEF m, f
  <2>2. <<m>> \o <<>> = <<m>>
    BY <2>1
  <2> QED
    BY <2>1, <2>2 DEF m
<1> HIDE DEF f
<1>2. out \in Seq(Msg) /\ Lists(out, ms, n)
  BY <1>1, Singles
<1>3. Grow(ms, K) = out
  BY DEF Grow, f
<1> HIDE DEF out
<1>4. out = ms
  BY <1>2 DEF Lists
<1> QED
  BY <1>3, <1>4

(* There are no dangling calls in it. *)
LEMMA ExactDangling ==
  ASSUME NEW ms \in Seq(Msg), Exact(ms)
  PROVE  DanglingPatched(ms) = ms
<1>1. ASSUME NEW i \in 1..Len(ms) PROVE PutIn(ms, MissingAt(ms), i) = <<>>
  <2>1. CASE ms[i].type # "tool"
    <3>1. Follows(ms, i, Calls(ms[i]))
      BY <2>1 DEF Exact
    <3> QED
      BY <3>1, DanglingCases
  <2>2. CASE ms[i].type = "tool"
    <3>1. Calls(ms[i]) = <<>>
      BY <2>2 DEF Calls
    <3> QED
      BY <3>1, DanglingCases
  <2> QED
    BY <2>1, <2>2
<1> QED
  BY <1>1, GrownNothing, DanglingIs

(* In an exact list every result is a result of a call that is declared. *)
LEMMA ExactDeclared ==
  ASSUME NEW ms \in Seq(Msg), Exact(ms), NEW i \in 1..Len(ms), ms[i].type = "tool"
  PROVE  ms[i].call \in Declared(ms)
<1>0. Len(ms) \in Nat /\ DOMAIN ms = 1..Len(ms)
  OBVIOUS
<1>1. PICK h \in 1..(i - 1) : ms[h].type # "tool" /\ i <= h + Len(Calls(ms[h]))
  BY DEF Exact
<1> DEFINE u == Calls(ms[h])
<1>2. h \in 1..Len(ms)
  BY <1>0
<1>3. u \in Seq(Call) /\ DOMAIN u = 1..Len(u) /\ Len(u) \in Nat
  <2>1. ms[h] \in Msg
    BY <1>2
  <2>2. u \in Seq(Call)
    BY <2>1, MsgFacts
  <2> HIDE DEF u
  <2> QED
    BY <2>2
<1>4. Follows(ms, h, u)
  BY <1>1, <1>2 DEF Exact
<1> HIDE DEF u
<1>5. i - h \in 1..Len(u) /\ h + (i - h) = i
  BY <1>0, <1>1, <1>2, <1>3 DEF u
<1>6. ms[h + (i - h)].call = u[i - h]
  BY <1>4, <1>5 DEF Follows
<1>7. ms[i].call \in ToSet(u)
  BY <1>3, <1>5, <1>6 DEF ToSet
<1> QED
  BY <1>0, <1>2, <1>7 DEF Declared, u

(* There are no orphans in it. *)
LEMMA ExactOrphans ==
  ASSUME NEW ms \in Seq(Msg), Exact(ms)
  PROVE  OrphansPatched(ms) = ms
<1> DEFINE n == Len(ms)  f == Declarings(ms)  out == Expand(ms, f)
<1>1. ASSUME NEW i \in 1..n PROVE ~ StartsBatch(ms, i)
  BY <1>1, ExactDeclared DEF StartsBatch, IsOrphan, IsToolAt
<1>2. Each(f, ms, n, Msg)
  BY <1>1 DEF Each, Declarings
<1> HIDE DEF f
<1>3. out \in Seq(Msg) /\ Lists(out, ms, n)
  BY <1>2, Singles
<1>4. OrphansPatched(ms) = out
  BY OrphansIs DEF f
<1> HIDE DEF out
<1>5. out = ms
  BY <1>3 DEF Lists
<1> QED
  BY <1>4, <1>5

NamedAt(ms, missing) == [i \in DOMAIN ms |->
  {k \in DOMAIN Calls(ms[i]) : Calls(ms[i])[k] \in missing
       /\ \A j \in 1..(i - 1) : Calls(ms[i])[k] \notin ToSet(Calls(ms[j]))}]

(* Injected puts in results for the calls the error names. *)
LEMMA InjectedIs ==
  ASSUME NEW ms, NEW missing
  PROVE  Injected(ms, missing) = Grow(ms, NamedAt(ms, missing))
<1> DEFINE f == [i \in DOMAIN ms |->
    <<ms[i]>> \o LET calls == Calls(ms[i]) IN
        Results(calls, {k \in DOMAIN calls : calls[k] \in missing
                            /\ \A j \in 1..(i - 1) : calls[k] \notin ToSet(Calls(ms[j]))})]
<1>1. f = PutIns(ms, NamedAt(ms, missing))
  BY DEF PutIns, PutIn, NamedAt
<1>2. Injected(ms, missing) = Expand(ms, f)
  BY DEF Injected
<1> QED
  BY <1>1, <1>2 DEF Grow

(* No provider finds a call without its result in it. *)
LEMMA ExactInjected ==
  ASSUME NEW ms \in Seq(Msg), Exact(ms)
  PROVE  Injected(ms, Unanswered(ms)) = ms
<1>0. Len(ms) \in Nat /\ DOMAIN ms = 1..Len(ms)
  OBVIOUS
<1>1. ASSUME NEW i \in 1..Len(ms), NEW c \in ToSet(Calls(ms[i])), \A j \in Block(ms, i) : ms[j].call # c
      PROVE  FALSE
  <2>1. ms[i].type # "tool"
    <3>1. ToSet(<<>>) = {}
      BY DEF ToSet
    <3> QED
      BY <3>1 DEF Calls
  <2>2. Paired(ms, i)
    BY <1>0, <2>1, ExactPaired DEF WellPaired
  <2> QED
    BY <1>1, <2>2 DEF Paired
<1>2. Unanswered(ms) = {}
  BY <1>0, <1>1 DEF Unanswered
<1>3. ASSUME NEW i \in 1..Len(ms) PROVE PutIn(ms, NamedAt(ms, {}), i) = <<>>
  <2>1. NamedAt(ms, {})[i] = {}
    BY <1>0 DEF NamedAt
  <2>2. Calls(ms[i]) \in Seq(Call)
    <3>1. ms[i] \in Msg
      OBVIOUS
    <3> QED
      BY <3>1, MsgFacts
  <2>3. DOMAIN Calls(ms[i]) \cap NamedAt(ms, {})[i] = {}
    BY <2>1
  <2> QED
    BY <2>2, <2>3, ResultsNone DEF PutIn
<1> QED
  BY <1>2, <1>3, GrownNothing, InjectedIs

\* --------------------------------------------------------------- conversion

(* Where the marks a provider leaves in a message can come from. *)
Origin(m) == m.type = "ai" =>
  /\ "signatures" \in m.extra => m.from = Gemini
  /\ "unsigned" \in m.parts => m.from = Gemini
  /\ "signed" \in m.parts => m.from = "ChatAnthropic"

(* A provider's own message, which it gets unchanged, has nothing of Kimi's. *)
Native(m, p) ==
  m.type = "ai" /\ m.from = p /\ p \in {"ChatAnthropic", Gemini} =>
    "reasoning_content" \notin m.extra /\ "tool_calls" \notin m.extra

(* Accepts, but for tool calls and their results. *)
ShapedFor(p, m) == m.type = "ai" =>
  /\ "tool_calls" \notin m.extra
  /\ p = "ChatMoonshot" => m.form = "string" /\ "reasoning_content" \in m.extra
  /\ p # "ChatMoonshot" => "reasoning_content" \notin m.extra
  /\ "signatures" \in m.extra => m.from = Gemini
  /\ "unsigned" \in m.parts => p = Gemini /\ m.from = Gemini
  /\ "signed" \in m.parts => p = "ChatAnthropic" /\ m.from = "ChatAnthropic"

Clear(m) == /\ m.type = "tool" => m.call.clean
            /\ \A k \in 1..Len(Calls(m)) : Calls(m)[k].clean

Ready(p) == {m \in Msg : Origin(m) /\ Native(m, p)}
Fit(p) == {m \in Msg : Origin(m) /\ ShapedFor(p, m)}
Plain(p) == {m \in Fit(p) : m.type # "tool" /\ Calls(m) = <<>>}

(* What was shaped for a provider can be converted for it again. *)
LEMMA FitIsReady ==
  ASSUME NEW p \in Models
  PROVE  Fit(p) \subseteq Ready(p)
<1> SUFFICES ASSUME NEW m \in Fit(p) PROVE Native(m, p)
  BY DEF Fit, Ready
<1>1. p \in {"ChatAnthropic", Gemini} => p # "ChatMoonshot"
  BY DEF Gemini
<1> QED
  BY <1>1 DEF Fit, ShapedFor, Native

(* Conversion gives the shape, and leaves calls and results alone. *)
LEMMA ConvertedFit ==
  ASSUME NEW p \in Models, NEW m \in Ready(p)
  PROVE  /\ Converted(m, p) \in Fit(p) /\ Converted(m, p).type = m.type
         /\ Calls(Converted(m, p)) = Calls(m) /\ (m.type # "ai" => Converted(m, p) = m)
<1>0. m \in Msg /\ Origin(m) /\ Native(m, p)
  BY DEF Ready
<1>1. CASE m.type # "ai"
  BY <1>0, <1>1 DEF Converted, Fit, ShapedFor
<1>2. CASE m.type = "ai"
  <2>1. m \in AiMsg
    BY <1>0, <1>2, MsgFacts
  <2>2. CASE p = "ChatMoonshot"
    <3> DEFINE r == [m EXCEPT !.form = "string", !.parts = @ \cap {"text"}, !.bad = <<>>,
                   !.extra = (@ \ {"tool_calls"}) \cup {"reasoning_content"}]
    <3>1. Converted(m, p) = r
      BY <1>2, <2>2 DEF Converted
    <3>2. r \in AiMsg /\ r.type = "ai" /\ r.calls = m.calls /\ r.form = "string" /\ r.from = m.from
          /\ r.parts = m.parts \cap {"text"} /\ r.extra = (m.extra \ {"tool_calls"}) \cup {"reasoning_content"}
      <4> DEFINE pp == m.parts \cap {"text"}  xx == (m.extra \ {"tool_calls"}) \cup {"reasoning_content"}
                 bb == <<>>  ff == "string"
                 q == [m EXCEPT !.form = ff, !.parts = pp, !.bad = bb, !.extra = xx]
      <4>1. r = q
        OBVIOUS
      <4>2. pp \in SUBSET {"text", "tool_use", "signed", "unsigned"} /\ bb \in Seq(Call)
            /\ xx \in SUBSET {"tool_calls", "reasoning_content", "signatures"} /\ ff \in {"string", "list"}
        BY <2>1 DEF AiMsg
      <4> HIDE DEF pp, xx, bb, ff
      <4>3. q \in AiMsg
        BY <2>1, <4>2 DEF AiMsg
      <4>4. q.type = "ai" /\ q.calls = m.calls /\ q.form = ff /\ q.from = m.from /\ q.parts = pp /\ q.extra = xx
        BY <2>1 DEF AiMsg
      <4> HIDE DEF q, r
      <4> QED
        BY <4>1, <4>3, <4>4 DEF pp, xx, ff
    <3> HIDE DEF r
    <3>3. Origin(r) /\ ShapedFor(p, r)
      BY <1>0, <1>2, <2>2, <3>2 DEF Origin, ShapedFor, Gemini
    <3> QED
      BY <1>2, <3>1, <3>2, <3>3 DEF Calls, Msg, Fit
  <2>3. CASE p \in {"ChatAnthropic", Gemini} /\ m.from = p /\ m.form = "list"
    <3>1. Converted(m, p) = m
      BY <2>3 DEF Converted, Gemini
    <3>2. ShapedFor(p, m)
      BY <1>0, <1>2, <2>3 DEF Origin, Native, ShapedFor, Gemini
    <3> QED
      BY <1>0, <1>2, <3>1, <3>2 DEF Fit
  <2>4. CASE p # "ChatMoonshot" /\ ~ (p \in {"ChatAnthropic", Gemini} /\ m.from = p /\ m.form = "list")
    <3> DEFINE gone == {"reasoning_content", "tool_calls"} \cup IF {p, m.from} = {Gemini} THEN {} ELSE {"signatures"}
               r == [m EXCEPT !.form = "list", !.parts = SafeParts(m, p), !.bad = <<>>, !.extra = @ \ gone]
    <3>1. Converted(m, p) = r
      BY <1>2, <2>4 DEF Converted
    <3>2. SafeParts(m, p) \subseteq {"text", "tool_use", "signed", "unsigned"}
      BY <2>1 DEF SafeParts, AiMsg
    <3>3. r \in AiMsg /\ r.type = "ai" /\ r.calls = m.calls /\ r.from = m.from
          /\ r.parts = SafeParts(m, p) /\ r.extra = m.extra \ gone
      <4> DEFINE pp == SafeParts(m, p)  xx == m.extra \ gone  bb == <<>>  ff == "list"
                 q == [m EXCEPT !.form = ff, !.parts = pp, !.bad = bb, !.extra = xx]
      <4>1. r = q
        OBVIOUS
      <4>2. pp \in SUBSET {"text", "tool_use", "signed", "unsigned"} /\ bb \in Seq(Call)
            /\ xx \in SUBSET {"tool_calls", "reasoning_content", "signatures"} /\ ff \in {"string", "list"}
        <5> HIDE DEF gone
        <5> QED
          BY <2>1, <3>2 DEF AiMsg
      <4> HIDE DEF pp, xx, bb, ff
      <4>3. q \in AiMsg
        BY <2>1, <4>2 DEF AiMsg
      <4>4. q.type = "ai" /\ q.calls = m.calls /\ q.form = ff /\ q.from = m.from /\ q.parts = pp /\ q.extra = xx
        BY <2>1 DEF AiMsg
      <4> HIDE DEF q, r
      <4> QED
        BY <4>1, <4>3, <4>4 DEF pp, xx, ff
    <3>4. "tool_calls" \notin r.extra /\ "reasoning_content" \notin r.extra
          /\ ("signatures" \in r.extra => "signatures" \in m.extra)
      BY <3>3
    <3>5. "unsigned" \notin SafeParts(m, p)
          /\ ("signed" \in SafeParts(m, p) => p = "ChatAnthropic" /\ "signed" \in m.parts)
      BY DEF SafeParts, Thinking
    <3> HIDE DEF r, gone
    <3>6. Origin(r)
      BY <1>0, <1>2, <3>3, <3>4, <3>5 DEF Origin
    <3>7. ShapedFor(p, r)
      BY <1>0, <1>2, <2>4, <3>3, <3>4, <3>5 DEF Origin, ShapedFor
    <3> QED
      BY <1>2, <3>1, <3>3, <3>6, <3>7 DEF Calls, Msg, Fit
  <2> QED
    BY <2>2, <2>3, <2>4
<1> QED
  BY <1>1, <1>2

CleanIds == [c \in Call |-> Clean(c)]

(* Cleaning an id again changes nothing. *)
LEMMA CleanFacts ==
  ASSUME NEW c \in Call
  PROVE  Clean(c) \in Call /\ Clean(c).clean /\ (c.clean => Clean(c) = c)
<1> DEFINE d == Clean(c)
<1>1. c.no \in Nat /\ c.clean \in BOOLEAN /\ c = [no |-> c.no, clean |-> c.clean]
  BY DEF Call
<1>3. d \in Call /\ d.clean = TRUE /\ d.no = c.no
  BY DEF Clean, Call
<1> HIDE DEF d
<1>2. d = [no |-> d.no, clean |-> d.clean]
  BY <1>3 DEF Call
<1>4. ASSUME c.clean PROVE d = c
  <2>1. c.clean = TRUE
    BY <1>1, <1>4
  <2> QED
    BY <1>1, <1>2, <1>3, <2>1
<1> QED
  BY <1>3, <1>4 DEF d

(* The message of a list at i, as Sanitized leaves it. *)
SanitizedMsg(m) ==
  IF m.type = "tool" THEN [m EXCEPT !.call = Clean(@)]
  ELSE IF \A n \in DOMAIN Calls(m) : Calls(m)[n].clean THEN m
  ELSE [m EXCEPT !.calls = [n \in DOMAIN @ |-> Clean(@[n])], !.extra = @ \ {"tool_calls"}]

(* Sanitizing cleans the ids and nothing else. *)
LEMMA SaneFit ==
  ASSUME NEW m \in Msg
  PROVE  /\ SanitizedMsg(m) \in Msg /\ SanitizedMsg(m).type = m.type /\ Clear(SanitizedMsg(m))
         /\ m.type = "tool" => SanitizedMsg(m).call = Clean(m.call)
         /\ Len(Calls(SanitizedMsg(m))) = Len(Calls(m))
         /\ \A k \in 1..Len(Calls(m)) : Calls(SanitizedMsg(m))[k] = Clean(Calls(m)[k])
         /\ Origin(m) => Origin(SanitizedMsg(m))
         /\ \A p \in Models : ShapedFor(p, m) => ShapedFor(p, SanitizedMsg(m))
<1> DEFINE u == Calls(m)
<1>0. u \in Seq(Call) /\ DOMAIN u = 1..Len(u) /\ Len(u) \in Nat
  <2>1. u \in Seq(Call)
    BY MsgFacts
  <2> HIDE DEF u
  <2> QED
    BY <2>1
<1>1. CASE m.type = "tool"
  <2>1. m \in ToolMsg /\ m.call \in Call
    BY <1>1, MsgFacts
  <2> DEFINE r == [m EXCEPT !.call = Clean(@)]
  <2>2. SanitizedMsg(m) = r
    BY <1>1 DEF SanitizedMsg
  <2>3. Clean(m.call) \in Call /\ Clean(m.call).clean
    BY <2>1, CleanFacts
  <2>4. r \in ToolMsg /\ r.type = "tool" /\ r.call = Clean(m.call)
    BY <2>1, <2>3 DEF ToolMsg
  <2> HIDE DEF r
  <2>5. Calls(r) = <<>> /\ Calls(m) = <<>>
    BY <1>1, <2>4 DEF Calls
  <2>6. Len(<<>>) = 0 /\ 1..0 = {}
    OBVIOUS
  <2>7. Clear(r)
    BY <2>3, <2>4, <2>5, <2>6 DEF Clear
  <2>8. Origin(r) /\ \A p \in Models : ShapedFor(p, r)
    BY <2>4 DEF Origin, ShapedFor
  <2>9. Len(Calls(r)) = Len(Calls(m)) /\ \A k \in 1..Len(Calls(m)) : Calls(r)[k] = Clean(Calls(m)[k])
    BY <2>5, <2>6
  <2> QED
    BY <1>1, <2>2, <2>4, <2>7, <2>8, <2>9 DEF Msg
<1>2. CASE m.type # "tool" /\ \A n \in DOMAIN u : u[n].clean
  <2>1. SanitizedMsg(m) = m
    BY <1>2 DEF SanitizedMsg
  <2> HIDE DEF u
  <2>2. \A k \in 1..Len(u) : u[k].clean /\ u[k] = Clean(u[k])
    <3> TAKE k \in 1..Len(u)
    <3>1. u[k] \in Call /\ u[k].clean
      BY <1>0, <1>2
    <3> QED
      BY <3>1, CleanFacts
  <2>3. Clear(m)
    BY <1>2, <2>2 DEF Clear, u
  <2> QED
    BY <1>2, <2>1, <2>2, <2>3 DEF u
<1>3. CASE m.type # "tool" /\ ~ \A n \in DOMAIN u : u[n].clean
  <2>1. m.type = "ai"
    <3>1. DOMAIN <<>> = {}
      OBVIOUS
    <3> QED
      BY <1>3, <3>1 DEF Calls
  <2>2. m \in AiMsg /\ u = m.calls
    BY <2>1, MsgFacts DEF Calls
  <2> DEFINE v == [n \in DOMAIN u |-> Clean(u[n])]
             r == [m EXCEPT !.calls = v, !.extra = @ \ {"tool_calls"}]
  <2>3. SanitizedMsg(m) = r
    <3>1. r = [m EXCEPT !.calls = [n \in DOMAIN @ |-> Clean(@[n])], !.extra = @ \ {"tool_calls"}]
      BY <2>2
    <3> QED
      BY <1>3, <3>1 DEF SanitizedMsg
  <2> HIDE DEF u
  <2>4. v \in Seq(Call) /\ Len(v) = Len(u) /\ \A k \in 1..Len(u) : v[k] = Clean(u[k]) /\ v[k].clean
    <3>1. \A k \in 1..Len(u) : Clean(u[k]) \in Call /\ Clean(u[k]).clean
      <4> TAKE k \in 1..Len(u)
      <4>1. u[k] \in Call
        BY <1>0
      <4> QED
        BY <4>1, CleanFacts
    <3>2. v = [n \in 1..Len(u) |-> Clean(u[n])]
      BY <1>0
    <3>3. v \in [1..Len(u) -> Call]
      BY <3>1, <3>2
    <3>4. \A k \in 1..Len(u) : v[k] = Clean(u[k])
      BY <3>2
    <3> HIDE DEF v
    <3> QED
      BY <1>0, <3>1, <3>3, <3>4
  <2> HIDE DEF v
  <2>5. r \in AiMsg /\ r.type = "ai" /\ r.calls = v /\ r.extra = m.extra \ {"tool_calls"} /\ r.parts = m.parts
        /\ r.from = m.from /\ r.form = m.form
    BY <2>2, <2>4 DEF AiMsg
  <2> HIDE DEF r
  <2>6. Calls(r) = v
    BY <2>5 DEF Calls
  <2>7. Clear(r)
    BY <2>4, <2>5, <2>6 DEF Clear
  <2>8. Origin(m) => Origin(r)
    BY <2>1, <2>5 DEF Origin
  <2>9. ASSUME NEW p \in Models, ShapedFor(p, m) PROVE ShapedFor(p, r)
    BY <2>1, <2>5, <2>9 DEF ShapedFor
  <2> QED
    BY <1>3, <2>1, <2>3, <2>4, <2>5, <2>6, <2>7, <2>8, <2>9 DEF Msg, u
<1> QED
  BY <1>1, <1>2, <1>3

(* A list in which every message has been changed for itself, and the calls   *)
(* and results alike.                                                         *)
Renamed(ms, out, G) ==
  /\ Len(out) = Len(ms)
  /\ \A i \in 1..Len(ms) :
       /\ out[i].type = ms[i].type
       /\ ms[i].type = "tool" => out[i].call = G[ms[i].call]
       /\ Len(Calls(out[i])) = Len(Calls(ms[i]))
       /\ \A k \in 1..Len(Calls(ms[i])) : Calls(out[i])[k] = G[Calls(ms[i])[k]]

(* Renaming calls and results alike keeps a list exact. *)
LEMMA RenamedExact ==
  ASSUME NEW ms \in Seq(Msg), NEW out \in Seq(Msg), NEW G, Renamed(ms, out, G), Exact(ms)
  PROVE  Exact(out)
<1> DEFINE n == Len(ms)
<1>0. n \in Nat /\ DOMAIN ms = 1..n /\ DOMAIN out = 1..n /\ Len(out) = n
  BY DEF Renamed
<1> HIDE DEF n
<1>1. \A i \in 1..n : out[i].type = ms[i].type /\ Len(Calls(out[i])) = Len(Calls(ms[i]))
  BY DEF Renamed, n
<1>2. ASSUME NEW i \in 1..n, out[i].type = "tool"
      PROVE  \E h \in 1..(i - 1) : out[h].type # "tool" /\ i <= h + Len(Calls(out[h]))
  <2>1. PICK h \in 1..(i - 1) : ms[h].type # "tool" /\ i <= h + Len(Calls(ms[h]))
    BY <1>1, <1>2 DEF Exact, n
  <2>2. h \in 1..n
    BY <1>0
  <2> QED
    BY <1>1, <2>1, <2>2
<1>3. ASSUME NEW i \in 1..n, out[i].type # "tool"
      PROVE  Follows(out, i, Calls(out[i]))
  <2> DEFINE u == Calls(ms[i])  v == Calls(out[i])
  <2>1. Follows(ms, i, u) /\ Len(v) = Len(u)
    BY <1>1, <1>3 DEF Exact, n
  <2>2. \A k \in 1..Len(u) : v[k] = G[u[k]]
    BY DEF Renamed, n
  <2>3. Len(u) \in Nat
    <3>1. ms[i] \in Msg
      BY <1>0 DEF n
    <3>2. u \in Seq(Call)
      BY <3>1, MsgFacts
    <3> HIDE DEF u
    <3> QED
      BY <3>2
  <2> HIDE DEF u, v
  <2>4. ASSUME NEW j \in Nat PROVE IsToolAt(out, j) <=> IsToolAt(ms, j)
    BY <1>0, <1>1 DEF IsToolAt
  <2>5. ASSUME NEW k \in 1..Len(v) PROVE IsToolAt(out, i + k) /\ out[i + k].call = v[k]
    <3> DEFINE j == i + k
    <3>1. k \in 1..Len(u) /\ j \in Nat
      BY <1>0, <2>1, <2>3
    <3>2. IsToolAt(ms, j) /\ ms[j].call = u[k]
      BY <2>1, <3>1 DEF Follows
    <3> HIDE DEF j
    <3>3. IsToolAt(out, j)
      BY <2>4, <3>1, <3>2
    <3>4. j \in 1..n /\ ms[j].type = "tool"
      BY <1>0, <3>2 DEF IsToolAt
    <3>5. out[j].call = G[ms[j].call]
      BY <3>4 DEF Renamed, n
    <3> QED
      BY <2>2, <3>1, <3>2, <3>3, <3>5 DEF j
  <2>6. ~ IsToolAt(out, i + Len(v) + 1)
    <3> DEFINE j == i + Len(u) + 1
    <3>1. j \in Nat /\ ~ IsToolAt(ms, j)
      BY <1>0, <2>1, <2>3 DEF Follows
    <3> HIDE DEF j
    <3>2. ~ IsToolAt(out, j)
      BY <2>4, <3>1
    <3> QED
      BY <2>1, <3>2 DEF j
  <2> QED
    BY <2>5, <2>6 DEF Follows, v
<1> QED
  BY <1>0, <1>2, <1>3 DEF Exact

(* A list without calls and results is exact. *)
LEMMA PlainExact ==
  ASSUME NEW ms \in Seq(Msg), \A i \in 1..Len(ms) : ms[i].type # "tool" /\ Calls(ms[i]) = <<>>
  PROVE  Exact(ms)
<1>1. \A j : ~ IsToolAt(ms, j)
  BY DEF IsToolAt
<1>2. \A i \in 1..Len(ms) : Follows(ms, i, <<>>)
  BY <1>1 DEF Follows
<1> QED
  BY <1>2 DEF Exact

(* A list that could be sent to p but for the characters of its ids. *)
Deliverable(ms, p) == /\ ms \in Seq(Fit(p)) /\ Exact(ms)
                      /\ p = Gemini => \A i \in 1..Len(ms) : ms[i].type # "tool" /\ Calls(ms[i]) = <<>>
AllClear(ms) == \A i \in 1..Len(ms) : Clear(ms[i])

(* Lists of messages that are fit are lists of messages. *)
LEMMA SeqsOfMsgs ==
  ASSUME NEW p
  PROVE  Seq(Fit(p)) \subseteq Seq(Msg) /\ Seq(Ready(p)) \subseteq Seq(Msg) /\ Seq(Plain(p)) \subseteq Seq(Fit(p))
         /\ (p \in Models => Seq(Fit(p)) \subseteq Seq(Ready(p)))
<1>1. Fit(p) \subseteq Msg /\ Ready(p) \subseteq Msg /\ Plain(p) \subseteq Fit(p)
  BY DEF Fit, Ready, Plain
<1>2. p \in Models => Fit(p) \subseteq Ready(p)
  BY FitIsReady
<1> QED
  BY <1>1, <1>2

(* No exchange is left for Gemini. *)
LEMMA CollapsedPlain ==
  ASSUME NEW ms \in Seq(Fit(Gemini)), Exact(ms)
  PROVE  Collapsed(ms) \in Seq(Plain(Gemini))
<1> DEFINE n == Len(ms)  ids == Collapsible(ms)
           InBatch(i) == IsToolAt(ms, i) /\ ms[i].call \in ids
           f == [i \in DOMAIN ms |->
              IF InBatch(i) THEN IF InBatch(i - 1) THEN <<>> ELSE <<Human(0)>>
              ELSE IF Calls(ms[i]) # <<>> /\ ToSet(Calls(ms[i])) \subseteq ids
              THEN <<Ai(ms[i].id, ms[i].from, "string", {"text"}, {}, <<>>)>>
              ELSE <<ms[i]>>]
<1>0. ms \in Seq(Msg) /\ n \in Nat /\ DOMAIN ms = 1..n
  BY SeqsOfMsgs
<1>1. Collapsed(ms) = Expand(ms, f)
  BY DEF Collapsed
<1>2. ASSUME NEW i \in 1..n PROVE f[i] \in Seq(Plain(Gemini))
  <2> DEFINE m == ms[i]  a == Ai(ms[i].id, ms[i].from, "string", {"text"}, {}, <<>>)
  <2>1. m \in Fit(Gemini) /\ m \in Msg
    BY <1>0
  <2>2. m.type = "tool" => InBatch(i)
    <3>1. ASSUME m.type = "tool" PROVE m.call \in Declared(ms)
      BY <1>0, <3>1, ExactDeclared
    <3> QED
      BY <1>0, <3>1 DEF IsToolAt, Collapsible
  <2>3. Calls(m) # <<>> => ToSet(Calls(m)) \subseteq ids
    BY <1>0 DEF Collapsible, Declared
  <2>4. Human(0) \in Plain(Gemini)
    <3>1. Human(0) \in HumanMsg /\ Human(0).type = "human"
      BY DEF Human, HumanMsg
    <3> QED
      BY <3>1 DEF Plain, Fit, Msg, Origin, ShapedFor, Calls
  <2>5. ASSUME m.type = "ai" PROVE a \in Plain(Gemini)
    <3>1. m \in AiMsg
      BY <2>1, <2>5, MsgFacts
    <3>2. m.id \in Nat /\ m.from \in Models \cup {"none"}
      BY <3>1 DEF AiMsg
    <3>3. a \in AiMsg
      <4>1. <<>> \in Seq(Call)
        OBVIOUS
      <4> QED
        BY <3>2, <4>1 DEF Ai, AiMsg
    <3>4. a.type = "ai" /\ a.calls = <<>> /\ a.extra = {} /\ a.parts = {"text"}
      BY DEF Ai
    <3> HIDE DEF a
    <3>5. Gemini # "ChatMoonshot"
      BY DEF Gemini
    <3> QED
      BY <3>3, <3>4, <3>5 DEF Plain, Fit, Msg, Origin, ShapedFor, Calls
  <2>6. CASE InBatch(i)
    <3>1. f[i] = <<>> \/ f[i] = <<Human(0)>>
      BY <1>0, <2>6
    <3> HIDE DEF f, InBatch
    <3>2. <<Human(0)>> \in Seq(Plain(Gemini)) /\ <<>> \in Seq(Plain(Gemini))
      BY <2>4
    <3> QED
      BY <3>1, <3>2
  <2>7. CASE ~ InBatch(i) /\ Calls(m) # <<>>
    <3>1. f[i] = <<a>>
      BY <1>0, <2>3, <2>7
    <3>2. m.type = "ai"
      BY <2>7 DEF Calls
    <3>3. a \in Plain(Gemini)
      BY <2>5, <3>2
    <3> HIDE DEF f, InBatch, a
    <3> QED
      BY <3>1, <3>3
  <2>8. CASE ~ InBatch(i) /\ Calls(m) = <<>>
    <3>1. f[i] = <<m>>
      BY <1>0, <2>8
    <3>2. m \in Plain(Gemini)
      BY <2>1, <2>2, <2>8 DEF Plain
    <3> HIDE DEF f, InBatch, m
    <3> QED
      BY <3>1, <3>2
  <2> QED
    BY <2>6, <2>7, <2>8
<1> HIDE DEF f
<1> QED
  BY <1>0, <1>1, <1>2, Expanded

(* The messages of a list, converted. *)
Shaped(ms, p) == [i \in DOMAIN ms |-> Converted(ms[i], p)]

(* Converting the messages keeps a list exact. *)
LEMMA ShapedGood ==
  ASSUME NEW p \in Models, NEW ms \in Seq(Ready(p)), Exact(ms)
  PROVE  /\ Shaped(ms, p) \in Seq(Fit(p)) /\ Exact(Shaped(ms, p))
         /\ AllClear(ms) => AllClear(Shaped(ms, p))
<1> DEFINE n == Len(ms)  s == Shaped(ms, p)  Id == [c \in Call |-> c]
<1>0. ms \in Seq(Msg) /\ n \in Nat /\ DOMAIN ms = 1..n
  BY SeqsOfMsgs
<1>1. ASSUME NEW i \in 1..n
      PROVE  /\ s[i] \in Fit(p) /\ s[i].type = ms[i].type /\ Calls(s[i]) = Calls(ms[i])
             /\ (ms[i].type = "tool" => s[i] = ms[i]) /\ ms[i] \in Ready(p)
  <2> DEFINE m == ms[i]
  <2>1. m \in Ready(p)
    BY <1>0
  <2>2. s[i] = Converted(m, p)
    BY <1>0 DEF Shaped
  <2> HIDE DEF m, s
  <2>3. Converted(m, p) \in Fit(p) /\ Converted(m, p).type = m.type /\ Calls(Converted(m, p)) = Calls(m)
        /\ (m.type # "ai" => Converted(m, p) = m)
    BY <2>1, ConvertedFit
  <2>4. m.type = "tool" => m.type # "ai"
    OBVIOUS
  <2> QED
    BY <2>1, <2>2, <2>3, <2>4 DEF m
<1>2. s \in Seq(Fit(p)) /\ Len(s) = n
  <2>1. s = [i \in 1..n |-> s[i]]
    BY <1>0 DEF Shaped
  <2> HIDE DEF s
  <2>2. s \in [1..n -> Fit(p)]
    BY <1>1, <2>1
  <2> QED
    BY <1>0, <2>2
<1>3. s \in Seq(Msg)
  BY <1>2, SeqsOfMsgs
<1> HIDE DEF s, n
<1>4. Renamed(ms, s, Id)
  <2> SUFFICES ASSUME NEW i \in 1..n
               PROVE  /\ s[i].type = ms[i].type
                      /\ ms[i].type = "tool" => s[i].call = Id[ms[i].call]
                      /\ Len(Calls(s[i])) = Len(Calls(ms[i]))
                      /\ \A k \in 1..Len(Calls(ms[i])) : Calls(s[i])[k] = Id[Calls(ms[i])[k]]
    BY <1>2 DEF Renamed, n
  <2> DEFINE m == ms[i]
  <2>1. m \in Msg
    BY <1>0 DEF n
  <2>2. (m.type = "tool" => m.call \in Call) /\ Calls(m) \in Seq(Call)
    BY <2>1, MsgFacts
  <2>3. \A k \in 1..Len(Calls(m)) : Calls(m)[k] \in Call
    BY <2>2
  <2> QED
    BY <1>1, <2>2, <2>3
<1>5. Exact(s)
  BY <1>0, <1>3, <1>4, RenamedExact
<1>6. AllClear(ms) => AllClear(s)
  BY <1>1, <1>2 DEF AllClear, Clear, n
<1> QED
  BY <1>2, <1>5, <1>6 DEF s

(* An exact list, converted, can be delivered. *)
LEMMA ForProviderGood ==
  ASSUME NEW p \in Models, NEW ms \in Seq(Ready(p)), Exact(ms)
  PROVE  Deliverable(ForProvider(ms, p), p) /\ (AllClear(ms) => AllClear(ForProvider(ms, p)))
<1> DEFINE s == Shaped(ms, p)
<1>1. s \in Seq(Fit(p)) /\ Exact(s) /\ (AllClear(ms) => AllClear(s))
  BY ShapedGood
<1> HIDE DEF s
<1>2. CASE p = Gemini
  <2>1. ForProvider(ms, p) = Collapsed(s)
    BY <1>2 DEF ForProvider, Shaped, s
  <2>2. Collapsed(s) \in Seq(Plain(Gemini))
    BY <1>1, <1>2, CollapsedPlain
  <2> DEFINE o == Collapsed(s)
  <2> HIDE DEF o
  <2>3. o \in Seq(Fit(Gemini)) /\ o \in Seq(Msg)
    BY <2>2, SeqsOfMsgs DEF o
  <2>4. \A i \in 1..Len(o) : o[i].type # "tool" /\ Calls(o[i]) = <<>>
    <3> TAKE i \in 1..Len(o)
    <3>1. o[i] \in Plain(Gemini)
      BY <2>2 DEF o
    <3> QED
      BY <3>1 DEF Plain
  <2>5. Exact(o)
    BY <2>3, <2>4, PlainExact
  <2>6. AllClear(o)
    <3>1. Len(<<>>) = 0 /\ 1..0 = {}
      OBVIOUS
    <3> QED
      BY <2>4, <3>1 DEF AllClear, Clear
  <2> QED
    BY <1>2, <2>1, <2>3, <2>4, <2>5, <2>6 DEF Deliverable, o
<1>3. CASE p # Gemini
  <2>1. ForProvider(ms, p) = s
    BY <1>3 DEF ForProvider, Shaped, s
  <2> QED
    BY <1>1, <1>3, <2>1 DEF Deliverable
<1> QED
  BY <1>2, <1>3

(* So can it when it is sanitized, and its ids are clean. *)
LEMMA SanitizedGood ==
  ASSUME NEW p \in Models, NEW ms, Deliverable(ms, p)
  PROVE  Deliverable(Sanitized(ms), p) /\ AllClear(Sanitized(ms))
<1> DEFINE n == Len(ms)  s == Sanitized(ms)
<1>0. ms \in Seq(Fit(p)) /\ ms \in Seq(Msg) /\ n \in Nat /\ DOMAIN ms = 1..n
  BY SeqsOfMsgs DEF Deliverable
<1>1. s = [i \in 1..n |-> SanitizedMsg(ms[i])]
  BY <1>0 DEF Sanitized, SanitizedMsg
<1> HIDE DEF s
<1>2. ASSUME NEW i \in 1..n
      PROVE  /\ s[i] = SanitizedMsg(ms[i]) /\ s[i] \in Fit(p) /\ s[i].type = ms[i].type /\ Clear(s[i])
             /\ ms[i].type = "tool" => s[i].call = Clean(ms[i].call)
             /\ Len(Calls(s[i])) = Len(Calls(ms[i]))
             /\ \A k \in 1..Len(Calls(ms[i])) : Calls(s[i])[k] = Clean(Calls(ms[i])[k])
  <2> DEFINE m == ms[i]
  <2>1. m \in Fit(p) /\ m \in Msg /\ s[i] = SanitizedMsg(m)
    BY <1>0, <1>1
  <2>2. Origin(m) /\ ShapedFor(p, m)
    BY <2>1 DEF Fit
  <2> HIDE DEF m
  <2>3. SanitizedMsg(m) \in Fit(p)
    BY <2>1, <2>2, SaneFit DEF Fit
  <2> QED
    BY <2>1, <2>3, SaneFit DEF m
<1>3. s \in Seq(Fit(p)) /\ Len(s) = n
  <2>1. s \in [1..n -> Fit(p)]
    BY <1>1, <1>2
  <2> QED
    BY <1>0, <2>1
<1>4. s \in Seq(Msg)
  BY <1>3, SeqsOfMsgs
<1> HIDE DEF n
<1>5. Renamed(ms, s, CleanIds)
  <2> SUFFICES ASSUME NEW i \in 1..n
               PROVE  /\ s[i].type = ms[i].type
                      /\ ms[i].type = "tool" => s[i].call = CleanIds[ms[i].call]
                      /\ Len(Calls(s[i])) = Len(Calls(ms[i]))
                      /\ \A k \in 1..Len(Calls(ms[i])) : Calls(s[i])[k] = CleanIds[Calls(ms[i])[k]]
    BY <1>3 DEF Renamed, n
  <2> DEFINE m == ms[i]
  <2>1. m \in Msg
    BY <1>0 DEF n
  <2>2. (m.type = "tool" => m.call \in Call) /\ Calls(m) \in Seq(Call)
    BY <2>1, MsgFacts
  <2>3. \A k \in 1..Len(Calls(m)) : Calls(m)[k] \in Call
    BY <2>2
  <2>4. \A c \in Call : CleanIds[c] = Clean(c)
    BY DEF CleanIds
  <2> QED
    BY <1>2, <2>2, <2>3, <2>4
<1>6. Exact(s)
  BY <1>0, <1>4, <1>5, RenamedExact DEF Deliverable
<1>7. ASSUME p = Gemini, NEW i \in 1..Len(s) PROVE s[i].type # "tool" /\ Calls(s[i]) = <<>>
  <2>1. i \in 1..n /\ ms[i].type # "tool" /\ Calls(ms[i]) = <<>>
    BY <1>3, <1>7 DEF Deliverable, n
  <2>2. Len(Calls(s[i])) = 0
    <3>1. Len(<<>>) = 0
      OBVIOUS
    <3> QED
      BY <1>2, <2>1, <3>1
  <2>3. Calls(s[i]) \in Seq(Call)
    <3>1. s[i] \in Msg
      BY <1>4
    <3> QED
      BY <3>1, MsgFacts
  <2> QED
    BY <1>2, <2>1, <2>2, <2>3
<1>8. AllClear(s)
  BY <1>2, <1>3 DEF AllClear
<1> QED
  BY <1>3, <1>6, <1>7, <1>8 DEF Deliverable, s

\* ----------------------------------------------------------------- requests

(* Sent(ms, p): what p may be sent. *)
Sent(ms, p) == Deliverable(ms, p) /\ AllClear(ms)

(* What may be sent is paired, and accepted. *)
LEMMA SentSound ==
  ASSUME NEW p \in Models, NEW ms, Sent(ms, p)
  PROVE  WellPaired(ms) /\ \A i \in DOMAIN ms : Accepts(p, ms[i])
<1>0. ms \in Seq(Fit(p)) /\ ms \in Seq(Msg) /\ DOMAIN ms = 1..Len(ms)
  BY SeqsOfMsgs DEF Sent, Deliverable
<1>1. WellPaired(ms)
  BY <1>0, ExactPaired DEF Sent, Deliverable
<1>2. ASSUME NEW i \in 1..Len(ms) PROVE Accepts(p, ms[i])
  <2> DEFINE m == ms[i]
  <2>1. m \in Fit(p) /\ m \in Msg
    BY <1>0
  <2>2. Clear(m) /\ (p = Gemini => m.type # "tool" /\ Calls(m) = <<>>)
    BY DEF Sent, Deliverable, AllClear
  <2> HIDE DEF m
  <2>3. ShapedFor(p, m)
    BY <2>1 DEF Fit
  <2>4. m.type = "ai" => \A k \in DOMAIN m.calls : p # Gemini /\ m.calls[k].clean
    <3>1. ASSUME m.type = "ai", NEW k \in DOMAIN m.calls PROVE p # Gemini /\ m.calls[k].clean
      <4>1. m.calls \in Seq(Call) /\ Calls(m) = m.calls
        BY <2>1, <3>1, MsgFacts DEF Calls
      <4>2. k \in 1..Len(Calls(m))
        BY <3>1, <4>1
      <4>3. Calls(m) # <<>>
        BY <4>2
      <4> QED
        BY <2>2, <4>1, <4>2, <4>3 DEF Clear
    <3> QED
      BY <3>1
  <2> QED
    BY <2>2, <2>3, <2>4 DEF Accepts, ShapedFor, Clear, m
<1> QED
  BY <1>0, <1>1, <1>2

(* What is put into a list has no marks of a provider. *)
LEMMA ReadyKept ==
  ASSUME NEW p \in Models, NEW ms \in Seq(Ready(p))
  PROVE  DanglingPatched(ms) \in Seq(Ready(p)) /\ OrphansPatched(ms) \in Seq(Ready(p))
<1>0. ms \in Seq(Msg) /\ Len(ms) \in Nat /\ DOMAIN ms = 1..Len(ms)
  BY SeqsOfMsgs
<1>1. ToolMsg \subseteq Ready(p)
  BY DEF Ready, ToolMsg, Msg, Origin, Native
<1>2. DanglingPatched(ms) \in Seq(Ready(p))
  <2> DEFINE K == MissingAt(ms)  f == PutIns(ms, K)
  <2>1. \A i \in 1..Len(ms) : f[i] \in Seq(Ready(p))
    <3> TAKE i \in 1..Len(ms)
    <3> DEFINE r == PutIn(ms, K, i)  m == ms[i]  C == Calls(ms[i])
    <3>1. f[i] = <<m>> \o r /\ m \in Ready(p) /\ m \in Msg
      BY <1>0 DEF PutIns
    <3>2. r \in Seq(MadeUp(C))
      BY <1>0, PutInType
    <3>3. C \in Seq(Call)
      BY <3>1, MsgFacts
    <3> HIDE DEF f, r, m, C
    <3>4. MadeUp(C) \subseteq ToolMsg
      BY <3>3, ResultsType
    <3>5. r \in Seq(Ready(p))
      BY <1>1, <3>2, <3>4
    <3>6. <<m>> \o r \in Seq(Ready(p))
      BY <3>1, <3>5
    <3> QED
      BY <3>1, <3>6
  <2>2. DanglingPatched(ms) = Expand(ms, f)
    BY <1>0, DanglingIs DEF Grow
  <2> HIDE DEF f
  <2> QED
    BY <1>0, <2>1, <2>2, Expanded
<1>3. OrphansPatched(ms) \in Seq(Ready(p))
  <2> DEFINE f == Declarings(ms)
  <2>1. \A i \in 1..Len(ms) : f[i] \in Seq(Ready(p))
    <3> TAKE i \in 1..Len(ms)
    <3> DEFINE a == Declarer(ms, i)  m == ms[i]
    <3>1. f[i] = (IF StartsBatch(ms, i) THEN <<a, m>> ELSE <<m>>) /\ m \in Ready(p)
      BY <1>0 DEF Declarings
    <3>2. a \in Msg
      BY <1>0, DeclarerType
    <3>3. a.from = "none" /\ a.parts = {} /\ a.extra = {}
      BY DEF Declarer, Ai
    <3> HIDE DEF f, a, m
    <3>4. a \in Ready(p)
      BY <3>2, <3>3 DEF Ready, Origin, Native
    <3>5. <<a, m>> \in Seq(Ready(p)) /\ <<m>> \in Seq(Ready(p))
      BY <3>1, <3>4
    <3> QED
      BY <3>1, <3>5
  <2>2. OrphansPatched(ms) = Expand(ms, f)
    BY OrphansIs
  <2> HIDE DEF f
  <2> QED
    BY <1>0, <2>1, <2>2, Expanded
<1> QED
  BY <1>2, <1>3

(* A first request. *)
LEMMA WrappedSent ==
  ASSUME NEW p \in Models, NEW ms \in Seq(Ready(p)),
         Grouped(ms), Apart(ms), \A i \in 1..Len(ms) : FewBad(ms[i])
  PROVE  Sent(Wrapped(ms, p), p)
<1> DEFINE d == DanglingPatched(ms)  o == OrphansPatched(d)  f == ForProvider(o, p)
<1>0. ms \in Seq(Msg)
  BY SeqsOfMsgs
<1>1. d \in Seq(Msg) /\ Grouped(d) /\ Complete(d) /\ Apart(d) /\ \A j \in 1..Len(d) : FewBad(d[j])
  BY <1>0, DanglingGroups
<1>2. d \in Seq(Ready(p))
  BY ReadyKept
<1> HIDE DEF d
<1>3. o \in Seq(Ready(p)) /\ Exact(o)
  BY <1>1, <1>2, ReadyKept, OrphansExact
<1> HIDE DEF o
<1>4. Deliverable(f, p)
  BY <1>3, ForProviderGood
<1> HIDE DEF f
<1>5. Sent(Sanitized(f), p)
  BY <1>4, SanitizedGood DEF Sent
<1> QED
  BY <1>5 DEF Wrapped, d, o, f

(* The same request, healed. *)
LEMMA HealedSent ==
  ASSUME NEW p \in Models, NEW ms, Sent(ms, p), NEW corrupted \in BOOLEAN
  PROVE  Sent(Healed(ms, p, corrupted), p)
<1>0. ms \in Seq(Fit(p)) /\ ms \in Seq(Msg) /\ Exact(ms) /\ Deliverable(ms, p)
  BY SeqsOfMsgs DEF Sent, Deliverable
<1> DEFINE i == Injected(OrphansPatched(DanglingPatched(ms)), Unanswered(ms))
           s == Sanitized(i)
           c == IF p = Gemini /\ corrupted THEN Collapsed(s) ELSE s
<1>1. i = ms
  BY <1>0, ExactDangling, ExactOrphans, ExactInjected
<1> HIDE DEF i
<1>2. Deliverable(s, p) /\ AllClear(s)
  BY <1>0, <1>1, SanitizedGood
<1> HIDE DEF s
<1>3. c \in Seq(Fit(p)) /\ Exact(c) /\ AllClear(c)
  <2>1. CASE p = Gemini /\ corrupted
    <3> DEFINE o == Collapsed(s)
    <3>1. o \in Seq(Plain(Gemini))
      BY <1>2, <2>1, CollapsedPlain DEF Deliverable
    <3>2. c = o
      BY <2>1
    <3> HIDE DEF o, c
    <3>3. o \in Seq(Fit(Gemini)) /\ o \in Seq(Msg)
      BY <3>1, SeqsOfMsgs
    <3>4. \A j \in 1..Len(o) : o[j].type # "tool" /\ Calls(o[j]) = <<>>
      <4> TAKE j \in 1..Len(o)
      <4>1. o[j] \in Plain(Gemini)
        BY <3>1
      <4> QED
        BY <4>1 DEF Plain
    <3>5. Exact(o)
      BY <3>3, <3>4, PlainExact
    <3>6. AllClear(o)
      <4>1. Len(<<>>) = 0 /\ 1..0 = {}
        OBVIOUS
      <4> QED
        BY <3>4, <4>1 DEF AllClear, Clear
    <3> QED
      BY <2>1, <3>2, <3>3, <3>5, <3>6
  <2>2. CASE ~ (p = Gemini /\ corrupted)
    BY <1>2, <2>2 DEF Deliverable
  <2> QED
    BY <2>1, <2>2
<1> HIDE DEF c
<1>4. c \in Seq(Ready(p))
  BY <1>3, SeqsOfMsgs
<1>5. Sent(ForProvider(c, p), p)
  BY <1>3, <1>4, ForProviderGood DEF Sent
<1>6. Healed(ms, p, corrupted) = ForProvider(c, p)
  BY DEF Healed, c, s, i
<1> QED
  BY <1>5, <1>6

\* --------------------------------------------------------- removing results

(* Where the messages are that Only leaves. *)
Leavings(ms, K) == [i \in DOMAIN ms |-> IF i \in K THEN <<ms[i]>> ELSE <<>>]
OnlyAt(out, ms, K, p) ==
  /\ p \in [1..(Len(ms) + 1) -> Nat \ {0}] /\ p[1] = 1 /\ Len(out) = p[Len(ms) + 1] - 1
  /\ \A i \in 1..Len(ms) : /\ i \in K => p[i] \in 1..Len(out) /\ out[p[i]] = ms[i] /\ p[i + 1] = p[i] + 1
                           /\ i \notin K => p[i + 1] = p[i]
  /\ \A j \in 1..Len(out) : \E i \in 1..Len(ms) : i \in K /\ j = p[i]

(* Only keeps the messages at the indices, in order. *)
LEMMA OnlyLaid ==
  ASSUME NEW S, NEW ms \in Seq(S), NEW K
  PROVE  /\ Only(ms, K) \in Seq(S)
         /\ \E p : Laid(Only(ms, K), Leavings(ms, K), Len(ms), p) /\ OnlyAt(Only(ms, K), ms, K, p)
<1> DEFINE n == Len(ms)  f == Leavings(ms, K)  out == Only(ms, K)
<1>0. n \in Nat /\ DOMAIN ms = 1..n
  OBVIOUS
<1>1. ASSUME NEW i \in 1..n
      PROVE  /\ f[i] \in Seq(S)
             /\ i \in K => Len(f[i]) = 1 /\ f[i][1] = ms[i]
             /\ i \notin K => Len(f[i]) = 0
  <2> DEFINE m == ms[i]
  <2>1. m \in S /\ f[i] = IF i \in K THEN <<m>> ELSE <<>>
    BY <1>0 DEF Leavings
  <2> HIDE DEF m, f
  <2>2. <<m>> \in Seq(S) /\ <<>> \in Seq(S) /\ Len(<<m>>) = 1 /\ Len(<<>>) = 0 /\ <<m>>[1] = m
    BY <2>1
  <2> QED
    BY <2>1, <2>2 DEF m
<1>2. out = Expand(ms, f)
  BY DEF Only, Leavings
<1> HIDE DEF f, out
<1>3. out \in Seq(S) /\ \E p : Laid(out, f, n, p)
  BY <1>1, <1>2, Expanded
<1>4. PICK p : Laid(out, f, n, p)
  BY <1>3
<1> HIDE DEF n
<1>5. p \in [1..(n + 1) -> Nat \ {0}] /\ p[1] = 1 /\ Len(out) = p[n + 1] - 1
  BY <1>4 DEF Laid
<1>6. ASSUME NEW i \in 1..n PROVE p[i] \in Nat /\ p[i + 1] = p[i] + Len(f[i])
  <2>1. i \in 1..(n + 1)
    BY <1>0
  <2>2. p[i] \in Nat
    BY <1>5, <2>1
  <2> QED
    BY <1>4, <2>2 DEF Laid
<1>7. ASSUME NEW i \in 1..n, i \in K
      PROVE  p[i] \in 1..Len(out) /\ out[p[i]] = ms[i] /\ p[i + 1] = p[i] + 1
  <2>1. Len(f[i]) = 1 /\ f[i][1] = ms[i] /\ 1 \in 1..Len(f[i])
    BY <1>1, <1>7
  <2>2. p[i] + 1 - 1 \in 1..Len(out) /\ out[p[i] + 1 - 1] = f[i][1] /\ p[i] + 1 - 1 = p[i]
    BY <1>4, <1>6, <2>1 DEF Laid
  <2> QED
    BY <1>6, <2>1, <2>2
<1>8. ASSUME NEW i \in 1..n, i \notin K PROVE p[i + 1] = p[i]
  BY <1>1, <1>6, <1>8
<1>9. ASSUME NEW j \in 1..Len(out) PROVE \E i \in 1..n : i \in K /\ j = p[i]
  <2>1. PICK i \in 1..n : \E k \in 1..Len(f[i]) : j = p[i] + k - 1
    BY <1>4 DEF Laid
  <2>2. PICK k \in 1..Len(f[i]) : j = p[i] + k - 1
    BY <2>1
  <2>3. i \in K
    <3>1. ASSUME i \notin K PROVE FALSE
      <4>1. Len(f[i]) = 0
        BY <1>1, <3>1
      <4> QED
        BY <2>2, <4>1
    <3> QED
      BY <3>1
  <2>4. k \in 1..1
    <3>1. Len(f[i]) = 1
      BY <1>1, <2>3
    <3> QED
      BY <3>1
  <2>5. k = 1
    BY <2>4
  <2>6. j = p[i]
    BY <1>6, <2>2, <2>5
  <2> QED
    BY <2>3, <2>6
<1> QED
  BY <1>3, <1>4, <1>5, <1>7, <1>8, <1>9 DEF OnlyAt, n, f, out

(* What is removed from a thread: results that answer nothing. *)
Undeclared(ms, gone) == \A i \in 1..Len(ms) :
  ms[i].id \in gone => ms[i].type = "tool" /\ ms[i].call \notin Declared(ms)

(* What is removed is alone behind a message that declares nothing. *)
LEMMA RemovedLone ==
  ASSUME NEW ms \in Seq(Msg), Grouped(ms), Apart(ms), \A i \in 1..Len(ms) : FewBad(ms[i]),
         NEW gone, Undeclared(ms, gone), NEW i \in 1..Len(ms), ms[i].id \in gone
  PROVE  Lone(ms, i)
<1>0. Len(ms) \in Nat /\ DOMAIN ms = 1..Len(ms)
  OBVIOUS
<1>1. ms[i].type = "tool" /\ ms[i].call \notin Declared(ms)
  BY DEF Undeclared
<1>2. ASSUME Matched(ms, i) PROVE FALSE
  <2>1. PICK h \in 1..Len(ms) : OwnedBy(ms, h, i) /\ Calls(ms[h]) # <<>> /\ Follows(ms, h, Calls(ms[h]))
    BY <1>2 DEF Matched
  <2> DEFINE u == Calls(ms[h])
  <2>2. u = Made(ms[h])
    BY <2>1 DEF Calls, Made
  <2>3. u \in Seq(Call) /\ DOMAIN u = 1..Len(u) /\ Len(u) \in Nat
    <3>1. ms[h] \in Msg
      OBVIOUS
    <3>2. u \in Seq(Call)
      BY <3>1, MsgFacts
    <3> HIDE DEF u
    <3> QED
      BY <3>2
  <2>4. h \in 1..(i - 1) /\ i <= h + Len(u) /\ Follows(ms, h, u)
    BY <2>1, <2>2 DEF OwnedBy
  <2> HIDE DEF u
  <2>5. i - h \in 1..Len(u) /\ h + (i - h) = i
    BY <1>0, <2>3, <2>4
  <2>6. ms[h + (i - h)].call = u[i - h]
    BY <2>4, <2>5 DEF Follows
  <2>7. ms[i].call \in ToSet(u)
    BY <2>3, <2>5, <2>6 DEF ToSet
  <2>8. ms[i].call \in Declared(ms)
    BY <1>0, <2>7 DEF Declared, u
  <2> QED
    BY <1>1, <2>8
<1> QED
  BY <1>1, <1>2, ToolCases

(* Removing it leaves the thread grouped. *)
LEMMA RemainingGroups ==
  ASSUME NEW ms \in Seq(Msg), Grouped(ms), Apart(ms), \A i \in 1..Len(ms) : FewBad(ms[i]),
         NEW gone, Undeclared(ms, gone)
  PROVE  Grouped(Remaining(ms, gone)) /\ Apart(Remaining(ms, gone))
<1> DEFINE n == Len(ms)  K == {i \in DOMAIN ms : ms[i].id \notin gone}  out == Remaining(ms, gone)  f == Leavings(ms, K)
<1>0. n \in Nat /\ DOMAIN ms = 1..n
  OBVIOUS
<1>1. out = Only(ms, K)
  BY DEF Remaining
<1>2. \A i \in 1..n : i \in K <=> ms[i].id \notin gone
  BY <1>0
<1> HIDE DEF out, K, f
<1>3. out \in Seq(Msg) /\ \E p : Laid(out, f, Len(ms), p) /\ OnlyAt(out, ms, K, p)
  BY <1>1, OnlyLaid DEF f
<1>4. PICK p : Laid(out, f, Len(ms), p) /\ OnlyAt(out, ms, K, p)
  BY <1>3
<1>5. DOMAIN out = 1..Len(out) /\ Len(out) \in Nat
  BY <1>3
<1>6. ASSUME NEW i \in 1..n, i \notin K PROVE Lone(ms, i)
  BY <1>2, <1>6, RemovedLone
<1> HIDE DEF n
<1>7. ASSUME NEW i \in 1..n, i \in K
      PROVE  p[i] \in 1..Len(out) /\ out[p[i]] = ms[i] /\ p[i + 1] = p[i] + 1
  BY <1>4, <1>7 DEF OnlyAt, n
<1>8. ASSUME NEW i \in 1..n, ms[i].type # "tool" PROVE i \in K
  BY <1>6, <1>8 DEF Lone, IsOrphan, IsToolAt
(* What is no result stays where it is. *)
<1>9. ASSUME NEW i \in 0..n, ~ IsToolAt(ms, i + 1) PROVE ~ IsToolAt(out, p[i + 1])
  <2> DEFINE x == i + 1
  <2>1. x \in 1..n \/ x = n + 1
    BY <1>0
  <2> HIDE DEF x
  <2>2. CASE x = n + 1
    <3>1. p[x] = Len(out) + 1
      BY <1>0, <1>4, <1>5, <2>2 DEF OnlyAt, n
    <3> QED
      BY <1>5, <3>1 DEF IsToolAt, x
  <2>3. CASE x \in 1..n
    <3>1. ms[x].type # "tool"
      BY <1>0, <1>9, <2>3 DEF IsToolAt, x
    <3>2. out[p[x]] = ms[x]
      BY <1>7, <1>8, <2>3, <3>1
    <3> QED
      BY <3>1, <3>2 DEF IsToolAt, x
  <2> QED
    BY <2>1, <2>2, <2>3
(* A message whose results are there, and are not removed. *)
<1>10. ASSUME NEW i \in 1..n, ms[i].type # "tool", Follows(ms, i, Made(ms[i])), i + 1 \in 1..n => i + 1 \in K
       PROVE  Follows(out, p[i], Made(ms[i])) /\ StepsBy(p, i, Len(Made(ms[i])))
  <2> DEFINE u == Made(ms[i])  m == Len(u)
  <2>1. u \in Seq(Call) /\ m \in Nat
    <3>1. ms[i] \in Msg
      BY <1>0 DEF n
    <3>2. u \in Seq(Call)
      BY <3>1, MsgFacts
    <3> HIDE DEF u
    <3> QED
      BY <3>2
  <2>2. Follows(ms, i, u)
    BY <1>10
  <2> HIDE DEF u
  <2>3. i + m <= n
    BY <2>1, <2>2, BlockIs DEF n
  <2>4. \A k \in 1..m : IsToolAt(ms, i + k) /\ ms[i + k].call = u[k]
    BY <2>2 DEF Follows
  <2>5. ~ IsToolAt(ms, i + m + 1)
    BY <2>2 DEF Follows
  <2> HIDE DEF m
  <2>6. ASSUME NEW j \in i..(i + m) PROVE j \in 1..n /\ j \in K /\ Len(f[j]) = 1
    <3>1. j \in 1..n
      BY <1>0, <2>1, <2>3
    <3>2. j \in K
      <4>1. CASE j = i
        BY <1>8, <1>10, <4>1
      <4>2. CASE j = i + 1
        BY <1>10, <3>1, <4>2
      <4>3. CASE j # i /\ j # i + 1
        <5>1. (j - 1) - i \in 1..m /\ i + ((j - 1) - i) = j - 1
          BY <1>0, <2>1, <4>3
        <5>2. IsToolAt(ms, j - 1)
          BY <2>4, <5>1
        <5> QED
          BY <1>6, <3>1, <5>2 DEF Lone, IsToolAt
      <4> QED
        BY <4>1, <4>2, <4>3
    <3> DEFINE mj == ms[j]
    <3>3. f[j] = <<mj>>
      BY <1>0, <3>1, <3>2 DEF f, Leavings
    <3> HIDE DEF mj
    <3>4. Len(f[j]) = 1
      BY <3>3
    <3> QED
      BY <3>1, <3>2, <3>4
  <2>7. StepsBy(p, i, m + 1)
    <3> DEFINE m1 == m + 1
    <3>1. m1 \in Nat /\ i + m1 <= n + 1 /\ i + m1 - 1 = i + m /\ i \in Nat \ {0}
      BY <1>0, <2>1, <2>3
    <3>2. Ones(f, i, m1)
      BY <2>6, <3>1 DEF Ones
    <3> HIDE DEF m1
    <3>3. StepsBy(p, i, m1)
      BY <1>0, <1>4, <3>1, <3>2, Chain DEF n
    <3> QED
      BY <3>3 DEF m1
  <2>8. StepsBy(p, i, m)
    BY <2>1, <2>7 DEF StepsBy
  <2>9. p[i] \in Nat
    BY <1>7, <1>8, <1>10
  <2>10. ASSUME NEW k \in 1..m PROVE IsToolAt(out, p[i] + k) /\ out[p[i] + k].call = u[k]
    <3> DEFINE x == i + k
    <3>1. x \in i..(i + m) /\ p[x] = p[i] + k
      BY <1>0, <2>1, <2>8 DEF StepsBy
    <3>2. IsToolAt(ms, x) /\ ms[x].call = u[k]
      BY <2>4
    <3> HIDE DEF x
    <3>3. p[x] \in 1..Len(out) /\ out[p[x]] = ms[x]
      BY <1>7, <2>6, <3>1
    <3>4. IsToolAt(out, p[x]) /\ out[p[x]].call = u[k]
      BY <1>5, <3>2, <3>3 DEF IsToolAt
    <3> QED
      BY <3>1, <3>4
  <2>11. ~ IsToolAt(out, p[i] + m + 1)
    <3> DEFINE x == i + m  y == x + 1  z == i + (m + 1)
    <3>1. x \in 0..n /\ y = z /\ y = i + m + 1
      BY <1>0, <2>1, <2>3
    <3>2. m + 1 \in 0..(m + 1) /\ p[i] + (m + 1) = p[i] + m + 1
      <4> DEFINE q == p[i]
      <4>1. q \in Nat /\ m \in Nat
        BY <2>1, <2>9
      <4> HIDE DEF q
      <4>2. m + 1 \in 0..(m + 1)
        BY <4>1
      <4>3. q + (m + 1) = q + m + 1
        BY <4>1
      <4> QED
        BY <4>2, <4>3 DEF q
    <3>3. p[z] = p[i] + (m + 1)
      BY <2>7, <3>2 DEF StepsBy
    <3>4. ~ IsToolAt(ms, y)
      BY <2>5, <3>1
    <3> HIDE DEF x, z
    <3>5. ~ IsToolAt(out, p[x + 1])
      BY <1>9, <3>1, <3>4
    <3> HIDE DEF y
    <3>6. p[y] = p[i] + m + 1
      BY <3>1, <3>2, <3>3
    <3> QED
      BY <3>5, <3>6 DEF y
  <2> QED
    BY <2>8, <2>10, <2>11 DEF Follows, m, u
<1>11. ASSUME NEW i \in 1..n, ms[i].type # "tool"
       PROVE  ~ IsToolAt(out, p[i] + 1) \/ Follows(out, p[i], Made(ms[i]))
  <2>1. p[i + 1] = p[i] + 1
    BY <1>7, <1>8, <1>11
  <2>2. CASE ~ IsToolAt(ms, i + 1)
    <3>1. i \in 0..n
      BY <1>0
    <3> QED
      BY <1>9, <2>1, <2>2, <3>1
  <2>3. CASE IsToolAt(ms, i + 1) /\ i + 1 \in K
    <3>1. Follows(ms, i, Made(ms[i]))
      BY <1>11, <2>3 DEF Grouped, n
    <3> QED
      BY <1>10, <1>11, <2>3, <3>1
  <2>4. CASE IsToolAt(ms, i + 1) /\ i + 1 \notin K
    <3> DEFINE x == i + 1
    <3>1. x \in 1..n /\ x \in 0..n
      BY <1>0, <2>4 DEF IsToolAt
    <3>2. x \notin K /\ p[x] = p[i] + 1
      BY <2>1, <2>4
    <3> HIDE DEF x
    <3>3. ~ IsToolAt(ms, x + 1)
      BY <1>6, <3>1, <3>2 DEF Lone
    <3>4. ~ IsToolAt(out, p[x + 1])
      BY <1>9, <3>1, <3>3
    <3>5. p[x + 1] = p[x]
      BY <1>4, <3>1, <3>2 DEF OnlyAt, n
    <3> QED
      BY <3>2, <3>4, <3>5
  <2> QED
    BY <2>2, <2>3, <2>4
<1>12. ASSUME NEW i \in 1..n, ms[i].type = "tool", i \in K
       PROVE  \E h \in 1..Len(out) : OwnedBy(out, h, p[i]) /\ Follows(out, h, Made(out[h]))
  <2>1. PICK h \in 1..n : OwnedBy(ms, h, i) /\ Follows(ms, h, Made(ms[h]))
    BY <1>12 DEF Grouped, n
  <2> DEFINE u == Made(ms[h])
  <2>2. Len(u) \in Nat
    <3>1. ms[h] \in Msg
      BY <1>0 DEF n
    <3>2. u \in Seq(Call)
      BY <3>1, MsgFacts
    <3> HIDE DEF u
    <3> QED
      BY <3>2
  <2>3. h \in 1..(i - 1) /\ ms[h].type # "tool" /\ i <= h + Len(u)
    BY <2>1 DEF OwnedBy
  <2> HIDE DEF u
  <2>4. ASSUME h + 1 \in 1..n, h + 1 \notin K PROVE FALSE
    <3>1. ~ IsToolAt(ms, h + 1 + 1)
      BY <1>6, <2>4 DEF Lone
    <3>2. i # h + 1
      BY <1>12, <2>4
    <3>3. 2 \in 1..Len(u) /\ h + 2 = h + 1 + 1
      BY <1>0, <2>2, <2>3, <3>2
    <3>4. IsToolAt(ms, h + 2)
      BY <2>1, <3>3 DEF Follows, u
    <3> QED
      BY <3>1, <3>3, <3>4
  <2>5. Follows(out, p[h], u) /\ StepsBy(p, h, Len(u))
    BY <1>10, <2>1, <2>3, <2>4 DEF u
  <2>6. out[p[h]] = ms[h] /\ p[h] \in 1..Len(out) /\ p[i] \in 1..Len(out)
    BY <1>7, <1>8, <1>12, <2>3
  <2> DEFINE d == i - h
  <2>7. d \in 0..Len(u) /\ h + d = i /\ d > 0
    BY <1>0, <2>2, <2>3
  <2> HIDE DEF d
  <2>8. p[i] = p[h] + d
    BY <2>5, <2>7 DEF StepsBy
  <2> DEFINE x == p[h]  y == p[i]
  <2>9. x \in 1..Len(out) /\ y \in 1..Len(out) /\ y = x + d /\ out[x].type # "tool" /\ Made(out[x]) = u
        /\ Follows(out, x, Made(out[x]))
    BY <2>3, <2>5, <2>6, <2>8 DEF u
  <2> HIDE DEF x, y
  <2>10. x \in 1..(y - 1) /\ y <= x + Len(u)
    BY <1>5, <2>2, <2>7, <2>9
  <2>11. OwnedBy(out, x, y)
    BY <2>9, <2>10 DEF OwnedBy
  <2> QED
    BY <2>9, <2>11 DEF y
<1>13. Grouped(out)
  <2> SUFFICES ASSUME NEW j \in 1..Len(out)
               PROVE  /\ out[j].type = "tool" => \E h \in 1..Len(out) : OwnedBy(out, h, j) /\ Follows(out, h, Made(out[h]))
                      /\ out[j].type # "tool" => ~ IsToolAt(out, j + 1) \/ Follows(out, j, Made(out[j]))
    BY DEF Grouped
  <2>1. PICK i \in 1..n : i \in K /\ j = p[i]
    BY <1>4 DEF OnlyAt, n
  <2>2. out[j] = ms[i]
    BY <1>7, <2>1
  <2>3. CASE ms[i].type = "tool"
    BY <1>12, <2>1, <2>2, <2>3
  <2>4. CASE ms[i].type # "tool"
    BY <1>11, <2>1, <2>2, <2>4
  <2> QED
    BY <2>3, <2>4
<1>14. Apart(out)
  <2> SUFFICES ASSUME NEW j \in 1..Len(out), NEW l \in 1..Len(out), j # l
               PROVE  ToSet(Made(out[j])) \cap ToSet(Made(out[l])) = {}
    BY DEF Apart
  <2>1. PICK i \in 1..n : i \in K /\ j = p[i]
    BY <1>4 DEF OnlyAt, n
  <2>2. PICK i2 \in 1..n : i2 \in K /\ l = p[i2]
    BY <1>4 DEF OnlyAt, n
  <2>3. out[j] = ms[i] /\ out[l] = ms[i2] /\ i # i2
    BY <1>7, <2>1, <2>2
  <2> QED
    BY <2>3 DEF Apart, n
<1> QED
  BY <1>13, <1>14 DEF out

\* --------------------------------------------------------- a thread goes on

(* ms is what out begins with. *)
Begins(ms, out) == Len(ms) <= Len(out) /\ \A i \in 1..Len(ms) : out[i] = ms[i]

(* Results stay where they are when a thread goes on. *)
LEMMA ToolsKept ==
  ASSUME NEW ms \in Seq(Msg), NEW out \in Seq(Msg), Begins(ms, out), NEW i \in Nat, i <= Len(ms)
  PROVE  IsToolAt(out, i) <=> IsToolAt(ms, i)
<1>1. Len(ms) \in Nat /\ DOMAIN ms = 1..Len(ms) /\ Len(out) \in Nat /\ DOMAIN out = 1..Len(out)
  OBVIOUS
<1>2. CASE i = 0
  BY <1>1, <1>2 DEF IsToolAt
<1>3. CASE i # 0
  <2>1. i \in 1..Len(ms) /\ i \in 1..Len(out) /\ out[i] = ms[i]
    BY <1>1, <1>3 DEF Begins
  <2> QED
    BY <1>1, <2>1 DEF IsToolAt
<1> QED
  BY <1>2, <1>3

(* So do the results of a message. *)
LEMMA FollowsKept ==
  ASSUME NEW ms \in Seq(Msg), NEW out \in Seq(Msg), Begins(ms, out),
         NEW h \in 1..Len(ms), NEW u \in Seq(Call), Follows(ms, h, u), ~ IsToolAt(out, h + Len(u) + 1)
  PROVE  Follows(out, h, u)
<1>1. h + Len(u) <= Len(ms) /\ Len(u) \in Nat /\ Len(ms) \in Nat
  BY BlockIs
<1>2. ASSUME NEW k \in 1..Len(u) PROVE IsToolAt(out, h + k) /\ out[h + k].call = u[k]
  <2> DEFINE x == h + k
  <2>1. x \in 1..Len(ms) /\ x \in Nat /\ x <= Len(ms)
    BY <1>1
  <2>2. IsToolAt(ms, x) /\ ms[x].call = u[k]
    BY DEF Follows
  <2> HIDE DEF x
  <2>3. out[x] = ms[x] /\ IsToolAt(out, x)
    BY <2>1, <2>2, ToolsKept DEF Begins
  <2> QED
    BY <2>2, <2>3 DEF x
<1> QED
  BY <1>2 DEF Follows

(* A thread goes on with a message that is no result. *)
LEMMA GroupedAppend ==
  ASSUME NEW ms \in Seq(Msg), Grouped(ms), NEW m \in Msg, m.type # "tool"
  PROVE  Grouped(Append(ms, m)) /\ Begins(ms, Append(ms, m)) /\ Append(ms, m) \in Seq(Msg)
<1> DEFINE out == Append(ms, m)  n == Len(ms)
<1>1. out \in Seq(Msg) /\ n \in Nat /\ Len(out) = n + 1 /\ out[n + 1] = m /\ \A i \in 1..n : out[i] = ms[i]
  OBVIOUS
<1>2. DOMAIN ms = 1..n /\ DOMAIN out = 1..(n + 1)
  BY <1>1
<1> HIDE DEF out, n
<1>3. Begins(ms, out)
  BY <1>1 DEF Begins, n
<1>4. ASSUME NEW i \in 1..(n + 2), i <= n => ~ IsToolAt(ms, i) PROVE ~ IsToolAt(out, i)
  <2>1. CASE i <= n
    <3>1. i \in Nat /\ i <= Len(ms)
      BY <1>1, <2>1 DEF n
    <3> QED
      BY <1>1, <1>3, <1>4, <2>1, <3>1, ToolsKept
  <2>2. CASE i = n + 1
    BY <1>1, <2>2 DEF IsToolAt
  <2>3. CASE i = n + 2
    BY <1>1, <1>2, <2>3 DEF IsToolAt
  <2> QED
    BY <1>1, <2>1, <2>2, <2>3
<1>5. ASSUME NEW h \in 1..n, Follows(ms, h, Made(ms[h])) PROVE Follows(out, h, Made(ms[h]))
  <2> DEFINE u == Made(ms[h])
  <2>1. u \in Seq(Call)
    <3>1. ms[h] \in Msg
      BY <1>1 DEF n
    <3> QED
      BY <3>1, MsgFacts
  <2>2. Follows(ms, h, u)
    BY <1>5
  <2> HIDE DEF u
  <2>3. h + Len(u) <= n /\ Len(u) \in Nat
    BY <2>1, <2>2, BlockIs DEF n
  <2>4. ~ IsToolAt(ms, h + Len(u) + 1)
    BY <2>2 DEF Follows
  <2> DEFINE x == h + Len(u) + 1
  <2>5. x \in 1..(n + 2)
    BY <1>1, <2>3
  <2>6. ~ IsToolAt(out, x)
    BY <1>4, <2>4, <2>5
  <2> HIDE DEF x
  <2>7. Follows(out, h, u)
    BY <1>1, <1>3, <2>1, <2>2, <2>6, FollowsKept DEF n, x
  <2> QED
    BY <2>7 DEF u
<1>6. ASSUME NEW i \in 1..n
      PROVE  /\ out[i].type = "tool" => \E h \in 1..Len(out) : OwnedBy(out, h, i) /\ Follows(out, h, Made(out[h]))
             /\ out[i].type # "tool" => ~ IsToolAt(out, i + 1) \/ Follows(out, i, Made(out[i]))
  <2>0. out[i] = ms[i]
    BY <1>1
  <2>1. CASE ms[i].type = "tool"
    <3>1. PICK h \in 1..n : OwnedBy(ms, h, i) /\ Follows(ms, h, Made(ms[h]))
      BY <2>1 DEF Grouped, n
    <3>2. out[h] = ms[h] /\ h \in 1..Len(out)
      BY <1>1
    <3>3. OwnedBy(out, h, i)
      BY <3>1, <3>2 DEF OwnedBy
    <3> QED
      BY <1>5, <2>0, <2>1, <3>1, <3>2, <3>3
  <2>2. CASE ms[i].type # "tool"
    <3>1. ~ IsToolAt(ms, i + 1) \/ Follows(ms, i, Made(ms[i]))
      BY <2>2 DEF Grouped, n
    <3>2. i + 1 \in 1..(n + 2)
      BY <1>1
    <3> QED
      BY <1>4, <1>5, <2>0, <2>2, <3>1, <3>2
  <2> QED
    BY <2>1, <2>2
<1>7. ~ IsToolAt(out, n + 1 + 1)
  <2>1. n + 1 + 1 = n + 2 /\ n + 2 \in 1..(n + 2) /\ ~ n + 2 <= n
    BY <1>1
  <2>2. ~ IsToolAt(out, n + 2)
    BY <1>4, <2>1
  <2> QED
    BY <2>1, <2>2
<1>8. Grouped(out)
  <2> SUFFICES ASSUME NEW i \in 1..Len(out)
               PROVE  /\ out[i].type = "tool" => \E h \in 1..Len(out) : OwnedBy(out, h, i) /\ Follows(out, h, Made(out[h]))
                      /\ out[i].type # "tool" => ~ IsToolAt(out, i + 1) \/ Follows(out, i, Made(out[i]))
    BY DEF Grouped
  <2>1. i \in 1..n \/ i = n + 1
    BY <1>1
  <2>2. CASE i \in 1..n
    BY <1>6, <2>2
  <2>3. CASE i = n + 1
    BY <1>1, <1>7, <2>3
  <2> QED
    BY <2>1, <2>2, <2>3
<1> QED
  BY <1>1, <1>3, <1>8 DEF out

(* The results of the last message are put behind it. *)
LEMMA GroupedUsed ==
  ASSUME NEW ms \in Seq(Msg), Grouped(ms), NEW out \in Seq(Msg), Begins(ms, out),
         NEW u \in Seq(Call), Len(out) = Len(ms) + Len(u), Len(ms) # 0,
         ms[Len(ms)].type # "tool", Made(ms[Len(ms)]) = u,
         \A k \in 1..Len(u) : out[Len(ms) + k].type = "tool" /\ out[Len(ms) + k].call = u[k]
  PROVE  Grouped(out)
<1> DEFINE n == Len(ms)  m == Len(u)
<1>1. n \in Nat /\ n > 0 /\ DOMAIN ms = 1..n /\ m \in Nat
  OBVIOUS
<1>2. Len(out) = n + m /\ DOMAIN out = 1..(n + m) /\ \A i \in 1..n : out[i] = ms[i]
  BY DEF Begins
<1>3. ASSUME NEW k \in 1..m PROVE IsToolAt(out, n + k) /\ out[n + k].call = u[k]
  BY <1>1, <1>2 DEF IsToolAt
<1>4. ~ IsToolAt(ms, n) /\ Made(ms[n]) = u /\ ms[n].type # "tool" /\ n = Len(ms)
  BY DEF IsToolAt
<1> HIDE DEF n, m
<1>5. Follows(out, n, u)
  <2>1. n + m + 1 \notin DOMAIN out
    BY <1>1, <1>2
  <2>2. ~ IsToolAt(out, n + Len(u) + 1)
    BY <2>1 DEF IsToolAt, m
  <2> QED
    BY <1>3, <2>2 DEF Follows, m
<1>6. ASSUME NEW h \in 1..n, h # n, Follows(ms, h, Made(ms[h])) PROVE Follows(out, h, Made(ms[h]))
  <2> DEFINE w == Made(ms[h])
  <2>1. w \in Seq(Call)
    <3>1. ms[h] \in Msg
      BY <1>1 DEF n
    <3> QED
      BY <3>1, MsgFacts
  <2>2. Follows(ms, h, w)
    BY <1>6
  <2> HIDE DEF w
  <2>3. h + Len(w) <= n /\ Len(w) \in Nat
    BY <2>1, <2>2, BlockIs DEF n
  <2>4. h + Len(w) # n
    <3>1. ASSUME h + Len(w) = n PROVE FALSE
      <4>1. Len(w) \in 1..Len(w)
        BY <1>1, <1>6, <2>3, <3>1
      <4>2. IsToolAt(ms, h + Len(w))
        BY <2>2, <4>1 DEF Follows
      <4> QED
        BY <1>4, <3>1, <4>2
    <3> QED
      BY <3>1
  <2>5. ~ IsToolAt(ms, h + Len(w) + 1)
    BY <2>2 DEF Follows
  <2> DEFINE x == h + Len(w) + 1
  <2>6. x \in Nat /\ x <= Len(ms)
    <3> DEFINE l == Len(w)
    <3>1. l \in Nat /\ h + l <= n /\ h + l # n
      BY <2>3, <2>4
    <3> HIDE DEF l
    <3>2. h + l + 1 \in Nat /\ h + l + 1 <= n
      BY <1>1, <3>1
    <3> QED
      BY <1>4, <3>2 DEF l
  <2>7. ~ IsToolAt(ms, x)
    BY <2>5
  <2> HIDE DEF x
  <2>8. ~ IsToolAt(out, x)
    BY <2>6, <2>7, ToolsKept
  <2>9. Follows(out, h, w)
    BY <1>1, <2>1, <2>2, <2>8, FollowsKept DEF n, x
  <2> QED
    BY <2>9 DEF w
<1>7. ASSUME NEW h \in 1..n, Follows(ms, h, Made(ms[h])) PROVE Follows(out, h, Made(ms[h]))
  BY <1>4, <1>5, <1>6, <1>7
<1>8. ASSUME NEW i \in 1..n
      PROVE  /\ out[i].type = "tool" => \E h \in 1..Len(out) : OwnedBy(out, h, i) /\ Follows(out, h, Made(out[h]))
             /\ out[i].type # "tool" => ~ IsToolAt(out, i + 1) \/ Follows(out, i, Made(out[i]))
  <2>0. out[i] = ms[i]
    BY <1>2
  <2>1. CASE ms[i].type = "tool"
    <3>1. PICK h \in 1..n : OwnedBy(ms, h, i) /\ Follows(ms, h, Made(ms[h]))
      BY <2>1 DEF Grouped, n
    <3>2. out[h] = ms[h] /\ h \in 1..Len(out)
      BY <1>1, <1>2
    <3>3. OwnedBy(out, h, i)
      BY <3>1, <3>2 DEF OwnedBy
    <3> QED
      BY <1>7, <2>0, <2>1, <3>1, <3>2, <3>3
  <2>2. CASE i = n
    BY <1>4, <1>5, <2>0, <2>2
  <2>3. CASE ms[i].type # "tool" /\ i # n
    <3>1. ~ IsToolAt(ms, i + 1) \/ Follows(ms, i, Made(ms[i]))
      BY <2>3 DEF Grouped, n
    <3>2. i + 1 \in Nat /\ i + 1 <= Len(ms)
      <4>1. i + 1 \in Nat /\ i + 1 <= n
        BY <1>1, <2>3
      <4> QED
        BY <1>4, <4>1
    <3> QED
      BY <1>7, <2>0, <2>3, <3>1, <3>2, ToolsKept
  <2> QED
    BY <1>4, <2>1, <2>2, <2>3
<1>9. ASSUME NEW k \in 1..m PROVE \E h \in 1..Len(out) : OwnedBy(out, h, n + k) /\ Follows(out, h, Made(out[h]))
  <2>1. n \in 1..(n + k - 1) /\ n + k <= n + m /\ n \in 1..Len(out) /\ n \in 1..n
    BY <1>1, <1>2
  <2>2. out[n] = ms[n]
    BY <1>2, <2>1
  <2>3. OwnedBy(out, n, n + k)
    <3>1. out[n].type # "tool"
      BY <2>2 DEF n
    <3>2. n + k <= n + Len(Made(out[n]))
      BY <1>4, <2>1, <2>2 DEF m
    <3> QED
      BY <2>1, <3>1, <3>2 DEF OwnedBy
  <2> QED
    BY <1>4, <1>5, <2>1, <2>2, <2>3
<1>10. Grouped(out)
  <2> SUFFICES ASSUME NEW i \in 1..Len(out)
               PROVE  /\ out[i].type = "tool" => \E h \in 1..Len(out) : OwnedBy(out, h, i) /\ Follows(out, h, Made(out[h]))
                      /\ out[i].type # "tool" => ~ IsToolAt(out, i + 1) \/ Follows(out, i, Made(out[i]))
    BY DEF Grouped
  <2>1. CASE i \in 1..n
    BY <1>8, <2>1
  <2>2. CASE i \notin 1..n
    <3> DEFINE k == i - n
    <3>1. k \in 1..m /\ n + k = i
      BY <1>1, <1>2, <2>2
    <3> HIDE DEF k
    <3>2. IsToolAt(out, i)
      BY <1>3, <3>1
    <3> QED
      BY <1>9, <3>1, <3>2 DEF IsToolAt
  <2> QED
    BY <2>1, <2>2
<1> QED
  BY <1>10

\* --------------------------------------------------- what holds of a thread

(* Whatever provider it goes to next, m can be converted for it. *)
Born == {m \in Msg : Origin(m) /\ (\A p \in Models : Native(m, p)) /\ FewBad(m)}

(* The calls of m are among the first n. *)
Numbered(m, n) == /\ m.type = "tool" => m.call.no <= n
                  /\ \A c \in ToSet(Made(m)) : c.no <= n
Numbers(ms, n) == \A i \in 1..Len(ms) : Numbered(ms[i], n)

(* What a run returned is still there, but for results no message declared. *)
Within(ms, ret, n) == \A k \in 1..Len(ret) :
  \/ \E i \in 1..Len(ms) : ret[k] = ms[i]
  \/ ret[k].type = "tool" /\ ret[k].call \notin Declared(ms) /\ ret[k].call.no <= n

(* What the inductive invariant says of a thread whose input was not changed. *)
ThreadOK(ms, ret, gone, n) ==
  /\ ms \in Seq(Born) /\ Grouped(ms) /\ Apart(ms)
  /\ Numbers(ms, n) /\ Undeclared(ms, gone) /\ Within(ms, ret, n)

(* What a thread holds can be converted for every provider. *)
LEMMA BornFacts ==
  ASSUME NEW ms \in Seq(Born)
  PROVE  /\ ms \in Seq(Msg) /\ \A i \in 1..Len(ms) : FewBad(ms[i])
         /\ \A p \in Models : ms \in Seq(Ready(p))
<1>1. Len(ms) \in Nat /\ ms \in [1..Len(ms) -> Born]
  OBVIOUS
<1>2. \A i \in 1..Len(ms) : ms[i] \in Msg /\ FewBad(ms[i]) /\ \A p \in Models : ms[i] \in Ready(p)
  BY <1>1 DEF Born, Ready
<1>3. ms \in Seq(Msg)
  BY <1>1, <1>2, SeqDef
<1>4. ASSUME NEW p \in Models PROVE ms \in Seq(Ready(p))
  BY <1>1, <1>2, SeqDef
<1> QED
  BY <1>2, <1>3, <1>4

(* A declared call is among those some message has made. *)
LEMMA DeclaredBy ==
  ASSUME NEW ms \in Seq(Msg), NEW c
  PROVE  /\ c \in Declared(ms) <=> \E i \in 1..Len(ms) : c \in ToSet(Calls(ms[i]))
         /\ c \in Declared(ms) => \E i \in 1..Len(ms) : c \in ToSet(Made(ms[i]))
<1>1. DOMAIN ms = 1..Len(ms)
  OBVIOUS
<1>2. c \in Declared(ms) <=> \E i \in 1..Len(ms) : c \in ToSet(Calls(ms[i]))
  BY <1>1 DEF Declared
<1>3. ASSUME NEW i \in 1..Len(ms), c \in ToSet(Calls(ms[i])) PROVE c \in ToSet(Made(ms[i]))
  <2>1. Calls(ms[i]) # <<>>
    BY <1>3 DEF ToSet
  <2>2. Calls(ms[i]) = Made(ms[i])
    BY <2>1 DEF Calls, Made
  <2> QED
    BY <1>3, <2>2
<1> QED
  BY <1>2, <1>3

(* A message that makes no call declares none. *)
LEMMA MadeNothing ==
  ASSUME NEW m \in Msg, Made(m) = <<>>
  PROVE  Calls(m) = <<>> /\ ToSet(Calls(m)) = {} /\ ToSet(Made(m)) = {}
<1>1. Calls(m) = <<>>
  BY DEF Calls, Made
<1>2. ToSet(<<>>) = {}
  BY DEF ToSet
<1> QED
  BY <1>1, <1>2

(* The thread gets messages that make no call. *)
LEMMA ThreadMore ==
  ASSUME NEW ms, NEW ret, NEW gone, NEW n \in Nat, ThreadOK(ms, ret, gone, n),
         NEW out \in Seq(Born), Begins(ms, out), Grouped(out),
         \A i \in (Len(ms) + 1)..Len(out) : /\ Made(out[i]) = <<>> /\ Numbered(out[i], n)
                                            /\ out[i].id \notin gone
  PROVE  ThreadOK(out, ret, gone, n)
<1>0. ms \in Seq(Msg) /\ out \in Seq(Msg) /\ Len(ms) \in Nat /\ Len(out) \in Nat /\ Len(ms) <= Len(out)
  BY BornFacts DEF ThreadOK, Begins
<1>1. \A i \in 1..Len(ms) : i \in 1..Len(out) /\ out[i] = ms[i]
  BY <1>0 DEF Begins
<1>2. ASSUME NEW i \in 1..Len(out), i \notin 1..Len(ms)
      PROVE  /\ ToSet(Made(out[i])) = {} /\ ToSet(Calls(out[i])) = {} /\ Numbered(out[i], n) /\ out[i].id \notin gone
  <2>1. i \in (Len(ms) + 1)..Len(out)
    BY <1>0, <1>2
  <2>2. out[i] \in Msg /\ Made(out[i]) = <<>>
    BY <1>0, <2>1
  <2> QED
    BY <2>1, <2>2, MadeNothing
<1>3. Apart(out)
  <2> SUFFICES ASSUME NEW i \in 1..Len(out), NEW j \in 1..Len(out), i # j
               PROVE  ToSet(Made(out[i])) \cap ToSet(Made(out[j])) = {}
    BY DEF Apart
  <2>1. CASE i \in 1..Len(ms) /\ j \in 1..Len(ms)
    <3>1. Apart(ms)
      BY DEF ThreadOK
    <3>2. ToSet(Made(ms[i])) \cap ToSet(Made(ms[j])) = {}
      BY <2>1, <3>1 DEF Apart
    <3> QED
      BY <1>1, <2>1, <3>2
  <2> QED
    BY <1>2, <2>1
<1>4. Numbers(out, n)
  <2> SUFFICES ASSUME NEW i \in 1..Len(out) PROVE Numbered(out[i], n)
    BY DEF Numbers
  <2>1. CASE i \in 1..Len(ms)
    BY <1>1, <2>1 DEF ThreadOK, Numbers
  <2> QED
    BY <1>2, <2>1
<1>5. Declared(out) = Declared(ms)
  <2>1. ASSUME NEW c PROVE c \in Declared(out) <=> c \in Declared(ms)
    <3>1. c \in Declared(out) <=> \E i \in 1..Len(out) : c \in ToSet(Calls(out[i]))
      BY <1>0, DeclaredBy
    <3>2. c \in Declared(ms) <=> \E i \in 1..Len(ms) : c \in ToSet(Calls(ms[i]))
      BY <1>0, DeclaredBy
    <3>3. ASSUME NEW i \in 1..Len(out), c \in ToSet(Calls(out[i]))
          PROVE  \E j \in 1..Len(ms) : c \in ToSet(Calls(ms[j]))
      BY <1>1, <1>2, <3>3
    <3>4. ASSUME NEW i \in 1..Len(ms), c \in ToSet(Calls(ms[i]))
          PROVE  \E j \in 1..Len(out) : c \in ToSet(Calls(out[j]))
      BY <1>1, <3>4
    <3> QED
      BY <3>1, <3>2, <3>3, <3>4
  <2> QED
    BY <2>1
<1>6. Undeclared(out, gone)
  <2> SUFFICES ASSUME NEW i \in 1..Len(out), out[i].id \in gone
               PROVE  out[i].type = "tool" /\ out[i].call \notin Declared(out)
    BY DEF Undeclared
  <2>1. i \in 1..Len(ms)
    BY <1>2
  <2>2. out[i] = ms[i]
    BY <1>1, <2>1
  <2>3. Undeclared(ms, gone)
    BY DEF ThreadOK
  <2>4. ms[i].type = "tool" /\ ms[i].call \notin Declared(ms)
    BY <2>1, <2>2, <2>3 DEF Undeclared
  <2> QED
    BY <1>5, <2>2, <2>4
<1>7. Within(out, ret, n)
  <2> SUFFICES ASSUME NEW k \in 1..Len(ret)
               PROVE  \/ \E i \in 1..Len(out) : ret[k] = out[i]
                      \/ ret[k].type = "tool" /\ ret[k].call \notin Declared(out) /\ ret[k].call.no <= n
    BY DEF Within
  <2>1. \/ \E i \in 1..Len(ms) : ret[k] = ms[i]
        \/ ret[k].type = "tool" /\ ret[k].call \notin Declared(ms) /\ ret[k].call.no <= n
    BY DEF ThreadOK, Within
  <2> QED
    BY <1>1, <1>5, <2>1
<1> QED
  BY <1>3, <1>4, <1>6, <1>7 DEF ThreadOK

(* Calls among the first n are among the first n2. *)
LEMMA NumberedMore ==
  ASSUME NEW m \in Msg, NEW n \in Nat, NEW n2 \in Nat, n <= n2, Numbered(m, n)
  PROVE  Numbered(m, n2)
<1>1. ASSUME m.type = "tool" PROVE m.call.no <= n2
  <2>1. m.call \in Call
    BY <1>1, MsgFacts
  <2>2. m.call.no \in Nat /\ m.call.no <= n
    BY <1>1, <2>1 DEF Call, Numbered
  <2> QED
    BY <2>2
<1>2. ASSUME NEW c \in ToSet(Made(m)) PROVE c.no <= n2
  <2> DEFINE u == Made(m)
  <2>1. u \in Seq(Call)
    BY MsgFacts
  <2> HIDE DEF u
  <2>2. \A k \in DOMAIN u : u[k] \in Call
    BY <2>1
  <2>3. c \in Call
    BY <1>2, <2>2 DEF u, ToSet
  <2>4. c.no \in Nat /\ c.no <= n
    BY <2>3 DEF Call, Numbered
  <2> QED
    BY <2>4
<1> QED
  BY <1>1, <1>2 DEF Numbered

(* Fewer messages of the thread are to be removed, or the same. *)
LEMMA ThreadGone ==
  ASSUME NEW ms, NEW ret, NEW gone, NEW n, ThreadOK(ms, ret, gone, n), NEW gone2,
         \A i \in 1..Len(ms) : ms[i].id \in gone2 => ms[i].id \in gone
  PROVE  ThreadOK(ms, ret, gone2, n)
  BY DEF ThreadOK, Undeclared

(* The results that answer nothing are to be removed as well. *)
Spread(ms) == \A i, j \in 1..Len(ms) : ms[i].id = ms[j].id => i = j

(* The orphans of a thread are queued for removal. *)
LEMMA ThreadAsked ==
  ASSUME NEW ms, NEW ret, NEW gone, NEW n, ThreadOK(ms, ret, gone, n), Spread(ms)
  PROVE  ThreadOK(ms, ret, gone \cup OrphanIds(ms), n)
<1>0. ms \in Seq(Msg)
  BY BornFacts DEF ThreadOK
<1>1. DOMAIN ms = 1..Len(ms)
  BY <1>0
<1>2. ASSUME NEW i \in 1..Len(ms), ms[i].id \in OrphanIds(ms)
      PROVE  ms[i].type = "tool" /\ ms[i].call \notin Declared(ms)
  <2>1. PICK j \in DOMAIN ms : IsToolAt(ms, j) /\ ms[j].call \notin Declared(ms) /\ ms[i].id = ms[j].id
    BY <1>2 DEF OrphanIds
  <2>2. j = i
    BY <1>1, <2>1 DEF Spread
  <2> QED
    BY <2>1, <2>2 DEF IsToolAt
<1>3. Undeclared(ms, gone \cup OrphanIds(ms))
  BY <1>2 DEF ThreadOK, Undeclared
<1> QED
  BY <1>3 DEF ThreadOK

(* What stays when results are removed. *)
LEMMA RemainingAre ==
  ASSUME NEW S, NEW ms \in Seq(S), NEW gone
  PROVE  /\ Remaining(ms, gone) \in Seq(S)
         /\ \A j \in 1..Len(Remaining(ms, gone)) : \E i \in 1..Len(ms) :
               ms[i].id \notin gone /\ Remaining(ms, gone)[j] = ms[i]
         /\ \A i \in 1..Len(ms) : ms[i].id \notin gone =>
               \E j \in 1..Len(Remaining(ms, gone)) : Remaining(ms, gone)[j] = ms[i]
<1> DEFINE n == Len(ms)  K == {i \in DOMAIN ms : ms[i].id \notin gone}  out == Remaining(ms, gone)
<1>0. DOMAIN ms = 1..n
  OBVIOUS
<1>1. out = Only(ms, K)
  BY DEF Remaining
<1>2. \A i \in 1..n : i \in K <=> ms[i].id \notin gone
  BY <1>0
<1> HIDE DEF out, K
<1>3. out \in Seq(S) /\ \E p : OnlyAt(out, ms, K, p)
  BY <1>1, OnlyLaid
<1>4. PICK p : OnlyAt(out, ms, K, p)
  BY <1>3
<1>5. ASSUME NEW i \in 1..n, i \in K PROVE p[i] \in 1..Len(out) /\ out[p[i]] = ms[i]
  BY <1>4, <1>5 DEF OnlyAt
<1>6. ASSUME NEW j \in 1..Len(out) PROVE \E i \in 1..n : ms[i].id \notin gone /\ out[j] = ms[i]
  <2>1. PICK i \in 1..n : i \in K /\ j = p[i]
    BY <1>4 DEF OnlyAt
  <2> QED
    BY <1>2, <1>5, <2>1
<1>7. ASSUME NEW i \in 1..n, ms[i].id \notin gone PROVE \E j \in 1..Len(out) : out[j] = ms[i]
  BY <1>2, <1>5, <1>7
<1> QED
  BY <1>3, <1>6, <1>7 DEF out

(* Results that nobody declared go, and the answer comes. *)
LEMMA ThreadAnswered ==
  ASSUME NEW ms, NEW ret \in Seq(Msg), NEW gone, NEW n \in Nat, ThreadOK(ms, ret, gone, n),
         NEW m \in Born, m.type = "ai", NEW n2 \in Nat, n <= n2,
         \A c \in ToSet(Made(m)) : n < c.no /\ c.no <= n2
  PROVE  /\ ThreadOK(Append(Remaining(ms, gone), m), ret, {}, n2)
         /\ ThreadOK(Append(Remaining(ms, gone), m), Append(Remaining(ms, gone), m), {}, n2)
<1> DEFINE rem == Remaining(ms, gone)  out == Append(rem, m)
<1>0. ms \in Seq(Msg) /\ (\A i \in 1..Len(ms) : FewBad(ms[i])) /\ ms \in Seq(Born)
  BY BornFacts DEF ThreadOK
<1>1. rem \in Seq(Born) /\ rem \in Seq(Msg) /\ Grouped(rem) /\ Apart(rem)
  <2>1. rem \in Seq(Born)
    BY <1>0, RemainingAre
  <2>2. Grouped(rem) /\ Apart(rem)
    BY <1>0, RemainingGroups DEF ThreadOK
  <2> QED
    BY <2>1, <2>2, BornFacts
<1>2. ASSUME NEW j \in 1..Len(rem) PROVE \E i \in 1..Len(ms) : ms[i].id \notin gone /\ rem[j] = ms[i]
  BY <1>0, RemainingAre
<1>3. ASSUME NEW i \in 1..Len(ms), ms[i].id \notin gone PROVE \E j \in 1..Len(rem) : rem[j] = ms[i]
  BY <1>0, <1>3, RemainingAre
<1>4. m \in Msg
  BY DEF Born
<1> HIDE DEF rem
<1>5. out \in Seq(Born) /\ Len(out) = Len(rem) + 1 /\ out[Len(rem) + 1] = m /\ Len(rem) \in Nat
      /\ \A j \in 1..Len(rem) : out[j] = rem[j]
  BY <1>1
<1>6. out \in Seq(Msg) /\ Grouped(out)
  BY <1>1, <1>4, GroupedAppend
<1> HIDE DEF out
<1>7. ASSUME NEW j \in 1..Len(out)
      PROVE  \/ j = Len(rem) + 1 /\ out[j] = m
             \/ j \in 1..Len(rem) /\ out[j] = rem[j] /\ \E i \in 1..Len(ms) : ms[i].id \notin gone /\ out[j] = ms[i]
  <2>1. j = Len(rem) + 1 \/ j \in 1..Len(rem)
    BY <1>5
  <2> QED
    BY <1>2, <1>5, <2>1
<1>8. ASSUME NEW i \in 1..Len(ms) PROVE ms[i] \in Msg /\ Numbered(ms[i], n)
  BY <1>0 DEF ThreadOK, Numbers
<1>9. ASSUME NEW i \in 1..Len(ms) PROVE ToSet(Made(ms[i])) \cap ToSet(Made(m)) = {}
  <2>1. ASSUME NEW c \in ToSet(Made(ms[i])), c \in ToSet(Made(m)) PROVE FALSE
    <3>1. c.no <= n /\ n < c.no
      BY <1>8, <2>1 DEF Numbered
    <3>2. c \in Call
      <4> DEFINE u == Made(m)
      <4>1. u \in Seq(Call)
        BY <1>4, MsgFacts
      <4> HIDE DEF u
      <4>2. \A k \in DOMAIN u : u[k] \in Call
        BY <4>1
      <4> QED
        BY <2>1, <4>2 DEF u, ToSet
    <3>3. c.no \in Nat
      BY <3>2 DEF Call
    <3> QED
      BY <3>1, <3>3
  <2> QED
    BY <2>1
<1>10. Apart(out)
  <2> SUFFICES ASSUME NEW i \in 1..Len(out), NEW j \in 1..Len(out), i # j
               PROVE  ToSet(Made(out[i])) \cap ToSet(Made(out[j])) = {}
    BY DEF Apart
  <2>1. CASE i \in 1..Len(rem) /\ j \in 1..Len(rem)
    BY <1>1, <1>5, <2>1 DEF Apart
  <2>2. CASE i = Len(rem) + 1 /\ out[i] = m /\ j \in 1..Len(rem)
    BY <1>2, <1>5, <1>9, <2>2
  <2>3. CASE j = Len(rem) + 1 /\ out[j] = m /\ i \in 1..Len(rem)
    BY <1>2, <1>5, <1>9, <2>3
  <2> QED
    BY <1>7, <2>1, <2>2, <2>3
<1>11. Numbers(out, n2)
  <2> SUFFICES ASSUME NEW j \in 1..Len(out) PROVE Numbered(out[j], n2)
    BY DEF Numbers
  <2>1. Numbered(m, n2)
    BY DEF Numbered
  <2>2. ASSUME NEW i \in 1..Len(ms) PROVE Numbered(ms[i], n2)
    BY <1>8, NumberedMore
  <2> QED
    BY <1>7, <2>1, <2>2
<1>12. Undeclared(out, {})
  BY DEF Undeclared
<1>13. Within(out, out, n2)
  BY DEF Within
<1>14. ASSUME NEW c, c \in Declared(out), c.no <= n, c \in Call PROVE c \in Declared(ms)
  <2>1. PICK j \in 1..Len(out) : c \in ToSet(Calls(out[j]))
    BY <1>6, <1>14, DeclaredBy
  <2>2. CASE out[j] = m
    <3>1. Calls(m) # <<>>
      BY <2>1, <2>2 DEF ToSet
    <3>2. Calls(m) = Made(m)
      BY <3>1 DEF Calls, Made
    <3>3. n < c.no
      BY <2>1, <2>2, <3>2
    <3>4. c.no \in Nat
      BY <1>14 DEF Call
    <3> QED
      BY <1>14, <3>3, <3>4
  <2>3. CASE \E i \in 1..Len(ms) : out[j] = ms[i]
    BY <1>0, <2>1, <2>3, DeclaredBy
  <2> QED
    BY <1>7, <2>2, <2>3
<1>15. Within(out, ret, n2)
  <2> SUFFICES ASSUME NEW k \in 1..Len(ret)
               PROVE  \/ \E i \in 1..Len(out) : ret[k] = out[i]
                      \/ ret[k].type = "tool" /\ ret[k].call \notin Declared(out) /\ ret[k].call.no <= n2
    BY DEF Within
  <2>1. \/ \E i \in 1..Len(ms) : ret[k] = ms[i]
        \/ ret[k].type = "tool" /\ ret[k].call \notin Declared(ms) /\ ret[k].call.no <= n
    BY DEF ThreadOK, Within
  <2>2. CASE \E i \in 1..Len(ms) : ret[k] = ms[i] /\ ms[i].id \notin gone
    <3>1. PICK i \in 1..Len(ms) : ret[k] = ms[i] /\ ms[i].id \notin gone
      BY <2>2
    <3>2. PICK j \in 1..Len(rem) : rem[j] = ms[i]
      BY <1>3, <3>1
    <3>3. j \in 1..Len(out) /\ ret[k] = out[j]
      BY <1>5, <3>1, <3>2
    <3> QED
      BY <3>3
  <2>3. CASE \E i \in 1..Len(ms) : ret[k] = ms[i] /\ ms[i].id \in gone
    <3>1. PICK i \in 1..Len(ms) : ret[k] = ms[i] /\ ms[i].id \in gone
      BY <2>3
    <3>2. ms[i].type = "tool" /\ ms[i].call \notin Declared(ms)
      BY <3>1 DEF ThreadOK, Undeclared
    <3>3. ms[i].call \in Call
      BY <1>8, <3>2, MsgFacts
    <3>4. ms[i].call.no <= n
      BY <1>8, <3>2 DEF Numbered
    <3>5. ms[i].call \notin Declared(out)
      BY <1>14, <3>2, <3>3, <3>4
    <3>6. ms[i].call.no <= n2
      <4>1. ms[i].call.no \in Nat
        BY <3>3 DEF Call
      <4> QED
        BY <3>4, <4>1
    <3> QED
      BY <3>1, <3>2, <3>5, <3>6
  <2>4. CASE ret[k].type = "tool" /\ ret[k].call \notin Declared(ms) /\ ret[k].call.no <= n /\ ret[k].call \in Call
    <3>1. ret[k].call \notin Declared(out)
      BY <1>14, <2>4
    <3>2. ret[k].call.no \in Nat
      BY <2>4 DEF Call
    <3>3. ret[k].call.no <= n2
      BY <2>4, <3>2
    <3> QED
      BY <2>4, <3>1, <3>3
  <2>5. ret[k].type = "tool" => ret[k].call \in Call
    <3>1. ret[k] \in Msg
      OBVIOUS
    <3> QED
      BY <3>1, MsgFacts
  <2> QED
    BY <2>1, <2>2, <2>3, <2>4, <2>5
<1> QED
  BY <1>5, <1>6, <1>10, <1>11, <1>12, <1>13, <1>15 DEF ThreadOK, out, rem

\* ------------------------------------------------------- repairing an input

(* Positions that go up, and at i0 by more than one. *)
Climbs(p, n) == /\ p \in [1..(n + 1) -> Nat \ {0}] /\ p[1] = 1
                /\ \A i \in 1..n : p[i] + 1 <= p[i + 1]
JumpsAt(p, n, i0) == i0 \in 1..n => p[i0] + 2 <= p[i0 + 1]

(* Such positions end above n, and above n + 1 if there is a jump. *)
LEMMA Longer ==
  ASSUME NEW n \in Nat, NEW p, Climbs(p, n), NEW i0 \in 1..(n + 1), JumpsAt(p, n, i0)
  PROVE  p[n + 1] >= n + 1 /\ (i0 # n + 1 => p[n + 1] >= n + 2)
<1> DEFINE FarAt(k, x) == x >= k + 1 /\ (k >= i0 => x >= k + 2)
           P == {k \in 0..n : FarAt(k, p[k + 1])}
<1>1. ASSUME NEW k \in 0..n, k > 0 => k - 1 \in P PROVE k \in P
  <2>0. p[1] = 1 /\ \A i \in 1..(n + 1) : p[i] \in Nat
    BY DEF Climbs
  <2>1. CASE k = 0
    <3>1. FarAt(0, 1) /\ p[0 + 1] = 1
      BY <2>0
    <3> QED
      BY <2>1, <3>1
  <2>2. CASE k > 0
    <3> DEFINE l == k - 1  x == p[k]  y == p[k + 1]
    <3>1. l + 1 = k /\ k \in 1..n /\ k + 1 \in 1..(n + 1) /\ k \in 1..(n + 1)
      BY <2>2
    <3>2. FarAt(l, x)
      BY <1>1, <2>2, <3>1
    <3>3. x + 1 <= y
      BY <3>1 DEF Climbs
    <3>4. k = i0 => x + 2 <= y
      BY <3>1 DEF JumpsAt
    <3>5. x \in Nat /\ y \in Nat
      BY <2>0, <3>1
    <3> HIDE DEF x, y
    <3>6. FarAt(k, y)
      BY <3>2, <3>3, <3>4, <3>5
    <3> QED
      BY <3>6 DEF y
  <2> QED
    BY <2>1, <2>2
<1> HIDE DEF P
<1>2. 0..n \subseteq P
  BY <1>1, Upwards
<1>3. n \in P
  BY <1>2
<1>4. FarAt(n, p[n + 1])
  BY <1>3 DEF P
<1> QED
  BY <1>4

(* Results are added, or nothing is changed. *)
LEMMA GrowLonger ==
  ASSUME NEW ms \in Seq(Msg), NEW K
  PROVE  /\ Len(Grow(ms, K)) \in Nat /\ Len(Grow(ms, K)) >= Len(ms)
         /\ Len(Grow(ms, K)) = Len(ms) => Grow(ms, K) = ms
<1> DEFINE n == Len(ms)  out == Grow(ms, K)
<1>1. n \in Nat
  OBVIOUS
<1>2. PICK p : GrownAt(out, ms, K, p)
  BY GrowLaid
<1>3. \A i \in 1..n : Len(PutIn(ms, K, i)) \in Nat
  BY PutInType
<1> HIDE DEF n, out
<1>4. p \in [1..(n + 1) -> Nat \ {0}] /\ p[1] = 1 /\ Len(out) = p[n + 1] - 1
  BY <1>2 DEF GrownAt, n
<1>5. ASSUME NEW i \in 1..n PROVE p[i] \in Nat /\ p[i + 1] = p[i] + 1 + Len(PutIn(ms, K, i))
  <2>1. i \in 1..(n + 1)
    BY <1>1
  <2>2. p[i] \in Nat
    BY <1>4, <2>1
  <2> QED
    BY <1>2, <2>2 DEF GrownAt, n
<1>6. Climbs(p, n)
  BY <1>3, <1>4, <1>5 DEF Climbs
<1>7. p[n + 1] \in Nat \ {0}
  BY <1>1, <1>4
<1>8. Len(out) >= n /\ Len(out) \in Nat
  <2>1. n + 1 \in 1..(n + 1) /\ JumpsAt(p, n, n + 1)
    BY <1>1 DEF JumpsAt
  <2>2. p[n + 1] >= n + 1
    BY <1>1, <1>6, <2>1, Longer
  <2> QED
    BY <1>1, <1>4, <1>7, <2>2
<1>9. ASSUME NEW i \in 1..n, PutIn(ms, K, i) # <<>> PROVE Len(out) # n
  <2> DEFINE r == PutIn(ms, K, i)
  <2>1. r \in Seq(Msg)
    BY PutInType DEF n
  <2>2. r # <<>>
    BY <1>9
  <2> HIDE DEF r
  <2>3. Len(r) \in Nat /\ Len(r) >= 1
    BY <2>1, <2>2
  <2>4. p[i] + 2 <= p[i + 1]
    BY <1>5, <2>3 DEF r
  <2>5. JumpsAt(p, n, i) /\ i \in 1..(n + 1) /\ i # n + 1
    BY <1>1, <2>4 DEF JumpsAt
  <2>6. p[n + 1] >= n + 2
    BY <1>1, <1>6, <2>5, Longer
  <2> QED
    BY <1>1, <1>4, <1>7, <2>6
<1>10. (\A i \in 1..n : PutIn(ms, K, i) = <<>>) => out = ms
  BY GrownNothing DEF n, out
<1> QED
  BY <1>8, <1>9, <1>10 DEF n, out

(* A result of a call nobody has declared is an orphan, or another is.       *)
LEMMA FirstOrphan ==
  ASSUME NEW ms \in Seq(Msg), NEW i \in 1..Len(ms), ms[i].type = "tool", ms[i].call \notin Declared(ms)
  PROVE  \E j \in 1..Len(ms) : StartsBatch(ms, j)
<1>0. Len(ms) \in Nat /\ DOMAIN ms = 1..Len(ms)
  OBVIOUS
<1> DEFINE T == {j \in 1..Len(ms) : ms[j].type = "tool" /\ ms[j].call = ms[i].call}
<1>1. PICK j \in T : \A k \in T : j <= k
  <2>1. i \in T /\ T \subseteq Nat
    BY <1>0
  <2> HIDE DEF T
  <2> QED
    BY <2>1, LeastOf
<1>2. IsOrphan(ms, j)
  <2>1. j \in 1..Len(ms) /\ ms[j].type = "tool" /\ ms[j].call \notin Declared(ms)
    OBVIOUS
  <2>2. ASSUME NEW k \in 1..(j - 1), IsToolAt(ms, k), ms[k].call = ms[j].call PROVE FALSE
    <3>1. k \in T
      BY <1>0, <2>2 DEF IsToolAt
    <3>2. j <= k
      BY <1>1, <3>1
    <3> QED
      BY <2>1, <3>2
  <2> QED
    BY <1>0, <2>1, <2>2 DEF IsOrphan, IsToolAt
<1> DEFINE O == {k \in 1..Len(ms) : IsOrphan(ms, k)}
<1>3. PICK k \in O : \A l \in O : k <= l
  <2>1. j \in O /\ O \subseteq Nat
    BY <1>0, <1>2
  <2> HIDE DEF O
  <2> QED
    BY <2>1, LeastOf
<1>4. ASSUME IsOrphan(ms, k - 1) PROVE FALSE
  <2>1. k - 1 \in 1..Len(ms)
    BY <1>0, <1>4 DEF IsOrphan, IsToolAt
  <2>2. k <= k - 1
    BY <1>3, <1>4, <2>1
  <2> QED
    BY <1>0, <2>2
<1> QED
  BY <1>4 DEF StartsBatch

(* A message is added if there is an orphan. *)
LEMMA OrphansLonger ==
  ASSUME NEW ms \in Seq(Msg)
  PROVE  /\ Len(OrphansPatched(ms)) \in Nat /\ Len(OrphansPatched(ms)) >= Len(ms)
         /\ (\E i \in 1..Len(ms) : StartsBatch(ms, i)) => Len(OrphansPatched(ms)) > Len(ms)
<1> DEFINE n == Len(ms)  out == OrphansPatched(ms)
<1>1. n \in Nat
  OBVIOUS
<1>2. PICK p : OrphanedAt(out, ms, p)
  BY OrphansLaid, OrphansAt
<1> HIDE DEF n, out
<1>3. p \in [1..(n + 1) -> Nat \ {0}] /\ p[1] = 1 /\ Len(out) = p[n + 1] - 1
  BY <1>2 DEF OrphanedAt, n
<1>4. ASSUME NEW i \in 1..n PROVE p[i] \in Nat /\ p[i + 1] = IF StartsBatch(ms, i) THEN p[i] + 2 ELSE p[i] + 1
  <2>1. i \in 1..(n + 1)
    BY <1>1
  <2>2. p[i] \in Nat
    BY <1>3, <2>1
  <2> QED
    BY <1>2, <2>2 DEF OrphanedAt, n
<1>5. Climbs(p, n)
  BY <1>3, <1>4 DEF Climbs
<1>6. p[n + 1] \in Nat \ {0}
  BY <1>1, <1>3
<1>7. Len(out) >= n /\ Len(out) \in Nat
  <2>1. n + 1 \in 1..(n + 1) /\ JumpsAt(p, n, n + 1)
    BY <1>1 DEF JumpsAt
  <2>2. p[n + 1] >= n + 1
    BY <1>1, <1>5, <2>1, Longer
  <2> QED
    BY <1>1, <1>3, <1>6, <2>2
<1>8. ASSUME NEW i \in 1..n, StartsBatch(ms, i) PROVE Len(out) > n
  <2>1. p[i] + 2 <= p[i + 1]
    BY <1>4, <1>8
  <2>2. JumpsAt(p, n, i) /\ i \in 1..(n + 1) /\ i # n + 1
    BY <1>1, <2>1 DEF JumpsAt
  <2>3. p[n + 1] >= n + 2
    BY <1>1, <1>5, <2>2, Longer
  <2> QED
    BY <1>1, <1>3, <1>6, <2>3
<1> QED
  BY <1>7, <1>8 DEF n, out

(* An input that before_agent leaves as it is has no orphans. *)
LEMMA RepairedNothing ==
  ASSUME NEW input \in Seq(Msg), Repaired(input) = input, NEW i \in 1..Len(input), input[i].type = "tool"
  PROVE  input[i].call \in Declared(input)
<1> DEFINE mid == DanglingPatched(input)
<1>1. Len(mid) \in Nat /\ Len(mid) >= Len(input) /\ (Len(mid) = Len(input) => mid = input) /\ mid \in Seq(Msg)
  BY DanglingIs, GrowLonger, GrowLaid
<1>2. OrphansPatched(mid) = input
  BY DEF Repaired
<1> HIDE DEF mid
<1>3. Len(input) >= Len(mid) /\ Len(input) \in Nat
  BY <1>1, <1>2, OrphansLonger
<1>4. mid = input
  BY <1>1, <1>3
<1>5. ~ \E j \in 1..Len(input) : StartsBatch(input, j)
  BY <1>2, <1>3, <1>4, OrphansLonger
<1> QED
  BY <1>5, FirstOrphan

\* -------------------------------------------------------------- message ids

(* No message is there twice; those made up have no id yet. *)
Once(ms) == \A i, j \in 1..Len(ms) : ms[i].id = ms[j].id /\ ms[i].id # 0 => i = j
Ids(ms) == {ms[i].id : i \in 1..Len(ms)}

(* A message of out that has an id is one of ms, the one for i at q[i]. *)
Sifts(out, ms) == \E q : \A j \in 1..Len(out) : out[j].id # 0 =>
  \E i \in 1..Len(ms) : j = q[i] /\ out[j].id = ms[i].id

(* Then no id is new and none is there twice. *)
LEMMA SiftsOnce ==
  ASSUME NEW ms, NEW out, Sifts(out, ms)
  PROVE  Ids(out) \subseteq Ids(ms) \cup {0} /\ (Once(ms) => Once(out))
<1>1. PICK q : \A j \in 1..Len(out) : out[j].id # 0 =>
                  \E i \in 1..Len(ms) : j = q[i] /\ out[j].id = ms[i].id
  BY DEF Sifts
<1>2. ASSUME Once(ms), NEW j \in 1..Len(out), NEW l \in 1..Len(out), out[j].id = out[l].id, out[j].id # 0
      PROVE  j = l
  <2>1. PICK i \in 1..Len(ms) : j = q[i] /\ out[j].id = ms[i].id
    BY <1>1, <1>2
  <2>2. PICK k \in 1..Len(ms) : l = q[k] /\ out[l].id = ms[k].id
    BY <1>1, <1>2
  <2>3. i = k
    BY <1>2, <2>1, <2>2 DEF Once
  <2> QED
    BY <2>1, <2>2, <2>3
<1> QED
  BY <1>1, <1>2 DEF Once, Ids

(* Results put in have no id. *)
LEMMA GrowSifts ==
  ASSUME NEW ms \in Seq(Msg), NEW K
  PROVE  Sifts(Grow(ms, K), ms)
<1> DEFINE n == Len(ms)  out == Grow(ms, K)
<1>1. PICK p : GrownAt(out, ms, K, p)
  BY GrowLaid
<1>2. ASSUME NEW i \in 1..n, NEW k \in 1..Len(PutIn(ms, K, i)) PROVE PutIn(ms, K, i)[k].id = 0
  BY PutInType
<1>3. \A i \in 1..n : Len(PutIn(ms, K, i)) \in Nat
  BY PutInType
<1> HIDE DEF n, out
<1>4. ASSUME NEW j \in 1..Len(out), out[j].id # 0
      PROVE  \E i \in 1..n : j = p[i] /\ out[j].id = ms[i].id
  <2>1. PICK i \in 1..n : \E k \in 0..Len(PutIn(ms, K, i)) : j = p[i] + k
    BY <1>1 DEF GrownAt, n
  <2>2. PICK k \in 0..Len(PutIn(ms, K, i)) : j = p[i] + k
    BY <2>1
  <2>3. p[i] \in 1..Len(out) /\ out[p[i]] = ms[i]
    BY <1>1 DEF GrownAt, n
  <2>4. CASE k = 0
    BY <2>2, <2>3, <2>4
  <2>5. CASE k # 0
    <3>1. k \in 1..Len(PutIn(ms, K, i))
      BY <1>3, <2>5
    <3>2. out[p[i] + k] = PutIn(ms, K, i)[k]
      BY <1>1, <3>1 DEF GrownAt, n
    <3> QED
      BY <1>2, <1>4, <2>2, <3>1, <3>2
  <2> QED
    BY <2>4, <2>5
<1> QED
  BY <1>4 DEF Sifts, n, out

(* Messages that declare orphans have none. *)
LEMMA OrphansSifts ==
  ASSUME NEW ms \in Seq(Msg)
  PROVE  Sifts(OrphansPatched(ms), ms)
<1> DEFINE n == Len(ms)  out == OrphansPatched(ms)
<1>1. PICK p : OrphanedAt(out, ms, p)
  BY OrphansLaid, OrphansAt
<1> HIDE DEF n, out
<1> DEFINE q == [i \in 1..n |-> IF StartsBatch(ms, i) THEN p[i] + 1 ELSE p[i]]
<1>2. ASSUME NEW j \in 1..Len(out), out[j].id # 0
      PROVE  \E i \in 1..n : j = q[i] /\ out[j].id = ms[i].id
  <2>1. PICK i \in 1..n : j = p[i] \/ (StartsBatch(ms, i) /\ j = p[i] + 1)
    BY <1>1 DEF OrphanedAt, n
  <2>2. CASE ~ StartsBatch(ms, i)
    <3>1. out[p[i]] = ms[i]
      BY <1>1, <2>2 DEF OrphanedAt, n
    <3>2. q[i] = p[i]
      BY <2>2
    <3> QED
      BY <2>1, <2>2, <3>1, <3>2
  <2>3. CASE StartsBatch(ms, i)
    <3>1. out[p[i]] = Declarer(ms, i) /\ out[p[i] + 1] = ms[i]
      BY <1>1, <2>3 DEF OrphanedAt, n
    <3>2. Declarer(ms, i).id = 0
      BY DeclarerType DEF n
    <3>3. q[i] = p[i] + 1
      BY <2>3
    <3> HIDE DEF q
    <3>4. j = p[i] + 1
      BY <1>2, <2>1, <3>1, <3>2
    <3> QED
      BY <3>1, <3>3, <3>4
  <2> QED
    BY <2>2, <2>3
<1> HIDE DEF q
<1> QED
  BY <1>2 DEF Sifts, n, out

(* Only gives no ids. *)
LEMMA OnlySifts ==
  ASSUME NEW ms \in Seq(Msg), NEW K
  PROVE  Sifts(Only(ms, K), ms)
<1>1. PICK p : OnlyAt(Only(ms, K), ms, K, p)
  BY OnlyLaid
<1>2. ASSUME NEW j \in 1..Len(Only(ms, K))
      PROVE  \E i \in 1..Len(ms) : j = p[i] /\ Only(ms, K)[j].id = ms[i].id
  <2>1. PICK i \in 1..Len(ms) : i \in K /\ j = p[i]
    BY <1>1 DEF OnlyAt
  <2> QED
    BY <1>1, <2>1 DEF OnlyAt
<1> QED
  BY <1>2 DEF Sifts

(* An input keeps its ids when it is repaired. *)
LEMMA RepairedOnce ==
  ASSUME NEW input \in Seq(Msg), Once(input)
  PROVE  /\ Repaired(input) \in Seq(Msg) /\ Once(Repaired(input))
         /\ Ids(Repaired(input)) \subseteq Ids(input) \cup {0}
<1> DEFINE mid == DanglingPatched(input)
<1>1. mid \in Seq(Msg) /\ Once(mid) /\ Ids(mid) \subseteq Ids(input) \cup {0}
  BY DanglingIs, GrowLaid, GrowSifts, SiftsOnce
<1> HIDE DEF mid
<1>2. /\ OrphansPatched(mid) \in Seq(Msg) /\ Once(OrphansPatched(mid))
      /\ Ids(OrphansPatched(mid)) \subseteq Ids(mid) \cup {0}
  BY <1>1, OrphansLaid, OrphansSifts, SiftsOnce
<1>3. Repaired(input) = OrphansPatched(mid)
  BY DEF Repaired, mid
<1> QED
  BY <1>1, <1>2, <1>3

(* A message with another id is a message. *)
LEMMA WithId ==
  ASSUME NEW m \in Msg, NEW x \in Nat
  PROVE  [m EXCEPT !.id = x] \in Msg /\ [m EXCEPT !.id = x].id = x
<1>1. CASE m \in HumanMsg
  BY <1>1 DEF HumanMsg, Msg
<1>2. CASE m \in ToolMsg
  BY <1>2 DEF ToolMsg, Msg
<1>3. CASE m \in AiMsg
  BY <1>3 DEF AiMsg, Msg
<1> QED
  BY <1>1, <1>2, <1>3 DEF Msg

(* The messages of a thread have ids of their own, of those given so far. *)
Stored(ms, l) == Spread(ms) /\ Ids(ms) \subseteq 1..l

(* A thread has as many ids as messages. *)
LEMMA StoredCounted ==
  ASSUME NEW ms \in Seq(Msg), NEW l \in Nat, Stored(ms, l)
  PROVE  0 \notin MessageIds(ms) /\ Cardinality(MessageIds(ms)) = Len(ms)
<1>0. DOMAIN ms = 1..Len(ms) /\ Len(ms) \in Nat
  OBVIOUS
<1>1. MessageIds(ms) = Ids(ms)
  BY <1>0 DEF MessageIds, Ids
<1>2. 0 \notin Ids(ms)
  BY DEF Stored
<1> DEFINE g == [i \in 1..Len(ms) |-> ms[i].id]
<1>3. g \in Bijection(1..Len(ms), Ids(ms))
  <2>1. g \in [1..Len(ms) -> Ids(ms)]
    BY DEF Ids
  <2>2. \A i, j \in 1..Len(ms) : g[i] = g[j] => i = j
    BY DEF Stored, Spread
  <2>3. \A x \in Ids(ms) : \E i \in 1..Len(ms) : g[i] = x
    BY DEF Ids
  <2> HIDE DEF g
  <2> QED
    BY <2>1, <2>2, <2>3, Fun_IsBij
<1>4. ExistsBijection(1..Len(ms), Ids(ms))
  BY <1>3 DEF ExistsBijection
<1>5. Cardinality(Ids(ms)) = Len(ms)
  BY <1>0, <1>4, FS_CountingElements
<1> QED
  BY <1>1, <1>2, <1>5

(* The messages of out behind those of ms have ids of their own, of a set X. *)
NewIds(ms, out, X) == \A i \in (Len(ms) + 1)..Len(out) :
  /\ out[i].id \in X /\ out[i].id \notin Ids(ms)
  /\ \A j \in (Len(ms) + 1)..Len(out) : out[i].id = out[j].id => i = j

(* A thread goes on with messages that have new ids. *)
LEMMA StoredMore ==
  ASSUME NEW ms \in Seq(Msg), NEW out \in Seq(Msg), Begins(ms, out),
         NEW l \in Nat, Stored(ms, l), NEW l2 \in Nat, l <= l2, NEW X, NewIds(ms, out, X), X \subseteq 1..l2
  PROVE  Stored(out, l2) /\ Ids(ms) \subseteq Ids(out) /\ Ids(out) \subseteq Ids(ms) \cup X
<1>0. Len(ms) \in Nat /\ Len(out) \in Nat
  OBVIOUS
<1>1. \A i \in 1..Len(ms) : i \in 1..Len(out) /\ out[i] = ms[i]
  BY <1>0 DEF Begins
<1>2. \A i \in 1..Len(out) : i \notin 1..Len(ms) => i \in (Len(ms) + 1)..Len(out)
  BY <1>0
<1>3. \A i \in 1..Len(ms) : ms[i].id \in Ids(ms)
  BY DEF Ids
<1>4. Ids(out) \subseteq Ids(ms) \cup X
  <2>1. ASSUME NEW i \in 1..Len(out) PROVE out[i].id \in Ids(ms) \cup X
    <3>1. CASE i \in 1..Len(ms)
      BY <1>1, <1>3, <3>1
    <3>2. CASE i \notin 1..Len(ms)
      BY <1>2, <3>2 DEF NewIds
    <3> QED
      BY <3>1, <3>2
  <2> QED
    BY <2>1 DEF Ids
<1>5. Ids(ms) \subseteq Ids(out)
  BY <1>1 DEF Ids
<1>6. Spread(out)
  <2> SUFFICES ASSUME NEW i \in 1..Len(out), NEW j \in 1..Len(out), out[i].id = out[j].id PROVE i = j
    BY DEF Spread
  <2>1. CASE i \in 1..Len(ms) /\ j \in 1..Len(ms)
    BY <1>1, <2>1 DEF Stored, Spread
  <2>2. CASE i \in 1..Len(ms) /\ j \notin 1..Len(ms)
    <3>1. out[i].id \in Ids(ms) /\ out[j].id \notin Ids(ms)
      BY <1>1, <1>2, <1>3, <2>2 DEF NewIds
    <3> QED
      BY <3>1
  <2>3. CASE i \notin 1..Len(ms) /\ j \in 1..Len(ms)
    <3>1. out[j].id \in Ids(ms) /\ out[i].id \notin Ids(ms)
      BY <1>1, <1>2, <1>3, <2>3 DEF NewIds
    <3> QED
      BY <3>1
  <2>4. CASE i \notin 1..Len(ms) /\ j \notin 1..Len(ms)
    BY <1>2, <2>4 DEF NewIds
  <2> QED
    BY <2>1, <2>2, <2>3, <2>4
<1>7. Ids(ms) \subseteq 1..l2
  BY DEF Stored
<1> QED
  BY <1>4, <1>5, <1>6, <1>7 DEF Stored

(* add_messages gives ids to the messages that have none, and leaves out      *)
(* those the thread has.                                                      *)
LEMMA AddedIds ==
  ASSUME NEW ms \in Seq(Msg), NEW new \in Seq(Msg), lastId \in Nat, Stored(ms, lastId),
         Once(new), Ids(new) \subseteq 0..lastId
  PROVE  /\ Added(ms, new) \in Seq(Msg) /\ Begins(ms, Added(ms, new))
         /\ lastId + Len(Added(ms, new)) - Len(ms) \in Nat
         /\ lastId <= lastId + Len(Added(ms, new)) - Len(ms)
         /\ Stored(Added(ms, new), lastId + Len(Added(ms, new)) - Len(ms))
         /\ Ids(ms) \subseteq Ids(Added(ms, new))
         /\ Ids(Added(ms, new)) \subseteq
              Ids(ms) \cup Ids(new) \cup (lastId + 1)..(lastId + Len(Added(ms, new)) - Len(ms))
<1> DEFINE K == {n \in DOMAIN new : new[n].id \notin MessageIds(ms) \ {0}}
           unknown == Only(new, K)
           g == [n \in DOMAIN unknown |-> IF unknown[n].id = 0 THEN [unknown[n] EXCEPT !.id = lastId + n]
                                          ELSE unknown[n]]
           out == Added(ms, new)  c == Len(unknown)
<1>0. out = ms \o g
  BY DEF Added
<1>1. MessageIds(ms) = Ids(ms) /\ DOMAIN ms = 1..Len(ms) /\ DOMAIN new = 1..Len(new) /\ Len(ms) \in Nat
  <2>1. DOMAIN ms = 1..Len(ms)
    OBVIOUS
  <2> QED
    BY <2>1 DEF MessageIds, Ids
<1>2. 0 \notin Ids(ms) /\ Ids(ms) \subseteq 1..lastId
  BY DEF Stored
<1>3. \A i \in 1..Len(new) : i \in K <=> new[i].id \notin Ids(ms) \ {0}
  BY <1>1
<1> HIDE DEF K
<1>4. unknown \in Seq(Msg) /\ \E p : OnlyAt(unknown, new, K, p)
  BY OnlyLaid
<1>5. PICK p : OnlyAt(unknown, new, K, p)
  BY <1>4
<1>6. Once(unknown) /\ Ids(unknown) \subseteq Ids(new) \cup {0}
  BY OnlySifts, SiftsOnce
<1> HIDE DEF unknown
<1>7. c \in Nat /\ DOMAIN unknown = 1..c
  BY <1>4
<1>8. ASSUME NEW j \in 1..c PROVE unknown[j].id \notin Ids(ms) /\ unknown[j].id \in 0..lastId /\ unknown[j] \in Msg
  <2>1. PICK i \in 1..Len(new) : i \in K /\ j = p[i]
    BY <1>5 DEF OnlyAt
  <2>2. unknown[j] = new[i]
    BY <1>5, <2>1 DEF OnlyAt
  <2>3. unknown[j].id \in Ids(new)
    BY <2>2 DEF Ids
  <2>4. unknown[j] \in Msg
    BY <1>4, <1>7
  <2> QED
    BY <1>2, <1>3, <2>1, <2>2, <2>3, <2>4
<1> HIDE DEF c
<1>9. ASSUME NEW j \in 1..c
      PROVE  /\ g[j] \in Msg
             /\ unknown[j].id = 0 => g[j].id = lastId + j
             /\ unknown[j].id # 0 => g[j].id = unknown[j].id
  <2> DEFINE m == unknown[j]
  <2>1. g[j] = IF m.id = 0 THEN [m EXCEPT !.id = lastId + j] ELSE m
    BY <1>7
  <2>2. m \in Msg /\ lastId + j \in Nat
    BY <1>7, <1>8
  <2> HIDE DEF m, g
  <2>3. [m EXCEPT !.id = lastId + j] \in Msg /\ [m EXCEPT !.id = lastId + j].id = lastId + j
    BY <2>2, WithId
  <2>4. (m.id = 0 => g[j].id = lastId + j) /\ (m.id # 0 => g[j].id = m.id) /\ g[j] \in Msg
    BY <2>1, <2>2, <2>3
  <2> QED
    BY <2>4 DEF m
<1>10. g \in Seq(Msg) /\ Len(g) = c
  <2>1. DOMAIN g = 1..c
    BY <1>7
  <2>2. g = [n \in 1..c |-> g[n]]
    BY <2>1, Zenon
  <2> HIDE DEF g
  <2>3. g \in [1..c -> Msg]
    BY <1>9, <2>2
  <2> QED
    BY <1>7, <2>3
<1> HIDE DEF g, out
<1>11. /\ out \in Seq(Msg) /\ Len(out) = Len(ms) + c
       /\ \A i \in 1..Len(ms) : out[i] = ms[i]
       /\ \A k \in 1..c : out[Len(ms) + k] = g[k]
  <2>1. ms \o g \in Seq(Msg) /\ Len(ms \o g) = Len(ms) + Len(g)
    BY <1>10, ConcatProperties, Zenon
  <2>2. \A i \in 1..Len(ms) : (ms \o g)[i] = ms[i]
    BY <1>10
  <2>3. \A k \in 1..Len(g) : (ms \o g)[Len(ms) + k] = g[k]
    BY <1>10
  <2> QED
    BY <1>0, <1>10, <2>1, <2>2, <2>3
<1>12. Begins(ms, out) /\ lastId + Len(out) - Len(ms) = lastId + c
  BY <1>1, <1>7, <1>11 DEF Begins
<1> DEFINE l2 == lastId + c  X == (Ids(new) \cap (1..lastId)) \cup (lastId + 1)..l2
<1>13. l2 \in Nat /\ lastId <= l2 /\ X \subseteq 1..l2
  BY <1>7
<1>14. ASSUME NEW j \in 1..c PROVE g[j].id \in X /\ g[j].id \notin Ids(ms)
  <2>1. CASE unknown[j].id = 0
    <3>1. g[j].id = lastId + j
      BY <1>9, <2>1
    <3>2. lastId + j \in (lastId + 1)..l2 /\ lastId + j \notin 1..lastId
      BY <1>7
    <3> QED
      BY <1>2, <3>1, <3>2
  <2>2. CASE unknown[j].id # 0
    <3>1. g[j].id = unknown[j].id /\ unknown[j].id \in Ids(unknown)
      BY <1>9, <2>2 DEF Ids, c
    <3>2. unknown[j].id \in 1..lastId /\ unknown[j].id \in Ids(new)
      BY <1>6, <1>8, <2>2, <3>1
    <3> QED
      BY <1>8, <3>1, <3>2
  <2> QED
    BY <2>1, <2>2
<1>15. ASSUME NEW j \in 1..c, NEW k \in 1..c, g[j].id = g[k].id PROVE j = k
  <2>1. CASE unknown[j].id = 0 /\ unknown[k].id = 0
    BY <1>7, <1>9, <1>15, <2>1
  <2>2. CASE unknown[j].id # 0 /\ unknown[k].id # 0
    <3>1. unknown[j].id = unknown[k].id
      BY <1>9, <1>15, <2>2
    <3> QED
      BY <1>6, <2>2, <3>1 DEF Once, c
  <2>3. CASE unknown[j].id = 0 /\ unknown[k].id # 0
    <3>1. g[j].id = lastId + j /\ g[k].id = unknown[k].id /\ unknown[k].id \in 0..lastId
      BY <1>8, <1>9, <2>3
    <3>2. lastId + j \notin 0..lastId
      BY <1>7
    <3> QED
      BY <1>15, <3>1, <3>2
  <2>4. CASE unknown[j].id # 0 /\ unknown[k].id = 0
    <3>1. g[k].id = lastId + k /\ g[j].id = unknown[j].id /\ unknown[j].id \in 0..lastId
      BY <1>8, <1>9, <2>4
    <3>2. lastId + k \notin 0..lastId
      BY <1>7
    <3> QED
      BY <1>15, <3>1, <3>2
  <2> QED
    BY <2>1, <2>2, <2>3, <2>4
<1> HIDE DEF X, l2
<1>16. ASSUME NEW i \in (Len(ms) + 1)..Len(out)
       PROVE  \E k \in 1..c : i = Len(ms) + k /\ out[i] = g[k]
  <2> DEFINE k == i - Len(ms)
  <2>1. k \in 1..c /\ Len(ms) + k = i
    BY <1>1, <1>7, <1>11
  <2> HIDE DEF k
  <2> QED
    BY <1>11, <2>1
<1>17. NewIds(ms, out, X)
  <2> SUFFICES ASSUME NEW i \in (Len(ms) + 1)..Len(out)
               PROVE  /\ out[i].id \in X /\ out[i].id \notin Ids(ms)
                      /\ \A j \in (Len(ms) + 1)..Len(out) : out[i].id = out[j].id => i = j
    BY DEF NewIds
  <2>1. PICK k \in 1..c : i = Len(ms) + k /\ out[i] = g[k]
    BY <1>16
  <2>2. ASSUME NEW j \in (Len(ms) + 1)..Len(out), out[i].id = out[j].id PROVE i = j
    <3>1. PICK l \in 1..c : j = Len(ms) + l /\ out[j] = g[l]
      BY <1>16
    <3> QED
      BY <1>15, <2>1, <2>2, <3>1
  <2> QED
    BY <1>14, <2>1, <2>2
<1>18. Stored(out, l2) /\ Ids(ms) \subseteq Ids(out) /\ Ids(out) \subseteq Ids(ms) \cup X
  BY <1>11, <1>12, <1>13, <1>17, StoredMore
<1> QED
  BY <1>11, <1>12, <1>13, <1>18 DEF out, l2, X

\* ------------------------------------------------------ answers and results

(* An input of which the thread has all but the last message. *)
LEMMA AddedLast ==
  ASSUME NEW ms \in Seq(Msg), NEW new \in Seq(Msg), NEW r \in Nat, Len(new) = r + 1, lastId \in Nat,
         new[r + 1] = Human(0), \A i \in 1..r : new[i].id \in Ids(ms) \ {0}
  PROVE  Added(ms, new) = Append(ms, Human(lastId + 1))
<1> DEFINE K == {n \in DOMAIN new : new[n].id \notin MessageIds(ms) \ {0}}
           unknown == Only(new, K)
           g == [n \in DOMAIN unknown |-> IF unknown[n].id = 0 THEN [unknown[n] EXCEPT !.id = lastId + n]
                                          ELSE unknown[n]]
           l == r + 1
<1>0. Added(ms, new) = ms \o g
  BY DEF Added
<1>1. MessageIds(ms) = Ids(ms) /\ DOMAIN new = 1..l
  BY DEF MessageIds, Ids
<1>2. l \in 1..l /\ \A i \in 1..l : i # l => i \in 1..r
  OBVIOUS
<1>3. new[l].id = 0
  BY DEF Human
<1>4. l \in K /\ \A i \in 1..l : i \in K => i = l
  BY <1>1, <1>2, <1>3
<1> HIDE DEF K, l
<1>5. unknown \in Seq(Msg) /\ \E p : OnlyAt(unknown, new, K, p)
  BY OnlyLaid
<1>6. PICK p : OnlyAt(unknown, new, K, p)
  BY <1>5
<1> HIDE DEF unknown
<1>7. Len(new) = l
  BY DEF l
<1>8. p[l] \in 1..Len(unknown) /\ unknown[p[l]] = new[l]
  BY <1>2, <1>4, <1>6, <1>7 DEF OnlyAt
<1>9. ASSUME NEW j \in 1..Len(unknown) PROVE j = p[l]
  BY <1>4, <1>6, <1>7 DEF OnlyAt
<1>10. Len(unknown) \in Nat /\ DOMAIN unknown = 1..Len(unknown)
  BY <1>5
<1>11. p[l] = 1 /\ Len(unknown) = 1
  <2>1. 1 \in 1..Len(unknown) /\ Len(unknown) \in 1..Len(unknown)
    BY <1>8, <1>10
  <2> QED
    BY <1>9, <2>1
<1>12. unknown[1] = Human(0) /\ DOMAIN unknown = {1}
  BY <1>8, <1>10, <1>11 DEF l
<1>13. g = <<Human(lastId + 1)>>
  <2>1. Human(0).id = 0 /\ [Human(0) EXCEPT !.id = lastId + 1] = Human(lastId + 1)
    BY DEF Human
  <2>2. g = [n \in {1} |-> Human(lastId + 1)]
    BY <1>12, <2>1
  <2>3. [n \in {1} |-> Human(lastId + 1)] = <<Human(lastId + 1)>>
    OBVIOUS
  <2> QED
    BY <2>2, <2>3
<1> HIDE DEF g
<1>14. Human(lastId + 1) \in Msg
  BY DEF Human, HumanMsg, Msg
<1>15. ms \o <<Human(lastId + 1)>> = Append(ms, Human(lastId + 1))
  <2> DEFINE h == Human(lastId + 1)
  <2>1. h \in Msg
    BY <1>14
  <2> HIDE DEF h
  <2>2. ms \o <<h>> = Append(ms, h)
    BY <2>1
  <2> QED
    BY <2>2 DEF h
<1> QED
  BY <1>0, <1>13, <1>15

(* What its last run returned is submitted again, and the input is left as    *)
(* it is: the thread has it.                                                  *)
LEMMA AgainKnown ==
  ASSUME NEW ms, NEW ret \in Seq(Msg), NEW gone, NEW n, ThreadOK(ms, ret, gone, n), NEW l, Stored(ms, l),
         NEW input \in Seq(Msg), Begins(ret, input), Repaired(input) = input,
         Len(input) = Len(ret) + 1, input[Len(ret) + 1] = Human(0)
  PROVE  \A k \in 1..Len(ret) : ret[k].id \in Ids(ms) \ {0}
<1>0. ms \in Seq(Msg)
  BY BornFacts DEF ThreadOK
<1>1. 0 \notin Ids(ms) /\ Len(ret) \in Nat
  BY DEF Stored
<1>2. \A k \in 1..Len(ret) : k \in 1..Len(input) /\ input[k] = ret[k]
  BY <1>1 DEF Begins
<1>3. ASSUME NEW k \in 1..Len(ret)
      PROVE  \/ \E i \in 1..Len(ms) : ret[k] = ms[i]
             \/ ret[k].type = "tool" /\ ret[k].call \notin Declared(ms)
  BY DEF ThreadOK, Within
<1>4. ASSUME NEW k \in 1..Len(ret), ret[k].type = "tool", ret[k].call \notin Declared(ms) PROVE FALSE
  <2>1. ret[k].call \in Declared(input)
    BY <1>2, <1>4, RepairedNothing
  <2>2. PICK j \in 1..Len(input) : ret[k].call \in ToSet(Calls(input[j]))
    BY <2>1, DeclaredBy
  <2>3. Calls(input[j]) # <<>>
    BY <2>2 DEF ToSet
  <2>4. input[j].type = "ai"
    BY <2>3 DEF Calls
  <2>5. j \in 1..Len(ret)
    <3>1. j # Len(ret) + 1
      BY <2>4 DEF Human
    <3> QED
      BY <1>1, <3>1
  <2>6. PICK i \in 1..Len(ms) : ret[j] = ms[i]
    BY <1>2, <1>3, <2>4, <2>5
  <2>7. ret[k].call \in ToSet(Calls(ms[i]))
    BY <1>2, <2>2, <2>5, <2>6
  <2>8. ret[k].call \in Declared(ms)
    BY <1>0, <2>7, DeclaredBy
  <2> QED
    BY <1>4, <2>8
<1>5. ASSUME NEW k \in 1..Len(ret) PROVE ret[k].id \in Ids(ms)
  BY <1>3, <1>4 DEF Ids
<1> QED
  BY <1>1, <1>5

(* Every answer can be converted for every provider. *)
LEMMA AnswerBorn ==
  ASSUME NEW p \in Models, NEW thinks \in BOOLEAN, NEW calls \in Seq(Call), NEW bad \in Seq(Call),
         Len(bad) <= 1, calls = <<>> \/ bad = <<>>, lastId \in Nat
  PROVE  /\ Answer(p, thinks, calls, bad) \in Born
         /\ Answer(p, thinks, calls, bad).type = "ai" /\ Answer(p, thinks, calls, bad).id = lastId + 1
         /\ Made(Answer(p, thinks, calls, bad)) = IF calls # <<>> THEN calls ELSE bad
<1> DEFINE uses == calls # <<>>
           parts == {"text"} \cup {x \in {"signed"} : thinks /\ p = "ChatAnthropic"}
                    \cup {x \in {"unsigned"} : thinks /\ p = Gemini}
                    \cup {x \in {"tool_use"} : uses /\ p = "ChatAnthropic"}
           extra == {x \in {"reasoning_content"} : thinks /\ p = "ChatMoonshot"}
                    \cup {x \in {"signatures"} : uses /\ p = Gemini}
                    \cup {x \in {"tool_calls"} : uses /\ p \in {"ChatOpenAI", "ChatMoonshot"}}
           form == IF parts = {"text"} THEN "string" ELSE "list"
           m == Answer(p, thinks, calls, bad)
<1>1. /\ parts \in SUBSET {"text", "tool_use", "signed", "unsigned"}
      /\ extra \in SUBSET {"tool_calls", "reasoning_content", "signatures"}
      /\ form \in {"string", "list"}
  OBVIOUS
<1>2. /\ "signatures" \in extra => p = Gemini
      /\ "unsigned" \in parts => p = Gemini
      /\ "signed" \in parts => p = "ChatAnthropic"
      /\ "reasoning_content" \in extra => p = "ChatMoonshot"
      /\ "tool_calls" \in extra => p \in {"ChatOpenAI", "ChatMoonshot"}
  OBVIOUS
<1>3. m = [id |-> lastId + 1, type |-> "ai", from |-> p, form |-> form, parts |-> parts, extra |-> extra,
           calls |-> calls, bad |-> bad]
  <2>1. m = [Ai(lastId + 1, p, form, parts, extra, calls) EXCEPT !.bad = bad]
    BY Zenon DEF Answer
  <2> HIDE DEF parts, extra, form, m
  <2> QED
    BY <2>1 DEF Ai
<1> HIDE DEF parts, extra, form, m
<1>4. m \in AiMsg
  BY <1>1, <1>3 DEF AiMsg
<1>5. m.type = "ai" /\ m.id = lastId + 1 /\ m.from = p /\ m.parts = parts /\ m.extra = extra /\ m.calls = calls /\ m.bad = bad
  BY <1>3
<1>6. Origin(m) /\ FewBad(m)
  BY <1>2, <1>5 DEF Origin, FewBad
<1>7. ASSUME NEW q \in Models PROVE Native(m, q)
  BY <1>2, <1>5 DEF Native, Gemini
<1>8. m \in Born
  BY <1>4, <1>6, <1>7 DEF Born, Msg
<1>9. Made(m) = IF calls # <<>> THEN calls ELSE bad
  BY <1>5 DEF Made
<1> QED
  BY <1>5, <1>8, <1>9 DEF m

(* New calls have the next numbers. *)
LEMMA NewCallsAre ==
  ASSUME called \in Nat, NEW p, NEW k \in Nat
  PROVE  /\ NewCalls(p, k) \in Seq(Call) /\ Len(NewCalls(p, k)) = k
         /\ \A c \in ToSet(NewCalls(p, k)) : called < c.no /\ c.no <= called + k
<1> DEFINE u == NewCalls(p, k)
<1>1. u = [n \in 1..k |-> [no |-> called + n, clean |-> p # "ChatMoonshot"]]
  BY DEF NewCalls
<1>2. ASSUME NEW n \in 1..k
      PROVE  /\ [no |-> called + n, clean |-> p # "ChatMoonshot"] \in Call
             /\ called < called + n /\ called + n <= called + k
  <2>1. called + n \in Nat /\ called < called + n /\ called + n <= called + k
    OBVIOUS
  <2>2. (p # "ChatMoonshot") \in BOOLEAN
    OBVIOUS
  <2> QED
    BY <2>1, <2>2 DEF Call
<1> HIDE DEF u
<1>3. u \in [1..k -> Call]
  BY <1>1, <1>2
<1>4. u \in Seq(Call) /\ Len(u) = k /\ DOMAIN u = 1..k
  BY <1>3
<1>5. ASSUME NEW c \in ToSet(u) PROVE called < c.no /\ c.no <= called + k
  <2>1. PICK n \in 1..k : c = u[n]
    BY <1>4, <1>5 DEF ToSet
  <2>2. c.no = called + n
    BY <1>1, <2>1
  <2> QED
    BY <1>2, <2>1, <2>2
<1> QED
  BY <1>4, <1>5 DEF u

(* The tool node puts its results behind the thread. *)
UsedAs(ms, calls, out) ==
  /\ out \in Seq(Msg) /\ Begins(ms, out) /\ Len(out) = Len(ms) + Len(calls)
  /\ \A k \in 1..Len(calls) : out[Len(ms) + k] = Tool(lastId + k, calls[k])
  /\ NewIds(ms, out, (lastId + 1)..(lastId + Len(calls)))

(* The results follow in order, with new ids. *)
LEMMA UsesAre ==
  ASSUME NEW ms \in Seq(Msg), NEW calls \in Seq(Call), lastId \in Nat, Ids(ms) \subseteq 1..lastId,
         NEW out, out = ms \o [n \in DOMAIN calls |-> Tool(lastId + n, calls[n])]
  PROVE  UsedAs(ms, calls, out) /\ (ms \in Seq(Born) => out \in Seq(Born))
<1> DEFINE c == Len(calls)  w == [n \in DOMAIN calls |-> Tool(lastId + n, calls[n])]  b == Len(ms)
<1>0. b \in Nat /\ c \in Nat /\ DOMAIN calls = 1..c /\ out = ms \o w
  OBVIOUS
<1>1. \A k \in 1..c : calls[k] \in Call
  OBVIOUS
<1>2. DOMAIN w = 1..c /\ \A k \in 1..c : w[k] = Tool(lastId + k, calls[k])
  BY <1>0
<1> HIDE DEF w, c, b
<1>3. ASSUME NEW k \in 1..c
      PROVE  /\ Tool(lastId + k, calls[k]) \in Born /\ Tool(lastId + k, calls[k]) \in Msg
             /\ Tool(lastId + k, calls[k]).id = lastId + k
  <2> DEFINE x == calls[k]  y == lastId + k  m == Tool(y, x)
  <2>1. x \in Call /\ y \in Nat
    BY <1>0, <1>1
  <2> HIDE DEF x, y
  <2>2. m \in ToolMsg /\ m.type = "tool" /\ m.id = y
    BY <2>1 DEF Tool, ToolMsg
  <2> HIDE DEF m
  <2>3. m \in Msg
    BY <2>2 DEF Msg
  <2>4. Origin(m) /\ FewBad(m) /\ \A p \in Models : Native(m, p)
    BY <2>2 DEF Origin, FewBad, Native
  <2>5. m \in Born /\ m \in Msg /\ m.id = y
    BY <2>2, <2>3, <2>4 DEF Born
  <2> QED
    BY <2>5 DEF m, x, y
<1>4. w \in Seq(Msg) /\ w \in Seq(Born) /\ Len(w) = c
  <2>1. w = [k \in 1..c |-> w[k]]
    BY <1>2 DEF w
  <2>2. \A k \in 1..c : w[k] \in Born /\ w[k] \in Msg
    BY <1>2, <1>3
  <2>3. w \in [1..c -> Born] /\ w \in [1..c -> Msg]
    BY <2>1, <2>2
  <2> QED
    BY <1>0, <2>3
<1>5. out \in Seq(Msg) /\ Len(out) = b + c /\ (\A i \in 1..b : out[i] = ms[i]) /\ (\A k \in 1..c : out[b + k] = w[k])
  <2>1. w \in Seq(Msg) /\ Len(w) = c /\ Len(ms) = b
    BY <1>4 DEF b
  <2>2. ms \o w \in Seq(Msg) /\ Len(ms \o w) = Len(ms) + Len(w)
    BY <2>1, ConcatProperties, Zenon
  <2>3. \A i \in 1..Len(ms) : (ms \o w)[i] = ms[i]
    BY <2>1
  <2>4. \A k \in 1..Len(w) : (ms \o w)[Len(ms) + k] = w[k]
    BY <2>1
  <2> QED
    BY <1>0, <2>1, <2>2, <2>3, <2>4
<1>6. ms \in Seq(Born) => out \in Seq(Born)
  BY <1>0, <1>4
<1>7. Begins(ms, out)
  BY <1>0, <1>5 DEF Begins, b
<1>8. \A k \in 1..c : out[b + k] = Tool(lastId + k, calls[k]) /\ out[b + k].id = lastId + k
  BY <1>2, <1>3, <1>5
<1>9. NewIds(ms, out, (lastId + 1)..(lastId + c))
  <2>1. ASSUME NEW i \in (b + 1)..Len(out) PROVE i - b \in 1..c /\ out[i].id = lastId + (i - b)
    <3> DEFINE k == i - b
    <3>1. k \in 1..c /\ b + k = i
      BY <1>0, <1>5
    <3> HIDE DEF k
    <3>2. out[i].id = lastId + k
      BY <1>8, <3>1
    <3> QED
      BY <3>1, <3>2 DEF k
  <2>2. ASSUME NEW i \in (b + 1)..Len(out)
        PROVE  out[i].id \in (lastId + 1)..(lastId + c) /\ out[i].id \notin Ids(ms)
    <3> DEFINE k == i - b  x == out[i].id
    <3>1. k \in 1..c /\ x = lastId + k
      BY <2>1
    <3> HIDE DEF k, x
    <3>2. x \in (lastId + 1)..(lastId + c) /\ x \notin 1..lastId
      BY <1>0, <3>1
    <3> QED
      BY <3>2 DEF x
  <2>3. ASSUME NEW i \in (b + 1)..Len(out), NEW j \in (b + 1)..Len(out), out[i].id = out[j].id PROVE i = j
    <3>1. lastId + (i - b) = lastId + (j - b)
      BY <2>1, <2>3
    <3> QED
      BY <1>0, <3>1
  <2> QED
    BY <2>2, <2>3 DEF NewIds, b
<1> QED
  BY <1>5, <1>6, <1>7, <1>8, <1>9 DEF UsedAs, b, c

(* The results of the last answer. *)
LEMMA ThreadUsed ==
  ASSUME NEW ms, NEW ret, NEW gone, NEW n \in Nat, ThreadOK(ms, ret, gone, n), lastId \in Nat,
         Ids(ms) \subseteq 1..lastId, gone \subseteq 1..lastId,
         Len(ms) # 0, ms[Len(ms)].type # "tool", NEW calls, calls = Made(ms[Len(ms)]),
         NEW out, out = ms \o [k \in DOMAIN calls |-> Tool(lastId + k, calls[k])]
  PROVE  ThreadOK(out, ret, gone, n)
<1> DEFINE b == Len(ms)  c == Len(calls)
<1>0. ms \in Seq(Msg) /\ ms \in Seq(Born) /\ b \in Nat
  <2>1. ms \in Seq(Born)
    BY DEF ThreadOK
  <2> QED
    BY <2>1, BornFacts
<1>1. b \in 1..b /\ ms[b] \in Msg
  BY <1>0
<1>2. calls \in Seq(Call)
  BY <1>1, MsgFacts
<1>3. c \in Nat /\ \A k \in 1..c : calls[k] \in ToSet(calls)
  BY <1>2 DEF ToSet
<1>4. /\ out \in Seq(Msg) /\ Begins(ms, out) /\ Len(out) = Len(ms) + Len(calls)
      /\ \A k \in 1..Len(calls) : out[Len(ms) + k] = Tool(lastId + k, calls[k])
      /\ NewIds(ms, out, (lastId + 1)..(lastId + Len(calls)))
      /\ out \in Seq(Born)
  <2>1. UsedAs(ms, calls, out) /\ out \in Seq(Born)
    BY <1>0, <1>2, UsesAre
  <2> QED
    BY <2>1 DEF UsedAs
<1>5. \A k \in 1..Len(calls) : out[Len(ms) + k].type = "tool" /\ out[Len(ms) + k].call = calls[k]
  BY <1>4 DEF Tool
<1>6. Grouped(out)
  BY <1>0, <1>2, <1>4, <1>5, GroupedUsed DEF ThreadOK
<1>7. \A k \in 1..c : calls[k].no <= n
  <2>1. Numbered(ms[b], n)
    BY <1>1 DEF ThreadOK, Numbers
  <2> QED
    BY <1>3, <2>1 DEF Numbered
<1>8. ASSUME NEW i \in (Len(ms) + 1)..Len(out)
      PROVE  Made(out[i]) = <<>> /\ Numbered(out[i], n) /\ out[i].id \notin gone
  <2> DEFINE k == i - b
  <2>1. k \in 1..c /\ b + k = i
    BY <1>0, <1>3, <1>4
  <2> HIDE DEF k
  <2>2. out[i].type = "tool" /\ out[i].call = calls[k]
    BY <1>5, <2>1
  <2>3. out[i].call.no <= n
    BY <1>7, <2>1, <2>2
  <2>4. Made(out[i]) = <<>>
    BY <2>2 DEF Made
  <2>5. Numbered(out[i], n)
    BY <2>3, <2>4 DEF Numbered, ToSet
  <2>6. out[i].id \in (lastId + 1)..(lastId + Len(calls))
    BY <1>4 DEF NewIds
  <2>7. out[i].id \notin gone
    BY <2>6
  <2> QED
    BY <2>4, <2>5, <2>7
<1> QED
  BY <1>4, <1>6, <1>8, ThreadMore

(* A new message of the user. *)
LEMMA ThreadHuman ==
  ASSUME NEW ms, NEW ret, NEW gone, NEW n \in Nat, ThreadOK(ms, ret, gone, n), NEW x \in Nat, x \notin gone
  PROVE  ThreadOK(Append(ms, Human(x)), ret, gone, n)
<1> DEFINE h == Human(x)  out == Append(ms, h)
<1>0. ms \in Seq(Msg) /\ ms \in Seq(Born) /\ Len(ms) \in Nat
  <2>1. ms \in Seq(Born)
    BY DEF ThreadOK
  <2> QED
    BY <2>1, BornFacts
<1>1. h \in HumanMsg /\ h.type = "human" /\ h.id = x
  BY DEF Human, HumanMsg
<1> HIDE DEF h
<1>2. h \in Msg /\ h \in Born
  BY <1>1 DEF Born, Msg, Origin, Native, FewBad
<1>3. Made(h) = <<>> /\ Numbered(h, n)
  BY <1>1 DEF Made, Numbered, ToSet
<1>4. Grouped(out) /\ Begins(ms, out)
  BY <1>0, <1>1, <1>2, GroupedAppend DEF ThreadOK
<1>5. out \in Seq(Born) /\ Len(out) = Len(ms) + 1 /\ out[Len(ms) + 1] = h
  BY <1>0, <1>2
<1> HIDE DEF out
<1>6. \A i \in (Len(ms) + 1)..Len(out) : out[i] = h
  BY <1>0, <1>5
<1>7. ThreadOK(out, ret, gone, n)
  BY <1>1, <1>3, <1>4, <1>5, <1>6, ThreadMore
<1> QED
  BY <1>7 DEF out, h

\* -------------------------------------------------- the inductive invariant

Formed(r) == r = [model |-> r.model, msgs |-> r.msgs, orphans |-> r.orphans] /\ r.model \in Models

TypesOK ==
  /\ lastId \in 0..MaxLastId /\ called \in 0..MaxCalls
  /\ waiting \subseteq running /\ running \subseteq Chats /\ patched \subseteq Chats
  /\ at \in [Chats -> {"model", "tools", "end"}]
  /\ chat \in [Chats -> Seq(Msg)] /\ returned \in [Chats -> Seq(Msg)]
  /\ DOMAIN request = Chats /\ request = [t \in Chats |-> request[t]]
  /\ \A t \in waiting : Formed(request[t])

(* The ids of a thread, and of what its last run returned. *)
IdsOf(t) == Ids(chat[t]) \cup Ids(returned[t])

IdsApart ==
  /\ \A t \in Chats : Stored(chat[t], lastId) /\ Stored(returned[t], lastId)
  /\ \A s, t \in Chats : s # t => IdsOf(s) \cap IdsOf(t) = {}
  /\ removals \subseteq UNION {Ids(chat[t]) : t \in Chats}

ToolsLast == \A t \in Chats : at[t] = "tools" => Len(chat[t]) # 0 /\ chat[t][Len(chat[t])].type = "ai"

ThreadsOK == \A t \in Chats \ patched : ThreadOK(chat[t], returned[t], removals, called)

SentOK == \A t \in waiting \ patched : Sent(request[t].msgs, request[t].model)

PatchInv == TypesOK /\ IdsApart /\ ToolsLast /\ ThreadsOK /\ SentOK

(* The invariant is stronger than what is asked of the requests. *)
LEMMA PatchInvSound ==
  ASSUME PatchInv
  PROVE  RequestsSound
<1> USE PatchingAssumption
<1>1. TypesOK /\ IdsApart
  BY DEF PatchInv
<1>2. lastId \in Nat /\ 1..lastId \subseteq 1..MaxLastId
  BY <1>1 DEF TypesOK
<1>3. ASSUME NEW t \in Chats
      PROVE  /\ MessageIds(chat[t]) = Ids(chat[t]) /\ Ids(chat[t]) \subseteq 1..lastId
             /\ 0 \notin MessageIds(chat[t]) /\ Cardinality(MessageIds(chat[t])) = Len(chat[t])
  <2> DEFINE ms == chat[t]
  <2>1. ms \in Seq(Msg) /\ Stored(ms, lastId)
    BY <1>1 DEF TypesOK, IdsApart
  <2> HIDE DEF ms
  <2>2. DOMAIN ms = 1..Len(ms)
    BY <2>1
  <2>3. MessageIds(ms) = Ids(ms)
    BY <2>2 DEF MessageIds, Ids
  <2>4. Ids(ms) \subseteq 1..lastId
    BY <2>1 DEF Stored
  <2>5. 0 \notin MessageIds(ms) /\ Cardinality(MessageIds(ms)) = Len(ms)
    BY <1>2, <2>1, StoredCounted
  <2> QED
    BY <2>3, <2>4, <2>5 DEF ms
<1>4. removals \subseteq UNION {MessageIds(chat[t]) : t \in Chats}
  BY <1>1, <1>3 DEF IdsApart
<1>5. removals \subseteq 1..MaxLastId
  BY <1>2, <1>3, <1>4
<1>6. PatchTypeOK
  BY <1>1, <1>3, <1>5 DEF PatchTypeOK, TypesOK
<1>7. ASSUME NEW t \in waiting \ patched
      PROVE  /\ WellPaired(request[t].msgs)
             /\ \A i \in DOMAIN request[t].msgs : Accepts(request[t].model, request[t].msgs[i])
  <2>1. Sent(request[t].msgs, request[t].model)
    BY DEF PatchInv, SentOK
  <2>2. request[t].model \in Models
    BY <1>1 DEF TypesOK, Formed
  <2> QED
    BY <2>1, <2>2, SentSound
<1>8. RequestPaired
  BY <1>4, <1>6, <1>7 DEF RequestPaired
<1>9. SendShape
  BY <1>7 DEF SendShape
<1> QED
  BY <1>8, <1>9 DEF RequestsSound

(* The invariant holds of threads without messages. *)
LEMMA PatchInvInit ==
  ASSUME PatchInit
  PROVE  PatchInv
<1> USE PatchingAssumption
<1>1. \A t \in Chats : chat[t] = <<>> /\ returned[t] = <<>>
  BY DEF PatchInit
<1>2. <<>> \in Seq(Msg) /\ <<>> \in Seq(Born) /\ Len(<<>>) = 0 /\ 1..0 = {}
  OBVIOUS
<1>3. Ids(<<>>) = {} /\ Spread(<<>>) /\ Grouped(<<>>) /\ Apart(<<>>)
  BY <1>2 DEF Ids, Spread, Grouped, Apart
<1>4. TypesOK
  <2>1. DOMAIN request = Chats /\ request = [t \in Chats |-> request[t]]
    BY DEF PatchInit
  <2>2. chat \in [Chats -> Seq(Msg)] /\ returned \in [Chats -> Seq(Msg)]
    BY <1>2 DEF PatchInit
  <2>3. at \in [Chats -> {"model", "tools", "end"}]
    BY DEF PatchInit
  <2> QED
    BY <2>1, <2>2, <2>3 DEF PatchInit, TypesOK
<1>5. IdsApart
  BY <1>1, <1>3 DEF IdsApart, Stored, IdsOf, PatchInit
<1>6. ToolsLast
  BY DEF ToolsLast, PatchInit
<1>7. ThreadsOK
  <2>1. ThreadOK(<<>>, <<>>, {}, 0)
    BY <1>2, <1>3 DEF ThreadOK, Numbers, Undeclared, Within
  <2> QED
    BY <1>1, <2>1 DEF ThreadsOK, PatchInit
<1>8. SentOK
  BY DEF SentOK, PatchInit
<1> QED
  BY <1>4, <1>5, <1>6, <1>7, <1>8 DEF PatchInv

(* One thread gets messages with new ids, or its own again. *)
LEMMA IdsStep ==
  ASSUME TypesOK, IdsApart, NEW t \in Chats, NEW out, NEW ret,
         chat' = [chat EXCEPT ![t] = out], returned' = [returned EXCEPT ![t] = ret],
         lastId' \in Nat, lastId <= lastId', Stored(out, lastId'), Stored(ret, lastId'),
         Ids(out) \cup Ids(ret) \subseteq IdsOf(t) \cup (lastId + 1)..lastId',
         removals' = {} \/ (removals' = removals /\ Ids(chat[t]) \subseteq Ids(out))
  PROVE  IdsApart'
<1> USE PatchingAssumption
<1>1. lastId \in Nat /\ 1..lastId \subseteq 1..lastId'
  BY DEF TypesOK
<1>2. /\ chat'[t] = out /\ returned'[t] = ret
      /\ \A s \in Chats : s # t => chat'[s] = chat[s] /\ returned'[s] = returned[s]
  BY DEF TypesOK
<1>3. ASSUME NEW s \in Chats PROVE Stored(chat[s], lastId') /\ Stored(returned[s], lastId')
  BY <1>1 DEF IdsApart, Stored
<1>4. ASSUME NEW s \in Chats PROVE Stored(chat'[s], lastId') /\ Stored(returned'[s], lastId')
  BY <1>2, <1>3
<1>5. ASSUME NEW s \in Chats, s # t PROVE IdsOf(s)' = IdsOf(s)
  BY <1>2, <1>5 DEF IdsOf
<1>6. IdsOf(t)' \subseteq IdsOf(t) \cup (lastId + 1)..lastId'
  BY <1>2 DEF IdsOf
<1>7. ASSUME NEW s \in Chats PROVE IdsOf(s) \subseteq 1..lastId
  BY DEF IdsApart, Stored, IdsOf
<1>8. 1..lastId \cap (lastId + 1)..lastId' = {}
  BY <1>1
<1>9. ASSUME NEW s \in Chats, s # t PROVE IdsOf(s)' \cap IdsOf(t)' = {}
  <2>1. IdsOf(s) \cap IdsOf(t) = {}
    BY <1>9 DEF IdsApart
  <2> QED
    BY <1>5, <1>6, <1>7, <1>8, <1>9, <2>1
<1>10. ASSUME NEW r \in Chats, NEW s \in Chats, r # s PROVE IdsOf(r)' \cap IdsOf(s)' = {}
  <2>1. r # t /\ s # t => IdsOf(r) \cap IdsOf(s) = {}
    BY <1>10 DEF IdsApart
  <2> QED
    BY <1>5, <1>9, <1>10, <2>1
<1>11. removals' \subseteq UNION {Ids(chat'[s]) : s \in Chats}
  <2>1. CASE removals' = {}
    BY <2>1
  <2>2. CASE removals' = removals /\ Ids(chat[t]) \subseteq Ids(out)
    <3>1. \A s \in Chats : Ids(chat[s]) \subseteq Ids(chat'[s])
      BY <1>2, <2>2
    <3>2. removals \subseteq UNION {Ids(chat[s]) : s \in Chats}
      BY DEF IdsApart
    <3> QED
      BY <2>2, <3>1, <3>2
  <2> QED
    BY <2>1, <2>2
<1> QED
  BY <1>4, <1>10, <1>11 DEF IdsApart

\* -------------------------------------------------------------------- steps

(* What is queued for removal has been given. *)
LEMMA RemovalsGiven ==
  ASSUME IdsApart
  PROVE  removals \subseteq 1..lastId
  BY DEF IdsApart, Stored

(* What is submitted: what was returned, and a new message. *)
LEMMA InputIs ==
  ASSUME NEW base \in Seq(Msg), NEW l \in Nat, Stored(base, l), NEW input, input = base \o <<Human(0)>>
  PROVE  /\ input \in Seq(Msg) /\ Begins(base, input) /\ Len(input) = Len(base) + 1
         /\ input[Len(base) + 1] = Human(0) /\ Once(input) /\ Ids(input) \subseteq Ids(base) \cup {0}
<1> DEFINE h == Human(0)  n == Len(base)
<1>1. h \in Msg /\ h.id = 0
  BY DEF Human, HumanMsg, Msg
<1>2. input = Append(base, h)
  <2>1. h \in Msg
    BY <1>1
  <2> HIDE DEF h
  <2>2. base \o <<h>> = Append(base, h)
    BY <2>1
  <2> QED
    BY <2>2 DEF h
<1> HIDE DEF h
<1>3. /\ input \in Seq(Msg) /\ Len(input) = n + 1 /\ input[n + 1] = h /\ n \in Nat
      /\ \A i \in 1..n : input[i] = base[i]
  BY <1>1, <1>2
<1> HIDE DEF n
<1>4. Begins(base, input)
  BY <1>3 DEF Begins, n
<1>5. \A i \in 1..Len(input) : i \in 1..n \/ i = n + 1
  BY <1>3
<1>6. \A i \in 1..n : base[i].id \in Ids(base)
  BY DEF Ids, n
<1>7. Ids(input) \subseteq Ids(base) \cup {0}
  <2>1. ASSUME NEW i \in 1..Len(input) PROVE input[i].id \in Ids(base) \cup {0}
    BY <1>1, <1>3, <1>5, <1>6
  <2> QED
    BY <2>1 DEF Ids
<1>8. Once(input)
  <2> SUFFICES ASSUME NEW i \in 1..Len(input), NEW j \in 1..Len(input), input[i].id = input[j].id, input[i].id # 0
               PROVE  i = j
    BY DEF Once
  <2>1. i \in 1..n /\ j \in 1..n
    BY <1>1, <1>3, <1>5
  <2>2. base[i].id = base[j].id
    BY <1>3, <2>1
  <2> QED
    BY <2>1, <2>2 DEF Stored, Spread, n
<1> QED
  BY <1>3, <1>4, <1>7, <1>8 DEF h, n

(* If an input is not changed, the thread has all of it but the new message. *)
LEMMA InvokeAppends ==
  ASSUME PatchInv, NEW t \in Chats, NEW again \in BOOLEAN, Invoke(t, again), t \notin patched'
  PROVE  chat'[t] = Append(chat[t], Human(lastId + 1))
<1> DEFINE old == chat[t]
           base == IF again THEN returned[t] ELSE <<>>
           input == base \o <<Human(0)>>
           rep == Repaired(input)
<1>1. TypesOK /\ IdsApart /\ ToolsLast /\ ThreadsOK /\ SentOK
  BY DEF PatchInv
<1>2. /\ chat' = [chat EXCEPT ![t] = Added(@, rep)]
      /\ patched' = patched \cup IF rep # input THEN {t} ELSE {}
  BY Zenon DEF Invoke
<1>3. old \in Seq(Msg) /\ returned[t] \in Seq(Msg) /\ Stored(old, lastId) /\ Stored(returned[t], lastId) /\ lastId \in Nat
  BY <1>1 DEF TypesOK, IdsApart
<1>4. base \in Seq(Msg) /\ Stored(base, lastId)
  <2>1. CASE again
    BY <1>3, <2>1
  <2>2. CASE ~ again
    <3>1. base = <<>>
      BY <2>2
    <3>2. <<>> \in Seq(Msg) /\ 1..Len(<<>>) = {}
      OBVIOUS
    <3>3. Ids(<<>>) = {} /\ Spread(<<>>)
      BY <3>2 DEF Ids, Spread
    <3> QED
      BY <3>1, <3>2, <3>3 DEF Stored
  <2> QED
    BY <2>1, <2>2
<1>5. ~ again => base = <<>>
  OBVIOUS
<1>6. again => base = returned[t]
  OBVIOUS
<1>7. input = base \o <<Human(0)>>
  OBVIOUS
<1> HIDE DEF base, input
<1>8. /\ input \in Seq(Msg) /\ Begins(base, input) /\ Len(input) = Len(base) + 1
      /\ input[Len(base) + 1] = Human(0)
  BY <1>3, <1>4, <1>7, InputIs
<1>9. chat'[t] = Added(old, rep)
  BY <1>1, <1>2 DEF TypesOK
<1>10. t \notin patched /\ rep = input
  BY <1>2
<1> HIDE DEF rep
<1>11. ThreadOK(old, returned[t], removals, called)
  BY <1>1, <1>10 DEF ThreadsOK
<1>12. Repaired(input) = input
  BY <1>10 DEF rep
<1>13. \A k \in 1..Len(base) : base[k].id \in Ids(old) \ {0}
  <2>1. CASE again
    <3>1. base = returned[t]
      BY <1>6, <2>1
    <3> HIDE DEF old
    <3> QED
      BY <1>3, <1>8, <1>11, <1>12, <3>1, AgainKnown
  <2>2. CASE ~ again
    <3>1. 1..Len(<<>>) = {}
      OBVIOUS
    <3> QED
      BY <1>5, <2>2, <3>1
  <2> QED
    BY <2>1, <2>2
<1>14. \A k \in 1..Len(base) : input[k].id \in Ids(old) \ {0}
  BY <1>8, <1>13 DEF Begins
<1>15. Len(base) \in Nat
  BY <1>4
<1> HIDE DEF old
<1>16. Added(old, input) = Append(old, Human(lastId + 1))
  BY <1>3, <1>8, <1>14, <1>15, AddedLast
<1> QED
  BY <1>9, <1>10, <1>16 DEF old

(* A new run: an input is repaired and added to the thread. *)
LEMMA InvokeStep ==
  ASSUME PatchInv, NEW t \in Chats, NEW again \in BOOLEAN, Invoke(t, again)
  PROVE  PatchInv'
<1> USE PatchingAssumption
<1> DEFINE old == chat[t]
           base == IF again THEN returned[t] ELSE <<>>
           input == base \o <<Human(0)>>
           rep == Repaired(input)
           out == Added(old, rep)
<1>1. TypesOK /\ IdsApart /\ ToolsLast /\ ThreadsOK /\ SentOK
  BY DEF PatchInv
<1>2. /\ chat' = [chat EXCEPT ![t] = Added(@, rep)]
      /\ patched' = patched \cup IF rep # input THEN {t} ELSE {}
      /\ lastId' = lastId + Len(chat'[t]) - Len(chat[t]) /\ lastId' <= MaxLastId
      /\ t \notin running /\ running' = running \cup {t} /\ at' = [at EXCEPT ![t] = "model"]
      /\ UNCHANGED <<request, waiting, removals, returned, called>>
  BY Zenon DEF Invoke
<1>3. old \in Seq(Msg) /\ returned[t] \in Seq(Msg) /\ Stored(old, lastId) /\ Stored(returned[t], lastId) /\ lastId \in Nat
  BY <1>1 DEF TypesOK, IdsApart
<1>4. base \in Seq(Msg) /\ Stored(base, lastId) /\ Ids(base) \subseteq Ids(returned[t])
  <2>1. CASE again
    BY <1>3, <2>1
  <2>2. CASE ~ again
    <3>1. base = <<>>
      BY <2>2
    <3>2. <<>> \in Seq(Msg) /\ 1..Len(<<>>) = {}
      OBVIOUS
    <3>3. Ids(<<>>) = {} /\ Spread(<<>>)
      BY <3>2 DEF Ids, Spread
    <3> QED
      BY <3>1, <3>2, <3>3 DEF Stored
  <2> QED
    BY <2>1, <2>2
<1>5. ~ again => base = <<>>
  OBVIOUS
<1>6. again => base = returned[t]
  OBVIOUS
<1>7. input = base \o <<Human(0)>>
  OBVIOUS
<1> HIDE DEF base, input
<1>8. /\ input \in Seq(Msg) /\ Begins(base, input) /\ Len(input) = Len(base) + 1
      /\ input[Len(base) + 1] = Human(0) /\ Once(input) /\ Ids(input) \subseteq Ids(base) \cup {0}
  BY <1>3, <1>4, <1>7, InputIs
<1>9. rep \in Seq(Msg) /\ Once(rep) /\ Ids(rep) \subseteq Ids(input) \cup {0}
  BY <1>8, RepairedOnce
<1>10. Ids(rep) \subseteq Ids(returned[t]) \cup {0} /\ Ids(rep) \subseteq 0..lastId
  <2>1. Ids(returned[t]) \subseteq 1..lastId
    BY <1>3 DEF Stored
  <2>2. 1..lastId \subseteq 0..lastId /\ 0 \in 0..lastId
    BY <1>3
  <2> QED
    BY <1>4, <1>8, <1>9, <2>1, <2>2
<1>11. chat' = [chat EXCEPT ![t] = out] /\ chat'[t] = out
  BY <1>1, <1>2 DEF TypesOK
<1> HIDE DEF rep
<1>12. /\ out \in Seq(Msg) /\ Begins(old, out)
       /\ lastId + Len(out) - Len(old) \in Nat
       /\ lastId <= lastId + Len(out) - Len(old)
       /\ Stored(out, lastId + Len(out) - Len(old))
       /\ Ids(old) \subseteq Ids(out)
       /\ Ids(out) \subseteq Ids(old) \cup Ids(rep) \cup (lastId + 1)..(lastId + Len(out) - Len(old))
  BY <1>3, <1>9, <1>10, AddedIds
<1> HIDE DEF out
<1>13. lastId' = lastId + Len(out) - Len(old)
  BY <1>2, <1>11
<1>14. Stored(out, lastId') /\ lastId' \in Nat /\ lastId <= lastId'
       /\ Ids(out) \subseteq Ids(old) \cup Ids(rep) \cup (lastId + 1)..lastId'
  BY <1>12, <1>13
<1>15. lastId' \in 0..MaxLastId
  BY <1>2, <1>14
<1>16. TypesOK'
  <2>1. chat' \in [Chats -> Seq(Msg)]
    BY <1>1, <1>11, <1>12 DEF TypesOK
  <2>2. at' \in [Chats -> {"model", "tools", "end"}]
    BY <1>1, <1>2 DEF TypesOK
  <2> QED
    BY <1>1, <1>2, <1>15, <2>1, <2>2 DEF TypesOK
<1>17. IdsApart'
  <2> DEFINE ret == returned[t]
  <2>1. returned' = [returned EXCEPT ![t] = ret]
    BY <1>1, <1>2 DEF TypesOK
  <2>2. Stored(ret, lastId')
    <3>1. 1..lastId \subseteq 1..lastId'
      BY <1>3, <1>14
    <3> QED
      BY <1>3, <3>1 DEF Stored
  <2>3. 0 \notin Ids(out)
    BY <1>14 DEF Stored
  <2>4. Ids(out) \cup Ids(ret) \subseteq IdsOf(t) \cup (lastId + 1)..lastId'
    BY <1>10, <1>14, <2>3 DEF IdsOf
  <2>5. removals' = removals /\ Ids(chat[t]) \subseteq Ids(out)
    BY <1>2, <1>12
  <2> HIDE DEF ret
  <2> QED
    BY <1>1, <1>11, <1>14, <2>1, <2>2, <2>4, <2>5, IdsStep
<1>18. ToolsLast'
  <2> SUFFICES ASSUME NEW s \in Chats, at'[s] = "tools"
               PROVE  Len(chat'[s]) # 0 /\ chat'[s][Len(chat'[s])].type = "ai"
    BY DEF ToolsLast
  <2>1. s # t /\ at'[s] = at[s]
    BY <1>1, <1>2 DEF TypesOK
  <2>2. chat'[s] = chat[s]
    BY <1>1, <1>11, <2>1 DEF TypesOK
  <2> QED
    BY <1>1, <2>1, <2>2 DEF ToolsLast
<1>19. ASSUME t \notin patched' PROVE ThreadOK(chat'[t], returned[t], removals, called)
  <2>1. t \notin patched
    BY <1>2, <1>19
  <2>2. ThreadOK(old, returned[t], removals, called) /\ called \in Nat
    BY <1>1, <2>1 DEF ThreadsOK, TypesOK
  <2>3. chat'[t] = Append(old, Human(lastId + 1))
    BY <1>19, InvokeAppends
  <2>4. lastId + 1 \in Nat /\ lastId + 1 \notin removals
    <3>1. lastId + 1 \in Nat /\ lastId + 1 \notin 1..lastId
      BY <1>3
    <3> QED
      BY <1>1, <3>1, RemovalsGiven
  <2> QED
    BY <2>2, <2>3, <2>4, ThreadHuman
<1>20. ThreadsOK'
  <2> SUFFICES ASSUME NEW s \in Chats, s \notin patched'
               PROVE  ThreadOK(chat'[s], returned'[s], removals', called')
    BY DEF ThreadsOK
  <2>1. CASE s = t
    BY <1>2, <1>19, <2>1
  <2>2. CASE s # t
    <3>1. s \notin patched /\ chat'[s] = chat[s]
      BY <1>1, <1>2, <1>11, <2>2 DEF TypesOK
    <3>2. ThreadOK(chat[s], returned[s], removals, called)
      BY <1>1, <3>1 DEF ThreadsOK
    <3> QED
      BY <1>2, <3>1, <3>2
  <2> QED
    BY <2>1, <2>2
<1>21. SentOK'
  BY <1>1, <1>2 DEF SentOK
<1> QED
  BY <1>16, <1>17, <1>18, <1>20, <1>21 DEF PatchInv

(* Nothing but who runs and who waits. *)
LEMMA QuietStep ==
  ASSUME PatchInv, UNCHANGED <<chat, at, request, removals, returned, lastId, called, patched>>,
         running' \subseteq Chats, waiting' \subseteq running', waiting' \subseteq waiting
  PROVE  PatchInv'
<1>1. TypesOK /\ IdsApart /\ ToolsLast /\ ThreadsOK /\ SentOK
  BY DEF PatchInv
<1>2. TypesOK'
  BY <1>1 DEF TypesOK
<1>3. IdsApart'
  BY <1>1 DEF IdsApart, IdsOf
<1>4. ToolsLast'
  BY <1>1 DEF ToolsLast
<1>5. ThreadsOK'
  BY <1>1 DEF ThreadsOK
<1>6. SentOK'
  BY <1>1 DEF SentOK
<1> QED
  BY <1>2, <1>3, <1>4, <1>5, <1>6 DEF PatchInv

(* A request is built, and orphans are queued for removal. *)
LEMMA AsksStep ==
  ASSUME PatchInv, NEW t \in Chats, NEW p \in Providers, Asks(t, p)
  PROVE  PatchInv'
<1> USE PatchingAssumption
<1> DEFINE ids == OrphanIds(chat[t])
           r == [model |-> p, msgs |-> Wrapped(chat[t], p), orphans |-> ids # {}]
<1>1. TypesOK /\ IdsApart /\ ToolsLast /\ ThreadsOK /\ SentOK
  BY DEF PatchInv
<1>2. /\ t \in running \ waiting
      /\ removals' = removals \cup ids
      /\ request' = [request EXCEPT ![t] = r]
      /\ waiting' = waiting \cup {t}
      /\ UNCHANGED <<chat, at, running, returned, lastId, called, patched>>
  BY DEF Asks
<1>3. p \in Models
  OBVIOUS
<1>4. ids \subseteq Ids(chat[t])
  <2> DEFINE ms == chat[t]
  <2>1. ms \in Seq(Msg)
    BY <1>1 DEF TypesOK
  <2> HIDE DEF ms
  <2>2. DOMAIN ms = 1..Len(ms)
    BY <2>1
  <2>3. OrphanIds(ms) \subseteq Ids(ms)
    BY <2>2 DEF OrphanIds, Ids
  <2> QED
    BY <2>3 DEF ms
<1>5. r.model = p /\ r.msgs = Wrapped(chat[t], p) /\ r = [model |-> r.model, msgs |-> r.msgs, orphans |-> r.orphans]
  OBVIOUS
<1> HIDE DEF r, ids
<1>6. DOMAIN request' = Chats /\ request'[t] = r /\ \A s \in Chats : s # t => request'[s] = request[s]
  BY <1>1, <1>2 DEF TypesOK
<1>7. TypesOK'
  <2>1. request' = [s \in Chats |-> request'[s]]
    BY <1>1, <1>2, <1>6 DEF TypesOK
  <2>2. Formed(r)
    BY <1>3, <1>5 DEF Formed
  <2>3. \A s \in waiting' : Formed(request'[s])
    BY <1>1, <1>2, <1>6, <2>2 DEF TypesOK
  <2>4. waiting' \subseteq running'
    BY <1>1, <1>2 DEF TypesOK
  <2> QED
    BY <1>1, <1>2, <1>6, <2>1, <2>3, <2>4 DEF TypesOK
<1>8. IdsApart'
  <2>1. removals' \subseteq UNION {Ids(chat'[s]) : s \in Chats}
    BY <1>1, <1>2, <1>4 DEF IdsApart
  <2> QED
    BY <1>1, <1>2, <2>1 DEF IdsApart, IdsOf
<1>9. ToolsLast'
  BY <1>1, <1>2 DEF ToolsLast
<1>10. ThreadsOK'
  <2> SUFFICES ASSUME NEW s \in Chats, s \notin patched
               PROVE  ThreadOK(chat[s], returned[s], removals \cup ids, called)
    BY <1>2 DEF ThreadsOK
  <2>1. ThreadOK(chat[s], returned[s], removals, called)
    BY <1>1 DEF ThreadsOK
  <2>2. CASE s = t
    <3>1. Spread(chat[s])
      BY <1>1 DEF IdsApart, Stored
    <3> QED
      BY <2>1, <2>2, <3>1, ThreadAsked DEF ids
  <2>3. CASE s # t
    <3>1. Ids(chat[s]) \cap ids = {}
      BY <1>1, <1>4, <2>3 DEF IdsApart, IdsOf
    <3>2. \A i \in 1..Len(chat[s]) : chat[s][i].id \in removals \cup ids => chat[s][i].id \in removals
      BY <3>1 DEF Ids
    <3> QED
      BY <2>1, <3>2, ThreadGone
  <2> QED
    BY <2>2, <2>3
<1>11. SentOK'
  <2> SUFFICES ASSUME NEW s \in waiting', s \notin patched
               PROVE  Sent(request'[s].msgs, request'[s].model)
    BY <1>2 DEF SentOK
  <2>1. CASE s = t
    <3>1. ThreadOK(chat[t], returned[t], removals, called)
      BY <1>1, <2>1 DEF ThreadsOK
    <3> DEFINE ms == chat[t]
    <3>2. ms \in Seq(Ready(p)) /\ Grouped(ms) /\ Apart(ms) /\ \A i \in 1..Len(ms) : FewBad(ms[i])
      BY <1>3, <3>1, BornFacts DEF ThreadOK
    <3> HIDE DEF ms
    <3>3. Sent(Wrapped(ms, p), p)
      BY <1>3, <3>2, WrappedSent
    <3> QED
      BY <1>5, <1>6, <2>1, <3>3 DEF ms
  <2>2. CASE s # t
    <3>1. s \in waiting /\ s \in Chats
      BY <1>1, <1>2, <2>2 DEF TypesOK
    <3> QED
      BY <1>1, <1>6, <2>2, <3>1 DEF SentOK
  <2> QED
    BY <2>1, <2>2
<1> QED
  BY <1>7, <1>8, <1>9, <1>10, <1>11 DEF PatchInv

(* A request is healed and sent again. *)
LEMMA HealsStep ==
  ASSUME PatchInv, NEW t \in Chats, Heals(t)
  PROVE  PatchInv'
<1>1. TypesOK /\ IdsApart /\ ToolsLast /\ ThreadsOK /\ SentOK
  BY DEF PatchInv
<1>2. PICK corrupted \in BOOLEAN : request' = [request EXCEPT ![t].msgs = Healed(@, request[t].model, corrupted)]
  BY DEF Heals
<1>3. t \in waiting /\ UNCHANGED <<chat, at, running, waiting, removals, returned, lastId, called, patched>>
  BY DEF Heals
<1> DEFINE r == request[t]  p == r.model  x == Healed(r.msgs, p, corrupted)
<1>4. r = [model |-> r.model, msgs |-> r.msgs, orphans |-> r.orphans] /\ p \in Models
  BY <1>1, <1>3 DEF TypesOK, Formed
<1>5. request' = [request EXCEPT ![t] = [r EXCEPT !.msgs = x]]
  BY <1>2
<1> HIDE DEF x
<1> DEFINE r2 == [r EXCEPT !.msgs = x]
<1>6. r2.model = p /\ r2.msgs = x /\ Formed(r2)
  <2> DEFINE o == r.orphans  m == r.msgs  q == r.model
  <2>1. r = [model |-> q, msgs |-> m, orphans |-> o] /\ q \in Models
    BY <1>4
  <2> HIDE DEF o, m, q
  <2>2. r2 = [model |-> q, msgs |-> x, orphans |-> o]
    BY <2>1
  <2>3. r2.model = q /\ r2.msgs = x /\ r2 = [model |-> r2.model, msgs |-> r2.msgs, orphans |-> r2.orphans]
    BY <2>2
  <2> QED
    BY <2>1, <2>3 DEF Formed, q
<1> HIDE DEF r2
<1>7. DOMAIN request' = Chats /\ request'[t] = r2 /\ \A s \in Chats : s # t => request'[s] = request[s]
  BY <1>1, <1>3, <1>5 DEF TypesOK, r2
<1>8. TypesOK'
  <2>1. request' = [s \in Chats |-> request'[s]]
    BY <1>1, <1>3, <1>5, <1>7 DEF TypesOK
  <2>2. \A s \in waiting' : Formed(request'[s])
    BY <1>1, <1>3, <1>6, <1>7 DEF TypesOK
  <2> QED
    BY <1>1, <1>3, <1>7, <2>1, <2>2 DEF TypesOK
<1>9. IdsApart'
  BY <1>1, <1>3 DEF IdsApart, IdsOf
<1>10. ToolsLast'
  BY <1>1, <1>3 DEF ToolsLast
<1>11. ThreadsOK'
  BY <1>1, <1>3 DEF ThreadsOK
<1>12. SentOK'
  <2> SUFFICES ASSUME NEW s \in waiting, s \notin patched
               PROVE  Sent(request'[s].msgs, request'[s].model)
    BY <1>3 DEF SentOK
  <2>1. Sent(request[s].msgs, request[s].model) /\ s \in Chats
    BY <1>1 DEF SentOK, TypesOK
  <2>2. CASE s = t
    <3>1. Sent(r.msgs, p)
      BY <2>1, <2>2
    <3>2. Sent(x, p)
      BY <1>4, <3>1, HealedSent DEF x
    <3> QED
      BY <1>6, <1>7, <2>2, <3>2
  <2>3. CASE s # t
    BY <1>7, <2>1, <2>3
  <2> QED
    BY <2>2, <2>3
<1> QED
  BY <1>8, <1>9, <1>10, <1>11, <1>12 DEF PatchInv

(* The results come. *)
LEMMA UsesStep ==
  ASSUME PatchInv, NEW t \in Chats, Uses(t)
  PROVE  PatchInv'
<1> USE PatchingAssumption
<1> DEFINE old == chat[t]
           m == Last(old)
           calls == IF m.calls # <<>> THEN m.calls ELSE m.bad
           out == old \o [n \in DOMAIN calls |-> Tool(lastId + n, calls[n])]
<1>1. TypesOK /\ IdsApart /\ ToolsLast /\ ThreadsOK /\ SentOK
  BY DEF PatchInv
<1>2. /\ t \in running /\ at[t] = "tools"
      /\ lastId + Len(calls) <= MaxLastId
      /\ chat' = [chat EXCEPT ![t] = out]
      /\ lastId' = lastId + Len(calls)
      /\ at' = [at EXCEPT ![t] = "model"]
      /\ UNCHANGED <<running, request, waiting, removals, returned, called, patched>>
  BY Zenon DEF Uses
<1>3. old \in Seq(Msg) /\ Stored(old, lastId) /\ lastId \in Nat /\ returned[t] \in Seq(Msg) /\ Stored(returned[t], lastId)
  BY <1>1 DEF TypesOK, IdsApart
<1>4. Len(old) # 0 /\ old[Len(old)].type = "ai"
  BY <1>1, <1>2 DEF ToolsLast
<1>5. m = old[Len(old)]
  BY DEF Last
<1>6. calls = Made(old[Len(old)])
  BY <1>4, <1>5 DEF Made
<1>7. calls \in Seq(Call)
  <2>1. Len(old) \in 1..Len(old)
    BY <1>3, <1>4
  <2>2. old[Len(old)] \in Msg
    BY <1>3, <2>1
  <2> QED
    BY <1>6, <2>2, MsgFacts
<1>8. Ids(old) \subseteq 1..lastId
  BY <1>3 DEF Stored
<1> HIDE DEF calls, m, old
<1>9. out = old \o [n \in DOMAIN calls |-> Tool(lastId + n, calls[n])]
  OBVIOUS
<1> HIDE DEF out
<1>10. /\ out \in Seq(Msg) /\ Begins(old, out)
       /\ NewIds(old, out, (lastId + 1)..(lastId + Len(calls)))
  <2>1. UsedAs(old, calls, out)
    BY <1>3, <1>7, <1>8, <1>9, UsesAre
  <2> QED
    BY <2>1 DEF UsedAs
<1>11. Len(calls) \in Nat
  BY <1>7
<1>12. lastId' \in Nat /\ lastId <= lastId' /\ (lastId + 1)..lastId' \subseteq 1..lastId' /\ lastId' <= MaxLastId
  BY <1>2, <1>3, <1>11
<1>13. Stored(out, lastId') /\ Ids(old) \subseteq Ids(out) /\ Ids(out) \subseteq Ids(old) \cup (lastId + 1)..lastId'
  <2>1. NewIds(old, out, (lastId + 1)..lastId')
    BY <1>2, <1>10
  <2> DEFINE l2 == lastId'  X == (lastId + 1)..lastId'
  <2>2. l2 \in Nat /\ lastId <= l2 /\ X \subseteq 1..l2 /\ NewIds(old, out, X)
    BY <1>12, <2>1
  <2> HIDE DEF l2, X
  <2>3. Stored(out, l2) /\ Ids(old) \subseteq Ids(out) /\ Ids(out) \subseteq Ids(old) \cup X
    BY <1>3, <1>10, <2>2, StoredMore
  <2> QED
    BY <2>3 DEF l2, X
<1>14. chat'[t] = out /\ \A s \in Chats : s # t => chat'[s] = chat[s]
  BY <1>1, <1>2 DEF TypesOK
<1>15. TypesOK'
  <2>1. chat' \in [Chats -> Seq(Msg)]
    BY <1>1, <1>2, <1>10 DEF TypesOK
  <2>2. at' \in [Chats -> {"model", "tools", "end"}]
    BY <1>1, <1>2 DEF TypesOK
  <2>3. lastId' \in 0..MaxLastId
    BY <1>12
  <2>4. UNCHANGED <<running, request, waiting, returned, called, patched>>
    BY <1>2
  <2> QED
    BY <1>1, <2>1, <2>2, <2>3, <2>4 DEF TypesOK
<1>16. IdsApart'
  <2> DEFINE ret == returned[t]
  <2>1. returned' = [returned EXCEPT ![t] = ret]
    BY <1>1, <1>2 DEF TypesOK
  <2>2. Stored(ret, lastId')
    <3>1. 1..lastId \subseteq 1..lastId'
      BY <1>3, <1>12
    <3> QED
      BY <1>3, <3>1 DEF Stored
  <2>3. Ids(out) \cup Ids(ret) \subseteq IdsOf(t) \cup (lastId + 1)..lastId'
    BY <1>13 DEF IdsOf, old
  <2>4. removals' = removals /\ Ids(chat[t]) \subseteq Ids(out)
    BY <1>2, <1>13 DEF old
  <2> HIDE DEF ret
  <2> QED
    BY <1>1, <1>2, <1>12, <1>13, <2>1, <2>2, <2>3, <2>4, IdsStep
<1>17. ToolsLast'
  <2> SUFFICES ASSUME NEW s \in Chats, at'[s] = "tools"
               PROVE  Len(chat'[s]) # 0 /\ chat'[s][Len(chat'[s])].type = "ai"
    BY DEF ToolsLast
  <2>1. s # t /\ at'[s] = at[s]
    BY <1>1, <1>2 DEF TypesOK
  <2> QED
    BY <1>1, <1>14, <2>1 DEF ToolsLast
<1>18. ThreadsOK'
  <2> SUFFICES ASSUME NEW s \in Chats, s \notin patched
               PROVE  ThreadOK(chat'[s], returned[s], removals, called)
    BY <1>2 DEF ThreadsOK
  <2>1. ThreadOK(chat[s], returned[s], removals, called) /\ called \in Nat
    BY <1>1 DEF ThreadsOK, TypesOK
  <2>2. CASE s = t
    <3>1. ThreadOK(old, returned[t], removals, called)
      BY <2>1, <2>2 DEF old
    <3>2. removals \subseteq 1..lastId
      BY <1>1, RemovalsGiven
    <3>3. ThreadOK(out, returned[t], removals, called)
      BY <1>3, <1>4, <1>6, <1>8, <1>9, <2>1, <3>1, <3>2, ThreadUsed
    <3> QED
      BY <1>14, <2>2, <3>3
  <2>3. CASE s # t
    BY <1>14, <2>1, <2>3
  <2> QED
    BY <2>2, <2>3
<1>19. SentOK'
  BY <1>1, <1>2 DEF SentOK
<1> QED
  BY <1>15, <1>16, <1>17, <1>18, <1>19 DEF PatchInv

(* What stays of a thread when results are removed, and the answer behind it. *)
Answered(ms, m, out) ==
  /\ out \in Seq(Msg) /\ Len(out) \in Nat \ {0} /\ out[Len(out)] = m
  /\ Stored(out, lastId + 1) /\ Ids(out) \subseteq Ids(ms) \cup (lastId + 1)..(lastId + 1)

(* Its ids stay its own. *)
LEMMA AnsweredStored ==
  ASSUME NEW ms \in Seq(Msg), lastId \in Nat, Stored(ms, lastId), NEW gone, NEW m \in Msg, m.id = lastId + 1,
         NEW out, out = Append(Remaining(ms, gone), m)
  PROVE  Answered(ms, m, out)
<1> DEFINE rem == Remaining(ms, gone)  X == (lastId + 1)..(lastId + 1)  l == lastId + 1
<1>1. rem \in Seq(Msg) /\ \A j \in 1..Len(rem) : \E i \in 1..Len(ms) : ms[i].id \notin gone /\ rem[j] = ms[i]
  BY RemainingAre
<1>2. Once(ms) /\ 0 \notin Ids(ms) /\ Ids(ms) \subseteq 1..lastId
  BY DEF Once, Stored, Spread
<1>3. Once(rem)
  BY <1>2, OnlySifts, SiftsOnce DEF Remaining
<1> HIDE DEF rem
<1>4. Ids(rem) \subseteq Ids(ms)
  BY <1>1 DEF Ids
<1>5. Stored(rem, lastId)
  <2>1. \A i \in 1..Len(rem) : rem[i].id \in Ids(rem)
    BY DEF Ids
  <2>2. \A i \in 1..Len(rem) : rem[i].id # 0
    BY <1>2, <1>4, <2>1
  <2> QED
    BY <1>2, <1>3, <1>4, <2>2 DEF Stored, Spread, Once
<1>6. /\ out \in Seq(Msg) /\ Len(out) = Len(rem) + 1 /\ out[Len(rem) + 1] = m /\ Len(rem) \in Nat
      /\ \A i \in 1..Len(rem) : out[i] = rem[i]
  BY <1>1 DEF rem
<1>7. Begins(rem, out)
  BY <1>6 DEF Begins
<1>8. l \in Nat /\ lastId <= l /\ X \subseteq 1..l /\ l \in X /\ l \notin 1..lastId
  OBVIOUS
<1> HIDE DEF X
<1>9. NewIds(rem, out, X)
  <2>1. \A i \in (Len(rem) + 1)..Len(out) : i = Len(rem) + 1
    BY <1>6
  <2>2. m.id \in X /\ m.id \notin Ids(rem)
    BY <1>2, <1>4, <1>8
  <2> QED
    BY <1>6, <2>1, <2>2 DEF NewIds
<1> HIDE DEF l
<1>10. Stored(out, l) /\ Ids(out) \subseteq Ids(rem) \cup X
  BY <1>1, <1>5, <1>6, <1>7, <1>8, <1>9, StoredMore
<1> QED
  BY <1>4, <1>6, <1>10 DEF X, l, Answered

(* More calls have been made by now. *)
LEMMA ThreadLater ==
  ASSUME NEW ms, NEW ret \in Seq(Msg), NEW gone, NEW n \in Nat, ThreadOK(ms, ret, gone, n),
         NEW n2 \in Nat, n <= n2
  PROVE  ThreadOK(ms, ret, gone, n2)
<1>0. ms \in Seq(Msg)
  BY BornFacts DEF ThreadOK
<1>1. Numbers(ms, n2)
  <2>1. \A i \in 1..Len(ms) : ms[i] \in Msg
    BY <1>0
  <2> QED
    BY <2>1, NumberedMore DEF ThreadOK, Numbers
<1>2. Within(ms, ret, n2)
  <2> SUFFICES ASSUME NEW k \in 1..Len(ret)
               PROVE  \/ \E i \in 1..Len(ms) : ret[k] = ms[i]
                      \/ ret[k].type = "tool" /\ ret[k].call \notin Declared(ms) /\ ret[k].call.no <= n2
    BY DEF Within
  <2>1. \/ \E i \in 1..Len(ms) : ret[k] = ms[i]
        \/ ret[k].type = "tool" /\ ret[k].call \notin Declared(ms) /\ ret[k].call.no <= n
    BY DEF ThreadOK, Within
  <2>2. ASSUME ret[k].type = "tool" PROVE ret[k].call.no \in Nat
    <3>1. ret[k] \in Msg
      OBVIOUS
    <3>2. ret[k].call \in Call
      BY <2>2, <3>1, MsgFacts
    <3> QED
      BY <3>2 DEF Call
  <2> QED
    BY <2>1, <2>2
<1> QED
  BY <1>1, <1>2 DEF ThreadOK

(* The answer comes, and what is queued goes, or the update is refused. *)
LEMMA AnswersStep ==
  ASSUME PatchInv, NEW t \in Chats, Answers(t)
  PROVE  PatchInv'
<1> USE PatchingAssumption
<1>1. TypesOK /\ IdsApart /\ ToolsLast /\ ThreadsOK /\ SentOK
  BY DEF PatchInv
<1>2. /\ t \in waiting /\ lastId < MaxLastId
      /\ waiting' = waiting \ {t} /\ removals' = {}
      /\ UNCHANGED <<request, patched>>
  BY DEF Answers, Drained
<1>3. SentOK'
  BY <1>1, <1>2 DEF SentOK
<1>4. ASSUME NEW s, s \in waiting \/ s \in waiting' PROVE Formed(request'[s]) /\ s \in Chats
  BY <1>1, <1>2, <1>4 DEF TypesOK
<1>5. CASE /\ running' = running \ {t}
           /\ UNCHANGED <<chat, at, returned, lastId, called>>
  <2>1. TypesOK'
    BY <1>1, <1>2, <1>5 DEF TypesOK
  <2>2. IdsApart'
    BY <1>1, <1>2, <1>5 DEF IdsApart, IdsOf
  <2>3. ToolsLast'
    BY <1>1, <1>5 DEF ToolsLast
  <2>4. ThreadsOK'
    <3> SUFFICES ASSUME NEW s \in Chats, s \notin patched
                 PROVE  ThreadOK(chat[s], returned[s], {}, called)
      BY <1>2, <1>5 DEF ThreadsOK
    <3>1. ThreadOK(chat[s], returned[s], removals, called)
      BY <1>1 DEF ThreadsOK
    <3> QED
      BY <3>1, ThreadGone
  <2> QED
    BY <1>3, <2>1, <2>2, <2>3, <2>4 DEF PatchInv
<1>6. ASSUME NEW thinks \in BOOLEAN, NEW good \in 0..2, NEW bad \in 0..1,
             LET p == request[t].model
                 m == Answer(p, thinks, NewCalls(p, good), NewCalls(p, bad)) IN
             /\ good * bad = 0 /\ called + good + bad <= MaxCalls
             /\ called' = called + good + bad
             /\ chat' = [chat EXCEPT ![t] = Append(Remaining(@, removals), m)]
             /\ at' = [at EXCEPT ![t] = IF good + bad = 0 THEN "end" ELSE "tools"]
             /\ running' = IF good + bad = 0 THEN running \ {t} ELSE running
             /\ returned' = [returned EXCEPT ![t] = IF good + bad = 0 THEN chat'[t] ELSE @],
             lastId' = lastId + 1
      PROVE  PatchInv'
  <2> DEFINE p == request[t].model
             m == Answer(p, thinks, NewCalls(p, good), NewCalls(p, bad))
             old == chat[t]  out == Append(Remaining(old, removals), m)
             ret == IF good + bad = 0 THEN out ELSE returned[t]
  <2>1. /\ good * bad = 0 /\ called + good + bad <= MaxCalls
        /\ called' = called + good + bad
        /\ chat' = [chat EXCEPT ![t] = Append(Remaining(@, removals), m)]
        /\ at' = [at EXCEPT ![t] = IF good + bad = 0 THEN "end" ELSE "tools"]
        /\ running' = IF good + bad = 0 THEN running \ {t} ELSE running
        /\ returned' = [returned EXCEPT ![t] = IF good + bad = 0 THEN chat'[t] ELSE @]
    BY <1>6, Zenon
  <2>2. good = 0 \/ bad = 0
    <3>1. good \in {0, 1, 2} /\ bad \in {0, 1}
      OBVIOUS
    <3>2. 1 * 1 # 0 /\ 2 * 1 # 0
      OBVIOUS
    <3> QED
      BY <2>1, <3>1, <3>2
  <2>3. p \in Models /\ called \in Nat /\ lastId \in Nat /\ good \in Nat /\ bad \in Nat /\ bad <= 1
    <3>1. p \in Models
      BY <1>1, <1>2 DEF TypesOK, Formed
    <3> HIDE DEF p
    <3>2. lastId \in Nat /\ called \in Nat
      BY <1>1 DEF TypesOK
    <3> QED
      BY <3>1, <3>2
  <2> HIDE DEF p
  <2> DEFINE u == NewCalls(p, good)  b == NewCalls(p, bad)
  <2>4. /\ u \in Seq(Call) /\ Len(u) = good /\ \A c \in ToSet(u) : called < c.no /\ c.no <= called + good
        /\ b \in Seq(Call) /\ Len(b) = bad /\ \A c \in ToSet(b) : called < c.no /\ c.no <= called + bad
    BY <2>3, NewCallsAre
  <2> HIDE DEF u, b
  <2>5. (good = 0 <=> u = <<>>) /\ (bad = 0 <=> b = <<>>)
    BY <2>4
  <2>6. m = Answer(p, thinks, u, b)
    BY DEF u, b
  <2>7. m \in Born /\ m.type = "ai" /\ m.id = lastId + 1 /\ Made(m) = IF u # <<>> THEN u ELSE b
    BY <2>2, <2>3, <2>4, <2>5, <2>6, AnswerBorn
  <2> HIDE DEF m
  <2>8. m \in Msg
    BY <2>7 DEF Born
  <2>9. called' \in Nat /\ called <= called' /\ \A c \in ToSet(Made(m)) : called < c.no /\ c.no <= called'
    <3>1. called' = called + good + bad
      BY <2>1
    <3>2. CASE good = 0
      <4>1. Made(m) = b /\ called' = called + bad
        BY <2>3, <2>5, <2>7, <3>1, <3>2
      <4> QED
        BY <2>3, <2>4, <4>1
    <3>3. CASE bad = 0
      <4>1. called' = called + good
        BY <2>3, <3>1, <3>3
      <4>2. CASE u # <<>>
        <5>1. Made(m) = u
          BY <2>7, <4>2
        <5> QED
          BY <2>3, <2>4, <4>1, <5>1
      <4>3. CASE u = <<>>
        <5>1. Made(m) = <<>>
          BY <2>5, <2>7, <3>3, <4>3
        <5>2. ToSet(Made(m)) = {}
          BY <5>1 DEF ToSet
        <5> QED
          BY <2>3, <4>1, <5>2
      <4> QED
        BY <4>2, <4>3
    <3> QED
      BY <2>2, <3>2, <3>3
  <2>10. /\ old \in Seq(Msg) /\ Stored(old, lastId)
         /\ returned[t] \in Seq(Msg) /\ Stored(returned[t], lastId) /\ t \in Chats
    BY <1>1 DEF TypesOK, IdsApart
  <2>11. chat' = [chat EXCEPT ![t] = out] /\ chat'[t] = out /\ \A s \in Chats : s # t => chat'[s] = chat[s]
    BY <1>1, <2>1 DEF TypesOK
  <2>12. /\ returned' = [returned EXCEPT ![t] = ret] /\ returned'[t] = ret
         /\ \A s \in Chats : s # t => returned'[s] = returned[s]
    BY <1>1, <2>1, <2>11 DEF TypesOK
  <2>13. out = Append(Remaining(old, removals), m) /\ (ret = out \/ ret = returned[t])
    OBVIOUS
  <2> HIDE DEF old, out, ret
  <2>14. /\ out \in Seq(Msg) /\ Len(out) \in Nat \ {0} /\ out[Len(out)] = m
         /\ Stored(out, lastId + 1) /\ Ids(out) \subseteq Ids(old) \cup (lastId + 1)..(lastId + 1)
    <3>1. Answered(old, m, out)
      BY <2>3, <2>7, <2>8, <2>10, <2>13, AnsweredStored
    <3> QED
      BY <3>1 DEF Answered
  <2>15. ret \in Seq(Msg) /\ Stored(ret, lastId + 1)
    <3>1. 1..lastId \subseteq 1..(lastId + 1)
      BY <2>3
    <3>2. Stored(returned[t], lastId + 1)
      BY <2>10, <3>1 DEF Stored
    <3> QED
      BY <2>10, <2>13, <2>14, <3>2
  <2>16. lastId' = lastId + 1 /\ lastId' \in Nat /\ lastId <= lastId' /\ lastId' \in 0..MaxLastId
    <3>1. lastId' = lastId + 1
      BY <1>6
    <3> QED
      BY <1>2, <2>3, <3>1
  <2>17. TypesOK'
    <3>1. chat' \in [Chats -> Seq(Msg)] /\ returned' \in [Chats -> Seq(Msg)]
      BY <1>1, <2>11, <2>12, <2>14, <2>15 DEF TypesOK
    <3>2. at' \in [Chats -> {"model", "tools", "end"}]
      BY <1>1, <2>1 DEF TypesOK
    <3>3. called' \in 0..MaxCalls
      BY <2>1, <2>9
    <3>4. running' \subseteq Chats /\ waiting' \subseteq running'
      BY <1>1, <1>2, <2>1 DEF TypesOK
    <3> QED
      BY <1>1, <1>2, <1>4, <2>16, <3>1, <3>2, <3>3, <3>4 DEF TypesOK
  <2>18. IdsApart'
    <3>1. Stored(out, lastId') /\ Stored(ret, lastId')
      BY <2>14, <2>15, <2>16
    <3>2. Ids(out) \cup Ids(ret) \subseteq IdsOf(t) \cup (lastId + 1)..lastId'
      BY <2>13, <2>14, <2>16 DEF IdsOf, old
    <3> QED
      BY <1>1, <1>2, <2>11, <2>12, <2>16, <3>1, <3>2, IdsStep
  <2>19. ToolsLast'
    <3> SUFFICES ASSUME NEW s \in Chats, at'[s] = "tools"
                 PROVE  Len(chat'[s]) # 0 /\ chat'[s][Len(chat'[s])].type = "ai"
      BY DEF ToolsLast
    <3>1. CASE s = t
      BY <2>7, <2>11, <2>14, <3>1
    <3>2. CASE s # t
      <4>1. at'[s] = at[s]
        BY <1>1, <2>1, <3>2 DEF TypesOK
      <4> QED
        BY <1>1, <2>11, <3>2, <4>1 DEF ToolsLast
    <3> QED
      BY <3>1, <3>2
  <2>20. ThreadsOK'
    <3> SUFFICES ASSUME NEW s \in Chats, s \notin patched
                 PROVE  ThreadOK(chat'[s], returned'[s], {}, called')
      BY <1>2 DEF ThreadsOK
    <3>1. ThreadOK(chat[s], returned[s], removals, called)
      BY <1>1 DEF ThreadsOK
    <3>2. CASE s = t
      <4>1. ThreadOK(old, returned[t], removals, called)
        BY <3>1, <3>2 DEF old
      <4> DEFINE n2 == called'
      <4>2. n2 \in Nat /\ called <= n2 /\ \A c \in ToSet(Made(m)) : called < c.no /\ c.no <= n2
        BY <2>9
      <4> HIDE DEF n2
      <4>3. ThreadOK(out, returned[t], {}, n2) /\ ThreadOK(out, out, {}, n2)
        BY <2>3, <2>7, <2>10, <2>13, <4>1, <4>2, ThreadAnswered
      <4>4. ThreadOK(out, ret, {}, n2)
        BY <2>13, <4>3
      <4> QED
        BY <2>11, <2>12, <3>2, <4>4 DEF n2
    <3>3. CASE s # t
      <4>1. ThreadOK(chat[s], returned[s], {}, called)
        BY <3>1, ThreadGone
      <4>2. \A n2 \in Nat : called <= n2 => ThreadOK(chat[s], returned[s], {}, n2)
        <5>1. returned[s] \in Seq(Msg) /\ called \in Nat
          BY <1>1 DEF TypesOK
        <5> QED
          BY <4>1, <5>1, ThreadLater
      <4> QED
        BY <2>9, <2>11, <2>12, <3>3, <4>2
    <3> QED
      BY <3>2, <3>3
  <2> QED
    BY <1>3, <2>17, <2>18, <2>19, <2>20 DEF PatchInv
<1>7. \/ \E thinks \in BOOLEAN, good \in 0..2, bad \in 0..1 :
              LET p == request[t].model
                  m == Answer(p, thinks, NewCalls(p, good), NewCalls(p, bad)) IN
              /\ good * bad = 0 /\ called + good + bad <= MaxCalls
              /\ called' = called + good + bad
              /\ chat' = [chat EXCEPT ![t] = Append(Remaining(@, removals), m)]
              /\ at' = [at EXCEPT ![t] = IF good + bad = 0 THEN "end" ELSE "tools"]
              /\ running' = IF good + bad = 0 THEN running \ {t} ELSE running
              /\ returned' = [returned EXCEPT ![t] = IF good + bad = 0 THEN chat'[t] ELSE @]
              /\ lastId' = lastId + 1
      \/ /\ running' = running \ {t}
         /\ UNCHANGED <<chat, at, returned, lastId, called>>
  BY Zenon DEF Answers
<1> QED
  BY <1>5, <1>6, <1>7, Zenon

(* Every step keeps the invariant. *)
LEMMA PatchInvNext ==
  ASSUME PatchInv, [PatchNext]_patchVars
  PROVE  PatchInv'
<1>0. TypesOK
  BY DEF PatchInv
<1>1. CASE UNCHANGED patchVars
  BY <1>0, <1>1, QuietStep DEF patchVars, TypesOK
<1>2. ASSUME NEW t \in Chats, NEW again \in BOOLEAN, Invoke(t, again) PROVE PatchInv'
  BY <1>2, InvokeStep
<1>3. ASSUME NEW t \in Chats, Resume(t) PROVE PatchInv'
  BY <1>0, <1>3, QuietStep DEF Resume, TypesOK
<1>4. ASSUME NEW t \in Chats, Stops(t) PROVE PatchInv'
  BY <1>0, <1>4, QuietStep DEF Stops, TypesOK
<1>5. ASSUME NEW t \in Chats, NEW p \in Providers, Asks(t, p) PROVE PatchInv'
  BY <1>5, AsksStep
<1>6. ASSUME NEW t \in Chats, Heals(t) PROVE PatchInv'
  BY <1>6, HealsStep
<1>7. ASSUME NEW t \in Chats, Answers(t) PROVE PatchInv'
  BY <1>7, AnswersStep
<1>8. ASSUME NEW t \in Chats, Uses(t) PROVE PatchInv'
  BY <1>8, UsesStep
<1> QED
  BY <1>1, <1>2, <1>3, <1>4, <1>5, <1>6, <1>7, <1>8 DEF PatchNext

(* Requests are paired and shaped for whom they go to, whatever else happens. *)
THEOREM RequestsAlwaysSound == PatchSpec => []RequestsSound
<1>1. PatchInit => PatchInv
  BY PatchInvInit
<1>2. PatchInv /\ [PatchNext]_patchVars => PatchInv'
  BY PatchInvNext
<1>3. PatchInv => RequestsSound
  BY PatchInvSound
<1> QED
  BY <1>1, <1>2, <1>3, PTL DEF PatchSpec

\* -------------------------------------------------- the beginning of a list

(* out goes on behind ms, and not with a result. *)
Cut(ms, out) == Begins(ms, out) /\ ~ IsToolAt(out, Len(ms) + 1)

(* f and g are the same up to n. *)
Agree(f, g, n) == \A i \in 1..n : f[i] = g[i]

(* Two layouts of the same sequences agree as far as those do. *)
LEMMA SamePlaces ==
  ASSUME NEW n \in Nat, NEW l \in Nat, n <= l, NEW f, NEW g, Agree(f, g, n),
         NEW a, NEW b, NEW p, NEW q, Laid(a, f, n, p), Laid(b, g, l, q)
  PROVE  Agree(p, q, n + 1)
<1> DEFINE P == {k \in 0..n : p[k + 1] = q[k + 1]}
<1>1. ASSUME NEW k \in 0..n, k > 0 => k - 1 \in P PROVE k \in P
  <2>1. CASE k = 0
    <3>1. k + 1 = 1
      BY <2>1
    <3> QED
      BY <3>1 DEF Laid
  <2>2. CASE k > 0
    <3>1. k \in 1..n /\ k \in 1..l /\ (k - 1) + 1 = k
      BY <2>2
    <3>2. p[k] = q[k]
      BY <1>1, <2>2, <3>1
    <3>3. p[k + 1] = p[k] + Len(f[k])
      BY <3>1 DEF Laid
    <3>4. q[k + 1] = q[k] + Len(g[k])
      BY <3>1 DEF Laid
    <3>5. f[k] = g[k]
      BY <3>1 DEF Agree
    <3> QED
      BY <3>2, <3>3, <3>4, <3>5
  <2> QED
    BY <2>1, <2>2
<1> HIDE DEF P
<1>2. 0..n \subseteq P
  BY <1>1, Upwards
<1>3. ASSUME NEW i \in 1..(n + 1) PROVE p[i] = q[i]
  <2>1. i - 1 \in 0..n /\ (i - 1) + 1 = i
    OBVIOUS
  <2> QED
    BY <1>2, <2>1 DEF P
<1> QED
  BY <1>3 DEF Agree

(* What is joined for the beginning of a list is the beginning of what is     *)
(* joined for the list.                                                       *)
LEMMA ExpandCut ==
  ASSUME NEW ms \in Seq(Msg), NEW out \in Seq(Msg), Cut(ms, out), NEW f, NEW g,
         \A i \in 1..Len(ms) : f[i] = g[i], \A i \in 1..Len(out) : g[i] \in Seq(Msg),
         Len(ms) < Len(out) => Len(g[Len(ms) + 1]) # 0 /\ g[Len(ms) + 1][1].type # "tool"
  PROVE  Cut(Expand(ms, f), Expand(out, g))
<1> DEFINE n == Len(ms)  l == Len(out)  a == Expand(ms, f)  b == Expand(out, g)
<1>1. n \in Nat /\ l \in Nat /\ n <= l
  BY DEF Cut, Begins
<1>2. \A i \in 1..n : f[i] \in Seq(Msg)
  BY <1>1
<1>3. a \in Seq(Msg) /\ \E p : Laid(a, f, n, p)
  BY <1>2, Expanded
<1>4. b \in Seq(Msg) /\ \E q : Laid(b, g, l, q)
  BY Expanded
<1>5. PICK p : Laid(a, f, n, p)
  BY <1>3
<1>6. PICK q : Laid(b, g, l, q)
  BY <1>4
<1> HIDE DEF a, b
<1>7. \A i \in 1..n : f[i] = g[i]
  OBVIOUS
<1>8. n < l => Len(g[n + 1]) # 0 /\ g[n + 1][1].type # "tool"
  OBVIOUS
<1>9. \A i \in 1..l : g[i] \in Seq(Msg)
  OBVIOUS
<1> HIDE DEF n, l
<1>10. \A i \in 1..(n + 1) : p[i] = q[i]
  <2>1. Agree(f, g, n)
    BY <1>7 DEF Agree
  <2>2. Agree(p, q, n + 1)
    BY <1>1, <1>5, <1>6, <2>1, SamePlaces
  <2> QED
    BY <2>2 DEF Agree
<1>11. Len(a) = q[n + 1] - 1 /\ Len(a) \in Nat /\ Len(b) \in Nat /\ q[n + 1] \in Nat \ {0} /\ DOMAIN b = 1..Len(b)
  <2>1. n + 1 \in 1..(n + 1) /\ n + 1 \in 1..(l + 1)
    BY <1>1
  <2> QED
    BY <1>3, <1>4, <1>5, <1>6, <1>10, <2>1 DEF Laid
<1>12. ASSUME NEW j \in 1..Len(a) PROVE j \in 1..Len(b) /\ b[j] = a[j]
  <2>1. PICK i \in 1..n : \E k \in 1..Len(f[i]) : j = p[i] + k - 1
    BY <1>5 DEF Laid
  <2>2. PICK k \in 1..Len(f[i]) : j = p[i] + k - 1
    BY <2>1
  <2>3. i \in 1..l /\ i \in 1..(n + 1)
    BY <1>1
  <2>4. f[i] = g[i] /\ p[i] = q[i]
    BY <1>7, <1>10, <2>3
  <2>5. a[p[i] + k - 1] = f[i][k]
    BY <1>5 DEF Laid
  <2>6. k \in 1..Len(g[i])
    BY <2>4
  <2>7. q[i] + k - 1 \in 1..Len(b) /\ b[q[i] + k - 1] = g[i][k]
    BY <1>6, <2>3, <2>6 DEF Laid
  <2> QED
    BY <2>2, <2>4, <2>5, <2>7
<1>13. Begins(a, b)
  <2>1. Len(a) <= Len(b)
    <3>1. CASE Len(a) = 0
      BY <1>11, <3>1
    <3>2. CASE Len(a) # 0
      <4>1. Len(a) \in 1..Len(a)
        BY <1>11, <3>2
      <4>2. Len(a) \in 1..Len(b)
        BY <1>12, <4>1
      <4> QED
        BY <1>11, <4>2
    <3> QED
      BY <3>1, <3>2
  <2> QED
    BY <1>12, <2>1 DEF Begins
<1>14. ~ IsToolAt(b, Len(a) + 1)
  <2>1. CASE n = l
    <3>1. Len(b) = q[n + 1] - 1
      BY <1>6, <2>1 DEF Laid
    <3>2. Len(a) + 1 \notin 1..Len(b)
      BY <1>11, <3>1
    <3> QED
      BY <1>11, <3>2 DEF IsToolAt
  <2>2. CASE n < l
    <3>1. n + 1 \in 1..l /\ n < l
      BY <1>1, <2>2
    <3>2. g[n + 1] \in Seq(Msg) /\ Len(g[n + 1]) # 0 /\ g[n + 1][1].type # "tool"
      BY <1>8, <1>9, <3>1
    <3> DEFINE s == g[n + 1]
    <3>3. s \in Seq(Msg) /\ Len(s) # 0
      BY <3>2
    <3> HIDE DEF s
    <3>4. 1 \in 1..Len(s)
      BY <3>3
    <3>5. 1 \in 1..Len(g[n + 1])
      BY <3>4 DEF s
    <3>6. b[q[n + 1] + 1 - 1] = g[n + 1][1]
      BY <1>6, <3>1, <3>5 DEF Laid
    <3>7. q[n + 1] + 1 - 1 = Len(a) + 1
      BY <1>11
    <3> QED
      BY <3>2, <3>6, <3>7 DEF IsToolAt
  <2> QED
    BY <1>1, <2>1, <2>2
<1> QED
  BY <1>13, <1>14 DEF Cut, a, b

(* What a list begins with. *)
LEMMA CutFacts ==
  ASSUME NEW ms \in Seq(Msg), NEW out \in Seq(Msg), Cut(ms, out)
  PROVE  /\ Len(ms) \in Nat /\ Len(out) \in Nat /\ Len(ms) <= Len(out)
         /\ DOMAIN ms = 1..Len(ms) /\ DOMAIN out = 1..Len(out)
         /\ \A i \in 1..Len(ms) : i \in 1..Len(out) /\ out[i] = ms[i]
         /\ \A i \in Nat : i <= Len(ms) => (IsToolAt(out, i) <=> IsToolAt(ms, i))
         /\ Len(ms) < Len(out) => out[Len(ms) + 1].type # "tool"
<1>1. Len(ms) \in Nat /\ Len(out) \in Nat /\ DOMAIN ms = 1..Len(ms) /\ DOMAIN out = 1..Len(out)
  OBVIOUS
<1>2. Len(ms) <= Len(out) /\ \A i \in 1..Len(ms) : out[i] = ms[i]
  BY DEF Cut, Begins
<1>3. \A i \in 1..Len(ms) : i \in 1..Len(out)
  BY <1>1, <1>2
<1>4. ASSUME NEW i \in Nat, i <= Len(ms) PROVE IsToolAt(out, i) <=> IsToolAt(ms, i)
  BY <1>4, ToolsKept DEF Cut
<1>5. Len(ms) < Len(out) => out[Len(ms) + 1].type # "tool"
  BY <1>1 DEF Cut, IsToolAt
<1> QED
  BY <1>1, <1>2, <1>3, <1>4, <1>5

(* The block behind a message ends where the list was cut, or before. *)
LEMMA BlockCut ==
  ASSUME NEW ms \in Seq(Msg), NEW out \in Seq(Msg), Cut(ms, out), NEW i \in 1..Len(ms)
  PROVE  Block(ms, i) = Block(out, i) /\ \A j \in Block(ms, i) : j \in 1..Len(ms)
<1>1. /\ Len(ms) \in Nat /\ Len(out) \in Nat /\ Len(ms) <= Len(out)
      /\ \A k \in 1..Len(ms) : k \in 1..Len(out) /\ out[k] = ms[k]
      /\ Len(ms) < Len(out) => out[Len(ms) + 1].type # "tool"
  BY CutFacts
<1> DEFINE n == Len(ms)  l == Len(out)
<1>2. ASSUME NEW j \in Block(ms, i) PROVE j \in Block(out, i) /\ j \in 1..Len(ms)
  <2>1. j \in (i + 1)..n /\ \A k \in (i + 1)..j : ms[k].type = "tool"
    BY DEF Block
  <2>2. \A k \in (i + 1)..j : k \in 1..n
    BY <1>1, <2>1
  <2>3. \A k \in (i + 1)..j : out[k].type = "tool"
    BY <1>1, <2>1, <2>2
  <2>4. j \in (i + 1)..l /\ j \in 1..n
    BY <1>1, <2>1
  <2> QED
    BY <2>3, <2>4 DEF Block
<1>3. ASSUME NEW j \in Block(out, i) PROVE j \in Block(ms, i)
  <2>1. j \in (i + 1)..l /\ \A k \in (i + 1)..j : out[k].type = "tool"
    BY DEF Block
  <2>2. j <= n
    <3> SUFFICES ASSUME j > n PROVE FALSE
      BY <1>1, <2>1
    <3>1. n + 1 \in (i + 1)..j /\ n < l
      BY <1>1, <2>1
    <3> QED
      BY <1>1, <2>1, <3>1
  <2>3. \A k \in (i + 1)..j : k \in 1..n
    BY <1>1, <2>1, <2>2
  <2>4. \A k \in (i + 1)..j : ms[k].type = "tool"
    BY <1>1, <2>1, <2>3
  <2>5. j \in (i + 1)..n
    BY <1>1, <2>1, <2>2
  <2> QED
    BY <2>4, <2>5 DEF Block
<1> QED
  BY <1>2, <1>3

(* What follows does not change which results are missing. *)
LEMMA DanglingCut ==
  ASSUME NEW ms \in Seq(Msg), NEW out \in Seq(Msg), Cut(ms, out)
  PROVE  Cut(DanglingPatched(ms), DanglingPatched(out))
<1> DEFINE f == PutIns(ms, MissingAt(ms))  g == PutIns(out, MissingAt(out))
<1>1. /\ Len(ms) \in Nat /\ Len(out) \in Nat /\ Len(ms) <= Len(out)
      /\ DOMAIN ms = 1..Len(ms) /\ DOMAIN out = 1..Len(out)
      /\ \A i \in 1..Len(ms) : i \in 1..Len(out) /\ out[i] = ms[i]
      /\ Len(ms) < Len(out) => out[Len(ms) + 1].type # "tool"
  BY CutFacts
<1>2. ASSUME NEW i \in 1..Len(ms) PROVE f[i] = g[i]
  <2>1. Block(ms, i) = Block(out, i) /\ \A j \in Block(ms, i) : j \in 1..Len(ms)
    BY BlockCut
  <2>2. i \in 1..Len(out) /\ out[i] = ms[i] /\ \A j \in Block(ms, i) : out[j] = ms[j]
    BY <1>1, <2>1
  <2>3. MissingAt(ms)[i] = {k \in DOMAIN Calls(ms[i]) : \A j \in Block(ms, i) : ms[j].call # Calls(ms[i])[k]}
    BY <1>1, Zenon DEF MissingAt
  <2>4. MissingAt(out)[i] = {k \in DOMAIN Calls(out[i]) : \A j \in Block(out, i) : out[j].call # Calls(out[i])[k]}
    BY <1>1, <2>2, Zenon DEF MissingAt
  <2>5. MissingAt(ms)[i] = MissingAt(out)[i]
    BY <2>1, <2>2, <2>3, <2>4
  <2>6. f[i] = <<ms[i]>> \o PutIn(ms, MissingAt(ms), i)
    BY <1>1 DEF PutIns
  <2>7. g[i] = <<out[i]>> \o PutIn(out, MissingAt(out), i)
    BY <1>1, <2>2 DEF PutIns
  <2>8. PutIn(ms, MissingAt(ms), i) = PutIn(out, MissingAt(out), i)
    BY <2>2, <2>5 DEF PutIn
  <2> QED
    BY <2>2, <2>6, <2>7, <2>8, Zenon
<1>3. ASSUME NEW i \in 1..Len(out) PROVE g[i] \in Seq(Msg) /\ Len(g[i]) # 0 /\ g[i][1] = out[i]
  <2> DEFINE r == PutIn(out, MissingAt(out), i)  m == out[i]
  <2>1. g[i] = <<m>> \o r
    BY <1>1 DEF PutIns
  <2>2. m \in Msg /\ r \in Seq(Msg)
    BY PutInType
  <2> HIDE DEF g, r, m
  <2>3. <<m>> \in Seq(Msg) /\ Len(<<m>>) = 1 /\ <<m>>[1] = m
    BY <2>2
  <2>4. <<m>> \o r \in Seq(Msg) /\ Len(<<m>> \o r) = 1 + Len(r) /\ (<<m>> \o r)[1] = m /\ Len(r) \in Nat
    BY <2>2, <2>3
  <2>5. 1 + Len(r) # 0
    BY <2>4
  <2> QED
    BY <2>1, <2>4, <2>5 DEF m
<1>4. Len(ms) < Len(out) => Len(g[Len(ms) + 1]) # 0 /\ g[Len(ms) + 1][1].type # "tool"
  <2> SUFFICES ASSUME Len(ms) < Len(out) PROVE Len(g[Len(ms) + 1]) # 0 /\ g[Len(ms) + 1][1].type # "tool"
    OBVIOUS
  <2> DEFINE i == Len(ms) + 1
  <2>1. i \in 1..Len(out) /\ out[i].type # "tool"
    BY <1>1
  <2> HIDE DEF i, g
  <2>2. Len(g[i]) # 0 /\ g[i][1].type # "tool"
    BY <1>3, <2>1
  <2> QED
    BY <2>2 DEF i
<1> HIDE DEF f, g
<1>5. Cut(Expand(ms, f), Expand(out, g))
  BY <1>2, <1>3, <1>4, ExpandCut
<1>6. DanglingPatched(ms) = Expand(ms, f) /\ DanglingPatched(out) = Expand(out, g)
  BY DanglingIs DEF Grow, f, g
<1> QED
  BY <1>5, <1>6

(* What is an orphan stays one, and nothing else becomes one. *)
LEMMA SameOrphans ==
  ASSUME NEW ms \in Seq(Msg), NEW out \in Seq(Msg), Cut(ms, out),
         Grouped(out), Apart(out), \A i \in 1..Len(out) : FewBad(out[i])
  PROVE  /\ \A i \in 0..Len(ms) : IsOrphan(ms, i) <=> IsOrphan(out, i)
         /\ ~ IsOrphan(out, Len(ms) + 1)
<1>1. /\ Len(ms) \in Nat /\ Len(out) \in Nat /\ Len(ms) <= Len(out)
      /\ DOMAIN ms = 1..Len(ms) /\ DOMAIN out = 1..Len(out)
      /\ \A i \in 1..Len(ms) : i \in 1..Len(out) /\ out[i] = ms[i]
      /\ \A i \in Nat : i <= Len(ms) => (IsToolAt(out, i) <=> IsToolAt(ms, i))
  BY CutFacts
<1>2. ~ IsOrphan(out, Len(ms) + 1)
  BY DEF IsOrphan, Cut
<1>3. Declared(ms) \subseteq Declared(out)
  <2>1. ASSUME NEW c \in Declared(ms) PROVE c \in Declared(out)
    <3>1. PICK i \in DOMAIN ms : c \in ToSet(Calls(ms[i]))
      BY DEF Declared
    <3>2. i \in DOMAIN out /\ c \in ToSet(Calls(out[i]))
      BY <1>1, <3>1
    <3> QED
      BY <3>2 DEF Declared
  <2> QED
    BY <2>1
<1>4. ASSUME NEW i \in 1..Len(ms), IsOrphan(out, i) PROVE IsOrphan(ms, i)
  <2>1. IsToolAt(ms, i) /\ ms[i].call \notin Declared(ms)
    BY <1>1, <1>3, <1>4 DEF IsOrphan
  <2>2. ASSUME NEW j \in 1..(i - 1), IsToolAt(ms, j) PROVE ms[j].call # ms[i].call
    <3>1. j \in 1..Len(ms) /\ j \in Nat /\ j <= Len(ms)
      BY <1>1
    <3>2. IsToolAt(out, j) /\ out[j] = ms[j] /\ out[i] = ms[i]
      BY <1>1, <2>2, <3>1
    <3> QED
      BY <1>4, <3>2 DEF IsOrphan
  <2> QED
    BY <2>1, <2>2 DEF IsOrphan
<1>5. ASSUME NEW i \in 1..Len(ms), IsOrphan(ms, i) PROVE IsOrphan(out, i)
  <2>1. i \in 1..Len(out) /\ out[i] = ms[i] /\ ms[i].type = "tool" /\ ms[i].call \notin Declared(ms)
    BY <1>1, <1>5 DEF IsOrphan, IsToolAt
  <2>2. Matched(out, i) \/ Lone(out, i)
    BY <2>1, ToolCases
  <2>3. CASE Matched(out, i)
    <3>1. PICK h \in 1..Len(out) : OwnedBy(out, h, i) /\ Calls(out[h]) # <<>> /\ Follows(out, h, Calls(out[h]))
      BY <2>3 DEF Matched
    <3> DEFINE m == out[h]  u == Calls(m)
    <3>2. h \in 1..(i - 1) /\ i <= h + Len(Made(m)) /\ u # <<>> /\ Follows(out, h, u)
      BY <3>1 DEF OwnedBy
    <3>3. m \in Msg
      OBVIOUS
    <3> HIDE DEF m
    <3>4. u \in Seq(Call) /\ Made(m) = u
      BY <3>2, <3>3, MsgFacts DEF Made, Calls
    <3> HIDE DEF u
    <3>5. i - h \in 1..Len(u) /\ h + (i - h) = i
      BY <3>2, <3>4
    <3>6. out[i].call = u[i - h]
      BY <3>2, <3>5 DEF Follows
    <3>7. u[i - h] \in ToSet(u)
      BY <3>4, <3>5 DEF ToSet
    <3>8. h \in 1..Len(ms)
      BY <1>1, <3>2
    <3>9. out[i].call \in ToSet(Calls(ms[h]))
      BY <1>1, <3>6, <3>7, <3>8 DEF u, m
    <3>10. out[i].call \in Declared(ms)
      BY <1>1, <3>8, <3>9 DEF Declared
    <3> QED
      BY <2>1, <3>10
  <2>4. CASE Lone(out, i)
    BY <2>4 DEF Lone
  <2> QED
    BY <2>2, <2>3, <2>4
<1>6. ~ IsOrphan(ms, 0) /\ ~ IsOrphan(out, 0)
  BY <1>1 DEF IsOrphan, IsToolAt
<1>7. \A i \in 0..Len(ms) : i = 0 \/ i \in 1..Len(ms)
  OBVIOUS
<1> QED
  BY <1>2, <1>4, <1>5, <1>6, <1>7

(* So each batch is declared by the same message. *)
LEMMA SameDeclarer ==
  ASSUME NEW ms \in Seq(Msg), NEW out \in Seq(Msg), Cut(ms, out),
         \A i \in 0..Len(ms) : IsOrphan(ms, i) <=> IsOrphan(out, i), ~ IsOrphan(out, Len(ms) + 1),
         NEW i \in 1..Len(ms)
  PROVE  Declarer(ms, i) = Declarer(out, i)
<1>1. /\ Len(ms) \in Nat /\ Len(out) \in Nat /\ Len(ms) <= Len(out)
      /\ \A k \in 1..Len(ms) : k \in 1..Len(out) /\ out[k] = ms[k]
  BY CutFacts
<1> DEFINE n == Len(ms)  l == Len(out)
<1>2. ASSUME NEW j \in Batch(ms, i) PROVE j \in Batch(out, i)
  <2>1. j \in i..n /\ \A k \in i..j : IsOrphan(ms, k)
    BY DEF Batch
  <2>2. \A k \in i..j : k \in 0..n
    BY <1>1, <2>1
  <2>3. j \in i..l
    BY <1>1, <2>1
  <2>4. \A k \in i..j : IsOrphan(out, k)
    BY <2>1, <2>2
  <2> QED
    BY <2>3, <2>4 DEF Batch
<1>3. ASSUME NEW j \in Batch(out, i) PROVE j \in Batch(ms, i)
  <2>1. j \in i..l /\ \A k \in i..j : IsOrphan(out, k)
    BY DEF Batch
  <2>2. j <= n
    <3> SUFFICES ASSUME j > n PROVE FALSE
      BY <1>1, <2>1
    <3>1. n + 1 \in i..j
      BY <1>1, <2>1
    <3> QED
      BY <2>1, <3>1
  <2>3. \A k \in i..j : k \in 0..n
    BY <1>1, <2>1, <2>2
  <2>4. j \in i..n
    BY <1>1, <2>1, <2>2
  <2>5. \A k \in i..j : IsOrphan(ms, k)
    BY <2>1, <2>3
  <2> QED
    BY <2>4, <2>5 DEF Batch
<1>4. Batch(ms, i) = Batch(out, i)
  BY <1>2, <1>3
<1>5. PICK c \in Nat : Cardinality(Batch(ms, i)) = c /\ i + c <= Len(ms) + 1
  BY BatchIs
<1>6. \A k \in 1..c : i + k - 1 \in 1..Len(ms)
  BY <1>1, <1>5
<1>7. \A k \in 1..c : ms[i + k - 1].call = out[i + k - 1].call
  BY <1>1, <1>6
<1>8. [k \in 1..c |-> ms[i + k - 1].call] = [k \in 1..c |-> out[i + k - 1].call]
  BY <1>7
<1> QED
  BY <1>4, <1>5, <1>8, Zenon DEF Declarer

(* What follows does not change what is done about orphans. *)
LEMMA OrphansCut ==
  ASSUME NEW ms \in Seq(Msg), NEW out \in Seq(Msg), Cut(ms, out),
         Grouped(out), Apart(out), \A i \in 1..Len(out) : FewBad(out[i])
  PROVE  Cut(OrphansPatched(ms), OrphansPatched(out))
<1> DEFINE f == Declarings(ms)  g == Declarings(out)
<1>1. /\ Len(ms) \in Nat /\ Len(out) \in Nat /\ Len(ms) <= Len(out)
      /\ DOMAIN ms = 1..Len(ms) /\ DOMAIN out = 1..Len(out)
      /\ \A i \in 1..Len(ms) : i \in 1..Len(out) /\ out[i] = ms[i]
      /\ Len(ms) < Len(out) => out[Len(ms) + 1].type # "tool"
  BY CutFacts
<1>2. (\A i \in 0..Len(ms) : IsOrphan(ms, i) <=> IsOrphan(out, i)) /\ ~ IsOrphan(out, Len(ms) + 1)
  BY SameOrphans
<1>3. ASSUME NEW i \in 1..Len(ms) PROVE f[i] = g[i]
  <2>1. i \in 0..Len(ms) /\ i - 1 \in 0..Len(ms) /\ i \in 1..Len(out) /\ out[i] = ms[i]
    BY <1>1
  <2>2. StartsBatch(ms, i) <=> StartsBatch(out, i)
    BY <1>2, <2>1 DEF StartsBatch
  <2>3. Declarer(ms, i) = Declarer(out, i)
    BY <1>2, SameDeclarer
  <2>4. f[i] = IF StartsBatch(ms, i) THEN <<Declarer(ms, i), ms[i]>> ELSE <<ms[i]>>
    BY <1>1, Zenon DEF Declarings
  <2>5. g[i] = IF StartsBatch(out, i) THEN <<Declarer(out, i), out[i]>> ELSE <<out[i]>>
    BY <1>1, <2>1, Zenon DEF Declarings
  <2> QED
    BY <2>1, <2>2, <2>3, <2>4, <2>5
<1>4. ASSUME NEW i \in 1..Len(out)
      PROVE  g[i] \in Seq(Msg) /\ Len(g[i]) # 0 /\ (~ StartsBatch(out, i) => g[i][1] = out[i])
  <2> DEFINE m == out[i]  d == Declarer(out, i)
  <2>1. g[i] = IF StartsBatch(out, i) THEN <<d, m>> ELSE <<m>>
    BY <1>1, Zenon DEF Declarings
  <2>2. m \in Msg /\ d \in Msg
    BY DeclarerType
  <2> HIDE DEF g, m, d
  <2>3. <<m>> \in Seq(Msg) /\ Len(<<m>>) = 1 /\ <<m>>[1] = m /\ <<d, m>> \in Seq(Msg) /\ Len(<<d, m>>) = 2
    BY <2>2
  <2> QED
    BY <2>1, <2>3 DEF m
<1>5. Len(ms) < Len(out) => Len(g[Len(ms) + 1]) # 0 /\ g[Len(ms) + 1][1].type # "tool"
  <2> SUFFICES ASSUME Len(ms) < Len(out) PROVE Len(g[Len(ms) + 1]) # 0 /\ g[Len(ms) + 1][1].type # "tool"
    OBVIOUS
  <2> DEFINE i == Len(ms) + 1
  <2>1. i \in 1..Len(out) /\ out[i].type # "tool" /\ ~ StartsBatch(out, i)
    BY <1>1, <1>2 DEF StartsBatch
  <2> HIDE DEF i, g
  <2>2. Len(g[i]) # 0 /\ g[i][1].type # "tool"
    BY <1>4, <2>1
  <2> QED
    BY <2>2 DEF i
<1> HIDE DEF f, g
<1>6. Cut(Expand(ms, f), Expand(out, g))
  BY <1>3, <1>4, <1>5, ExpandCut
<1>7. OrphansPatched(ms) = Expand(ms, f) /\ OrphansPatched(out) = Expand(out, g)
  BY OrphansIs DEF f, g
<1> QED
  BY <1>6, <1>7

(* What Gemini gets for the message at i. *)
Flattened(ms, i) ==
  IF ms[i].type = "tool" THEN IF IsToolAt(ms, i - 1) THEN <<>> ELSE <<Human(0)>>
  ELSE IF Calls(ms[i]) # <<>> THEN <<Ai(ms[i].id, ms[i].from, "string", {"text"}, {}, <<>>)>>
  ELSE <<ms[i]>>
Flattening(ms) == [i \in DOMAIN ms |-> Flattened(ms, i)]

(* All exchanges of an exact list can be collapsed. *)
LEMMA CollapsedIs ==
  ASSUME NEW ms \in Seq(Msg), Exact(ms)
  PROVE  Collapsed(ms) = Expand(ms, Flattening(ms))
<1> DEFINE n == Len(ms)  ids == Collapsible(ms)
           InBatch(i) == IsToolAt(ms, i) /\ ms[i].call \in ids
           f == [i \in DOMAIN ms |->
              IF InBatch(i) THEN IF InBatch(i - 1) THEN <<>> ELSE <<Human(0)>>
              ELSE IF Calls(ms[i]) # <<>> /\ ToSet(Calls(ms[i])) \subseteq ids
              THEN <<Ai(ms[i].id, ms[i].from, "string", {"text"}, {}, <<>>)>>
              ELSE <<ms[i]>>]
<1>0. DOMAIN ms = 1..n
  OBVIOUS
<1>1. Collapsed(ms) = Expand(ms, f)
  BY DEF Collapsed
<1>2. \A i : IsToolAt(ms, i) => i \in 1..n /\ ms[i].type = "tool"
  BY <1>0 DEF IsToolAt
<1>3. \A i : InBatch(i) <=> IsToolAt(ms, i)
  <2>1. ASSUME NEW i, IsToolAt(ms, i) PROVE ms[i].call \in ids
    <3>1. i \in 1..n /\ ms[i].type = "tool"
      BY <1>2, <2>1
    <3> QED
      BY <3>1, ExactDeclared DEF Collapsible
  <2> QED
    BY <2>1
<1>4. ASSUME NEW i \in DOMAIN ms PROVE ToSet(Calls(ms[i])) \subseteq ids
  BY DEF Collapsible, Declared
<1> HIDE DEF InBatch
<1>5. ASSUME NEW i \in DOMAIN ms PROVE f[i] = Flattened(ms, i)
  <2>1. IsToolAt(ms, i) <=> ms[i].type = "tool"
    BY DEF IsToolAt
  <2>2. f[i] = IF InBatch(i) THEN IF InBatch(i - 1) THEN <<>> ELSE <<Human(0)>>
               ELSE IF Calls(ms[i]) # <<>> /\ ToSet(Calls(ms[i])) \subseteq ids
               THEN <<Ai(ms[i].id, ms[i].from, "string", {"text"}, {}, <<>>)>>
               ELSE <<ms[i]>>
    BY Zenon
  <2> HIDE DEF f
  <2> QED
    BY <1>3, <1>4, <2>1, <2>2, Zenon DEF Flattened
<1>6. f = Flattening(ms)
  <2>1. f = [i \in DOMAIN ms |-> f[i]]
    OBVIOUS
  <2> HIDE DEF f
  <2> QED
    BY <1>5, <2>1, Zenon DEF Flattening
<1> QED
  BY <1>1, <1>6

(* Converted messages begin with converted messages. *)
LEMMA ShapedCut ==
  ASSUME NEW p \in Models, NEW ms \in Seq(Ready(p)), NEW out \in Seq(Ready(p)), Cut(ms, out)
  PROVE  Cut(Shaped(ms, p), Shaped(out, p))
<1> DEFINE n == Len(ms)  l == Len(out)  a == Shaped(ms, p)  b == Shaped(out, p)
<1>1. ms \in Seq(Msg) /\ out \in Seq(Msg)
  BY SeqsOfMsgs
<1>2. /\ n \in Nat /\ l \in Nat /\ n <= l /\ DOMAIN ms = 1..n /\ DOMAIN out = 1..l
      /\ \A i \in 1..n : i \in 1..l /\ out[i] = ms[i]
      /\ n < l => out[n + 1].type # "tool"
  BY <1>1, CutFacts
<1>3. \A i \in 1..l : out[i] \in Ready(p)
  OBVIOUS
<1> HIDE DEF n, l
<1>4. Len(a) = n /\ Len(b) = l /\ DOMAIN b = 1..l
  BY <1>2 DEF Shaped
<1>5. ASSUME NEW i \in 1..n PROVE a[i] = b[i]
  BY <1>2 DEF Shaped
<1>6. ASSUME NEW i \in 1..l PROVE b[i].type = out[i].type
  <2>1. b[i] = Converted(out[i], p) /\ out[i] \in Ready(p)
    BY <1>2, <1>3 DEF Shaped
  <2> QED
    BY <2>1, ConvertedFit
<1> HIDE DEF a, b
<1>7. Begins(a, b)
  BY <1>2, <1>4, <1>5 DEF Begins
<1>8. ~ IsToolAt(b, n + 1)
  <2> SUFFICES ASSUME n + 1 \in 1..l PROVE b[n + 1].type # "tool"
    BY <1>4 DEF IsToolAt
  <2>1. n < l
    BY <1>2
  <2> QED
    BY <1>2, <1>6, <2>1
<1> QED
  BY <1>4, <1>7, <1>8 DEF Cut, a, b

(* What follows does not change how an exchange is collapsed. *)
LEMMA CollapsedCut ==
  ASSUME NEW ms \in Seq(Msg), NEW out \in Seq(Msg), Cut(ms, out), Exact(ms), Exact(out)
  PROVE  Cut(Collapsed(ms), Collapsed(out))
<1> DEFINE f == Flattening(ms)  g == Flattening(out)
<1>1. /\ Len(ms) \in Nat /\ Len(out) \in Nat /\ Len(ms) <= Len(out)
      /\ DOMAIN ms = 1..Len(ms) /\ DOMAIN out = 1..Len(out)
      /\ \A i \in 1..Len(ms) : i \in 1..Len(out) /\ out[i] = ms[i]
      /\ \A i \in Nat : i <= Len(ms) => (IsToolAt(out, i) <=> IsToolAt(ms, i))
      /\ Len(ms) < Len(out) => out[Len(ms) + 1].type # "tool"
  BY CutFacts
<1>2. ASSUME NEW i \in 1..Len(ms) PROVE f[i] = g[i]
  <2>1. i \in 1..Len(out) /\ out[i] = ms[i] /\ i - 1 \in Nat /\ i - 1 <= Len(ms)
    BY <1>1
  <2>2. IsToolAt(out, i - 1) <=> IsToolAt(ms, i - 1)
    BY <1>1, <2>1
  <2>3. f[i] = Flattened(ms, i) /\ g[i] = Flattened(out, i)
    BY <1>1, <2>1 DEF Flattening
  <2> HIDE DEF f, g
  <2> QED
    BY <2>1, <2>2, <2>3 DEF Flattened
<1>3. ASSUME NEW i \in 1..Len(out)
      PROVE  g[i] \in Seq(Msg) /\ (out[i].type # "tool" => Len(g[i]) # 0 /\ g[i][1].type # "tool")
  <2> DEFINE m == out[i]  h == Human(0)  a == Ai(m.id, m.from, "string", {"text"}, {}, <<>>)
  <2>1. g[i] = IF m.type = "tool" THEN IF IsToolAt(out, i - 1) THEN <<>> ELSE <<h>>
               ELSE IF Calls(m) # <<>> THEN <<a>> ELSE <<m>>
    BY <1>1 DEF Flattening, Flattened
  <2>2. m \in Msg
    OBVIOUS
  <2>3. h \in Msg
    BY DEF Human, HumanMsg, Msg
  <2>4. a.type # "tool"
    BY DEF Ai
  <2>5. Calls(m) # <<>> => a \in Msg
    <3> SUFFICES ASSUME Calls(m) # <<>> PROVE a \in Msg
      OBVIOUS
    <3>1. m \in AiMsg
      <4> HIDE DEF m
      <4> QED
        BY <2>2, MsgFacts DEF Calls
    <3>2. m.id \in Nat /\ m.from \in Models \cup {"none"}
      BY <3>1 DEF AiMsg
    <3>3. <<>> \in Seq(Call)
      OBVIOUS
    <3> QED
      BY <3>2, <3>3 DEF Ai, AiMsg, Msg
  <2> HIDE DEF g, m, h, a
  <2>6. ASSUME NEW x \in Msg PROVE <<x>> \in Seq(Msg) /\ Len(<<x>>) # 0 /\ <<x>>[1] = x
    OBVIOUS
  <2>7. <<>> \in Seq(Msg)
    OBVIOUS
  <2> QED
    BY <2>1, <2>2, <2>3, <2>4, <2>5, <2>6, <2>7 DEF m
<1>4. Len(ms) < Len(out) => Len(g[Len(ms) + 1]) # 0 /\ g[Len(ms) + 1][1].type # "tool"
  <2> SUFFICES ASSUME Len(ms) < Len(out) PROVE Len(g[Len(ms) + 1]) # 0 /\ g[Len(ms) + 1][1].type # "tool"
    OBVIOUS
  <2> DEFINE i == Len(ms) + 1
  <2>1. i \in 1..Len(out) /\ out[i].type # "tool"
    BY <1>1
  <2> HIDE DEF i, g
  <2>2. Len(g[i]) # 0 /\ g[i][1].type # "tool"
    BY <1>3, <2>1
  <2> QED
    BY <2>2 DEF i
<1> HIDE DEF f, g
<1>5. Cut(Expand(ms, f), Expand(out, g))
  BY <1>2, <1>3, <1>4, ExpandCut
<1>6. Collapsed(ms) = Expand(ms, f) /\ Collapsed(out) = Expand(out, g)
  BY CollapsedIs DEF f, g
<1> QED
  BY <1>5, <1>6

(* A list converted for a provider begins with its beginning, converted. *)
LEMMA ForProviderCut ==
  ASSUME NEW p \in Models, NEW ms \in Seq(Ready(p)), NEW out \in Seq(Ready(p)), Cut(ms, out),
         Exact(ms), Exact(out)
  PROVE  Cut(ForProvider(ms, p), ForProvider(out, p))
<1> DEFINE a == Shaped(ms, p)  b == Shaped(out, p)
<1>1. Cut(a, b)
  BY ShapedCut
<1>2. a \in Seq(Fit(p)) /\ Exact(a) /\ b \in Seq(Fit(p)) /\ Exact(b)
  BY ShapedGood
<1>3. ForProvider(ms, p) = IF p = Gemini THEN Collapsed(a) ELSE a
  BY DEF ForProvider, Shaped
<1>4. ForProvider(out, p) = IF p = Gemini THEN Collapsed(b) ELSE b
  BY DEF ForProvider, Shaped
<1> HIDE DEF a, b
<1>5. a \in Seq(Msg) /\ b \in Seq(Msg)
  BY <1>2, SeqsOfMsgs
<1>6. Cut(Collapsed(a), Collapsed(b))
  BY <1>1, <1>2, <1>5, CollapsedCut
<1> QED
  BY <1>1, <1>3, <1>4, <1>6

(* Message by message: ms is what out begins with, once sanitized. *)
LEMMA SanitizedBegins ==
  ASSUME NEW ms \in Seq(Msg), NEW out \in Seq(Msg), Begins(ms, out)
  PROVE  Begins(Sanitized(ms), Sanitized(out))
<1> DEFINE n == Len(ms)  l == Len(out)
<1>1. n \in Nat /\ l \in Nat /\ n <= l /\ DOMAIN ms = 1..n /\ DOMAIN out = 1..l
      /\ \A i \in 1..n : i \in 1..l /\ out[i] = ms[i]
  BY DEF Begins
<1> HIDE DEF n, l
<1>2. Sanitized(ms) = [i \in 1..n |-> SanitizedMsg(ms[i])] /\ Sanitized(out) = [i \in 1..l |-> SanitizedMsg(out[i])]
  BY <1>1 DEF Sanitized, SanitizedMsg
<1> DEFINE a == Sanitized(ms)  b == Sanitized(out)
<1> HIDE DEF a, b
<1>3. Len(a) = n /\ Len(b) = l /\ \A i \in 1..n : a[i] = b[i]
  BY <1>1, <1>2 DEF a, b
<1> QED
  BY <1>1, <1>3 DEF Begins, a, b

(* A request for a list begins with the request for its beginning. *)
LEMMA WrappedCut ==
  ASSUME NEW p \in Models, NEW ms \in Seq(Born), NEW out \in Seq(Born), Cut(ms, out),
         Grouped(ms), Apart(ms), Grouped(out), Apart(out)
  PROVE  Begins(Wrapped(ms, p), Wrapped(out, p))
<1> DEFINE d == DanglingPatched(ms)  e == DanglingPatched(out)
           o == OrphansPatched(d)  q == OrphansPatched(e)
           f == ForProvider(o, p)  g == ForProvider(q, p)
<1>0. /\ ms \in Seq(Msg) /\ (\A i \in 1..Len(ms) : FewBad(ms[i])) /\ ms \in Seq(Ready(p))
      /\ out \in Seq(Msg) /\ (\A i \in 1..Len(out) : FewBad(out[i])) /\ out \in Seq(Ready(p))
  BY BornFacts
<1>1. /\ d \in Seq(Msg) /\ Grouped(d) /\ Complete(d) /\ Apart(d) /\ \A j \in 1..Len(d) : FewBad(d[j])
      /\ d \in Seq(Ready(p))
  BY <1>0, DanglingGroups, ReadyKept
<1>2. /\ e \in Seq(Msg) /\ Grouped(e) /\ Complete(e) /\ Apart(e) /\ \A j \in 1..Len(e) : FewBad(e[j])
      /\ e \in Seq(Ready(p))
  BY <1>0, DanglingGroups, ReadyKept
<1>3. Cut(d, e)
  BY <1>0, DanglingCut
<1> HIDE DEF d, e
<1>4. o \in Seq(Ready(p)) /\ Exact(o) /\ q \in Seq(Ready(p)) /\ Exact(q)
  BY <1>1, <1>2, ReadyKept, OrphansExact
<1>5. Cut(o, q)
  BY <1>1, <1>2, <1>3, OrphansCut
<1> HIDE DEF o, q
<1>6. Cut(f, g)
  BY <1>4, <1>5, ForProviderCut
<1>7. f \in Seq(Msg) /\ g \in Seq(Msg)
  BY <1>4, ForProviderGood, SeqsOfMsgs DEF Deliverable
<1> HIDE DEF f, g
<1>8. Begins(Sanitized(f), Sanitized(g))
  BY <1>6, <1>7, SanitizedBegins DEF Cut
<1> QED
  BY <1>8 DEF Wrapped, d, e, o, q, f, g

\* --------------------------------------------------------- converting twice

(* A message as it goes over the wire. *)
WireMsg(m) == IF m.type = "ai" /\ m.parts = {"text"} THEN [m EXCEPT !.form = "string"] ELSE m

(* Which is the same when it is converted for p once more. *)
Steady(m, p) == m.type = "ai" =>
  /\ Converted(m, p).parts = m.parts /\ Converted(m, p).extra = m.extra /\ Converted(m, p).bad = m.bad
  /\ Converted(m, p).form = m.form \/ m.parts = {"text"}

(* A provider's own message. *)
Own(m, p) == p \in {"ChatAnthropic", Gemini} /\ m.from = p /\ m.form = "list"
Foreign(m, p) == {"reasoning_content", "tool_calls"} \cup IF {p, m.from} = {Gemini} THEN {} ELSE {"signatures"}

(* What conversion leaves of a message of the model. *)
LEMMA ConvertedAi ==
  ASSUME NEW p \in Models, NEW m \in AiMsg
  PROVE  /\ Converted(m, p) \in AiMsg
         /\ Converted(m, p).id = m.id /\ Converted(m, p).type = "ai" /\ Converted(m, p).from = m.from
         /\ Converted(m, p).calls = m.calls
         /\ p = "ChatMoonshot" =>
              /\ Converted(m, p).form = "string" /\ Converted(m, p).parts = m.parts \cap {"text"}
              /\ Converted(m, p).bad = <<>>
              /\ Converted(m, p).extra = (m.extra \ {"tool_calls"}) \cup {"reasoning_content"}
         /\ Own(m, p) => Converted(m, p) = m
         /\ p # "ChatMoonshot" /\ ~ Own(m, p) =>
              /\ Converted(m, p).form = "list" /\ Converted(m, p).parts = SafeParts(m, p)
              /\ Converted(m, p).bad = <<>> /\ Converted(m, p).extra = m.extra \ Foreign(m, p)
<1>0. m.type = "ai"
  BY DEF AiMsg
<1>2. CASE p = "ChatMoonshot"
  <2> DEFINE pp == m.parts \cap {"text"}  xx == (m.extra \ {"tool_calls"}) \cup {"reasoning_content"}
             bb == <<>>  ff == "string"  c == Converted(m, p)
  <2>1. c = [m EXCEPT !.form = ff, !.parts = pp, !.bad = bb, !.extra = xx]
    BY <1>0, <1>2 DEF Converted
  <2>2. pp \in SUBSET {"text", "tool_use", "signed", "unsigned"} /\ bb \in Seq(Call)
        /\ xx \in SUBSET {"tool_calls", "reasoning_content", "signatures"} /\ ff \in {"string", "list"}
    BY DEF AiMsg
  <2>3. ~ Own(m, p)
    BY <1>2 DEF Own, Gemini
  <2> HIDE DEF pp, xx, bb, ff, c
  <2>4. /\ c \in AiMsg /\ c.id = m.id /\ c.type = "ai" /\ c.from = m.from /\ c.calls = m.calls
        /\ c.form = ff /\ c.parts = pp /\ c.bad = bb /\ c.extra = xx
    <3>1. c \in AiMsg
      BY <2>1, <2>2 DEF AiMsg
    <3>2. /\ c.id = m.id /\ c.type = m.type /\ c.from = m.from /\ c.calls = m.calls
          /\ c.form = ff /\ c.parts = pp /\ c.bad = bb /\ c.extra = xx
      BY <2>1 DEF AiMsg
    <3> QED
      BY <1>0, <3>1, <3>2
  <2> QED
    BY <1>2, <2>3, <2>4 DEF pp, xx, bb, ff, c
<1>3. CASE Own(m, p)
  <2>1. Converted(m, p) = m /\ p # "ChatMoonshot"
    BY <1>3 DEF Converted, Own, Gemini
  <2> QED
    BY <1>0, <1>3, <2>1
<1>4. CASE p # "ChatMoonshot" /\ ~ Own(m, p)
  <2> DEFINE pp == SafeParts(m, p)  xx == m.extra \ Foreign(m, p)  bb == <<>>  ff == "list"  c == Converted(m, p)
  <2>1. c = [m EXCEPT !.form = ff, !.parts = pp, !.bad = bb, !.extra = xx]
    BY <1>0, <1>4 DEF Converted, Own, Foreign
  <2>2. pp \in SUBSET {"text", "tool_use", "signed", "unsigned"} /\ bb \in Seq(Call) /\ ff \in {"string", "list"}
    BY DEF AiMsg, SafeParts
  <2>3. xx \in SUBSET {"tool_calls", "reasoning_content", "signatures"}
    BY DEF AiMsg
  <2> HIDE DEF pp, xx, bb, ff, c
  <2>4. /\ c \in AiMsg /\ c.id = m.id /\ c.type = "ai" /\ c.from = m.from /\ c.calls = m.calls
        /\ c.form = ff /\ c.parts = pp /\ c.bad = bb /\ c.extra = xx
    <3>1. c \in AiMsg
      BY <2>1, <2>2, <2>3 DEF AiMsg
    <3>2. /\ c.id = m.id /\ c.type = m.type /\ c.from = m.from /\ c.calls = m.calls
          /\ c.form = ff /\ c.parts = pp /\ c.bad = bb /\ c.extra = xx
      BY <2>1 DEF AiMsg
    <3> QED
      BY <1>0, <3>1, <3>2
  <2> QED
    BY <1>4, <2>4 DEF pp, xx, bb, ff, c
<1> QED
  BY <1>2, <1>3, <1>4

(* The fields of a message are the message. *)
LEMMA SameAi ==
  ASSUME NEW m \in AiMsg, NEW n \in AiMsg,
         m.id = n.id, m.from = n.from, m.form = n.form, m.parts = n.parts, m.extra = n.extra,
         m.calls = n.calls, m.bad = n.bad
  PROVE  m = n
<1>1. m = [id |-> m.id, type |-> "ai", from |-> m.from, form |-> m.form, parts |-> m.parts,
           extra |-> m.extra, calls |-> m.calls, bad |-> m.bad]
  BY DEF AiMsg
<1>2. n = [id |-> n.id, type |-> "ai", from |-> n.from, form |-> n.form, parts |-> n.parts,
           extra |-> n.extra, calls |-> n.calls, bad |-> n.bad]
  BY DEF AiMsg
<1> QED
  BY <1>1, <1>2

(* What is steady looks the same when it has been converted. *)
LEMMA SteadyWire ==
  ASSUME NEW p \in Models, NEW m \in Msg, Steady(m, p)
  PROVE  WireMsg(Converted(m, p)) = WireMsg(m)
<1>1. CASE m.type # "ai"
  BY <1>1 DEF Converted
<1>2. CASE m.type = "ai"
  <2> DEFINE c == Converted(m, p)
  <2>1. m \in AiMsg
    BY <1>2, MsgFacts
  <2>2. c \in AiMsg /\ c.id = m.id /\ c.type = "ai" /\ c.from = m.from /\ c.calls = m.calls
    BY <2>1, ConvertedAi
  <2>3. c.parts = m.parts /\ c.extra = m.extra /\ c.bad = m.bad /\ (c.form = m.form \/ m.parts = {"text"})
    BY <1>2 DEF Steady
  <2> HIDE DEF c
  <2>4. CASE m.parts = {"text"}
    <3> DEFINE a == [m EXCEPT !.form = "string"]  b == [c EXCEPT !.form = "string"]
    <3>1. a \in AiMsg /\ a.id = m.id /\ a.from = m.from /\ a.form = "string" /\ a.parts = m.parts /\ a.extra = m.extra
          /\ a.calls = m.calls /\ a.bad = m.bad
      BY <2>1 DEF AiMsg
    <3>2. b \in AiMsg /\ b.id = c.id /\ b.from = c.from /\ b.form = "string" /\ b.parts = c.parts /\ b.extra = c.extra
          /\ b.calls = c.calls /\ b.bad = c.bad
      BY <2>2 DEF AiMsg
    <3>3. WireMsg(m) = a /\ WireMsg(c) = b
      BY <1>2, <2>2, <2>3, <2>4 DEF WireMsg
    <3> HIDE DEF a, b
    <3>4. a = b
      BY <2>2, <2>3, <3>1, <3>2, SameAi
    <3> QED
      BY <3>3, <3>4 DEF c
  <2>5. CASE m.parts # {"text"}
    <3>1. c = m
      BY <2>1, <2>2, <2>3, <2>5, SameAi
    <3> QED
      BY <3>1 DEF c
  <2> QED
    BY <2>4, <2>5
<1> QED
  BY <1>1, <1>2

(* Converting twice is converting once. *)
LEMMA ConvertedSteady ==
  ASSUME NEW p \in Models, NEW m \in Msg
  PROVE  Steady(Converted(m, p), p)
<1>1. CASE m.type # "ai"
  BY <1>1 DEF Converted, Steady
<1>2. CASE m.type = "ai"
  <2> DEFINE c == Converted(m, p)  d == Converted(c, p)
  <2>1. m \in AiMsg
    BY <1>2, MsgFacts
  <2>2. c \in AiMsg /\ c.from = m.from
    BY <2>1, ConvertedAi
  <2>3. CASE p = "ChatMoonshot"
    <3>1. /\ c.form = "string" /\ c.parts = m.parts \cap {"text"} /\ c.bad = <<>>
          /\ c.extra = (m.extra \ {"tool_calls"}) \cup {"reasoning_content"}
      BY <2>1, <2>3, ConvertedAi
    <3> HIDE DEF c
    <3>2. /\ d.form = "string" /\ d.parts = c.parts \cap {"text"} /\ d.bad = <<>>
          /\ d.extra = (c.extra \ {"tool_calls"}) \cup {"reasoning_content"}
      BY <2>2, <2>3, ConvertedAi
    <3> HIDE DEF d
    <3>3. d.parts = c.parts /\ d.extra = c.extra
      BY <3>1, <3>2
    <3> QED
      BY <3>1, <3>2, <3>3 DEF Steady, c, d
  <2>4. CASE Own(c, p)
    <3> HIDE DEF c
    <3>1. d = c
      BY <2>2, <2>4, ConvertedAi
    <3> QED
      BY <3>1 DEF Steady, c, d
  <2>5. CASE p # "ChatMoonshot" /\ ~ Own(c, p)
    <3>1. ~ Own(m, p)
      BY <2>1, <2>5, ConvertedAi
    <3>2. c.form = "list" /\ c.parts = SafeParts(m, p) /\ c.bad = <<>> /\ c.extra = m.extra \ Foreign(m, p)
      BY <2>1, <2>5, <3>1, ConvertedAi
    <3> HIDE DEF c
    <3>3. d.form = "list" /\ d.parts = SafeParts(c, p) /\ d.bad = <<>> /\ d.extra = c.extra \ Foreign(c, p)
      BY <2>2, <2>5, ConvertedAi
    <3> HIDE DEF d
    <3>4. Foreign(c, p) = Foreign(m, p)
      BY <2>2 DEF Foreign
    <3>5. d.extra = c.extra
      <4> DEFINE x == Foreign(m, p)
      <4> HIDE DEF x
      <4>1. c.extra = m.extra \ x /\ d.extra = c.extra \ x
        BY <3>2, <3>3, <3>4 DEF x
      <4> QED
        BY <4>1
    <3>6. SafeParts(c, p) = c.parts
      BY <3>2 DEF SafeParts, Thinking
    <3> QED
      BY <3>2, <3>3, <3>5, <3>6 DEF Steady, c, d
  <2> QED
    BY <2>3, <2>4, <2>5
<1> QED
  BY <1>1, <1>2

(* The text an exchange is collapsed to is steady. *)
LEMMA TextSteady ==
  ASSUME NEW id \in Nat, NEW from \in Models \cup {"none"}
  PROVE  /\ Ai(id, from, "string", {"text"}, {}, <<>>) \in AiMsg
         /\ Steady(Ai(id, from, "string", {"text"}, {}, <<>>), Gemini)
<1> DEFINE a == Ai(id, from, "string", {"text"}, {}, <<>>)  c == Converted(a, Gemini)
<1>1. a \in AiMsg
  <2>1. <<>> \in Seq(Call)
    OBVIOUS
  <2> QED
    BY <2>1 DEF Ai, AiMsg
<1>2. a.form = "string" /\ a.parts = {"text"} /\ a.extra = {} /\ a.bad = <<>> /\ a.type = "ai"
  BY DEF Ai
<1>3. Gemini \in Models /\ Gemini # "ChatMoonshot" /\ Gemini # "ChatAnthropic"
  BY DEF Gemini, Models
<1> HIDE DEF a
<1>4. ~ Own(a, Gemini)
  BY <1>2 DEF Own
<1>5. c.parts = SafeParts(a, Gemini) /\ c.bad = <<>> /\ c.extra = a.extra \ Foreign(a, Gemini)
  BY <1>1, <1>3, <1>4, ConvertedAi
<1> HIDE DEF c
<1>6. SafeParts(a, Gemini) = {"text"} /\ c.extra = {}
  BY <1>2, <1>5 DEF SafeParts
<1> QED
  BY <1>1, <1>2, <1>5, <1>6 DEF Steady, a, c

(* Cleaning ids leaves a message steady that has no mark of their legacy form. *)
LEMMA SaneSteady ==
  ASSUME NEW p \in Models, NEW m \in Fit(p), Steady(m, p)
  PROVE  Steady(SanitizedMsg(m), p)
<1>0. m \in Msg /\ ShapedFor(p, m)
  BY DEF Fit
<1>1. CASE m.type = "tool"
  <2>1. SanitizedMsg(m).type = "tool"
    BY <1>0, <1>1, SaneFit
  <2> QED
    BY <2>1 DEF Steady
<1>2. CASE m.type # "tool" /\ \A n \in DOMAIN Calls(m) : Calls(m)[n].clean
  BY <1>2 DEF SanitizedMsg
<1>3. CASE m.type # "tool" /\ ~ \A n \in DOMAIN Calls(m) : Calls(m)[n].clean
  <2>1. m.type = "ai"
    <3>1. DOMAIN <<>> = {}
      OBVIOUS
    <3> QED
      BY <1>3, <3>1 DEF Calls
  <2>2. m \in AiMsg
    BY <1>0, <2>1, MsgFacts
  <2> DEFINE s == SanitizedMsg(m)  c == Converted(m, p)  d == Converted(s, p)
  <2>3. s \in Msg /\ s.type = "ai"
    BY <1>0, <2>1, SaneFit
  <2>4. s.parts = m.parts /\ s.form = m.form /\ s.from = m.from /\ s.bad = m.bad /\ s.extra = m.extra
    <3> DEFINE v == [n \in DOMAIN m.calls |-> Clean(m.calls[n])]
               r == [m EXCEPT !.calls = v, !.extra = @ \ {"tool_calls"}]
    <3>1. s = [m EXCEPT !.calls = [n \in DOMAIN @ |-> Clean(@[n])], !.extra = @ \ {"tool_calls"}]
      BY <1>3 DEF SanitizedMsg
    <3>2. s = r
      BY <3>1
    <3> HIDE DEF v, s
    <3>3. r.parts = m.parts /\ r.form = m.form /\ r.from = m.from /\ r.bad = m.bad /\ r.extra = m.extra \ {"tool_calls"}
      BY <2>2 DEF AiMsg
    <3>4. m.extra \ {"tool_calls"} = m.extra
      BY <1>0, <2>1 DEF ShapedFor
    <3> QED
      BY <3>2, <3>3, <3>4
  <2>5. s \in AiMsg
    BY <2>3, MsgFacts
  <2> HIDE DEF s
  <2>6. (Own(s, p) <=> Own(m, p)) /\ SafeParts(s, p) = SafeParts(m, p) /\ Foreign(s, p) = Foreign(m, p)
    BY <2>4 DEF Own, SafeParts, Foreign
  <2>7. c.parts = m.parts /\ c.extra = m.extra /\ c.bad = m.bad /\ (c.form = m.form \/ m.parts = {"text"})
    BY <2>1 DEF Steady
  <2>8. CASE p = "ChatMoonshot"
    <3>1. /\ c.form = "string" /\ c.parts = m.parts \cap {"text"} /\ c.bad = <<>>
          /\ c.extra = (m.extra \ {"tool_calls"}) \cup {"reasoning_content"}
      BY <2>2, <2>8, ConvertedAi
    <3>2. /\ d.form = "string" /\ d.parts = s.parts \cap {"text"} /\ d.bad = <<>>
          /\ d.extra = (s.extra \ {"tool_calls"}) \cup {"reasoning_content"}
      BY <2>5, <2>8, ConvertedAi
    <3> HIDE DEF c, d
    <3>3. d.parts = s.parts /\ d.extra = s.extra /\ d.bad = s.bad /\ (d.form = s.form \/ s.parts = {"text"})
      BY <2>4, <2>7, <3>1, <3>2
    <3> QED
      BY <3>3 DEF Steady, d, s
  <2>9. CASE Own(m, p)
    <3>1. d = s
      BY <2>5, <2>6, <2>9, ConvertedAi
    <3> HIDE DEF d
    <3>2. d.parts = s.parts /\ d.extra = s.extra /\ d.bad = s.bad /\ d.form = s.form
      BY <3>1
    <3> QED
      BY <3>2 DEF Steady, d, s
  <2>10. CASE p # "ChatMoonshot" /\ ~ Own(m, p)
    <3>1. /\ c.form = "list" /\ c.parts = SafeParts(m, p) /\ c.bad = <<>> /\ c.extra = m.extra \ Foreign(m, p)
      BY <2>2, <2>10, ConvertedAi
    <3>2. /\ d.form = "list" /\ d.parts = SafeParts(s, p) /\ d.bad = <<>> /\ d.extra = s.extra \ Foreign(s, p)
      BY <2>5, <2>6, <2>10, ConvertedAi
    <3> HIDE DEF c, d
    <3>3. d.parts = s.parts /\ d.extra = s.extra /\ d.bad = s.bad /\ (d.form = s.form \/ s.parts = {"text"})
      BY <2>4, <2>6, <2>7, <3>1, <3>2
    <3> QED
      BY <3>3 DEF Steady, d, s
  <2> QED
    BY <2>8, <2>9, <2>10 DEF s
<1> QED
  BY <1>1, <1>2, <1>3

(* All messages of a list are. *)
AllSteady(ms, p) == \A i \in 1..Len(ms) : Steady(ms[i], p)

(* What a provider gets is steady. *)
LEMMA ForProviderSteady ==
  ASSUME NEW p \in Models, NEW ms \in Seq(Ready(p)), Exact(ms)
  PROVE  AllSteady(ForProvider(ms, p), p)
<1> DEFINE s == Shaped(ms, p)
<1>0. ms \in Seq(Msg) /\ DOMAIN ms = 1..Len(ms)
  BY SeqsOfMsgs
<1>1. s \in Seq(Fit(p)) /\ Exact(s) /\ Len(s) = Len(ms)
  BY <1>0, ShapedGood DEF Shaped
<1>2. s \in Seq(Msg) /\ DOMAIN s = 1..Len(s)
  BY <1>1, SeqsOfMsgs
<1>3. ASSUME NEW i \in 1..Len(s) PROVE Steady(s[i], p)
  <2>1. s[i] = Converted(ms[i], p) /\ ms[i] \in Msg
    BY <1>0, <1>1 DEF Shaped
  <2> QED
    BY <2>1, ConvertedSteady
<1>4. ForProvider(ms, p) = IF p = Gemini THEN Collapsed(s) ELSE s
  BY DEF ForProvider, Shaped
<1> HIDE DEF s
<1>5. CASE p # Gemini
  BY <1>3, <1>4, <1>5 DEF AllSteady
<1>6. CASE p = Gemini
  <2> DEFINE M == {m \in Msg : Steady(m, p)}  g == Flattening(s)  o == Collapsed(s)
  <2>1. ASSUME NEW i \in 1..Len(s) PROVE g[i] \in Seq(M)
    <3> DEFINE m == s[i]  h == Human(0)  a == Ai(m.id, m.from, "string", {"text"}, {}, <<>>)
    <3>1. g[i] = IF m.type = "tool" THEN IF IsToolAt(s, i - 1) THEN <<>> ELSE <<h>>
                 ELSE IF Calls(m) # <<>> THEN <<a>> ELSE <<m>>
      BY <1>2 DEF Flattening, Flattened
    <3>2. m \in M
      BY <1>2, <1>3
    <3>3. h \in M
      BY DEF Human, HumanMsg, Msg, Steady
    <3>4. Calls(m) # <<>> => a \in M
      <4> SUFFICES ASSUME Calls(m) # <<>> PROVE a \in M
        OBVIOUS
      <4>1. m \in Msg
        BY <1>2
      <4>2. m \in AiMsg
        <5> HIDE DEF m
        <5> QED
          BY <4>1, MsgFacts DEF Calls
      <4>3. m.id \in Nat /\ m.from \in Models \cup {"none"}
        BY <4>2 DEF AiMsg
      <4>4. a \in AiMsg /\ Steady(a, Gemini)
        <5> DEFINE x == m.id  y == m.from
        <5>1. x \in Nat /\ y \in Models \cup {"none"}
          BY <4>3
        <5> HIDE DEF x, y
        <5>2. Ai(x, y, "string", {"text"}, {}, <<>>) \in AiMsg /\ Steady(Ai(x, y, "string", {"text"}, {}, <<>>), Gemini)
          BY <5>1, TextSteady
        <5> QED
          BY <5>2 DEF x, y
      <4> QED
        BY <1>6, <4>4 DEF Msg
    <3> HIDE DEF g, m, h, a, M
    <3>5. ASSUME NEW x \in M PROVE <<x>> \in Seq(M)
      OBVIOUS
    <3>6. <<>> \in Seq(M)
      OBVIOUS
    <3> QED
      BY <3>1, <3>2, <3>3, <3>4, <3>5, <3>6
  <2> HIDE DEF g, M
  <2>2. o = Expand(s, g)
    BY <1>1, <1>2, CollapsedIs DEF g
  <2>3. o \in Seq(M)
    BY <1>2, <2>1, <2>2, Expanded
  <2> HIDE DEF o
  <2>4. \A i \in 1..Len(o) : o[i] \in M
    BY <2>3
  <2>5. AllSteady(o, p)
    BY <2>4 DEF AllSteady, M
  <2> QED
    BY <1>4, <1>6, <2>5 DEF o
<1> QED
  BY <1>5, <1>6

(* A first request is steady. *)
LEMMA WrappedSteady ==
  ASSUME NEW p \in Models, NEW ms \in Seq(Ready(p)),
         Grouped(ms), Apart(ms), \A i \in 1..Len(ms) : FewBad(ms[i])
  PROVE  AllSteady(Wrapped(ms, p), p)
<1> DEFINE d == DanglingPatched(ms)  o == OrphansPatched(d)  f == ForProvider(o, p)  s == Sanitized(f)
<1>0. ms \in Seq(Msg)
  BY SeqsOfMsgs
<1>1. d \in Seq(Msg) /\ Grouped(d) /\ Complete(d) /\ Apart(d) /\ \A j \in 1..Len(d) : FewBad(d[j])
  BY <1>0, DanglingGroups
<1>2. d \in Seq(Ready(p))
  BY ReadyKept
<1> HIDE DEF d
<1>3. o \in Seq(Ready(p)) /\ Exact(o)
  BY <1>1, <1>2, ReadyKept, OrphansExact
<1> HIDE DEF o
<1>4. Deliverable(f, p) /\ AllSteady(f, p)
  BY <1>3, ForProviderGood, ForProviderSteady
<1> HIDE DEF f
<1>5. f \in Seq(Fit(p)) /\ DOMAIN f = 1..Len(f) /\ Len(f) \in Nat
  BY <1>4 DEF Deliverable
<1>6. s = [i \in 1..Len(f) |-> SanitizedMsg(f[i])]
  BY <1>5 DEF Sanitized, SanitizedMsg
<1> HIDE DEF s
<1>7. ASSUME NEW i \in 1..Len(f) PROVE Steady(s[i], p)
  <2>1. f[i] \in Fit(p) /\ Steady(f[i], p) /\ s[i] = SanitizedMsg(f[i])
    BY <1>4, <1>5, <1>6 DEF AllSteady
  <2> QED
    BY <2>1, SaneSteady
<1>8. Len(s) = Len(f)
  BY <1>5, <1>6
<1>9. AllSteady(s, p)
  BY <1>7, <1>8 DEF AllSteady
<1> QED
  BY <1>9 DEF Wrapped, d, o, f, s

(* Clean ids stay as they are. *)
LEMMA SanitizedNothing ==
  ASSUME NEW ms \in Seq(Msg), AllClear(ms)
  PROVE  Sanitized(ms) = ms
<1>1. DOMAIN ms = 1..Len(ms) /\ Len(ms) \in Nat
  OBVIOUS
<1>2. Sanitized(ms) = [i \in 1..Len(ms) |-> SanitizedMsg(ms[i])]
  BY <1>1 DEF Sanitized, SanitizedMsg
<1>3. ASSUME NEW i \in 1..Len(ms) PROVE SanitizedMsg(ms[i]) = ms[i]
  <2> DEFINE m == ms[i]
  <2>1. m \in Msg /\ Clear(m)
    BY DEF AllClear
  <2> HIDE DEF m
  <2>2. CASE m.type = "tool"
    <3>1. m \in ToolMsg /\ m.call \in Call /\ m.call.clean
      BY <2>1, <2>2, MsgFacts DEF Clear
    <3>2. Clean(m.call) = m.call
      BY <3>1, CleanFacts
    <3>3. [m EXCEPT !.call = Clean(@)] = m
      BY <3>1, <3>2 DEF ToolMsg
    <3> QED
      BY <2>2, <3>3 DEF SanitizedMsg, m
  <2>3. CASE m.type # "tool"
    <3> DEFINE u == Calls(m)
    <3>1. u \in Seq(Call)
      BY <2>1, MsgFacts
    <3> HIDE DEF u
    <3>2. DOMAIN u = 1..Len(u)
      BY <3>1
    <3>3. \A n \in DOMAIN u : u[n].clean
      BY <2>1, <3>2 DEF Clear, u
    <3>4. SanitizedMsg(m) = m
      BY <2>3, <3>3 DEF SanitizedMsg, u
    <3> QED
      BY <3>4 DEF m
  <2> QED
    BY <2>2, <2>3
<1> DEFINE s == Sanitized(ms)
<1>4. s = [i \in 1..Len(ms) |-> ms[i]]
  BY <1>2, <1>3
<1> QED
  BY <1>1, <1>4

(* Where there are no exchanges, nothing is collapsed. *)
LEMMA CollapsedNothing ==
  ASSUME NEW ms \in Seq(Msg), \A i \in 1..Len(ms) : ms[i].type # "tool" /\ Calls(ms[i]) = <<>>
  PROVE  Collapsed(ms) = ms
<1>1. Exact(ms) /\ DOMAIN ms = 1..Len(ms)
  BY PlainExact
<1> DEFINE f == Flattening(ms)  o == Collapsed(ms)
<1>2. o = Expand(ms, f)
  BY <1>1, CollapsedIs
<1>3. \A i \in 1..Len(ms) : f[i] = <<ms[i]>>
  BY <1>1 DEF Flattening, Flattened
<1> HIDE DEF f
<1>4. Each(f, ms, Len(ms), Msg)
  BY <1>3 DEF Each
<1>5. Expand(ms, f) \in Seq(Msg) /\ Lists(Expand(ms, f), ms, Len(ms))
  BY <1>4, Singles
<1> HIDE DEF o
<1>6. o \in Seq(Msg) /\ Len(o) = Len(ms) /\ \A i \in 1..Len(ms) : o[i] = ms[i]
  BY <1>2, <1>5 DEF Lists
<1>7. o = ms
  BY <1>6
<1> QED
  BY <1>7 DEF o

(* The same on the wire. *)
WireSame(a, b) == Len(a) = Len(b) /\ \A i \in 1..Len(a) : WireMsg(a[i]) = WireMsg(b[i])

(* Converting again what a provider was sent changes nothing on the wire. *)
LEMMA ForProviderAgain ==
  ASSUME NEW p \in Models, NEW ms, Sent(ms, p), AllSteady(ms, p)
  PROVE  WireSame(ForProvider(ms, p), ms) /\ AllSteady(ForProvider(ms, p), p)
<1> DEFINE s == Shaped(ms, p)
<1>0. /\ ms \in Seq(Fit(p)) /\ ms \in Seq(Msg) /\ ms \in Seq(Ready(p)) /\ Exact(ms)
      /\ DOMAIN ms = 1..Len(ms) /\ Len(ms) \in Nat
  BY SeqsOfMsgs DEF Sent, Deliverable
<1>1. Len(s) = Len(ms) /\ s \in Seq(Fit(p))
  <2>1. s \in Seq(Fit(p))
    BY <1>0, ShapedGood
  <2>2. Len(s) = Len(ms)
    BY <1>0 DEF Shaped
  <2> QED
    BY <2>1, <2>2
<1>2. ASSUME NEW i \in 1..Len(ms)
      PROVE  WireMsg(s[i]) = WireMsg(ms[i]) /\ s[i].type = ms[i].type /\ Calls(s[i]) = Calls(ms[i])
  <2>1. ms[i] \in Msg /\ Steady(ms[i], p) /\ ms[i] \in Ready(p) /\ s[i] = Converted(ms[i], p)
    BY <1>0 DEF AllSteady, Shaped
  <2> QED
    BY <2>1, SteadyWire, ConvertedFit
<1>3. ForProvider(ms, p) = IF p = Gemini THEN Collapsed(s) ELSE s
  BY DEF ForProvider, Shaped
<1> HIDE DEF s
<1>4. p = Gemini => Collapsed(s) = s
  <2> SUFFICES ASSUME p = Gemini PROVE Collapsed(s) = s
    OBVIOUS
  <2>1. \A i \in 1..Len(ms) : ms[i].type # "tool" /\ Calls(ms[i]) = <<>>
    BY DEF Sent, Deliverable
  <2>2. \A i \in 1..Len(s) : s[i].type # "tool" /\ Calls(s[i]) = <<>>
    BY <1>1, <1>2, <2>1
  <2>3. s \in Seq(Msg)
    BY <1>1, SeqsOfMsgs
  <2> QED
    BY <2>2, <2>3, CollapsedNothing
<1>5. ForProvider(ms, p) = s
  BY <1>3, <1>4
<1>6. WireSame(s, ms)
  BY <1>1, <1>2 DEF WireSame
<1>7. AllSteady(ForProvider(ms, p), p)
  BY <1>0, ForProviderSteady
<1> QED
  BY <1>5, <1>6, <1>7

(* Healing a request changes nothing on the wire: nothing is missing in it. *)
LEMMA HealedSame ==
  ASSUME NEW p \in Models, NEW ms, Sent(ms, p), AllSteady(ms, p), NEW corrupted \in BOOLEAN
  PROVE  WireSame(Healed(ms, p, corrupted), ms) /\ AllSteady(Healed(ms, p, corrupted), p)
<1>0. ms \in Seq(Msg) /\ Exact(ms) /\ AllClear(ms)
  BY SeqsOfMsgs DEF Sent, Deliverable
<1> DEFINE i == Injected(OrphansPatched(DanglingPatched(ms)), Unanswered(ms))
           s == Sanitized(i)
           c == IF p = Gemini /\ corrupted THEN Collapsed(s) ELSE s
<1>1. i = ms
  BY <1>0, ExactDangling, ExactOrphans, ExactInjected
<1> HIDE DEF i
<1>2. s = ms
  BY <1>0, <1>1, SanitizedNothing
<1> HIDE DEF s
<1>3. c = ms
  <2>1. ASSUME p = Gemini PROVE Collapsed(ms) = ms
    <3>1. \A j \in 1..Len(ms) : ms[j].type # "tool" /\ Calls(ms[j]) = <<>>
      BY <2>1 DEF Sent, Deliverable
    <3> QED
      BY <1>0, <3>1, CollapsedNothing
  <2> QED
    BY <1>2, <2>1
<1> HIDE DEF c
<1>4. Healed(ms, p, corrupted) = ForProvider(c, p)
  BY DEF Healed, c, s, i
<1> QED
  BY <1>3, <1>4, ForProviderAgain

(* Requests that begin with one another on the wire. *)
LEMMA WirePrefix ==
  ASSUME NEW a \in Seq(Msg), NEW b \in Seq(Msg), NEW c \in Seq(Msg), WireSame(a, b), Begins(b, c)
  PROVE  IsPrefix(Wire(a), Wire(c))
<1>1. /\ Len(a) \in Nat /\ Len(c) \in Nat /\ Len(a) = Len(b) /\ Len(b) <= Len(c)
      /\ DOMAIN a = 1..Len(a) /\ DOMAIN c = 1..Len(c)
      /\ \A i \in 1..Len(b) : c[i] = b[i]
  BY DEF WireSame, Begins
<1>2. Wire(a) = [i \in 1..Len(a) |-> WireMsg(a[i])] /\ Wire(c) = [i \in 1..Len(c) |-> WireMsg(c[i])]
  BY <1>1 DEF Wire, WireMsg
<1> DEFINE x == Wire(a)  y == Wire(c)  X == {x[i] : i \in 1..Len(a)} \cup {y[i] : i \in 1..Len(c)}
<1>3. /\ x \in [1..Len(a) -> X] /\ y \in [1..Len(c) -> X]
      /\ \A i \in 1..Len(a) : x[i] = WireMsg(a[i])
      /\ \A i \in 1..Len(c) : y[i] = WireMsg(c[i])
  BY <1>2
<1> HIDE DEF x, y, X
<1>4. x \in Seq(X) /\ Len(x) = Len(a) /\ y \in Seq(X) /\ Len(y) = Len(c)
  <2>1. ASSUME NEW n \in Nat, NEW h \in [1..n -> X] PROVE h \in Seq(X) /\ Len(h) = n
    OBVIOUS
  <2> QED
    BY <1>1, <1>3, <2>1
<1>5. \A i \in 1..Len(x) : x[i] = y[i]
  <2> TAKE i \in 1..Len(x)
  <2>1. i \in 1..Len(a) /\ i \in 1..Len(b) /\ i \in 1..Len(c)
    BY <1>1, <1>4
  <2>2. WireMsg(a[i]) = WireMsg(b[i])
    BY <2>1 DEF WireSame
  <2> QED
    BY <1>1, <1>3, <2>1, <2>2
<1>6. Len(x) <= Len(y) /\ Len(x) \in Nat
  BY <1>1, <1>4
<1>7. IsPrefix(x, y)
  <2>1. SubSeq(x, 1, Len(x)) = SubSeq(y, 1, Len(x))
    BY <1>4, <1>5, <1>6
  <2> QED
    BY <1>6, <2>1 DEF IsPrefix
<1> QED
  BY <1>7 DEF x, y

\* ------------------------------------------------------- what was last sent

(* What was last sent of a thread is the request for a beginning of it, behind *)
(* which it has gone on if the tool node is next.  Nothing of it is queued for *)
(* removal, unless there were orphans.                                         *)
SentOf(r, ms, out, tools) ==
  /\ ms \in Seq(Born) /\ Grouped(ms) /\ Apart(ms)
  /\ Cut(ms, out) /\ (tools => Len(ms) < Len(out))
  /\ WireSame(r.msgs, Wrapped(ms, r.model))

LastOK(r, out, tools, gone) ==
  \/ r = NoRequest
  \/ /\ r.model \in Models /\ r.msgs \in Seq(Msg)
     /\ ~ r.orphans => Ids(out) \cap gone = {} /\ \E ms : SentOf(r, ms, out, tools)

LastsOK == \A t \in Chats \ patched : LastOK(request[t], chat[t], at[t] = "tools", removals)

SteadyOK == \A t \in waiting \ patched : AllSteady(request[t].msgs, request[t].model)

PrefixInv == PatchInv /\ LastsOK /\ SteadyOK

(* The thread goes on, with no results but those the tool node was to bring. *)
LEMMA LastLater ==
  ASSUME NEW r, NEW old \in Seq(Msg), NEW out \in Seq(Msg), NEW tools, NEW tools2, NEW gone, NEW gone2,
         LastOK(r, old, tools, gone), Begins(old, out), Ids(out) \cap gone2 \subseteq Ids(old) \cap gone,
         tools \/ ~ IsToolAt(out, Len(old) + 1),
         tools2 => tools \/ Len(old) < Len(out)
  PROVE  LastOK(r, out, tools2, gone2)
<1>1. CASE r = NoRequest \/ r.orphans
  BY <1>1 DEF LastOK
<1>2. CASE r # NoRequest /\ ~ r.orphans
  <2>1. /\ r.model \in Models /\ r.msgs \in Seq(Msg)
        /\ Ids(old) \cap gone = {} /\ \E ms : SentOf(r, ms, old, tools)
    BY <1>2 DEF LastOK
  <2>2. PICK ms : SentOf(r, ms, old, tools)
    BY <2>1
  <2>3. ms \in Seq(Msg) /\ Cut(ms, old) /\ (tools => Len(ms) < Len(old))
    BY <2>2, BornFacts DEF SentOf
  <2>4. /\ Len(ms) \in Nat /\ Len(old) \in Nat /\ Len(out) \in Nat /\ Len(ms) <= Len(old) /\ Len(old) <= Len(out)
        /\ \A i \in 1..Len(ms) : i \in 1..Len(old) /\ old[i] = ms[i]
        /\ \A i \in 1..Len(old) : out[i] = old[i]
    BY <2>3, CutFacts DEF Begins
  <2>5. Begins(ms, out)
    BY <2>4 DEF Begins
  <2>6. ~ IsToolAt(out, Len(ms) + 1)
    <3>1. CASE Len(ms) < Len(old)
      <4>1. Len(ms) + 1 \in Nat /\ Len(ms) + 1 <= Len(old)
        BY <2>4, <3>1
      <4>2. IsToolAt(out, Len(ms) + 1) <=> IsToolAt(old, Len(ms) + 1)
        BY <4>1, ToolsKept
      <4> QED
        BY <2>3, <4>2 DEF Cut
    <3>2. CASE Len(ms) = Len(old)
      <4>1. ~ tools
        BY <2>3, <2>4, <3>2
      <4> QED
        BY <3>2, <4>1
    <3> QED
      BY <2>4, <3>1, <3>2
  <2>7. tools2 => Len(ms) < Len(out)
    BY <2>3, <2>4
  <2>8. SentOf(r, ms, out, tools2)
    BY <2>2, <2>5, <2>6, <2>7 DEF SentOf, Cut
  <2>9. Ids(out) \cap gone2 = {}
    BY <2>1
  <2> QED
    BY <2>1, <2>8, <2>9 DEF LastOK
<1> QED
  BY <1>1, <1>2

(* Less is queued for removal of a thread that stays as it is. *)
LEMMA LastStays ==
  ASSUME NEW r, NEW out \in Seq(Msg), NEW tools, NEW gone, NEW gone2,
         LastOK(r, out, tools, gone), Ids(out) \cap gone2 \subseteq gone
  PROVE  LastOK(r, out, tools, gone2)
<1>1. Begins(out, out) /\ ~ IsToolAt(out, Len(out) + 1)
  BY DEF Begins, IsToolAt
<1>2. Ids(out) \cap gone2 \subseteq Ids(out) \cap gone
  OBVIOUS
<1> QED
  BY <1>1, <1>2, LastLater

(* Whatever is sent anew, to the same model, begins with it. *)
LEMMA LastPrefix ==
  ASSUME NEW r, NEW out \in Seq(Msg), NEW tools, NEW gone, LastOK(r, out, tools, gone),
         ~ r.orphans, NEW p \in Models, r.model = p, out \in Seq(Born), Grouped(out), Apart(out)
  PROVE  IsPrefix(Wire(r.msgs), Wire(Wrapped(out, p)))
<1>1. r # NoRequest
  BY DEF NoRequest, Models
<1>2. r.msgs \in Seq(Msg) /\ \E ms : SentOf(r, ms, out, tools)
  BY <1>1 DEF LastOK
<1>3. PICK ms : SentOf(r, ms, out, tools)
  BY <1>2
<1>4. /\ ms \in Seq(Born) /\ Grouped(ms) /\ Apart(ms) /\ Cut(ms, out)
      /\ WireSame(r.msgs, Wrapped(ms, p))
  BY <1>3 DEF SentOf
<1>5. Begins(Wrapped(ms, p), Wrapped(out, p))
  BY <1>4, WrappedCut
<1>6. ASSUME NEW l \in Seq(Born), Grouped(l), Apart(l) PROVE Wrapped(l, p) \in Seq(Msg)
  <2>1. l \in Seq(Ready(p)) /\ \A i \in 1..Len(l) : FewBad(l[i])
    BY BornFacts
  <2>2. Sent(Wrapped(l, p), p)
    BY <1>6, <2>1, WrappedSent
  <2> QED
    BY <2>2, SeqsOfMsgs DEF Sent, Deliverable
<1>7. Wrapped(ms, p) \in Seq(Msg) /\ Wrapped(out, p) \in Seq(Msg)
  BY <1>4, <1>6
<1> QED
  BY <1>2, <1>4, <1>5, <1>7, WirePrefix

(* A thread of which nothing is queued keeps all its messages. *)
LEMMA RemainingAll ==
  ASSUME NEW ms \in Seq(Msg), NEW gone, Ids(ms) \cap gone = {}
  PROVE  Remaining(ms, gone) = ms
<1> DEFINE K == {i \in DOMAIN ms : ms[i].id \notin gone}  f == [i \in DOMAIN ms |-> IF i \in K THEN <<ms[i]>> ELSE <<>>]
           o == Remaining(ms, gone)
<1>1. DOMAIN ms = 1..Len(ms)
  OBVIOUS
<1>2. \A i \in 1..Len(ms) : i \in K
  BY <1>1 DEF Ids
<1>3. o = Expand(ms, f)
  BY DEF Remaining, Only
<1> HIDE DEF K
<1>4. \A i \in 1..Len(ms) : f[i] = <<ms[i]>>
  BY <1>1, <1>2
<1> HIDE DEF f
<1>5. Each(f, ms, Len(ms), Msg)
  BY <1>4 DEF Each
<1>6. Expand(ms, f) \in Seq(Msg) /\ Lists(Expand(ms, f), ms, Len(ms))
  BY <1>5, Singles
<1> HIDE DEF o
<1>7. o \in Seq(Msg) /\ Len(o) = Len(ms) /\ \A i \in 1..Len(ms) : o[i] = ms[i]
  BY <1>3, <1>6 DEF Lists
<1>8. o = ms
  BY <1>7
<1> QED
  BY <1>8 DEF o

(* The facts about a thread that a step starts from. *)
LEMMA PrefixFacts ==
  ASSUME PrefixInv, NEW t \in Chats
  PROVE  /\ TypesOK /\ IdsApart /\ ToolsLast /\ ThreadsOK /\ SentOK
         /\ chat[t] \in Seq(Msg) /\ returned[t] \in Seq(Msg) /\ lastId \in Nat
         /\ Stored(chat[t], lastId) /\ Stored(returned[t], lastId)
         /\ removals \subseteq 1..lastId
         /\ t \notin patched =>
              /\ ThreadOK(chat[t], returned[t], removals, called)
              /\ LastOK(request[t], chat[t], at[t] = "tools", removals)
<1>1. TypesOK /\ IdsApart /\ ToolsLast /\ ThreadsOK /\ SentOK
  BY DEF PrefixInv, PatchInv
<1>2. chat[t] \in Seq(Msg) /\ returned[t] \in Seq(Msg) /\ lastId \in Nat
  BY <1>1 DEF TypesOK
<1>3. Stored(chat[t], lastId) /\ Stored(returned[t], lastId)
  BY <1>1 DEF IdsApart
<1>4. removals \subseteq 1..lastId
  BY <1>1, RemovalsGiven
<1>5. t \notin patched => ThreadOK(chat[t], returned[t], removals, called)
  BY <1>1 DEF ThreadsOK
<1>6. t \notin patched => LastOK(request[t], chat[t], at[t] = "tools", removals)
  BY DEF PrefixInv, LastsOK
<1> QED
  BY <1>1, <1>2, <1>3, <1>4, <1>5, <1>6

(* A step that leaves the requests alone, changes one thread, and queues nothing. *)
LEMMA OneGoesOn ==
  ASSUME PrefixInv, NEW t \in Chats, UNCHANGED request, patched \subseteq patched', waiting' \subseteq waiting,
         removals' \subseteq removals,
         \A s \in Chats : s # t => chat'[s] = chat[s] /\ at'[s] = at[s],
         t \notin patched' => LastOK(request[t], chat'[t], at'[t] = "tools", removals')
  PROVE  LastsOK' /\ SteadyOK'
<1>1. ASSUME NEW s \in Chats, s \notin patched' PROVE LastOK(request'[s], chat'[s], at'[s] = "tools", removals')
  <2>1. CASE s = t
    BY <1>1, <2>1
  <2>2. CASE s # t
    <3>1. chat[s] \in Seq(Msg) /\ LastOK(request[s], chat[s], at[s] = "tools", removals)
      BY <1>1, PrefixFacts
    <3>2. Ids(chat[s]) \cap removals' \subseteq removals
      OBVIOUS
    <3> DEFINE g == removals'  b == (at[s] = "tools")
    <3> HIDE DEF g, b
    <3>3. LastOK(request[s], chat[s], b, g)
      BY <3>1, <3>2, LastStays DEF g, b
    <3>4. chat'[s] = chat[s] /\ at'[s] = at[s] /\ request'[s] = request[s]
      BY <2>2
    <3> QED
      BY <3>3, <3>4 DEF g, b
  <2> QED
    BY <2>1, <2>2
<1>2. LastsOK'
  BY <1>1 DEF LastsOK
<1>3. SteadyOK'
  BY DEF PrefixInv, SteadyOK
<1> QED
  BY <1>2, <1>3

(* A message that is no result, with a new id. *)
LEMMA LastAppend ==
  ASSUME NEW r, NEW old \in Seq(Msg), NEW tools, NEW tools2, NEW gone, NEW gone2, LastOK(r, old, tools, gone),
         NEW m \in Msg, m.type # "tool", m.id \notin gone2, gone2 \subseteq gone
  PROVE  LastOK(r, Append(old, m), tools2, gone2)
<1> DEFINE out == Append(old, m)
<1>1. /\ out \in Seq(Msg) /\ Len(out) = Len(old) + 1 /\ Len(old) \in Nat /\ out[Len(old) + 1] = m
      /\ \A i \in 1..Len(old) : out[i] = old[i]
  OBVIOUS
<1> HIDE DEF out
<1>2. Begins(old, out) /\ Len(old) < Len(out)
  BY <1>1 DEF Begins
<1>3. ~ IsToolAt(out, Len(old) + 1)
  BY <1>1 DEF IsToolAt
<1>4. Ids(out) \subseteq Ids(old) \cup {m.id}
  <2>1. ASSUME NEW i \in 1..Len(out) PROVE out[i].id \in Ids(old) \cup {m.id}
    <3>1. i = Len(old) + 1 \/ i \in 1..Len(old)
      BY <1>1
    <3> QED
      BY <1>1, <3>1 DEF Ids
  <2> QED
    BY <2>1 DEF Ids
<1>5. Ids(out) \cap gone2 \subseteq Ids(old) \cap gone
  BY <1>4
<1>6. LastOK(r, out, tools2, gone2)
  BY <1>1, <1>2, <1>3, <1>5, LastLater
<1> QED
  BY <1>6 DEF out

(* The input goes behind what was sent. *)
LEMMA InvokePrefix ==
  ASSUME PrefixInv, NEW t \in Chats, NEW again \in BOOLEAN, Invoke(t, again)
  PROVE  LastsOK' /\ SteadyOK'
<1>1. /\ TypesOK /\ chat[t] \in Seq(Msg) /\ lastId \in Nat /\ removals \subseteq 1..lastId
      /\ t \notin patched => LastOK(request[t], chat[t], at[t] = "tools", removals)
  BY PrefixFacts
<1>2. /\ patched \subseteq patched' /\ at' = [at EXCEPT ![t] = "model"]
      /\ UNCHANGED <<request, waiting, removals>>
      /\ \A s \in Chats : s # t => chat'[s] = chat[s]
  <2>1. /\ chat' = [chat EXCEPT ![t] = Added(@, Repaired((IF again THEN returned[t] ELSE <<>>) \o <<Human(0)>>))]
        /\ patched \subseteq patched' /\ at' = [at EXCEPT ![t] = "model"]
        /\ UNCHANGED <<request, waiting, removals>>
    BY DEF Invoke
  <2> QED
    BY <1>1, <2>1 DEF TypesOK
<1>3. \A s \in Chats : s # t => at'[s] = at[s]
  BY <1>1, <1>2 DEF TypesOK
<1>4. ASSUME t \notin patched' PROVE LastOK(request[t], chat'[t], at'[t] = "tools", removals)
  <2>1. chat'[t] = Append(chat[t], Human(lastId + 1))
    BY <1>4, InvokeAppends DEF PrefixInv
  <2> DEFINE h == Human(lastId + 1)
  <2>2. h \in Msg /\ h.type # "tool" /\ h.id = lastId + 1
    BY <1>1 DEF Human, HumanMsg, Msg
  <2>3. lastId + 1 \notin 1..lastId
    BY <1>1
  <2>4. h.id \notin removals
    BY <1>1, <2>2, <2>3
  <2>5. LastOK(request[t], chat[t], at[t] = "tools", removals)
    BY <1>1, <1>2, <1>4
  <2> HIDE DEF h
  <2>6. ASSUME NEW b PROVE LastOK(request[t], Append(chat[t], h), b, removals)
    BY <1>1, <2>2, <2>4, <2>5, LastAppend
  <2> QED
    BY <2>1, <2>6 DEF h
<1> QED
  BY <1>2, <1>3, <1>4, OneGoesOn

(* So do the results, of which none stood there before. *)
LEMMA UsesPrefix ==
  ASSUME PrefixInv, NEW t \in Chats, Uses(t)
  PROVE  LastsOK' /\ SteadyOK'
<1> DEFINE old == chat[t]
           m == Last(old)
           calls == IF m.calls # <<>> THEN m.calls ELSE m.bad
           out == old \o [n \in DOMAIN calls |-> Tool(lastId + n, calls[n])]
<1>1. /\ TypesOK /\ ToolsLast /\ old \in Seq(Msg) /\ lastId \in Nat /\ removals \subseteq 1..lastId /\ Stored(old, lastId)
      /\ t \notin patched => LastOK(request[t], old, at[t] = "tools", removals)
  BY PrefixFacts
<1>2. /\ at[t] = "tools" /\ at' = [at EXCEPT ![t] = "model"]
      /\ chat' = [chat EXCEPT ![t] = out]
      /\ UNCHANGED <<request, waiting, removals, patched>>
  BY Zenon DEF Uses
<1>3. Len(old) # 0 /\ old[Len(old)].type = "ai"
  BY <1>1, <1>2 DEF ToolsLast
<1>4. calls = Made(old[Len(old)])
  BY <1>3 DEF Made, Last
<1>5. calls \in Seq(Call)
  <2>1. Len(old) \in 1..Len(old)
    BY <1>1, <1>3
  <2>2. old[Len(old)] \in Msg
    BY <1>1, <2>1
  <2> QED
    BY <1>4, <2>2, MsgFacts
<1>6. chat'[t] = out /\ \A s \in Chats : s # t => chat'[s] = chat[s] /\ at'[s] = at[s]
  BY <1>1, <1>2 DEF TypesOK
<1>7. at'[t] # "tools"
  BY <1>1, <1>2 DEF TypesOK
<1> HIDE DEF calls, m, old
<1>8. out = old \o [n \in DOMAIN calls |-> Tool(lastId + n, calls[n])]
  OBVIOUS
<1> HIDE DEF out
<1> DEFINE l == lastId + Len(calls)  X == (lastId + 1)..l
<1>9. out \in Seq(Msg) /\ Begins(old, out) /\ NewIds(old, out, X)
  <2>1. Ids(old) \subseteq 1..lastId
    BY <1>1 DEF Stored
  <2>2. UsedAs(old, calls, out)
    BY <1>1, <1>5, <1>8, <2>1, UsesAre
  <2> QED
    BY <2>2 DEF UsedAs
<1>10. l \in Nat /\ lastId <= l /\ X \subseteq 1..l /\ X \cap 1..lastId = {}
  <2>1. Len(calls) \in Nat
    BY <1>5
  <2> QED
    BY <1>1, <2>1
<1> HIDE DEF l, X
<1>11. Ids(out) \subseteq Ids(old) \cup X
  BY <1>1, <1>9, <1>10, StoredMore
<1>12. Ids(out) \cap removals \subseteq Ids(old) \cap removals
  BY <1>1, <1>10, <1>11
<1>13. ASSUME t \notin patched PROVE LastOK(request[t], out, FALSE, removals)
  <2>1. LastOK(request[t], old, TRUE, removals)
    BY <1>1, <1>2, <1>13
  <2> QED
    BY <1>1, <1>9, <1>12, <2>1, LastLater
<1>14. t \notin patched' => LastOK(request[t], chat'[t], at'[t] = "tools", removals')
  BY <1>2, <1>6, <1>7, <1>13
<1> QED
  BY <1>2, <1>6, <1>14, OneGoesOn

(* So does the answer; what is removed is not of a thread without orphans. *)
LEMMA AnswersPrefix ==
  ASSUME PrefixInv, NEW t \in Chats, Answers(t)
  PROVE  LastsOK' /\ SteadyOK'
<1>1. /\ TypesOK /\ chat[t] \in Seq(Msg) /\ lastId \in Nat
      /\ t \notin patched => LastOK(request[t], chat[t], at[t] = "tools", removals)
  BY PrefixFacts
<1>2. /\ t \in waiting /\ waiting' = waiting \ {t} /\ removals' = {} /\ UNCHANGED <<request, patched>>
  BY DEF Answers, Drained
<1>3. \/ \E thinks \in BOOLEAN, good \in 0..2, bad \in 0..1 :
              LET p == request[t].model
                  m == Answer(p, thinks, NewCalls(p, good), NewCalls(p, bad)) IN
              /\ chat' = [chat EXCEPT ![t] = Append(Remaining(@, removals), m)]
              /\ at' = [at EXCEPT ![t] = IF good + bad = 0 THEN "end" ELSE "tools"]
              /\ good * bad = 0
      \/ UNCHANGED <<chat, at>>
  BY Zenon DEF Answers
<1>4. CASE UNCHANGED <<chat, at>>
  <2>1. ASSUME t \notin patched' PROVE LastOK(request[t], chat'[t], at'[t] = "tools", removals')
    <3> DEFINE b == (at[t] = "tools")
    <3>1. LastOK(request[t], chat[t], b, removals)
      BY <1>1, <1>2, <2>1
    <3>2. Ids(chat[t]) \cap {} \subseteq removals
      OBVIOUS
    <3> HIDE DEF b
    <3>3. LastOK(request[t], chat[t], b, {})
      BY <1>1, <3>1, <3>2, LastStays
    <3> QED
      BY <1>2, <1>4, <3>3 DEF b
  <2> QED
    BY <1>2, <1>4, <2>1, OneGoesOn
<1>5. ASSUME NEW thinks \in BOOLEAN, NEW good \in 0..2, NEW bad \in 0..1,
             LET p == request[t].model
                 m == Answer(p, thinks, NewCalls(p, good), NewCalls(p, bad)) IN
             /\ chat' = [chat EXCEPT ![t] = Append(Remaining(@, removals), m)]
             /\ at' = [at EXCEPT ![t] = IF good + bad = 0 THEN "end" ELSE "tools"]
             /\ good * bad = 0
      PROVE  LastsOK' /\ SteadyOK'
  <2> DEFINE p == request[t].model
             m == Answer(p, thinks, NewCalls(p, good), NewCalls(p, bad))
  <2>1. /\ chat' = [chat EXCEPT ![t] = Append(Remaining(@, removals), m)]
        /\ at' = [at EXCEPT ![t] = IF good + bad = 0 THEN "end" ELSE "tools"]
        /\ good * bad = 0
    BY <1>5, Zenon
  <2>2. good = 0 \/ bad = 0
    <3>1. good \in {0, 1, 2} /\ bad \in {0, 1}
      OBVIOUS
    <3>2. 1 * 1 # 0 /\ 2 * 1 # 0
      OBVIOUS
    <3> QED
      BY <2>1, <3>1, <3>2
  <2>3. p \in Models /\ called \in Nat /\ good \in Nat /\ bad \in Nat /\ bad <= 1
    <3>1. p \in Models
      BY <1>1, <1>2 DEF TypesOK, Formed
    <3> HIDE DEF p
    <3>2. called \in Nat
      BY <1>1 DEF TypesOK
    <3> QED
      BY <3>1, <3>2
  <2> HIDE DEF p
  <2>4. m \in Msg /\ m.type = "ai"
    <3> DEFINE u == NewCalls(p, good)  b == NewCalls(p, bad)
    <3>1. u \in Seq(Call) /\ Len(u) = good /\ b \in Seq(Call) /\ Len(b) = bad
      BY <2>3, NewCallsAre
    <3>2. m = Answer(p, thinks, u, b)
      OBVIOUS
    <3> HIDE DEF u, b
    <3>3. (good = 0 <=> u = <<>>) /\ (bad = 0 <=> b = <<>>)
      BY <3>1
    <3>4. m \in Born /\ m.type = "ai"
      BY <1>1, <2>2, <2>3, <3>1, <3>2, <3>3, AnswerBorn
    <3> QED
      BY <3>4 DEF Born
  <2> HIDE DEF m
  <2>5. /\ chat'[t] = Append(Remaining(chat[t], removals), m)
        /\ \A s \in Chats : s # t => chat'[s] = chat[s] /\ at'[s] = at[s]
    BY <1>1, <2>1 DEF TypesOK
  <2>6. ASSUME t \notin patched' PROVE LastOK(request[t], chat'[t], at'[t] = "tools", {})
    <3>1. LastOK(request[t], chat[t], at[t] = "tools", removals)
      BY <1>1, <1>2, <2>6
    <3>2. CASE request[t] = NoRequest \/ request[t].orphans
      BY <3>1, <3>2 DEF LastOK
    <3>3. CASE request[t] # NoRequest /\ ~ request[t].orphans
      <4>1. Ids(chat[t]) \cap removals = {}
        BY <3>1, <3>3 DEF LastOK
      <4>2. Remaining(chat[t], removals) = chat[t]
        BY <1>1, <4>1, RemainingAll
      <4>3. m.type # "tool" /\ m.id \notin {} /\ {} \subseteq removals
        BY <2>4
      <4>4. ASSUME NEW b PROVE LastOK(request[t], Append(chat[t], m), b, {})
        BY <1>1, <2>4, <3>1, <4>3, LastAppend
      <4> QED
        BY <2>5, <4>2, <4>4
    <3> QED
      BY <3>2, <3>3
  <2> QED
    BY <1>2, <2>5, <2>6, OneGoesOn
<1> QED
  BY <1>3, <1>4, <1>5, Zenon

(* At first nothing was sent. *)
LEMMA PrefixInit ==
  ASSUME PatchInit
  PROVE  PrefixInv
<1>1. PatchInv
  BY PatchInvInit
<1>2. \A t \in Chats : request[t] = NoRequest
  BY DEF PatchInit
<1>3. LastsOK
  BY <1>2 DEF LastsOK, LastOK
<1>4. SteadyOK
  BY DEF PatchInit, SteadyOK
<1> QED
  BY <1>1, <1>3, <1>4 DEF PrefixInv

(* A step of which the threads and the requests know nothing. *)
LEMMA QuietPrefix ==
  ASSUME PrefixInv, UNCHANGED <<chat, at, request, removals, patched>>, waiting' \subseteq waiting
  PROVE  LastsOK' /\ SteadyOK'
<1>1. LastsOK'
  BY DEF PrefixInv, LastsOK
<1>2. SteadyOK'
  BY DEF PrefixInv, SteadyOK
<1> QED
  BY <1>1, <1>2

(* What is sent of a thread can be sent, and comes out the same when converted again. *)
LEMMA WrappedIs ==
  ASSUME NEW p \in Models, NEW ms, ms \in Seq(Born), Grouped(ms), Apart(ms)
  PROVE  Wrapped(ms, p) \in Seq(Msg) /\ AllSteady(Wrapped(ms, p), p)
<1>1. ms \in Seq(Ready(p)) /\ \A i \in 1..Len(ms) : FewBad(ms[i])
  BY BornFacts
<1>2. Sent(Wrapped(ms, p), p) /\ AllSteady(Wrapped(ms, p), p)
  BY <1>1, WrappedSent, WrappedSteady
<1> QED
  BY <1>2, SeqsOfMsgs DEF Sent, Deliverable

(* A list is the same as itself, and begins with itself. *)
LEMMA WireSameItself ==
  ASSUME NEW ms \in Seq(Msg)
  PROVE  WireSame(ms, ms) /\ Begins(ms, ms)
BY DEF WireSame, Begins

(* The thread as it is, is what the request is of. *)
LEMMA LastAsked ==
  ASSUME NEW ms \in Seq(Msg), NEW gone, NEW gone2, NEW n, NEW ret, ThreadOK(ms, ret, gone, n),
         gone2 = gone \cup OrphanIds(ms), NEW p \in Models, NEW r,
         r.model = p, r.msgs = Wrapped(ms, p), r.orphans <=> OrphanIds(ms) # {}
  PROVE  LastOK(r, ms, FALSE, gone2)
<1>1. ms \in Seq(Born) /\ Grouped(ms) /\ Apart(ms) /\ Undeclared(ms, gone)
  BY DEF ThreadOK
<1>2. r.msgs \in Seq(Msg)
  BY <1>1, WrappedIs
<1>3. ASSUME ~ r.orphans PROVE Ids(ms) \cap gone2 = {}
  <2>1. DOMAIN ms = 1..Len(ms)
    OBVIOUS
  <2>2. OrphanIds(ms) = {} /\ gone2 = gone
    BY <1>3
  <2>3. ASSUME NEW i \in 1..Len(ms), ms[i].id \in gone PROVE FALSE
    <3>1. ms[i].type = "tool" /\ ms[i].call \notin Declared(ms)
      BY <1>1, <2>3 DEF Undeclared
    <3>2. ms[i].id \in OrphanIds(ms)
      BY <2>1, <3>1 DEF OrphanIds, IsToolAt
    <3> QED
      BY <2>2, <3>2
  <2> QED
    BY <2>2, <2>3 DEF Ids
<1>4. SentOf(r, ms, ms, FALSE)
  <2>1. WireSame(r.msgs, Wrapped(ms, r.model))
    BY <1>2, WireSameItself
  <2>2. Cut(ms, ms)
    BY WireSameItself DEF Cut, IsToolAt
  <2> QED
    BY <1>1, <2>1, <2>2 DEF SentOf
<1>5. \E l : SentOf(r, l, ms, FALSE)
  BY <1>4
<1> QED
  BY <1>2, <1>3, <1>5 DEF LastOK

(* The request is for the whole thread; other threads keep theirs. *)
LEMMA AsksPrefix ==
  ASSUME PrefixInv, NEW t \in Chats, NEW p \in Providers, Asks(t, p)
  PROVE  LastsOK' /\ SteadyOK'
<1> USE PatchingAssumption
<1> DEFINE ids == OrphanIds(chat[t])
           r == [model |-> p, msgs |-> Wrapped(chat[t], p), orphans |-> ids # {}]
<1>1. TypesOK /\ IdsApart
  BY DEF PrefixInv, PatchInv
<1>2. /\ at[t] = "model"
      /\ removals' = removals \cup ids
      /\ request' = [request EXCEPT ![t] = r]
      /\ waiting' = waiting \cup {t}
      /\ UNCHANGED <<chat, at, patched>>
  BY DEF Asks
<1>3. p \in Models
  OBVIOUS
<1>4. ids \subseteq Ids(chat[t])
  <2> DEFINE ms == chat[t]
  <2>1. ms \in Seq(Msg)
    BY <1>1 DEF TypesOK
  <2> HIDE DEF ms
  <2>2. DOMAIN ms = 1..Len(ms)
    BY <2>1
  <2>3. OrphanIds(ms) \subseteq Ids(ms)
    BY <2>2 DEF OrphanIds, Ids
  <2> QED
    BY <2>3 DEF ms
<1>5. r.model = p /\ r.msgs = Wrapped(chat[t], p) /\ (r.orphans <=> OrphanIds(chat[t]) # {})
  OBVIOUS
<1> HIDE DEF r
<1>6. request'[t] = r /\ \A s \in Chats : s # t => request'[s] = request[s]
  BY <1>1, <1>2 DEF TypesOK
<1>7. LastsOK'
  <2> SUFFICES ASSUME NEW s \in Chats, s \notin patched
               PROVE  LastOK(request'[s], chat[s], at[s] = "tools", removals \cup ids)
    BY <1>2 DEF LastsOK
  <2>1. /\ chat[s] \in Seq(Msg) /\ ThreadOK(chat[s], returned[s], removals, called)
        /\ LastOK(request[s], chat[s], at[s] = "tools", removals)
    BY PrefixFacts
  <2>2. CASE s = t
    <3>1. LastOK(r, chat[t], FALSE, removals \cup ids)
      BY <1>3, <1>5, <2>1, <2>2, LastAsked
    <3>2. (at[t] = "tools") = FALSE
      BY <1>2
    <3> QED
      BY <1>6, <2>2, <3>1, <3>2
  <2>3. CASE s # t
    <3>1. Ids(chat[s]) \cap ids = {}
      BY <1>1, <1>4, <2>3 DEF IdsApart, IdsOf
    <3> DEFINE g == removals \cup ids  b == (at[s] = "tools")
    <3>2. Ids(chat[s]) \cap g \subseteq removals
      BY <3>1
    <3> HIDE DEF g, b, ids
    <3>3. LastOK(request[s], chat[s], b, g)
      BY <2>1, <3>2, LastStays DEF b
    <3> QED
      BY <1>6, <2>3, <3>3 DEF g, b
  <2> QED
    BY <2>2, <2>3
<1>8. SteadyOK'
  <2> SUFFICES ASSUME NEW s \in waiting', s \notin patched
               PROVE  AllSteady(request'[s].msgs, request'[s].model)
    BY <1>2 DEF SteadyOK
  <2>1. CASE s = t
    <3>1. ThreadOK(chat[t], returned[t], removals, called)
      BY <2>1, PrefixFacts
    <3>2. AllSteady(Wrapped(chat[t], p), p)
      BY <1>3, <3>1, WrappedIs DEF ThreadOK
    <3> QED
      BY <1>5, <1>6, <2>1, <3>2
  <2>2. CASE s # t
    <3>1. s \in waiting /\ s \in Chats
      BY <1>1, <1>2, <2>2 DEF TypesOK
    <3> QED
      BY <1>6, <2>2, <3>1 DEF PrefixInv, SteadyOK
  <2> QED
    BY <2>1, <2>2
<1> QED
  BY <1>7, <1>8

(* The same on the wire is of the same beginning. *)
LEMMA LastSame ==
  ASSUME NEW r, NEW r2, NEW out, NEW tools, NEW gone, LastOK(r, out, tools, gone), r # NoRequest,
         r2.model = r.model, r2.orphans <=> r.orphans, r2.msgs \in Seq(Msg), WireSame(r2.msgs, r.msgs)
  PROVE  LastOK(r2, out, tools, gone)
<1>1. r.model \in Models /\ (~ r.orphans => Ids(out) \cap gone = {} /\ \E ms : SentOf(r, ms, out, tools))
  BY DEF LastOK
<1>2. ASSUME ~ r2.orphans PROVE Ids(out) \cap gone = {} /\ \E ms : SentOf(r2, ms, out, tools)
  <2>1. Ids(out) \cap gone = {} /\ \E ms : SentOf(r, ms, out, tools)
    BY <1>1, <1>2
  <2>2. PICK ms : SentOf(r, ms, out, tools)
    BY <2>1
  <2>3. WireSame(r2.msgs, Wrapped(ms, r2.model))
    <3>1. WireSame(r.msgs, Wrapped(ms, r.model))
      BY <2>2 DEF SentOf
    <3> QED
      BY <3>1 DEF WireSame
  <2>4. SentOf(r2, ms, out, tools)
    BY <2>2, <2>3 DEF SentOf
  <2> QED
    BY <2>1, <2>4
<1> QED
  BY <1>1, <1>2 DEF LastOK

(* What a request is after it was healed. *)
HealedFrom(r, r2) ==
  /\ r.model \in Models /\ r2.model = r.model /\ (r2.orphans <=> r.orphans)
  /\ r2.msgs \in Seq(Msg) /\ r.msgs \in Seq(Msg) /\ WireSame(r2.msgs, r.msgs) /\ AllSteady(r2.msgs, r2.model)

(* A step that heals one request does nothing else. *)
LEMMA HealsTo ==
  ASSUME PrefixInv, NEW t \in Chats, Heals(t)
  PROVE  /\ t \in waiting /\ UNCHANGED <<chat, at, waiting, removals, patched>>
         /\ t \notin patched => HealedFrom(request[t], request'[t])
         /\ \A s \in Chats : s # t => request'[s] = request[s]
<1>1. TypesOK /\ SentOK
  BY DEF PrefixInv, PatchInv
<1>2. PICK corrupted \in BOOLEAN : request' = [request EXCEPT ![t].msgs = Healed(@, request[t].model, corrupted)]
  BY DEF Heals
<1>3. t \in waiting /\ UNCHANGED <<chat, at, waiting, removals, patched>>
  BY DEF Heals
<1> DEFINE r == request[t]  p == r.model  x == Healed(r.msgs, p, corrupted)
<1>4. r = [model |-> r.model, msgs |-> r.msgs, orphans |-> r.orphans] /\ p \in Models
  BY <1>1, <1>3 DEF TypesOK, Formed
<1>5. request' = [request EXCEPT ![t] = [r EXCEPT !.msgs = x]]
  BY <1>2
<1> HIDE DEF x
<1> DEFINE r2 == [r EXCEPT !.msgs = x]
<1>6. r2.model = p /\ r2.msgs = x /\ r2.orphans = r.orphans
  <2> DEFINE o == r.orphans  m == r.msgs  q == r.model
  <2>1. r = [model |-> q, msgs |-> m, orphans |-> o]
    BY <1>4
  <2> HIDE DEF o, m, q
  <2>2. r2 = [model |-> q, msgs |-> x, orphans |-> o]
    BY <2>1
  <2>3. r2.model = q /\ r2.msgs = x /\ r2.orphans = o
    BY <2>2
  <2> QED
    BY <2>3 DEF o, q
<1> HIDE DEF r2
<1>7. request'[t] = r2 /\ \A s \in Chats : s # t => request'[s] = request[s]
  BY <1>1, <1>3, <1>5 DEF TypesOK, r2
<1>8. ASSUME t \notin patched PROVE HealedFrom(r, r2)
  <2>1. Sent(r.msgs, p) /\ AllSteady(r.msgs, p)
    BY <1>1, <1>3, <1>8 DEF SentOK, PrefixInv, SteadyOK
  <2>2. Sent(x, p) /\ WireSame(x, r.msgs) /\ AllSteady(x, p)
    BY <1>4, <2>1, HealedSent, HealedSame DEF x
  <2>3. r.msgs \in Seq(Msg) /\ x \in Seq(Msg)
    BY <2>1, <2>2, SeqsOfMsgs, <1>4 DEF Sent, Deliverable
  <2> QED
    BY <1>4, <1>6, <2>2, <2>3 DEF HealedFrom
<1> QED
  BY <1>3, <1>7, <1>8

(* A healed request is still for the same beginning of the thread. *)
LEMMA HealsPrefix ==
  ASSUME PrefixInv, NEW t \in Chats, Heals(t)
  PROVE  LastsOK' /\ SteadyOK'
<1>1. /\ t \in waiting /\ UNCHANGED <<chat, at, waiting, removals, patched>>
      /\ t \notin patched => HealedFrom(request[t], request'[t])
      /\ \A s \in Chats : s # t => request'[s] = request[s]
  BY HealsTo
<1>2. waiting \subseteq Chats
  BY DEF PrefixInv, PatchInv, TypesOK
<1>3. LastsOK'
  <2> SUFFICES ASSUME NEW s \in Chats, s \notin patched
               PROVE  LastOK(request'[s], chat[s], at[s] = "tools", removals)
    BY <1>1 DEF LastsOK
  <2>1. LastOK(request[s], chat[s], at[s] = "tools", removals)
    BY PrefixFacts
  <2>2. CASE s = t
    <3> DEFINE b == (at[t] = "tools")  r == request[t]  r2 == request'[t]
    <3>1. HealedFrom(r, r2) /\ LastOK(r, chat[t], b, removals)
      BY <1>1, <2>1, <2>2
    <3> HIDE DEF b, r, r2
    <3>2. r # NoRequest
      BY <3>1 DEF HealedFrom, NoRequest, Models
    <3>3. LastOK(r2, chat[t], b, removals)
      BY <3>1, <3>2, LastSame DEF HealedFrom
    <3> QED
      BY <2>2, <3>3 DEF b, r2
  <2>3. CASE s # t
    BY <1>1, <2>1, <2>3
  <2> QED
    BY <2>2, <2>3
<1>4. SteadyOK'
  <2> SUFFICES ASSUME NEW s \in waiting, s \notin patched
               PROVE  AllSteady(request'[s].msgs, request'[s].model)
    BY <1>1 DEF SteadyOK
  <2>1. CASE s = t
    BY <1>1, <2>1 DEF HealedFrom
  <2>2. CASE s # t
    BY <1>1, <1>2, <2>2 DEF PrefixInv, SteadyOK
  <2> QED
    BY <2>1, <2>2
<1> QED
  BY <1>3, <1>4

(* Every step keeps the invariant. *)
LEMMA PrefixNext ==
  ASSUME PrefixInv, [PatchNext]_patchVars
  PROVE  PrefixInv'
<1>0. PatchInv'
  BY PatchInvNext DEF PrefixInv
<1>1. CASE UNCHANGED patchVars
  BY <1>0, <1>1, QuietPrefix DEF patchVars, PrefixInv
<1>2. ASSUME NEW t \in Chats, NEW again \in BOOLEAN, Invoke(t, again) PROVE PrefixInv'
  BY <1>0, <1>2, InvokePrefix DEF PrefixInv
<1>3. ASSUME NEW t \in Chats, Resume(t) PROVE PrefixInv'
  <2>1. UNCHANGED <<chat, at, request, removals, patched>> /\ waiting' \subseteq waiting
    BY <1>3 DEF Resume
  <2> QED
    BY <1>0, <2>1, QuietPrefix DEF PrefixInv
<1>4. ASSUME NEW t \in Chats, Stops(t) PROVE PrefixInv'
  <2>1. UNCHANGED <<chat, at, request, removals, patched>> /\ waiting' \subseteq waiting
    BY <1>4 DEF Stops
  <2> QED
    BY <1>0, <2>1, QuietPrefix DEF PrefixInv
<1>5. ASSUME NEW t \in Chats, NEW p \in Providers, Asks(t, p) PROVE PrefixInv'
  BY <1>0, <1>5, AsksPrefix DEF PrefixInv
<1>6. ASSUME NEW t \in Chats, Heals(t) PROVE PrefixInv'
  BY <1>0, <1>6, HealsPrefix DEF PrefixInv
<1>7. ASSUME NEW t \in Chats, Answers(t) PROVE PrefixInv'
  BY <1>0, <1>7, AnswersPrefix DEF PrefixInv
<1>8. ASSUME NEW t \in Chats, Uses(t) PROVE PrefixInv'
  BY <1>0, <1>8, UsesPrefix DEF PrefixInv
<1> QED
  BY <1>1, <1>2, <1>3, <1>4, <1>5, <1>6, <1>7, <1>8 DEF PatchNext

(* What is sent begins with what was. *)
Extends(r, r2) == r.model = r2.model /\ ~ r.orphans => IsPrefix(Wire(r.msgs), Wire(r2.msgs))

(* What is not sent anew does. *)
LEMMA ExtendsItself ==
  ASSUME PrefixInv, NEW t \in Chats, t \notin patched
  PROVE  Extends(request[t], request[t])
<1> DEFINE r == request[t]
<1>1. r = NoRequest \/ r.msgs \in Seq(Msg)
  BY PrefixFacts DEF LastOK
<1>2. NoRequest.msgs = <<>> /\ <<>> \in Seq(Msg)
  BY DEF NoRequest
<1>3. r.msgs \in Seq(Msg)
  BY <1>1, <1>2
<1> HIDE DEF r
<1>4. IsPrefix(Wire(r.msgs), Wire(r.msgs))
  BY <1>3, WireSameItself, WirePrefix
<1> QED
  BY <1>4 DEF Extends, r

(* The next request begins with the last. *)
LEMMA AskedExtends ==
  ASSUME PrefixInv, NEW t \in Chats, t \notin patched, NEW p \in Providers, Asks(t, p)
  PROVE  Extends(request[t], request'[t])
<1> USE PatchingAssumption
<1> DEFINE ms == chat[t]  b == (at[t] = "tools")  r == request[t]
<1>1. ms \in Seq(Msg) /\ ThreadOK(ms, returned[t], removals, called) /\ LastOK(r, ms, b, removals) /\ TypesOK
  BY PrefixFacts
<1>2. request'[t].model = p /\ request'[t].msgs = Wrapped(ms, p)
  BY <1>1 DEF Asks, TypesOK
<1> HIDE DEF ms, b, r
<1>3. ms \in Seq(Born) /\ Grouped(ms) /\ Apart(ms) /\ p \in Models
  BY <1>1 DEF ThreadOK
<1>4. r.model = p /\ ~ r.orphans => IsPrefix(Wire(r.msgs), Wire(Wrapped(ms, p)))
  BY <1>1, <1>3, LastPrefix
<1> QED
  BY <1>2, <1>4 DEF Extends, r

(* The healed request is the same on the wire. *)
LEMMA HealedExtends ==
  ASSUME PrefixInv, NEW t \in Chats, t \notin patched, Heals(t)
  PROVE  Extends(request[t], request'[t])
<1> DEFINE r == request[t]  r2 == request'[t]
<1>1. HealedFrom(r, r2)
  BY HealsTo
<1> HIDE DEF r, r2
<1>2. WireSame(r.msgs, r2.msgs) /\ r.msgs \in Seq(Msg) /\ r2.msgs \in Seq(Msg)
  BY <1>1 DEF HealedFrom, WireSame
<1>3. IsPrefix(Wire(r.msgs), Wire(r2.msgs))
  BY <1>2, WireSameItself, WirePrefix
<1> QED
  BY <1>3 DEF Extends, r, r2

(* No step sends what does not begin with what was sent. *)
LEMMA PrefixStepHolds ==
  ASSUME PrefixInv, [PatchNext]_patchVars
  PROVE  PrefixStep
<1> SUFFICES ASSUME NEW s \in Chats, s \notin patched' PROVE Extends(request[s], request'[s])
  BY DEF PrefixStep, Extends
<1>1. ASSUME request'[s] = request[s], patched \subseteq patched' PROVE Extends(request[s], request'[s])
  BY <1>1, ExtendsItself
<1>2. CASE UNCHANGED patchVars
  BY <1>1, <1>2 DEF patchVars
<1>3. ASSUME NEW t \in Chats, NEW again \in BOOLEAN, Invoke(t, again) PROVE Extends(request[s], request'[s])
  <2>1. UNCHANGED request /\ patched \subseteq patched'
    BY <1>3 DEF Invoke
  <2> QED
    BY <1>1, <2>1
<1>4. ASSUME NEW t \in Chats, Resume(t) \/ Stops(t) PROVE Extends(request[s], request'[s])
  BY <1>1, <1>4 DEF Resume, Stops
<1>5. ASSUME NEW t \in Chats, NEW p \in Providers, Asks(t, p) PROVE Extends(request[s], request'[s])
  <2>1. UNCHANGED patched /\ (s # t => request'[s] = request[s])
    BY <1>5 DEF Asks, PrefixInv, PatchInv, TypesOK
  <2> QED
    BY <1>1, <1>5, <2>1, AskedExtends
<1>6. ASSUME NEW t \in Chats, Heals(t) PROVE Extends(request[s], request'[s])
  <2>1. UNCHANGED patched /\ (s # t => request'[s] = request[s])
    BY <1>6, HealsTo
  <2> QED
    BY <1>1, <1>6, <2>1, HealedExtends
<1>7. ASSUME NEW t \in Chats, Answers(t) PROVE Extends(request[s], request'[s])
  <2>1. UNCHANGED request /\ UNCHANGED patched
    BY <1>7 DEF Answers
  <2> QED
    BY <1>1, <2>1
<1>8. ASSUME NEW t \in Chats, Uses(t) PROVE Extends(request[s], request'[s])
  <2>1. UNCHANGED request /\ UNCHANGED patched
    BY <1>8 DEF Uses
  <2> QED
    BY <1>1, <2>1
<1> QED
  BY <1>2, <1>3, <1>4, <1>5, <1>6, <1>7, <1>8 DEF PatchNext

(* A request, the first try or a healed one, begins on the wire with the one   *)
(* before it if that went to the same model, so that the prompt cache can be   *)
(* hit, unless that one held orphans or the input was changed.                 *)
THEOREM PrefixAlwaysStable == PatchSpec => PrefixStable
<1>1. PatchInit => PrefixInv
  BY PrefixInit
<1>2. PrefixInv /\ [PatchNext]_patchVars => PrefixInv'
  BY PrefixNext
<1>3. PrefixInv /\ [PatchNext]_patchVars => [PrefixStep]_patchVars
  BY PrefixStepHolds
<1> QED
  BY <1>1, <1>2, <1>3, PTL DEF PatchSpec, PrefixStable
=============================================================================
