----------------------------- MODULE Compression -----------------------------
(***************************************************************************)
(* Conversation compression on one thread of an Arion agent: the prefetch  *)
(* and compress nodes of arion_agent/summarization/compress.py, the        *)
(* background summaries of PrefetchRegistry, and the part of graph.py that *)
(* drives them (routing, the model, tool and plan-guard nodes, and         *)
(* PatchToolCallsMiddleware's removal of orphaned tool messages).          *)
(*                                                                         *)
(* A graph node commits its updates to the checkpoint in one step and the  *)
(* conditional edge after it is evaluated with them; a node that raises    *)
(* commits nothing and the checkpoint still names it as the next one.  A   *)
(* node that awaits is split where it does.                                *)
(***************************************************************************)
EXTENDS CutoffPolicy

CONSTANTS
  MaxMessages,    \* bound: length of the log
  MaxCalls,       \* bound: tool calls of one AIMessage
  MayMisformat    \* may the model return only invalid_tool_calls

ASSUME CompressionAssumption ==
  /\ MaxMessages \in Nat
  /\ MaxCalls \in Nat \ {0}
  /\ MayMisformat \in BOOLEAN

VARIABLES
  log,       \* every message the thread ever had
  live,      \* state["messages"], as positions of log
  covers,    \* the messages state["summary_raw"] accounts for
  phase,     \* the node the thread is at, or the await it is suspended in
  running,   \* an ainvoke of the agent is under way
  registry,  \* PrefetchRegistry: the thread's background summary, or none
  plan,      \* the locals of compress_node across its summary call
  pending,   \* PatchToolCallsMiddleware._pending_removals
  removed,   \* the messages those removals have taken out of the state
  filed      \* the messages handed to write_transcript

vars == <<log, live, covers, phase, running, registry, plan, pending, removed, filed>>

Phases == {"end", "prefetch", "compress", "await", "summarise",
           "model", "thinking", "guard", "tools"}

(* A background task is scheduled until its coroutine first runs, calling  *)
(* while the summary model answers, then done or failed.                   *)
Entry == [cutoff : Nat, evict : SUBSET Nat, covers : SUBSET Nat,
          status : {"scheduled", "calling", "done", "failed"}]

Plan == [path : {"none", "full", "delta"}, evict : SUBSET Nat, covers : SUBSET Nat]
NoPlan == [path |-> "none", evict |-> {}, covers |-> {}]

InFlight(e) == e.status \in {"scheduled", "calling"}
At(p) == running /\ phase = p

-----------------------------------------------------------------------------

Init ==
  /\ log = <<>>
  /\ live = {} /\ covers = {} /\ removed = {} /\ pending = {} /\ filed = {}
  /\ phase = "end" /\ running = FALSE
  /\ registry = {} /\ plan = NoPlan

(* add_messages: the state update of a node that returns new messages and  *)
(* the RemoveMessages of gone.                                             *)
Commit(new, gone) ==
  /\ Len(log) + Len(new) <= MaxMessages
  /\ log' = log \o new
  /\ live' = (live \ gone) \cup (Len(log) + 1)..(Len(log) + Len(new))

(* n messages of one kind. *)
Said(k, n) ==
  {[j \in 1..n |-> [kind |-> k, size |-> sizes[j]]] : sizes \in [1..n -> Sizes]}

(* ainvoke with a new human message: the graph starts over from START. *)
Send ==
  /\ ~ running
  /\ \E new \in Said("human", 1) : Commit(new, {})
  /\ running' = TRUE
  /\ phase' = Route(log', live')
  /\ UNCHANGED <<covers, registry, plan, pending, removed, filed>>

(* ainvoke(None): go on at the node the checkpoint names. *)
Resume ==
  /\ ~ running
  /\ phase # "end"
  /\ running' = TRUE
  /\ UNCHANGED <<log, live, covers, phase, registry, plan, pending, removed, filed>>

(* The node whose handler is suspended in p. *)
NodeOf(p) ==
  CASE p \in {"await", "summarise"} -> "compress"
    [] p = "thinking" -> "model"
    [] OTHER -> p

(* The run ends without the node's updates: an abort, a cancellation, an   *)
(* exhausted self-heal loop, the recursion limit.  The entry that          *)
(* await_result popped is lost with it.                                    *)
Interrupt ==
  /\ running
  /\ running' = FALSE
  /\ phase' = NodeOf(phase)
  /\ plan' = NoPlan
  /\ registry' = IF phase = "await" THEN {} ELSE registry
  /\ UNCHANGED <<log, live, covers, pending, removed, filed>>

(* The process dies and restarts from the checkpoint. *)
Crash ==
  /\ running' = FALSE
  /\ phase' = NodeOf(phase)
  /\ plan' = NoPlan
  /\ registry' = {}
  /\ pending' = {}
  /\ UNCHANGED <<log, live, covers, removed, filed>>

-----------------------------------------------------------------------------
(* prefetch_node *)

PrefetchAbort ==
  /\ At("prefetch")
  /\ phase' = "model"
  /\ UNCHANGED <<log, live, covers, running, registry, plan, pending, removed, filed>>

(* take_if_ready returns a finished summary: it is applied to what is left *)
(* of the messages it was made from.                                       *)
PrefetchApply ==
  /\ At("prefetch")
  /\ \E e \in registry :
       /\ e.status = "done"
       /\ live' = live \ e.evict
       /\ covers' = e.covers
  /\ registry' = {}
  /\ phase' = "model"
  /\ UNCHANGED <<log, running, plan, pending, removed, filed>>

(* take_if_ready re-raises a failed task: the run ends at the node. *)
PrefetchRaise ==
  /\ At("prefetch")
  /\ \E e \in registry : e.status = "failed"
  /\ registry' = {}
  /\ running' = FALSE
  /\ UNCHANGED <<log, live, covers, phase, plan, pending, removed, filed>>

(* Mutant: the new summary is made without the previous one. *)
SummaryOfFresh(previous, told) == told

(* Mutant: the messages to evict never reach the summary prompt. *)
SummaryOfOld(previous, told) == previous

(* _build_summary_prompt: previous_summary_raw and the messages to evict. *)
SummaryOf(previous, told) == previous \cup told

(* An in-flight summary of a shorter or equal prefix is left to finish; a  *)
(* longer one is cancelled and replaced.                                   *)
WantsPrefetch ==
  /\ ShouldPrefetch(log, live)
  /\ SafeCutoff(log, live) > 0
  /\ \A e \in registry : e.cutoff > SafeCutoff(log, live)

PrefetchStart ==
  /\ At("prefetch")
  /\ \A e \in registry : InFlight(e)
  /\ WantsPrefetch
  /\ registry' = {[cutoff |-> SafeCutoff(log, live),
                   evict  |-> Evicted(log, live),
                   covers |-> SummaryOf(covers, Evicted(log, live)),
                   status |-> "scheduled"]}
  /\ phase' = "model"
  /\ UNCHANGED <<log, live, covers, running, plan, pending, removed, filed>>

PrefetchSkip ==
  /\ At("prefetch")
  /\ \A e \in registry : InFlight(e)
  /\ ~ WantsPrefetch
  /\ phase' = "model"
  /\ UNCHANGED <<log, live, covers, running, registry, plan, pending, removed, filed>>

-----------------------------------------------------------------------------
(* _run_prefetch, a task of its own: it goes on while the thread runs other *)
(* nodes, while it is suspended and while no run is under way.              *)

Background(e, status) ==
  /\ registry' = {[e EXCEPT !.status = status]}
  /\ UNCHANGED <<log, live, covers, phase, running, plan, pending, removed>>

(* Mutant: the transcript is left to the node that applies the summary. *)
TranscriptNone(ids) == filed

(* write_transcript.  An OSError of the append is logged and the summary   *)
(* is then worded without the path; nothing else depends on it.            *)
Transcript(ids) == filed \cup ids

BackgroundBegin ==
  \E e \in registry :
    /\ e.status = "scheduled"
    /\ filed' = Transcript(e.evict)
    /\ Background(e, "calling")

BackgroundDone ==
  \E e \in registry :
    /\ e.status = "calling"
    /\ UNCHANGED filed
    /\ Background(e, "done")

(* The history directory cannot be made, or the summary model raises. *)
BackgroundFail ==
  \E e \in registry :
    /\ InFlight(e)
    /\ UNCHANGED filed
    /\ Background(e, "failed")

-----------------------------------------------------------------------------
(* compress_node *)

Planned == MustCompress(log, live) /\ SafeCutoff(log, live) > 0

(* No decision or nothing before the cutoff. *)
CompressSkip ==
  /\ At("compress")
  /\ ~ Planned
  /\ phase' = "model"
  /\ UNCHANGED <<log, live, covers, running, registry, plan, pending, removed, filed>>

(* abort_check is read after planning and before await_result. *)
CompressAbort ==
  /\ At("compress")
  /\ Planned
  /\ phase' = "model"
  /\ UNCHANGED <<log, live, covers, running, registry, plan, pending, removed, filed>>

(* await_result finds a summary of no more than the prefix to evict. *)
CompressAwait ==
  /\ At("compress")
  /\ Planned
  /\ \E e \in registry : e.cutoff <= SafeCutoff(log, live)
  /\ phase' = "await"
  /\ UNCHANGED <<log, live, covers, running, registry, plan, pending, removed, filed>>

(* await_result finds nothing, or pops and cancels a summary that is too   *)
(* long: the whole prefix is summarised here.                              *)
CompressFull ==
  /\ At("compress")
  /\ Planned
  /\ \A e \in registry : e.cutoff > SafeCutoff(log, live)
  /\ registry' = {}
  /\ filed' = Transcript(Evicted(log, live))
  /\ plan' = [path   |-> "full",
              evict  |-> Evicted(log, live),
              covers |-> SummaryOf(covers, Evicted(log, live))]
  /\ phase' = "summarise"
  /\ UNCHANGED <<log, live, covers, running, pending, removed>>

(* ensure_directory raises in write_transcript: outside every try. *)
CompressUnfiled ==
  /\ \/ At("compress") /\ Planned /\ \A e \in registry : e.cutoff > SafeCutoff(log, live)
     \/ At("await") /\ \E e \in registry : e.status = "done" /\ e.cutoff < SafeCutoff(log, live)
  /\ registry' = {}
  /\ phase' = "compress"
  /\ running' = FALSE
  /\ UNCHANGED <<log, live, covers, plan, pending, removed, filed>>

(* Mutant: the failure of the awaited task wakes nobody. *)
AwaitRaiseNever == FALSE /\ UNCHANGED vars

(* The awaited summary failed: the exception leaves the node. *)
AwaitRaise ==
  /\ At("await")
  /\ \E e \in registry : e.status = "failed"
  /\ registry' = {}
  /\ phase' = "compress"
  /\ running' = FALSE
  /\ UNCHANGED <<log, live, covers, plan, pending, removed, filed>>

Matches(e) == e.cutoff = SafeCutoff(log, live)

(* Fast path: the awaited summary is exactly the one wanted. *)
CompressFast ==
  /\ At("await")
  /\ \E e \in registry :
       /\ e.status = "done"
       /\ Matches(e)
       /\ live' = live \ e.evict
       /\ covers' = e.covers
  /\ registry' = {}
  /\ phase' = "model"
  /\ UNCHANGED <<log, running, plan, pending, removed, filed>>

(* Mutant: the delta begins one message too late. *)
SliceLate(from, to) == Front(live, to) \ Front(live, from + 1)

(* messages[from:to] *)
Slice(from, to) == Front(live, to) \ Front(live, from)

(* Delta path: the awaited summary is extended by the messages between its *)
(* cutoff and the one wanted now; messages[:cutoff] is filed and evicted.  *)
CompressDelta ==
  /\ At("await")
  /\ \E e \in registry :
       /\ e.status = "done"
       /\ ~ Matches(e)
       /\ plan' = [path   |-> "delta",
                   evict  |-> Front(live, SafeCutoff(log, live)),
                   covers |-> SummaryOf(e.covers, Slice(e.cutoff, SafeCutoff(log, live)))]
  /\ filed' = Transcript(Front(live, SafeCutoff(log, live)))
  /\ registry' = {}
  /\ phase' = "summarise"
  /\ UNCHANGED <<log, live, covers, running, pending, removed>>

(* The summary model answers. *)
Summarised ==
  /\ At("summarise")
  /\ live' = live \ plan.evict
  /\ covers' = plan.covers
  /\ plan' = NoPlan
  /\ phase' = "model"
  /\ UNCHANGED <<log, running, registry, pending, removed, filed>>

(* It raises: a full compression goes on with the history as it was, a     *)
(* delta has no handler and the run ends.                                  *)
SummaryFails ==
  /\ At("summarise")
  /\ plan' = NoPlan
  /\ \/ plan.path = "full" /\ phase' = "model" /\ UNCHANGED running
     \/ plan.path = "delta" /\ phase' = "compress" /\ running' = FALSE
  /\ UNCHANGED <<log, live, covers, registry, pending, removed, filed>>

-----------------------------------------------------------------------------
(* The nodes that add messages. *)

(* model_node up to the request: wrap_model_call queues the removal of the *)
(* tool messages that no AIMessage declares.                               *)
ModelCall ==
  /\ At("model")
  /\ pending' = pending \cup Orphaned(log, live)
  /\ phase' = "thinking"
  /\ UNCHANGED <<log, live, covers, running, registry, plan, removed, filed>>

(* A usable response: drain_state_updates, then the message. *)
ModelReply(k) ==
  /\ At("thinking")
  /\ pending \subseteq live
  /\ \E new \in Said(k, 1) : Commit(new, pending)
  /\ removed' = removed \cup pending
  /\ pending' = {}
  /\ UNCHANGED <<covers, registry, plan, filed>>

(* should_continue *)
ModelStops == ModelReply("ai") /\ phase' = "end" /\ running' = FALSE
ModelNudged == ModelReply("ai") /\ phase' = "guard" /\ UNCHANGED running
ModelCallsTools == ModelReply("call") /\ phase' = "tools" /\ UNCHANGED running
ModelMisformats == MayMisformat /\ ModelReply("invalid") /\ phase' = "tools" /\ UNCHANGED running

(* A drained removal names a message that has left the state meanwhile:    *)
(* add_messages raises, and the response is lost with the run.             *)
ModelConflict ==
  /\ At("thinking")
  /\ ~ pending \subseteq live
  /\ pending' = {}
  /\ phase' = "model"
  /\ running' = FALSE
  /\ UNCHANGED <<log, live, covers, registry, plan, removed, filed>>

(* plan_guard_node: a synthetic human message, then the model, unrouted. *)
Guard ==
  /\ At("guard")
  /\ \E new \in Said("human", 1) : Commit(new, {})
  /\ phase' = "model"
  /\ UNCHANGED <<covers, running, registry, plan, pending, removed, filed>>

(* tool_node: the results of all the calls are committed together. *)
Tools ==
  /\ At("tools")
  /\ \E n \in 1..MaxCalls :
       \E new \in Said(IF log[Len(log)].kind = "call" THEN "tool" ELSE "stray", n) :
         Commit(new, {})
  /\ phase' = Route(log', live')
  /\ UNCHANGED <<covers, running, registry, plan, pending, removed, filed>>

-----------------------------------------------------------------------------

Environment == Send \/ Resume \/ Interrupt \/ Crash

Prefetch == PrefetchAbort \/ PrefetchApply \/ PrefetchRaise \/ PrefetchStart \/ PrefetchSkip

BackgroundTask == BackgroundBegin \/ BackgroundDone \/ BackgroundFail

Compress ==
  \/ CompressSkip \/ CompressAbort \/ CompressAwait \/ CompressFull \/ CompressUnfiled
  \/ AwaitRaise \/ CompressFast \/ CompressDelta \/ Summarised \/ SummaryFails

Model ==
  \/ ModelCall \/ ModelStops \/ ModelNudged \/ ModelCallsTools \/ ModelMisformats
  \/ ModelConflict

Next == Environment \/ Prefetch \/ BackgroundTask \/ Compress \/ Model \/ Guard \/ Tools

Spec == Init /\ [][Next]_vars

(* The event loop runs what is ready, and the summary model, whose client  *)
(* has a timeout, answers or raises.                                       *)
Fairness == WF_vars(Compress) /\ WF_vars(BackgroundTask)

FairSpec == Spec /\ Fairness

-----------------------------------------------------------------------------
(* Properties *)

(* Shapes of the state, and what the phase says of the rest of it: a run   *)
(* suspended in await_result holds an entry, the locals of a summary call  *)
(* exist only during it, and a thread that has ended is not running.       *)
TypeOK ==
  /\ log \in Seq(Message)
  /\ \A ids \in {live, covers, removed, pending, filed} : ids \subseteq 1..Len(log)
  /\ phase \in Phases
  /\ running \in BOOLEAN
  /\ registry \subseteq Entry
  /\ \A e, f \in registry : e = f
  /\ \A e \in registry : e.evict \cup e.covers \subseteq 1..Len(log)
  /\ plan \in Plan
  /\ plan.evict \cup plan.covers \subseteq 1..Len(log)
  /\ plan.path = "none" <=> phase # "summarise"
  /\ phase \in {"await", "summarise", "thinking"} => running
  /\ phase = "await" => registry # {}
  /\ phase = "end" => ~ running

(* Every message of the thread is still in the state, or accounted for by  *)
(* the summary, or an orphan that PatchToolCallsMiddleware removed: no     *)
(* mixture of background summaries, fast, delta and full compressions,     *)
(* failures and restarts drops one silently.                               *)
NoMessageLost == live \cup covers \cup removed = 1..Len(log)

(* Compression never leaves a tool result in the state without the         *)
(* AIMessage that called for it (find_safe_cutoff, find_kept_orphans).     *)
ToolPairsWhole ==
  \A t \in live : log[t].kind = "tool" => \E p \in live : Answers(log, t, p)

(* A background summary stays usable for as long as it is registered: it   *)
(* knows all that the thread's summary knows, and the messages before its  *)
(* cutoff are still the ones it was made from, which the delta path, that  *)
(* only looks at indices, relies on.                                       *)
SummaryStaysValid ==
  \A e \in registry :
    /\ covers \subseteq e.covers
    /\ e.cutoff \in 1..Cardinality(live)
    /\ Front(live, e.cutoff) \subseteq e.covers

(* A message leaves the state only after it was handed to write_transcript *)
(* (or as a removed orphan): what the summary points to can be looked up.  *)
FiledBeforeForgotten == (1..Len(log)) \ live \subseteq filed \cup removed

(* No step evicts one of the KeepMessages newest messages. *)
RecentWindow == \A i \in live \ live' : Cardinality({j \in live : j >= i}) > KeepMessages

(* Whatever path a hard compression takes, when it changes the state it    *)
(* leaves the kept messages and at most the tool block they began in.      *)
Bounded ==
  phase \in {"await", "summarise"} /\ live' # live
    => Cardinality(live') <= KeepMessages + MaxCalls

(* A compression takes out enough and not too much, in well-formed states. *)
WindowKept == []TypeOK /\ [][RecentWindow /\ Bounded]_vars

(* What a step takes out of the state it has summarised or removed as an   *)
(* orphan, except on the delta path, which trusts indices.                 *)
CoveredStep ==
  plan.path # "delta" => live \ live' \subseteq covers' \cup removed'
CoveredUnlessDelta == [][CoveredStep]_vars

(* SafeCutoff, a property of sets of positions, is the index that the      *)
(* backward walks of find_safe_cutoff stop at, on every list the thread    *)
(* can have.                                                               *)
CutoffIsTheWalk == SafeCutoff(log, live) = SafeWalk(log, ListOf(live))

(* A run that has reached compress_node gets out of it: whatever becomes   *)
(* of the background summary it awaits, the model is called or the run     *)
(* ends.                                                                   *)
CompressionSettles ==
  At("compress") \/ At("await") \/ At("summarise") ~> phase = "model" \/ ~ running

(* With no orphans removed behind its back, the thread implements Memory.  *)
M == INSTANCE Memory WITH said <- Len(log), raw <- live, gist <- covers
ImplementsMemory == M!MemorySpec

-----------------------------------------------------------------------------
(* Inductive strengthenings of the invariants, for CompressionProofs. *)

(* What a background summary or a compression evicts has been filed by the *)
(* time it can be applied.                                                 *)
FiledInv ==
  /\ FiledBeforeForgotten
  /\ \A e \in registry : e.status \in {"calling", "done"} => e.evict \subseteq filed
  /\ plan.evict \subseteq filed

(* What is about to be evicted is in the summary it was made for. *)
CoveredInv ==
  /\ \A e \in registry : e.evict \subseteq e.covers
  /\ plan.path = "full" => plan.evict \subseteq plan.covers

(* With an AIMessage, ids holds all the results of its calls in S. *)
Closed(l, S, ids) ==
  \A p \in ids, t \in S : Answers(l, t, p) => t \in ids

(* A run at the tool node has the calls last in its state, out of reach of *)
(* the background summary; orphans queued for removal are tool messages;   *)
(* an awaited summary is of no more than the prefix to evict.              *)
PairsInv ==
  /\ ToolPairsWhole
  /\ phase = "tools" => /\ Len(log) \in live
                        /\ log[Len(log)].kind \in {"call", "invalid"}
                        /\ \A e \in registry : Len(log) \notin e.evict
  /\ \A e \in registry : Closed(log, live, e.evict) /\ e.cutoff >= 1
  /\ phase = "summarise" => Closed(log, live, plan.evict)
  /\ \A i \in pending : IsTool(log, i)
  /\ phase = "await" => \A e \in registry : e.cutoff <= SafeCutoff(log, live)

(* Without malformed tool calls there are no orphans to remove, so between *)
(* two compressions the state only grows at its end.                       *)
NothingLostInv ==
  /\ NoMessageLost
  /\ SummaryStaysValid
  /\ \A i \in 1..Len(log) : log[i].kind \notin {"invalid", "stray"}
  /\ pending = {} /\ removed = {}
  /\ phase = "summarise" => /\ registry = {}
                            /\ covers \cup plan.evict \subseteq plan.covers

(* A policy in numbers of messages with room for a tool block between what *)
(* it keeps and what triggers it.                                          *)
WindowPolicy ==
  /\ ~ MayMisformat
  /\ KeepMessages # NoLimit /\ TriggerTokens = NoLimit /\ PrefetchTokens = NoLimit
  /\ \A limit \in {TriggerMessages, Headroom(PrefetchMessages, TriggerMessages)} :
       limit = NoLimit \/ limit >= KeepMessages + MaxCalls

(* i is not one of the KeepMessages newest messages of S. *)
BeyondWindow(S, i) == Cardinality({j \in S : j >= i}) > KeepMessages

(* A tool block is as short as the calls of its message, and what a summary *)
(* evicts is beyond the window, from its first registration to the commit. *)
WindowInv ==
  /\ \A p, t \in 1..Len(log) : Answers(log, t, p) => t <= p + MaxCalls
  /\ \A e \in registry : /\ Front(live, e.cutoff) \subseteq e.evict
                         /\ \A i \in e.evict \cap live : BeyondWindow(live, i)
  /\ phase = "summarise" => /\ \A i \in plan.evict \cap live : BeyondWindow(live, i)
                            /\ Cardinality(live \ plan.evict) <= KeepMessages + MaxCalls
  /\ phase = "await" => MustCompress(log, live)

-----------------------------------------------------------------------------
(* What comments of the code say of it. *)

(* find_safe_cutoff: "Messages before cutoff are summarized, at/after are  *)
(* kept": what a compression is about to evict is in its new summary.      *)
EvictedAreSummarised == plan.evict \subseteq plan.covers
=============================================================================
