---------------------------- MODULE CutoffPolicy ----------------------------
(***************************************************************************)
(* The pure half of arion_agent/summarization: when a message list is too  *)
(* long, where it may be cut, and which messages go with the cut.          *)
(*                                                                         *)
(* A conversation is a log, the sequence of every message ever added to    *)
(* the thread; a message is known by its position in it.  The checkpointed *)
(* message list is a set of positions: messages are only ever appended or  *)
(* removed, so their order in the list is the order of the positions, and  *)
(* messages[:c] is the set of the c smallest ones (Front).                 *)
(***************************************************************************)
EXTENDS Integers, Sequences, FiniteSets

CONSTANTS
  Sizes,             \* the token estimates a message can have
  MaxSize,           \* the largest of them
  NoLimit,           \* a field of SummarizationPolicy left at None
  TriggerMessages, TriggerTokens,     \* hard triggers
  PrefetchMessages, PrefetchTokens,   \* headroom triggers
  KeepMessages, KeepTokens            \* what a compression keeps

ASSUME SizesAssumption ==
  /\ MaxSize \in Nat \ {0}
  /\ Sizes \subseteq 0..MaxSize
  /\ Sizes # {}

ASSUME PolicyAssumption ==
  \A field \in {TriggerMessages, TriggerTokens, PrefetchMessages, PrefetchTokens,
                KeepMessages, KeepTokens} : field = NoLimit \/ field \in Nat

(***************************************************************************)
(* "call" is an AIMessage with tool_calls, "invalid" one with only         *)
(* invalid_tool_calls; "tool" answers a call, "stray" is the ToolMessage   *)
(* that reports a parse error: no AIMessage declares its tool_call_id.     *)
(***************************************************************************)
Kind == {"human", "ai", "call", "invalid", "tool", "stray"}
Message == [kind : Kind, size : 0..MaxSize]

IsTool(log, i) == log[i].kind \in {"tool", "stray"}

(* t carries the result of a tool call declared by p: tool results follow  *)
(* their AIMessage in one contiguous block.                                *)
Answers(log, t, p) ==
  /\ log[t].kind = "tool"
  /\ log[p].kind = "call"
  /\ p < t
  /\ \A k \in (p + 1)..(t - 1) : log[k].kind = "tool"

Rank(S, i) == Cardinality({j \in S : j < i})
Front(S, c) == {i \in S : Rank(S, i) < c}

(* _estimate_messages_tokens: the sum of the sizes of S. *)
Tokens(log, S) == Cardinality({u \in S \X (1..MaxSize) : u[2] <= log[u[1]].size})

-----------------------------------------------------------------------------
(* Policy evaluation: triggers are OR-ed, an unset field never fires. *)

Over(limit, amount) == limit # NoLimit /\ amount > limit

MustCompress(log, S) ==
  \/ Over(TriggerMessages, Cardinality(S))
  \/ Over(TriggerTokens, Tokens(log, S))

(* An unset headroom threshold is int(0.8 * trigger). *)
Headroom(own, trigger) ==
  IF own # NoLimit \/ trigger = NoLimit THEN own ELSE (trigger * 4) \div 5

ShouldPrefetch(log, S) ==
  /\ ~ MustCompress(log, S)
  /\ \/ Over(Headroom(PrefetchMessages, TriggerMessages), Cardinality(S))
     \/ Over(Headroom(PrefetchTokens, TriggerTokens), Tokens(log, S))

(* The conditional edge after START and after the tool node. *)
RouteFloor == 5
Route(log, S) ==
  CASE Cardinality(S) < RouteFloor -> "model"
    [] Cardinality(S) >= RouteFloor /\ MustCompress(log, S) -> "compress"
    [] Cardinality(S) >= RouteFloor /\ ShouldPrefetch(log, S) -> "prefetch"
    [] OTHER -> "model"

-----------------------------------------------------------------------------
(* Where to cut. *)

AtLeast0(n) == IF n < 0 THEN 0 ELSE n

(* Mutant: one message too few is kept. *)
RawCutoffLong(log, S) == AtLeast0(Cardinality(S) - KeepMessages + 1)

(* Mutant: a suffix that fills the budget exactly is taken to overflow it. *)
RawCutoffTight(log, S) ==
  Cardinality({i \in S : Tokens(log, {j \in S : j >= i}) >= KeepTokens})

(* Messages are kept from the end while they fit; the cut falls after the  *)
(* newest message with which the kept suffix would overflow the budget.    *)
RawCutoff(log, S) ==
  CASE KeepMessages # NoLimit -> AtLeast0(Cardinality(S) - KeepMessages)
    [] KeepMessages = NoLimit /\ KeepTokens # NoLimit ->
         Cardinality({i \in S : Tokens(log, {j \in S : j >= i}) > KeepTokens})
    [] OTHER -> AtLeast0(Cardinality(S) - 20)

(* Mutant: the cut is not walked back to a message boundary. *)
BeforeBoundaryRaw(log, S, raw) == Front(S, raw)

(* The messages before the newest non-tool message at or before raw. *)
BeforeBoundary(log, S, raw) ==
  {j \in S : \E i \in S : j < i /\ ~ IsTool(log, i) /\ Rank(S, i) <= raw}

SafeCutoff(log, S) ==
  LET raw == RawCutoff(log, S)
      walked == Cardinality(BeforeBoundary(log, S, raw))
  IN  IF raw <= 0 THEN 0
      ELSE IF raw >= Cardinality(S) THEN Cardinality(S)
      ELSE IF walked < 1 THEN 1 ELSE walked

(* The same as the loops of the source, over the list of the messages. *)
ListOf(S) == [k \in 1..Cardinality(S) |-> CHOOSE i \in S : Rank(S, i) = k - 1]

(* kept[k]: tokens_kept of messages[k:]; walk[k]: the loop is at k - 1. *)
RawWalk(log, list) ==
  LET kept[k \in 0..Len(list)] ==
        IF k = Len(list) THEN 0 ELSE kept[k + 1] + log[list[k + 1]].size
      walk[k \in 0..Len(list)] ==
        IF k = 0 THEN 0 ELSE IF kept[k - 1] > KeepTokens THEN k ELSE walk[k - 1]
  IN  walk[Len(list)]

WalkBack(log, list, start) ==
  LET back[pos \in 0..start] ==
        IF pos > 0 /\ IsTool(log, list[pos + 1]) THEN back[pos - 1] ELSE pos
  IN  back[start]

SafeWalk(log, list) ==
  LET raw == CASE KeepMessages # NoLimit -> AtLeast0(Len(list) - KeepMessages)
               [] KeepMessages = NoLimit /\ KeepTokens # NoLimit -> RawWalk(log, list)
               [] OTHER -> AtLeast0(Len(list) - 20)
      cutoff == WalkBack(log, list, raw)
  IN  IF raw <= 0 THEN 0
      ELSE IF raw >= Len(list) THEN Len(list)
      ELSE IF cutoff < 1 THEN 1 ELSE cutoff

(* Kept tool results whose AIMessage is evicted. *)
KeptOrphans(log, S, evicted) ==
  {t \in S \ evicted : \E p \in evicted : Answers(log, t, p)}

(* What a plan evicts: the front, and the orphans it would leave. *)
Evicted(log, S) ==
  LET front == Front(S, SafeCutoff(log, S))
  IN  front \cup KeptOrphans(log, S, front)

(* ToolMessages of S that no AIMessage of S declares. *)
Orphaned(log, S) ==
  {t \in S : IsTool(log, t) /\ ~ \E p \in S : Answers(log, t, p)}
=============================================================================
