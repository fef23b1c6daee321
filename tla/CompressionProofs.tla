-------------------------- MODULE CompressionProofs --------------------------
(***************************************************************************)
(* Compression for every policy, every conversation and every schedule:    *)
(* the invariants that MCCompression checks on small instances, proved     *)
(* from their inductive strengthenings.                                    *)
(***************************************************************************)
EXTENDS Compression, FiniteSetTheorems, FunctionTheorems, TLAPS

-----------------------------------------------------------------------------
(* The cutoff policy: a prefix of the message list is what it is whatever *)
(* follows it, and a safe cutoff does not part a tool call from its results. *)

(* Rank counts positions. *)
LEMMA RankNat ==
  ASSUME NEW S, IsFiniteSet(S), NEW i
  PROVE  Rank(S, i) \in Nat
  BY FS_Subset, FS_CardinalityType DEF Rank

(* A set of messages with all that precede them is a prefix. *)
LEMMA FrontOfPrefix ==
  ASSUME NEW S, IsFiniteSet(S), S \subseteq Int, NEW B, B \subseteq S,
         \A b \in B, s \in S : s < b => s \in B
  PROVE  Front(S, Cardinality(B)) = B
<1>0. IsFiniteSet(B) /\ Cardinality(B) \in Nat
  BY FS_Subset, FS_CardinalityType
<1>1. ASSUME NEW i \in B
      PROVE  i \in Front(S, Cardinality(B))
  <2> DEFINE Before == {j \in S : j < i}
  <2>1. Before \subseteq B \ {i}
    <3> SUFFICES ASSUME NEW j \in S, j < i
                 PROVE  j \in B /\ j # i
      OBVIOUS
    <3>1. i \in Int /\ j \in Int
      BY <1>1
    <3> QED
      BY <1>1, <3>1
  <2>2. Cardinality(B \ {i}) = Cardinality(B) - 1 /\ IsFiniteSet(B \ {i})
    BY <1>0, <1>1, FS_RemoveElement
  <2>3. Cardinality(Before) <= Cardinality(B) - 1 /\ Cardinality(Before) \in Nat
    BY <2>1, <2>2, FS_Subset, FS_CardinalityType
  <2> QED
    BY <1>0, <1>1, <2>3 DEF Front, Rank
<1>2. ASSUME NEW i \in S, i \notin B
      PROVE  i \notin Front(S, Cardinality(B))
  <2> DEFINE Before == {j \in S : j < i}
  <2>1. B \subseteq Before
    BY <1>2
  <2>2. Cardinality(B) <= Cardinality(Before) /\ Cardinality(Before) \in Nat
    BY <2>1, FS_Subset, FS_CardinalityType
  <2> QED
    BY <1>0, <2>2 DEF Front, Rank
<1> QED
  BY <1>1, <1>2 DEF Front

(* What is appended to the list does not change a prefix of it. *)
LEMMA FrontStable ==
  ASSUME NEW S, IsFiniteSet(S), S \subseteq Int,
         NEW N, IsFiniteSet(N), N \subseteq Int,
         \A s \in S, n \in N : s < n,
         NEW c \in Nat, c <= Cardinality(S)
  PROVE  Front(S \cup N, c) = Front(S, c)
<1>0. Cardinality(S) \in Nat /\ IsFiniteSet(S \cup N)
  BY FS_CardinalityType, FS_Union
<1>1. ASSUME NEW i \in S
      PROVE  Rank(S \cup N, i) = Rank(S, i)
  <2>1. \A n \in N : ~ n < i
    <3> TAKE n \in N
    <3>1. n \in Int /\ i \in Int /\ i < n
      BY <1>1
    <3> QED
      BY <3>1
  <2>2. {j \in S \cup N : j < i} = {j \in S : j < i}
    BY <2>1
  <2> QED
    BY <2>2 DEF Rank
<1>2. ASSUME NEW i \in N
      PROVE  i \notin S /\ Rank(S \cup N, i) >= c /\ Rank(S \cup N, i) \in Nat
  <2> DEFINE Before == {j \in S \cup N : j < i}
  <2>1. S \subseteq Before /\ IsFiniteSet(Before)
    BY <1>0, <1>2, FS_Subset
  <2>2. Cardinality(S) <= Cardinality(Before) /\ Cardinality(Before) \in Nat
    BY <2>1, FS_Subset, FS_CardinalityType
  <2>3. i \notin S
    <3>1. i \in Int
      BY <1>2
    <3> QED
      BY <1>2, <3>1
  <2> HIDE DEF Before
  <2>4. c <= Cardinality(Before)
    BY <1>0, <2>2
  <2> QED
    BY <2>2, <2>3, <2>4 DEF Rank, Before
<1>3. ASSUME NEW i \in S \cup N
      PROVE  Rank(S \cup N, i) < c <=> i \in S /\ Rank(S, i) < c
  BY <1>1, <1>2
<1> QED
  BY <1>3 DEF Front

(* The raw cutoff is an index of the list, or its end. *)
LEMMA RawCutoffRange ==
  ASSUME NEW msgs, NEW S, IsFiniteSet(S)
  PROVE  RawCutoff(msgs, S) \in 0..Cardinality(S)
<1>0. Cardinality(S) \in Nat
  BY FS_CardinalityType
<1>1. KeepMessages = NoLimit \/ KeepMessages \in Nat
  BY PolicyAssumption
<1>2. ASSUME NEW n \in Nat
      PROVE  AtLeast0(Cardinality(S) - n) \in 0..Cardinality(S)
  BY <1>0 DEF AtLeast0
<1> DEFINE Cut == {i \in S : Tokens(msgs, {j \in S : j >= i}) > KeepTokens}
<1>3. Cardinality(Cut) \in 0..Cardinality(S)
  <2>1. Cut \subseteq S
    OBVIOUS
  <2> HIDE DEF Cut
  <2> QED
    BY <1>0, <2>1, FS_Subset, FS_CardinalityType
<1> HIDE DEF AtLeast0
<1>4. CASE KeepMessages # NoLimit
  BY <1>1, <1>2, <1>4 DEF RawCutoff
<1>5. CASE KeepMessages = NoLimit /\ KeepTokens # NoLimit
  BY <1>3, <1>5 DEF RawCutoff
<1>6. CASE KeepMessages = NoLimit /\ KeepTokens = NoLimit
  BY <1>2, <1>6 DEF RawCutoff
<1> QED
  BY <1>4, <1>5, <1>6

(* find_safe_cutoff returns an index of the list, or its end. *)
LEMMA SafeCutoffRange ==
  ASSUME NEW msgs, NEW S, IsFiniteSet(S)
  PROVE  SafeCutoff(msgs, S) \in 0..Cardinality(S)
<1> DEFINE raw == RawCutoff(msgs, S)
           walked == Cardinality(BeforeBoundary(msgs, S, raw))
<1>1. Cardinality(S) \in Nat /\ raw \in 0..Cardinality(S)
  BY RawCutoffRange, FS_CardinalityType
<1>2. BeforeBoundary(msgs, S, raw) \subseteq S
  BY DEF BeforeBoundary
<1>3. walked \in 0..Cardinality(S)
  BY <1>1, <1>2, FS_Subset, FS_CardinalityType
<1> HIDE DEF raw, walked
<1>4. SafeCutoff(msgs, S) = IF raw <= 0 THEN 0
                           ELSE IF raw >= Cardinality(S) THEN Cardinality(S)
                           ELSE IF walked < 1 THEN 1 ELSE walked
  BY DEF SafeCutoff, raw, walked
<1> QED
  BY <1>1, <1>3, <1>4

(* What precedes a boundary is a prefix, and has the results of its calls: *)
(* the boundary is no tool message, and stands between them and the rest.  *)
LEMMA BoundaryClosed ==
  ASSUME NEW msgs, NEW S, IsFiniteSet(S), S \subseteq Int, NEW raw
  PROVE  LET Past == BeforeBoundary(msgs, S, raw)
         IN  /\ Past \subseteq S
             /\ \A b \in Past, s \in S : s < b => s \in Past
             /\ Front(S, Cardinality(Past)) = Past
             /\ \A p \in Past, t \in S : Answers(msgs, t, p) => t \in Past
<1> DEFINE Past == BeforeBoundary(msgs, S, raw)
<1>1. Past \subseteq S /\ \A b \in Past, s \in S : s < b => s \in Past
  BY DEF BeforeBoundary
<1>2. Front(S, Cardinality(Past)) = Past
  <2> HIDE DEF Past
  <2> QED
    BY <1>1, FrontOfPrefix, Zenon
<1>3. ASSUME NEW p \in Past, NEW t \in S, Answers(msgs, t, p)
      PROVE  t \in Past
  <2>1. PICK i \in S : p < i /\ ~ IsTool(msgs, i) /\ Rank(S, i) <= raw
    BY DEF BeforeBoundary
  <2>2. t \in Int /\ i \in Int /\ p \in Int /\ p < t
    BY <1>1, <1>3, <2>1 DEF Answers
  <2>3. CASE t = i
    BY <1>3, <2>1, <2>3 DEF Answers, IsTool
  <2>4. CASE i < t
    <3>1. i \in (p + 1)..(t - 1)
      BY <2>1, <2>2, <2>4
    <3> QED
      BY <1>3, <2>1, <3>1 DEF Answers, IsTool
  <2>5. CASE t < i
    BY <2>1, <2>5 DEF BeforeBoundary
  <2> QED
    BY <2>2, <2>3, <2>4, <2>5
<1> QED
  BY <1>1, <1>2, <1>3

(* Past the forced minimum of one message, a safe cutoff leaves no result  *)
(* of an evicted call among the kept messages: the delta path may evict    *)
(* messages[:cutoff] without looking for orphans.                          *)
LEMMA SafeFrontClosed ==
  ASSUME NEW msgs, NEW S, IsFiniteSet(S), S \subseteq Int,
         SafeCutoff(msgs, S) >= 2,
         NEW p \in Front(S, SafeCutoff(msgs, S)), NEW t \in S,
         Answers(msgs, t, p)
  PROVE  t \in Front(S, SafeCutoff(msgs, S))
<1> DEFINE raw == RawCutoff(msgs, S)
           Past == BeforeBoundary(msgs, S, raw)
<1>0. Cardinality(S) \in Nat /\ SafeCutoff(msgs, S) \in Nat
      /\ raw \in Nat /\ Cardinality(Past) \in Nat
  <2>1. Past \subseteq S
    BY DEF BeforeBoundary
  <2> QED
    BY <2>1, SafeCutoffRange, RawCutoffRange, FS_Subset, FS_CardinalityType
<1>1. SafeCutoff(msgs, S) \in {Cardinality(S), Cardinality(Past)}
  <2> HIDE DEF raw, Past
  <2>1. SafeCutoff(msgs, S) = IF raw <= 0 THEN 0
                             ELSE IF raw >= Cardinality(S) THEN Cardinality(S)
                             ELSE IF Cardinality(Past) < 1 THEN 1 ELSE Cardinality(Past)
    BY DEF SafeCutoff, raw, Past
  <2> QED
    BY <1>0, <2>1
<1>2. CASE SafeCutoff(msgs, S) = Cardinality(S)
  BY <1>2, FrontOfPrefix
<1>3. CASE SafeCutoff(msgs, S) = Cardinality(Past)
  <2>1. /\ Front(S, Cardinality(Past)) = Past
        /\ \A q \in Past, u \in S : Answers(msgs, u, q) => u \in Past
    BY BoundaryClosed
  <2> HIDE DEF Past
  <2>2. Front(S, SafeCutoff(msgs, S)) = Past
    BY <1>3, <2>1
  <2> QED
    BY <2>1, <2>2
<1> QED
  BY <1>1, <1>2, <1>3

(* What a plan evicts is in the list, begins with messages[:cutoff], and   *)
(* takes every result of an evicted call along.                            *)
LEMMA EvictedClosed ==
  ASSUME NEW msgs, NEW S
  PROVE  /\ Evicted(msgs, S) \subseteq S
         /\ Front(S, SafeCutoff(msgs, S)) \subseteq Evicted(msgs, S)
         /\ \A p \in Evicted(msgs, S), t \in S :
              Answers(msgs, t, p) => t \in Evicted(msgs, S)
<1> DEFINE front == Front(S, SafeCutoff(msgs, S))
           orphans == KeptOrphans(msgs, S, front)
<1>1. Evicted(msgs, S) = front \cup orphans
  BY DEF Evicted
<1>2. front \subseteq S /\ orphans \subseteq S
  BY DEF Front, KeptOrphans
<1>3. ASSUME NEW p \in orphans, NEW t, Answers(msgs, t, p)
      PROVE  FALSE
  BY <1>3 DEF KeptOrphans, Answers
<1>4. ASSUME NEW p \in front, NEW t \in S, Answers(msgs, t, p)
      PROVE  t \in front \cup orphans
  <2> HIDE DEF front
  <2> QED
    BY <1>4 DEF KeptOrphans
<1> QED
  BY <1>1, <1>2, <1>3, <1>4

(* Where results have their calls, an orphan is a stray. *)
LEMMA OrphansAreStrays ==
  ASSUME NEW msgs, NEW S,
         \A t \in S : msgs[t].kind = "tool" => \E p \in S : Answers(msgs, t, p)
  PROVE  \A t \in Orphaned(msgs, S) : t \in S /\ msgs[t].kind = "stray"
  BY DEF Orphaned, IsTool

-----------------------------------------------------------------------------
(* The nodes. *)

(* What a node adds is a sequence of messages. *)
LEMMA SaidType ==
  ASSUME NEW k \in Kind, NEW n \in Nat, NEW new \in Said(k, n)
  PROVE  /\ new \in Seq(Message)
         /\ Len(new) = n
         /\ \A j \in 1..n : new[j].kind = k
<1>1. PICK sizes \in [1..n -> Sizes] :
        new = [j \in 1..n |-> [kind |-> k, size |-> sizes[j]]]
  BY DEF Said
<1>2. \A j \in 1..n : sizes[j] \in 0..MaxSize
  BY SizesAssumption
<1>3. new \in [1..n -> Message]
  BY <1>1, <1>2 DEF Message
<1> QED
  BY <1>1, <1>3

(* Committing appends to the log and to the state, and removes gone. *)
LEMMA CommitFacts ==
  ASSUME log \in Seq(Message), live \subseteq 1..Len(log),
         NEW new \in Seq(Message), NEW gone, Commit(new, gone)
  PROVE  /\ log' \in Seq(Message)
         /\ Len(log) \in Nat
         /\ Len(log') = Len(log) + Len(new)
         /\ live' = (live \ gone) \cup (Len(log) + 1)..Len(log')
         /\ live' \subseteq 1..Len(log')
         /\ 1..Len(log) \subseteq 1..Len(log')
         /\ \A i \in 1..Len(log) : log'[i] = log[i]
         /\ \A j \in 1..Len(new) : log'[Len(log) + j] = new[j]
<1>1. /\ log' \in Seq(Message)
      /\ Len(log) \in Nat
      /\ Len(new) \in Nat
      /\ Len(log') = Len(log) + Len(new)
  BY DEF Commit
<1>2. live' = (live \ gone) \cup (Len(log) + 1)..Len(log')
  BY <1>1 DEF Commit
<1>3. live' \subseteq 1..Len(log') /\ 1..Len(log) \subseteq 1..Len(log')
  <2>1. \A i \in 1..Len(log) : i \in 1..Len(log')
    BY <1>1
  <2>2. \A i \in (Len(log) + 1)..Len(log') : i \in 1..Len(log')
    BY <1>1
  <2> QED
    BY <1>2, <2>1, <2>2
<1>4. \A i \in 1..Len(log) : log'[i] = log[i]
  BY DEF Commit
<1>5. \A j \in 1..Len(new) : log'[Len(log) + j] = new[j]
  BY DEF Commit
<1> QED
  BY <1>1, <1>2, <1>3, <1>4, <1>5

(* The message list is finite. *)
LEMMA LiveFinite ==
  ASSUME TypeOK
  PROVE  /\ IsFiniteSet(live)
         /\ Len(log) \in Nat
         /\ live \subseteq Int
         /\ SafeCutoff(log, live) \in 0..Cardinality(live)
         /\ Cardinality(live) \in Nat
<1>1. Len(log) \in Nat /\ live \subseteq 1..Len(log)
  BY DEF TypeOK
<1>2. IsFiniteSet(live)
  <2>1. IsFiniteSet(1..Len(log))
    BY <1>1, FS_Interval
  <2> QED
    BY <1>1, <2>1, FS_Subset
<1> QED
  BY <1>1, <1>2, SafeCutoffRange, FS_CardinalityType

(* Every conditional edge leads to a node. *)
LEMMA RouteType ==
  ASSUME NEW l, NEW S
  PROVE  Route(l, S) \in {"prefetch", "compress", "model"}
  BY DEF Route

-----------------------------------------------------------------------------
(* TypeOK *)

LEMMA NoPlanType ==
  NoPlan \in Plan /\ NoPlan.path = "none" /\ NoPlan.evict = {} /\ NoPlan.covers = {}
  BY DEF NoPlan, Plan

LEMMA TypeInit == Init => TypeOK
<1> SUFFICES ASSUME Init PROVE TypeOK
  OBVIOUS
<1>1. log \in Seq(Message)
  BY DEF Init
<1>2. plan \in Plan /\ plan.path = "none" /\ plan.evict \cup plan.covers = {}
  BY DEF Init, NoPlan, Plan
<1>3. registry = {} /\ phase = "end" /\ running = FALSE
      /\ live = {} /\ covers = {} /\ removed = {} /\ pending = {} /\ filed = {}
  BY DEF Init
<1> QED
  BY <1>1, <1>2, <1>3 DEF TypeOK, Phases

(* A node that adds messages and goes to another node. *)
LEMMA TypeCommit ==
  ASSUME TypeOK, NEW new \in Seq(Message), NEW gone, Commit(new, gone),
         phase' \in {"end", "prefetch", "compress", "model", "guard", "tools"},
         running' \in BOOLEAN, phase' = "end" => ~ running',
         phase # "summarise",
         UNCHANGED <<covers, registry, plan, filed>>,
         removed' \subseteq removed \cup live,
         pending' \subseteq pending
  PROVE  TypeOK'
<1>1. /\ log' \in Seq(Message)
      /\ live' \subseteq 1..Len(log')
      /\ live \cup (1..Len(log)) \subseteq 1..Len(log')
  BY CommitFacts DEF TypeOK
<1>2. \A ids \in {covers, removed, pending, filed} : ids \subseteq 1..Len(log')
  BY <1>1 DEF TypeOK
<1>3. \A e \in registry' : e.evict \cup e.covers \subseteq 1..Len(log')
  BY <1>1 DEF TypeOK
<1>4. plan.evict \cup plan.covers \subseteq 1..Len(log')
  BY <1>1 DEF TypeOK
<1> QED
  BY <1>1, <1>2, <1>3, <1>4 DEF TypeOK, Phases

LEMMA TypeStep == TypeOK /\ [Next]_vars => TypeOK'
<1> SUFFICES ASSUME TypeOK, [Next]_vars
             PROVE  TypeOK'
  OBVIOUS
<1>0. Len(log) \in Nat
  BY DEF TypeOK
<1>1. CASE Send
  <2>1. PICK new \in Said("human", 1) : Commit(new, {})
    BY <1>1 DEF Send
  <2>2. new \in Seq(Message)
    BY SaidType DEF Kind
  <2> QED
    BY <1>1, <2>1, <2>2, TypeCommit, RouteType DEF Send, TypeOK
<1>2. CASE Resume
  BY <1>2 DEF Resume, TypeOK
<1>3. CASE Interrupt
  BY <1>3, NoPlanType DEF Interrupt, NodeOf, TypeOK, Phases
<1>4. CASE Crash
  BY <1>4, NoPlanType DEF Crash, NodeOf, TypeOK, Phases
<1>5. CASE Prefetch
  <2>1. CASE PrefetchAbort
    BY <2>1 DEF PrefetchAbort, At, TypeOK, Phases
  <2>2. CASE PrefetchApply
    BY <2>2 DEF PrefetchApply, At, TypeOK, Phases
  <2>3. CASE PrefetchRaise
    BY <2>3 DEF PrefetchRaise, At, TypeOK, Phases
  <2>4. CASE PrefetchStart
    <3> DEFINE e == [cutoff |-> SafeCutoff(log, live),
                     evict  |-> Evicted(log, live),
                     covers |-> SummaryOf(covers, Evicted(log, live)),
                     status |-> "scheduled"]
    <3>1. /\ Evicted(log, live) \subseteq 1..Len(log)
          /\ SummaryOf(covers, Evicted(log, live)) \subseteq 1..Len(log)
          /\ SafeCutoff(log, live) \in Nat
      BY LiveFinite, EvictedClosed DEF TypeOK, SummaryOf
    <3>2. e \in Entry
      BY <1>0, <3>1 DEF Entry
    <3>3. e.evict \cup e.covers \subseteq 1..Len(log)
      BY <3>1
    <3>4. registry' = {e}
      BY <2>4 DEF PrefetchStart
    <3> HIDE DEF e
    <3> QED
      BY <2>4, <3>2, <3>3, <3>4 DEF PrefetchStart, At, TypeOK, Phases
  <2>5. CASE PrefetchSkip
    BY <2>5 DEF PrefetchSkip, At, TypeOK, Phases
  <2> QED
    BY <1>5, <2>1, <2>2, <2>3, <2>4, <2>5 DEF Prefetch
<1>6. CASE BackgroundTask
  <2>1. PICK e \in registry, status \in {"calling", "done", "failed"} :
          Background(e, status) /\ filed' \subseteq filed \cup e.evict
    BY <1>6 DEF BackgroundTask, BackgroundBegin, BackgroundDone, BackgroundFail, Transcript
  <2> DEFINE f == [e EXCEPT !.status = status]
  <2>2. f \in Entry /\ f.evict = e.evict /\ f.covers = e.covers
    BY DEF TypeOK, Entry
  <2>3. registry' = {f} /\ f.evict \cup f.covers \subseteq 1..Len(log)
        /\ filed' \subseteq 1..Len(log)
    BY <2>1, <2>2 DEF Background, TypeOK
  <2> HIDE DEF f
  <2> QED
    BY <2>1, <2>2, <2>3 DEF Background, TypeOK
<1>7. CASE Compress
  <2>1. CASE CompressSkip
    BY <2>1 DEF CompressSkip, At, TypeOK, Phases
  <2>2. CASE CompressAbort
    BY <2>2 DEF CompressAbort, At, TypeOK, Phases
  <2>3. CASE CompressAwait
    BY <2>3 DEF CompressAwait, At, TypeOK, Phases
  <2>4. CASE CompressFull
    <3>1. /\ Evicted(log, live) \subseteq 1..Len(log)
          /\ SummaryOf(covers, Evicted(log, live)) \subseteq 1..Len(log)
      BY EvictedClosed DEF TypeOK, SummaryOf
    <3>2. /\ plan' \in Plan
          /\ plan'.path = "full"
          /\ plan'.evict \cup plan'.covers \subseteq 1..Len(log)
          /\ filed' \subseteq 1..Len(log)
      BY <1>0, <2>4, <3>1 DEF CompressFull, Plan, Transcript, TypeOK
    <3> QED
      BY <2>4, <3>2 DEF CompressFull, At, TypeOK, Phases
  <2>5. CASE CompressUnfiled
    BY <2>5 DEF CompressUnfiled, At, TypeOK, Phases
  <2>6. CASE AwaitRaise
    BY <2>6 DEF AwaitRaise, At, TypeOK, Phases
  <2>7. CASE CompressFast
    BY <2>7 DEF CompressFast, At, TypeOK, Phases
  <2>8. CASE CompressDelta
    <3>1. PICK e \in registry :
            plan' = [path   |-> "delta",
                     evict  |-> Front(live, SafeCutoff(log, live)),
                     covers |-> SummaryOf(e.covers, Slice(e.cutoff, SafeCutoff(log, live)))]
      BY <2>8 DEF CompressDelta
    <3>2. /\ Front(live, SafeCutoff(log, live)) \subseteq 1..Len(log)
          /\ SummaryOf(e.covers, Slice(e.cutoff, SafeCutoff(log, live))) \subseteq 1..Len(log)
      BY DEF TypeOK, SummaryOf, Slice, Front
    <3>3. /\ plan' \in Plan
          /\ plan'.path = "delta"
          /\ plan'.evict \cup plan'.covers \subseteq 1..Len(log)
          /\ filed' \subseteq 1..Len(log)
      BY <1>0, <2>8, <3>1, <3>2 DEF CompressDelta, Plan, Transcript, TypeOK
    <3> QED
      BY <2>8, <3>3 DEF CompressDelta, At, TypeOK, Phases
  <2>9. CASE Summarised
    BY <2>9, NoPlanType DEF Summarised, At, TypeOK, Phases
  <2>10. CASE SummaryFails
    BY <2>10, NoPlanType DEF SummaryFails, At, TypeOK, Phases
  <2> QED
    BY <1>7, <2>1, <2>2, <2>3, <2>4, <2>5, <2>6, <2>7, <2>8, <2>9, <2>10 DEF Compress
<1>8. CASE Model
  <2>1. CASE ModelCall
    BY <2>1 DEF ModelCall, At, Orphaned, TypeOK, Phases
  <2>2. CASE ModelConflict
    BY <2>2 DEF ModelConflict, At, TypeOK, Phases
  <2>3. ASSUME NEW k \in Kind, ModelReply(k),
               phase' \in {"end", "guard", "tools"},
               running' \in BOOLEAN, phase' = "end" => ~ running'
        PROVE  TypeOK'
    <3>1. PICK new \in Said(k, 1) : Commit(new, pending)
      BY <2>3 DEF ModelReply
    <3>2. new \in Seq(Message)
      BY SaidType
    <3> QED
      BY <2>3, <3>1, <3>2, TypeCommit DEF ModelReply, At
  <2>4. CASE ModelStops
    BY <2>3, <2>4 DEF ModelStops, Kind
  <2>5. CASE ModelNudged
    BY <2>3, <2>5 DEF ModelNudged, Kind, TypeOK
  <2>6. CASE ModelCallsTools
    BY <2>3, <2>6 DEF ModelCallsTools, Kind, TypeOK
  <2>7. CASE ModelMisformats
    BY <2>3, <2>7 DEF ModelMisformats, Kind, TypeOK
  <2> QED
    BY <1>8, <2>1, <2>2, <2>4, <2>5, <2>6, <2>7 DEF Model
<1>9. CASE Guard
  <2>1. PICK new \in Said("human", 1) : Commit(new, {})
    BY <1>9 DEF Guard
  <2>2. new \in Seq(Message)
    BY SaidType DEF Kind
  <2> QED
    BY <1>9, <2>1, <2>2, TypeCommit DEF Guard, At, TypeOK
<1>10. CASE Tools
  <2>0. PICK k \in {"tool", "stray"}, n \in 1..MaxCalls :
          \E new \in Said(k, n) : Commit(new, {})
    BY <1>10 DEF Tools
  <2>1. PICK new \in Said(k, n) : Commit(new, {})
    BY <2>0
  <2>2. new \in Seq(Message)
    BY SaidType, CompressionAssumption DEF Kind
  <2> QED
    BY <1>10, <2>1, <2>2, TypeCommit, RouteType DEF Tools, At, TypeOK
<1>11. CASE UNCHANGED vars
  BY <1>11 DEF vars, TypeOK
<1> QED
  BY <1>1, <1>2, <1>3, <1>4, <1>5, <1>6, <1>7, <1>8, <1>9, <1>10, <1>11
  DEF Next, Environment

(* The types hold throughout, and the phase, the registry and the locals   *)
(* of a suspended compress_node agree.                                     *)
THEOREM TypeCorrect == Spec => []TypeOK
  BY TypeInit, TypeStep, PTL DEF Spec

-----------------------------------------------------------------------------
(* What a step can be, as far as the other invariants tell steps apart. *)

(* A step that leaves the conversation and its summary alone, and at most  *)
(* drops the background summary and the locals of compress_node.           *)
Quiet ==
  /\ UNCHANGED <<log, live, covers, removed, filed>>
  /\ registry' \subseteq registry
  /\ plan' \in {plan, NoPlan}
  /\ pending' \subseteq pending \cup Orphaned(log, live)
  /\ phase' \in {"tools", "summarise"} => phase' = phase
  /\ phase' = "await" => phase = "await" \/ CompressAwait

(* A step that adds n messages of kind k, and removes the orphans that are *)
(* no longer pending after it.                                             *)
Appends(k, n) ==
  /\ \E new \in Said(k, n) : Commit(new, pending \ pending')
  /\ removed' = removed \cup (pending \ pending')
  /\ pending' \subseteq pending
  /\ UNCHANGED <<covers, registry, plan, filed>>
  /\ phase \notin {"await", "summarise"}
  /\ phase' \notin {"await", "summarise"}
  /\ phase' = "tools" => k \in {"call", "invalid"} /\ n = 1
  /\ k = "tool" => phase = "tools" /\ log[Len(log)].kind = "call" /\ n <= MaxCalls
  /\ k = "stray" => phase = "tools" /\ log[Len(log)].kind # "call"
  /\ k = "invalid" => MayMisformat

LEMMA QuietSteps ==
  ASSUME TypeOK,
         \/ Resume \/ Interrupt \/ Crash
         \/ PrefetchAbort \/ PrefetchRaise \/ PrefetchSkip
         \/ CompressSkip \/ CompressAbort \/ CompressAwait \/ CompressUnfiled
         \/ AwaitRaise \/ SummaryFails \/ ModelCall \/ ModelConflict \/ UNCHANGED vars
  PROVE  Quiet
<1>1. CASE Resume
  BY <1>1 DEF Resume, Quiet
<1>2. CASE Interrupt
  BY <1>2 DEF Interrupt, NodeOf, Quiet
<1>3. CASE Crash
  BY <1>3 DEF Crash, NodeOf, Quiet
<1>4. CASE PrefetchAbort \/ PrefetchRaise \/ PrefetchSkip
  BY <1>4 DEF PrefetchAbort, PrefetchRaise, PrefetchSkip, At, Quiet
<1>5. CASE CompressSkip \/ CompressAbort \/ CompressUnfiled \/ AwaitRaise \/ SummaryFails
  BY <1>5 DEF CompressSkip, CompressAbort, CompressUnfiled, AwaitRaise, SummaryFails, At, Quiet
<1>6. CASE CompressAwait
  BY <1>6 DEF CompressAwait, At, Quiet
<1>7. CASE ModelCall \/ ModelConflict
  BY <1>7 DEF ModelCall, ModelConflict, At, Quiet
<1>8. CASE UNCHANGED vars
  BY <1>8 DEF vars, Quiet
<1> QED
  BY <1>1, <1>2, <1>3, <1>4, <1>5, <1>6, <1>7, <1>8

LEMMA AppendSteps ==
  ASSUME TypeOK,
         \/ Send \/ ModelStops \/ ModelNudged \/ ModelCallsTools \/ ModelMisformats
         \/ Guard \/ Tools
  PROVE  \E k \in Kind, n \in Nat : Appends(k, n)
<1>1. CASE Send
  <2>1. Appends("human", 1)
    <3>1. phase \notin {"await", "summarise"}
      BY <1>1 DEF Send, TypeOK
    <3>2. pending' = pending /\ pending \ pending' = {}
      BY <1>1 DEF Send
    <3> QED
      BY <1>1, <3>1, <3>2, RouteType DEF Send, Appends
  <2> QED
    BY <2>1 DEF Kind
<1>2. ASSUME NEW k \in {"ai", "call", "invalid"}, ModelReply(k),
             phase' \in {"end", "guard", "tools"},
             phase' = "tools" => k # "ai",
             k = "invalid" => MayMisformat
      PROVE  \E kk \in Kind, n \in Nat : Appends(kk, n)
  <2>1. pending' = {} /\ pending \ pending' = pending
    BY <1>2 DEF ModelReply
  <2>2. Appends(k, 1)
    BY <1>2, <2>1 DEF ModelReply, At, Appends
  <2> QED
    BY <2>2 DEF Kind
<1>3. CASE ModelStops
  BY <1>2, <1>3 DEF ModelStops
<1>4. CASE ModelNudged
  BY <1>2, <1>4 DEF ModelNudged
<1>5. CASE ModelCallsTools
  BY <1>2, <1>5 DEF ModelCallsTools
<1>6. CASE ModelMisformats
  BY <1>2, <1>6 DEF ModelMisformats
<1>7. CASE Guard
  <2>1. pending' = pending /\ pending \ pending' = {}
    BY <1>7 DEF Guard
  <2>2. Appends("human", 1)
    BY <1>7, <2>1 DEF Guard, At, Appends
  <2> QED
    BY <2>2 DEF Kind
<1>8. CASE Tools
  <2> DEFINE k == IF log[Len(log)].kind = "call" THEN "tool" ELSE "stray"
  <2>1. PICK n \in 1..MaxCalls : \E new \in Said(k, n) : Commit(new, {})
    BY <1>8 DEF Tools
  <2>2. pending' = pending /\ pending \ pending' = {} /\ n <= MaxCalls
    BY <1>8, CompressionAssumption DEF Tools
  <2>3. Appends(k, n)
    BY <1>8, <2>1, <2>2, RouteType DEF Tools, At, Appends
  <2> QED
    BY <2>3, CompressionAssumption DEF Kind
<1> QED
  BY <1>1, <1>3, <1>4, <1>5, <1>6, <1>7, <1>8

LEMMA NextCases ==
  ASSUME TypeOK, [Next]_vars
  PROVE  \/ Quiet
         \/ \E k \in Kind, n \in Nat : Appends(k, n)
         \/ PrefetchStart \/ PrefetchApply \/ BackgroundTask
         \/ CompressFull \/ CompressFast \/ CompressDelta \/ Summarised
  BY QuietSteps, AppendSteps DEF Next, Environment, Prefetch, Compress, Model

(* The log and the state after messages were added. *)
LEMMA AppendFacts ==
  ASSUME TypeOK, NEW k \in Kind, NEW n \in Nat, Appends(k, n)
  PROVE  /\ log' \in Seq(Message)
         /\ Len(log) \in Nat
         /\ Len(log') = Len(log) + n
         /\ live' = (live \ (pending \ pending')) \cup (Len(log) + 1)..Len(log')
         /\ 1..Len(log') = 1..Len(log) \cup (Len(log) + 1)..Len(log')
         /\ \A i \in 1..Len(log) : log'[i] = log[i]
         /\ \A i \in (Len(log) + 1)..Len(log') : log'[i].kind = k
<1>1. PICK new \in Said(k, n) : Commit(new, pending \ pending')
  BY DEF Appends
<1>2. new \in Seq(Message) /\ Len(new) = n /\ \A j \in 1..n : new[j].kind = k
  BY SaidType
<1>3. /\ log' \in Seq(Message)
      /\ Len(log) \in Nat
      /\ Len(log') = Len(log) + Len(new)
      /\ live' = (live \ (pending \ pending')) \cup (Len(log) + 1)..Len(log')
      /\ \A i \in 1..Len(log) : log'[i] = log[i]
      /\ \A j \in 1..Len(new) : log'[Len(log) + j] = new[j]
  BY <1>1, <1>2, CommitFacts DEF TypeOK
<1>4. 1..Len(log') = 1..Len(log) \cup (Len(log) + 1)..Len(log')
  BY <1>2, <1>3
<1>5. ASSUME NEW i \in (Len(log) + 1)..Len(log')
      PROVE  log'[i].kind = k
  <2>1. i - Len(log) \in 1..n /\ i = Len(log) + (i - Len(log))
    BY <1>2, <1>3, <1>5
  <2> QED
    BY <1>2, <1>3, <2>1
<1> QED
  BY <1>2, <1>3, <1>4, <1>5

-----------------------------------------------------------------------------
(* FiledBeforeForgotten *)

LEMMA FiledInit == Init => FiledInv
  BY DEF Init, FiledInv, FiledBeforeForgotten, NoPlan

LEMMA FiledStep == TypeOK /\ FiledInv /\ [Next]_vars => FiledInv'
<1> SUFFICES ASSUME TypeOK, FiledInv, [Next]_vars
             PROVE  FiledInv'
  OBVIOUS
<1> USE DEF FiledInv
<1>1. CASE Quiet
  BY <1>1, NoPlanType DEF Quiet, FiledBeforeForgotten
<1>2. ASSUME NEW k \in Kind, NEW n \in Nat, Appends(k, n)
      PROVE  FiledInv'
  <2>1. UNCHANGED <<registry, plan, filed>> /\ removed' = removed \cup (pending \ pending')
    BY <1>2 DEF Appends
  <2>2. (1..Len(log')) \ live' \subseteq ((1..Len(log)) \ live) \cup (pending \ pending')
    BY <1>2, AppendFacts
  <2> QED
    BY <2>1, <2>2 DEF FiledBeforeForgotten
<1>3. CASE PrefetchStart
  BY <1>3 DEF PrefetchStart, FiledBeforeForgotten
<1>4. CASE PrefetchApply \/ CompressFast
  <2>1. PICK e \in registry : e.status = "done" /\ live' = live \ e.evict
    BY <1>4 DEF PrefetchApply, CompressFast
  <2>2. registry' = {} /\ UNCHANGED <<log, plan, removed, filed>>
    BY <1>4 DEF PrefetchApply, CompressFast
  <2> QED
    BY <2>1, <2>2 DEF FiledBeforeForgotten
<1>5. CASE BackgroundTask
  <2>0. UNCHANGED <<log, live, plan, removed>> /\ filed \subseteq filed'
    BY <1>5 DEF BackgroundTask, BackgroundBegin, BackgroundDone, BackgroundFail,
                Background, Transcript
  <2>1. PICK e \in registry, status \in {"calling", "done", "failed"} :
          /\ registry' = {[e EXCEPT !.status = status]}
          /\ status \in {"calling", "done"} => e.evict \subseteq filed'
    <3>1. CASE BackgroundBegin
      BY <3>1 DEF BackgroundBegin, Background, Transcript
    <3>2. CASE BackgroundDone
      BY <3>2 DEF BackgroundDone, Background
    <3>3. CASE BackgroundFail
      BY <3>3 DEF BackgroundFail, Background
    <3> QED
      BY <1>5, <3>1, <3>2, <3>3 DEF BackgroundTask
  <2> DEFINE f == [e EXCEPT !.status = status]
  <2>2. f.status = status /\ f.evict = e.evict
    BY DEF TypeOK, Entry
  <2> HIDE DEF f
  <2>3. \A g \in registry' : g.status \in {"calling", "done"} => g.evict \subseteq filed'
    BY <2>1, <2>2 DEF f
  <2> QED
    BY <2>0, <2>3 DEF FiledBeforeForgotten
<1>6. CASE CompressFull
  BY <1>6 DEF CompressFull, Transcript, FiledBeforeForgotten
<1>7. CASE CompressDelta
  BY <1>7 DEF CompressDelta, Transcript, FiledBeforeForgotten
<1>8. CASE Summarised
  BY <1>8, NoPlanType DEF Summarised, FiledBeforeForgotten
<1> QED
  BY <1>1, <1>2, <1>3, <1>4, <1>5, <1>6, <1>7, <1>8, NextCases

(* No message leaves the state unfiled, whatever the policy, and whatever  *)
(* is aborted, fails or crashes in between.                                *)
THEOREM Filed == Spec => []FiledBeforeForgotten
<1>1. Init => TypeOK /\ FiledInv
  BY TypeInit, FiledInit
<1>2. TypeOK /\ FiledInv /\ [Next]_vars => (TypeOK /\ FiledInv)'
  BY TypeStep, FiledStep
<1>3. FiledInv => FiledBeforeForgotten
  BY DEF FiledInv
<1> QED
  BY <1>1, <1>2, <1>3, PTL DEF Spec

-----------------------------------------------------------------------------
(* CoveredUnlessDelta *)

LEMMA CoveredInit == Init => CoveredInv
  BY DEF Init, CoveredInv, NoPlan

LEMMA CoveredNext == TypeOK /\ CoveredInv /\ [Next]_vars => CoveredInv' /\ CoveredStep
<1> SUFFICES ASSUME TypeOK, CoveredInv, [Next]_vars
             PROVE  CoveredInv' /\ CoveredStep
  OBVIOUS
<1> USE DEF CoveredInv, CoveredStep
<1>1. CASE Quiet
  BY <1>1, NoPlanType DEF Quiet
<1>2. ASSUME NEW k \in Kind, NEW n \in Nat, Appends(k, n)
      PROVE  CoveredInv' /\ CoveredStep
  <2>1. UNCHANGED <<registry, plan>> /\ removed' = removed \cup (pending \ pending')
    BY <1>2 DEF Appends
  <2>2. live \ live' \subseteq pending \ pending'
    BY <1>2, AppendFacts
  <2> QED
    BY <2>1, <2>2
<1>3. CASE PrefetchStart
  BY <1>3 DEF PrefetchStart, SummaryOf
<1>4. CASE PrefetchApply \/ CompressFast
  BY <1>4 DEF PrefetchApply, CompressFast
<1>5. CASE BackgroundTask
  <2>1. UNCHANGED <<live, plan>>
    BY <1>5 DEF BackgroundTask, BackgroundBegin, BackgroundDone, BackgroundFail, Background
  <2>2. PICK e \in registry, status \in {"calling", "done", "failed"} :
          registry' = {[e EXCEPT !.status = status]}
    BY <1>5 DEF BackgroundTask, BackgroundBegin, BackgroundDone, BackgroundFail, Background
  <2>3. \A f \in registry' : f.evict = e.evict /\ f.covers = e.covers
    BY <2>2 DEF TypeOK, Entry
  <2> QED
    BY <2>1, <2>3
<1>6. CASE CompressFull
  BY <1>6 DEF CompressFull, SummaryOf
<1>7. CASE CompressDelta
  BY <1>7 DEF CompressDelta
<1>8. CASE Summarised
  <2>1. plan.path \in {"full", "delta"}
    BY <1>8 DEF Summarised, At, TypeOK, Plan
  <2> QED
    BY <1>8, <2>1, NoPlanType DEF Summarised
<1> QED
  BY <1>1, <1>2, <1>3, <1>4, <1>5, <1>6, <1>7, <1>8, NextCases

(* Even with malformed tool calls, only the delta path can drop a message  *)
(* that no summary accounts for.                                           *)
THEOREM Covered == Spec => CoveredUnlessDelta
<1>1. Init => TypeOK /\ CoveredInv
  BY TypeInit, CoveredInit
<1>2. TypeOK /\ CoveredInv /\ [Next]_vars => (TypeOK /\ CoveredInv)' /\ [CoveredStep]_vars
  BY TypeStep, CoveredNext
<1> QED
  BY <1>1, <1>2, PTL DEF Spec, CoveredUnlessDelta

-----------------------------------------------------------------------------
(* ToolPairsWhole *)

(* An old message answers what it did; a new one at most the message that  *)
(* was last, when that was a call and the new one is its result.           *)
LEMMA AnswersAfter ==
  ASSUME TypeOK, NEW k \in Kind, NEW n \in Nat, Appends(k, n),
         NEW t \in 1..Len(log'), NEW p \in 1..Len(log')
  PROVE  /\ t \in 1..Len(log) => (Answers(log', t, p) <=> Answers(log, t, p))
         /\ t \notin 1..Len(log) /\ k = "tool" => (Answers(log', t, p) <=> p = Len(log))
         /\ t \notin 1..Len(log) /\ k # "tool" => ~ Answers(log', t, p)
<1>1. /\ Len(log) \in Nat
      /\ Len(log') = Len(log) + n
      /\ \A i \in 1..Len(log) : log'[i] = log[i]
      /\ \A i \in (Len(log) + 1)..Len(log') : log'[i].kind = k
  BY AppendFacts
<1>2. CASE t \in 1..Len(log)
  <2>1. CASE p < t
    <3>1. p \in 1..Len(log) /\ \A i \in (p + 1)..(t - 1) : i \in 1..Len(log)
      BY <1>1, <1>2, <2>1
    <3>2. log'[t] = log[t] /\ log'[p] = log[p] /\ \A i \in (p + 1)..(t - 1) : log'[i] = log[i]
      BY <1>1, <1>2, <3>1
    <3> QED
      BY <1>2, <3>2 DEF Answers
  <2> QED
    BY <1>2, <2>1 DEF Answers
<1>3. CASE t \notin 1..Len(log)
  <2>1. t \in (Len(log) + 1)..Len(log') /\ log'[t].kind = k
    BY <1>1, <1>3
  <2>2. CASE k = "tool"
    <3>1. log[Len(log)].kind = "call"
      BY <2>2 DEF Appends
    <3>2. CASE p = Len(log)
      <4>1. p < t /\ log'[p].kind = "call"
        BY <1>1, <2>1, <3>1, <3>2
      <4>2. \A i \in (p + 1)..(t - 1) : log'[i].kind = "tool"
        BY <1>1, <2>1, <2>2, <3>2
      <4> QED
        BY <1>3, <2>1, <2>2, <3>2, <4>1, <4>2 DEF Answers
    <3>3. CASE p > Len(log)
      <4>1. log'[p].kind = "tool"
        BY <1>1, <2>2, <3>3
      <4> QED
        BY <1>1, <1>3, <2>2, <3>3, <4>1 DEF Answers
    <3>4. CASE p < Len(log)
      <4>1. Len(log) \in (p + 1)..(t - 1) /\ Len(log) \in 1..Len(log)
        BY <1>1, <2>1, <3>4
      <4>2. log'[Len(log)].kind # "tool"
        BY <1>1, <3>1, <4>1
      <4> QED
        BY <1>1, <1>3, <2>2, <3>4, <4>1, <4>2 DEF Answers
    <3> QED
      BY <1>1, <3>2, <3>3, <3>4
  <2> QED
    BY <1>3, <2>1, <2>2 DEF Answers
<1> QED
  BY <1>2, <1>3

(* Taking a closed set of messages out leaves no result without its call. *)
LEMMA RemoveClosed ==
  ASSUME ToolPairsWhole, NEW ids, Closed(log, live, ids), log' = log, live' = live \ ids
  PROVE  ToolPairsWhole'
<1> SUFFICES ASSUME NEW t \in live', log[t].kind = "tool"
             PROVE  \E p \in live' : Answers(log, t, p)
  BY DEF ToolPairsWhole
<1>1. PICK p \in live : Answers(log, t, p)
  BY DEF ToolPairsWhole
<1> QED
  BY <1>1 DEF Closed

LEMMA PairsInit == Init => PairsInv
  BY DEF Init, PairsInv, ToolPairsWhole

LEMMA PairsStep == TypeOK /\ PairsInv /\ [Next]_vars => PairsInv'
<1> SUFFICES ASSUME TypeOK, PairsInv, [Next]_vars
             PROVE  PairsInv'
  OBVIOUS
<1>0. Len(log) \in Nat /\ live \subseteq 1..Len(log)
  BY DEF TypeOK
<1>1. CASE Quiet
  <2>1. UNCHANGED <<log, live>> /\ registry' \subseteq registry
    BY <1>1 DEF Quiet
  <2>2. ToolPairsWhole' /\ \A e \in registry' : Closed(log', live', e.evict) /\ e.cutoff >= 1
    BY <2>1 DEF PairsInv, ToolPairsWhole, Closed
  <2>3. phase' = "tools" => /\ Len(log') \in live'
                           /\ log'[Len(log')].kind \in {"call", "invalid"}
                           /\ \A e \in registry' : Len(log') \notin e.evict
    BY <1>1, <2>1 DEF Quiet, PairsInv
  <2>4. phase' = "summarise" => Closed(log', live', plan'.evict)
    BY <1>1, <2>1, NoPlanType DEF Quiet, PairsInv, Closed
  <2>5. \A i \in pending' : IsTool(log', i)
    BY <1>1, <2>1 DEF Quiet, PairsInv, Orphaned, IsTool
  <2>6. phase' = "await" => \A e \in registry' : e.cutoff <= SafeCutoff(log', live')
    <3>1. CASE phase = "await"
      BY <2>1, <3>1 DEF PairsInv
    <3>2. CASE CompressAwait
      BY <3>2 DEF CompressAwait, TypeOK
    <3> QED
      BY <1>1, <3>1, <3>2 DEF Quiet
  <2> QED
    BY <2>2, <2>3, <2>4, <2>5, <2>6 DEF PairsInv
<1>2. ASSUME NEW k \in Kind, NEW n \in Nat, Appends(k, n)
      PROVE  PairsInv'
  <2> DEFINE gone == pending \ pending'
  <2>1. /\ Len(log') = Len(log) + n
        /\ live' = (live \ gone) \cup (Len(log) + 1)..Len(log')
        /\ 1..Len(log') = 1..Len(log) \cup (Len(log) + 1)..Len(log')
        /\ \A i \in 1..Len(log) : log'[i] = log[i]
        /\ \A i \in (Len(log) + 1)..Len(log') : log'[i].kind = k
    BY <1>2, AppendFacts
  <2>2. \A i \in gone : i \in 1..Len(log) /\ IsTool(log, i)
    BY DEF PairsInv, TypeOK
  <2>3. registry' = registry /\ pending' \subseteq pending
        /\ phase' \notin {"await", "summarise"}
    BY <1>2 DEF Appends
  <2>4. live' \subseteq 1..Len(log')
    BY <1>0, <2>1
  <2>5. ToolPairsWhole'
    <3> SUFFICES ASSUME NEW t \in live', log'[t].kind = "tool"
                 PROVE  \E p \in live' : Answers(log', t, p)
      BY DEF ToolPairsWhole
    <3>1. CASE t \in 1..Len(log)
      <4>1. t \in live /\ log[t].kind = "tool"
        BY <2>1, <3>1
      <4>2. PICK p \in live : Answers(log, t, p)
        BY <4>1 DEF PairsInv, ToolPairsWhole
      <4>3. p \notin gone
        BY <2>2, <4>2 DEF Answers, IsTool
      <4>4. p \in live' /\ p \in 1..Len(log')
        BY <2>1, <2>4, <4>3
      <4> QED
        BY <1>2, <2>4, <3>1, <4>2, <4>4, AnswersAfter
    <3>2. CASE t \notin 1..Len(log)
      <4>1. k = "tool"
        BY <2>1, <2>4, <3>2
      <4>2. phase = "tools" /\ log[Len(log)].kind = "call"
        BY <1>2, <4>1 DEF Appends
      <4>3. Len(log) \in live /\ Len(log) \notin gone
        BY <2>2, <4>2 DEF PairsInv, IsTool
      <4>4. Len(log) \in live' /\ Len(log) \in 1..Len(log')
        BY <2>1, <2>4, <4>3
      <4>5. Answers(log', t, Len(log))
        BY <1>2, <2>4, <3>2, <4>1, <4>4, AnswersAfter
      <4> QED
        BY <4>4, <4>5
    <3> QED
      BY <3>1, <3>2
  <2>6. ASSUME NEW e \in registry
        PROVE  Closed(log', live', e.evict) /\ e.cutoff >= 1
    <3>1. e.evict \subseteq 1..Len(log) /\ Closed(log, live, e.evict) /\ e.cutoff >= 1
      BY DEF PairsInv, TypeOK
    <3>2. ASSUME NEW p \in e.evict, NEW t \in live', Answers(log', t, p)
          PROVE  t \in e.evict
      <4>1. p \in 1..Len(log') /\ t \in 1..Len(log')
        BY <2>1, <2>4, <3>1
      <4>2. CASE t \in 1..Len(log)
        <5>1. Answers(log, t, p)
          BY <1>2, <3>2, <4>1, <4>2, AnswersAfter
        <5>2. t \in live
          BY <2>1, <4>2
        <5> QED
          BY <3>1, <5>1, <5>2 DEF Closed
      <4>3. CASE t \notin 1..Len(log)
        <5>1. k = "tool" /\ p = Len(log)
          BY <1>2, <3>2, <4>1, <4>3, AnswersAfter
        <5>2. phase = "tools"
          BY <1>2, <5>1 DEF Appends
        <5> QED
          BY <5>1, <5>2 DEF PairsInv
      <4> QED
        BY <4>2, <4>3
    <3> QED
      BY <3>1, <3>2 DEF Closed
  <2>7. phase' = "tools" => /\ Len(log') \in live'
                           /\ log'[Len(log')].kind \in {"call", "invalid"}
                           /\ \A e \in registry' : Len(log') \notin e.evict
    <3> SUFFICES ASSUME phase' = "tools"
                 PROVE  /\ Len(log') \in live'
                        /\ log'[Len(log')].kind \in {"call", "invalid"}
                        /\ \A e \in registry' : Len(log') \notin e.evict
      OBVIOUS
    <3>1. k \in {"call", "invalid"} /\ n = 1
      BY <1>2 DEF Appends
    <3>2. Len(log') \in (Len(log) + 1)..Len(log') /\ Len(log') \notin 1..Len(log)
      BY <1>0, <2>1, <3>1
    <3>3. \A e \in registry : e.evict \subseteq 1..Len(log)
      BY DEF TypeOK
    <3> QED
      BY <2>1, <2>3, <3>1, <3>2, <3>3
  <2>8. \A i \in pending' : IsTool(log', i)
    <3>1. \A i \in pending : i \in 1..Len(log) /\ IsTool(log, i)
      BY DEF PairsInv, TypeOK
    <3> QED
      BY <2>1, <2>3, <3>1 DEF IsTool
  <2> QED
    BY <2>3, <2>5, <2>6, <2>7, <2>8 DEF PairsInv
<1>3. CASE PrefetchStart
  <2> DEFINE e == [cutoff |-> SafeCutoff(log, live),
                   evict  |-> Evicted(log, live),
                   covers |-> SummaryOf(covers, Evicted(log, live)),
                   status |-> "scheduled"]
  <2>1. registry' = {e} /\ UNCHANGED <<log, live, pending>> /\ phase' = "model"
    BY <1>3 DEF PrefetchStart
  <2>2. e.cutoff >= 1
    BY <1>3, LiveFinite DEF PrefetchStart, WantsPrefetch
  <2>3. Closed(log, live, e.evict)
    BY EvictedClosed DEF Closed
  <2> HIDE DEF e
  <2>4. Closed(log', live', e.evict) /\ ToolPairsWhole'
    BY <2>1, <2>3 DEF Closed, PairsInv, ToolPairsWhole
  <2> QED
    BY <2>1, <2>2, <2>4 DEF PairsInv
<1>4. CASE PrefetchApply \/ CompressFast
  <2>1. PICK e \in registry : live' = live \ e.evict
    BY <1>4 DEF PrefetchApply, CompressFast
  <2>2. registry' = {} /\ phase' = "model" /\ UNCHANGED <<log, pending>>
    BY <1>4 DEF PrefetchApply, CompressFast
  <2>3. ToolPairsWhole'
    BY <2>1, <2>2, RemoveClosed DEF PairsInv
  <2> QED
    BY <2>2, <2>3 DEF PairsInv
<1>5. CASE BackgroundTask
  <2>1. UNCHANGED <<log, live, phase, plan, pending>>
    BY <1>5 DEF BackgroundTask, BackgroundBegin, BackgroundDone, BackgroundFail, Background
  <2>2. PICK e \in registry, status \in {"calling", "done", "failed"} :
          registry' = {[e EXCEPT !.status = status]}
    BY <1>5 DEF BackgroundTask, BackgroundBegin, BackgroundDone, BackgroundFail, Background
  <2>3. \A f \in registry' : f.evict = e.evict /\ f.cutoff = e.cutoff
    BY <2>2 DEF TypeOK, Entry
  <2>4. \A f \in registry' : Closed(log', live', f.evict) /\ f.cutoff >= 1
    BY <2>1, <2>3 DEF PairsInv, Closed
  <2>5. ToolPairsWhole' /\ (phase = "summarise" => Closed(log', live', plan'.evict))
    BY <2>1 DEF PairsInv, ToolPairsWhole, Closed
  <2> QED
    BY <2>1, <2>3, <2>4, <2>5 DEF PairsInv
<1>6. CASE CompressFull
  <2>1. /\ UNCHANGED <<log, live, pending>>
        /\ registry' = {} /\ phase' = "summarise" /\ plan'.evict = Evicted(log, live)
    BY <1>6 DEF CompressFull
  <2>2. Closed(log', live', plan'.evict) /\ ToolPairsWhole'
    BY <2>1, EvictedClosed DEF Closed, PairsInv, ToolPairsWhole
  <2> QED
    BY <2>1, <2>2 DEF PairsInv
<1>7. CASE CompressDelta
  <2>1. PICK e \in registry : ~ Matches(e)
    BY <1>7 DEF CompressDelta
  <2>2. /\ UNCHANGED <<log, live, pending>>
        /\ registry' = {} /\ phase' = "summarise"
        /\ plan'.evict = Front(live, SafeCutoff(log, live))
    BY <1>7 DEF CompressDelta
  <2>3. SafeCutoff(log, live) >= 2
    <3>1. e.cutoff \in Nat /\ e.cutoff >= 1 /\ e.cutoff <= SafeCutoff(log, live)
      BY <1>7 DEF CompressDelta, At, PairsInv, TypeOK, Entry
    <3>2. SafeCutoff(log, live) \in Nat
      BY LiveFinite
    <3> QED
      BY <2>1, <3>1, <3>2 DEF Matches
  <2>4. Closed(log, live, Front(live, SafeCutoff(log, live)))
    BY <2>3, LiveFinite, SafeFrontClosed DEF Closed
  <2>5. Closed(log', live', plan'.evict) /\ ToolPairsWhole'
    BY <2>2, <2>4 DEF Closed, PairsInv, ToolPairsWhole
  <2> QED
    BY <2>2, <2>5 DEF PairsInv
<1>8. CASE Summarised
  <2>1. /\ live' = live \ plan.evict /\ UNCHANGED <<log, registry, pending>>
        /\ phase' = "model" /\ phase = "summarise"
    BY <1>8 DEF Summarised, At
  <2>2. ToolPairsWhole'
    BY <2>1, RemoveClosed DEF PairsInv
  <2>3. \A e \in registry' : Closed(log', live', e.evict) /\ e.cutoff >= 1
    BY <2>1 DEF PairsInv, Closed
  <2> QED
    BY <2>1, <2>2, <2>3 DEF PairsInv
<1> QED
  BY <1>1, <1>2, <1>3, <1>4, <1>5, <1>6, <1>7, <1>8, NextCases

(* Compression never leaves a tool result without its call: not for any    *)
(* policy, not on the delta path, not when background summaries are        *)
(* applied to a state that has grown since, and not when the model returns *)
(* malformed calls.                                                        *)
THEOREM PairsWhole == Spec => []ToolPairsWhole
<1>1. Init => TypeOK /\ PairsInv
  BY TypeInit, PairsInit
<1>2. TypeOK /\ PairsInv /\ [Next]_vars => (TypeOK /\ PairsInv)'
  BY TypeStep, PairsStep
<1>3. PairsInv => ToolPairsWhole
  BY DEF PairsInv
<1> QED
  BY <1>1, <1>2, <1>3, PTL DEF Spec

-----------------------------------------------------------------------------
(* NoMessageLost, SummaryStaysValid and the implementation of Memory, for  *)
(* a model that never returns malformed tool calls.                        *)

(* A valid background summary stays valid while messages are added. *)
LEMMA ValidAfterAppend ==
  ASSUME TypeOK, pending = {}, NEW k \in Kind, NEW n \in Nat, Appends(k, n),
         NEW c \in 1..Cardinality(live)
  PROVE  c \in 1..Cardinality(live') /\ Front(live', c) = Front(live, c)
<1> DEFINE N == (Len(log) + 1)..Len(log')
<1>1. live' = live \cup N /\ Len(log) \in Nat /\ Len(log') \in Nat
  BY AppendFacts
<1>2. IsFiniteSet(live) /\ live \subseteq Int /\ Cardinality(live) \in Nat
  BY LiveFinite
<1>3. IsFiniteSet(N) /\ N \subseteq Int
  BY <1>1, FS_Interval
<1>4. \A s \in live, m \in N : s < m
  <2> TAKE s \in live, m \in N
  <2>1. s \in 1..Len(log)
    BY DEF TypeOK
  <2> QED
    BY <1>1, <2>1
<1>5. c \in Nat /\ c <= Cardinality(live)
  BY <1>2
<1> HIDE DEF N
<1>6. Front(live', c) = Front(live, c)
  BY <1>1, <1>2, <1>3, <1>4, <1>5, FrontStable
<1>7. IsFiniteSet(live') /\ live \subseteq live'
  BY <1>1, <1>2, <1>3, FS_Union
<1>8. Cardinality(live) <= Cardinality(live') /\ Cardinality(live') \in Nat
  BY <1>7, FS_Subset, FS_CardinalityType
<1> QED
  BY <1>2, <1>6, <1>8

LEMMA NothingLostInit == Init => NothingLostInv /\ M!MemoryInit
<1> SUFFICES ASSUME Init
             PROVE  NothingLostInv /\ M!MemoryInit
  OBVIOUS
<1>1. Len(log) = 0 /\ live = {} /\ covers = {} /\ removed = {} /\ pending = {}
      /\ registry = {} /\ phase = "end"
  BY DEF Init
<1> QED
  BY <1>1 DEF NothingLostInv, NoMessageLost, SummaryStaysValid, M!MemoryInit

(* The step of Memory that a step of the thread maps to. *)
Remembers == [M!MemoryNext]_<<Len(log), live, covers>>

LEMMA NothingLostStep ==
  ASSUME ~ MayMisformat, TypeOK, TypeOK', PairsInv, CoveredInv, NothingLostInv, [Next]_vars
  PROVE  NothingLostInv' /\ Remembers
<1>0. /\ Len(log) \in Nat
      /\ live \cup covers = 1..Len(log)
      /\ pending = {} /\ removed = {}
      /\ \A i \in 1..Len(log) : log[i].kind \notin {"invalid", "stray"}
      /\ live \subseteq 1..Len(log)
  BY DEF NothingLostInv, NoMessageLost, TypeOK
<1>1. CASE Quiet
  <2>1. UNCHANGED <<log, live, covers, removed>> /\ registry' \subseteq registry
    BY <1>1 DEF Quiet
  <2>2. Orphaned(log, live) = {}
    <3>1. \A t \in Orphaned(log, live) : t \in live /\ log[t].kind = "stray"
      BY OrphansAreStrays DEF PairsInv, ToolPairsWhole
    <3> QED
      BY <1>0, <3>1
  <2>3. pending' = {}
    BY <1>0, <1>1, <2>2 DEF Quiet
  <2>4. phase' = "summarise" => phase = "summarise" /\ plan' = plan
    BY <1>1, NoPlanType DEF Quiet, TypeOK
  <2>5. NoMessageLost' /\ SummaryStaysValid'
    BY <2>1 DEF NothingLostInv, NoMessageLost, SummaryStaysValid
  <2> QED
    BY <1>0, <2>1, <2>3, <2>4, <2>5 DEF NothingLostInv, Remembers
<1>2. ASSUME NEW k \in Kind, NEW n \in Nat, Appends(k, n)
      PROVE  NothingLostInv' /\ Remembers
  <2>1. /\ Len(log') = Len(log) + n
        /\ live' = live \cup (Len(log) + 1)..Len(log')
        /\ 1..Len(log') = 1..Len(log) \cup (Len(log) + 1)..Len(log')
        /\ \A i \in 1..Len(log) : log'[i] = log[i]
        /\ \A i \in (Len(log) + 1)..Len(log') : log'[i].kind = k
    BY <1>0, <1>2, AppendFacts
  <2>2. UNCHANGED <<covers, registry, removed, pending>> /\ phase' # "summarise"
    BY <1>0, <1>2 DEF Appends
  <2>3. k \notin {"invalid", "stray"}
    <3>1. phase = "tools" => log[Len(log)].kind = "call"
      BY <1>0 DEF PairsInv
    <3> QED
      BY <1>2, <3>1 DEF Appends
  <2>4. NoMessageLost'
    BY <1>0, <2>1, <2>2 DEF NoMessageLost
  <2>5. SummaryStaysValid'
    <3> SUFFICES ASSUME NEW e \in registry
                 PROVE  /\ covers' \subseteq e.covers
                        /\ e.cutoff \in 1..Cardinality(live')
                        /\ Front(live', e.cutoff) \subseteq e.covers
      BY <2>2 DEF SummaryStaysValid
    <3>1. /\ covers \subseteq e.covers
          /\ e.cutoff \in 1..Cardinality(live)
          /\ Front(live, e.cutoff) \subseteq e.covers
      BY DEF NothingLostInv, SummaryStaysValid
    <3>2. e.cutoff \in 1..Cardinality(live') /\ Front(live', e.cutoff) = Front(live, e.cutoff)
      BY <1>0, <1>2, <3>1, ValidAfterAppend
    <3> QED
      BY <2>2, <3>1, <3>2
  <2>6. Remembers
    <3>1. CASE n = 0
      <4>1. Len(log') = Len(log) /\ (Len(log) + 1)..Len(log') = {}
        BY <1>0, <2>1, <3>1
      <4> QED
        BY <2>1, <2>2, <4>1 DEF Remembers
    <3>2. CASE n > 0
      BY <1>0, <2>1, <2>2, <3>2 DEF Remembers, M!MemoryNext, M!Hear
    <3> QED
      BY <3>1, <3>2
  <2>7. \A i \in 1..Len(log') : log'[i].kind \notin {"invalid", "stray"}
    BY <1>0, <2>1, <2>3
  <2> QED
    BY <1>0, <2>2, <2>4, <2>5, <2>6, <2>7 DEF NothingLostInv
<1>3. CASE PrefetchStart
  <2> DEFINE e == [cutoff |-> SafeCutoff(log, live),
                   evict  |-> Evicted(log, live),
                   covers |-> SummaryOf(covers, Evicted(log, live)),
                   status |-> "scheduled"]
  <2>1. registry' = {e} /\ phase' = "model" /\ UNCHANGED <<log, live, covers, pending, removed>>
    BY <1>3 DEF PrefetchStart
  <2>2. e.cutoff \in 1..Cardinality(live)
    BY <1>3, LiveFinite DEF PrefetchStart, WantsPrefetch
  <2>3. Front(live, e.cutoff) \subseteq e.covers /\ covers \subseteq e.covers
    BY EvictedClosed DEF SummaryOf
  <2> HIDE DEF e
  <2>4. SummaryStaysValid' /\ NoMessageLost'
    BY <1>0, <2>1, <2>2, <2>3 DEF SummaryStaysValid, NoMessageLost
  <2> QED
    BY <1>0, <2>1, <2>4 DEF NothingLostInv, Remembers
<1>4. CASE PrefetchApply \/ CompressFast
  <2>1. PICK e \in registry : live' = live \ e.evict /\ covers' = e.covers
    BY <1>4 DEF PrefetchApply, CompressFast
  <2>2. registry' = {} /\ phase' = "model" /\ UNCHANGED <<log, pending, removed>>
    BY <1>4 DEF PrefetchApply, CompressFast
  <2>3. e.evict \subseteq e.covers /\ covers \subseteq e.covers /\ e.covers \subseteq 1..Len(log)
    BY DEF CoveredInv, NothingLostInv, SummaryStaysValid, TypeOK
  <2>4. live' \cup covers' = 1..Len(log)
    BY <1>0, <2>1, <2>3
  <2>5. M!Condense
    BY <1>0, <2>1, <2>2, <2>3 DEF M!Condense
  <2> QED
    BY <1>0, <2>2, <2>4, <2>5
    DEF NothingLostInv, NoMessageLost, SummaryStaysValid, Remembers, M!MemoryNext
<1>5. CASE BackgroundTask
  <2>1. UNCHANGED <<log, live, covers, phase, plan, pending, removed>>
    BY <1>5 DEF BackgroundTask, BackgroundBegin, BackgroundDone, BackgroundFail, Background
  <2>2. PICK e \in registry, status \in {"calling", "done", "failed"} :
          registry' = {[e EXCEPT !.status = status]}
    BY <1>5 DEF BackgroundTask, BackgroundBegin, BackgroundDone, BackgroundFail, Background
  <2>3. \A f \in registry' : f.covers = e.covers /\ f.cutoff = e.cutoff
    BY <2>2 DEF TypeOK, Entry
  <2>4. SummaryStaysValid' /\ NoMessageLost'
    BY <2>1, <2>3 DEF NothingLostInv, SummaryStaysValid, NoMessageLost
  <2>5. phase # "summarise"
    BY DEF NothingLostInv
  <2> QED
    BY <1>0, <2>1, <2>4, <2>5 DEF NothingLostInv, Remembers
<1>6. CASE CompressFull
  <2>1. /\ registry' = {} /\ UNCHANGED <<log, live, covers, pending, removed>>
        /\ plan'.evict = Evicted(log, live)
        /\ plan'.covers = covers \cup Evicted(log, live)
    BY <1>6 DEF CompressFull, SummaryOf
  <2>2. NoMessageLost' /\ SummaryStaysValid'
    BY <2>1 DEF NothingLostInv, NoMessageLost, SummaryStaysValid
  <2> QED
    BY <1>0, <2>1, <2>2 DEF NothingLostInv, Remembers
<1>7. CASE CompressDelta
  <2> DEFINE cut == SafeCutoff(log, live)
  <2>1. PICK e \in registry :
          plan' = [path   |-> "delta",
                   evict  |-> Front(live, cut),
                   covers |-> SummaryOf(e.covers, Slice(e.cutoff, cut))]
    BY <1>7 DEF CompressDelta
  <2>2. registry' = {} /\ UNCHANGED <<log, live, covers, pending, removed>>
    BY <1>7 DEF CompressDelta
  <2>3. Front(live, e.cutoff) \subseteq e.covers /\ covers \subseteq e.covers
    BY DEF NothingLostInv, SummaryStaysValid
  <2>4. Front(live, cut) \subseteq plan'.covers /\ covers \subseteq plan'.covers
        /\ plan'.evict = Front(live, cut)
    BY <2>1, <2>3 DEF SummaryOf, Slice
  <2>5. NoMessageLost' /\ SummaryStaysValid'
    BY <2>2 DEF NothingLostInv, NoMessageLost, SummaryStaysValid
  <2> QED
    BY <1>0, <2>2, <2>4, <2>5 DEF NothingLostInv, Remembers
<1>8. CASE Summarised
  <2>1. /\ live' = live \ plan.evict /\ covers' = plan.covers /\ phase' = "model"
        /\ UNCHANGED <<log, registry, pending, removed>>
    BY <1>8 DEF Summarised
  <2>2. /\ registry = {} /\ covers \subseteq plan.covers /\ plan.evict \subseteq plan.covers
        /\ plan.covers \subseteq 1..Len(log)
    BY <1>8 DEF Summarised, At, NothingLostInv, TypeOK
  <2>3. live' \cup covers' = 1..Len(log)
    BY <1>0, <2>1, <2>2
  <2>4. M!Condense
    BY <1>0, <2>1, <2>2 DEF M!Condense
  <2> QED
    BY <1>0, <2>1, <2>2, <2>3, <2>4
    DEF NothingLostInv, NoMessageLost, SummaryStaysValid, Remembers, M!MemoryNext
<1> QED
  BY <1>1, <1>2, <1>3, <1>4, <1>5, <1>6, <1>7, <1>8, NextCases

LEMMA InvStep ==
  ASSUME ~ MayMisformat
  PROVE  /\ Init => TypeOK /\ PairsInv /\ CoveredInv /\ NothingLostInv /\ M!MemoryInit
         /\ TypeOK /\ PairsInv /\ CoveredInv /\ NothingLostInv /\ [Next]_vars
              => (TypeOK /\ PairsInv /\ CoveredInv /\ NothingLostInv)' /\ Remembers
<1>1. ASSUME TypeOK, PairsInv, CoveredInv, NothingLostInv, [Next]_vars
      PROVE  (TypeOK /\ PairsInv /\ CoveredInv /\ NothingLostInv)' /\ Remembers
  BY <1>1, TypeStep, PairsStep, CoveredNext, NothingLostStep
<1> QED
  BY <1>1, TypeInit, PairsInit, CoveredInit, NothingLostInit

(* No message is dropped silently, on any path of the two nodes. *)
THEOREM NothingLost == ~ MayMisformat => (Spec => []NoMessageLost)
<1> SUFFICES ASSUME ~ MayMisformat
             PROVE  Spec => []NoMessageLost
  OBVIOUS
<1>1. NothingLostInv => NoMessageLost
  BY DEF NothingLostInv
<1> QED
  BY <1>1, InvStep, PTL DEF Spec

(* A registered background summary never goes stale, so that the delta     *)
(* path may trust its cutoff.                                              *)
THEOREM SummaryValid == ~ MayMisformat => (Spec => []SummaryStaysValid)
<1> SUFFICES ASSUME ~ MayMisformat
             PROVE  Spec => []SummaryStaysValid
  OBVIOUS
<1>1. NothingLostInv => SummaryStaysValid
  BY DEF NothingLostInv
<1> QED
  BY <1>1, InvStep, PTL DEF Spec

(* The two nodes and the background task together do what Memory promises. *)
THEOREM Implements == ~ MayMisformat => (Spec => ImplementsMemory)
<1> SUFFICES ASSUME ~ MayMisformat
             PROVE  Spec => ImplementsMemory
  OBVIOUS
<1>1. Remembers => [M!MemoryNext]_(M!memoryVars)
  BY DEF Remembers, M!memoryVars
<1> QED
  BY <1>1, InvStep, PTL DEF Spec, ImplementsMemory, M!MemorySpec

-----------------------------------------------------------------------------
(* WindowKept, for a policy in numbers of messages: how far a cutoff walks  *)
(* back, and what that leaves.                                             *)

LEMMA LeastOf ==
  ASSUME NEW T, T \subseteq Nat, T # {}
  PROVE  \E m \in T : \A k \in T : m <= k
<1> DEFINE Less == {ss \in Nat \X Nat : ss[1] < ss[2]}
<1>1. IsWellFoundedOn(Less, Nat)
  BY NatLessThanWellFounded DEF OpToRel
<1> HIDE DEF Less
<1>2. PICK m \in T : \A k \in T : <<k, m>> \notin Less
  BY <1>1, WFMin
<1>3. \A k \in T : ~ (k < m)
  BY <1>2 DEF Less
<1> QED
  BY <1>3

(* messages[:c] has c messages, when there are that many. *)
LEMMA FrontCount ==
  ASSUME NEW S, IsFiniteSet(S), S \subseteq Nat,
         NEW c \in Nat, c <= Cardinality(S)
  PROVE  IsFiniteSet(Front(S, c)) /\ Cardinality(Front(S, c)) \in Nat
         /\ c <= Cardinality(Front(S, c))
<1> DEFINE F == Front(S, c)
<1>0. F \subseteq S
  BY DEF Front
<1> HIDE DEF F
<1>1. IsFiniteSet(F) /\ Cardinality(F) \in Nat
  BY <1>0, FS_Subset, FS_CardinalityType
<1>2. CASE S \ F = {}
  <2>1. F = S
    BY <1>0, <1>2
  <2> QED
    BY <1>1, <2>1 DEF F
<1>3. CASE S \ F # {}
  <2>1. PICK m \in S \ F : \A k \in S \ F : m <= k
    <3>1. S \ F \subseteq Nat
      OBVIOUS
    <3> QED
      BY <1>3, <3>1, LeastOf
  <2> DEFINE Before == {j \in S : j < m}
  <2>2. Before \subseteq F
    <3> SUFFICES ASSUME NEW j \in S, j < m
                 PROVE  j \in F
      OBVIOUS
    <3>1. j \in Nat /\ m \in Nat
      OBVIOUS
    <3> QED
      BY <2>1, <3>1
  <2>3. c <= Cardinality(Before)
    <3>1. Rank(S, m) \in Nat
      BY RankNat
    <3>2. ~ Rank(S, m) < c
      BY <2>1 DEF F, Front
    <3> QED
      BY <3>1, <3>2 DEF Rank
  <2> HIDE DEF Before
  <2>4. Cardinality(Before) <= Cardinality(F) /\ Cardinality(Before) \in Nat
    BY <1>1, <2>2, FS_Subset, FS_CardinalityType
  <2> QED
    BY <1>1, <2>3, <2>4 DEF F
<1> QED
  BY <1>2, <1>3

(* A position further on has more before it. *)
LEMMA RankGrows ==
  ASSUME NEW S, IsFiniteSet(S), S \subseteq Int, NEW i \in S, NEW j \in S, i < j
  PROVE  Rank(S, i) \in Nat /\ Rank(S, j) \in Nat /\ Rank(S, i) < Rank(S, j)
<1> DEFINE A == {k \in S : k < i}
           B == {k \in S : k < j}
<1>1. A \subseteq B \ {i} /\ i \in B
  <2>1. ASSUME NEW k \in S, k < i
        PROVE  k < j /\ k # i
    <3>1. k \in Int /\ i \in Int /\ j \in Int
      OBVIOUS
    <3> QED
      BY <2>1, <3>1
  <2> QED
    BY <2>1
<1>2. IsFiniteSet(B)
  BY FS_Subset
<1>3. Rank(S, i) = Cardinality(A) /\ Rank(S, j) = Cardinality(B)
  BY DEF Rank
<1> HIDE DEF A, B
<1>4. IsFiniteSet(B \ {i}) /\ Cardinality(B \ {i}) = Cardinality(B) - 1
  BY <1>1, <1>2, FS_RemoveElement
<1>5. Cardinality(A) <= Cardinality(B \ {i}) /\ Cardinality(A) \in Nat
      /\ Cardinality(B) \in Nat
  BY <1>1, <1>2, <1>4, FS_Subset, FS_CardinalityType
<1> QED
  BY <1>3, <1>4, <1>5

(* What is not before i is i and all after it. *)
LEMMA FromCount ==
  ASSUME NEW S, IsFiniteSet(S), S \subseteq Int, NEW i \in S
  PROVE  Cardinality({j \in S : j >= i}) = Cardinality(S) - Rank(S, i)
<1> DEFINE A == {j \in S : j < i}
           B == {j \in S : j >= i}
<1>1. B = S \ A /\ A \subseteq S
  <2>1. ASSUME NEW j \in S
        PROVE  j >= i <=> ~ (j < i)
    <3>1. j \in Int /\ i \in Int
      OBVIOUS
    <3> QED
      BY <3>1
  <2> QED
    BY <2>1
<1>2. Rank(S, i) = Cardinality(A)
  BY DEF Rank
<1> HIDE DEF A, B
<1>3. IsFiniteSet(A) /\ S \cap A = A
  BY <1>1, FS_Subset
<1>4. Cardinality(S \ A) = Cardinality(S) - Cardinality(S \cap A)
  BY FS_Difference
<1> QED
  BY <1>1, <1>2, <1>3, <1>4 DEF B

(* The messages of a list have results of their own calls only, and no      *)
(* call has more than MaxCalls of them.                                    *)
WholeBlocks(msgs, S) ==
  /\ \A t \in S : msgs[t].kind # "stray"
  /\ \A t \in S : msgs[t].kind = "tool" => \E p \in S : Answers(msgs, t, p)
  /\ \A p, t \in S : Answers(msgs, t, p) => t <= p + MaxCalls

(* A safe cutoff walks back over one tool block at most: of the raw cutoff  *)
(* it leaves out no more than MaxCalls messages.                           *)
LEMMA WalkIsShort ==
  ASSUME NEW msgs, NEW S, IsFiniteSet(S), S \subseteq Nat, WholeBlocks(msgs, S),
         NEW raw \in Nat, raw < Cardinality(S)
  PROVE  raw <= Cardinality(BeforeBoundary(msgs, S, raw)) + MaxCalls
<1> DEFINE Past == BeforeBoundary(msgs, S, raw)
<1>0. S \subseteq Int /\ Cardinality(S) \in Nat /\ MaxCalls \in Nat
  BY FS_CardinalityType, CompressionAssumption
<1>1. /\ Past \subseteq S
      /\ \A b \in Past, s \in S : s < b => s \in Past
      /\ \A j, i \in S : j < i /\ ~ IsTool(msgs, i) /\ Rank(S, i) <= raw => j \in Past
  BY DEF BeforeBoundary
<1>2. IsFiniteSet(Past) /\ Cardinality(Past) \in Nat
  BY <1>1, FS_Subset, FS_CardinalityType
<1> HIDE DEF Past
<1>3. SUFFICES ASSUME Cardinality(Past) < raw
               PROVE  raw <= Cardinality(Past) + MaxCalls
  BY <1>0, <1>2 DEF Past
<1>4. PICK x \in S \ Past : \A s \in S \ Past : x <= s
  <2>1. S \ Past # {}
    <3> SUFFICES ASSUME S \ Past = {}
                 PROVE  FALSE
      OBVIOUS
    <3>1. S = Past
      BY <1>1
    <3> QED
      BY <1>0, <1>2, <1>3, <3>1
  <2>2. S \ Past \subseteq Nat
    OBVIOUS
  <2> QED
    BY <2>1, <2>2, LeastOf
<1> DEFINE W == {s \in S : x < s /\ Rank(S, s) <= raw}
<1>5. /\ W \subseteq S
      /\ \A s \in W : x < s /\ Rank(S, s) <= raw /\ IsTool(msgs, s)
  BY <1>1, <1>4
<1>6. \A s \in S : Rank(S, s) <= raw /\ s \notin Past => s = x \/ s \in W
  <2> TAKE s \in S
  <2>1. s \in Nat /\ x \in Nat
    BY <1>4
  <2> QED
    BY <1>4, <2>1
<1>7. IsFiniteSet(W) /\ Cardinality(W) \in Nat
  BY <1>5, FS_Subset, FS_CardinalityType
<1> HIDE DEF W
<1>8. raw <= Cardinality(Past) + Cardinality(W)
  <2> DEFINE F == Front(S, raw + 1)
             Px == Past \cup {x}
  <2>1. raw + 1 <= Cardinality(F) /\ Cardinality(F) \in Nat
    <3>1. raw + 1 \in Nat /\ raw + 1 <= Cardinality(S)
      BY <1>0
    <3> QED
      BY <3>1, FrontCount
  <2>2. F \subseteq Px \cup W
    <3> SUFFICES ASSUME NEW s \in S, Rank(S, s) < raw + 1
                 PROVE  s \in Px \cup W
      BY DEF Front
    <3>1. Rank(S, s) \in Nat
      BY RankNat
    <3>2. Rank(S, s) <= raw
      BY <3>1
    <3> QED
      BY <1>6, <3>2
  <2>3. IsFiniteSet(Px) /\ Cardinality(Px) = Cardinality(Past) + 1
    <3>1. x \notin Past
      BY <1>4
    <3> QED
      BY <1>2, <3>1, FS_AddElement
  <2> HIDE DEF F, Px
  <2>4. IsFiniteSet(Px \cup W) /\ Cardinality(Px \cup W) \in Nat
        /\ Cardinality(Px \cup W) = Cardinality(Px) + Cardinality(W) - Cardinality(Px \cap W)
    BY <1>7, <2>3, FS_Union, FS_CardinalityType
  <2>5. Cardinality(Px \cap W) \in Nat
    BY <1>7, <2>3, FS_Subset, FS_CardinalityType
  <2>6. Cardinality(F) <= Cardinality(Px \cup W)
    BY <2>2, <2>4, FS_Subset
  <2> QED
    BY <1>2, <1>7, <2>1, <2>3, <2>4, <2>5, <2>6
<1>9. ASSUME NEW t \in W
      PROVE  \E p \in S : p <= x /\ Answers(msgs, t, p)
  <2>1. t \in S /\ msgs[t].kind = "tool" /\ Rank(S, t) <= raw
    BY <1>5 DEF IsTool, WholeBlocks
  <2>2. PICK p \in S : Answers(msgs, t, p)
    BY <2>1 DEF WholeBlocks
  <2>3. p < t /\ ~ IsTool(msgs, p)
    BY <2>2 DEF Answers, IsTool
  <2>4. p \notin W
    BY <1>5, <2>3
  <2>5. Rank(S, p) <= raw
    <3>1. Rank(S, p) \in Nat /\ Rank(S, t) \in Nat /\ Rank(S, p) < Rank(S, t)
      BY <1>0, <2>1, <2>3, RankGrows
    <3> QED
      BY <2>1, <3>1
  <2>6. p <= x
    <3>1. p \in Nat /\ x \in Nat
      BY <1>4
    <3>2. CASE p \in Past
      <4>1. ~ (x < p)
        BY <1>1, <1>4, <3>2
      <4> QED
        BY <3>1, <4>1
    <3> QED
      BY <1>6, <2>4, <2>5, <3>1, <3>2
  <2> QED
    BY <2>2, <2>6
<1>10. Cardinality(W) <= MaxCalls
  <2>1. CASE W = {}
    BY <1>0, <2>1, FS_EmptySet
  <2>2. CASE W # {}
    <3>1. PICK t \in W : TRUE
      BY <2>2
    <3>2. PICK p \in S : p <= x /\ Answers(msgs, t, p)
      BY <1>9
    <3>3. W \subseteq (p + 1)..(p + MaxCalls)
      <4> SUFFICES ASSUME NEW u \in W
                   PROVE  u \in (p + 1)..(p + MaxCalls)
        OBVIOUS
      <4>1. PICK q \in S : q <= x /\ Answers(msgs, u, q)
        BY <1>9
      <4>2. /\ p \in Nat /\ q \in Nat /\ x \in Nat /\ t \in Nat /\ u \in Nat
            /\ x < t /\ x < u
            /\ msgs[p].kind = "call" /\ msgs[q].kind = "call"
        BY <1>4, <1>5, <3>2, <4>1 DEF Answers
      <4>3. CASE p < q
        <5>1. q \in (p + 1)..(t - 1)
          BY <4>1, <4>2, <4>3
        <5> QED
          BY <3>2, <4>2, <5>1 DEF Answers
      <4>4. CASE q < p
        <5>1. p \in (q + 1)..(u - 1)
          BY <3>2, <4>2, <4>4
        <5> QED
          BY <4>1, <4>2, <5>1 DEF Answers
      <4>5. CASE q = p
        <5>1. u \in S /\ u <= p + MaxCalls
          BY <1>5, <4>1, <4>5 DEF WholeBlocks
        <5> QED
          BY <1>0, <3>2, <4>2, <5>1
      <4> QED
        BY <4>2, <4>3, <4>4, <4>5
    <3>4. IsFiniteSet((p + 1)..(p + MaxCalls)) /\ Cardinality((p + 1)..(p + MaxCalls)) = MaxCalls
      <4> DEFINE a == p + 1
                 b == p + MaxCalls
      <4>1. a \in Int /\ b \in Int /\ ~ (a > b) /\ b - a + 1 = MaxCalls
        BY <1>0, CompressionAssumption
      <4> HIDE DEF a, b
      <4>2. IsFiniteSet(a..b) /\ Cardinality(a..b) = b - a + 1
        BY <4>1, FS_Interval
      <4> QED
        BY <4>1, <4>2 DEF a, b
    <3> DEFINE block == (p + 1)..(p + MaxCalls)
    <3>5. W \subseteq block /\ IsFiniteSet(block) /\ Cardinality(block) = MaxCalls
      BY <3>3, <3>4
    <3> HIDE DEF block
    <3>6. Cardinality(W) <= Cardinality(block)
      BY <3>5, FS_Subset
    <3> QED
      BY <3>5, <3>6
  <2> QED
    BY <2>1, <2>2
<1> QED
  BY <1>0, <1>2, <1>7, <1>8, <1>10

(* With more messages than the window and a block, a cut leaves at most     *)
(* that many, and evicts nothing of the window.                            *)
LEMMA CutKeepsWindow ==
  ASSUME NEW msgs, NEW S, IsFiniteSet(S), S \subseteq Nat, WholeBlocks(msgs, S),
         KeepMessages # NoLimit, Cardinality(S) > KeepMessages + MaxCalls
  PROVE  LET front == Front(S, SafeCutoff(msgs, S))
         IN  /\ Evicted(msgs, S) = front
             /\ \A i \in front : BeyondWindow(S, i)
             /\ Cardinality(S \ front) <= KeepMessages + MaxCalls
<1> DEFINE raw == RawCutoff(msgs, S)
           Past == BeforeBoundary(msgs, S, raw)
           front == Front(S, SafeCutoff(msgs, S))
<1>0. /\ KeepMessages \in Nat /\ MaxCalls \in Nat \ {0} /\ Cardinality(S) \in Nat
      /\ S \subseteq Int
  BY PolicyAssumption, CompressionAssumption, FS_CardinalityType
<1>1. raw = Cardinality(S) - KeepMessages /\ raw \in Nat /\ raw > MaxCalls
  BY <1>0 DEF RawCutoff, AtLeast0
<1>2. /\ Past \subseteq S
      /\ Front(S, Cardinality(Past)) = Past
      /\ \A p \in Past, t \in S : Answers(msgs, t, p) => t \in Past
  BY <1>0, BoundaryClosed
<1>3. \A i \in Past : \E j \in S : i < j /\ Rank(S, j) <= raw
  BY DEF BeforeBoundary
<1>4. raw < Cardinality(S) => raw <= Cardinality(Past) + MaxCalls
  BY <1>1, WalkIsShort
<1>5. SafeCutoff(msgs, S) = IF raw <= 0 THEN 0
                           ELSE IF raw >= Cardinality(S) THEN Cardinality(S)
                           ELSE IF Cardinality(Past) < 1 THEN 1 ELSE Cardinality(Past)
  BY DEF SafeCutoff
<1> HIDE DEF raw, Past
<1>6. IsFiniteSet(Past) /\ Cardinality(Past) \in Nat
  BY <1>2, FS_Subset, FS_CardinalityType
<1>7. CASE KeepMessages = 0
  <2>1. SafeCutoff(msgs, S) = Cardinality(S)
    BY <1>0, <1>1, <1>5, <1>7
  <2>2. front = S
    <3>1. Front(S, Cardinality(S)) = S
      BY <1>0, FrontOfPrefix
    <3> QED
      BY <2>1, <3>1
  <2>3. Evicted(msgs, S) = front
    BY <2>2 DEF Evicted, KeptOrphans
  <2>4. ASSUME NEW i \in S
        PROVE  BeyondWindow(S, i)
    <3> DEFINE From == {j \in S : j >= i}
    <3>1. i \in From
      <4>1. i \in Nat
        OBVIOUS
      <4> QED
        BY <4>1
    <3>2. IsFiniteSet(From)
      BY FS_Subset
    <3> HIDE DEF From
    <3>3. Cardinality(From) \in Nat /\ Cardinality(From) # 0
      BY <3>1, <3>2, FS_CardinalityType, FS_EmptySet
    <3> QED
      BY <1>7, <3>3 DEF BeyondWindow, From
  <2>5. S \ front = {} /\ Cardinality({}) = 0
    BY <2>2, FS_EmptySet
  <2> HIDE DEF front
  <2>6. Cardinality(S \ front) <= KeepMessages + MaxCalls
    BY <1>0, <2>5
  <2> QED
    BY <2>2, <2>3, <2>4, <2>6 DEF front
<1>8. CASE KeepMessages # 0
  <2>1. raw < Cardinality(S)
    BY <1>0, <1>1, <1>8
  <2>2. SafeCutoff(msgs, S) = Cardinality(Past)
    BY <1>0, <1>1, <1>4, <1>5, <1>6, <2>1
  <2>3. front = Past
    BY <1>2, <2>2
  <2>4. Evicted(msgs, S) = front
    <3>1. KeptOrphans(msgs, S, Past) = {}
      BY <1>2 DEF KeptOrphans
    <3> HIDE DEF front
    <3>2. KeptOrphans(msgs, S, front) = {}
      BY <2>3, <3>1
    <3> QED
      BY <3>2 DEF Evicted, front
  <2>5. ASSUME NEW i \in Past
        PROVE  BeyondWindow(S, i)
    <3>1. PICK j \in S : i < j /\ Rank(S, j) <= raw
      BY <1>3
    <3>2. i \in S
      BY <1>2
    <3>3. Rank(S, i) \in Nat /\ Rank(S, j) \in Nat /\ Rank(S, i) < Rank(S, j)
      BY <1>0, <3>1, <3>2, RankGrows
    <3>4. Cardinality({k \in S : k >= i}) = Cardinality(S) - Rank(S, i)
      BY <1>0, <3>2, FromCount
    <3> QED
      BY <1>0, <1>1, <3>1, <3>3, <3>4 DEF BeyondWindow
  <2>6. Cardinality(S \ Past) = Cardinality(S) - Cardinality(Past)
    <3>1. S \cap Past = Past
      BY <1>2
    <3> QED
      BY <3>1, FS_Difference
  <2>7. Cardinality(S \ front) <= KeepMessages + MaxCalls
    <3>1. raw <= Cardinality(Past) + MaxCalls
      BY <1>4, <2>1
    <3>2. Cardinality(S \ Past) <= KeepMessages + MaxCalls
      BY <1>0, <1>1, <1>6, <2>6, <3>1
    <3> QED
      BY <2>3, <3>2
  <2> HIDE DEF front
  <2> QED
    BY <2>3, <2>4, <2>5, <2>7 DEF front
<1> QED
  BY <1>7, <1>8

(* What triggers a compression or a prefetch leaves room for a block. *)
LEMMA RoomForBlock ==
  ASSUME WindowPolicy, TypeOK, MustCompress(log, live) \/ ShouldPrefetch(log, live)
  PROVE  Cardinality(live) > KeepMessages + MaxCalls
<1> DEFINE limits == {TriggerMessages, Headroom(PrefetchMessages, TriggerMessages)}
<1>1. PICK limit \in limits : Over(limit, Cardinality(live))
  BY DEF WindowPolicy, MustCompress, ShouldPrefetch, Headroom, Over
<1>2. limit # NoLimit /\ limit >= KeepMessages + MaxCalls
  BY <1>1 DEF WindowPolicy, Over
<1>3. KeepMessages \in Nat /\ MaxCalls \in Nat /\ Cardinality(live) \in Nat
  BY PolicyAssumption, CompressionAssumption, LiveFinite DEF WindowPolicy
<1>4. limit \in Int
  BY <1>2, PolicyAssumption DEF Headroom
<1> QED
  BY <1>1, <1>2, <1>3, <1>4 DEF Over

(* Without malformed tool calls, and with short blocks, a thread's state is *)
(* made of whole blocks.                                                   *)
LEMMA LiveBlocks ==
  ASSUME TypeOK, PairsInv, NothingLostInv, WindowInv
  PROVE  WholeBlocks(log, live) /\ IsFiniteSet(live) /\ live \subseteq Nat
<1>1. live \subseteq 1..Len(log) /\ Len(log) \in Nat
  BY DEF TypeOK
<1>2. WholeBlocks(log, live)
  BY <1>1 DEF WholeBlocks, PairsInv, ToolPairsWhole, NothingLostInv, WindowInv
<1>3. live \subseteq Nat
  <2>1. 1..Len(log) \subseteq Nat
    BY <1>1
  <2> QED
    BY <1>1, <2>1
<1> QED
  BY <1>2, <1>3, LiveFinite

(* What a new plan evicts is the front, and beyond the window. *)
LEMMA PlanKeepsWindow ==
  ASSUME WindowPolicy, TypeOK, PairsInv, NothingLostInv, WindowInv,
         MustCompress(log, live) \/ ShouldPrefetch(log, live)
  PROVE  LET front == Front(live, SafeCutoff(log, live))
         IN  /\ Evicted(log, live) = front
             /\ \A i \in front : BeyondWindow(live, i)
             /\ Cardinality(live \ front) <= KeepMessages + MaxCalls
<1>1. WholeBlocks(log, live) /\ IsFiniteSet(live) /\ live \subseteq Nat
  BY LiveBlocks
<1>2. KeepMessages # NoLimit /\ Cardinality(live) > KeepMessages + MaxCalls
  BY RoomForBlock DEF WindowPolicy
<1> QED
  BY <1>1, <1>2, CutKeepsWindow

(* Messages that come after it leave a message beyond the window. *)
LEMMA BeyondGrows ==
  ASSUME NEW S, IsFiniteSet(S), NEW T, T \subseteq S, NEW i, BeyondWindow(T, i),
         KeepMessages \in Nat
  PROVE  BeyondWindow(S, i)
<1> DEFINE A == {j \in T : j >= i}
           B == {j \in S : j >= i}
<1>1. A \subseteq B /\ B \subseteq S
  OBVIOUS
<1>2. Cardinality(A) > KeepMessages
  BY DEF BeyondWindow
<1> HIDE DEF A, B
<1>3. IsFiniteSet(B)
  BY <1>1, FS_Subset
<1>4. Cardinality(A) <= Cardinality(B) /\ Cardinality(A) \in Nat /\ Cardinality(B) \in Nat
  BY <1>1, <1>3, FS_Subset, FS_CardinalityType
<1>5. Cardinality(B) > KeepMessages
  BY <1>2, <1>4
<1> QED
  BY <1>5 DEF BeyondWindow, B

LEMMA WindowInit == Init => WindowInv
<1> SUFFICES ASSUME Init
             PROVE  WindowInv
  OBVIOUS
<1>1. 1..Len(log) = {} /\ registry = {} /\ phase = "end"
  BY DEF Init
<1> QED
  BY <1>1 DEF WindowInv

LEMMA WindowStep ==
  ASSUME WindowPolicy, TypeOK, TypeOK', PairsInv, NothingLostInv, WindowInv, [Next]_vars
  PROVE  WindowInv' /\ [RecentWindow /\ Bounded]_vars
<1> DEFINE Short == \A p, t \in 1..Len(log) : Answers(log, t, p) => t <= p + MaxCalls
           Entries == \A e \in registry : /\ Front(live, e.cutoff) \subseteq e.evict
                                          /\ \A i \in e.evict \cap live : BeyondWindow(live, i)
           Plans == phase = "summarise" =>
                         /\ \A i \in plan.evict \cap live : BeyondWindow(live, i)
                         /\ Cardinality(live \ plan.evict) <= KeepMessages + MaxCalls
           Awaited == phase = "await" => MustCompress(log, live)
<1>0. /\ Short /\ Entries /\ Plans /\ Awaited
      /\ Len(log) \in Nat /\ live \subseteq 1..Len(log) /\ IsFiniteSet(live)
      /\ KeepMessages \in Nat /\ MaxCalls \in Nat
      /\ pending = {}
  BY LiveFinite, PolicyAssumption, CompressionAssumption
  DEF WindowInv, TypeOK, WindowPolicy, NothingLostInv
<1>kept. ASSUME UNCHANGED live
         PROVE  RecentWindow /\ Bounded
  BY <1>kept DEF RecentWindow, Bounded
<1>inv. ASSUME Short', Entries', Plans', Awaited'
        PROVE  WindowInv'
  BY <1>inv DEF WindowInv
<1>front. ASSUME MustCompress(log, live) \/ ShouldPrefetch(log, live)
          PROVE  LET front == Front(live, SafeCutoff(log, live))
                 IN  /\ Evicted(log, live) = front
                     /\ \A i \in front : BeyondWindow(live, i)
                     /\ Cardinality(live \ front) <= KeepMessages + MaxCalls
  BY <1>front, PlanKeepsWindow
<1>1. CASE Quiet
  <2>1. UNCHANGED <<log, live>> /\ registry' \subseteq registry
    BY <1>1 DEF Quiet
  <2>2. Short' /\ Entries'
    BY <1>0, <2>1
  <2>3. Plans'
    <3>1. phase' = "summarise" => phase = "summarise" /\ plan' = plan
      BY <1>1, NoPlanType DEF Quiet, TypeOK
    <3> QED
      BY <1>0, <2>1, <3>1
  <2>4. Awaited'
    BY <1>0, <1>1, <2>1 DEF Quiet, CompressAwait, Planned
  <2> HIDE DEF Short, Entries, Plans, Awaited
  <2> QED
    BY <1>kept, <1>inv, <2>1, <2>2, <2>3, <2>4
<1>2. ASSUME NEW k \in Kind, NEW n \in Nat, Appends(k, n)
      PROVE  WindowInv' /\ RecentWindow /\ Bounded
  <2>1. /\ Len(log') = Len(log) + n
        /\ live' = live \cup (Len(log) + 1)..Len(log')
        /\ 1..Len(log') = 1..Len(log) \cup (Len(log) + 1)..Len(log')
    BY <1>0, <1>2, AppendFacts
  <2>2. /\ UNCHANGED registry
        /\ phase \notin {"await", "summarise"} /\ phase' \notin {"await", "summarise"}
        /\ k = "tool" => n <= MaxCalls
    BY <1>2 DEF Appends
  <2>3. Short'
    <3> SUFFICES ASSUME NEW p \in 1..Len(log'), NEW t \in 1..Len(log'), Answers(log', t, p)
                 PROVE  t <= p + MaxCalls
      OBVIOUS
    <3>1. CASE t \in 1..Len(log)
      <4>1. Answers(log, t, p) /\ p \in 1..Len(log)
        <5>1. Answers(log, t, p)
          BY <1>2, <3>1, AnswersAfter
        <5> QED
          BY <1>0, <2>1, <3>1, <5>1 DEF Answers
      <4> QED
        BY <1>0, <3>1, <4>1
    <3>2. CASE t \notin 1..Len(log)
      <4>1. k = "tool" /\ p = Len(log)
        BY <1>2, <3>2, AnswersAfter
      <4> QED
        BY <1>0, <2>1, <2>2, <4>1
    <3> QED
      BY <3>1, <3>2
  <2>4. Entries'
    <3> SUFFICES ASSUME NEW e \in registry
                 PROVE  /\ Front(live', e.cutoff) \subseteq e.evict
                        /\ \A i \in e.evict \cap live' : BeyondWindow(live', i)
      BY <2>2
    <3>1. e.cutoff \in 1..Cardinality(live) /\ e.evict \subseteq 1..Len(log)
      BY DEF NothingLostInv, SummaryStaysValid, TypeOK
    <3>2. Front(live', e.cutoff) \subseteq e.evict
      <4>1. Front(live', e.cutoff) = Front(live, e.cutoff)
        BY <1>0, <1>2, <3>1, ValidAfterAppend
      <4> QED
        BY <1>0, <4>1
    <3>3. ASSUME NEW i \in e.evict \cap live'
          PROVE  BeyondWindow(live', i)
      <4>1. i \in live
        BY <1>0, <2>1, <3>1
      <4>2. BeyondWindow(live, i)
        BY <1>0, <4>1
      <4>3. IsFiniteSet(live') /\ live \subseteq live'
        <5>1. IsFiniteSet((Len(log) + 1)..Len(log'))
          <6>1. Len(log) + 1 \in Int /\ Len(log') \in Int
            BY <1>0, <2>1
          <6> QED
            BY <6>1, FS_Interval
        <5> QED
          BY <1>0, <2>1, <5>1, FS_Union
      <4> QED
        BY <1>0, <4>2, <4>3, BeyondGrows
    <3> QED
      BY <3>2, <3>3
  <2>5. Plans' /\ Awaited'
    BY <2>2
  <2>6. RecentWindow /\ Bounded
    BY <2>1, <2>2 DEF RecentWindow, Bounded
  <2> HIDE DEF Short, Entries, Plans, Awaited
  <2> QED
    BY <1>inv, <2>3, <2>4, <2>5, <2>6
<1>3. CASE PrefetchStart
  <2>1. /\ UNCHANGED <<log, live>> /\ phase' = "model"
        /\ ShouldPrefetch(log, live)
        /\ \A e \in registry' : /\ e.cutoff = SafeCutoff(log, live)
                                /\ e.evict = Evicted(log, live)
    BY <1>3 DEF PrefetchStart, WantsPrefetch
  <2>2. Entries'
    BY <1>front, <2>1
  <2>3. Short' /\ Plans' /\ Awaited'
    BY <1>0, <2>1
  <2> HIDE DEF Short, Entries, Plans, Awaited
  <2> QED
    BY <1>kept, <1>inv, <2>1, <2>2, <2>3
<1>4. CASE BackgroundTask
  <2>1. UNCHANGED <<log, live, phase, plan>>
    BY <1>4 DEF BackgroundTask, BackgroundBegin, BackgroundDone, BackgroundFail, Background
  <2>2. PICK e \in registry, status \in {"calling", "done", "failed"} :
          registry' = {[e EXCEPT !.status = status]}
    BY <1>4 DEF BackgroundTask, BackgroundBegin, BackgroundDone, BackgroundFail, Background
  <2>3. \A f \in registry' : f.evict = e.evict /\ f.cutoff = e.cutoff
    BY <2>2 DEF TypeOK, Entry
  <2>4. Short' /\ Entries' /\ Plans' /\ Awaited'
    BY <1>0, <2>1, <2>3
  <2> HIDE DEF Short, Entries, Plans, Awaited
  <2> QED
    BY <1>kept, <1>inv, <2>1, <2>4
<1>5. CASE CompressFull
  <2>1. /\ UNCHANGED <<log, live>> /\ registry' = {} /\ phase' = "summarise"
        /\ plan'.evict = Evicted(log, live)
        /\ MustCompress(log, live)
    BY <1>5 DEF CompressFull, Planned
  <2>2. Plans'
    BY <1>front, <2>1
  <2>3. Short' /\ Entries' /\ Awaited'
    BY <1>0, <2>1
  <2> HIDE DEF Short, Entries, Plans, Awaited
  <2> QED
    BY <1>kept, <1>inv, <2>1, <2>2, <2>3
<1>6. CASE CompressDelta
  <2>1. /\ UNCHANGED <<log, live>> /\ registry' = {} /\ phase' = "summarise"
        /\ plan'.evict = Front(live, SafeCutoff(log, live))
        /\ MustCompress(log, live)
    BY <1>0, <1>6 DEF CompressDelta, At
  <2>2. Plans'
    BY <1>front, <2>1
  <2>3. Short' /\ Entries' /\ Awaited'
    BY <1>0, <2>1
  <2> HIDE DEF Short, Entries, Plans, Awaited
  <2> QED
    BY <1>kept, <1>inv, <2>1, <2>2, <2>3
<1>7. CASE PrefetchApply \/ CompressFast
  <2>1. PICK e \in registry :
          /\ live' = live \ e.evict
          /\ CompressFast => e.cutoff = SafeCutoff(log, live)
    BY <1>7 DEF PrefetchApply, CompressFast, Matches
  <2>2. registry' = {} /\ phase' = "model" /\ UNCHANGED log
    BY <1>7 DEF PrefetchApply, CompressFast
  <2>3. RecentWindow
    BY <1>0, <2>1 DEF RecentWindow, BeyondWindow
  <2>4. Bounded
    <3>1. CASE CompressFast
      <4> DEFINE front == Front(live, SafeCutoff(log, live))
      <4>1. MustCompress(log, live)
        BY <1>0, <3>1 DEF CompressFast, At
      <4>2. Cardinality(live \ front) <= KeepMessages + MaxCalls
        BY <1>front, <4>1
      <4>3. front \subseteq e.evict
        BY <1>0, <2>1, <3>1
      <4> HIDE DEF front
      <4>4. live' \subseteq live \ front /\ IsFiniteSet(live \ front)
        BY <1>0, <2>1, <4>3, FS_Difference
      <4>5. /\ Cardinality(live') <= Cardinality(live \ front)
            /\ Cardinality(live') \in Nat /\ Cardinality(live \ front) \in Nat
        BY <4>4, FS_Subset, FS_CardinalityType
      <4> QED
        BY <1>0, <4>2, <4>5 DEF Bounded
    <3>2. CASE PrefetchApply
      BY <3>2 DEF PrefetchApply, At, Bounded
    <3> QED
      BY <1>7, <3>1, <3>2
  <2>5. Short' /\ Entries' /\ Plans' /\ Awaited'
    BY <1>0, <2>2
  <2> HIDE DEF Short, Entries, Plans, Awaited
  <2> QED
    BY <1>inv, <2>3, <2>4, <2>5
<1>8. CASE Summarised
  <2>1. /\ live' = live \ plan.evict /\ phase' = "model" /\ phase = "summarise"
        /\ UNCHANGED <<log, registry>>
    BY <1>8 DEF Summarised, At
  <2>2. registry = {}
    BY <2>1 DEF NothingLostInv
  <2>3. RecentWindow /\ Bounded
    BY <1>0, <2>1 DEF RecentWindow, BeyondWindow, Bounded
  <2>4. Short' /\ Entries' /\ Plans' /\ Awaited'
    BY <1>0, <2>1, <2>2
  <2> HIDE DEF Short, Entries, Plans, Awaited
  <2> QED
    BY <1>inv, <2>3, <2>4
<1> QED
  BY <1>1, <1>2, <1>3, <1>4, <1>5, <1>6, <1>7, <1>8, NextCases

(* With a policy in numbers of messages that leaves room for a tool block,  *)
(* no compression on any path evicts a message of the window, and each one *)
(* leaves at most the window and the block it begins in.                   *)
THEOREM WindowIsKept == WindowPolicy => (Spec => WindowKept)
<1> SUFFICES ASSUME WindowPolicy
             PROVE  Spec => WindowKept
  OBVIOUS
<1>0. ~ MayMisformat
  BY DEF WindowPolicy
<1> DEFINE IInv == TypeOK /\ PairsInv /\ CoveredInv /\ NothingLostInv /\ WindowInv
<1>1. Init => IInv
  BY <1>0, InvStep, WindowInit
<1>2. IInv /\ [Next]_vars => IInv' /\ [RecentWindow /\ Bounded]_vars
  BY <1>0, InvStep, WindowStep
<1>3. IInv => TypeOK
  OBVIOUS
<1> HIDE DEF IInv
<1> QED
  BY <1>1, <1>2, <1>3, PTL DEF Spec, WindowKept

-----------------------------------------------------------------------------
(* The loops of find_safe_cutoff.  Each recursive function is shown to be  *)
(* the closed form that CutoffPolicy gives for it: the closed form         *)
(* satisfies its equation, and nothing else does.                          *)

(* Induction over the indices of a list, from either end. *)
LEMMA Upwards ==
  ASSUME NEW n \in Nat, NEW P, \A k \in 0..n : (k > 0 => k - 1 \in P) => k \in P
  PROVE  0..n \subseteq P
<1> DEFINE T == {k \in Nat : k <= n /\ k \notin P}
<1>1. CASE T = {}
  <2>1. \A k \in 0..n : k \in Nat /\ k <= n
    OBVIOUS
  <2> QED
    BY <1>1, <2>1
<1>2. CASE T # {}
  <2>1. PICK m \in T : \A k \in T : m <= k
    BY <1>2, LeastOf
  <2>2. m \in 0..n /\ m \notin P
    OBVIOUS
  <2>3. m > 0 => m - 1 \in P
    <3>1. ASSUME m > 0, m - 1 \notin P PROVE FALSE
      <4>1. m - 1 \in Nat /\ m - 1 <= n /\ ~ m <= m - 1
        BY <2>2, <3>1
      <4>2. m - 1 \in T
        BY <3>1, <4>1
      <4> QED
        BY <2>1, <4>1, <4>2
    <3> QED
      BY <3>1
  <2> QED
    BY <2>2, <2>3
<1> QED
  BY <1>1, <1>2

LEMMA Downwards ==
  ASSUME NEW n \in Nat, NEW P, \A k \in 0..n : (k < n => k + 1 \in P) => k \in P
  PROVE  0..n \subseteq P
<1> DEFINE Q == {m \in 0..n : n - m \in P}
<1>1. ASSUME NEW m \in 0..n, m > 0 => m - 1 \in Q
      PROVE  m \in Q
  <2>1. n - m \in 0..n /\ (n - m < n => m > 0) /\ n - (m - 1) = (n - m) + 1
    OBVIOUS
  <2>2. n - m < n => (n - m) + 1 \in P
    BY <1>1, <2>1
  <2> QED
    BY <2>1, <2>2
<1>2. 0..n \subseteq Q
  <2> HIDE DEF Q
  <2> QED
    BY <1>1, Upwards
<1>3. ASSUME NEW k \in 0..n
      PROVE  k \in P
  <2>1. n - k \in 0..n /\ n - (n - k) = k
    OBVIOUS
  <2> QED
    BY <1>2, <2>1
<1> QED
  BY <1>3

(* Positions and their ranks are in the same order. *)
LEMMA RankOrder ==
  ASSUME NEW S, IsFiniteSet(S), S \subseteq Nat, NEW i \in S, NEW j \in S
  PROVE  /\ Rank(S, i) \in Nat /\ Rank(S, j) \in Nat
         /\ Rank(S, i) < Rank(S, j) <=> i < j
         /\ Rank(S, i) = Rank(S, j) <=> i = j
<1>1. i \in Nat /\ j \in Nat /\ S \subseteq Int
  OBVIOUS
<1>2. Rank(S, i) \in Nat /\ Rank(S, j) \in Nat
  BY RankNat
<1>3. i < j => Rank(S, i) < Rank(S, j)
  BY <1>1, RankGrows
<1>4. j < i => Rank(S, j) < Rank(S, i)
  BY <1>1, RankGrows
<1>5. i < j \/ j < i \/ i = j
  BY <1>1
<1> QED
  BY <1>1, <1>2, <1>3, <1>4, <1>5

(* messages[:c] has exactly c messages. *)
LEMMA FrontExact ==
  ASSUME NEW S, IsFiniteSet(S), S \subseteq Nat, NEW c \in Nat, c <= Cardinality(S)
  PROVE  IsFiniteSet(Front(S, c)) /\ Cardinality(Front(S, c)) = c
<1> DEFINE F == Front(S, c)
           f == [i \in F |-> Rank(S, i)]
<1>1. IsFiniteSet(F) /\ Cardinality(F) \in Nat /\ c <= Cardinality(F)
  BY FrontCount
<1>2. f \in Injection(F, 0..(c - 1))
  <2>1. ASSUME NEW i \in F
        PROVE  i \in S /\ f[i] = Rank(S, i) /\ Rank(S, i) \in 0..(c - 1)
    <3>1. i \in S /\ Rank(S, i) < c
      BY DEF Front
    <3>2. Rank(S, i) \in Nat
      BY RankNat
    <3> QED
      BY <3>1, <3>2
  <2>2. f \in [F -> 0..(c - 1)]
    BY <2>1
  <2>3. ASSUME NEW i \in F, NEW j \in F, f[i] = f[j]
        PROVE  i = j
    <3>1. i \in S /\ j \in S /\ Rank(S, i) = Rank(S, j)
      BY <2>1, <2>3
    <3> QED
      BY <3>1, RankOrder
  <2> HIDE DEF f, F
  <2> QED
    BY <2>2, <2>3, Fun_IsInj
<1>3. IsFiniteSet(0..(c - 1)) /\ Cardinality(0..(c - 1)) = c
  <2>1. c - 1 \in Int /\ (0 > c - 1 => c = 0) /\ (c - 1) - 0 + 1 = c
    OBVIOUS
  <2>2. /\ IsFiniteSet(0..(c - 1))
        /\ Cardinality(0..(c - 1)) = IF 0 > c - 1 THEN 0 ELSE (c - 1) - 0 + 1
    BY <2>1, FS_Interval
  <2> QED
    BY <2>1, <2>2
<1> HIDE DEF f, F
<1>4. Cardinality(F) <= c
  BY <1>2, <1>3, FS_Injection
<1> QED
  BY <1>1, <1>4 DEF F

(* The list holds the positions in their order. *)
InOrder(S, list) ==
  /\ Len(list) = Cardinality(S)
  /\ \A k \in 1..Len(list) : list[k] \in S /\ Rank(S, list[k]) = k - 1
  /\ \A i \in S : Rank(S, i) \in 0..(Len(list) - 1)

LEMMA ListInOrder ==
  ASSUME NEW S, IsFiniteSet(S), S \subseteq Nat
  PROVE  InOrder(S, ListOf(S))
<1> DEFINE n == Cardinality(S)
<1>0. n \in Nat
  BY FS_CardinalityType
<1>1. ASSUME NEW i \in S
      PROVE  Rank(S, i) \in 0..(n - 1)
  <2> DEFINE B == {j \in S : j < i}
  <2>1. B \subseteq S \ {i}
    <3>1. i \in Nat
      OBVIOUS
    <3> QED
      BY <3>1
  <2>2. IsFiniteSet(S \ {i}) /\ Cardinality(S \ {i}) = n - 1
    BY FS_RemoveElement
  <2>3. Cardinality(B) \in Nat /\ Cardinality(B) <= n - 1
    <3> HIDE DEF B
    <3>1. IsFiniteSet(B) /\ Cardinality(B) <= Cardinality(S \ {i})
      BY <2>1, <2>2, FS_Subset
    <3> QED
      BY <2>2, <3>1, FS_CardinalityType
  <2>4. Rank(S, i) = Cardinality(B)
    BY DEF Rank
  <2> HIDE DEF B
  <2> QED
    BY <1>0, <2>3, <2>4
<1>2. ASSUME NEW k \in 1..n
      PROVE  \E i \in S : Rank(S, i) = k - 1
  <2> DEFINE F == Front(S, k)
             E == Front(S, k - 1)
  <2>0. k \in Nat /\ k - 1 \in Nat /\ k <= n /\ k - 1 <= n
    BY <1>0
  <2>1. IsFiniteSet(F) /\ Cardinality(F) = k
    BY <2>0, FrontExact
  <2>2. IsFiniteSet(E) /\ Cardinality(E) = k - 1
    BY <2>0, FrontExact
  <2>3. ~ F \subseteq E
    <3> HIDE DEF E, F
    <3>1. ASSUME F \subseteq E PROVE FALSE
      <4>1. Cardinality(F) <= Cardinality(E)
        BY <2>2, <3>1, FS_Subset
      <4> QED
        BY <2>0, <2>1, <2>2, <4>1
    <3> QED
      BY <3>1
  <2>4. PICK i \in F : i \notin E
    BY <2>3
  <2>5. i \in S /\ Rank(S, i) < k /\ ~ Rank(S, i) < k - 1 /\ Rank(S, i) \in Int
    BY <1>1, <2>4 DEF Front
  <2>6. Rank(S, i) = k - 1
    BY <2>0, <2>5
  <2> QED
    BY <2>5, <2>6
<1> DEFINE list == ListOf(S)
<1>3. list = [k \in 1..n |-> CHOOSE i \in S : Rank(S, i) = k - 1]
  BY DEF ListOf
<1>4. \A k \in 1..n : list[k] \in S /\ Rank(S, list[k]) = k - 1
  BY <1>2, <1>3
<1>5. Len(list) = n
  <2>1. list \in [1..n -> S]
    BY <1>3, <1>4
  <2> HIDE DEF list, n
  <2> QED
    BY <1>0, <2>1
<1> QED
  BY <1>1, <1>4, <1>5 DEF InOrder

-----------------------------------------------------------------------------
(* The messages of the list from an index on, and their tokens. *)
After(S, k) == {j \in S : Rank(S, j) >= k}

LEMMA TokensFinite ==
  ASSUME NEW msgs, NEW A, IsFiniteSet(A)
  PROVE  /\ IsFiniteSet({u \in A \X (1..MaxSize) : u[2] <= msgs[u[1]].size})
         /\ Tokens(msgs, A) \in Nat
<1>1. IsFiniteSet(1..MaxSize)
  BY SizesAssumption, FS_Interval
<1>2. IsFiniteSet(A \X (1..MaxSize))
  BY <1>1, FS_Product
<1> DEFINE U == {u \in A \X (1..MaxSize) : u[2] <= msgs[u[1]].size}
<1>3. U \subseteq A \X (1..MaxSize)
  OBVIOUS
<1>4. Tokens(msgs, A) = Cardinality(U)
  BY DEF Tokens
<1> HIDE DEF U
<1>5. IsFiniteSet(U)
  BY <1>2, <1>3, FS_Subset
<1>6. Cardinality(U) \in Nat
  BY <1>5, FS_CardinalityType
<1> QED
  BY <1>4, <1>5, <1>6 DEF U

LEMMA TokensGrow ==
  ASSUME NEW msgs, NEW A, NEW B, IsFiniteSet(B), A \subseteq B
  PROVE  Tokens(msgs, A) <= Tokens(msgs, B)
<1> DEFINE U == {u \in A \X (1..MaxSize) : u[2] <= msgs[u[1]].size}
           V == {u \in B \X (1..MaxSize) : u[2] <= msgs[u[1]].size}
<1>1. U \subseteq V
  OBVIOUS
<1>2. IsFiniteSet(V)
  BY TokensFinite
<1>3. Tokens(msgs, A) = Cardinality(U) /\ Tokens(msgs, B) = Cardinality(V)
  BY DEF Tokens
<1> HIDE DEF U, V
<1> QED
  BY <1>1, <1>2, <1>3, FS_Subset

(* A message adds its size. *)
LEMMA TokensAdd ==
  ASSUME NEW msgs, NEW A, IsFiniteSet(A), NEW i, i \notin A, msgs[i].size \in 0..MaxSize
  PROVE  Tokens(msgs, A \cup {i}) = Tokens(msgs, A) + msgs[i].size
<1> DEFINE U == {u \in A \X (1..MaxSize) : u[2] <= msgs[u[1]].size}
           V == {u \in (A \cup {i}) \X (1..MaxSize) : u[2] <= msgs[u[1]].size}
           n == msgs[i].size
           N == {i} \X (1..n)
<1>0. n \in Nat /\ MaxSize \in Nat /\ n <= MaxSize
  BY SizesAssumption
<1>1. V = U \cup N
  <2>1. ASSUME NEW u \in V
        PROVE  u \in U \cup N
    <3>1. u \in (A \cup {i}) \X (1..MaxSize) /\ u[2] <= msgs[u[1]].size
      OBVIOUS
    <3>2. CASE u[1] \in A
      BY <3>1, <3>2
    <3>3. CASE u[1] = i
      <4>1. u[2] \in 1..MaxSize /\ u[2] <= n /\ u = <<u[1], u[2]>>
        BY <3>1, <3>3
      <4>2. u[2] \in 1..n
        BY <1>0, <4>1
      <4> QED
        BY <3>3, <4>1, <4>2
    <3> QED
      BY <3>1, <3>2, <3>3
  <2>2. U \subseteq V
    OBVIOUS
  <2>3. ASSUME NEW u \in N
        PROVE  u \in V
    <3>1. u[1] = i /\ u[2] \in 1..n /\ u = <<u[1], u[2]>>
      OBVIOUS
    <3>2. u[2] \in 1..MaxSize /\ u[2] <= n
      BY <1>0, <3>1
    <3> QED
      BY <3>1, <3>2
  <2> QED
    BY <2>1, <2>2, <2>3
<1>2. U \cap N = {}
  <2> SUFFICES ASSUME NEW u \in U, u \in N PROVE FALSE
    OBVIOUS
  <2>1. u[1] \in A /\ u[1] = i
    OBVIOUS
  <2> QED
    BY <2>1
<1>3. IsFiniteSet(N) /\ Cardinality(N) = n
  <2>1. IsFiniteSet({i}) /\ Cardinality({i}) = 1
    BY FS_Singleton
  <2>2. IsFiniteSet(1..n) /\ Cardinality(1..n) = n
    <3>1. 1 \in Int /\ n \in Int /\ (1 > n => n = 0) /\ n - 1 + 1 = n
      BY <1>0
    <3>2. IsFiniteSet(1..n) /\ Cardinality(1..n) = IF 1 > n THEN 0 ELSE n - 1 + 1
      BY <3>1, FS_Interval
    <3> QED
      BY <3>1, <3>2
  <2> HIDE DEF n
  <2> DEFINE one == {i}
             upto == 1..n
  <2>3. IsFiniteSet(one) /\ IsFiniteSet(upto)
    BY <2>1, <2>2
  <2>4. IsFiniteSet(one \X upto) /\ Cardinality(one \X upto) = Cardinality(one) * Cardinality(upto)
    <3> HIDE DEF one, upto
    <3> QED
      BY <2>3, FS_Product
  <2>5. 1 * n = n /\ N = one \X upto
    BY <1>0 DEF n
  <2> HIDE DEF N
  <2> QED
    BY <2>1, <2>2, <2>4, <2>5
<1>4. IsFiniteSet(U) /\ Cardinality(U) \in Nat
  BY TokensFinite, FS_CardinalityType
<1>5. Tokens(msgs, A) = Cardinality(U) /\ Tokens(msgs, A \cup {i}) = Cardinality(V)
  BY DEF Tokens
<1> HIDE DEF U, V, N, n
<1>6. Cardinality(U \cup N) = Cardinality(U) + Cardinality(N) - Cardinality(U \cap N)
  BY <1>3, <1>4, FS_Union
<1>7. Cardinality(U \cap N) = 0
  BY <1>2, FS_EmptySet
<1> QED
  BY <1>0, <1>1, <1>3, <1>4, <1>5, <1>6, <1>7 DEF n

(* What the loop has counted when it has come to k. *)
LEMMA TokensStep ==
  ASSUME NEW msgs, NEW S, IsFiniteSet(S), S \subseteq Nat,
         \A i \in S : msgs[i].size \in 0..MaxSize, NEW list, InOrder(S, list)
  PROVE  /\ Tokens(msgs, After(S, Len(list))) = 0
         /\ \A k \in 0..(Len(list) - 1) :
              Tokens(msgs, After(S, k)) = Tokens(msgs, After(S, k + 1)) + msgs[list[k + 1]].size
<1>0. Len(list) \in Nat
  BY FS_CardinalityType DEF InOrder
<1>1. ASSUME NEW k \in 0..(Len(list) - 1)
      PROVE  Tokens(msgs, After(S, k)) = Tokens(msgs, After(S, k + 1)) + msgs[list[k + 1]].size
  <2> DEFINE i == list[k + 1]
             A == After(S, k + 1)
  <2>1. i \in S /\ Rank(S, i) = k
    <3>1. k + 1 \in 1..Len(list) /\ (k + 1) - 1 = k
      BY <1>0
    <3> QED
      BY <3>1 DEF InOrder
  <2>2. IsFiniteSet(A)
    BY FS_Subset DEF After
  <2>3. i \notin A
    BY <2>1 DEF After
  <2>4. After(S, k) = A \cup {i}
    <3> HIDE DEF i
    <3>1. ASSUME NEW j \in S
          PROVE  Rank(S, j) >= k <=> Rank(S, j) >= k + 1 \/ j = i
      <4>1. Rank(S, j) \in Nat /\ (Rank(S, j) = k <=> j = i)
        BY <2>1, RankOrder
      <4> QED
        BY <4>1
    <3> QED
      BY <2>1, <3>1 DEF After
  <2> HIDE DEF A, i
  <2>5. Tokens(msgs, A \cup {i}) = Tokens(msgs, A) + msgs[i].size
    BY <2>1, <2>2, <2>3, TokensAdd
  <2> QED
    BY <2>4, <2>5 DEF A, i
<1>2. Tokens(msgs, After(S, Len(list))) = 0
  <2>1. \A j \in S : Rank(S, j) \in 0..(Len(list) - 1)
    BY DEF InOrder
  <2>2. After(S, Len(list)) = {}
    <3>1. ASSUME NEW j \in S
          PROVE  ~ Rank(S, j) >= Len(list)
      BY <1>0, <2>1
    <3> QED
      BY <3>1 DEF After
  <2>3. Tokens(msgs, {}) = 0
    <3>1. {u \in {} \X (1..MaxSize) : u[2] <= msgs[u[1]].size} = {}
      OBVIOUS
    <3> QED
      BY <3>1, FS_EmptySet DEF Tokens
  <2> QED
    BY <2>2, <2>3
<1> QED
  BY <1>1, <1>2

-----------------------------------------------------------------------------
(* _raw_cutoff. *)
KeptEquation(h, msgs, list) ==
  h = [k \in 0..Len(list) |->
         IF k = Len(list) THEN 0 ELSE h[k + 1] + msgs[list[k + 1]].size]
KeptOf(msgs, list) == CHOOSE h : KeptEquation(h, msgs, list)

WalkEquation(h, kept, n) ==
  h = [k \in 0..n |->
         IF k = 0 THEN 0 ELSE IF kept[k - 1] > KeepTokens THEN k ELSE h[k - 1]]
WalkOf(kept, n) == CHOOSE h : WalkEquation(h, kept, n)

BackEquation(h, msgs, list, start) ==
  h = [pos \in 0..start |->
         IF pos > 0 /\ IsTool(msgs, list[pos + 1]) THEN h[pos - 1] ELSE pos]
BackOf(msgs, list, start) == CHOOSE h : BackEquation(h, msgs, list, start)

LEMMA LoopsOf ==
  ASSUME NEW msgs, NEW list, NEW start
  PROVE  /\ RawWalk(msgs, list) = WalkOf(KeptOf(msgs, list), Len(list))[Len(list)]
         /\ WalkBack(msgs, list, start) = BackOf(msgs, list, start)[start]
<1>1. RawWalk(msgs, list) = WalkOf(KeptOf(msgs, list), Len(list))[Len(list)]
  BY Zenon DEF RawWalk, WalkOf, KeptOf, KeptEquation, WalkEquation
<1>2. WalkBack(msgs, list, start) = BackOf(msgs, list, start)[start]
  BY Zenon DEF WalkBack, BackOf, BackEquation
<1> QED
  BY <1>1, <1>2

(* A list of the thread. *)
Listed(msgs, S, list) ==
  /\ IsFiniteSet(S) /\ S \subseteq Nat /\ InOrder(S, list)
  /\ \A i \in S : msgs[i].size \in 0..MaxSize

LEMMA KeptIs ==
  ASSUME NEW msgs, NEW S, NEW list, Listed(msgs, S, list), NEW k \in 0..Len(list)
  PROVE  KeptOf(msgs, list)[k] = Tokens(msgs, After(S, k))
<1> DEFINE n == Len(list)
           g == [m \in 0..n |-> Tokens(msgs, After(S, m))]
           h == KeptOf(msgs, list)
<1>0. n \in Nat
  BY FS_CardinalityType DEF InOrder, Listed
<1>1. /\ \A m \in 0..n : g[m] = Tokens(msgs, After(S, m))
      /\ g[n] = 0
      /\ \A m \in 0..(n - 1) : Tokens(msgs, After(S, m))
                                 = Tokens(msgs, After(S, m + 1)) + msgs[list[m + 1]].size
  <2>1. n \in 0..n /\ \A m \in 0..n : g[m] = Tokens(msgs, After(S, m))
    BY <1>0
  <2> HIDE DEF g, h
  <2>2. IsFiniteSet(S) /\ S \subseteq Nat /\ InOrder(S, list)
        /\ \A i \in S : msgs[i].size \in 0..MaxSize
    BY DEF Listed
  <2>3. /\ Tokens(msgs, After(S, Len(list))) = 0
        /\ \A m \in 0..(Len(list) - 1) :
             Tokens(msgs, After(S, m)) = Tokens(msgs, After(S, m + 1)) + msgs[list[m + 1]].size
    BY <2>2, TokensStep
  <2> QED
    BY <2>1, <2>3
<1>2. KeptEquation(g, msgs, list)
  <2> DEFINE e == [m \in 0..n |-> IF m = n THEN 0 ELSE g[m + 1] + msgs[list[m + 1]].size]
  <2>1. ASSUME NEW m \in 0..n
        PROVE  g[m] = e[m]
    <3>1. CASE m = n
      BY <1>1, <3>1
    <3>2. CASE m # n
      <4>1. m \in 0..(n - 1) /\ m + 1 \in 0..n
        BY <1>0, <3>2
      <4>2. g[m + 1] = Tokens(msgs, After(S, m + 1)) /\ g[m] = Tokens(msgs, After(S, m))
        BY <1>1, <4>1
      <4>3. g[m] = g[m + 1] + msgs[list[m + 1]].size
        BY <1>1, <4>1, <4>2
      <4> HIDE DEF g, n
      <4> QED
        BY <3>2, <4>3
    <3> QED
      BY <3>1, <3>2
  <2>2. g = [m \in 0..n |-> g[m]] /\ e = [m \in 0..n |-> e[m]]
    OBVIOUS
  <2>3. g = e
    <3> HIDE DEF g, e, n
    <3> QED
      BY <2>1, <2>2
  <2> HIDE DEF g
  <2> QED
    BY <2>3 DEF KeptEquation
<1>3. KeptEquation(h, msgs, list)
  <2> HIDE DEF g
  <2> QED
    BY <1>2 DEF KeptOf
<1>4. \A m \in 0..n : h[m] = IF m = n THEN 0 ELSE h[m + 1] + msgs[list[m + 1]].size
  <2> HIDE DEF h, g
  <2> QED
    BY <1>3 DEF KeptEquation
<1> DEFINE P == {m \in 0..n : h[m] = g[m]}
<1>5. ASSUME NEW m \in 0..n, m < n => m + 1 \in P
      PROVE  m \in P
  <2>1. CASE m = n
    <3> HIDE DEF h
    <3> QED
      BY <1>1, <1>4, <2>1
  <2>2. CASE m # n
    <3>1. m \in 0..(n - 1) /\ m + 1 \in 0..n /\ m < n
      BY <1>0, <2>2
    <3>2. h[m] = h[m + 1] + msgs[list[m + 1]].size
      <4> HIDE DEF h, n
      <4> QED
        BY <1>4, <2>2
    <3>3. h[m + 1] = Tokens(msgs, After(S, m + 1))
      <4>1. m + 1 \in P
        BY <1>5, <3>1
      <4> QED
        BY <1>1, <3>1, <4>1
    <3>4. h[m] = Tokens(msgs, After(S, m))
      BY <1>1, <3>1, <3>2, <3>3
    <3> QED
      BY <1>1, <3>4
  <2> QED
    BY <2>1, <2>2
<1>6. 0..n \subseteq P
  <2> HIDE DEF P, n
  <2> QED
    BY <1>0, <1>5, Downwards
<1>7. h[k] = g[k]
  BY <1>6
<1> QED
  BY <1>1, <1>7

LEMMA RawWalkIs ==
  ASSUME NEW msgs, NEW S, NEW list, Listed(msgs, S, list), KeepTokens \in Nat
  PROVE  RawWalk(msgs, list)
           = Cardinality({i \in S : Tokens(msgs, {j \in S : j >= i}) > KeepTokens})
<1> DEFINE n == Len(list)
           kept == KeptOf(msgs, list)
           C(m) == {i \in S : Rank(S, i) < m /\ Tokens(msgs, After(S, Rank(S, i))) > KeepTokens}
           g == [m \in 0..n |-> Cardinality(C(m))]
           h == WalkOf(kept, n)
<1>0. n \in Nat /\ n = Cardinality(S)
  BY FS_CardinalityType DEF InOrder, Listed
<1>s. IsFiniteSet(S) /\ S \subseteq Nat
  BY DEF Listed
<1>r. \A i \in S : Rank(S, i) \in 0..(n - 1)
  BY DEF InOrder, Listed
<1>k. \A m \in 0..n : kept[m] = Tokens(msgs, After(S, m)) /\ kept[m] \in Nat
  <2> TAKE m \in 0..n
  <2>1. kept[m] = Tokens(msgs, After(S, m))
    BY KeptIs
  <2>2. IsFiniteSet(After(S, m))
    BY <1>s, FS_Subset DEF After
  <2> QED
    BY <2>1, <2>2, TokensFinite
<1>1. C(0) = {}
  <2>1. ASSUME NEW i \in S
        PROVE  ~ Rank(S, i) < 0
    BY <1>0, <1>r
  <2> QED
    BY <2>1
<1>2. ASSUME NEW m \in 1..n, kept[m - 1] > KeepTokens
      PROVE  Cardinality(C(m)) = m
  <2>0. m \in Nat /\ m <= n /\ m - 1 \in 0..n
    BY <1>0
  <2>1. ASSUME NEW i \in S, Rank(S, i) < m
        PROVE  Tokens(msgs, After(S, Rank(S, i))) > KeepTokens
    <3> DEFINE r == Rank(S, i)
    <3>1. r \in 0..(m - 1) /\ r \in 0..n
      BY <1>0, <1>r, <2>0, <2>1
    <3>2. After(S, m - 1) \subseteq After(S, r) /\ IsFiniteSet(After(S, r))
      <4>1. ASSUME NEW j \in S, Rank(S, j) >= m - 1
            PROVE  Rank(S, j) >= r
        <5>1. Rank(S, j) \in Int
          BY <1>0, <1>r
        <5> HIDE DEF r
        <5> QED
          BY <2>0, <3>1, <4>1, <5>1
      <4>2. IsFiniteSet(After(S, r))
        BY <1>s, FS_Subset DEF After
      <4> HIDE DEF r
      <4> QED
        BY <4>1, <4>2 DEF After
    <3> HIDE DEF r
    <3>3. Tokens(msgs, After(S, m - 1)) <= Tokens(msgs, After(S, r))
      BY <3>2, TokensGrow
    <3>4. /\ kept[m - 1] = Tokens(msgs, After(S, m - 1)) /\ kept[m - 1] \in Nat
          /\ kept[r] = Tokens(msgs, After(S, r)) /\ kept[r] \in Nat
      BY <1>k, <2>0, <3>1
    <3> HIDE DEF kept
    <3>5. Tokens(msgs, After(S, r)) > KeepTokens
      BY <1>2, <3>3, <3>4
    <3> QED
      BY <3>5 DEF r
  <2>2. C(m) = Front(S, m)
    BY <2>1 DEF Front
  <2> HIDE DEF C
  <2> QED
    BY <1>0, <1>s, <2>0, <2>2, FrontExact
<1>3. ASSUME NEW m \in 1..n, ~ kept[m - 1] > KeepTokens
      PROVE  C(m) = C(m - 1)
  <2>0. m \in Nat /\ m - 1 \in 0..n
    BY <1>0
  <2>1. kept[m - 1] = Tokens(msgs, After(S, m - 1))
    BY <1>k, <2>0
  <2>2. ASSUME NEW i \in S, Tokens(msgs, After(S, Rank(S, i))) > KeepTokens
        PROVE  Rank(S, i) < m <=> Rank(S, i) < m - 1
    <3>1. Rank(S, i) # m - 1
      BY <1>3, <2>1, <2>2
    <3>2. Rank(S, i) \in Int
      BY <1>0, <1>r
    <3> QED
      BY <2>0, <3>1, <3>2
  <2> QED
    BY <2>2
<1>4. C(n) = {i \in S : Tokens(msgs, {j \in S : j >= i}) > KeepTokens}
  <2>1. ASSUME NEW i \in S
        PROVE  Rank(S, i) < n /\ After(S, Rank(S, i)) = {j \in S : j >= i}
    <3>1. Rank(S, i) < n
      BY <1>0, <1>r
    <3>2. ASSUME NEW j \in S
          PROVE  Rank(S, j) >= Rank(S, i) <=> j >= i
      <4>1. /\ Rank(S, i) \in Nat /\ Rank(S, j) \in Nat
            /\ Rank(S, j) < Rank(S, i) <=> j < i
        BY <1>s, RankOrder
      <4>2. i \in Nat /\ j \in Nat
        BY <1>s
      <4> QED
        BY <4>1, <4>2
    <3> QED
      BY <3>1, <3>2 DEF After
  <2> QED
    BY <2>1
<1> HIDE DEF C
<1>5. \A m \in 0..n : g[m] = IF m = 0 THEN 0 ELSE IF kept[m - 1] > KeepTokens THEN m ELSE g[m - 1]
  <2> TAKE m \in 0..n
  <2>1. CASE m = 0
    <3>1. Cardinality(C(0)) = 0
      BY <1>1, FS_EmptySet
    <3> QED
      BY <2>1, <3>1
  <2>2. CASE m # 0
    <3>1. m \in 1..n /\ m - 1 \in 0..n
      BY <1>0, <2>2
    <3>2. g[m] = Cardinality(C(m)) /\ g[m - 1] = Cardinality(C(m - 1))
      BY <3>1
    <3> HIDE DEF g, kept
    <3> QED
      BY <1>2, <1>3, <2>2, <3>1, <3>2
  <2> QED
    BY <2>1, <2>2
<1>6. WalkEquation(g, kept, n)
  <2>1. g = [m \in 0..n |-> g[m]]
    OBVIOUS
  <2> HIDE DEF g, kept, n
  <2> QED
    BY <1>5, <2>1 DEF WalkEquation
<1>7. WalkEquation(h, kept, n)
  <2> HIDE DEF g, kept
  <2> QED
    BY <1>6 DEF WalkOf
<1> HIDE DEF h, g, kept, n
<1>8. \A m \in 0..n : h[m] = IF m = 0 THEN 0 ELSE IF kept[m - 1] > KeepTokens THEN m ELSE h[m - 1]
  BY <1>7 DEF WalkEquation
<1> DEFINE P == {m \in 0..n : h[m] = g[m]}
<1>9. ASSUME NEW m \in 0..n, m > 0 => m - 1 \in P
      PROVE  m \in P
  <2>1. CASE m = 0
    BY <1>5, <1>8, <2>1
  <2>2. CASE m # 0
    <3>1. h[m - 1] = g[m - 1]
      BY <1>0, <1>9, <2>2
    <3>2. /\ h[m] = IF kept[m - 1] > KeepTokens THEN m ELSE h[m - 1]
          /\ g[m] = IF kept[m - 1] > KeepTokens THEN m ELSE g[m - 1]
      BY <1>5, <1>8, <2>2
    <3> QED
      BY <3>1, <3>2
  <2> QED
    BY <2>1, <2>2
<1>10. 0..n \subseteq P
  <2> HIDE DEF P
  <2> QED
    BY <1>0, <1>9, Upwards
<1>11. n \in 0..n
  BY <1>0
<1>12. h[n] = g[n] /\ g[n] = Cardinality(C(n))
  BY <1>10, <1>11 DEF g
<1>13. RawWalk(msgs, list) = h[n]
  BY LoopsOf DEF h, kept, n
<1> QED
  BY <1>4, <1>12, <1>13

-----------------------------------------------------------------------------
(* _walk_back_past_tool_messages. *)
LEMMA WalkBackIs ==
  ASSUME NEW msgs, NEW S, NEW list, Listed(msgs, S, list), NEW start \in 0..(Len(list) - 1)
  PROVE  WalkBack(msgs, list, start) = Cardinality(BeforeBoundary(msgs, S, start))
<1> DEFINE B(m) == BeforeBoundary(msgs, S, m)
           g == [m \in 0..start |-> Cardinality(B(m))]
           h == BackOf(msgs, list, start)
<1>0. Len(list) \in Nat /\ Len(list) = Cardinality(S) /\ start \in Nat
  BY FS_CardinalityType DEF InOrder, Listed
<1>s. IsFiniteSet(S) /\ S \subseteq Nat
  BY DEF Listed
<1>l. \A m \in 0..start : list[m + 1] \in S /\ Rank(S, list[m + 1]) = m
  <2> TAKE m \in 0..start
  <2>1. m + 1 \in 1..Len(list) /\ (m + 1) - 1 = m
    BY <1>0
  <2> QED
    BY <2>1 DEF InOrder, Listed
<1>r. \A i, j \in S : /\ Rank(S, i) \in Nat /\ Rank(S, j) \in Nat
                      /\ Rank(S, i) < Rank(S, j) <=> i < j
                      /\ Rank(S, i) = Rank(S, j) <=> i = j
  BY <1>s, RankOrder
<1>1. B(0) = {}
  <2> SUFFICES ASSUME NEW j \in S, NEW i \in S, j < i, Rank(S, i) <= 0
               PROVE  FALSE
    BY DEF BeforeBoundary
  <2>1. Rank(S, i) \in Nat /\ Rank(S, j) \in Nat /\ Rank(S, j) < Rank(S, i)
    BY <1>r
  <2> QED
    BY <2>1
<1>2. ASSUME NEW m \in 1..start, IsTool(msgs, list[m + 1])
      PROVE  B(m) = B(m - 1)
  <2>1. m \in 0..start /\ m - 1 \in Nat
    OBVIOUS
  <2>2. ASSUME NEW i \in S, ~ IsTool(msgs, i)
        PROVE  Rank(S, i) <= m <=> Rank(S, i) <= m - 1
    <3>1. Rank(S, i) # m
      <4>1. i # list[m + 1]
        BY <1>2, <2>2
      <4> QED
        BY <1>l, <1>r, <2>1, <4>1
    <3>2. Rank(S, i) \in Nat
      BY <1>r
    <3> QED
      BY <2>1, <3>1, <3>2
  <2> QED
    BY <2>2 DEF BeforeBoundary
<1>3. ASSUME NEW m \in 0..start, ~ IsTool(msgs, list[m + 1])
      PROVE  Cardinality(B(m)) = m
  <2> DEFINE i == list[m + 1]
  <2>1. i \in S /\ Rank(S, i) = m
    BY <1>l
  <2>2. m \in Nat /\ m <= Cardinality(S)
    BY <1>0
  <2>3. ASSUME NEW j \in S
        PROVE  j \in B(m) <=> Rank(S, j) < m
    <3> HIDE DEF i
    <3>1. ASSUME NEW t \in S, j < t, Rank(S, t) <= m
          PROVE  Rank(S, j) < m
      <4>1. Rank(S, j) \in Nat /\ Rank(S, t) \in Nat /\ Rank(S, j) < Rank(S, t)
        BY <1>r, <3>1
      <4> QED
        BY <2>2, <3>1, <4>1
    <3>2. ASSUME Rank(S, j) < m
          PROVE  j < i /\ ~ IsTool(msgs, i) /\ Rank(S, i) <= m
      <4>1. j < i
        BY <1>r, <2>1, <3>2
      <4> QED
        BY <1>3, <2>1, <2>2, <4>1 DEF i
    <3> QED
      BY <2>1, <3>1, <3>2 DEF BeforeBoundary
  <2>4. B(m) = Front(S, m)
    BY <2>3 DEF BeforeBoundary, Front
  <2> HIDE DEF B
  <2> QED
    BY <1>s, <2>2, <2>4, FrontExact
<1> HIDE DEF B
<1>5. \A m \in 0..start : g[m] = IF m > 0 /\ IsTool(msgs, list[m + 1]) THEN g[m - 1] ELSE m
  <2> TAKE m \in 0..start
  <2>1. g[m] = Cardinality(B(m))
    OBVIOUS
  <2>2. CASE m > 0 /\ IsTool(msgs, list[m + 1])
    <3>1. m \in 1..start /\ m - 1 \in 0..start
      BY <2>2
    <3>2. g[m - 1] = Cardinality(B(m - 1))
      BY <3>1
    <3> HIDE DEF g
    <3> QED
      BY <1>2, <2>1, <2>2, <3>1, <3>2
  <2>3. CASE m > 0 /\ ~ IsTool(msgs, list[m + 1])
    <3> HIDE DEF g
    <3> QED
      BY <1>3, <2>1, <2>3
  <2>4. CASE ~ m > 0
    <3>1. m = 0
      BY <2>4
    <3>2. Cardinality(B(m)) = 0
      BY <1>1, <3>1, FS_EmptySet
    <3> HIDE DEF g
    <3> QED
      BY <2>1, <2>4, <3>1, <3>2
  <2> QED
    BY <2>2, <2>3, <2>4
<1>6. BackEquation(g, msgs, list, start)
  <2>1. g = [m \in 0..start |-> g[m]]
    OBVIOUS
  <2> HIDE DEF g
  <2> QED
    BY <1>5, <2>1 DEF BackEquation
<1>7. BackEquation(h, msgs, list, start)
  <2> HIDE DEF g
  <2> QED
    BY <1>6 DEF BackOf
<1> HIDE DEF h, g
<1>8. \A m \in 0..start : h[m] = IF m > 0 /\ IsTool(msgs, list[m + 1]) THEN h[m - 1] ELSE m
  BY <1>7 DEF BackEquation
<1> DEFINE P == {m \in 0..start : h[m] = g[m]}
<1>9. ASSUME NEW m \in 0..start, m > 0 => m - 1 \in P
      PROVE  m \in P
  <2>1. CASE m > 0 /\ IsTool(msgs, list[m + 1])
    BY <1>5, <1>8, <1>9, <2>1
  <2>2. CASE ~ (m > 0 /\ IsTool(msgs, list[m + 1]))
    BY <1>5, <1>8, <2>2
  <2> QED
    BY <2>1, <2>2
<1>10. 0..start \subseteq P
  <2> HIDE DEF P
  <2> QED
    BY <1>0, <1>9, Upwards
<1>11. start \in 0..start
  BY <1>0
<1>12. h[start] = g[start] /\ g[start] = Cardinality(B(start))
  BY <1>10, <1>11 DEF g
<1>13. WalkBack(msgs, list, start) = h[start]
  BY LoopsOf DEF h
<1> QED
  BY <1>12, <1>13 DEF B

LEMMA WalksAgree == TypeOK => CutoffIsTheWalk
<1> SUFFICES ASSUME TypeOK PROVE SafeCutoff(log, live) = SafeWalk(log, ListOf(live))
  BY DEF CutoffIsTheWalk
<1> DEFINE list == ListOf(live)
<1>1. log \in Seq(Message) /\ live \subseteq 1..Len(log) /\ IsFiniteSet(live)
  BY LiveFinite DEF TypeOK
<1>2. Listed(log, live, list)
  <2>1. live \subseteq Nat
    BY <1>1
  <2>2. \A i \in live : log[i].size \in 0..MaxSize
    <3> TAKE i \in live
    <3>1. log[i] \in Message
      BY <1>1
    <3> QED
      BY <3>1 DEF Message
  <2> QED
    BY <1>1, <2>1, <2>2, ListInOrder DEF Listed
<1>3. Len(list) = Cardinality(live) /\ Len(list) \in Nat
  BY <1>1, <1>2, FS_CardinalityType DEF Listed, InOrder
<1> HIDE DEF list
<1> DEFINE raw == CASE KeepMessages # NoLimit -> AtLeast0(Len(list) - KeepMessages)
                    [] KeepMessages = NoLimit /\ KeepTokens # NoLimit -> RawWalk(log, list)
                    [] OTHER -> AtLeast0(Len(list) - 20)
<1>4. raw = RawCutoff(log, live)
  <2>1. CASE KeepMessages # NoLimit
    BY <1>3, <2>1 DEF RawCutoff
  <2>2. CASE KeepMessages = NoLimit /\ KeepTokens # NoLimit
    <3>1. KeepTokens \in Nat
      BY <2>2, PolicyAssumption
    <3>2. RawWalk(log, list)
            = Cardinality({i \in live : Tokens(log, {j \in live : j >= i}) > KeepTokens})
      BY <1>2, <3>1, RawWalkIs
    <3> QED
      BY <2>2, <3>2 DEF RawCutoff
  <2>3. CASE KeepMessages = NoLimit /\ KeepTokens = NoLimit
    BY <1>3, <2>3 DEF RawCutoff
  <2> QED
    BY <2>1, <2>2, <2>3
<1>5. raw \in 0..Len(list)
  BY <1>1, <1>3, <1>4, RawCutoffRange
<1>6. SafeWalk(log, list) = IF raw <= 0 THEN 0
                            ELSE IF raw >= Len(list) THEN Len(list)
                            ELSE IF WalkBack(log, list, raw) < 1 THEN 1
                            ELSE WalkBack(log, list, raw)
  BY Zenon DEF SafeWalk
<1> HIDE DEF raw
<1>7. raw < Len(list) =>
        WalkBack(log, list, raw) = Cardinality(BeforeBoundary(log, live, raw))
  <2>1. raw < Len(list) => raw \in 0..(Len(list) - 1)
    BY <1>3, <1>5
  <2> QED
    BY <1>2, <2>1, WalkBackIs
<1>8. SafeCutoff(log, live) =
        IF raw <= 0 THEN 0
        ELSE IF raw >= Len(list) THEN Len(list)
        ELSE IF Cardinality(BeforeBoundary(log, live, raw)) < 1 THEN 1
        ELSE Cardinality(BeforeBoundary(log, live, raw))
  BY <1>3, <1>4 DEF SafeCutoff
<1>9. raw \in Nat /\ (~ raw >= Len(list) => raw < Len(list))
  BY <1>3, <1>5
<1>10. CASE raw < Len(list)
  BY <1>6, <1>7, <1>8, <1>10 DEF list
<1>11. CASE raw >= Len(list)
  BY <1>6, <1>8, <1>11 DEF list
<1> QED
  BY <1>9, <1>10, <1>11

(* The cutoff that the model defines by what it is, a property of the set  *)
(* of positions, is the index that the loops of find_safe_cutoff come to,  *)
(* for every policy, on every message list a thread can have.              *)
THEOREM CutoffIsAlwaysTheWalk == Spec => []CutoffIsTheWalk
  BY TypeCorrect, WalksAgree, PTL
=============================================================================
