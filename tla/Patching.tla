------------------------------ MODULE Patching ------------------------------
(***************************************************************************)
(* What a model is sent: PatchToolCallsMiddleware builds each request from *)
(* the thread's messages (middleware/patch_tool_calls.py), and the self-   *)
(* heal loop of the model node repairs a request that has failed           *)
(* (graph.py).  Threads of one agent share the middleware and with it its  *)
(* list of pending removals.                                               *)
(*                                                                         *)
(* The thread keeps what the providers answered; any call may use another  *)
(* provider.  A run ends with an answer, or is stopped, or fails, at any   *)
(* node; it is resumed there, or the next message starts a new run and     *)
(* leaves tool calls without results.  A caller may also submit again the  *)
(* messages its last run returned (subagent_send does).                    *)
(***************************************************************************)
EXTENDS Integers, FiniteSets, Sequences, SequencesExt

CONSTANTS
    Chats,         \* thread ids
    Providers,     \* the models a call may use, see Models
    MaxLastId,     \* bound: messages made
    MaxCalls       \* bound: tool calls made

Models == {"ChatAnthropic", "ChatGoogleGenerativeAI", "ChatOpenAI", "ChatMoonshot"}

ASSUME PatchingAssumption == Providers \subseteq Models /\ {MaxLastId, MaxCalls} \subseteq Nat

VARIABLES
    chat,         \* the messages of a thread's checkpoint
    at,           \* the node of its last run that is next: "model", "tools" or "end"
    running,      \* threads with a run under way
    request,      \* the last request sent for a thread
    waiting,      \* threads whose request is under way
    removals,     \* _pending_removals, as a set of message ids
    returned,     \* the messages the last run that came to its end returned
    lastId,       \* the last message id given
    called,       \* tool calls made so far
    patched       \* ghost: threads whose input before_agent has changed

patchVars == <<chat, at, running, request, waiting, removals, returned, lastId, called, patched>>

\* ---------------------------------------------------------------- messages
\* A tool call id is "clean" if every provider accepts it; id 0: not stored.
Human(id) == [id |-> id, type |-> "human"]
Tool(id, call) == [id |-> id, type |-> "tool", call |-> call]
Ai(id, from, form, parts, extra, calls) ==
    [id |-> id, type |-> "ai", from |-> from, form |-> form, parts |-> parts, extra |-> extra,
     calls |-> calls, bad |-> <<>>]

Calls(m) == IF m.type = "ai" THEN m.calls ELSE <<>>
Declared(ms) == UNION {ToSet(Calls(ms[i])) : i \in DOMAIN ms}
MessageIds(ms) == {ms[i].id : i \in DOMAIN ms}
IsToolAt(ms, i) == i \in DOMAIN ms /\ ms[i].type = "tool"

\* f[i] is what stands in the place of ms[i].
Expand(ms, f) == FlattenSeq([i \in DOMAIN ms |-> f[i]])

\* The messages at the indices in K; results made up for the calls there.
Only(ms, K) == Expand(ms, [i \in DOMAIN ms |-> IF i \in K THEN <<ms[i]>> ELSE <<>>])
Results(calls, K) ==
    Expand(calls, [k \in DOMAIN calls |-> IF k \in K THEN <<Tool(0, calls[k])>> ELSE <<>>])

\* ----------------------------------------------------------------- patching
\* The results that directly follow ms[i].
Block(ms, i) == {j \in (i + 1)..Len(ms) : \A k \in (i + 1)..j : ms[k].type = "tool"}

\* Calls without a result in the block behind their message get one.
DanglingPatched(ms) == Expand(ms, [i \in DOMAIN ms |->
    <<ms[i]>> \o LET calls == Calls(ms[i]) IN
        Results(calls, {k \in DOMAIN calls : \A j \in Block(ms, i) : ms[j].call # calls[k]})])

\* A result of a call no message has declared (its first, if there are several).
IsOrphan(ms, i) ==
    /\ IsToolAt(ms, i) /\ ms[i].call \notin Declared(ms)
    /\ \A j \in 1..(i - 1) : IsToolAt(ms, j) => ms[j].call # ms[i].call

\* Mutant: orphans are left to the provider.
OrphansLeft(ms) == ms

\* Consecutive orphans get one message that declares their calls.
OrphansPatched(ms) == Expand(ms, [i \in DOMAIN ms |->
    IF IsOrphan(ms, i) /\ ~ IsOrphan(ms, i - 1)
    THEN LET batch == {j \in i..Len(ms) : \A k \in i..j : IsOrphan(ms, k)}
             calls == [n \in 1..Cardinality(batch) |-> ms[i + n - 1].call] IN
         <<Ai(0, "none", "string", {}, {}, calls), ms[i]>>
    ELSE <<ms[i]>>])

OrphanIds(ms) == {ms[i].id : i \in {j \in DOMAIN ms : IsToolAt(ms, j) /\ ms[j].call \notin Declared(ms)}}

\* --------------------------------------------------------------- conversion
Thinking == {"signed", "unsigned"}     \* thinking blocks with and without a signature
Gemini == "ChatGoogleGenerativeAI"

\* Anthropic gets unsigned thinking as text; others get text and tool use only.
SafeParts(m, p) ==
    IF m.form = "string" THEN {"text"}
    ELSE IF p = "ChatAnthropic" THEN (m.parts \ {"unsigned"}) \cup (IF "unsigned" \in m.parts THEN {"text"} ELSE {})
    ELSE m.parts \ Thinking

\* One message in the shape provider p expects.
Converted(m, p) ==
    IF m.type # "ai" THEN m
    ELSE IF p = "ChatMoonshot"
    THEN [m EXCEPT !.form = "string", !.parts = @ \cap {"text"}, !.bad = <<>>,
                   !.extra = (@ \ {"tool_calls"}) \cup {"reasoning_content"}]
    ELSE IF p \in {"ChatAnthropic", Gemini} /\ m.from = p /\ m.form = "list" THEN m
    ELSE [m EXCEPT !.form = "list", !.parts = SafeParts(m, p), !.bad = <<>>,
                   !.extra = @ \ ({"reasoning_content", "tool_calls"}
                                  \cup IF {p, m.from} = {Gemini} THEN {} ELSE {"signatures"})]

\* Mutant: the exchange under way keeps its signatures.
AllButLast(ms) == {c \in Declared(ms) : \E i \in DOMAIN ms : c \in ToSet(Calls(ms[i]))
                       /\ \E j \in (i + 1)..Len(ms) : ms[j].type = "ai"}

\* The calls whose exchanges Gemini gets as text: foreign and native ones.
Collapsible(ms) == Declared(ms)

\* Gemini: an exchange becomes a text of the model and one of the user.
Collapsed(ms) ==
    LET ids == Collapsible(ms)
        InBatch(i) == IsToolAt(ms, i) /\ ms[i].call \in ids IN
    Expand(ms, [i \in DOMAIN ms |->
        IF InBatch(i) THEN IF InBatch(i - 1) THEN <<>> ELSE <<Human(0)>>
        ELSE IF Calls(ms[i]) # <<>> /\ ToSet(Calls(ms[i])) \subseteq ids
        THEN <<Ai(ms[i].id, ms[i].from, "string", {"text"}, {}, <<>>)>>
        ELSE <<ms[i]>>])

ForProvider(ms, p) ==
    LET shaped == [i \in DOMAIN ms |-> Converted(ms[i], p)] IN
    IF p = Gemini THEN Collapsed(shaped) ELSE shaped

\* Characters some providers reject are replaced in tool call ids.
Clean(c) == [c EXCEPT !.clean = TRUE]
Sanitized(ms) == [i \in DOMAIN ms |->
    IF ms[i].type = "tool" THEN [ms[i] EXCEPT !.call = Clean(@)]
    ELSE IF \A n \in DOMAIN Calls(ms[i]) : Calls(ms[i])[n].clean THEN ms[i]
    ELSE [ms[i] EXCEPT !.calls = [n \in DOMAIN @ |-> Clean(@[n])], !.extra = @ \ {"tool_calls"}]]

\* wrap_model_call.
Wrapped(ms, p) == Sanitized(ForProvider(OrphansPatched(DanglingPatched(ms)), p))

\* The calls of a request that have no result behind them: what a provider
\* names when it refuses a request.
Unanswered(ms) == UNION {{c \in ToSet(Calls(ms[i])) : \A j \in Block(ms, i) : ms[j].call # c} : i \in DOMAIN ms}

\* _heal_tool_call_sequence: calls the error names get a result where they are
\* declared first.
Injected(ms, missing) == Expand(ms, [i \in DOMAIN ms |->
    <<ms[i]>> \o LET calls == Calls(ms[i]) IN
        Results(calls, {k \in DOMAIN calls : calls[k] \in missing
                            /\ \A j \in 1..(i - 1) : calls[k] \notin ToSet(Calls(ms[j]))})])

Healed(ms, p, corrupted) ==
    LET repaired == Sanitized(Injected(OrphansPatched(DanglingPatched(ms)), Unanswered(ms))) IN
    ForProvider(IF p = Gemini /\ corrupted THEN Collapsed(repaired) ELSE repaired, p)

\* -------------------------------------------------------------------- runs
NoRequest == [model |-> "none", msgs |-> <<>>, orphans |-> FALSE]

PatchInit ==
    /\ chat = [t \in Chats |-> <<>>] /\ returned = chat
    /\ at = [t \in Chats |-> "end"]
    /\ running = {} /\ waiting = {}
    /\ request = [t \in Chats |-> NoRequest]
    /\ removals = {} /\ patched = {}
    /\ lastId = 0 /\ called = 0

\* add_messages: known messages stay where they are, new ones go to the end.
Added(ms, new) ==
    LET unknown == Only(new, {n \in DOMAIN new : new[n].id \notin MessageIds(ms) \ {0}}) IN
    ms \o [n \in DOMAIN unknown |-> IF unknown[n].id = 0 THEN [unknown[n] EXCEPT !.id = lastId + n]
                                    ELSE unknown[n]]

\* before_agent: the input is patched, the thread is not looked at.
Repaired(input) == OrphansPatched(DanglingPatched(input))

\* ainvoke with an input: a new message, behind what the last run returned or
\* by itself.
Invoke(t, again) ==
    /\ t \notin running
    /\ again => returned[t] # <<>>
    /\ LET input == (IF again THEN returned[t] ELSE <<>>) \o <<Human(0)>> IN
       /\ chat' = [chat EXCEPT ![t] = Added(@, Repaired(input))]
       /\ patched' = patched \cup IF Repaired(input) # input THEN {t} ELSE {}
       /\ lastId' = lastId + Len(chat'[t]) - Len(chat[t])
    /\ lastId' <= MaxLastId
    /\ running' = running \cup {t}
    /\ at' = [at EXCEPT ![t] = "model"]
    /\ UNCHANGED <<request, waiting, removals, returned, called>>

\* ainvoke without an input goes on where the last run was stopped.
Resume(t) ==
    /\ t \notin running /\ at[t] # "end"
    /\ running' = running \cup {t}
    /\ UNCHANGED <<chat, at, request, waiting, removals, returned, lastId, called, patched>>

\* An abort, a failure, a step limit: nothing of the node is kept.
Stops(t) ==
    /\ t \in running
    /\ running' = running \ {t} /\ waiting' = waiting \ {t}
    /\ UNCHANGED <<chat, at, request, removals, returned, lastId, called, patched>>

\* The model node sends a request.
Asks(t, p) ==
    /\ t \in running \ waiting /\ at[t] = "model"
    /\ removals' = removals \cup OrphanIds(chat[t])
    /\ request' = [request EXCEPT ![t] =
         [model |-> p, msgs |-> Wrapped(chat[t], p), orphans |-> OrphanIds(chat[t]) # {}]]
    /\ waiting' = waiting \cup {t}
    /\ UNCHANGED <<chat, at, running, returned, lastId, called, patched>>

\* It fails, and is sent again, healed.
Heals(t) ==
    /\ t \in waiting
    /\ \E corrupted \in BOOLEAN :
        request' = [request EXCEPT ![t].msgs = Healed(@, request[t].model, corrupted)]
    /\ UNCHANGED <<chat, at, running, waiting, removals, returned, lastId, called, patched>>

\* What provider p may answer: a text, tool calls, or one call that cannot be
\* parsed or comes in the legacy field, which declares nothing.
Answer(p, thinks, calls, bad) ==
    LET uses == calls # <<>>
        parts == {"text"} \cup {x \in {"signed"} : thinks /\ p = "ChatAnthropic"}
                          \cup {x \in {"unsigned"} : thinks /\ p = Gemini}
                          \cup {x \in {"tool_use"} : uses /\ p = "ChatAnthropic"}
        extra == {x \in {"reasoning_content"} : thinks /\ p = "ChatMoonshot"}
                 \cup {x \in {"signatures"} : uses /\ p = Gemini}
                 \cup {x \in {"tool_calls"} : uses /\ p \in {"ChatOpenAI", "ChatMoonshot"}} IN
    [Ai(lastId + 1, p, IF parts = {"text"} THEN "string" ELSE "list", parts, extra, calls) EXCEPT !.bad = bad]

NewCalls(p, k) == [n \in 1..k |-> [no |-> called + n, clean |-> p # "ChatMoonshot"]]

\* RemoveMessage.
Remaining(ms, gone) == Only(ms, {i \in DOMAIN ms : ms[i].id \notin gone})

\* drain_state_updates.
Drained == {}

\* The answer comes; whatever removals are pending go with it.  One of a
\* message the thread does not have makes add_messages refuse the update.
Answers(t) ==
    /\ t \in waiting /\ lastId < MaxLastId
    /\ waiting' = waiting \ {t}
    /\ removals' = Drained
    /\ \/ /\ removals \subseteq MessageIds(chat[t])
          /\ \E thinks \in BOOLEAN, good \in 0..2, bad \in 0..1 :
              LET p == request[t].model
                  m == Answer(p, thinks, NewCalls(p, good), NewCalls(p, bad)) IN
              /\ good * bad = 0 /\ called + good + bad <= MaxCalls
              /\ called' = called + good + bad
              /\ chat' = [chat EXCEPT ![t] = Append(Remaining(@, removals), m)]
              /\ at' = [at EXCEPT ![t] = IF good + bad = 0 THEN "end" ELSE "tools"]
              /\ running' = IF good + bad = 0 THEN running \ {t} ELSE running
              /\ returned' = [returned EXCEPT ![t] = IF good + bad = 0 THEN chat'[t] ELSE @]
          /\ lastId' = lastId + 1
       \/ /\ ~ removals \subseteq MessageIds(chat[t])
          /\ running' = running \ {t}
          /\ UNCHANGED <<chat, at, returned, lastId, called>>
    /\ UNCHANGED <<request, patched>>

\* The tool node: a result for each call, or for each one it could not parse.
Uses(t) ==
    /\ t \in running /\ at[t] = "tools"
    /\ LET m == Last(chat[t])
           calls == IF m.calls # <<>> THEN m.calls ELSE m.bad IN
       /\ lastId + Len(calls) <= MaxLastId
       /\ chat' = [chat EXCEPT ![t] = @ \o [n \in DOMAIN calls |-> Tool(lastId + n, calls[n])]]
       /\ lastId' = lastId + Len(calls)
    /\ at' = [at EXCEPT ![t] = "model"]
    /\ UNCHANGED <<running, request, waiting, removals, returned, called, patched>>

PatchNext == \E t \in Chats :
    \/ \E again \in BOOLEAN : Invoke(t, again)
    \/ Resume(t) \/ Stops(t)
    \/ \E p \in Providers : Asks(t, p)
    \/ Heals(t) \/ Answers(t) \/ Uses(t)

PatchSpec == PatchInit /\ [][PatchNext]_patchVars

\* ------------------------------------------------------------- properties
PatchTypeOK ==
    /\ lastId \in 0..MaxLastId /\ called \in 0..MaxCalls
    /\ waiting \subseteq running /\ running \cup patched \subseteq Chats
    /\ at \in [Chats -> {"model", "tools", "end"}]
    /\ removals \subseteq 1..MaxLastId
    /\ \A t \in Chats : 0 \notin MessageIds(chat[t]) /\ Cardinality(MessageIds(chat[t])) = Len(chat[t])

\* The results behind the message at i are those of its calls, each once.
Paired(ms, i) ==
    LET block == Block(ms, i) IN
    /\ {ms[j].call : j \in block} = ToSet(Calls(ms[i]))
    /\ Cardinality(block) = Len(Calls(ms[i]))

WellPaired(ms) ==
    /\ ms # <<>> => ~ IsToolAt(ms, 1)
    /\ \A i \in DOMAIN ms : ms[i].type # "tool" => Paired(ms, i)

\* "Ensure every tool_call has a matching ToolMessage and vice versa": every
\* request, healed or not, whatever was stopped, failed, malformed or removed
\* before.
EveryCallMatched == \A t \in waiting : WellPaired(request[t].msgs)

\* The same, as far as the code makes it true: unless an input that held an
\* interrupted exchange was submitted again.  And what a thread has queued for
\* removal is still in some thread, so that an answer is refused only because of
\* another thread's removals.
RequestPaired ==
    /\ PatchTypeOK
    /\ \A t \in waiting \ patched : WellPaired(request[t].msgs)
    /\ removals \subseteq UNION {MessageIds(chat[t]) : t \in Chats}

\* No message of a request, injected ones included, has a shape that provider
\* would refuse: foreign thinking or signatures, unclean ids, tool exchanges
\* for Gemini, or for Kimi a message without reasoning_content.
Accepts(p, m) ==
    /\ m.type = "tool" => p # Gemini /\ m.call.clean
    /\ m.type = "ai" =>
        /\ \A n \in DOMAIN m.calls : p # Gemini /\ m.calls[n].clean
        /\ "tool_calls" \notin m.extra
        /\ p = "ChatMoonshot" => m.form = "string" /\ "reasoning_content" \in m.extra
        /\ p # "ChatMoonshot" => "reasoning_content" \notin m.extra
        /\ "signatures" \in m.extra => m.from = Gemini
        /\ "unsigned" \in m.parts => p = Gemini /\ m.from = Gemini
        /\ "signed" \in m.parts => p = "ChatAnthropic" /\ m.from = "ChatAnthropic"

SendShape == \A t \in waiting \ patched : \A i \in DOMAIN request[t].msgs :
    Accepts(request[t].model, request[t].msgs[i])

\* What is sent is paired and shaped for the provider it is sent to.
RequestsSound == RequestPaired /\ SendShape

\* What goes over the wire: a list of one text block is that text.
Wire(ms) == [i \in DOMAIN ms |->
    IF ms[i].type = "ai" /\ ms[i].parts = {"text"} THEN [ms[i] EXCEPT !.form = "string"] ELSE ms[i]]

\* A provider's prompt cache can be hit: a request begins with the one before
\* it, if that went to the same model, whatever was stopped or failed in
\* between, unless it held orphans, or the input was changed.
PrefixStep == \A t \in Chats :
    LET old == request[t]  new == request'[t] IN
    old.model = new.model /\ ~ old.orphans /\ t \notin patched' => IsPrefix(Wire(old.msgs), Wire(new.msgs))
PrefixStable == [][PrefixStep]_patchVars
=============================================================================
