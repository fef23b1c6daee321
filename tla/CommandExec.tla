---------------------------- MODULE CommandExec ----------------------------
(***************************************************************************)
(* A command that a tool call runs and waits for (execute_python):         *)
(* run_command of environments/shell/executor.py in the agent's process,   *)
(* or handle_shell_exec of serve/handlers.py behind RemoteShellBackend.    *)
(* Both read the pipes of the child until these are closed, or kill it     *)
(* after a timeout.  The caller has two time limits of its own: that of    *)
(* the tool executor, and that of the HTTP client.                         *)
(***************************************************************************)
EXTENDS Naturals

CONSTANT Calls

VARIABLE call     \* the calls, see Unmade

Unmade == [
    caller |-> "idle",     \* idle, waits, over
    via    |-> "local",    \* the backend: local, remote
    runner |-> "none",     \* none, reads, kills, over, dropped (by a cancellation)
    child  |-> "none",     \* none, running, killed, ok (exit code 0), bad
    held   |-> FALSE,      \* another process holds the child's pipes
    result |-> "none",     \* what the runner returns
    reply  |-> "none"]     \* what the caller is told

ExecInit == call = [c \in Calls |-> Unmade]

Becomes(c, state) == call' = [call EXCEPT ![c] = state]

\* ------------------------------------------------------- the runner's start
Spawned(state) == [state EXCEPT !.runner = "reads", !.child = "running"]

\* FileNotFoundError: exit code 127.  Any other exception, or a refusal of the
\* service: 1.
Refusals(state) == {[state EXCEPT !.runner = "over", !.result = r] : r \in {"notfound", "error"}}

Submit(c) ==
    /\ call[c].caller = "idle"
    /\ \E via \in {"local", "remote"} :
        LET asked == [call[c] EXCEPT !.caller = "waits", !.via = via] IN
        \E state \in {Spawned(asked)} \cup Refusals(asked) : Becomes(c, state)

\* ---------------------------------------------------------------- the child
\* It starts a process that inherits its pipes, as one in the background does.
Inherit(c) == call[c].child = "running" /\ ~ call[c].held /\ Becomes(c, [call[c] EXCEPT !.held = TRUE])
LetGo(c) == call[c].held /\ Becomes(c, [call[c] EXCEPT !.held = FALSE])

Exits(c) ==
    /\ call[c].child = "running"
    /\ \E code \in {"ok", "bad"} : Becomes(c, [call[c] EXCEPT !.child = code])

\* --------------------------------------------------------------- the runner
Finished(c, result) == [call[c] EXCEPT !.runner = "over", !.result = result]

\* communicate returns when the child is gone and both pipes are closed.
Communicated(c) ==
    /\ call[c].runner = "reads"
    /\ call[c].child \in {"ok", "bad"} /\ ~ call[c].held
    /\ Becomes(c, Finished(c, call[c].child))

\* Mutant: what timed out is left running.
AfterTimeoutLeft(c) == [call[c] EXCEPT !.runner = "kills"]

\* proc.kill: the child, not what it started.
AfterTimeout(c) ==
    [call[c] EXCEPT !.runner = "kills", !.child = IF @ = "running" THEN "killed" ELSE @]

TimesOut(c) == call[c].runner = "reads" /\ Becomes(c, AfterTimeout(c))

\* proc.wait: some releases of Python wait for the pipes here as well, so that
\* this may take as long as they are held.  Exit code 124.
Reaps(c) ==
    /\ call[c].runner = "kills"
    /\ Becomes(c, Finished(c, "timeout"))

\* --------------------------------------------------------------- the caller
Told(state, reply) == [state EXCEPT !.caller = "over", !.reply = reply]

Returns(c) ==
    /\ call[c].caller = "waits" /\ call[c].runner = "over"
    /\ Becomes(c, Told(call[c], call[c].result))

\* The HTTP client's timeout, or a broken connection: the service goes on.
LosesLink(c) ==
    /\ call[c].caller = "waits" /\ call[c].via = "remote"
    /\ Becomes(c, Told(call[c], "error"))

\* The tool executor's wait_for, or an abort of the run: CancelledError goes
\* through run_command, which catches Exception, without a kill.
Cancelled(c) ==
    /\ call[c].caller = "waits"
    /\ LET told == Told(call[c], "cancelled") IN
        Becomes(c, IF told.via = "local" /\ told.runner \in {"reads", "kills"}
                   THEN [told EXCEPT !.runner = "dropped"] ELSE told)

ExecNext == \E c \in Calls :
    \/ Submit(c) \/ Inherit(c) \/ LetGo(c) \/ Exits(c)
    \/ Communicated(c) \/ TimesOut(c) \/ Reaps(c)
    \/ Returns(c) \/ LosesLink(c) \/ Cancelled(c)

ExecSpec == ExecInit /\ [][ExecNext]_call

\* ------------------------------------------------------------- properties
\* What the caller is told of the child's end is so, and all output is in: an
\* exit code is the child's and its pipes are closed; what timed out is dead.
RepliesTrue == \A c \in Calls :
    /\ call[c].reply \in {"ok", "bad"} => call[c].child = call[c].reply /\ ~ call[c].held
    /\ call[c].reply = "timeout" => call[c].child \notin {"none", "running"}
    /\ call[c].reply = "notfound" => call[c].child = "none"
    /\ call[c].reply = "error" => call[c].child = "none" \/ call[c].via = "remote"

\* A child that runs has a runner that will kill it in the end, unless a call
\* in the agent's own process was cancelled.
NoStrays == \A c \in Calls : call[c].child = "running" =>
    \/ call[c].runner = "reads"
    \/ call[c].via = "local" /\ call[c].reply = "cancelled"

\* However exits, timeouts, broken links and cancellations meet, the reply is
\* true of the child, and no child runs on unwatched but that of a cancelled
\* local call.
CommandsAccounted == RepliesTrue /\ NoStrays
=============================================================================
