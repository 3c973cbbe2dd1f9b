---------------------------- MODULE ClaudeRunner ----------------------------
(***************************************************************************)
(* The runner of one session (sessions/jorchbot/claude-runner.ts) and its  *)
(* callers: prompts, /compact and the end of the session.                  *)
(*                                                                         *)
(* A runner has one field each for the process, the timeout and the reader *)
(* of the output, and nothing keeps a second run() from beginning before   *)
(* the first has ended: prompts are handled as they arrive, and a stop()   *)
(* that timed out is awaited by nobody.  Each run keeps its own promise,   *)
(* process and timer, so the model gives every run a number and lets the   *)
(* fields point to runs.                                                   *)
(*                                                                         *)
(* Claude Code is the environment: a process may run for ever, end well or *)
(* badly, and ignore SIGTERM.                                              *)
(***************************************************************************)
EXTENDS Naturals

CONSTANTS
    MaxRuns,            \* bound: calls of run()
    Usages,             \* token totals a result may report
    ContextLimit,       \* tokens a context can hold
    BlockPercent,       \* blockPercent of the context guard
    None                \* null

Runs == 1..MaxRuns      \* in the order of the calls

ASSUME RunnerAssumption ==
    /\ MaxRuns \in Nat
    /\ Usages \subseteq Nat
    /\ ContextLimit \in Nat \ {0}
    /\ BlockPercent \in Nat
    /\ None \notin Runs

VARIABLES
    \* fields of ClaudeRunner
    process, timeoutHandle, readline, status,
    tokens,             \* lastInputTokens + lastOutputTokens
    \* the calls of run()
    promise,            \* none, pending, resolved or rejected
    proc,               \* none, alive, terminated (SIGTERM), killed, gone
    armed,              \* its timer will fire
    reading,            \* its reader is open
    \* stop(): who awaits the end of a run's process, and whose turn it is
    stopper, microtask,
    asked,              \* a /compact awaits its first reply
    open                \* the session is in the manager's map

VARIABLES
    \* what happened, for the properties
    reported,           \* runs whose result was read
    crowded,            \* runs that shared the runner with another one
    late                \* runs that began after the session had ended

fieldVars == <<process, timeoutHandle, readline, status>>
runVars == <<promise, proc, armed, reading>>
stopVars == <<stopper, microtask>>
seenVars == <<reported, crowded, late>>
vars == <<fieldVars, tokens, runVars, stopVars, asked, open, seenVars>>

Callers == {"compact", "destroy"}       \* that await stop() and go on

TypeOK ==
    /\ process \in Runs \cup {None}
    /\ timeoutHandle \in Runs \cup {None}
    /\ readline \in Runs \cup {None}
    /\ status \in {"idle", "running", "stopped", "error"}
    /\ tokens \in Nat
    /\ promise \in [Runs -> {"none", "pending", "resolved", "rejected"}]
    /\ proc \in [Runs -> {"none", "alive", "terminated", "killed", "gone"}]
    /\ armed \in [Runs -> BOOLEAN]
    /\ reading \in [Runs -> BOOLEAN]
    /\ stopper \in [Runs -> Callers \cup {"nobody", "timeout"}]
    /\ microtask \in Callers \cup {"nobody"}
    /\ asked \in BOOLEAN
    /\ open \in BOOLEAN
    /\ reported \subseteq Runs
    /\ crowded \subseteq Runs
    /\ late \subseteq Runs

Init ==
    /\ process = None
    /\ timeoutHandle = None
    /\ readline = None
    /\ status = "idle"
    /\ tokens = 0
    /\ promise = [r \in Runs |-> "none"]
    /\ proc = [r \in Runs |-> "none"]
    /\ armed = [r \in Runs |-> FALSE]
    /\ reading = [r \in Runs |-> FALSE]
    /\ stopper = [r \in Runs |-> "nobody"]
    /\ microtask = "nobody"
    /\ asked = FALSE
    /\ open = TRUE
    /\ reported = {}
    /\ crowded = {}
    /\ late = {}

-----------------------------------------------------------------------------
(***************************************************************************)
(* An operator whose comment starts with "Mistake" is a form of the        *)
(* definition after it that a plausible bug would give.  No action uses    *)
(* it: PROJECT.json pairs it with the property that catches it.            *)
(***************************************************************************)

\* No continuation of a stop() is due: a callback may run.
Quiet == microtask = "nobody"

\* f with FALSE at the run a field points to, if any: clearTimeout, close
Off(f, field) == [r \in Runs |-> f[r] /\ r # field]

\* Runs whose process has not ended, or whose stop() is still waiting
Busy == {r \in Runs : proc[r] \in {"alive", "terminated", "killed"} \/ stopper[r] # "nobody"}

\* resolveContextInfo: the share of the context in percent, rounded half up
percent ==
    LET share == (200 * tokens + ContextLimit) \div (2 * ContextLimit)
    IN IF share < 100 THEN share ELSE 100

\* evaluateContextGuard: the level at which prompts are refused
shouldBlock == percent >= BlockPercent

-----------------------------------------------------------------------------
(* run *)

\* spawn throws: nothing of the runner but its status has changed.
SpawnThrows(r) ==
    /\ status' = "error"
    /\ promise' = [promise EXCEPT ![r] = "rejected"]
    /\ proc' = [proc EXCEPT ![r] = "gone"]
    /\ UNCHANGED <<process, timeoutHandle, readline, armed, reading>>

\* The process cannot be started: its error event follows at once, clears the
\* timer and leaves the process and the reader in their fields.
SpawnFails(r) ==
    /\ process' = r
    /\ timeoutHandle' = None
    /\ readline' = r
    /\ status' = "error"
    /\ promise' = [promise EXCEPT ![r] = "rejected"]
    /\ proc' = [proc EXCEPT ![r] = "gone"]
    /\ UNCHANGED <<armed, reading>>

\* The fields are set, whatever they held.
Spawned(r) ==
    /\ process' = r
    /\ timeoutHandle' = r
    /\ readline' = r
    /\ status' = "running"
    /\ promise' = [promise EXCEPT ![r] = "pending"]
    /\ proc' = [proc EXCEPT ![r] = "alive"]
    /\ armed' = [armed EXCEPT ![r] = TRUE]
    /\ reading' = [reading EXCEPT ![r] = TRUE]

\* start or resume, for the next run
Begin(r) ==
    /\ promise[r] = "none"
    /\ \A q \in Runs : q < r => promise[q] # "none"
    /\ SpawnThrows(r) \/ SpawnFails(r) \/ Spawned(r)
    /\ crowded' = IF Busy = {} THEN crowded ELSE crowded \cup Busy \cup {r}
    /\ late' = IF open THEN late ELSE late \cup {r}
    /\ UNCHANGED <<tokens, stopper, asked, open, reported>>

\* handlePrompt, forwardToClaudeCode and answerQuestion: nothing is awaited
\* between the look at the session, the guard and the run.
Prompt(r) ==
    /\ Quiet
    /\ open
    /\ ~shouldBlock
    /\ Begin(r)
    /\ UNCHANGED microtask

\* handleStreamEvent of a result: the totals never decrease.
Result(r, u) ==
    /\ Quiet
    /\ reading[r]
    /\ r \notin reported
    /\ reported' = reported \cup {r}
    /\ tokens' = IF u >= tokens THEN u ELSE tokens
    /\ UNCHANGED <<fieldVars, runVars, stopVars, asked, open, crowded, late>>

\* Mistake: the exit of a process that is not in the field is ignored.
ExitOfCurrentOnly(r, ok) ==
    /\ Quiet
    /\ proc[r] \in {"alive", "terminated", "killed"}
    /\ proc' = [proc EXCEPT ![r] = "gone"]
    /\ IF process = r
       THEN /\ armed' = Off(armed, timeoutHandle)
            /\ timeoutHandle' = None
            /\ reading' = Off(reading, readline)
            /\ readline' = None
            /\ process' = None
            /\ status' = IF ok THEN "idle" ELSE "error"
            /\ promise' = [promise EXCEPT ![r] =
                  IF @ # "pending" THEN @ ELSE IF ok THEN "resolved" ELSE "rejected"]
       ELSE UNCHANGED <<fieldVars, promise, armed, reading>>
    /\ stopper' = [stopper EXCEPT ![r] = "nobody"]
    /\ microtask' = IF stopper[r] \in Callers THEN stopper[r] ELSE "nobody"
    /\ UNCHANGED <<tokens, asked, open, seenVars>>

\* Mistake: the timer is left to fire.
ExitKeepsTimer(r, ok) ==
    /\ Quiet
    /\ proc[r] \in {"alive", "terminated", "killed"}
    /\ proc' = [proc EXCEPT ![r] = "gone"]
    /\ timeoutHandle' = None
    /\ reading' = Off(reading, readline)
    /\ readline' = None
    /\ process' = None
    /\ status' = IF ok THEN "idle" ELSE "error"
    /\ promise' = [promise EXCEPT ![r] =
          IF @ # "pending" THEN @ ELSE IF ok THEN "resolved" ELSE "rejected"]
    /\ stopper' = [stopper EXCEPT ![r] = "nobody"]
    /\ microtask' = IF stopper[r] \in Callers THEN stopper[r] ELSE "nobody"
    /\ UNCHANGED <<tokens, armed, asked, open, seenVars>>

\* The exit event of run r: the fields are cleared, whichever run they point
\* to.  A stop() that waits for this exit returns and closes the reader again.
Exit(r, ok) ==
    /\ Quiet
    /\ proc[r] \in {"alive", "terminated", "killed"}
    /\ proc[r] = "killed" => ~ok
    /\ proc' = [proc EXCEPT ![r] = "gone"]
    /\ armed' = Off(armed, timeoutHandle)
    /\ timeoutHandle' = None
    /\ reading' = Off(reading, readline)
    /\ readline' = None
    /\ process' = None
    /\ status' = IF ok THEN "idle" ELSE "error"
    /\ promise' = [promise EXCEPT ![r] =
          IF @ # "pending" THEN @ ELSE IF ok THEN "resolved" ELSE "rejected"]
    /\ stopper' = [stopper EXCEPT ![r] = "nobody"]
    /\ microtask' = IF stopper[r] \in Callers THEN stopper[r] ELSE "nobody"
    /\ UNCHANGED <<tokens, asked, open, seenVars>>

\* A reader that was overwritten closes when the output of its process ends.
OutputEnds(r) ==
    /\ Quiet
    /\ proc[r] = "gone"
    /\ reading[r]
    /\ reading' = [reading EXCEPT ![r] = FALSE]
    /\ UNCHANGED <<fieldVars, tokens, promise, proc, armed, stopVars, asked, open, seenVars>>

-----------------------------------------------------------------------------
(* stop *)

\* stop() up to its await, with the timers that are armed at that moment: the
\* process in the field is sent SIGTERM.  Without one the caller goes on.
Stop(caller, timers) ==
    /\ armed' = Off(timers, timeoutHandle)
    /\ timeoutHandle' = None
    /\ status' = "stopped"
    /\ process' = None
    /\ proc' = [r \in Runs |-> IF r = process /\ proc[r] = "alive" THEN "terminated" ELSE proc[r]]
    /\ stopper' = [r \in Runs |-> IF r = process THEN caller ELSE stopper[r]]
    /\ microtask' = IF process = None /\ caller \in Callers THEN caller ELSE "nobody"
    /\ UNCHANGED <<readline, tokens, reading>>

\* Mistake: stop() gives up waiting and sends no SIGKILL.
KillTimerGivesUp(r) ==
    /\ Quiet
    /\ stopper[r] # "nobody"
    /\ reading' = Off(reading, readline)
    /\ readline' = None
    /\ stopper' = [stopper EXCEPT ![r] = "nobody"]
    /\ microtask' = IF stopper[r] \in Callers THEN stopper[r] ELSE "nobody"
    /\ UNCHANGED <<process, timeoutHandle, status, tokens, promise, proc, armed, asked, open, seenVars>>

\* KILL_TIMEOUT_MS is over: SIGKILL is sent and stop() returns, before the
\* exit event, and closes the reader in the field.
KillTimer(r) ==
    /\ Quiet
    /\ stopper[r] # "nobody"
    /\ proc' = [proc EXCEPT ![r] = IF @ = "terminated" THEN "killed" ELSE @]
    /\ reading' = Off(reading, readline)
    /\ readline' = None
    /\ stopper' = [stopper EXCEPT ![r] = "nobody"]
    /\ microtask' = IF stopper[r] \in Callers THEN stopper[r] ELSE "nobody"
    /\ UNCHANGED <<process, timeoutHandle, status, tokens, promise, armed, asked, open, seenVars>>

\* Mistake: the timeout rejects and leaves the process to itself.
TimerOnlyRejects(r) ==
    /\ Quiet
    /\ armed[r]
    /\ armed' = [armed EXCEPT ![r] = FALSE]
    /\ timeoutHandle' = IF timeoutHandle = r THEN None ELSE timeoutHandle
    /\ promise' = [promise EXCEPT ![r] = IF @ = "pending" THEN "rejected" ELSE @]
    /\ UNCHANGED <<process, readline, status, tokens, proc, reading, stopVars, asked, open, seenVars>>

\* The timer of run r fires: stop() is called for the process in the field,
\* awaited by nobody, and run r is rejected.
TimerFires(r) ==
    /\ Quiet
    /\ armed[r]
    /\ Stop("timeout", [armed EXCEPT ![r] = FALSE])
    /\ promise' = [promise EXCEPT ![r] = IF @ = "pending" THEN "rejected" ELSE @]
    /\ UNCHANGED <<asked, open, seenVars>>

\* handleCompact finds the session and awaits its first reply.  Bound: one at a
\* time does, while a run is left for it.
CompactAsked ==
    /\ Quiet
    /\ open
    /\ \E r \in Runs : promise[r] = "none"
    /\ asked' = TRUE
    /\ UNCHANGED <<fieldVars, tokens, runVars, stopVars, open, seenVars>>

\* The reply was sent: stop() is called and awaited, whatever became of the
\* session.  (If it was not, handleCompact ends.)
Compact ==
    /\ Quiet
    /\ asked
    /\ asked' = FALSE
    /\ Stop("compact", armed)
    /\ UNCHANGED <<promise, open, seenVars>>

\* Mistake: the session ends and its runner is not stopped.
DestroyWithoutStop ==
    /\ Quiet
    /\ open
    /\ microtask' = "destroy"
    /\ UNCHANGED <<fieldVars, tokens, runVars, stopper, asked, open, seenVars>>

\* destroy (also by /stop and /clear) calls stop() and awaits it.
Destroy ==
    /\ Quiet
    /\ open
    /\ Stop("destroy", armed)
    /\ UNCHANGED <<promise, asked, open, seenVars>>

\* The rest of handleCompact: a new conversation is started, without another
\* look at the session.  When all runs of the bound are used, nothing begins.
CompactStarts ==
    /\ microtask = "compact"
    /\ microtask' = "nobody"
    /\ \/ \E r \in Runs : Begin(r)
       \/ /\ \A r \in Runs : promise[r] # "none"
          /\ UNCHANGED <<fieldVars, tokens, runVars, stopper, asked, open, seenVars>>

\* The rest of destroy: the session leaves the map.
DestroyEnds ==
    /\ microtask = "destroy"
    /\ microtask' = "nobody"
    /\ open' = FALSE
    /\ UNCHANGED <<fieldVars, tokens, runVars, stopper, asked, seenVars>>

Next ==
    \/ \E r \in Runs : Prompt(r) \/ OutputEnds(r) \/ KillTimer(r) \/ TimerFires(r)
    \/ \E r \in Runs, u \in Usages : Result(r, u)
    \/ \E r \in Runs, ok \in BOOLEAN : Exit(r, ok)
    \/ CompactAsked
    \/ Compact
    \/ Destroy
    \/ CompactStarts
    \/ DestroyEnds

Spec == Init /\ [][Next]_vars

\* Timers fire, continuations run and a killed process ends.  Nothing makes a
\* process end by itself or after SIGTERM.
Fairness ==
    /\ \A r \in Runs : WF_vars(TimerFires(r)) /\ WF_vars(KillTimer(r))
    /\ \A r \in Runs : WF_vars(proc[r] = "killed" /\ Exit(r, FALSE))
    /\ WF_vars(CompactStarts) /\ WF_vars(DestroyEnds)

LiveSpec == Spec /\ Fairness

-----------------------------------------------------------------------------
(* Properties *)

\* A process that runs and was not told to stop is in the fields: stop() finds
\* it, its timer will fire, its output is read and its caller waits.  That is
\* so as long as no other run is at work beside it: then whichever ends first
\* clears the fields of the other.
Watched ==
    \A r \in Runs : proc[r] = "alive" /\ r \notin crowded =>
        /\ process = r
        /\ timeoutHandle = r /\ armed[r]
        /\ readline = r /\ reading[r]
        /\ promise[r] = "pending"
        /\ status = "running"

\* No timer outlives its run: one that did would stop a later run's process.
\* Only a run that shared the runner can leave its timer behind.
TimersBelong ==
    \A r \in Runs : armed[r] /\ promise[r] # "pending" => r \in crowded

\* When the session has ended no process works on in its directory, except one
\* that shared the runner with another, and one that a /compact started after
\* the session had ended.
EndedSessionIsQuiet ==
    ~open => \A r \in Runs : proc[r] = "alive" => r \in crowded \cup late

\* Every run settles, even if its process hangs and ignores SIGTERM, unless it
\* shares the runner with another one.
EveryRunSettles ==
    \A r \in Runs : promise[r] = "pending" ~> (promise[r] # "pending" \/ r \in crowded)

\* A process that was told to stop ends, and who awaits its stop goes on.
StopEnds ==
    \A r \in Runs : stopper[r] # "nobody" ~> (stopper[r] = "nobody" /\ proc[r] = "gone")
=============================================================================
