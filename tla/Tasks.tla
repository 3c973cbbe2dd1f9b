-------------------------------- MODULE Tasks --------------------------------
(***************************************************************************)
(* Background tasks: JorchfileExecutor (jorchfile/executor.ts), its task   *)
(* manager (task-manager.ts) and port search (port-manager.ts), with what  *)
(* the gateway's wiring and router do with them (jorchbot-start.ts,        *)
(* router.ts).                                                             *)
(*                                                                         *)
(* A request is a message or a button that runs a command.  It starts at   *)
(* most one task, so the task and its process have the request's name.     *)
(* Nothing serializes requests: each awaits replies and port probes, and   *)
(* what it checked before may no longer hold after.                        *)
(***************************************************************************)
EXTENDS FiniteSets, Naturals

CONSTANTS
    Projects,
    Commands,           \* that run in the background
    Missing,            \* projects whose directory does not exist
    HasPort,            \* projects with a port
    FirstPort,          \* their port
    MaxPortSearch,
    MaxRequests,        \* bound: messages and buttons
    None,
    Other,              \* the programs of others that listen on ports
    MaxCrashes          \* bound: times the gateway is ended from outside

Requests == 1..MaxRequests              \* in the order they come
Ports == FirstPort..(FirstPort + MaxPortSearch - 1)

ASSUME TasksAssumption ==
    /\ HasPort \cup Missing \subseteq Projects
    /\ FirstPort \in Nat
    /\ MaxPortSearch \in Nat \ {0}
    /\ MaxRequests \in Nat
    /\ MaxCrashes \in Nat
    /\ None \notin Requests \cup Ports \cup Projects \cup Commands \cup {Other}
    /\ Other \notin Requests

VARIABLES
    kind,               \* what a request is: a command, or one of the two buttons
    project, command,   \* of each request
    at,                 \* where a request is
    candidate,          \* the port it tries
    tasks,              \* BackgroundTaskManager.tasks, of all projects
    startedAt,          \* the place of a task in the order of starts
    port,               \* task.port
    proc,               \* the process of a task
    told,               \* processes that were sent SIGTERM
    listener,           \* who listens on each port, on the address isPortFree tries
    session,            \* projects that have a session
    up, stopping        \* the gateway runs; it shuts down

VARIABLES
    \* what happened, for the properties
    met,                \* <<r, s>>: s searched, or had no port yet, as r began to
    late,               \* requests that went on without a session, or in a shutdown
    orphans,            \* processes that outlived their gateway
    crashes

requestVars == <<kind, project, command, at, candidate>>
taskVars == <<tasks, startedAt, port, proc>>
gatewayVars == <<session, up, stopping, orphans>>
vars == <<requestVars, taskVars, told, listener, gatewayVars, met, late, crashes>>

\* All values have their types.
TypeOK ==
    /\ kind \in [Requests -> {None, "execute", "restart", "duplicate"}]
    /\ project \in [Requests -> Projects \cup {None}]
    /\ command \in [Requests -> Commands \cup {None}]
    /\ at \in [Requests -> {"new", "session", "port", "probe", "told", "done", "failed"}]
    /\ candidate \in [Requests -> Ports \cup {None}]
    /\ tasks \subseteq Requests
    /\ startedAt \in [Requests -> Nat]
    /\ port \in [Requests -> Ports \cup {None}]
    /\ proc \in [Requests -> {"none", "running", "gone"}]
    /\ told \subseteq Requests
    /\ listener \in [Ports -> Requests \cup {None, Other}]
    /\ session \subseteq Projects
    /\ up \in BOOLEAN
    /\ stopping \in BOOLEAN
    /\ met \subseteq Requests \X Requests
    /\ late \subseteq Requests
    /\ orphans \subseteq Requests
    /\ crashes \in Nat

Init ==
    /\ kind = [r \in Requests |-> None]
    /\ project = [r \in Requests |-> None]
    /\ command = [r \in Requests |-> None]
    /\ at = [r \in Requests |-> "new"]
    /\ candidate = [r \in Requests |-> None]
    /\ tasks = {}
    /\ startedAt = [r \in Requests |-> 0]
    /\ port = [r \in Requests |-> None]
    /\ proc = [r \in Requests |-> "none"]
    /\ told = {}
    /\ listener \in [Ports -> {None, Other}]
    /\ session = {}
    /\ up = TRUE
    /\ stopping = FALSE
    /\ met = {}
    /\ late = {}
    /\ orphans = {}
    /\ crashes = 0

-----------------------------------------------------------------------------
(***************************************************************************)
(* An operator whose comment starts with "Mistake" is a form of the        *)
(* definition after it that a plausible bug would give.  No action uses    *)
(* it: PROJECT.json pairs it with the property that catches it.            *)
(***************************************************************************)

Goto(r, s) == at' = [at EXCEPT ![r] = s]

\* Requests past the check for a duplicate that have started nothing yet
Searching == {r \in Requests : at[r] \in {"port", "probe", "told"}}
InFlight == Searching \cup {r \in Requests : at[r] = "session"}

Living == {t \in Requests : proc[t] = "running"}

\* Tasks that isPortFree does not see on their port: they do not listen yet, or
\* on another address only (it tries 127.0.0.1, they may be on ::1)
Unbound == {t \in Living : port[t] # None /\ listener[port[t]] # t}

\* The tasks on the list for command c of project p
Listed(p, c) == {t \in tasks : project[t] = p /\ command[t] = c}

-----------------------------------------------------------------------------
(* BackgroundTaskManager *)

\* The gateway is gone: sessions are restored later, tasks are not.
GatewayGone(S) ==
    /\ up' = FALSE
    /\ tasks' = {}
    /\ orphans' = orphans \cup Living
    /\ at' = [s \in Requests |-> IF s \in S THEN "failed" ELSE at[s]]
    /\ UNCHANGED <<startedAt, port, proc>>

\* start: the child runs and is on the list.  If the directory is missing the
\* child has no process id and start throws; the "error" event of the child,
\* which nobody handles, ends the gateway.
Start(r, p, q) ==
    \/ /\ p \notin Missing
       /\ proc' = [proc EXCEPT ![r] = "running"]
       /\ tasks' = tasks \cup {r}
       /\ startedAt' = [startedAt EXCEPT ![r] = Cardinality({t \in Requests : startedAt[t] > 0}) + 1]
       /\ port' = [port EXCEPT ![r] = q]
       /\ Goto(r, "done")
       /\ UNCHANGED <<up, orphans>>
    \/ /\ p \in Missing
       /\ GatewayGone(InFlight \cup {r})

\* stop: the first task on the list with this command is told to end.
First(S) == {t \in S : \A u \in S : startedAt[t] <= startedAt[u]}

\* Mistake: the whole project leaves the list with one of its tasks.
ForgetProject(t) == tasks' = {u \in tasks : project[u] # project[t]}

\* removeTask
RemoveTask(t) == tasks' = tasks \ {t}

\* The "exit" event: the process ended, by itself or because it was told to.
Exit(t) ==
    /\ t \in Living
    /\ proc' = [proc EXCEPT ![t] = "gone"]
    /\ listener' = [q \in Ports |-> IF listener[q] = t THEN None ELSE listener[q]]
    /\ RemoveTask(t)
    /\ UNCHANGED <<requestVars, startedAt, port, told, gatewayVars, met, late, crashes>>

\* A task listens on the port it was given, on 127.0.0.1 or on all addresses.
\* Nothing says when it does, or that it does: some listen elsewhere.
Listen(t) ==
    /\ t \in Unbound
    /\ listener[port[t]] = None
    /\ \A r \in Requests : at[r] = "probe" => candidate[r] # port[t]
    /\ listener' = [listener EXCEPT ![port[t]] = t]
    /\ UNCHANGED <<requestVars, taskVars, told, gatewayVars, met, late, crashes>>

-----------------------------------------------------------------------------
(* JorchfileExecutor *)

\* Mistake: any other command of the project counts, this one does not.
AnotherRuns(p, c) == \E t \in tasks : project[t] = p /\ command[t] # c

\* executeBackground finds the command on the list.
Duplicate(p, c) == Listed(p, c) # {}

\* executeBackground up to its first await: the buttons are sent, the port
\* search begins, or the task starts.
ExecuteBackground(r, p, c) ==
    \/ /\ Duplicate(p, c)
       /\ Goto(r, "done")
       /\ UNCHANGED <<candidate, taskVars, up, orphans, met>>
    \/ /\ ~Duplicate(p, c)
       /\ p \in HasPort
       /\ candidate' = [candidate EXCEPT ![r] = FirstPort]
       /\ Goto(r, "port")
       /\ met' = met \cup ({r} \X (Searching \cup Unbound))
       /\ UNCHANGED <<taskVars, up, orphans>>
    \/ /\ ~Duplicate(p, c)
       /\ p \notin HasPort
       /\ Start(r, p, None)
       /\ UNCHANGED <<candidate, met>>

\* A request that goes on without a session, or in a shutdown, is late.
Noted(r, hasSession) ==
    late' = IF stopping \/ ~hasSession THEN late \cup {r} ELSE late

\* execute.  If the project has no session one is made, or not, for the limit
\* may be reached: the user is told, and the command runs in any case.
Execute(r, p, c) ==
    \/ /\ p \in session
       /\ ExecuteBackground(r, p, c)
       /\ Noted(r, TRUE)
       /\ UNCHANGED session
    \/ /\ p \notin session
       /\ Goto(r, "session")
       /\ session' \in {session, session \cup {p}}
       /\ UNCHANGED <<candidate, taskVars, up, orphans, met, late>>

\* The next request begins.
New(r, k, p, c) ==
    /\ up
    /\ at[r] = "new"
    /\ \A s \in Requests : s < r => at[s] # "new"
    /\ kind' = [kind EXCEPT ![r] = k]
    /\ project' = [project EXCEPT ![r] = p]
    /\ command' = [command EXCEPT ![r] = c]

\* The message "/<command> <project>"
Command(r, p, c) ==
    /\ New(r, "execute", p, c)
    /\ Execute(r, p, c)
    /\ UNCHANGED <<told, listener, stopping, crashes>>

\* "Stop & restart"; the check for a duplicate runs right after SIGTERM is sent.
\* Buttons outlive what they were sent for: those of any command may be on the phone.
TapRestart(r, p, c) ==
    /\ New(r, "restart", p, c)
    /\ told' = told \cup First(Listed(p, c))
    /\ Execute(r, p, c)
    /\ UNCHANGED <<listener, stopping, crashes>>

\* "Run another": no check, no session, no port
TapDuplicate(r, p, c) ==
    /\ New(r, "duplicate", p, c)
    /\ Start(r, p, None)
    /\ Noted(r, p \in session)
    /\ UNCHANGED <<candidate, told, listener, session, stopping, met, crashes>>

\* The reply about the new session was sent.
SessionTold(r) ==
    /\ at[r] = "session"
    /\ ExecuteBackground(r, project[r], command[r])
    /\ Noted(r, project[r] \in session)
    /\ UNCHANGED <<kind, project, command, told, listener, session, stopping, crashes>>

\* isPortFree listens on the port itself, and so do the searches of others.  It
\* misses the tasks of Unbound.
Occupied(q) ==
    \/ listener[q] # None
    \/ \E s \in Requests : at[s] = "probe" /\ candidate[s] = q

\* Mistake: the search tries the same port again.
TrySamePort(r) ==
    /\ at[r] = "port"
    /\ IF Occupied(candidate[r]) THEN UNCHANGED at ELSE Goto(r, "probe")
    /\ UNCHANGED <<kind, project, command, candidate, taskVars, told, listener, gatewayVars, met, late, crashes>>

\* Mistake: the first port is taken without a look.
TakeFirstPort(r) ==
    /\ at[r] = "port"
    /\ Goto(r, "probe")
    /\ UNCHANGED <<kind, project, command, candidate, taskVars, told, listener, gatewayVars, met, late, crashes>>

\* The loop of findAvailablePort goes on after port q.
SearchGoesOn(q) == q + 1 \in Ports

\* findAvailablePort tries the next port; it throws after the last one.
TryPort(r) ==
    /\ at[r] = "port"
    /\ LET q == candidate[r] IN
       \/ /\ ~Occupied(q)
          /\ Goto(r, "probe")
          /\ UNCHANGED candidate
       \/ /\ Occupied(q)
          /\ SearchGoesOn(q)
          /\ candidate' = [candidate EXCEPT ![r] = q + 1]
          /\ UNCHANGED at
       \/ /\ Occupied(q)
          /\ ~SearchGoesOn(q)
          /\ Goto(r, "failed")
          /\ UNCHANGED candidate
    /\ UNCHANGED <<kind, project, command, taskVars, told, listener, gatewayVars, met, late, crashes>>

\* The probe is closed: the task starts, after a word to the user if the port
\* is another one.
PortFound(r) ==
    /\ at[r] = "probe"
    /\ \/ /\ candidate[r] = FirstPort
          /\ Start(r, project[r], candidate[r])
       \/ /\ candidate[r] # FirstPort
          /\ Goto(r, "told")
          /\ UNCHANGED <<taskVars, up, orphans>>
    /\ UNCHANGED <<kind, project, command, candidate, told, listener, session, stopping, met, late, crashes>>

PortTold(r) ==
    /\ at[r] = "told"
    /\ Start(r, project[r], candidate[r])
    /\ UNCHANGED <<kind, project, command, candidate, told, listener, session, stopping, met, late, crashes>>

\* A reply that is awaited cannot be sent.
ReplyFails(r) ==
    /\ at[r] \in {"session", "told"}
    /\ Goto(r, "failed")
    /\ UNCHANGED <<kind, project, command, candidate, taskVars, told, listener, gatewayVars, met, late, crashes>>

-----------------------------------------------------------------------------
(* Stops, the end of sessions and of the gateway *)

\* /stop-cmd with a command
StopCommand(p, c) ==
    /\ up
    /\ told' = told \cup First(Listed(p, c))
    /\ UNCHANGED <<requestVars, taskVars, listener, gatewayVars, met, late, crashes>>

\* Mistake: one task of each command is told.
FirstOfEach(p) == told' = told \cup UNION {First(Listed(p, c)) : c \in Commands}

\* stopAll
StopAll(p) == told' = told \cup {t \in tasks : project[t] = p}

\* /stop-cmd without a command
StopProject(p) ==
    /\ up
    /\ StopAll(p)
    /\ UNCHANGED <<requestVars, taskVars, listener, gatewayVars, met, late, crashes>>

\* onSessionDestroy; requests of the project that are under way go on.
SessionEnds(p) ==
    /\ up
    /\ p \in session
    /\ session' = session \ {p}
    /\ StopAll(p)
    /\ late' = late \cup {r \in InFlight : project[r] = p}
    /\ UNCHANGED <<requestVars, taskVars, listener, up, stopping, orphans, met, crashes>>

\* shutdown up to its first await
Shutdown ==
    /\ up
    /\ ~stopping
    /\ crashes < MaxCrashes
    /\ stopping' = TRUE
    /\ told' = told \cup tasks
    /\ late' = late \cup InFlight
    /\ UNCHANGED <<requestVars, taskVars, listener, session, up, orphans, met, crashes>>

\* A crash, or the end of shutdown
GatewayEnds ==
    /\ up
    /\ crashes < MaxCrashes
    /\ crashes' = crashes + 1
    /\ GatewayGone(InFlight)
    /\ UNCHANGED <<kind, project, command, candidate, told, listener, session, stopping, met, late>>

\* The gateway starts: sessions are restored, the list of tasks is empty.
GatewayStarts ==
    /\ ~up
    /\ up' = TRUE
    /\ stopping' = FALSE
    /\ UNCHANGED <<requestVars, taskVars, told, listener, session, orphans, met, late, crashes>>

\* A step of a request that is under way
Continues(r) ==
    \/ SessionTold(r)
    \/ TryPort(r)
    \/ PortFound(r)
    \/ PortTold(r)
    \/ ReplyFails(r)

Next ==
    \/ \E r \in Requests, p \in Projects, c \in Commands :
        \/ Command(r, p, c)
        \/ TapRestart(r, p, c)
        \/ TapDuplicate(r, p, c)
    \/ \E r \in Requests : Continues(r)
    \/ \E t \in Requests : Listen(t) \/ Exit(t)
    \/ \E p \in Projects, c \in Commands : StopCommand(p, c)
    \/ \E p \in Projects : StopProject(p) \/ SessionEnds(p)
    \/ Shutdown
    \/ GatewayEnds
    \/ GatewayStarts

Spec == Init /\ [][Next]_vars

\* Replies are answered or fail, and a probe of a port returns.
LiveSpec == Spec /\ \A r \in Requests : WF_vars(Continues(r))

-----------------------------------------------------------------------------
(* Properties *)

\* The list tells what runs: while the gateway is up, the tasks on it are
\* exactly the living processes it started, whatever exits, stops, overlapping
\* requests and restarts came between (removeTask, start).
ListIsExact ==
    up => tasks = Living \ orphans

\* The check for a duplicate works but for overlaps: two living tasks of one
\* command, neither of them asked for with "Run another", come from requests of
\* which one passed the check before the other had started.
NoTwins ==
    \A t, u \in Living \ orphans :
        /\ t # u
        /\ project[t] = project[u] /\ command[t] = command[u]
        /\ "duplicate" \notin {kind[t], kind[u]}
        => <<t, u>> \in met \/ <<u, t>> \in met

\* Two living tasks were given one port only if one search began before the
\* other's task listened, in this run of the gateway or an earlier one, or if
\* that task never listened where the search looks.
PortsApart ==
    \A t, u \in Living :
        t # u /\ port[t] = port[u] /\ port[t] # None
        => <<t, u>> \in met \/ <<u, t>> \in met

\* When a session or the gateway ends, so do its tasks: what runs untold
\* without a session, or in a shutdown, began to start before and was
\* under way, or was started though there was none (onSessionDestroy, shutdown).
QuietEnd ==
    \A t \in Living \ orphans :
        stopping \/ project[t] \notin session => t \in told \cup late

\* Every request ends: a search for a port does not go on for ever.
EveryRequestEnds ==
    \A r \in Requests : r \in InFlight ~> at[r] \in {"done", "failed"}
=============================================================================
