------------------------------- MODULE Tunnels -------------------------------
(***************************************************************************)
(* The tunnels of projects: TunnelManager (tunnels/manager.ts), the table  *)
(* of tunnels (tunnel-db.ts), the reverse proxy that all funnel tunnels    *)
(* share (funnel-proxy.ts), the health monitor (health.ts) and Tailscale,  *)
(* which outlives the gateway and is only reached by commands.             *)
(*                                                                         *)
(* Starting and stopping a tunnel await the proxy and Tailscale, so each   *)
(* is a sequence of actions that other starts and stops may interleave     *)
(* with.  A call that finds another one at work is recorded in `mixed`:    *)
(* the code takes no lock, and the properties say what holds without such  *)
(* a meeting.                                                              *)
(***************************************************************************)
EXTENDS FiniteSets, Naturals, Sequences

CONSTANTS
    Projects,
    Paths,              \* paths of the proxy
    Inputs,             \* the inputs each call of start() may have, a sequence
    Threshold,          \* failureThreshold
    MaxRestarts,        \* maxRestartAttempts
    None,
    MaxCrashes,         \* bound: times the process ends
    MaxFaults           \* bound: Tailscale commands that fail

Tunnels == 1..Len(Inputs)        \* in the order of the calls
Callers == {"user", "session"}          \* of stopTunnel

ASSUME TunnelsAssumption ==
    /\ Inputs \in Seq(SUBSET [mode : {"serve", "funnel"}, project : Projects, path : Paths])
    /\ Threshold \in Nat \ {0}
    /\ MaxRestarts \in Nat
    /\ None \notin Tunnels \cup Projects \cup Paths
    /\ None # 0
    /\ MaxCrashes \in Nat
    /\ MaxFaults \in Nat

VARIABLES
    \* TunnelManager
    activeTunnels, pendingConfirmations,
    mode, project, path, \* the input of each start()
    step,               \* where each start() is
    stopStep,           \* where each stopTunnel() is, per tunnel and caller
    toStop,             \* left in the loop of stopByProject
    \* TunnelDb
    row,
    \* FunnelProxy: the start() that made the server, 0 for restore
    server, bound,      \* this.server; the server that has the port
    routes,             \* the tunnel of each path
    cache,              \* tunnels that pathRouteCache still leads to
    \* HealthMonitor
    monitor, failureCounts, restartAttempts, restarts,
    \* Tailscale, and the sessions of the projects
    funnelOn, ended,
    up

VARIABLES
    \* what happened, for the properties
    mixed,              \* tunnels whose start or stop met another one
    unfinished,         \* the proxy runs and Funnel may be off
    sick,               \* tunnels that failed a check
    late,               \* not active yet, or not begun, when their session ended
    cut,                \* active when a crash ended the loop that stops them
    crashes, faults

managerVars == <<activeTunnels, pendingConfirmations, mode, project, path, step, stopStep, toStop>>
proxyVars == <<server, bound, routes, cache>>
healthVars == <<monitor, failureCounts, restartAttempts, restarts>>
seenVars == <<mixed, unfinished, sick, late, cut>>
faultVars == <<crashes, faults>>
vars == <<managerVars, row, proxyVars, healthVars, funnelOn, ended, up, seenVars, faultVars>>

Servers == Tunnels \cup {0, None}

TypeOK ==
    /\ activeTunnels \subseteq Tunnels
    /\ pendingConfirmations \subseteq Tunnels
    /\ mode \in [Tunnels -> {"serve", "funnel", None}]
    /\ project \in [Tunnels -> Projects \cup {None}]
    /\ path \in [Tunnels -> Paths \cup {None}]
    /\ step \in [Tunnels -> {"new", "checking", "asked", "serving", "proxy", "enable", "host", "done"}]
    /\ stopStep \in [Tunnels -> [Callers -> {"none", "serve", "proxy", "off"}]]
    /\ toStop \subseteq Tunnels
    /\ row \in [Tunnels -> {"none", "active", "stopped", "error"}]
    /\ server \in Servers
    /\ bound \in Servers
    /\ routes \in [Paths -> Tunnels \cup {None}]
    /\ cache \subseteq Tunnels
    /\ monitor \in BOOLEAN
    /\ failureCounts \in [Tunnels -> Nat]
    /\ restartAttempts \in [Tunnels -> Nat]
    /\ restarts \subseteq Tunnels
    /\ funnelOn \in BOOLEAN
    /\ ended \subseteq Projects
    /\ up \in BOOLEAN
    /\ mixed \subseteq Tunnels
    /\ unfinished \in BOOLEAN
    /\ sick \subseteq Tunnels
    /\ late \subseteq Tunnels
    /\ cut \subseteq Tunnels
    /\ crashes \in Nat
    /\ faults \in Nat

NoCalls == [t \in Tunnels |-> [c \in Callers |-> "none"]]
NoCounts == [t \in Tunnels |-> 0]
NoRoutes == [a \in Paths |-> None]

Init ==
    /\ activeTunnels = {}
    /\ pendingConfirmations = {}
    /\ mode = [t \in Tunnels |-> None]
    /\ project = [t \in Tunnels |-> None]
    /\ path = [t \in Tunnels |-> None]
    /\ step = [t \in Tunnels |-> "new"]
    /\ stopStep = NoCalls
    /\ toStop = {}
    /\ row = [t \in Tunnels |-> "none"]
    /\ server = None
    /\ bound = None
    /\ routes = NoRoutes
    /\ cache = {}
    /\ monitor = FALSE
    /\ failureCounts = NoCounts
    /\ restartAttempts = NoCounts
    /\ restarts = {}
    /\ funnelOn = FALSE
    /\ ended = {}
    /\ up = TRUE
    /\ mixed = {}
    /\ unfinished = FALSE
    /\ sick = {}
    /\ late = {}
    /\ cut = {}
    /\ crashes = 0
    /\ faults = 0

-----------------------------------------------------------------------------
(***************************************************************************)
(* An operator whose comment starts with "Mistake" is a form of the        *)
(* definition after it that a plausible bug would give.  No action uses    *)
(* it: PROJECT.json pairs it with the property that catches it.            *)
(***************************************************************************)

Goto(t, s) == step' = [step EXCEPT ![t] = s]
Fault == faults < MaxFaults /\ faults' = faults + 1 /\ UNCHANGED crashes

isRunning == server # None /\ bound = server

\* Funnel tunnels whose start or stop awaits the proxy or Tailscale
Starting == {t \in Tunnels : step[t] \in {"proxy", "enable", "host"}}
Stopping == {t \in Tunnels : \E c \in Callers : stopStep[t][c] \in {"proxy", "off"}}

\* Tunnel t meets the calls that are at work.
Meets(t) ==
    mixed' = IF Starting \cup Stopping = {} THEN mixed
             ELSE mixed \cup Starting \cup Stopping \cup {t}

FunnelTunnels == {t \in activeTunnels : mode[t] = "funnel"}

-----------------------------------------------------------------------------
(* start *)

\* start() up to ensureAvailable.  Nothing is asked about the project's session.
Start(t, input) ==
    /\ up
    /\ step[t] = "new"
    /\ \A u \in Tunnels : u < t => step[u] # "new"
    /\ mode' = [mode EXCEPT ![t] = input.mode]
    /\ project' = [project EXCEPT ![t] = input.project]
    /\ path' = [path EXCEPT ![t] = input.path]
    /\ Goto(t, "checking")
    /\ late' = IF input.project \in ended THEN late \cup {t} ELSE late
    /\ UNCHANGED <<activeTunnels, pendingConfirmations, stopStep, toStop, row, proxyVars, healthVars, funnelOn, ended, up, mixed, unfinished, sick, cut, faultVars>>

\* Mistake: the path is taken over from the tunnel that has it.
TakeRoute(t) ==
    /\ routes' = [routes EXCEPT ![path[t]] = t]
    /\ Goto(t, "host")

\* addRoute, and on to getHostname; the start fails if the path is taken.
AddRoute(t) ==
    IF routes[path[t]] = None
    THEN /\ routes' = [routes EXCEPT ![path[t]] = t]
         /\ Goto(t, "host")
    ELSE /\ UNCHANGED routes
         /\ Goto(t, "done")

\* startFunnelDirect up to its first await: the proxy is started if it does
\* not run, and only then will Funnel be enabled.
StartFunnelDirect(t) ==
    /\ Meets(t)
    /\ IF isRunning
       THEN AddRoute(t) /\ UNCHANGED server
       ELSE server' = t /\ Goto(t, "proxy") /\ UNCHANGED routes
    /\ UNCHANGED <<bound, cache, unfinished, sick, late, cut>>

\* Tailscale is there: what follows depends on the mode and on autoConfirm.
Checked(t) ==
    /\ step[t] = "checking"
    /\ \/ /\ mode[t] = "serve"
          /\ Goto(t, "serving")
          /\ UNCHANGED <<pendingConfirmations, proxyVars, seenVars>>
       \/ /\ mode[t] = "funnel"
          /\ StartFunnelDirect(t)
          /\ UNCHANGED pendingConfirmations
       \/ /\ mode[t] = "funnel"
          /\ pendingConfirmations' = pendingConfirmations \cup {t}
          /\ Goto(t, "asked")
          /\ UNCHANGED <<proxyVars, seenVars>>
    /\ UNCHANGED <<activeTunnels, mode, project, path, stopStep, toStop, row, healthVars, funnelOn, ended, up, faultVars>>

\* The button.
ConfirmFunnel(t) ==
    /\ t \in pendingConfirmations
    /\ pendingConfirmations' = pendingConfirmations \ {t}
    /\ StartFunnelDirect(t)
    /\ UNCHANGED <<activeTunnels, mode, project, path, stopStep, toStop, row, healthVars, funnelOn, ended, up, faultVars>>

CancelFunnel(t) ==
    /\ t \in pendingConfirmations
    /\ pendingConfirmations' = pendingConfirmations \ {t}
    /\ Goto(t, "done")
    /\ UNCHANGED <<activeTunnels, mode, project, path, stopStep, toStop, row, proxyVars, healthVars, funnelOn, ended, up, seenVars, faultVars>>

\* listen() ends, well or with an error if another server has the port.
ProxyStarted(t) ==
    /\ step[t] = "proxy"
    /\ IF bound = None
       THEN bound' = t /\ Goto(t, "enable")
       ELSE UNCHANGED bound /\ Goto(t, "done")
    /\ UNCHANGED <<activeTunnels, pendingConfirmations, mode, project, path, stopStep, toStop, row, server, routes, cache, healthVars, funnelOn, ended, up, seenVars, faultVars>>

\* The command that enables Funnel ends.  If it fails the proxy stays.
FunnelStarted(t) ==
    /\ step[t] = "enable"
    /\ \/ /\ funnelOn' = TRUE
          /\ AddRoute(t)
          /\ UNCHANGED <<unfinished, faultVars>>
       \/ /\ Fault
          /\ Goto(t, "done")
          /\ unfinished' = TRUE
          /\ UNCHANGED <<funnelOn, routes>>
    /\ UNCHANGED <<activeTunnels, pendingConfirmations, mode, project, path, stopStep, toStop, row, server, bound, cache, healthVars, ended, up, mixed, sick, late, cut>>

\* The rest of startFunnelDirect or of startServe: the tunnel is recorded.
Started(t) ==
    /\ step[t] \in {"host", "serving"}
    /\ Goto(t, "done")
    /\ activeTunnels' = activeTunnels \cup {t}
    /\ row' = [row EXCEPT ![t] = "active"]
    /\ monitor' = (monitor \/ step[t] = "host")
    /\ UNCHANGED <<pendingConfirmations, mode, project, path, stopStep, toStop, proxyVars, failureCounts, restartAttempts, restarts, funnelOn, ended, up, seenVars, faultVars>>

-----------------------------------------------------------------------------
(* stopTunnel *)

\* Mistake: the row is left as it was.
ForgetTunnel(t) ==
    /\ activeTunnels' = activeTunnels \ {t}
    /\ UNCHANGED row
    /\ IF activeTunnels' = {}
       THEN /\ monitor' = FALSE
            /\ failureCounts' = NoCounts
            /\ restartAttempts' = NoCounts
       ELSE UNCHANGED <<monitor, failureCounts, restartAttempts>>

\* The end of stopTunnel.  The monitor forgets its counts, not its timers.
RemoveTunnel(t) ==
    /\ activeTunnels' = activeTunnels \ {t}
    /\ row' = [row EXCEPT ![t] = "stopped"]
    /\ IF activeTunnels' = {}
       THEN /\ monitor' = FALSE
            /\ failureCounts' = NoCounts
            /\ restartAttempts' = NoCounts
       ELSE UNCHANGED <<monitor, failureCounts, restartAttempts>>

\* Mistake: what was served is remembered for the next proxy.
StopProxyKeepsCache ==
    /\ server' = None
    /\ bound' = IF bound = server THEN None ELSE bound
    /\ unfinished' = FALSE
    /\ UNCHANGED cache

\* FunnelProxy.stop up to its await: a server that listens gives up its port.
StopProxy ==
    /\ server' = None
    /\ bound' = IF bound = server THEN None ELSE bound
    /\ unfinished' = FALSE
    /\ cache' = {}

\* A stop takes the path of t away from whoever has it now, and the last funnel
\* tunnel takes the proxy and Funnel down.
Last(t) == FunnelTunnels \ {t} = {}

\* Starts and stops at work meet this one, and so does the tunnel that has got
\* the path since t was removed.
StopMeets(t) ==
    LET others == (Starting \cup Stopping) \ {t}
        heirs == {u \in Tunnels \ {t} : routes[path[t]] = u}
    IN mixed' = mixed \cup others \cup heirs
                 \cup {u \in {t} : others \cup heirs # {} \/ u \in Stopping}

\* Mistake: the proxy is stopped whatever tunnels remain.
StopFunnelAlways(t, c) ==
    /\ mode[t] = "funnel"
    /\ routes' = [routes EXCEPT ![path[t]] = None]
    /\ StopMeets(t)
    /\ StopProxy
    /\ stopStep' = [stopStep EXCEPT ![t][c] = "proxy"]
    /\ UNCHANGED <<activeTunnels, row, monitor, failureCounts, restartAttempts>>

\* Mistake: the path stays if the proxy does.
StopFunnelKeepsPath(t, c) ==
    /\ mode[t] = "funnel"
    /\ StopMeets(t)
    /\ \/ /\ Last(t)
          /\ routes' = [routes EXCEPT ![path[t]] = None]
          /\ StopProxy
          /\ stopStep' = [stopStep EXCEPT ![t][c] = "proxy"]
          /\ UNCHANGED <<activeTunnels, row, monitor, failureCounts, restartAttempts>>
       \/ /\ ~Last(t)
          /\ RemoveTunnel(t)
          /\ UNCHANGED <<server, bound, routes, cache, unfinished, stopStep>>

\* stopTunnel up to its first await, for a funnel tunnel
StopFunnel(t, c) ==
    /\ mode[t] = "funnel"
    /\ routes' = [routes EXCEPT ![path[t]] = None]
    /\ StopMeets(t)
    /\ \/ /\ Last(t)
          /\ StopProxy
          /\ stopStep' = [stopStep EXCEPT ![t][c] = "proxy"]
          /\ UNCHANGED <<activeTunnels, row, monitor, failureCounts, restartAttempts>>
       \/ /\ ~Last(t)
          /\ RemoveTunnel(t)
          /\ UNCHANGED <<server, bound, cache, unfinished, stopStep>>

StopServe(t, c) ==
    /\ mode[t] = "serve"
    /\ stopStep' = [stopStep EXCEPT ![t][c] = "serve"]
    /\ UNCHANGED <<activeTunnels, row, proxyVars, monitor, failureCounts, restartAttempts, mixed, unfinished>>

\* stop or stopByProjectPort, by a command; or the loop of stopByProject, which
\* has its list from before and stops one tunnel after the other.
StopTunnel(t, c) ==
    /\ up
    /\ stopStep[t][c] = "none"
    /\ \/ /\ c = "user"
          /\ t \in activeTunnels
          /\ UNCHANGED toStop
       \/ /\ c = "session"
          /\ t \in toStop
          /\ \A u \in Tunnels : project[u] = project[t] => stopStep[u]["session"] = "none"
          /\ toStop' = toStop \ {t}
    /\ StopFunnel(t, c) \/ StopServe(t, c)
    /\ UNCHANGED <<pendingConfirmations, mode, project, path, step, restarts, funnelOn, ended, up, sick, late, cut, faultVars>>

\* close() has waited for the open connections.
ProxyStopped(t, c) ==
    /\ stopStep[t][c] = "proxy"
    /\ stopStep' = [stopStep EXCEPT ![t][c] = "off"]
    /\ UNCHANGED <<activeTunnels, pendingConfirmations, mode, project, path, step, toStop, row, proxyVars, healthVars, funnelOn, ended, up, seenVars, faultVars>>

\* The command that disables Funnel ends, its failure is ignored, or the await
\* for the serve adapter ends: the tunnel is removed.
Stopped(t, c) ==
    /\ \/ /\ stopStep[t][c] = "off"
          /\ \/ /\ funnelOn' = FALSE
                /\ unfinished' = (unfinished \/ isRunning)
                /\ UNCHANGED faultVars
             \/ Fault /\ UNCHANGED <<funnelOn, unfinished>>
       \/ /\ stopStep[t][c] = "serve"
          /\ UNCHANGED <<funnelOn, unfinished, faultVars>>
    /\ stopStep' = [stopStep EXCEPT ![t][c] = "none"]
    /\ RemoveTunnel(t)
    /\ UNCHANGED <<pendingConfirmations, mode, project, path, step, toStop, proxyVars, restarts, ended, up, mixed, sick, late, cut>>

\* Mistake: the loop stops the funnel tunnels only.
SessionEndsFunnelsOnly(p) ==
    /\ up
    /\ p \notin ended
    /\ ended' = ended \cup {p}
    /\ toStop' = toStop \cup {t \in FunnelTunnels : project[t] = p}
    /\ late' = late \cup {t \in Tunnels \ activeTunnels : project[t] = p}
    /\ UNCHANGED <<activeTunnels, pendingConfirmations, mode, project, path, step, stopStep, row, proxyVars, healthVars, funnelOn, up, mixed, unfinished, sick, cut, faultVars>>

\* onSessionDestroy: stopByProject for the tunnels that are active.
SessionEnds(p) ==
    /\ up
    /\ p \notin ended
    /\ ended' = ended \cup {p}
    /\ toStop' = toStop \cup {t \in activeTunnels : project[t] = p}
    /\ late' = late \cup {t \in Tunnels \ activeTunnels : project[t] = p}
    /\ UNCHANGED <<activeTunnels, pendingConfirmations, mode, project, path, step, stopStep, row, proxyVars, healthVars, funnelOn, up, mixed, unfinished, sick, cut, faultVars>>

-----------------------------------------------------------------------------
(* Requests from outside *)

\* A server listens, or has been closed and still has connections.
Serving == bound # None \/ \E t \in Tunnels, c \in Callers : stopStep[t][c] = "proxy"

\* A request reaches a tunnel, by its path or by a Referer that was served
\* before, and its own address is remembered.  A path that is removed leaves
\* what was remembered of it.
Served(t) ==
    /\ Serving
    /\ (\E a \in Paths : routes[a] = t) \/ t \in cache
    /\ cache' = cache \cup {t}
    /\ UNCHANGED <<managerVars, row, server, bound, routes, healthVars, funnelOn, ended, up, seenVars, faultVars>>

\* The last address that leads to t is dropped, or five minutes old.
Expires(t) ==
    /\ t \in cache
    /\ cache' = cache \ {t}
    /\ UNCHANGED <<managerVars, row, server, bound, routes, healthVars, funnelOn, ended, up, seenVars, faultVars>>

-----------------------------------------------------------------------------
(* HealthMonitor *)

\* A serve tunnel always is healthy; a funnel tunnel is if the proxy runs.
Failing == IF isRunning THEN {} ELSE FunnelTunnels
Passing == activeTunnels \ Failing

\* handleFailure is called for Due; the tunnels of Lost have no attempt left.
Due == {t \in Failing : failureCounts[t] + 1 >= Threshold}
Lost == {t \in Due : restartAttempts[t] >= MaxRestarts}

\* Bound: a count stays below Threshold, for higher ones act alike.
CountsAfterCheck ==
    [t \in Tunnels |->
        IF t \in Passing \cup Lost THEN 0
        ELSE IF t \in Failing \ Due THEN failureCounts[t] + 1 ELSE failureCounts[t]]

\* runCheck and handleFailure: a round over the active tunnels, whose awaits
\* let nothing else happen.  A restart is scheduled, or the row is marked.
RunCheck ==
    /\ monitor
    /\ failureCounts' = CountsAfterCheck
    /\ restartAttempts' = [t \in Tunnels |->
          IF t \in Passing \cup Lost THEN 0
          ELSE IF t \in Due THEN restartAttempts[t] + 1 ELSE restartAttempts[t]]
    /\ restarts' = restarts \cup (Due \ Lost)
    /\ row' = [t \in Tunnels |-> IF t \in Lost THEN "error" ELSE row[t]]
    /\ sick' = sick \cup Failing
    /\ UNCHANGED <<managerVars, proxyVars, monitor, funnelOn, ended, up, mixed, unfinished, late, cut, faultVars>>

\* attemptRestart, by a timer that nobody cancels: nothing is restarted, and
\* the row becomes active.
AttemptRestart(t) ==
    /\ t \in restarts
    /\ restarts' = restarts \ {t}
    /\ failureCounts' = [failureCounts EXCEPT ![t] = 0]
    /\ row' = [row EXCEPT ![t] = "active"]
    /\ UNCHANGED <<managerVars, proxyVars, monitor, restartAttempts, funnelOn, ended, up, seenVars, faultVars>>

-----------------------------------------------------------------------------
(* The gateway process *)

\* The process ends: rows and Tailscale stay.
Crash ==
    /\ crashes < MaxCrashes
    /\ crashes' = crashes + 1
    /\ up' = FALSE
    /\ cut' = cut \cup {t \in activeTunnels : project[t] \in ended}
    /\ activeTunnels' = {}
    /\ pendingConfirmations' = {}
    /\ step' = [t \in Tunnels |-> IF step[t] = "new" THEN "new" ELSE "done"]
    /\ stopStep' = NoCalls
    /\ toStop' = {}
    /\ server' = None
    /\ bound' = None
    /\ routes' = NoRoutes
    /\ cache' = {}
    /\ monitor' = FALSE
    /\ failureCounts' = NoCounts
    /\ restartAttempts' = NoCounts
    /\ restarts' = {}
    /\ unfinished' = FALSE
    /\ UNCHANGED <<mode, project, path, row, funnelOn, ended, mixed, sick, late, faults>>

Rows == {t \in Tunnels : row[t] = "active"}

\* checkTailscaleAlive, asked for each row: no funnel tunnel is alive when Funnel
\* is off, and for those in unseen the command that tells fails.
Alive(unseen) == {t \in Rows : mode[t] = "serve" \/ (funnelOn /\ t \notin unseen)}

\* addRoute throws for the second of two rows with one path, and the start of
\* the gateway fails.
Conflict(alive) ==
    \E t, u \in alive : t # u /\ mode[t] = "funnel" /\ mode[u] = "funnel" /\ path[t] = path[u]

\* restore, before any message is handled.  Bound: what fails in one restore
\* counts as one fault.
Restore(unseen) ==
    LET alive == Alive(unseen)
        Leads(t, a) == mode[t] = "funnel" /\ path[t] = a
    IN /\ ~up
       /\ IF unseen = {} THEN UNCHANGED faultVars
          ELSE funnelOn /\ unseen \subseteq {t \in Rows : mode[t] = "funnel"} /\ Fault
       /\ ~Conflict(alive)
       /\ up' = TRUE
       /\ activeTunnels' = alive
       /\ row' = [t \in Tunnels |-> IF t \in Rows \ alive THEN "stopped" ELSE row[t]]
       /\ routes' = [a \in Paths |->
             IF \E t \in alive : Leads(t, a) THEN CHOOSE t \in alive : Leads(t, a) ELSE None]
       /\ monitor' = (alive # {})
       /\ IF \E t \in alive : mode[t] = "funnel"
          THEN server' = 0 /\ bound' = 0
          ELSE UNCHANGED <<server, bound>>
       /\ UNCHANGED <<pendingConfirmations, mode, project, path, step, stopStep, toStop, cache, failureCounts, restartAttempts, restarts, funnelOn, ended, seenVars>>

Next ==
    \/ \E t \in Tunnels :
          \/ \E input \in Inputs[t] : Start(t, input)
          \/ Checked(t) \/ ConfirmFunnel(t) \/ CancelFunnel(t)
          \/ ProxyStarted(t) \/ FunnelStarted(t) \/ Started(t)
          \/ AttemptRestart(t)
          \/ Served(t) \/ Expires(t)
    \/ \E t \in Tunnels, c \in Callers : StopTunnel(t, c) \/ ProxyStopped(t, c) \/ Stopped(t, c)
    \/ \E p \in Projects : SessionEnds(p)
    \/ RunCheck
    \/ Crash
    \/ \E unseen \in SUBSET Tunnels : Restore(unseen)

Spec == Init /\ [][Next]_vars

\* The calls that were made end, and the loop over the tunnels of a session
\* goes on.  Nothing makes anybody start, confirm or stop a tunnel.
Fairness ==
    /\ \A t \in Tunnels, c \in Callers :
          WF_vars(ProxyStopped(t, c)) /\ WF_vars(Stopped(t, c))
    /\ \A t \in Tunnels : WF_vars(StopTunnel(t, "session"))

LiveSpec == Spec /\ Fairness

-----------------------------------------------------------------------------
(* Properties *)

\* A funnel tunnel that is active, and that nobody is stopping, can be reached:
\* its path leads to it, the proxy listens and Funnel is on.  Not so if its
\* start or stop met another one, or if enabling Funnel for the proxy failed or
\* a late stop disabled it: nothing tries again while the proxy runs.
Reachable ==
    \A t \in FunnelTunnels \ (Stopping \cup mixed) :
        ~unfinished => routes[path[t]] = t /\ isRunning /\ funnelOn

\* What was stopped is not reached by new requests: a path leads nowhere but to
\* a tunnel that is active or about to be, and an address served before leads to
\* a stopped tunnel only as long as other funnel tunnels keep the proxy up, for
\* the last stop forgets all addresses.  Not so for tunnels whose start or stop
\* met another one: those may leave a proxy that no tunnel is left to stop.
NoStrayPath ==
    /\ \A a \in Paths : routes[a] # None =>
          routes[a] \in activeTunnels \/ step[routes[a]] = "host"
    /\ \A t \in cache \ (activeTunnels \cup mixed) :
          step[t] = "host" \/ FunnelTunnels # {}

\* The rows a restart would find are the tunnels that are active, unless a
\* check has failed: its restart timer and its mark come whenever they come.
RowsTellTunnels ==
    up => \A t \in Tunnels \ sick : row[t] = "active" <=> t \in activeTunnels

\* The next start of the gateway will not fail at two rows with one path,
\* unless a check failed or a start met a stop.
CanRestart ==
    \A t, u \in Rows :
        t # u /\ mode[t] = "funnel" /\ mode[u] = "funnel" /\ path[t] = path[u] =>
            {t, u} \cap (sick \cup mixed) # {}

\* The tunnels that were active when their session ended are stopped, all of
\* them, unless the process ended before or a check had failed: a restart timer
\* brings a tunnel back that was stopped.  Nothing is said of the others: a
\* tunnel still to be confirmed or started at that moment, and one that is asked
\* for later, becomes active and stays.
SessionTunnelsEnd ==
    \A t \in Tunnels :
        t \in activeTunnels /\ project[t] \in ended
            ~> (t \notin activeTunnels \/ t \in late \cup cut \cup sick)
=============================================================================
