---------------------------- MODULE TunnelsProofs ----------------------------
(***************************************************************************)
(* What holds of tunnels whatever their number, their inputs and the       *)
(* limits of the health monitor.                                           *)
(*                                                                         *)
(* The properties speak of tunnels that met nobody, so the invariant says  *)
(* that two calls at work at a time have met (WorkMixed), that a start     *)
(* which met nobody has the server and the port for itself (ProxyMine),    *)
(* that a proxy without Funnel is one whose start is still enabling it     *)
(* (Enabling), and that from the moment a start has its path until the     *)
(* tunnel is stopped the path is the tunnel's and is served (HasRoute).    *)
(*                                                                         *)
(* What the proxy remembers of served addresses has an invariant of its    *)
(* own over that one (CacheInv): what is served while the proxy is being   *)
(* stopped has met the stop, and when a stop begins all is forgotten.      *)
(***************************************************************************)
EXTENDS Tunnels, TLAPS

\* What the place of a start tells of its input, and what else is not begun.
Known ==
    \A t \in Tunnels :
        /\ step[t] # "new" => path[t] \in Paths
        /\ t \in pendingConfirmations => step[t] = "asked"
        /\ step[t] \in {"asked", "proxy", "enable", "host"} => mode[t] = "funnel"
        /\ step[t] = "serving" => mode[t] = "serve"
        /\ t \in activeTunnels \cup toStop \cup restarts \/ row[t] # "none" => step[t] = "done"

\* The path of a tunnel that waits for the proxy to stop is free of it.
Stops ==
    \A t \in Tunnels, c \in Callers :
        /\ stopStep[t][c] # "none" => step[t] = "done"
        /\ stopStep[t][c] = "serve" => mode[t] = "serve"
        /\ stopStep[t][c] \in {"proxy", "off"} => mode[t] = "funnel" /\ \A a \in Paths : routes[a] # t

RoutesKnown ==
    \A a \in Paths : routes[a] # None =>
        /\ mode[routes[a]] = "funnel" /\ path[routes[a]] = a
        /\ routes[a] \in activeTunnels \/ step[routes[a]] = "host"

IsStarting(t) == step[t] \in {"proxy", "enable", "host"}
IsStopping(t) == \E c \in Callers : stopStep[t][c] \in {"proxy", "off"}
Works(t) == IsStarting(t) \/ IsStopping(t)

WorkMixed == \A t, u \in Tunnels : Works(t) /\ Works(u) /\ t # u => t \in mixed

HasRoute ==
    \A t \in Tunnels \ mixed :
        step[t] = "host" \/ (t \in activeTunnels /\ mode[t] = "funnel" /\ ~IsStopping(t)) =>
            routes[path[t]] = t /\ isRunning /\ (unfinished \/ funnelOn)

ProxyMine ==
    \A t \in Tunnels \ mixed :
        /\ step[t] = "proxy" => server = t
        /\ step[t] = "enable" => server = t /\ bound = t

BoundKnown == bound \in Tunnels => step[bound] \in {"enable", "host", "done"}

Enabling == isRunning /\ ~unfinished /\ ~funnelOn => \E t \in Tunnels : step[t] = "enable"

RestartsSick == restarts \subseteq sick

DownQuiet ==
    ~up => /\ \A t \in Tunnels : step[t] \in {"new", "done"}
           /\ \A t \in Tunnels, c \in Callers : stopStep[t][c] = "none"
           /\ pendingConfirmations = {}

\* CanRestart, without the sets
RowsApart ==
    \A t, u \in Tunnels :
        /\ row[t] = "active" /\ row[u] = "active" /\ t # u
        /\ mode[t] = "funnel" /\ mode[u] = "funnel" /\ path[t] = path[u]
        => t \in sick \cup mixed \/ u \in sick \cup mixed

IInv ==
    /\ TypeOK
    /\ Known
    /\ Stops
    /\ RoutesKnown
    /\ WorkMixed
    /\ HasRoute
    /\ ProxyMine
    /\ BoundKnown
    /\ Enabling
    /\ RestartsSick
    /\ DownQuiet
    /\ RowsTellTunnels
    /\ RowsApart

-----------------------------------------------------------------------------

\* Initially nothing is begun.
LEMMA InitIInv == Init => IInv
  <1> SUFFICES ASSUME Init PROVE IInv
    OBVIOUS
  <1> USE TunnelsAssumption DEF Init, NoCalls, NoCounts, NoRoutes, Tunnels, Callers, Servers
  <1>1. TypeOK
    BY DEF TypeOK
  <1>2. Known /\ Stops /\ RoutesKnown
    BY DEF Known, Stops, RoutesKnown
  <1>3. WorkMixed /\ HasRoute /\ ProxyMine /\ BoundKnown /\ Enabling
    BY DEF WorkMixed, HasRoute, ProxyMine, BoundKnown, Enabling, Works, IsStarting, IsStopping, isRunning
  <1>4. RestartsSick /\ DownQuiet /\ RowsTellTunnels /\ RowsApart
    BY DEF RestartsSick, DownQuiet, RowsTellTunnels, RowsApart
  <1>5. QED
    BY <1>1, <1>2, <1>3, <1>4 DEF IInv

-----------------------------------------------------------------------------
(* What the parts of the actions do *)

LEMMA NestedUpdate ==
  ASSUME NEW S, NEW C, NEW V, NEW f \in [S -> [C -> V]], NEW s \in S, NEW c \in C, NEW v \in V
  PROVE  /\ [f EXCEPT ![s][c] = v] \in [S -> [C -> V]]
         /\ \A x \in S, y \in C : [f EXCEPT ![s][c] = v][x][y] = IF x = s /\ y = c THEN v ELSE f[x][y]
  OBVIOUS

\* The call and all that are at work have met.
LEMMA MeetsMixes ==
  ASSUME TypeOK, NEW t \in Tunnels, Meets(t)
  PROVE  /\ mixed' \subseteq Tunnels
         /\ mixed \subseteq mixed'
         /\ \A u \in Tunnels : Works(u) => u \in mixed' /\ t \in mixed'
  BY DEF TypeOK, Meets, Works, IsStarting, IsStopping, Starting, Stopping

\* A stop has met the others at work, and the tunnel that has its path.
LEMMA StopMeetsMixes ==
  ASSUME TypeOK, NEW t \in Tunnels, StopMeets(t)
  PROVE  /\ mixed' \subseteq Tunnels
         /\ mixed \subseteq mixed'
         /\ \A u \in Tunnels \ {t} : Works(u) => u \in mixed' /\ t \in mixed'
         /\ \A u \in Tunnels \ {t} : routes[path[t]] = u => u \in mixed'
         /\ IsStopping(t) => t \in mixed'
  <1> DEFINE others == (Starting \cup Stopping) \ {t}
             heirs == {u \in Tunnels \ {t} : routes[path[t]] = u}
  <1>1. mixed' = mixed \cup others \cup heirs
                   \cup {u \in {t} : others \cup heirs # {} \/ u \in Stopping}
    BY DEF StopMeets
  <1>2. \A u \in Tunnels \ {t} : Works(u) => u \in others
    BY DEF Works, IsStarting, IsStopping, Starting, Stopping
  <1>3. others \subseteq Tunnels /\ heirs \subseteq Tunnels
    BY DEF Starting, Stopping
  <1>4. IsStopping(t) => t \in Stopping
    BY DEF IsStopping, Stopping
  <1>5. QED
    BY <1>1, <1>2, <1>3, <1>4 DEF TypeOK

\* The start gets the path if nobody has it, and is over otherwise.
LEMMA AddRouteRoutes ==
  ASSUME IInv, NEW t \in Tunnels, step[t] # "new", AddRoute(t)
  PROVE  /\ routes' \in [Paths -> Tunnels \cup {None}]
         /\ \/ routes' = routes /\ step' = [step EXCEPT ![t] = "done"]
            \/ /\ routes[path[t]] = None
               /\ \A a \in Paths : routes'[a] = IF a = path[t] THEN t ELSE routes[a]
               /\ step' = [step EXCEPT ![t] = "host"]
  <1>1. path[t] \in Paths /\ routes \in [Paths -> Tunnels \cup {None}]
    BY DEF IInv, TypeOK, Known
  <1>2. QED
    BY <1>1 DEF AddRoute, Goto

\* stopTunnel frees the path, and removes the tunnel or begins to stop the proxy.
LEMMA StopFunnelStops ==
  ASSUME IInv, NEW t \in Tunnels, NEW c \in Callers, StopFunnel(t, c), stopStep[t][c] = "none"
  PROVE  /\ routes' \in [Paths -> Tunnels \cup {None}]
         /\ \A a \in Paths : routes'[a] = IF a = path[t] THEN None ELSE routes[a]
         /\ stopStep' \in [Tunnels -> [Callers -> {"none", "serve", "proxy", "off"}]]
         /\ \/ stopStep' = stopStep
            \/ \A u \in Tunnels, d \in Callers :
                  stopStep'[u][d] = IF u = t /\ d = c THEN "proxy" ELSE stopStep[u][d]
  <1>1. routes \in [Paths -> Tunnels \cup {None}]
    BY DEF IInv, TypeOK
  <1>2. stopStep \in [Tunnels -> [Callers -> {"none", "serve", "proxy", "off"}]]
    BY DEF IInv, TypeOK
  <1>3. routes' = [routes EXCEPT ![path[t]] = None]
    BY DEF StopFunnel
  <1>4. stopStep' = stopStep \/ stopStep' = [stopStep EXCEPT ![t][c] = "proxy"]
    BY DEF StopFunnel
  <1>5. CASE stopStep' = [stopStep EXCEPT ![t][c] = "proxy"]
    <2>1. stopStep' \in [Tunnels -> [Callers -> {"none", "serve", "proxy", "off"}]]
      BY <1>2, <1>5, NestedUpdate
    <2>2. \A u \in Tunnels, d \in Callers :
             stopStep'[u][d] = IF u = t /\ d = c THEN "proxy" ELSE stopStep[u][d]
      BY <1>2, <1>5, NestedUpdate
    <2>3. QED
      BY <1>1, <1>3, <2>1, <2>2
  <1>6. QED
    BY <1>1, <1>2, <1>3, <1>4, <1>5

\* Every step keeps the variables in their types.
LEMMA NextTypeOK == IInv /\ [Next]_vars => TypeOK'
  <1> SUFFICES ASSUME IInv, [Next]_vars PROVE TypeOK'
    OBVIOUS
  <1>0. TypeOK
    BY DEF IInv
  <1> USE <1>0 DEF TypeOK, Servers, managerVars, proxyVars, healthVars, seenVars, faultVars, Goto, Fault
  <1>1. ASSUME NEW t \in Tunnels, NEW input \in Inputs[t], Start(t, input) PROVE TypeOK'
    <2>1. input \in [mode : {"serve", "funnel"}, project : Projects, path : Paths]
      BY TunnelsAssumption DEF Tunnels
    <2>2. QED
      BY <1>1, <2>1 DEF Start
  <1>3. ASSUME NEW t \in Tunnels, StartFunnelDirect(t), step[t] # "new"
        PROVE  /\ routes' \in [Paths -> Tunnels \cup {None}]
               /\ step' \in [Tunnels -> {"new", "checking", "asked", "serving", "proxy", "enable", "host", "done"}]
               /\ server' \in Servers
               /\ mixed' \subseteq Tunnels
               /\ UNCHANGED <<bound, cache, unfinished, sick, late, cut>>
    BY <1>3, MeetsMixes, AddRouteRoutes DEF StartFunnelDirect
  <1>4. ASSUME NEW t \in Tunnels, Checked(t) PROVE TypeOK'
    BY <1>3, <1>4 DEF Checked
  <1>5. ASSUME NEW t \in Tunnels, ConfirmFunnel(t) PROVE TypeOK'
    BY <1>3, <1>5 DEF ConfirmFunnel, IInv, Known
  <1>6. ASSUME NEW t \in Tunnels, CancelFunnel(t) PROVE TypeOK'
    BY <1>6 DEF CancelFunnel
  <1>7. ASSUME NEW t \in Tunnels, ProxyStarted(t) PROVE TypeOK'
    BY <1>7 DEF ProxyStarted
  <1>8. ASSUME NEW t \in Tunnels, FunnelStarted(t) PROVE TypeOK'
    <2>1. routes' \in [Paths -> Tunnels \cup {None}]
      BY <1>8, AddRouteRoutes DEF FunnelStarted
    <2>2. step' \in [Tunnels -> {"new", "checking", "asked", "serving", "proxy", "enable", "host", "done"}]
      BY <1>8 DEF FunnelStarted, AddRoute
    <2>3. faults' \in Nat /\ crashes' \in Nat
      BY <1>8 DEF FunnelStarted
    <2>4. QED
      BY <1>8, <2>1, <2>2, <2>3 DEF FunnelStarted
  <1>9. ASSUME NEW t \in Tunnels, Started(t) PROVE TypeOK'
    BY <1>9 DEF Started
  <1>10. ASSUME NEW t \in Tunnels, AttemptRestart(t) PROVE TypeOK'
    BY <1>10 DEF AttemptRestart
  <1>11. ASSUME NEW t \in Tunnels, RemoveTunnel(t)
         PROVE  /\ activeTunnels' \subseteq Tunnels
                /\ row' \in [Tunnels -> {"none", "active", "stopped", "error"}]
                /\ monitor' \in BOOLEAN
                /\ failureCounts' \in [Tunnels -> Nat]
                /\ restartAttempts' \in [Tunnels -> Nat]
    <2>1. activeTunnels' \subseteq Tunnels /\ row' \in [Tunnels -> {"none", "active", "stopped", "error"}]
      BY <1>11 DEF RemoveTunnel
    <2>2. NoCounts \in [Tunnels -> Nat]
      BY DEF NoCounts
    <2>3. monitor' \in {FALSE, monitor} /\ failureCounts' \in {NoCounts, failureCounts}
          /\ restartAttempts' \in {NoCounts, restartAttempts}
      BY <1>11 DEF RemoveTunnel
    <2>4. monitor' \in BOOLEAN
      BY <2>3
    <2>5. failureCounts' \in [Tunnels -> Nat] /\ restartAttempts' \in [Tunnels -> Nat]
      BY <2>2, <2>3
    <2>6. QED
      BY <2>1, <2>4, <2>5
  <1>12. ASSUME NEW t \in Tunnels, NEW c \in Callers, StopTunnel(t, c) PROVE TypeOK'
    <2>1. CASE StopFunnel(t, c)
      <3>1. mixed' \subseteq Tunnels
        BY <2>1, StopMeetsMixes DEF StopFunnel
      <3>2. routes' \in [Paths -> Tunnels \cup {None}]
            /\ stopStep' \in [Tunnels -> [Callers -> {"none", "serve", "proxy", "off"}]]
        BY <1>12, <2>1, StopFunnelStops DEF StopTunnel
      <3>3. QED
        BY <1>11, <1>12, <2>1, <3>1, <3>2 DEF StopTunnel, StopFunnel, StopProxy
    <2>2. CASE StopServe(t, c)
      <3>1. stopStep' \in [Tunnels -> [Callers -> {"none", "serve", "proxy", "off"}]]
        BY <2>2, NestedUpdate DEF StopServe
      <3>2. QED
        BY <1>12, <2>2, <3>1 DEF StopTunnel, StopServe
    <2>3. QED
      BY <1>12, <2>1, <2>2 DEF StopTunnel
  <1>13. ASSUME NEW t \in Tunnels, NEW c \in Callers, ProxyStopped(t, c) PROVE TypeOK'
    <2>1. stopStep' \in [Tunnels -> [Callers -> {"none", "serve", "proxy", "off"}]]
      BY <1>13, NestedUpdate DEF ProxyStopped
    <2>2. QED
      BY <1>13, <2>1 DEF ProxyStopped
  <1>14. ASSUME NEW t \in Tunnels, NEW c \in Callers, Stopped(t, c) PROVE TypeOK'
    <2>1. stopStep' \in [Tunnels -> [Callers -> {"none", "serve", "proxy", "off"}]]
      BY <1>14, NestedUpdate DEF Stopped
    <2>2. \/ funnelOn' = FALSE /\ unfinished' = (unfinished \/ isRunning) /\ UNCHANGED faultVars
          \/ Fault /\ UNCHANGED <<funnelOn, unfinished>>
          \/ UNCHANGED <<funnelOn, unfinished, faultVars>>
      BY <1>14 DEF Stopped
    <2>3. faults' \in Nat /\ crashes' \in Nat
      BY <2>2
    <2>4. funnelOn' \in BOOLEAN
      BY <2>2
    <2>5. unfinished' \in BOOLEAN
      BY <2>2 DEF isRunning
    <2>6. QED
      BY <1>11, <1>14, <2>1, <2>3, <2>4, <2>5 DEF Stopped
  <1>15. ASSUME NEW p \in Projects, SessionEnds(p) PROVE TypeOK'
    BY <1>15 DEF SessionEnds
  <1>16. CASE RunCheck
    BY <1>16 DEF RunCheck, CountsAfterCheck, Failing, FunnelTunnels, Due
  <1>17. CASE Crash
    <2>1. step' \in [Tunnels -> {"new", "checking", "asked", "serving", "proxy", "enable", "host", "done"}]
      BY <1>17 DEF Crash
    <2>2. stopStep' \in [Tunnels -> [Callers -> {"none", "serve", "proxy", "off"}]]
      BY <1>17 DEF Crash, NoCalls
    <2>3. routes' \in [Paths -> Tunnels \cup {None}]
      BY <1>17 DEF Crash, NoRoutes
    <2>4. failureCounts' \in [Tunnels -> Nat] /\ restartAttempts' \in [Tunnels -> Nat]
      BY <1>17 DEF Crash, NoCounts
    <2>5. cut' \subseteq Tunnels /\ crashes' \in Nat /\ up' \in BOOLEAN
      <3>1. cut' = cut \cup {t \in activeTunnels : project[t] \in ended}
        BY <1>17 DEF Crash
      <3>2. crashes' = crashes + 1 /\ up' = FALSE
        BY <1>17 DEF Crash
      <3>3. cut' \subseteq Tunnels
        BY <3>1
      <3>4. crashes' \in Nat
        BY <3>2
      <3>5. up' \in BOOLEAN
        BY <3>2
      <3>6. QED
        BY <3>3, <3>4, <3>5
    <2>6. activeTunnels' \subseteq Tunnels /\ pendingConfirmations' \subseteq Tunnels /\ toStop' \subseteq Tunnels
          /\ restarts' \subseteq Tunnels /\ server' \in Servers /\ bound' \in Servers /\ cache' \subseteq Tunnels
      BY <1>17 DEF Crash
    <2>7. monitor' \in BOOLEAN /\ unfinished' \in BOOLEAN
      BY <1>17 DEF Crash
    <2>8. UNCHANGED <<mode, project, path, row, funnelOn, ended, mixed, sick, late, faults>>
      BY <1>17 DEF Crash
    <2>9. QED
      BY <2>1, <2>2, <2>3, <2>4, <2>5, <2>6, <2>7, <2>8
  <1>18. ASSUME NEW unseen \in SUBSET Tunnels, Restore(unseen) PROVE TypeOK'
    <2>1. routes' \in [Paths -> Tunnels \cup {None}]
      BY <1>18 DEF Restore, Alive, Rows
    <2>2. QED
      BY <1>18, <2>1 DEF Restore, Alive, Rows
  <1>19. ASSUME NEW t \in Tunnels, Served(t) \/ Expires(t) PROVE TypeOK'
    BY <1>19 DEF Served, Expires
  <1>20. CASE UNCHANGED vars
    BY <1>20 DEF vars
  <1>21. QED
    BY <1>1, <1>4, <1>5, <1>6, <1>7, <1>8, <1>9, <1>10, <1>12, <1>13, <1>14, <1>15, <1>16, <1>17, <1>18, <1>19, <1>20 DEF Next

-----------------------------------------------------------------------------
(* The steps, one by one *)

\* A call of start() has its input.
LEMMA StartKeeps ==
  ASSUME IInv, TypeOK', NEW t \in Tunnels, NEW input \in Inputs[t], Start(t, input)
  PROVE  IInv'
  <1> USE TunnelsAssumption DEF IInv, TypeOK, managerVars, proxyVars, healthVars, seenVars, faultVars, Goto, Fault, Start
  <1>1. input \in [mode : {"serve", "funnel"}, project : Projects, path : Paths]
    BY DEF Tunnels
  <1>2. Known'
    BY <1>1 DEF Known
  <1>3. Stops'
    BY DEF Known, Stops
  <1>4. RoutesKnown'
    BY DEF Known, RoutesKnown
  <1>5. WorkMixed'
    BY DEF Known, Stops, WorkMixed, Works, IsStarting, IsStopping
  <1>6. HasRoute'
    BY DEF Known, Stops, WorkMixed, HasRoute, Works, IsStarting, IsStopping, isRunning
  <1>7. ProxyMine'
    BY DEF Known, ProxyMine, Works, IsStarting, isRunning
  <1>8. BoundKnown'
    BY DEF Known, BoundKnown
  <1>9. Enabling'
    BY DEF Known, Enabling, BoundKnown, WorkMixed, ProxyMine, Works, IsStarting, isRunning
  <1>10. RestartsSick'
    BY DEF RestartsSick
  <1>11. DownQuiet'
    BY DEF Known, DownQuiet
  <1>12. RowsTellTunnels'
    BY DEF RestartsSick, RowsTellTunnels, DownQuiet
  <1>13. RowsApart'
    <2>1. row[t] # "active"
      BY DEF Known
    <2>2. \A u \in Tunnels \ {t} : mode'[u] = mode[u] /\ path'[u] = path[u]
      OBVIOUS
    <2>3. row' = row /\ sick' = sick /\ mixed' = mixed
      OBVIOUS
    <2>4. QED
      BY <2>1, <2>2, <2>3 DEF RowsApart
  <1>14. QED
    BY <1>2, <1>3, <1>4, <1>5, <1>6, <1>7, <1>8, <1>9, <1>10, <1>11, <1>12, <1>13 DEF IInv

\* A start that goes on takes its path, or waits for the proxy.
LEMMA StartFunnelDirectKeeps ==
  ASSUME IInv, TypeOK', NEW t \in Tunnels, StartFunnelDirect(t),
         step[t] \in {"checking", "asked"}, mode[t] = "funnel",
         pendingConfirmations' = pendingConfirmations \ {t}, up' = up,
         UNCHANGED <<activeTunnels, mode, project, path, stopStep, toStop, row, healthVars, funnelOn, ended, faultVars>>
  PROVE  IInv'
  <1> USE TunnelsAssumption DEF IInv, TypeOK, managerVars, proxyVars, healthVars, seenVars, faultVars, Goto, Fault, StartFunnelDirect
  <1>1. /\ mixed \subseteq mixed'
        /\ \A u \in Tunnels : Works(u) => u \in mixed' /\ t \in mixed'
    BY MeetsMixes
  <1>2. \/ /\ isRunning /\ server' = server
           /\ \/ routes' = routes /\ step' = [step EXCEPT ![t] = "done"]
              \/ /\ routes[path[t]] = None
                 /\ \A a \in Paths : routes'[a] = IF a = path[t] THEN t ELSE routes[a]
                 /\ step' = [step EXCEPT ![t] = "host"]
        \/ ~isRunning /\ server' = t /\ step' = [step EXCEPT ![t] = "proxy"] /\ routes' = routes
    BY AddRouteRoutes
  <1>3. bound' = bound /\ unfinished' = unfinished /\ path[t] \in Paths
    BY DEF Known
  <1>4. Known'
    BY <1>1, <1>2, <1>3 DEF Known
  <1>5. Stops'
    BY <1>1, <1>2, <1>3 DEF Known, Stops
  <1>6. RoutesKnown'
    BY <1>1, <1>2, <1>3 DEF Known, RoutesKnown
  <1>7. WorkMixed'
    BY <1>1, <1>2, <1>3 DEF Known, Stops, WorkMixed, Works, IsStarting, IsStopping
  <1>8. HasRoute'
    <2> SUFFICES ASSUME NEW u \in Tunnels \ mixed',
                        step'[u] = "host" \/ (u \in activeTunnels' /\ mode'[u] = "funnel" /\ ~IsStopping(u)')
               PROVE  routes'[path'[u]] = u /\ isRunning' /\ (unfinished' \/ funnelOn')
      BY DEF HasRoute
    <2>1. CASE u = t
      <3>1. step'[t] = "host"
        BY <2>1 DEF Known
      <3>2. isRunning /\ server' = server /\ routes'[path[t]] = t
        BY <1>2, <1>3, <3>1
      <3>3. \A v \in Tunnels : step[v] # "enable"
        BY <1>1, <2>1 DEF Works, IsStarting
      <3>4. QED
        BY <1>3, <2>1, <3>2, <3>3 DEF Enabling, isRunning
    <2>2. CASE u # t
      <3>1. u \notin mixed /\ step'[u] = step[u]
        BY <1>1, <1>2, <2>2
      <3>2. routes[path[u]] = u /\ isRunning /\ (unfinished \/ funnelOn)
        BY <3>1 DEF HasRoute, IsStopping
      <3>3. path[u] \in Paths
        BY <3>1 DEF Known
      <3>4. QED
        BY <1>2, <1>3, <3>2, <3>3 DEF isRunning
    <2>3. QED
      BY <2>1, <2>2
  <1>9. ProxyMine'
    BY <1>1, <1>2, <1>3 DEF Known, ProxyMine, Works, IsStarting, isRunning
  <1>10. BoundKnown'
    BY <1>1, <1>2, <1>3 DEF Known, BoundKnown
  <1>11. Enabling'
    BY <1>1, <1>2, <1>3 DEF Known, Enabling, BoundKnown, WorkMixed, ProxyMine, Works, IsStarting, isRunning
  <1>12. RestartsSick'
    BY <1>1, <1>2, <1>3 DEF RestartsSick
  <1>13. DownQuiet'
    BY <1>1, <1>2, <1>3 DEF Known, DownQuiet
  <1>14. RowsTellTunnels'
    BY <1>1, <1>2, <1>3 DEF RestartsSick, RowsTellTunnels, DownQuiet
  <1>15. RowsApart'
    BY <1>1, <1>2, <1>3 DEF RestartsSick, RowsApart
  <1>16. QED
    BY <1>4, <1>5, <1>6, <1>7, <1>8, <1>9, <1>10, <1>11, <1>12, <1>13, <1>14, <1>15 DEF IInv

\* A start of a serve tunnel goes on, or the user is asked.
LEMMA AskedKeeps ==
  ASSUME IInv, TypeOK', NEW t \in Tunnels, step[t] = "checking",
         \/ mode[t] = "serve" /\ Goto(t, "serving") /\ UNCHANGED pendingConfirmations
         \/ mode[t] = "funnel" /\ Goto(t, "asked") /\ pendingConfirmations' = pendingConfirmations \cup {t},
         UNCHANGED <<activeTunnels, mode, project, path, stopStep, toStop, row, proxyVars, healthVars, funnelOn, ended, up, seenVars, faultVars>>
  PROVE  IInv'
  <1> USE TunnelsAssumption DEF IInv, TypeOK, managerVars, proxyVars, healthVars, seenVars, faultVars, Goto, Fault
  <1>1. Known'
    BY DEF Known
  <1>2. Stops'
    BY DEF Known, Stops
  <1>3. RoutesKnown'
    BY DEF Known, RoutesKnown
  <1>4. WorkMixed'
    <2>1. \A u \in Tunnels : Works(u)' => Works(u)
      BY DEF Known, Stops, Works, IsStarting, IsStopping
    <2>2. QED
      BY <2>1 DEF WorkMixed
  <1>5. HasRoute'
    BY DEF Known, Stops, WorkMixed, HasRoute, Works, IsStarting, IsStopping, isRunning
  <1>6. ProxyMine'
    BY DEF Known, ProxyMine, Works, IsStarting, isRunning
  <1>7. BoundKnown'
    BY DEF Known, BoundKnown
  <1>8. Enabling'
    BY DEF Known, Enabling, BoundKnown, WorkMixed, ProxyMine, Works, IsStarting, isRunning
  <1>9. RestartsSick'
    BY DEF RestartsSick
  <1>10. DownQuiet'
    BY DEF Known, DownQuiet
  <1>11. RowsTellTunnels'
    BY DEF RestartsSick, RowsTellTunnels, DownQuiet
  <1>12. RowsApart'
    BY DEF RestartsSick, RowsApart
  <1>13. QED
    BY <1>1, <1>2, <1>3, <1>4, <1>5, <1>6, <1>7, <1>8, <1>9, <1>10, <1>11, <1>12 DEF IInv

\* A cancelled start is over.
LEMMA CancelFunnelKeeps ==
  ASSUME IInv, TypeOK', NEW t \in Tunnels, CancelFunnel(t)
  PROVE  IInv'
  <1> USE TunnelsAssumption DEF IInv, TypeOK, managerVars, proxyVars, healthVars, seenVars, faultVars, Goto, Fault, CancelFunnel
  <1>1. Known'
    BY DEF Known
  <1>2. Stops'
    BY DEF Known, Stops
  <1>3. RoutesKnown'
    BY DEF Known, RoutesKnown
  <1>4. WorkMixed'
    BY DEF Known, Stops, WorkMixed, Works, IsStarting, IsStopping
  <1>5. HasRoute'
    BY DEF Known, Stops, WorkMixed, HasRoute, Works, IsStarting, IsStopping, isRunning
  <1>6. ProxyMine'
    BY DEF Known, ProxyMine, Works, IsStarting, isRunning
  <1>7. BoundKnown'
    BY DEF Known, BoundKnown
  <1>8. Enabling'
    BY DEF Known, Enabling, BoundKnown, WorkMixed, ProxyMine, Works, IsStarting, isRunning
  <1>9. RestartsSick'
    BY DEF RestartsSick
  <1>10. DownQuiet'
    BY DEF Known, DownQuiet
  <1>11. RowsTellTunnels'
    BY DEF RestartsSick, RowsTellTunnels, DownQuiet
  <1>12. RowsApart'
    BY DEF RestartsSick, RowsApart
  <1>13. QED
    BY <1>1, <1>2, <1>3, <1>4, <1>5, <1>6, <1>7, <1>8, <1>9, <1>10, <1>11, <1>12 DEF IInv

\* The proxy of a start that met nobody gets the port.
LEMMA ProxyStartedKeeps ==
  ASSUME IInv, TypeOK', NEW t \in Tunnels, ProxyStarted(t)
  PROVE  IInv'
  <1> USE TunnelsAssumption DEF IInv, TypeOK, managerVars, proxyVars, healthVars, seenVars, faultVars, Goto, Fault, ProxyStarted
  <1>1. Known'
    BY DEF Known
  <1>2. Stops'
    BY DEF Known, Stops
  <1>3. RoutesKnown'
    BY DEF Known, RoutesKnown
  <1>4. WorkMixed'
    <2>1. \A u \in Tunnels : Works(u)' => Works(u)
      BY DEF Known, Stops, Works, IsStarting, IsStopping
    <2>2. QED
      BY <2>1 DEF WorkMixed
  <1>5. HasRoute'
    BY DEF Known, Stops, WorkMixed, HasRoute, Works, IsStarting, IsStopping, isRunning
  <1>6. ProxyMine'
    BY DEF Known, ProxyMine, Works, IsStarting, isRunning
  <1>7. BoundKnown'
    BY DEF Known, BoundKnown
  <1>8. Enabling'
    BY DEF Known, Enabling, BoundKnown, WorkMixed, ProxyMine, Works, IsStarting, isRunning
  <1>9. RestartsSick'
    BY DEF RestartsSick
  <1>10. DownQuiet'
    BY DEF Known, DownQuiet
  <1>11. RowsTellTunnels'
    BY DEF RestartsSick, RowsTellTunnels, DownQuiet
  <1>12. RowsApart'
    BY DEF RestartsSick, RowsApart
  <1>13. QED
    BY <1>1, <1>2, <1>3, <1>4, <1>5, <1>6, <1>7, <1>8, <1>9, <1>10, <1>11, <1>12 DEF IInv

\* Funnel is on for the proxy, or nobody will try again.
LEMMA FunnelStartedKeeps ==
  ASSUME IInv, TypeOK', NEW t \in Tunnels, FunnelStarted(t)
  PROVE  IInv'
  <1> USE TunnelsAssumption DEF IInv, TypeOK, managerVars, proxyVars, healthVars, seenVars, faultVars, Goto, Fault, FunnelStarted
  <1>1. \/ /\ funnelOn' = TRUE /\ unfinished' = unfinished
           /\ \/ routes' = routes /\ step' = [step EXCEPT ![t] = "done"]
              \/ /\ routes[path[t]] = None
                 /\ \A a \in Paths : routes'[a] = IF a = path[t] THEN t ELSE routes[a]
                 /\ step' = [step EXCEPT ![t] = "host"]
        \/ /\ funnelOn' = funnelOn /\ unfinished' = TRUE
           /\ routes' = routes /\ step' = [step EXCEPT ![t] = "done"]
    BY AddRouteRoutes
  <1>2. path[t] \in Paths /\ mode[t] = "funnel"
    BY DEF Known
  <1>3. Known'
    BY <1>1, <1>2 DEF Known
  <1>4. Stops'
    BY <1>1, <1>2 DEF Known, Stops
  <1>5. RoutesKnown'
    BY <1>1, <1>2 DEF Known, RoutesKnown
  <1>6. WorkMixed'
    <2>1. step[t] = "enable" /\ stopStep' = stopStep /\ mixed' = mixed
      OBVIOUS
    <2>2. \A u \in Tunnels : Works(u)' => Works(u)
      BY <1>1, <2>1 DEF Works, IsStarting, IsStopping
    <2>3. QED
      BY <2>1, <2>2 DEF WorkMixed
  <1>7. HasRoute'
    <2> SUFFICES ASSUME NEW u \in Tunnels \ mixed',
                        step'[u] = "host" \/ (u \in activeTunnels' /\ mode'[u] = "funnel" /\ ~IsStopping(u)')
               PROVE  routes'[path'[u]] = u /\ isRunning' /\ (unfinished' \/ funnelOn')
      BY DEF HasRoute
    <2>1. CASE u = t
      <3>1. step'[t] = "host"
        BY <2>1 DEF Known
      <3>2. funnelOn' = TRUE /\ routes'[path[t]] = t
        BY <1>1, <1>2, <3>1
      <3>3. QED
        BY <2>1, <3>2 DEF ProxyMine, isRunning
    <2>2. CASE u # t
      <3>1. u \notin mixed /\ step'[u] = step[u]
        BY <1>1, <2>2
      <3>2. routes[path[u]] = u /\ isRunning /\ (unfinished \/ funnelOn)
        BY <3>1 DEF HasRoute, IsStopping
      <3>3. path[u] \in Paths
        BY <3>1 DEF Known
      <3>4. QED
        BY <1>1, <3>2, <3>3 DEF isRunning
    <2>3. QED
      BY <2>1, <2>2
  <1>8. ProxyMine'
    BY <1>1, <1>2 DEF Known, ProxyMine, Works, IsStarting, isRunning
  <1>9. BoundKnown'
    BY <1>1, <1>2 DEF Known, BoundKnown
  <1>10. Enabling'
    BY <1>1, <1>2 DEF Known, Enabling, BoundKnown, WorkMixed, ProxyMine, Works, IsStarting, isRunning
  <1>11. RestartsSick'
    BY <1>1, <1>2 DEF RestartsSick
  <1>12. DownQuiet'
    BY <1>1, <1>2 DEF Known, DownQuiet
  <1>13. RowsTellTunnels'
    BY <1>1, <1>2 DEF RestartsSick, RowsTellTunnels, DownQuiet
  <1>14. RowsApart'
    BY <1>1, <1>2 DEF RestartsSick, RowsApart
  <1>15. QED
    BY <1>3, <1>4, <1>5, <1>6, <1>7, <1>8, <1>9, <1>10, <1>11, <1>12, <1>13, <1>14 DEF IInv

\* A start that has its path makes its tunnel active.
LEMMA StartedKeeps ==
  ASSUME IInv, TypeOK', NEW t \in Tunnels, Started(t)
  PROVE  IInv'
  <1> USE TunnelsAssumption DEF IInv, TypeOK, managerVars, proxyVars, healthVars, seenVars, faultVars, Goto, Fault, Started
  <1>1. Known'
    BY DEF Known
  <1>2. Stops'
    BY DEF Known, Stops
  <1>3. RoutesKnown'
    BY DEF Known, RoutesKnown
  <1>4. WorkMixed'
    BY DEF Known, Stops, WorkMixed, Works, IsStarting, IsStopping
  <1>5. HasRoute'
    BY DEF Known, Stops, WorkMixed, HasRoute, Works, IsStarting, IsStopping, isRunning
  <1>6. ProxyMine'
    BY DEF Known, ProxyMine, Works, IsStarting, isRunning
  <1>7. BoundKnown'
    BY DEF Known, BoundKnown
  <1>8. Enabling'
    BY DEF Known, Enabling, BoundKnown, WorkMixed, ProxyMine, Works, IsStarting, isRunning
  <1>9. RestartsSick'
    BY DEF RestartsSick
  <1>10. DownQuiet'
    BY DEF Known, DownQuiet
  <1>11. RowsTellTunnels'
    BY DEF RestartsSick, RowsTellTunnels, DownQuiet
  <1>12. RowsApart'
    <2> SUFFICES ASSUME NEW u \in Tunnels, u # t, row[u] = "active", mode[u] = "funnel", mode[t] = "funnel",
                        path[u] = path[t], u \notin sick \cup mixed, t \notin sick \cup mixed
               PROVE  FALSE
      BY DEF RowsApart
    <2>1. step[t] = "host" /\ up
      BY DEF Known, DownQuiet
    <2>2. u \in activeTunnels /\ ~IsStopping(u)
      BY <2>1 DEF RowsTellTunnels, WorkMixed, Works, IsStarting
    <2>3. routes[path[t]] = t
      BY <2>1 DEF HasRoute
    <2>4. routes[path[u]] = u
      BY <2>2 DEF HasRoute
    <2>5. QED
      BY <2>3, <2>4
  <1>13. QED
    BY <1>1, <1>2, <1>3, <1>4, <1>5, <1>6, <1>7, <1>8, <1>9, <1>10, <1>11, <1>12 DEF IInv

\* The stop of a funnel tunnel frees its path, the last one's takes the proxy down.
LEMMA StopFunnelKeeps ==
  ASSUME IInv, TypeOK', NEW t \in Tunnels, NEW c \in Callers, StopTunnel(t, c), StopFunnel(t, c)
  PROVE  IInv'
  <1> USE TunnelsAssumption DEF IInv
  <1>1. /\ mixed \subseteq mixed'
        /\ \A u \in Tunnels \ {t} : Works(u) => u \in mixed' /\ t \in mixed'
        /\ \A u \in Tunnels \ {t} : routes[path[t]] = u => u \in mixed'
        /\ IsStopping(t) => t \in mixed'
    BY StopMeetsMixes DEF StopFunnel
  <1>2. stopStep[t][c] = "none" /\ t \in activeTunnels \cup toStop /\ mode[t] = "funnel" /\ up
    BY DEF StopTunnel, StopFunnel
  <1>3. /\ \A a \in Paths : routes'[a] = IF a = path[t] THEN None ELSE routes[a]
        /\ \/ stopStep' = stopStep
           \/ \A u \in Tunnels, d \in Callers :
                 stopStep'[u][d] = IF u = t /\ d = c THEN "proxy" ELSE stopStep[u][d]
    BY <1>2, StopFunnelStops
  <1>4. step[t] = "done" /\ path[t] \in Paths
    BY <1>2 DEF Known
  <1>5. /\ UNCHANGED <<pendingConfirmations, mode, path, step, restarts, funnelOn, up, sick>>
        /\ toStop' \subseteq toStop
    BY DEF StopTunnel
  <1>6. \/ /\ \A u \in activeTunnels : mode[u] = "funnel" => u = t
           /\ activeTunnels' = activeTunnels /\ row' = row
           /\ server' = None /\ (bound' = None \/ bound' = bound) /\ unfinished' = FALSE
           /\ stopStep' = [stopStep EXCEPT ![t][c] = "proxy"]
        \/ /\ activeTunnels' = activeTunnels \ {t} /\ row' = [row EXCEPT ![t] = "stopped"]
           /\ server' = server /\ bound' = bound /\ unfinished' = unfinished
           /\ stopStep' = stopStep
    BY DEF StopFunnel, StopProxy, Last, FunnelTunnels, RemoveTunnel
  <1>7. activeTunnels' \subseteq activeTunnels
        /\ \A u \in Tunnels : row'[u] = row[u] \/ (u = t /\ row'[u] = "stopped")
    BY <1>6 DEF TypeOK
  <1>8. Known'
    BY <1>4, <1>5, <1>7 DEF Known
  <1>9. Stops'
    <2>1. \A u \in Tunnels, d \in Callers : stopStep'[u][d] # stopStep[u][d] => u = t /\ stopStep'[u][d] = "proxy"
      BY <1>3
    <2>2. \A a \in Paths : routes[a] = t => a = path[t]
      BY DEF RoutesKnown, TypeOK
    <2>3. \A a \in Paths : routes'[a] # t /\ (routes'[a] = routes[a] \/ routes'[a] = None)
      BY <1>3, <1>4, <2>2
    <2>4. QED
      BY <1>2, <1>4, <1>5, <2>1, <2>3 DEF Stops
  <1>10. RoutesKnown'
    BY <1>3, <1>4, <1>5, <1>6 DEF RoutesKnown, TypeOK
  <1>11. \A u \in Tunnels : Works(u)' => Works(u) \/ u = t
    BY <1>3, <1>5 DEF Works, IsStarting, IsStopping
  <1>12. WorkMixed'
    BY <1>1, <1>11 DEF WorkMixed
  <1>13. HasRoute'
    <2> SUFFICES ASSUME NEW u \in Tunnels \ mixed',
                        step'[u] = "host" \/ (u \in activeTunnels' /\ mode'[u] = "funnel" /\ ~IsStopping(u)')
               PROVE  routes'[path'[u]] = u /\ isRunning' /\ (unfinished' \/ funnelOn')
      BY DEF HasRoute
    <2>1. u # t
      <3>1. CASE t \in activeTunnels' /\ ~IsStopping(t)'
        <4>1. stopStep' = [stopStep EXCEPT ![t][c] = "proxy"]
          BY <1>6, <3>1
        <4>2. stopStep'[t][c] = "proxy"
          BY <4>1, NestedUpdate DEF TypeOK
        <4>3. QED
          BY <3>1, <4>2 DEF IsStopping
      <3>2. QED
        BY <1>4, <1>5, <3>1
    <2>2. u \notin mixed /\ (step[u] = "host" \/ (u \in activeTunnels /\ mode[u] = "funnel"))
      BY <1>1, <1>5, <1>7
    <2>3. ~IsStarting(u) /\ ~IsStopping(u)
      BY <1>1, <2>1 DEF Works
    <2>4. u \in activeTunnels /\ mode[u] = "funnel"
      BY <2>2, <2>3 DEF IsStarting
    <2>5. routes[path[u]] = u /\ isRunning /\ (unfinished \/ funnelOn)
      BY <2>2, <2>3, <2>4 DEF HasRoute
    <2>6. path[u] \in Paths /\ path[u] # path[t]
      BY <1>1, <2>1, <2>4, <2>5 DEF Known
    <2>7. server' = server /\ bound' = bound /\ unfinished' = unfinished
      BY <1>6, <2>1, <2>4
    <2>8. QED
      BY <1>3, <1>5, <2>5, <2>6, <2>7 DEF isRunning
  <1>14. ProxyMine'
    <2> SUFFICES ASSUME NEW u \in Tunnels \ mixed', IsStarting(u)'
               PROVE  server' = server /\ bound' = bound /\ u \notin mixed
      BY <1>5 DEF ProxyMine, IsStarting
    <2>1. IsStarting(u) /\ u # t
      BY <1>4, <1>5 DEF IsStarting
    <2>2. QED
      BY <1>1, <2>1 DEF Works
  <1>15. BoundKnown'
    BY <1>5, <1>6 DEF BoundKnown
  <1>16. Enabling'
    BY <1>5, <1>6 DEF Enabling, isRunning
  <1>17. RestartsSick'
    BY <1>5 DEF RestartsSick
  <1>18. DownQuiet'
    BY <1>2, <1>5 DEF DownQuiet
  <1>19. RowsTellTunnels'
    <2>1. CASE activeTunnels' = activeTunnels /\ row' = row
      BY <1>2, <1>5, <2>1 DEF RowsTellTunnels
    <2>2. CASE activeTunnels' = activeTunnels \ {t} /\ row' = [row EXCEPT ![t] = "stopped"]
      <3>1. row'[t] = "stopped" /\ \A u \in Tunnels \ {t} : row'[u] = row[u]
        BY <2>2 DEF TypeOK
      <3>2. QED
        BY <1>2, <1>5, <2>2, <3>1 DEF RowsTellTunnels
    <2>3. QED
      BY <1>6, <2>1, <2>2
  <1>20. RowsApart'
    BY <1>1, <1>5, <1>7 DEF RowsApart
  <1>21. QED
    BY <1>8, <1>9, <1>10, <1>12, <1>13, <1>14, <1>15, <1>16, <1>17, <1>18, <1>19, <1>20

\* The stop of a serve tunnel touches no path.
LEMMA StopServeKeeps ==
  ASSUME IInv, TypeOK', NEW t \in Tunnels, NEW c \in Callers, StopTunnel(t, c), StopServe(t, c)
  PROVE  IInv'
  <1> USE TunnelsAssumption DEF IInv, TypeOK, managerVars, proxyVars, healthVars, seenVars, faultVars, Goto, Fault, StopTunnel, StopServe
  <1>1. \A u \in Tunnels, d \in Callers :
          stopStep'[u][d] = IF u = t /\ d = c THEN "serve" ELSE stopStep[u][d]
    BY NestedUpdate DEF StopServe
  <1>2. Known'
    BY DEF Known
  <1>3. Stops'
    BY <1>1 DEF Known, Stops
  <1>4. RoutesKnown'
    BY DEF Known, RoutesKnown
  <1>5. WorkMixed'
    <2>1. \A u \in Tunnels : Works(u)' => Works(u)
      BY <1>1 DEF Known, Stops, Works, IsStarting, IsStopping
    <2>2. QED
      BY <2>1 DEF WorkMixed
  <1>6. HasRoute'
    BY <1>1 DEF Known, Stops, WorkMixed, HasRoute, Works, IsStarting, IsStopping, isRunning
  <1>7. ProxyMine'
    BY DEF Known, ProxyMine, Works, IsStarting, isRunning
  <1>8. BoundKnown'
    BY DEF Known, BoundKnown
  <1>9. Enabling'
    BY DEF Known, Enabling, BoundKnown, WorkMixed, ProxyMine, Works, IsStarting, isRunning
  <1>10. RestartsSick'
    BY DEF RestartsSick
  <1>11. DownQuiet'
    BY <1>1 DEF Known, DownQuiet
  <1>12. RowsTellTunnels'
    BY DEF RestartsSick, RowsTellTunnels, DownQuiet
  <1>13. RowsApart'
    BY DEF RestartsSick, RowsApart
  <1>14. QED
    BY <1>2, <1>3, <1>4, <1>5, <1>6, <1>7, <1>8, <1>9, <1>10, <1>11, <1>12, <1>13 DEF IInv

\* A stop goes on to Tailscale.
LEMMA ProxyStoppedKeeps ==
  ASSUME IInv, TypeOK', NEW t \in Tunnels, NEW c \in Callers, ProxyStopped(t, c)
  PROVE  IInv'
  <1> USE TunnelsAssumption DEF IInv, TypeOK, managerVars, proxyVars, healthVars, seenVars, faultVars, Goto, Fault, ProxyStopped
  <1>1. \A u \in Tunnels, d \in Callers :
          stopStep'[u][d] = IF u = t /\ d = c THEN "off" ELSE stopStep[u][d]
    BY NestedUpdate DEF ProxyStopped
  <1>2. Known'
    BY DEF Known
  <1>3. Stops'
    BY <1>1 DEF Known, Stops
  <1>4. RoutesKnown'
    BY DEF Known, RoutesKnown
  <1>5. WorkMixed'
    <2>1. \A u \in Tunnels : Works(u)' => Works(u)
      BY <1>1 DEF Known, Stops, Works, IsStarting, IsStopping
    <2>2. QED
      BY <2>1 DEF WorkMixed
  <1>6. HasRoute'
    BY <1>1 DEF Known, Stops, WorkMixed, HasRoute, Works, IsStarting, IsStopping, isRunning
  <1>7. ProxyMine'
    BY DEF Known, ProxyMine, Works, IsStarting, isRunning
  <1>8. BoundKnown'
    BY DEF Known, BoundKnown
  <1>9. Enabling'
    BY DEF Known, Enabling, BoundKnown, WorkMixed, ProxyMine, Works, IsStarting, isRunning
  <1>10. RestartsSick'
    BY DEF RestartsSick
  <1>11. DownQuiet'
    BY <1>1 DEF Known, DownQuiet
  <1>12. RowsTellTunnels'
    BY DEF RestartsSick, RowsTellTunnels, DownQuiet
  <1>13. RowsApart'
    BY DEF RestartsSick, RowsApart
  <1>14. QED
    BY <1>2, <1>3, <1>4, <1>5, <1>6, <1>7, <1>8, <1>9, <1>10, <1>11, <1>12, <1>13 DEF IInv

\* The stopped tunnel is removed.
LEMMA StoppedKeeps ==
  ASSUME IInv, TypeOK', NEW t \in Tunnels, NEW c \in Callers, Stopped(t, c)
  PROVE  IInv'
  <1> USE TunnelsAssumption DEF IInv
  <1>1. stopStep' = [stopStep EXCEPT ![t][c] = "none"]
    BY DEF Stopped
  <1>2. \A u \in Tunnels, d \in Callers : stopStep'[u][d] \in {"none", stopStep[u][d]}
    BY <1>1, NestedUpdate DEF TypeOK
  <1>3. /\ UNCHANGED <<pendingConfirmations, mode, path, step, toStop, server, bound, routes, restarts, up, mixed, sick>>
        /\ activeTunnels' = activeTunnels \ {t}
        /\ row' = [row EXCEPT ![t] = "stopped"]
    BY DEF Stopped, RemoveTunnel, proxyVars
  <1>4. \/ funnelOn' = funnelOn /\ unfinished' = unfinished
        \/ funnelOn' = FALSE /\ unfinished' = (unfinished \/ isRunning)
    BY DEF Stopped
  <1>5. step[t] = "done" /\ up /\ \A a \in Paths : routes[a] # t
    <2>1. stopStep[t][c] \in {"serve", "off"}
      BY DEF Stopped
    <2>2. step[t] = "done" /\ up
      BY <2>1 DEF Stops, DownQuiet
    <2>3. CASE stopStep[t][c] = "off"
      BY <2>2, <2>3 DEF Stops
    <2>4. CASE stopStep[t][c] = "serve"
      <3>1. mode[t] = "serve"
        BY <2>4 DEF Stops
      <3>2. \A a \in Paths : routes[a] = t => mode[t] = "funnel"
        BY DEF RoutesKnown, TypeOK
      <3>3. QED
        BY <2>2, <3>1, <3>2
    <2>5. QED
      BY <2>1, <2>3, <2>4
  <1>6. \A u \in Tunnels : row'[u] = row[u] \/ (u = t /\ row'[u] = "stopped")
    BY <1>3 DEF TypeOK
  <1>7. Known'
    BY <1>3, <1>5, <1>6 DEF Known
  <1>8. Stops'
    BY <1>2, <1>3 DEF Stops
  <1>9. RoutesKnown'
    BY <1>3, <1>5 DEF RoutesKnown
  <1>10. \A u \in Tunnels : /\ Works(u)' => Works(u)
                            /\ u # t /\ IsStopping(u) => IsStopping(u)'
    <2>1. \A u \in Tunnels, d \in Callers : u # t => stopStep'[u][d] = stopStep[u][d]
      BY <1>1, NestedUpdate DEF TypeOK
    <2>2. QED
      BY <1>2, <1>3, <2>1 DEF Works, IsStarting, IsStopping
  <1>11. WorkMixed'
    BY <1>3, <1>10 DEF WorkMixed
  <1>12. HasRoute'
    <2> SUFFICES ASSUME NEW u \in Tunnels \ mixed',
                        step'[u] = "host" \/ (u \in activeTunnels' /\ mode'[u] = "funnel" /\ ~IsStopping(u)')
               PROVE  routes'[path'[u]] = u /\ isRunning' /\ (unfinished' \/ funnelOn')
      BY DEF HasRoute
    <2>1. step[u] = "host" \/ (u \in activeTunnels /\ mode[u] = "funnel" /\ ~IsStopping(u))
      BY <1>3, <1>10
    <2>2. routes[path[u]] = u /\ isRunning /\ (unfinished \/ funnelOn)
      BY <1>3, <2>1 DEF HasRoute
    <2>3. QED
      BY <1>3, <1>4, <2>2 DEF isRunning
  <1>13. ProxyMine'
    BY <1>3 DEF ProxyMine
  <1>14. BoundKnown'
    BY <1>3 DEF BoundKnown
  <1>15. Enabling'
    <2>1. CASE funnelOn' = funnelOn /\ unfinished' = unfinished
      BY <1>3, <2>1 DEF Enabling, isRunning
    <2>2. CASE unfinished' = (unfinished \/ isRunning)
      BY <1>3, <2>2 DEF Enabling, isRunning
    <2>3. QED
      BY <1>4, <2>1, <2>2
  <1>16. RestartsSick'
    BY <1>3 DEF RestartsSick
  <1>17. DownQuiet'
    BY <1>3, <1>5 DEF DownQuiet
  <1>18. RowsTellTunnels'
    BY <1>3, <1>5 DEF RowsTellTunnels, TypeOK
  <1>19. RowsApart'
    BY <1>3, <1>6 DEF RowsApart
  <1>20. QED
    BY <1>7, <1>8, <1>9, <1>11, <1>12, <1>13, <1>14, <1>15, <1>16, <1>17, <1>18, <1>19

\* The end of a session only lists the tunnels to stop.
LEMMA SessionEndsKeeps ==
  ASSUME IInv, TypeOK', NEW p \in Projects, SessionEnds(p)
  PROVE  IInv'
  <1> USE TunnelsAssumption DEF IInv, TypeOK, managerVars, proxyVars, healthVars, seenVars, faultVars, Goto, Fault, SessionEnds
  <1>1. Known'
    BY DEF Known
  <1>2. Stops'
    BY DEF Known, Stops
  <1>3. RoutesKnown'
    BY DEF Known, RoutesKnown
  <1>4. WorkMixed'
    BY DEF Known, Stops, WorkMixed, Works, IsStarting, IsStopping
  <1>5. HasRoute'
    BY DEF Known, Stops, WorkMixed, HasRoute, Works, IsStarting, IsStopping, isRunning
  <1>6. ProxyMine'
    BY DEF Known, ProxyMine, Works, IsStarting, isRunning
  <1>7. BoundKnown'
    BY DEF Known, BoundKnown
  <1>8. Enabling'
    BY DEF Known, Enabling, BoundKnown, WorkMixed, ProxyMine, Works, IsStarting, isRunning
  <1>9. RestartsSick'
    BY DEF RestartsSick
  <1>10. DownQuiet'
    BY DEF Known, DownQuiet
  <1>11. RowsTellTunnels'
    BY DEF RestartsSick, RowsTellTunnels, DownQuiet
  <1>12. RowsApart'
    BY DEF RestartsSick, RowsApart
  <1>13. QED
    BY <1>1, <1>2, <1>3, <1>4, <1>5, <1>6, <1>7, <1>8, <1>9, <1>10, <1>11, <1>12 DEF IInv

\* A round of checks marks rows of tunnels that failed one.
LEMMA RunCheckKeeps ==
  ASSUME IInv, TypeOK', RunCheck
  PROVE  IInv'
  <1> USE TunnelsAssumption DEF IInv, TypeOK, managerVars, proxyVars, healthVars, seenVars, faultVars, Goto, Fault, RunCheck, Failing, Due, Lost, FunnelTunnels
  <1>1. Known'
    BY DEF Known
  <1>2. Stops'
    BY DEF Known, Stops
  <1>3. RoutesKnown'
    BY DEF Known, RoutesKnown
  <1>4. WorkMixed'
    BY DEF Known, Stops, WorkMixed, Works, IsStarting, IsStopping
  <1>5. HasRoute'
    BY DEF Known, Stops, WorkMixed, HasRoute, Works, IsStarting, IsStopping, isRunning
  <1>6. ProxyMine'
    BY DEF Known, ProxyMine, Works, IsStarting, isRunning
  <1>7. BoundKnown'
    BY DEF Known, BoundKnown
  <1>8. Enabling'
    BY DEF Known, Enabling, BoundKnown, WorkMixed, ProxyMine, Works, IsStarting, isRunning
  <1>9. RestartsSick'
    BY DEF RestartsSick
  <1>10. DownQuiet'
    BY DEF Known, DownQuiet
  <1>11. RowsTellTunnels'
    BY DEF RestartsSick, RowsTellTunnels, DownQuiet
  <1>12. RowsApart'
    BY DEF RestartsSick, RowsApart
  <1>13. QED
    BY <1>1, <1>2, <1>3, <1>4, <1>5, <1>6, <1>7, <1>8, <1>9, <1>10, <1>11, <1>12 DEF IInv

\* A restart timer makes a row active of a tunnel that failed a check.
LEMMA AttemptRestartKeeps ==
  ASSUME IInv, TypeOK', NEW t \in Tunnels, AttemptRestart(t)
  PROVE  IInv'
  <1> USE TunnelsAssumption DEF IInv, TypeOK, managerVars, proxyVars, healthVars, seenVars, faultVars, Goto, Fault, AttemptRestart
  <1>1. Known'
    BY DEF Known
  <1>2. Stops'
    BY DEF Known, Stops
  <1>3. RoutesKnown'
    BY DEF Known, RoutesKnown
  <1>4. WorkMixed'
    BY DEF Known, Stops, WorkMixed, Works, IsStarting, IsStopping
  <1>5. HasRoute'
    BY DEF Known, Stops, WorkMixed, HasRoute, Works, IsStarting, IsStopping, isRunning
  <1>6. ProxyMine'
    BY DEF Known, ProxyMine, Works, IsStarting, isRunning
  <1>7. BoundKnown'
    BY DEF Known, BoundKnown
  <1>8. Enabling'
    BY DEF Known, Enabling, BoundKnown, WorkMixed, ProxyMine, Works, IsStarting, isRunning
  <1>9. RestartsSick'
    BY DEF RestartsSick
  <1>10. DownQuiet'
    BY DEF Known, DownQuiet
  <1>11. RowsTellTunnels'
    BY DEF RestartsSick, RowsTellTunnels, DownQuiet
  <1>12. RowsApart'
    BY DEF RestartsSick, RowsApart
  <1>13. QED
    BY <1>1, <1>2, <1>3, <1>4, <1>5, <1>6, <1>7, <1>8, <1>9, <1>10, <1>11, <1>12 DEF IInv

\* A crash leaves the rows and Funnel.
LEMMA CrashKeeps ==
  ASSUME IInv, TypeOK', Crash
  PROVE  IInv'
  <1> USE TunnelsAssumption DEF IInv, TypeOK, managerVars, proxyVars, healthVars, seenVars, faultVars, Goto, Fault, Crash, NoCalls, NoRoutes
  <1>1. Known'
    BY DEF Known
  <1>2. Stops'
    BY DEF Known, Stops
  <1>3. RoutesKnown'
    BY DEF Known, RoutesKnown
  <1>4. WorkMixed'
    BY DEF Known, Stops, WorkMixed, Works, IsStarting, IsStopping
  <1>5. HasRoute'
    BY DEF Known, Stops, WorkMixed, HasRoute, Works, IsStarting, IsStopping, isRunning
  <1>6. ProxyMine'
    BY DEF Known, ProxyMine, Works, IsStarting, isRunning
  <1>7. BoundKnown'
    BY DEF Known, BoundKnown
  <1>8. Enabling'
    BY DEF Known, Enabling, BoundKnown, WorkMixed, ProxyMine, Works, IsStarting, isRunning
  <1>9. RestartsSick'
    BY DEF RestartsSick
  <1>10. DownQuiet'
    BY DEF Known, DownQuiet
  <1>11. RowsTellTunnels'
    BY DEF RestartsSick, RowsTellTunnels, DownQuiet
  <1>12. RowsApart'
    BY DEF RestartsSick, RowsApart
  <1>13. QED
    BY <1>1, <1>2, <1>3, <1>4, <1>5, <1>6, <1>7, <1>8, <1>9, <1>10, <1>11, <1>12 DEF IInv

\* A restart serves the paths of the rows it keeps.
LEMMA RestoreKeeps ==
  ASSUME IInv, TypeOK', NEW unseen \in SUBSET Tunnels, Restore(unseen)
  PROVE  IInv'
  <1> USE TunnelsAssumption DEF IInv, TypeOK, managerVars, proxyVars, healthVars, seenVars, faultVars, Goto, Fault
  <1>1. \A t \in Tunnels :
          /\ t \in activeTunnels' <=> row[t] = "active" /\ (mode[t] = "serve" \/ (funnelOn /\ t \notin unseen))
          /\ row'[t] = IF row[t] = "active" /\ t \notin activeTunnels' THEN "stopped" ELSE row[t]
    BY DEF Restore, Alive, Rows
  <1>2. \A a \in Paths : routes'[a] # None =>
          routes'[a] \in activeTunnels' /\ mode[routes'[a]] = "funnel" /\ path[routes'[a]] = a
    BY DEF Restore, Alive, Rows
  <1>3. \A t \in activeTunnels' : mode[t] = "funnel" =>
          /\ server' = 0 /\ bound' = 0 /\ funnelOn
          /\ routes'[path[t]] = t
    <2>1. ASSUME NEW t \in activeTunnels', mode[t] = "funnel" PROVE server' = 0 /\ bound' = 0 /\ funnelOn
      BY <2>1 DEF Restore, Alive, Rows
    <2>2. ASSUME NEW t \in activeTunnels', mode[t] = "funnel" PROVE routes'[path[t]] = t
      <3>1. t \in Tunnels /\ path[t] \in Paths
        BY <1>1 DEF Known
      <3>2. routes'[path[t]] \in Alive(unseen) /\ mode[routes'[path[t]]] = "funnel" /\ path[routes'[path[t]]] = path[t]
        BY <2>2, <3>1 DEF Restore
      <3>3. QED
        BY <2>2, <3>2 DEF Restore, Conflict
    <2>3. QED
      BY <2>1, <2>2
  <1>4. /\ \A t \in activeTunnels' : step[t] = "done" /\ t \in Tunnels
        /\ \/ server' = 0 /\ bound' = 0
           \/ server' = server /\ bound' = bound
        /\ \A t \in Tunnels : step[t] \in {"new", "done"}
        /\ \A t \in Tunnels, c \in Callers : stopStep[t][c] = "none"
        /\ step' = step /\ stopStep' = stopStep /\ mode' = mode /\ path' = path
        /\ mixed' = mixed /\ sick' = sick
    BY <1>1 DEF Restore, Known, DownQuiet
  <1>5. Known'
    <2>1. UNCHANGED <<pendingConfirmations, mode, path, step, toStop, restarts>>
      BY DEF Restore
    <2>2. \A t \in Tunnels : row'[t] # "none" => row[t] # "none"
      BY <1>1
    <2>3. QED
      BY <1>4, <2>1, <2>2 DEF Known
  <1>6. Stops'
    BY <1>1, <1>2, <1>3, <1>4 DEF Known, Stops
  <1>7. RoutesKnown'
    BY <1>1, <1>2, <1>3, <1>4 DEF Known, RoutesKnown
  <1>8. WorkMixed'
    BY <1>1, <1>2, <1>3, <1>4 DEF Known, Stops, WorkMixed, Works, IsStarting, IsStopping
  <1>9. HasRoute'
    BY <1>1, <1>2, <1>3, <1>4 DEF Known, Stops, WorkMixed, HasRoute, Works, IsStarting, IsStopping, isRunning, Restore
  <1>10. ProxyMine'
    BY <1>1, <1>2, <1>3, <1>4 DEF Known, ProxyMine, Works, IsStarting, isRunning
  <1>11. BoundKnown'
    BY <1>1, <1>2, <1>3, <1>4 DEF Known, BoundKnown, Tunnels
  <1>12. Enabling'
    BY <1>1, <1>2, <1>3, <1>4 DEF Known, Enabling, BoundKnown, WorkMixed, ProxyMine, Works, IsStarting, isRunning, Restore
  <1>13. RestartsSick'
    BY <1>1, <1>2, <1>3, <1>4 DEF RestartsSick, Restore
  <1>14. DownQuiet'
    BY <1>1, <1>2, <1>3, <1>4 DEF Known, DownQuiet, Restore
  <1>15. RowsTellTunnels'
    <2>1. \A t \in Tunnels : row'[t] = "active" <=> t \in activeTunnels'
      BY <1>1
    <2>2. QED
      BY <2>1 DEF RowsTellTunnels
  <1>16. RowsApart'
    BY <1>1, <1>2, <1>3, <1>4 DEF RestartsSick, RowsApart
  <1>17. QED
    BY <1>5, <1>6, <1>7, <1>8, <1>9, <1>10, <1>11, <1>12, <1>13, <1>14, <1>15, <1>16 DEF IInv

-----------------------------------------------------------------------------

LEMMA NextIInv == IInv /\ [Next]_vars => IInv'
  <1> SUFFICES ASSUME IInv, [Next]_vars PROVE IInv'
    OBVIOUS
  <1>0. TypeOK'
    BY NextTypeOK
  <1>1. ASSUME NEW t \in Tunnels, Checked(t) PROVE IInv'
    <2>1. CASE StartFunnelDirect(t) /\ mode[t] = "funnel" /\ UNCHANGED pendingConfirmations
      <3>1. t \notin pendingConfirmations
        BY <1>1 DEF Checked, IInv, Known
      <3>2. QED
        BY <1>0, <1>1, <2>1, <3>1, StartFunnelDirectKeeps DEF Checked
    <2>2. CASE \/ mode[t] = "serve" /\ Goto(t, "serving") /\ UNCHANGED <<pendingConfirmations, proxyVars, seenVars>>
               \/ /\ mode[t] = "funnel" /\ Goto(t, "asked")
                  /\ pendingConfirmations' = pendingConfirmations \cup {t} /\ UNCHANGED <<proxyVars, seenVars>>
      <3>1. UNCHANGED <<activeTunnels, mode, project, path, stopStep, toStop, row, healthVars, funnelOn, ended, up, faultVars>>
            /\ step[t] = "checking"
        BY <1>1 DEF Checked
      <3>2. QED
        BY <1>0, <2>2, <3>1, AskedKeeps
    <2>3. QED
      BY <1>1, <2>1, <2>2 DEF Checked
  <1>2. ASSUME NEW t \in Tunnels, ConfirmFunnel(t) PROVE IInv'
    <2>1. step[t] = "asked" /\ mode[t] = "funnel"
      BY <1>2 DEF ConfirmFunnel, IInv, Known
    <2>2. QED
      BY <1>0, <1>2, <2>1, StartFunnelDirectKeeps DEF ConfirmFunnel
  <1>3. ASSUME NEW t \in Tunnels, NEW c \in Callers, StopTunnel(t, c) PROVE IInv'
    BY <1>0, <1>3, StopFunnelKeeps, StopServeKeeps DEF StopTunnel
  <1>4. ASSUME NEW t \in Tunnels, NEW input \in Inputs[t], Start(t, input) PROVE IInv'
    BY <1>0, <1>4, StartKeeps
  <1>5. CASE UNCHANGED vars \/ \E t \in Tunnels : Served(t) \/ Expires(t)
    <2> USE <1>5 DEF Served, Expires, IInv, vars, managerVars, proxyVars, healthVars, seenVars, faultVars
    <2>1. TypeOK' /\ Known' /\ Stops' /\ RoutesKnown'
      BY <1>0 DEF Known, Stops, RoutesKnown
    <2>2. WorkMixed' /\ HasRoute' /\ ProxyMine' /\ BoundKnown' /\ Enabling'
      BY DEF WorkMixed, HasRoute, ProxyMine, BoundKnown, Enabling, Works, IsStarting, IsStopping, isRunning
    <2>3. RestartsSick' /\ DownQuiet' /\ RowsTellTunnels' /\ RowsApart'
      BY DEF RestartsSick, DownQuiet, RowsTellTunnels, RowsApart
    <2>4. QED
      BY <2>1, <2>2, <2>3
  <1>6. ASSUME NEW unseen \in SUBSET Tunnels, Restore(unseen) PROVE IInv'
    BY <1>0, <1>6, RestoreKeeps
  <1>7. ASSUME NEW t \in Tunnels, ProxyStarted(t) \/ FunnelStarted(t) \/ Started(t) \/ CancelFunnel(t) \/ AttemptRestart(t)
        PROVE  IInv'
    BY <1>0, <1>7, CancelFunnelKeeps, ProxyStartedKeeps, FunnelStartedKeeps, StartedKeeps, AttemptRestartKeeps
  <1>8. ASSUME NEW t \in Tunnels, NEW c \in Callers, ProxyStopped(t, c) \/ Stopped(t, c) PROVE IInv'
    BY <1>0, <1>8, ProxyStoppedKeeps, StoppedKeeps
  <1>9. QED
    BY <1>0, <1>1, <1>2, <1>3, <1>4, <1>5, <1>6, <1>7, <1>8, SessionEndsKeeps, RunCheckKeeps, CrashKeeps DEF Next

LEMMA Invariance == Spec => []IInv
  <1>1. QED
    BY InitIInv, NextIInv, PTL DEF Spec

-----------------------------------------------------------------------------
(* The addresses that were served, an invariant over the one above *)

\* Only a tunnel that had a path is remembered.
CacheKnown == \A t \in cache : mode[t] = "funnel" /\ step[t] # "new"

\* The proxy stops for the last tunnel: the others have met the stop.
StopAlone ==
    \A w \in Tunnels : IsStopping(w) => \A u \in activeTunnels \ {w} : mode[u] = "funnel" => u \in mixed

\* What is served while the proxy stops has met the stop.
CacheMet == \A w \in Tunnels : IsStopping(w) => cache \subseteq mixed

CacheServed ==
    \A t \in cache \ (activeTunnels \cup mixed) :
        step[t] = "host" \/ \E u \in activeTunnels : mode[u] = "funnel"

DownEmpty == ~up => activeTunnels = {} /\ cache = {}

CacheInv ==
    /\ CacheKnown
    /\ StopAlone
    /\ CacheMet
    /\ CacheServed
    /\ DownEmpty

LEMMA InitCacheInv == Init => CacheInv
  BY DEF Init, CacheInv, CacheKnown, StopAlone, CacheMet, CacheServed, DownEmpty, NoCalls, IsStopping

\* Most steps leave the active tunnels, begin no stop of the proxy and remember
\* nothing new.
LEMMA CacheKept ==
  ASSUME IInv, CacheInv, TypeOK',
         activeTunnels' = activeTunnels, cache' \subseteq cache, mixed \subseteq mixed', up' = up,
         \A u \in Tunnels : IsStopping(u)' => IsStopping(u),
         \A u \in Tunnels : step[u] # "new" => mode'[u] = mode[u] /\ step'[u] # "new",
         \A u \in Tunnels : step[u] = "host" => step'[u] = "host"
  PROVE  CacheInv'
  <1> USE DEF CacheInv
  <1>1. activeTunnels \subseteq Tunnels /\ cache \subseteq Tunnels
        /\ \A u \in activeTunnels : step[u] = "done"
    BY DEF IInv, TypeOK, Known
  <1>2. CacheKnown' /\ DownEmpty'
    BY <1>1 DEF CacheKnown, DownEmpty
  <1>3. StopAlone'
    BY <1>1 DEF StopAlone
  <1>4. CacheMet'
    BY DEF CacheMet
  <1>5. CacheServed'
    BY <1>1 DEF CacheServed
  <1>6. QED
    BY <1>2, <1>3, <1>4, <1>5

\* The tunnel that becomes active has met the stop that goes on, if any.
LEMMA StartedCache ==
  ASSUME IInv, CacheInv, TypeOK', NEW t \in Tunnels, Started(t)
  PROVE  CacheInv'
  <1> USE DEF CacheInv
  <1>1. /\ step[t] \in {"host", "serving"} /\ activeTunnels' = activeTunnels \cup {t}
        /\ \A u \in Tunnels : step'[u] = IF u = t THEN "done" ELSE step[u]
        /\ UNCHANGED <<mode, stopStep, cache, mixed, up>>
        /\ activeTunnels \subseteq Tunnels /\ cache \subseteq Tunnels
    BY DEF Started, Goto, IInv, TypeOK, proxyVars, seenVars
  <1>2. up
    BY <1>1 DEF IInv, DownQuiet
  <1>3. CacheKnown' /\ DownEmpty'
    BY <1>1, <1>2 DEF CacheKnown, DownEmpty
  <1>4. StopAlone'
    <2>1. \A w \in Tunnels : IsStopping(w)' => IsStopping(w) /\ step[w] = "done"
      BY <1>1 DEF IsStopping, IInv, Stops
    <2>2. \A w \in Tunnels : IsStopping(w) /\ step[t] = "host" /\ w # t => t \in mixed
      BY DEF IInv, WorkMixed, Works, IsStarting
    <2>3. step[t] = "serving" => mode[t] = "serve"
      BY DEF IInv, Known
    <2>4. QED
      BY <1>1, <2>1, <2>2, <2>3 DEF StopAlone
  <1>5. CacheMet'
    BY <1>1 DEF CacheMet, IsStopping
  <1>6. CacheServed'
    BY <1>1 DEF CacheServed
  <1>7. QED
    BY <1>3, <1>4, <1>5, <1>6

\* A stop that takes the proxy down forgets all addresses.
LEMMA StopFunnelCache ==
  ASSUME IInv, CacheInv, TypeOK', NEW t \in Tunnels, NEW c \in Callers, StopTunnel(t, c), StopFunnel(t, c)
  PROVE  CacheInv'
  <1> USE DEF CacheInv
  <1>1. /\ mixed \subseteq mixed'
        /\ IsStopping(t) => t \in mixed'
        /\ \A u \in Tunnels \ {t} : Works(u) => t \in mixed'
    BY StopMeetsMixes DEF IInv, StopFunnel
  <1>2. UNCHANGED <<mode, step, up>> /\ up /\ stopStep[t][c] = "none"
    BY DEF StopTunnel
  <1>3. activeTunnels \subseteq Tunnels /\ cache \subseteq Tunnels
    BY DEF IInv, TypeOK
  <1>4. CASE Last(t) /\ StopProxy /\ UNCHANGED activeTunnels /\ stopStep' = [stopStep EXCEPT ![t][c] = "proxy"]
    <2>1. cache' = {} /\ activeTunnels' = activeTunnels
      BY <1>4 DEF StopProxy
    <2>2. \A u \in activeTunnels : mode[u] = "funnel" => u = t
      BY <1>4 DEF Last, FunnelTunnels
    <2>3. \A w \in Tunnels \ {t} : IsStopping(w)' => IsStopping(w)
      BY <1>4, NestedUpdate DEF IInv, TypeOK, IsStopping
    <2>4. \A w \in Tunnels \ {t} : IsStopping(w) => t \in mixed'
      BY <1>1 DEF Works
    <2>5. StopAlone'
      BY <1>2, <2>1, <2>2, <2>3, <2>4 DEF StopAlone
    <2>6. CacheKnown' /\ CacheMet' /\ CacheServed' /\ DownEmpty'
      BY <1>2, <2>1 DEF CacheKnown, CacheMet, CacheServed, DownEmpty
    <2>7. QED
      BY <2>5, <2>6
  <1>5. CASE ~Last(t) /\ RemoveTunnel(t) /\ UNCHANGED <<cache, stopStep>>
    <2>1. activeTunnels' = activeTunnels \ {t} /\ cache' = cache /\ stopStep' = stopStep
      BY <1>5 DEF RemoveTunnel
    <2>2. \E u \in activeTunnels' : mode[u] = "funnel"
      BY <1>5, <2>1 DEF Last, FunnelTunnels
    <2>3. CacheKnown' /\ CacheServed' /\ DownEmpty'
      BY <1>2, <2>1, <2>2 DEF CacheKnown, CacheServed, DownEmpty
    <2>4. StopAlone' /\ CacheMet'
      BY <1>1, <1>2, <1>3, <2>1 DEF StopAlone, CacheMet, IsStopping
    <2>5. QED
      BY <2>3, <2>4
  <1>6. QED
    BY <1>4, <1>5 DEF StopFunnel

\* What is remembered when a stop of the proxy ends has met it; the end of a
\* serve tunnel is no concern of the proxy.
LEMMA StoppedCache ==
  ASSUME IInv, CacheInv, TypeOK', NEW t \in Tunnels, NEW c \in Callers, Stopped(t, c)
  PROVE  CacheInv'
  <1> USE DEF CacheInv
  <1>1. /\ activeTunnels' = activeTunnels \ {t} /\ stopStep' = [stopStep EXCEPT ![t][c] = "none"]
        /\ UNCHANGED <<mode, step, cache, mixed, up>>
        /\ activeTunnels \subseteq Tunnels /\ cache \subseteq Tunnels
    BY DEF Stopped, RemoveTunnel, proxyVars, IInv, TypeOK
  <1>2. \A u \in Tunnels : IsStopping(u)' => IsStopping(u)
    BY <1>1, NestedUpdate DEF IInv, TypeOK, IsStopping
  <1>3. CacheKnown' /\ DownEmpty'
    BY <1>1 DEF CacheKnown, DownEmpty
  <1>4. StopAlone' /\ CacheMet'
    BY <1>1, <1>2 DEF StopAlone, CacheMet
  <1>5. CacheServed'
    <2>1. CASE stopStep[t][c] = "off"
      <3>1. cache \subseteq mixed
        BY <2>1 DEF CacheMet, IsStopping
      <3>2. QED
        BY <1>1, <3>1 DEF CacheServed
    <2>2. CASE stopStep[t][c] = "serve"
      <3>1. mode[t] = "serve"
        BY <2>2 DEF IInv, Stops
      <3>2. QED
        BY <1>1, <3>1 DEF CacheServed, CacheKnown
    <2>3. QED
      BY <2>1, <2>2 DEF Stopped
  <1>6. QED
    BY <1>3, <1>4, <1>5

\* A tunnel is reached by its path, which it lost if it is being stopped.
LEMMA ServedCache ==
  ASSUME IInv, CacheInv, TypeOK', NEW t \in Tunnels, Served(t)
  PROVE  CacheInv'
  <1> USE DEF CacheInv
  <1>1. /\ cache' = cache \cup {t}
        /\ UNCHANGED <<activeTunnels, mode, step, stopStep, mixed, up>>
    BY DEF Served, managerVars, seenVars
  <1>2. CASE t \in cache
    <2>1. cache' = cache
      BY <1>1, <1>2
    <2>2. QED
      BY <1>1, <2>1 DEF CacheKnown, StopAlone, CacheMet, CacheServed, DownEmpty, IsStopping
  <1>3. CASE \E a \in Paths : routes[a] = t
    <2>1. PICK a \in Paths : routes[a] = t
      BY <1>3
    <2>2. mode[t] = "funnel" /\ (t \in activeTunnels \/ step[t] = "host")
      <3>1. t # None
        BY TunnelsAssumption
      <3>2. QED
        BY <2>1, <3>1 DEF IInv, RoutesKnown
    <2>3. step[t] \in {"host", "done"}
      BY <2>2 DEF IInv, Known
    <2>4. up
      BY <2>2 DEF IInv, DownQuiet, DownEmpty
    <2>5. ASSUME NEW w \in Tunnels, IsStopping(w) PROVE t \in mixed
      <3>1. w # t /\ step[w] = "done"
        BY <2>1, <2>5 DEF IInv, Stops, IsStopping
      <3>2. step[t] = "host" => t \in mixed
        BY <2>5, <3>1 DEF IInv, WorkMixed, Works, IsStarting
      <3>3. t \in activeTunnels => t \in mixed
        BY <2>2, <2>5, <3>1 DEF StopAlone
      <3>4. QED
        BY <2>2, <3>2, <3>3
    <2>6. CacheKnown' /\ CacheServed' /\ DownEmpty'
      BY <1>1, <2>2, <2>3, <2>4 DEF CacheKnown, CacheServed, DownEmpty
    <2>7. StopAlone'
      BY <1>1 DEF StopAlone, IsStopping
    <2>8. CacheMet'
      BY <1>1, <2>5 DEF CacheMet, IsStopping
    <2>9. QED
      BY <2>6, <2>7, <2>8
  <1>4. QED
    BY <1>2, <1>3 DEF Served

LEMMA NextCacheInv == IInv /\ CacheInv /\ TypeOK' /\ [Next]_vars => CacheInv'
  <1> SUFFICES ASSUME IInv, CacheInv, TypeOK', [Next]_vars PROVE CacheInv'
    OBVIOUS
  <1> USE DEF managerVars, proxyVars, healthVars, seenVars, faultVars
  <1>1. ASSUME NEW t \in Tunnels, NEW input \in Inputs[t], Start(t, input) PROVE CacheInv'
    <2>1. \A u \in Tunnels : IsStopping(u)' => IsStopping(u)
      BY <1>1 DEF Start, IsStopping
    <2>2. \A u \in Tunnels \ {t} : mode'[u] = mode[u] /\ step'[u] = step[u]
      BY <1>1 DEF Start, Goto, IInv, TypeOK
    <2>3. step[t] = "new"
      BY <1>1 DEF Start
    <2>4. activeTunnels' = activeTunnels /\ cache' = cache /\ mixed' = mixed /\ up' = up
      BY <1>1 DEF Start
    <2>5. QED
      BY <2>1, <2>2, <2>3, <2>4, CacheKept
  <1>2. ASSUME NEW t \in Tunnels, Checked(t) \/ ConfirmFunnel(t) \/ CancelFunnel(t) PROVE CacheInv'
    <2>1. step[t] \in {"checking", "asked"}
      BY <1>2 DEF Checked, ConfirmFunnel, CancelFunnel, IInv, Known
    <2>2. UNCHANGED <<activeTunnels, mode, stopStep, up>>
      BY <1>2 DEF Checked, ConfirmFunnel, CancelFunnel
    <2>3. cache' = cache /\ mixed \subseteq mixed'
      BY <1>2, MeetsMixes DEF Checked, ConfirmFunnel, CancelFunnel, StartFunnelDirect, IInv
    <2>4. \E s \in {"serving", "proxy", "host", "done", "asked"} : step' = [step EXCEPT ![t] = s]
      BY <1>2 DEF Checked, ConfirmFunnel, CancelFunnel, StartFunnelDirect, AddRoute, Goto
    <2>5. \A u \in Tunnels : /\ u # t => step'[u] = step[u]
                             /\ step'[t] # "new"
      BY <2>4 DEF IInv, TypeOK
    <2>6. \A u \in Tunnels : IsStopping(u)' => IsStopping(u)
      BY <2>2 DEF IsStopping
    <2>7. QED
      BY <2>1, <2>2, <2>3, <2>5, <2>6, CacheKept
  <1>3. ASSUME NEW t \in Tunnels, ProxyStarted(t) \/ FunnelStarted(t) PROVE CacheInv'
    <2>1. step[t] \in {"proxy", "enable"} /\ UNCHANGED <<activeTunnels, mode, stopStep, up, cache, mixed>>
      BY <1>3 DEF ProxyStarted, FunnelStarted
    <2>2. \E s \in {"enable", "host", "done"} : step' = [step EXCEPT ![t] = s]
      BY <1>3 DEF ProxyStarted, FunnelStarted, AddRoute, Goto
    <2>3. \A u \in Tunnels : /\ u # t => step'[u] = step[u]
                             /\ step'[t] # "new"
      BY <2>2 DEF IInv, TypeOK
    <2>4. \A u \in Tunnels : IsStopping(u)' => IsStopping(u)
      BY <2>1 DEF IsStopping
    <2>5. QED
      BY <2>1, <2>3, <2>4, CacheKept
  <1>4. ASSUME NEW t \in Tunnels, NEW c \in Callers, StopTunnel(t, c) PROVE CacheInv'
    <2>1. CASE StopServe(t, c)
      <3>1. stopStep' = [stopStep EXCEPT ![t][c] = "serve"]
            /\ UNCHANGED <<activeTunnels, mode, step, up, cache, mixed>>
        BY <1>4, <2>1 DEF StopTunnel, StopServe
      <3>2. \A u \in Tunnels : IsStopping(u)' => IsStopping(u)
        BY <3>1, NestedUpdate DEF IInv, TypeOK, IsStopping
      <3>3. QED
        BY <3>1, <3>2, CacheKept
    <2>2. QED
      BY <1>4, <2>1, StopFunnelCache DEF StopTunnel
  <1>5. ASSUME NEW t \in Tunnels, NEW c \in Callers, ProxyStopped(t, c) PROVE CacheInv'
    <2>1. stopStep[t][c] = "proxy" /\ stopStep' = [stopStep EXCEPT ![t][c] = "off"]
          /\ UNCHANGED <<activeTunnels, mode, step, up, cache, mixed>>
      BY <1>5 DEF ProxyStopped
    <2>2. \A u \in Tunnels : IsStopping(u)' => IsStopping(u)
      BY <2>1, NestedUpdate DEF IInv, TypeOK, IsStopping
    <2>3. QED
      BY <2>1, <2>2, CacheKept
  <1>6. ASSUME \/ UNCHANGED vars
               \/ \E p \in Projects : SessionEnds(p)
               \/ RunCheck
               \/ \E t \in Tunnels : AttemptRestart(t) \/ Expires(t)
        PROVE CacheInv'
    <2>1. UNCHANGED <<activeTunnels, mode, step, stopStep, up, mixed>> /\ cache' \subseteq cache
      BY <1>6 DEF vars, SessionEnds, RunCheck, AttemptRestart, Expires
    <2>2. \A u \in Tunnels : IsStopping(u)' => IsStopping(u)
      BY <2>1 DEF IsStopping
    <2>3. QED
      BY <2>1, <2>2, CacheKept
  <1>7. CASE Crash
    BY <1>7 DEF Crash, NoCalls, IsStopping, CacheInv, CacheKnown, StopAlone, CacheMet, CacheServed, DownEmpty
  <1>8. ASSUME NEW unseen \in SUBSET Tunnels, Restore(unseen) PROVE CacheInv'
    <2>1. cache' = cache /\ cache = {} /\ stopStep' = stopStep /\ up'
      BY <1>8 DEF Restore, CacheInv, DownEmpty
    <2>2. \A w \in Tunnels : ~IsStopping(w)
      BY <1>8 DEF Restore, IInv, DownQuiet, IsStopping
    <2>3. QED
      BY <2>1, <2>2 DEF IsStopping, CacheInv, CacheKnown, StopAlone, CacheMet, CacheServed, DownEmpty
  <1>9. ASSUME NEW t \in Tunnels, Served(t) \/ Started(t) PROVE CacheInv'
    BY <1>9, ServedCache, StartedCache
  <1>10. ASSUME NEW t \in Tunnels, NEW c \in Callers, Stopped(t, c) PROVE CacheInv'
    BY <1>10, StoppedCache
  <1>11. QED
    BY <1>1, <1>2, <1>3, <1>4, <1>5, <1>6, <1>7, <1>8, <1>9, <1>10 DEF Next

LEMMA CacheInvariance == Spec => [](IInv /\ CacheInv)
  <1>1. Init => IInv /\ CacheInv
    BY InitIInv, InitCacheInv
  <1>2. (IInv /\ CacheInv) /\ [Next]_vars => (IInv /\ CacheInv)'
    BY NextIInv, NextTypeOK, NextCacheInv
  <1>3. QED
    BY <1>1, <1>2, PTL DEF Spec

-----------------------------------------------------------------------------
(* The results *)

LEMMA HasRouteReachable == IInv => Reachable
  BY DEF IInv, TypeOK, HasRoute, Reachable, FunnelTunnels, Stopping, IsStopping

LEMMA CacheInvNoStrayPath == IInv /\ CacheInv => NoStrayPath
  BY DEF IInv, RoutesKnown, CacheInv, CacheServed, NoStrayPath, FunnelTunnels

LEMMA RowsApartCanRestart == IInv => CanRestart
  BY DEF IInv, RowsApart, CanRestart, Rows

\* Type correctness (the run MCTunnels checks the same on a small instance).
THEOREM TypeCorrect == Spec => []TypeOK
  <1>1. IInv => TypeOK
    BY DEF IInv
  <1>2. QED
    BY <1>1, Invariance, PTL

\* A funnel tunnel that is active and met nobody can be reached, unless Funnel
\* failed for the proxy.
THEOREM ReachableAlways == Spec => []Reachable
  BY HasRouteReachable, Invariance, PTL

\* No path of the proxy leads to a tunnel that was stopped, and no address it
\* has served does, unless another funnel tunnel keeps the proxy up or the
\* tunnel met another call.
THEOREM NoStrayPathAlways == Spec => []NoStrayPath
  BY CacheInvNoStrayPath, CacheInvariance, PTL

\* The rows are the active tunnels, except for those that failed a check.
THEOREM RowsTellTunnelsAlways == Spec => []RowsTellTunnels
  <1>1. IInv => RowsTellTunnels
    BY DEF IInv
  <1>2. QED
    BY <1>1, Invariance, PTL

\* Two rows with one path, which keep the gateway from starting, come only from
\* failed checks or from a start that met a stop.
THEOREM CanRestartAlways == Spec => []CanRestart
  BY RowsApartCanRestart, Invariance, PTL
=============================================================================
