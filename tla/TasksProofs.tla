----------------------------- MODULE TasksProofs -----------------------------
(***************************************************************************)
(* What holds of background tasks whatever the number of requests and      *)
(* ports.                                                                  *)
(*                                                                         *)
(* The properties speak of tasks; a task comes from a request that passed  *)
(* the check for a duplicate earlier and awaited in between.  The          *)
(* invariant says of such requests what the properties say of tasks: it is *)
(* late if its session is gone (QuietSearch), and it has met every other   *)
(* such request (SearchesMet), every task that does not listen yet         *)
(* (UnboundMet) and every task with the port it has found (FoundMet).      *)
(* Why requests end comes last: each has so many steps left (StepsLeft).   *)
(***************************************************************************)
EXTENDS Tasks, TLAPS, FiniteSetTheorems

Searches(r) == at[r] \in {"port", "probe", "told"}
Lives(t) == proc[t] = "running"
Own(t) == Lives(t) /\ t \notin orphans
Pair(t, u) == <<t, u>> \in met \/ <<u, t>> \in met

\* Requests that have begun are for a command of a project.
Asked ==
    \A r \in Requests : at[r] # "new" => project[r] \in Projects /\ command[r] \in Commands

\* ListIsExact, and that a request under way has no process yet.
ListInv ==
    /\ \A r \in Requests : at[r] \in {"new", "session", "port", "probe", "told"} => proc[r] = "none"
    /\ \A t \in orphans : proc[t] # "none"
    /\ \A t \in Requests : t \in tasks <=> Own(t)

\* A request that searches after its session ended is late.
QuietSearch ==
    \A r \in Requests : Searches(r) /\ (stopping \/ project[r] \notin session) => r \in late

QuietTasks ==
    \A t \in Requests : Own(t) /\ (stopping \/ project[t] \notin session) => t \in told \cup late

\* Searches are for projects with a port, and they have all met.
SearchesMet ==
    /\ \A r \in Requests : Searches(r) => project[r] \in HasPort
    /\ \A r, s \in Requests : r # s /\ Searches(r) /\ Searches(s) => Pair(r, s)

TwinsMet ==
    \A r, t \in Requests :
        /\ r # t /\ Own(t) /\ (Searches(r) \/ Own(r))
        /\ project[r] = project[t] /\ command[r] = command[t]
        /\ kind[r] # "duplicate" /\ kind[t] # "duplicate"
        => Pair(r, t)

UnboundMet ==
    \A r, t \in Requests :
        Searches(r) /\ Lives(t) /\ port[t] # None /\ listener[port[t]] # t => Pair(r, t)

FoundMet ==
    \A r, t \in Requests :
        at[r] \in {"probe", "told"} /\ Lives(t) /\ port[t] # None /\ port[t] = candidate[r] => Pair(r, t)

PortsMet ==
    \A t, u \in Requests :
        t # u /\ Lives(t) /\ Lives(u) /\ port[t] # None /\ port[t] = port[u] => Pair(t, u)

IInv ==
    /\ TypeOK /\ Asked
    /\ ListInv
    /\ QuietSearch /\ QuietTasks
    /\ SearchesMet /\ TwinsMet
    /\ UnboundMet /\ FoundMet /\ PortsMet

-----------------------------------------------------------------------------

\* Initially nothing runs.
LEMMA InitIInv == Init => IInv
  <1> SUFFICES ASSUME Init PROVE IInv
    OBVIOUS
  <1>1. TypeOK
    BY TasksAssumption DEF Init, TypeOK
  <1>2. Asked /\ ListInv /\ QuietSearch /\ QuietTasks
    BY DEF Init, Asked, ListInv, QuietSearch, QuietTasks, Searches, Lives, Own
  <1>3. SearchesMet /\ TwinsMet /\ UnboundMet /\ FoundMet /\ PortsMet
    BY DEF Init, SearchesMet, TwinsMet, UnboundMet, FoundMet, PortsMet, Searches, Lives, Own
  <1>4. QED
    BY <1>1, <1>2, <1>3 DEF IInv

-----------------------------------------------------------------------------
(* Types *)

\* The next place in the order of starts is a number.
LEMMA PlacesCount == Cardinality({t \in Requests : startedAt[t] > 0}) + 1 \in Nat
  <1>1. IsFiniteSet(Requests)
    BY FS_Interval, TasksAssumption DEF Requests
  <1>2. IsFiniteSet({t \in Requests : startedAt[t] > 0})
    BY <1>1, FS_Subset
  <1>3. Cardinality({t \in Requests : startedAt[t] > 0}) \in Nat
    BY <1>2, FS_CardinalityType
  <1>4. QED
    BY <1>3

\* What Start changes keeps its type.
LEMMA StartTypes ==
  ASSUME TypeOK, NEW r \in Requests, NEW p, NEW q \in Ports \cup {None}, Start(r, p, q)
  PROVE  /\ at' \in [Requests -> {"new", "session", "port", "probe", "told", "done", "failed"}]
         /\ tasks' \subseteq Requests
         /\ startedAt' \in [Requests -> Nat]
         /\ port' \in [Requests -> Ports \cup {None}]
         /\ proc' \in [Requests -> {"none", "running", "gone"}]
         /\ up' \in BOOLEAN
         /\ orphans' \subseteq Requests
  <1>1. CASE p \notin Missing
    BY <1>1, PlacesCount DEF TypeOK, Start, Goto
  <1>2. CASE p \in Missing
    BY <1>2 DEF TypeOK, Start, GatewayGone, Living
  <1>3. QED
    BY <1>1, <1>2

LEMMA BackgroundTypes ==
  ASSUME TypeOK, NEW r \in Requests, NEW p \in Projects, NEW c \in Commands, ExecuteBackground(r, p, c)
  PROVE  /\ at' \in [Requests -> {"new", "session", "port", "probe", "told", "done", "failed"}]
         /\ candidate' \in [Requests -> Ports \cup {None}]
         /\ tasks' \subseteq Requests
         /\ startedAt' \in [Requests -> Nat]
         /\ port' \in [Requests -> Ports \cup {None}]
         /\ proc' \in [Requests -> {"none", "running", "gone"}]
         /\ up' \in BOOLEAN
         /\ orphans' \subseteq Requests
         /\ met' \subseteq Requests \X Requests
  <1>1. CASE Duplicate(p, c)
    BY <1>1 DEF TypeOK, ExecuteBackground, Goto, taskVars
  <1>2. CASE ~Duplicate(p, c) /\ p \in HasPort
    <2>1. FirstPort \in Ports
      BY TasksAssumption DEF Ports
    <2>2. Searching \subseteq Requests /\ Unbound \subseteq Requests
      BY DEF Searching, Unbound, Living
    <2>3. met' = met \cup ({r} \X (Searching \cup Unbound))
      BY <1>2 DEF ExecuteBackground
    <2>4. met' \subseteq Requests \X Requests
      BY <2>2, <2>3 DEF TypeOK
    <2>5. QED
      BY <1>2, <2>1, <2>4 DEF TypeOK, ExecuteBackground, Goto, taskVars
  <1>3. CASE ~Duplicate(p, c) /\ p \notin HasPort
    <2>1. Start(r, p, None) /\ UNCHANGED <<candidate, met>>
      BY <1>3 DEF ExecuteBackground
    <2>2. QED
      BY <2>1, StartTypes DEF TypeOK
  <1>4. QED
    BY <1>1, <1>2, <1>3

LEMMA ExecuteTypes ==
  ASSUME TypeOK, NEW r \in Requests, NEW p \in Projects, NEW c \in Commands, Execute(r, p, c)
  PROVE  /\ at' \in [Requests -> {"new", "session", "port", "probe", "told", "done", "failed"}]
         /\ candidate' \in [Requests -> Ports \cup {None}]
         /\ tasks' \subseteq Requests
         /\ startedAt' \in [Requests -> Nat]
         /\ port' \in [Requests -> Ports \cup {None}]
         /\ proc' \in [Requests -> {"none", "running", "gone"}]
         /\ session' \subseteq Projects
         /\ up' \in BOOLEAN
         /\ orphans' \subseteq Requests
         /\ met' \subseteq Requests \X Requests
         /\ late' \subseteq Requests
  <1>1. CASE p \in session
    <2>1. ExecuteBackground(r, p, c) /\ Noted(r, TRUE) /\ UNCHANGED session
      BY <1>1 DEF Execute
    <2>2. late' \subseteq Requests
      BY <2>1 DEF TypeOK, Noted
    <2>3. QED
      BY <2>1, <2>2, BackgroundTypes DEF TypeOK
  <1>2. CASE p \notin session
    BY <1>2 DEF TypeOK, Execute, Goto, taskVars
  <1>3. QED
    BY <1>1, <1>2

\* Each step keeps the types.
LEMMA NextTypes == TypeOK /\ Asked /\ [Next]_vars => TypeOK'
  <1> SUFFICES ASSUME TypeOK, Asked, [Next]_vars PROVE TypeOK'
    OBVIOUS
  <1> USE DEF requestVars, taskVars, gatewayVars
  <1>1. ASSUME NEW r \in Requests, NEW p \in Projects, NEW c \in Commands, Command(r, p, c)
        PROVE  TypeOK'
    BY <1>1, ExecuteTypes DEF TypeOK, Command, New
  <1>2. ASSUME NEW r \in Requests, NEW p \in Projects, NEW c \in Commands, TapRestart(r, p, c)
        PROVE  TypeOK'
    BY <1>2, ExecuteTypes DEF TypeOK, TapRestart, New, First, Listed
  <1>3. ASSUME NEW r \in Requests, NEW p \in Projects, NEW c \in Commands, TapDuplicate(r, p, c)
        PROVE  TypeOK'
    BY <1>3, StartTypes DEF TypeOK, TapDuplicate, New, Noted
  <1>4. ASSUME NEW r \in Requests, SessionTold(r)
        PROVE  TypeOK'
    BY <1>4, BackgroundTypes DEF TypeOK, Asked, SessionTold, Noted
  <1>5. ASSUME NEW r \in Requests, TryPort(r)
        PROVE  TypeOK'
    BY <1>5 DEF TypeOK, TryPort, SearchGoesOn, Goto
  <1>6. ASSUME NEW r \in Requests, PortFound(r)
        PROVE  TypeOK'
    <2>1. CASE candidate[r] = FirstPort
      <3>1. Start(r, project[r], candidate[r]) /\ candidate[r] \in Ports \cup {None}
        BY <1>6, <2>1 DEF TypeOK, PortFound
      <3>2. QED
        BY <1>6, <3>1, StartTypes DEF TypeOK, PortFound
    <2>2. CASE candidate[r] # FirstPort
      BY <1>6, <2>2 DEF TypeOK, PortFound, Goto
    <2>3. QED
      BY <2>1, <2>2
  <1>7. ASSUME NEW r \in Requests, PortTold(r)
        PROVE  TypeOK'
    BY <1>7, StartTypes DEF TypeOK, PortTold
  <1>8. ASSUME NEW r \in Requests, ReplyFails(r)
        PROVE  TypeOK'
    BY <1>8 DEF TypeOK, ReplyFails, Goto
  <1>9. ASSUME NEW t \in Requests, Listen(t) \/ Exit(t)
        PROVE  TypeOK'
    BY <1>9 DEF TypeOK, Listen, Exit, RemoveTask, Unbound, Living
  <1>10. ASSUME NEW p \in Projects, NEW c \in Commands, StopCommand(p, c)
         PROVE  TypeOK'
    BY <1>10 DEF TypeOK, StopCommand, First, Listed
  <1>11. ASSUME NEW p \in Projects, StopProject(p) \/ SessionEnds(p)
         PROVE  TypeOK'
    BY <1>11 DEF TypeOK, StopProject, SessionEnds, StopAll, InFlight, Searching
  <1>12. ASSUME Shutdown
         PROVE  TypeOK'
    BY <1>12 DEF TypeOK, Shutdown, InFlight, Searching
  <1>13. ASSUME GatewayEnds
         PROVE  TypeOK'
    <2>1. at' \in [Requests -> {"new", "session", "port", "probe", "told", "done", "failed"}]
      BY <1>13 DEF TypeOK, GatewayEnds, GatewayGone
    <2>2. crashes' \in Nat /\ orphans' \subseteq Requests
      BY <1>13 DEF TypeOK, GatewayEnds, GatewayGone, Living
    <2>3. QED
      BY <1>13, <2>1, <2>2 DEF TypeOK, GatewayEnds, GatewayGone
  <1>14. ASSUME GatewayStarts
         PROVE  TypeOK'
    BY <1>14 DEF TypeOK, GatewayStarts
  <1>15. ASSUME UNCHANGED vars
         PROVE  TypeOK'
    BY <1>15 DEF TypeOK, vars
  <1>16. QED
    BY <1>1, <1>2, <1>3, <1>4, <1>5, <1>6, <1>7, <1>8, <1>9, <1>10, <1>11, <1>12, <1>13, <1>14, <1>15
    DEF Next, Continues

-----------------------------------------------------------------------------
(* A step of one request *)

\* What such a step leaves alone of the other requests, and what only grows.
\* If the gateway is gone, what ran outlives it and nobody searches.
Frame(r) ==
    /\ \A s \in Requests \ {r} :
        /\ kind'[s] = kind[s] /\ project'[s] = project[s] /\ command'[s] = command[s]
        /\ candidate'[s] = candidate[s] /\ port'[s] = port[s] /\ proc'[s] = proc[s]
        /\ at'[s] \in {at[s], "failed"} /\ (at[s] = "new" => at'[s] = "new")
    /\ met \subseteq met' /\ told \subseteq told' /\ late \subseteq late'
    /\ session \subseteq session' /\ stopping' = stopping /\ listener' = listener
    /\ \/ orphans' = orphans /\ \A s \in Requests \ {r} : s \in tasks' <=> s \in tasks
       \/ tasks' = {} /\ orphans' = orphans \cup Living

\* The request waits for its session, or has ended without a task.
Idle(r) ==
    /\ at'[r] \in {"session", "done", "failed"}
    /\ proc'[r] = "none" /\ r \notin tasks'

SameCommand(r) == kind'[r] = kind[r] /\ project'[r] = project[r] /\ command'[r] = command[r]

\* The search begins, and the request meets what it must.
Begins(r) ==
    /\ at'[r] = "port" /\ proc'[r] = "none" /\ r \notin tasks'
    /\ project'[r] \in HasPort
    /\ \A t \in Requests :
        /\ Searches(t) \/ (Lives(t) /\ port[t] # None /\ listener[port[t]] # t) => <<r, t>> \in met'
        /\ Own(t) => project[t] # project'[r] \/ command[t] # command'[r]

\* The search goes on; a port that is found is one nobody listens on.
Looks(r) ==
    /\ Searches(r)
    /\ at'[r] \in {"port", "probe", "told"} /\ proc'[r] = "none" /\ r \notin tasks'
    /\ SameCommand(r)
    /\ at'[r] # "port" => candidate'[r] = candidate[r]
    /\ at'[r] # "port" /\ at[r] = "port" => listener[candidate[r]] = None

\* The task starts: after a search, as another of its kind, or as the first.
Starts(r) ==
    /\ at'[r] = "done" /\ proc'[r] = "running" /\ r \in tasks' /\ r \notin orphans'
    /\ port'[r] # None => at[r] \in {"probe", "told"} /\ port'[r] = candidate[r]
    /\ \/ Searches(r) /\ SameCommand(r)
       \/ kind'[r] = "duplicate"
       \/ /\ project'[r] \notin HasPort
          /\ \A t \in Requests : Own(t) => project[t] # project'[r] \/ command[t] # command'[r]

\* A request that comes so far without a session, or in a shutdown, is late.
LateNoted(r) ==
    at'[r] # "session" => (stopping \/ project'[r] \notin session' => r \in late')

Step(r) ==
    /\ at[r] \in {"new", "session", "port", "probe", "told"}
    /\ Frame(r)
    /\ Idle(r) \/ ((Begins(r) \/ Looks(r) \/ Starts(r)) /\ LateNoted(r))

-----------------------------------------------------------------------------
(* Such a step keeps the invariant *)

LEMMA StepAsked ==
  ASSUME TypeOK, TypeOK', Asked, NEW r \in Requests, Frame(r), project'[r] \in Projects, command'[r] \in Commands
  PROVE  Asked'
  BY DEF TypeOK, Asked, Frame

LEMMA StepList ==
  ASSUME TypeOK, TypeOK', ListInv, NEW r \in Requests, Step(r)
  PROVE  ListInv'
  <1>1. proc[r] = "none" /\ r \notin orphans /\ r \notin tasks
    BY DEF ListInv, Step, Own, Lives
  <1>2. r \notin orphans'
    BY <1>1 DEF Step, Frame, Living
  <1>3. proc'[r] = "none" \/ (at'[r] = "done" /\ proc'[r] = "running" /\ r \in tasks')
    BY DEF Step, Idle, Begins, Looks, Starts
  <1>4. proc'[r] = "none" => r \notin tasks'
    BY DEF Step, Idle, Begins, Looks, Starts
  <1>5. \A s \in Requests \ {r} : proc'[s] = proc[s] /\ at'[s] \in {at[s], "failed"}
    BY DEF Step, Frame
  <1>6. \A s \in Requests : at'[s] \in {"new", "session", "port", "probe", "told"} => proc'[s] = "none"
    BY <1>3, <1>5 DEF ListInv
  <1>7. CASE orphans' = orphans /\ \A s \in Requests \ {r} : s \in tasks' <=> s \in tasks
    <2>1. \A t \in orphans' : proc'[t] # "none"
      BY <1>1, <1>5, <1>7 DEF TypeOK, ListInv
    <2>2. \A t \in Requests : t \in tasks' <=> Own(t)'
      BY <1>2, <1>3, <1>4, <1>5, <1>7 DEF ListInv, Own, Lives
    <2>3. QED
      BY <1>6, <2>1, <2>2 DEF ListInv
  <1>8. CASE tasks' = {} /\ orphans' = orphans \cup Living
    <2>1. \A t \in orphans' : proc'[t] # "none"
      BY <1>1, <1>2, <1>5, <1>8 DEF TypeOK, ListInv, Living
    <2>2. \A t \in Requests : t \in tasks' <=> Own(t)'
      BY <1>3, <1>5, <1>8 DEF ListInv, Own, Lives, Living
    <2>3. QED
      BY <1>6, <2>1, <2>2 DEF ListInv
  <1>9. QED
    BY <1>7, <1>8 DEF Step, Frame

LEMMA StepQuiet ==
  ASSUME TypeOK, TypeOK', ListInv, QuietSearch, QuietTasks, NEW r \in Requests, Step(r)
  PROVE  QuietSearch' /\ QuietTasks'
  <1>1. \A s \in Requests \ {r} :
            /\ project'[s] = project[s]
            /\ Searches(s)' => Searches(s)
            /\ Own(s)' => Own(s)
    BY DEF TypeOK, Step, Frame, Searches, Own, Lives
  <1>2. told \subseteq told' /\ late \subseteq late' /\ session \subseteq session' /\ stopping' = stopping
    BY DEF Step, Frame
  <1>3. Searches(r)' \/ Own(r)' => LateNoted(r) /\ at'[r] # "session"
    BY DEF Step, Idle, Begins, Looks, Starts, Searches, Own, Lives
  <1>4. Searches(r)' \/ Own(r)' => (stopping' \/ project'[r] \notin session' => r \in late')
    BY <1>2, <1>3 DEF LateNoted
  <1>5. QED
    BY <1>1, <1>2, <1>4 DEF QuietSearch, QuietTasks

\* The other requests, as the rest of the invariant sees them
LEMMA StepOthers ==
  ASSUME TypeOK, TypeOK', NEW r \in Requests, Step(r)
  PROVE  /\ \A s \in Requests \ {r} :
              /\ kind'[s] = kind[s] /\ project'[s] = project[s] /\ command'[s] = command[s]
              /\ candidate'[s] = candidate[s] /\ port'[s] = port[s]
              /\ Searches(s)' => Searches(s) /\ at'[s] = at[s]
              /\ Lives(s)' => Lives(s)
              /\ Own(s)' => Own(s)
         /\ \A t, u \in Requests : Pair(t, u) => Pair(t, u)'
         /\ listener' = listener
  BY DEF TypeOK, Step, Frame, Searches, Lives, Own, Pair

LEMMA StepSearches ==
  ASSUME TypeOK, TypeOK', SearchesMet, NEW r \in Requests, Step(r)
  PROVE  SearchesMet'
  <1>1. Searches(r)' => Begins(r) \/ Looks(r)
    BY DEF Step, Idle, Starts, Searches
  <1>2. Searches(r)' => project'[r] \in HasPort
    BY <1>1 DEF Begins, Looks, SameCommand, SearchesMet
  <1>3. \A s \in Requests \ {r} : Searches(r)' /\ Searches(s)' => Pair(r, s)' /\ Pair(s, r)'
    <2> SUFFICES ASSUME NEW s \in Requests \ {r}, Searches(r)', Searches(s) PROVE Pair(r, s)' /\ Pair(s, r)'
      BY StepOthers
    <2>1. CASE Begins(r)
      BY <2>1 DEF Begins, Pair
    <2>2. CASE Looks(r)
      BY <2>2, StepOthers DEF Looks, SearchesMet
    <2>3. QED
      BY <1>1, <2>1, <2>2
  <1>4. \A s, u \in Requests \ {r} : s # u /\ Searches(s)' /\ Searches(u)' => Pair(s, u)'
    BY StepOthers DEF SearchesMet
  <1>5. \A s \in Requests \ {r} : Searches(s)' => project'[s] \in HasPort
    BY StepOthers DEF SearchesMet
  <1>6. QED
    BY <1>2, <1>3, <1>4, <1>5 DEF SearchesMet

LEMMA StepTwins ==
  ASSUME TypeOK, TypeOK', SearchesMet, TwinsMet, ListInv, NEW r \in Requests, Step(r)
  PROVE  TwinsMet'
  <1> DEFINE Alike(t, u) ==
        /\ project[t] = project[u] /\ command[t] = command[u]
        /\ kind[t] # "duplicate" /\ kind[u] # "duplicate"
  <1>1. \A t, u \in Requests \ {r} :
            t # u /\ Own(t)' /\ (Searches(u)' \/ Own(u)') /\ Alike(t, u)' => Pair(u, t)'
    BY StepOthers DEF TwinsMet
  <1>2. ASSUME NEW t \in Requests \ {r}, Alike(r, t)',
               \/ Own(t)' /\ (Searches(r)' \/ Own(r)')
               \/ Searches(t)' /\ Own(r)'
        PROVE  Pair(r, t)' /\ Pair(t, r)'
    <2>1. Own(t) \/ (Searches(t) /\ Own(r)')
      BY <1>2, StepOthers
    <2>2. CASE Begins(r)
      <3>1. Own(t) => project[t] # project'[r] \/ command[t] # command'[r]
        BY <2>2 DEF Begins
      <3>2. ~Own(r)'
        BY <2>2 DEF Begins, Own, Lives
      <3>3. QED
        BY <1>2, <2>1, <3>1, <3>2, StepOthers
    <2>3. CASE Searches(r) /\ SameCommand(r)
      <3>1. Alike(r, t)
        BY <1>2, <2>3, StepOthers DEF SameCommand
      <3>2. Pair(r, t) \/ Pair(t, r)
        BY <2>1, <2>3, <3>1 DEF TwinsMet, SearchesMet
      <3>3. QED
        BY <3>2, StepOthers DEF Pair
    <2>4. CASE Starts(r) /\ ~(Searches(r) /\ SameCommand(r))
      <3>1. /\ project'[r] \notin HasPort
            /\ Own(t) => project[t] # project'[r] \/ command[t] # command'[r]
        BY <1>2, <2>4 DEF Starts
      <3>2. Searches(t) => project[t] \in HasPort
        BY DEF SearchesMet
      <3>3. QED
        BY <1>2, <2>1, <3>1, <3>2, StepOthers
    <2>5. ~Idle(r)
      BY <1>2 DEF Idle, Searches, Own, Lives
    <2>6. QED
      BY <2>2, <2>3, <2>4, <2>5 DEF Step, Looks, Starts
  <1>3. QED
    BY <1>1, <1>2 DEF TwinsMet

LEMMA StepUnbound ==
  ASSUME TypeOK, TypeOK', SearchesMet, UnboundMet, ListInv, NEW r \in Requests, Step(r)
  PROVE  UnboundMet'
  <1> DEFINE Waits(t) == Lives(t) /\ port[t] # None /\ listener[port[t]] # t
  <1>1. \A s, t \in Requests \ {r} : Searches(s)' /\ Waits(t)' => Pair(s, t)'
    BY StepOthers DEF UnboundMet
  <1>2. ASSUME NEW t \in Requests \ {r}, Searches(r)', Waits(t)'
        PROVE  Pair(r, t)'
    <2>1. Waits(t)
      BY <1>2, StepOthers
    <2>2. CASE Begins(r)
      BY <2>1, <2>2 DEF Begins, Pair
    <2>3. CASE Looks(r)
      BY <2>1, <2>3, StepOthers DEF Looks, UnboundMet
    <2>4. QED
      BY <1>2, <2>2, <2>3 DEF Step, Idle, Starts, Searches
  <1>3. ASSUME NEW s \in Requests \ {r}, Searches(s)', Waits(r)'
        PROVE  Pair(s, r)'
    <2>1. Searches(s)
      BY <1>3, StepOthers
    <2>2. Starts(r)
      BY <1>3 DEF Step, Idle, Begins, Looks, Lives
    <2>3. Searches(r)
      BY <1>3, <2>2 DEF Starts, Searches
    <2>4. QED
      BY <2>1, <2>3, StepOthers DEF SearchesMet
  <1>4. ~(Searches(r)' /\ Waits(r)')
    BY DEF Step, Idle, Begins, Looks, Starts, Searches, Lives
  <1>5. QED
    BY <1>1, <1>2, <1>3, <1>4 DEF UnboundMet

LEMMA StepFound ==
  ASSUME TypeOK, TypeOK', SearchesMet, UnboundMet, FoundMet, ListInv, NEW r \in Requests, Step(r)
  PROVE  FoundMet'
  <1> DEFINE Found(s, t) ==
        at[s] \in {"probe", "told"} /\ Lives(t) /\ port[t] # None /\ port[t] = candidate[s]
  <1>1. \A s, t \in Requests \ {r} : Found(s, t)' => Pair(s, t)'
    BY StepOthers DEF FoundMet, Searches
  <1>2. ASSUME NEW t \in Requests \ {r}, Found(r, t)'
        PROVE  Pair(r, t)'
    <2>1. Looks(r)
      BY <1>2 DEF Step, Idle, Begins, Starts
    <2>2. Lives(t) /\ port[t] # None /\ port[t] = candidate[r]
      BY <1>2, <2>1, StepOthers DEF Looks
    <2>3. CASE at[r] = "port"
      <3>1. listener[port[t]] # t
        BY <1>2, <2>1, <2>2, <2>3, TasksAssumption DEF Looks
      <3>2. QED
        BY <2>2, <2>3, <3>1, StepOthers DEF UnboundMet, Searches
    <2>4. CASE at[r] \in {"probe", "told"}
      BY <2>2, <2>4, StepOthers DEF FoundMet
    <2>5. QED
      BY <2>1, <2>3, <2>4 DEF Looks, Searches
  <1>3. ASSUME NEW s \in Requests \ {r}, Found(s, r)'
        PROVE  Pair(s, r)'
    <2>1. Searches(s)
      BY <1>3, StepOthers DEF Searches
    <2>2. Starts(r)
      BY <1>3 DEF Step, Idle, Begins, Looks, Lives
    <2>3. Searches(r)
      BY <1>3, <2>2 DEF Starts, Searches
    <2>4. QED
      BY <2>1, <2>3, StepOthers DEF SearchesMet
  <1>4. ~Found(r, r)'
    BY DEF Step, Idle, Begins, Looks, Starts, Lives
  <1>5. QED
    BY <1>1, <1>2, <1>3, <1>4 DEF FoundMet

LEMMA StepPorts ==
  ASSUME TypeOK, TypeOK', FoundMet, PortsMet, ListInv, NEW r \in Requests, Step(r)
  PROVE  PortsMet'
  <1> DEFINE Same(t, u) == Lives(t) /\ Lives(u) /\ port[t] # None /\ port[t] = port[u]
  <1>1. \A t, u \in Requests \ {r} : t # u /\ Same(t, u)' => Pair(t, u)'
    BY StepOthers DEF PortsMet
  <1>2. ASSUME NEW t \in Requests \ {r}, Same(r, t)'
        PROVE  Pair(r, t)' /\ Pair(t, r)'
    <2>1. Starts(r)
      BY <1>2 DEF Step, Idle, Begins, Looks, Lives
    <2>2. Lives(t) /\ port[t] # None /\ at[r] \in {"probe", "told"} /\ port[t] = candidate[r]
      BY <1>2, <2>1, StepOthers DEF Starts
    <2>3. Pair(r, t)
      BY <2>2 DEF FoundMet
    <2>4. QED
      BY <2>3, StepOthers DEF Pair
  <1>3. QED
    BY <1>1, <1>2 DEF PortsMet

\* A step of one request keeps the invariant.
LEMMA StepIInv ==
  ASSUME IInv, TypeOK', NEW r \in Requests, Step(r), project'[r] \in Projects, command'[r] \in Commands
  PROVE  IInv'
  BY StepAsked, StepList, StepQuiet, StepSearches, StepTwins, StepUnbound, StepFound, StepPorts
  DEF IInv, Step

-----------------------------------------------------------------------------
(* The steps of requests are such steps *)

\* A start has a task on the list, or the gateway is gone.
LEMMA StartEffect ==
  ASSUME TypeOK, ListInv, NEW r \in Requests, at[r] \in {"new", "session", "port", "probe", "told"},
         NEW p, NEW q \in Ports \cup {None}, Start(r, p, q)
  PROVE  /\ \A s \in Requests \ {r} :
              /\ port'[s] = port[s] /\ proc'[s] = proc[s]
              /\ at'[s] \in {at[s], "failed"} /\ (at[s] = "new" => at'[s] = "new")
         /\ \/ orphans' = orphans /\ \A s \in Requests \ {r} : s \in tasks' <=> s \in tasks
            \/ tasks' = {} /\ orphans' = orphans \cup Living
         /\ \/ at'[r] = "failed" /\ proc'[r] = "none" /\ r \notin tasks'
            \/ at'[r] = "done" /\ proc'[r] = "running" /\ r \in tasks' /\ r \notin orphans' /\ port'[r] = q
  <1>1. proc[r] = "none" /\ r \notin orphans
    BY DEF ListInv
  <1>2. CASE p \notin Missing
    BY <1>1, <1>2 DEF TypeOK, Start, Goto
  <1>3. CASE p \in Missing
    BY <1>1, <1>3 DEF TypeOK, Start, GatewayGone, InFlight, Searching
  <1>4. QED
    BY <1>2, <1>3

LEMMA BackgroundEffect ==
  ASSUME TypeOK, ListInv, NEW r \in Requests, at[r] \in {"new", "session"},
         NEW p, NEW c, project'[r] = p, command'[r] = c, ExecuteBackground(r, p, c)
  PROVE  /\ \A s \in Requests \ {r} :
              /\ port'[s] = port[s] /\ proc'[s] = proc[s]
              /\ at'[s] \in {at[s], "failed"} /\ (at[s] = "new" => at'[s] = "new")
              /\ candidate'[s] = candidate[s]
         /\ met \subseteq met'
         /\ \/ orphans' = orphans /\ \A s \in Requests \ {r} : s \in tasks' <=> s \in tasks
            \/ tasks' = {} /\ orphans' = orphans \cup Living
         /\ Idle(r) \/ Begins(r) \/ Starts(r)
  <1>1. proc[r] = "none" /\ r \notin orphans /\ r \notin tasks
    BY DEF ListInv, Own, Lives
  <1>2. ~Duplicate(p, c) => \A t \in Requests : Own(t) => project[t] # p \/ command[t] # c
    BY DEF Duplicate, Listed, ListInv
  <1>3. CASE Duplicate(p, c)
    BY <1>1, <1>3 DEF TypeOK, ExecuteBackground, Goto, taskVars, Idle
  <1>4. CASE ~Duplicate(p, c) /\ p \in HasPort
    <2>1. /\ at' = [at EXCEPT ![r] = "port"] /\ candidate' = [candidate EXCEPT ![r] = FirstPort]
          /\ UNCHANGED <<tasks, port, proc, orphans>>
      BY <1>4 DEF ExecuteBackground, Goto, taskVars
    <2>2. met' = met \cup ({r} \X (Searching \cup Unbound))
      BY <1>4 DEF ExecuteBackground
    <2>3. \A t \in Requests :
              Searches(t) \/ (Lives(t) /\ port[t] # None /\ listener[port[t]] # t) => <<r, t>> \in met'
      BY <2>2 DEF Searching, Unbound, Living, Searches, Lives
    <2>4. Begins(r)
      BY <1>1, <1>2, <1>4, <2>1, <2>3 DEF TypeOK, Begins
    <2>5. QED
      BY <2>1, <2>2, <2>4 DEF TypeOK
  <1>5. CASE ~Duplicate(p, c) /\ p \notin HasPort
    <2>1. Start(r, p, None) /\ UNCHANGED <<candidate, met>>
      BY <1>5 DEF ExecuteBackground
    <2>2. Idle(r) \/ Starts(r)
      BY <1>2, <1>5, <2>1, StartEffect DEF Idle, Starts
    <2>3. QED
      BY <2>1, <2>2, StartEffect
  <1>6. QED
    BY <1>3, <1>4, <1>5

LEMMA ExecuteEffect ==
  ASSUME TypeOK, ListInv, NEW r \in Requests, at[r] = "new",
         NEW p, NEW c, project'[r] = p, command'[r] = c, Execute(r, p, c)
  PROVE  /\ \A s \in Requests \ {r} :
              /\ port'[s] = port[s] /\ proc'[s] = proc[s]
              /\ at'[s] \in {at[s], "failed"} /\ (at[s] = "new" => at'[s] = "new")
              /\ candidate'[s] = candidate[s]
         /\ met \subseteq met'
         /\ \/ orphans' = orphans /\ \A s \in Requests \ {r} : s \in tasks' <=> s \in tasks
            \/ tasks' = {} /\ orphans' = orphans \cup Living
         /\ late \subseteq late' /\ session \subseteq session'
         /\ Idle(r) \/ ((Begins(r) \/ Starts(r)) /\ LateNoted(r))
  <1>1. CASE p \in session
    <2>1. ExecuteBackground(r, p, c) /\ Noted(r, TRUE) /\ session' = session
      BY <1>1 DEF Execute
    <2>2. late \subseteq late' /\ LateNoted(r)
      BY <1>1, <2>1 DEF Noted, LateNoted
    <2>3. QED
      BY <2>1, <2>2, BackgroundEffect
  <1>2. CASE p \notin session
    <2>1. /\ at' = [at EXCEPT ![r] = "session"] /\ session \subseteq session'
          /\ UNCHANGED <<candidate, tasks, port, proc, orphans, met, late>>
      BY <1>2 DEF Execute, Goto, taskVars
    <2>2. Idle(r)
      BY <2>1 DEF TypeOK, Idle, ListInv, Own, Lives
    <2>3. QED
      BY <2>1, <2>2 DEF TypeOK
  <1>3. QED
    BY <1>1, <1>2

\* A new request changes what is known of it alone.
LEMMA NewEffect ==
  ASSUME TypeOK, NEW r \in Requests, NEW k, NEW p, NEW c, New(r, k, p, c)
  PROVE  /\ at[r] = "new" /\ kind'[r] = k /\ project'[r] = p /\ command'[r] = c
         /\ \A s \in Requests \ {r} :
              kind'[s] = kind[s] /\ project'[s] = project[s] /\ command'[s] = command[s]
  BY DEF TypeOK, New

LEMMA CommandStep ==
  ASSUME IInv, NEW r \in Requests, NEW p \in Projects, NEW c \in Commands, Command(r, p, c)
  PROVE  Step(r) /\ project'[r] \in Projects /\ command'[r] \in Commands
  <1>1. TypeOK /\ ListInv
    BY DEF IInv
  <1>2. New(r, "execute", p, c) /\ Execute(r, p, c) /\ UNCHANGED <<told, listener, stopping>>
    BY DEF Command
  <1>3. Frame(r)
    BY <1>1, <1>2, NewEffect, ExecuteEffect DEF Frame
  <1>4. QED
    BY <1>1, <1>2, <1>3, NewEffect, ExecuteEffect DEF Step

LEMMA TapRestartStep ==
  ASSUME IInv, NEW r \in Requests, NEW p \in Projects, NEW c \in Commands, TapRestart(r, p, c)
  PROVE  Step(r) /\ project'[r] \in Projects /\ command'[r] \in Commands
  <1>1. TypeOK /\ ListInv
    BY DEF IInv
  <1>2. New(r, "restart", p, c) /\ Execute(r, p, c) /\ told \subseteq told' /\ UNCHANGED <<listener, stopping>>
    BY DEF TapRestart
  <1>3. Frame(r)
    BY <1>1, <1>2, NewEffect, ExecuteEffect DEF Frame
  <1>4. QED
    BY <1>1, <1>2, <1>3, NewEffect, ExecuteEffect DEF Step

LEMMA TapDuplicateStep ==
  ASSUME IInv, NEW r \in Requests, NEW p \in Projects, NEW c \in Commands, TapDuplicate(r, p, c)
  PROVE  Step(r) /\ project'[r] \in Projects /\ command'[r] \in Commands
  <1>1. TypeOK /\ ListInv
    BY DEF IInv
  <1>2. /\ New(r, "duplicate", p, c) /\ Start(r, p, None) /\ Noted(r, p \in session)
        /\ UNCHANGED <<candidate, told, listener, session, stopping, met>>
    BY DEF TapDuplicate
  <1>3. late \subseteq late' /\ LateNoted(r)
    BY <1>1, <1>2, NewEffect DEF Noted, LateNoted
  <1>4. Frame(r)
    BY <1>1, <1>2, <1>3, NewEffect, StartEffect DEF Frame
  <1>5. Idle(r) \/ Starts(r)
    BY <1>1, <1>2, NewEffect, StartEffect DEF Idle, Starts
  <1>6. QED
    BY <1>1, <1>2, <1>3, <1>4, <1>5, NewEffect DEF Step

LEMMA SessionToldStep ==
  ASSUME IInv, NEW r \in Requests, SessionTold(r)
  PROVE  Step(r) /\ project'[r] \in Projects /\ command'[r] \in Commands
  <1>1. TypeOK /\ ListInv /\ Asked
    BY DEF IInv
  <1>2. /\ at[r] = "session" /\ ExecuteBackground(r, project[r], command[r])
        /\ Noted(r, project[r] \in session)
        /\ UNCHANGED <<kind, project, command, told, listener, session, stopping>>
    BY DEF SessionTold
  <1>3. late \subseteq late' /\ LateNoted(r)
    BY <1>1, <1>2 DEF Noted, LateNoted
  <1>4. Frame(r)
    BY <1>1, <1>2, <1>3, BackgroundEffect DEF Frame
  <1>5. Idle(r) \/ Begins(r) \/ Starts(r)
    BY <1>1, <1>2, BackgroundEffect
  <1>6. QED
    BY <1>1, <1>2, <1>3, <1>4, <1>5 DEF Step, Asked

\* A request that searches and goes on is late if it must be.
LEMMA SearchLate ==
  ASSUME IInv, NEW r \in Requests, Searches(r), project'[r] = project[r], late' = late, session' = session
  PROVE  LateNoted(r)
  BY DEF IInv, QuietSearch, LateNoted

LEMMA TryPortStep ==
  ASSUME IInv, NEW r \in Requests, TryPort(r)
  PROVE  Step(r) /\ project'[r] \in Projects /\ command'[r] \in Commands
  <1>1. TypeOK /\ ListInv /\ Asked
    BY DEF IInv
  <1>2. /\ at[r] = "port"
        /\ UNCHANGED <<kind, project, command, taskVars, told, listener, gatewayVars, met, late>>
    BY DEF TryPort
  <1>3. /\ proc[r] = "none" /\ r \notin tasks
        /\ project[r] \in Projects /\ command[r] \in Commands
    BY <1>1, <1>2 DEF ListInv, Asked, Own, Lives
  <1>4. LateNoted(r)
    BY <1>2, SearchLate DEF Searches, gatewayVars
  <1>5. Frame(r)
    BY <1>1, <1>2 DEF TypeOK, Frame, TryPort, Goto, taskVars, gatewayVars
  <1>6. Idle(r) \/ Looks(r)
    BY <1>1, <1>2, <1>3 DEF TypeOK, TryPort, Goto, Occupied, Idle, Looks, Searches, SameCommand, taskVars
  <1>7. QED
    BY <1>2, <1>3, <1>4, <1>5, <1>6 DEF Step

LEMMA PortFoundStep ==
  ASSUME IInv, NEW r \in Requests, PortFound(r)
  PROVE  Step(r) /\ project'[r] \in Projects /\ command'[r] \in Commands
  <1>1. TypeOK /\ ListInv /\ Asked
    BY DEF IInv
  <1>2. /\ at[r] = "probe"
        /\ UNCHANGED <<kind, project, command, candidate, told, listener, session, stopping, met, late>>
    BY DEF PortFound
  <1>3. /\ proc[r] = "none" /\ r \notin tasks /\ candidate[r] \in Ports \cup {None}
        /\ project[r] \in Projects /\ command[r] \in Commands
    BY <1>1, <1>2 DEF TypeOK, ListInv, Asked, Own, Lives
  <1>4. LateNoted(r)
    BY <1>2, SearchLate DEF Searches
  <1>5. CASE Start(r, project[r], candidate[r])
    <2>1. Frame(r)
      BY <1>1, <1>2, <1>3, <1>5, StartEffect DEF Frame
    <2>2. Idle(r) \/ Starts(r)
      BY <1>1, <1>2, <1>3, <1>5, StartEffect DEF Idle, Starts, Searches, SameCommand
    <2>3. QED
      BY <1>2, <1>3, <1>4, <2>1, <2>2 DEF Step
  <1>6. CASE Goto(r, "told") /\ UNCHANGED <<taskVars, up, orphans>>
    <2>1. Frame(r)
      BY <1>1, <1>2, <1>6 DEF TypeOK, Frame, Goto, taskVars
    <2>2. Looks(r)
      BY <1>1, <1>2, <1>3, <1>6 DEF TypeOK, Goto, taskVars, Looks, Searches, SameCommand
    <2>3. QED
      BY <1>2, <1>3, <1>4, <2>1, <2>2 DEF Step
  <1>7. QED
    BY <1>5, <1>6 DEF PortFound

LEMMA PortToldStep ==
  ASSUME IInv, NEW r \in Requests, PortTold(r)
  PROVE  Step(r) /\ project'[r] \in Projects /\ command'[r] \in Commands
  <1>1. TypeOK /\ ListInv /\ Asked
    BY DEF IInv
  <1>2. /\ at[r] = "told" /\ Start(r, project[r], candidate[r])
        /\ UNCHANGED <<kind, project, command, candidate, told, listener, session, stopping, met, late>>
    BY DEF PortTold
  <1>3. /\ candidate[r] \in Ports \cup {None}
        /\ project[r] \in Projects /\ command[r] \in Commands
    BY <1>1, <1>2 DEF TypeOK, Asked
  <1>4. LateNoted(r)
    BY <1>2, SearchLate DEF Searches
  <1>5. Frame(r)
    BY <1>1, <1>2, <1>3, StartEffect DEF Frame
  <1>6. Idle(r) \/ Starts(r)
    BY <1>1, <1>2, <1>3, StartEffect DEF Idle, Starts, Searches, SameCommand
  <1>7. QED
    BY <1>2, <1>3, <1>4, <1>5, <1>6 DEF Step

LEMMA ReplyFailsStep ==
  ASSUME IInv, NEW r \in Requests, ReplyFails(r)
  PROVE  Step(r) /\ project'[r] \in Projects /\ command'[r] \in Commands
  <1>1. TypeOK /\ ListInv /\ Asked
    BY DEF IInv
  <1>2. /\ at[r] \in {"session", "told"} /\ at' = [at EXCEPT ![r] = "failed"]
        /\ UNCHANGED <<kind, project, command, candidate, taskVars, told, listener, gatewayVars, met, late>>
    BY DEF ReplyFails, Goto
  <1>3. proc[r] = "none" /\ r \notin tasks
    BY <1>1, <1>2 DEF ListInv, Own, Lives
  <1>4. Frame(r) /\ Idle(r)
    BY <1>1, <1>2, <1>3 DEF TypeOK, Frame, Idle, taskVars, gatewayVars
  <1>5. QED
    BY <1>1, <1>2, <1>4 DEF Step, Asked

-----------------------------------------------------------------------------
(* The other steps *)

\* What the invariant says of requests and tasks alone is kept where there are
\* no more searches and processes than before, and as many meetings.
LEMMA FewerMet ==
  ASSUME IInv, TypeOK',
         UNCHANGED <<kind, project, command, candidate, port, met>>,
         \A s \in Requests :
            /\ at'[s] \in {at[s], "failed"} /\ (at[s] = "new" => at'[s] = "new")
            /\ Lives(s)' => Lives(s)
            /\ Own(s)' => Own(s)
  PROVE  Asked' /\ SearchesMet' /\ TwinsMet' /\ FoundMet' /\ PortsMet'
  <1>1. \A s \in Requests : Searches(s)' => Searches(s) /\ at'[s] = at[s]
    BY DEF Searches
  <1>2. Asked'
    BY DEF IInv, Asked
  <1>3. SearchesMet' /\ TwinsMet'
    BY <1>1 DEF IInv, SearchesMet, TwinsMet, Pair
  <1>4. FoundMet' /\ PortsMet'
    BY <1>1 DEF IInv, FoundMet, PortsMet, Pair, Searches
  <1>5. QED
    BY <1>2, <1>3, <1>4

LEMMA ListenIInv ==
  ASSUME IInv, TypeOK', NEW t \in Requests, Listen(t)
  PROVE  IInv'
  <1>1. TypeOK
    BY DEF IInv
  <1>2. /\ port[t] \in Ports /\ listener[port[t]] = None
        /\ listener' = [listener EXCEPT ![port[t]] = t]
    BY <1>1 DEF TypeOK, Listen, Unbound
  <1>3. UNCHANGED <<kind, project, command, at, candidate, tasks, port, proc, told, session, stopping, orphans, met, late>>
    BY DEF Listen, requestVars, taskVars, gatewayVars
  <1>4. ListInv' /\ QuietSearch' /\ QuietTasks'
    BY <1>3 DEF IInv, ListInv, QuietSearch, QuietTasks, Searches, Own, Lives
  <1>5. Asked' /\ SearchesMet' /\ TwinsMet' /\ FoundMet' /\ PortsMet'
    BY <1>3, FewerMet DEF Own, Lives
  <1>6. UnboundMet'
    <2>1. \A u \in Requests :
              port[u] # None /\ listener'[port[u]] # u => listener[port[u]] # u
      BY <1>1, <1>2, TasksAssumption DEF TypeOK
    <2>2. QED
      BY <1>3, <2>1 DEF IInv, UnboundMet, Searches, Lives, Pair
  <1>7. QED
    BY <1>4, <1>5, <1>6 DEF IInv

LEMMA ExitIInv ==
  ASSUME IInv, TypeOK', NEW t \in Requests, Exit(t)
  PROVE  IInv'
  <1>1. TypeOK
    BY DEF IInv
  <1>2. /\ Lives(t) /\ proc' = [proc EXCEPT ![t] = "gone"] /\ tasks' = tasks \ {t}
        /\ listener' = [q \in Ports |-> IF listener[q] = t THEN None ELSE listener[q]]
    BY DEF Exit, RemoveTask, Living, Lives
  <1>3. UNCHANGED <<kind, project, command, at, candidate, port, told, session, stopping, orphans, met, late>>
    BY DEF Exit, requestVars, gatewayVars
  <1>4. \A u \in Requests : u # t => proc'[u] = proc[u]
    BY <1>1, <1>2 DEF TypeOK
  <1>5. proc'[t] = "gone"
    BY <1>1, <1>2 DEF TypeOK
  <1>6. ListInv'
    <2>1. \A u \in Requests : at[u] \in {"new", "session", "port", "probe", "told"} => u # t
      BY <1>2 DEF IInv, ListInv, Lives
    <2>2. QED
      BY <1>1, <1>2, <1>3, <1>4, <1>5, <2>1 DEF TypeOK, IInv, ListInv, Own, Lives
  <1>7. \A u \in Requests : (Lives(u)' => Lives(u) /\ u # t) /\ (Own(u)' => Own(u))
    BY <1>3, <1>4, <1>5 DEF Own, Lives
  <1>8. QuietSearch' /\ QuietTasks'
    BY <1>3, <1>7 DEF IInv, QuietSearch, QuietTasks, Searches
  <1>9. Asked' /\ SearchesMet' /\ TwinsMet' /\ FoundMet' /\ PortsMet'
    BY <1>3, <1>7, FewerMet
  <1>10. UnboundMet'
    <2>1. \A u \in Requests :
              u # t /\ port[u] # None /\ listener'[port[u]] # u => listener[port[u]] # u
      BY <1>1, <1>2 DEF TypeOK
    <2>2. QED
      BY <1>3, <1>7, <2>1 DEF IInv, UnboundMet, Searches, Pair
  <1>11. QED
    BY <1>6, <1>8, <1>9, <1>10 DEF IInv

\* A step that only tells processes to end, or ends sessions, is noted.
LEMMA StopIInv ==
  ASSUME IInv, TypeOK',
         UNCHANGED <<kind, project, command, at, candidate, tasks, port, proc, listener, orphans, met>>,
         told \subseteq told', late \subseteq late',
         \A r \in Requests :
            (stopping' \/ project[r] \notin session') /\ ~(stopping \/ project[r] \notin session) =>
                (Searches(r) => r \in late') /\ (r \in tasks => r \in told')
  PROVE  IInv'
  <1>1. ListInv'
    BY DEF IInv, ListInv, Own, Lives
  <1>2. QuietSearch'
    BY DEF IInv, QuietSearch, Searches
  <1>3. QuietTasks'
    BY DEF IInv, QuietTasks, ListInv, Own, Lives
  <1>4. Asked' /\ SearchesMet' /\ TwinsMet' /\ FoundMet' /\ PortsMet'
    BY FewerMet DEF Own, Lives
  <1>5. UnboundMet'
    BY DEF IInv, UnboundMet, Searches, Lives, Pair
  <1>6. QED
    BY <1>1, <1>2, <1>3, <1>4, <1>5 DEF IInv

LEMMA GatewayEndsIInv ==
  ASSUME IInv, TypeOK', GatewayEnds
  PROVE  IInv'
  <1>1. /\ tasks' = {} /\ orphans' = orphans \cup Living
        /\ at' = [s \in Requests |-> IF s \in InFlight THEN "failed" ELSE at[s]]
        /\ UNCHANGED <<kind, project, command, candidate, port, proc, told, listener, session, stopping, met, late>>
    BY DEF GatewayEnds, GatewayGone
  <1>2. \A s \in Requests : at'[s] \in {at[s], "failed"} /\ (at[s] = "new" => at'[s] = "new")
    BY <1>1 DEF InFlight, Searching
  <1>3. \A s \in Requests : ~Searches(s)' /\ ~Own(s)' /\ (Lives(s)' => Lives(s))
    BY <1>1 DEF InFlight, Searching, Searches, Living, Own, Lives
  <1>4. ListInv'
    BY <1>1, <1>2, <1>3 DEF IInv, ListInv, Living
  <1>5. Asked' /\ SearchesMet' /\ TwinsMet' /\ FoundMet' /\ PortsMet'
    BY <1>1, <1>2, <1>3, FewerMet
  <1>6. QuietSearch' /\ QuietTasks' /\ UnboundMet'
    BY <1>3 DEF QuietSearch, QuietTasks, UnboundMet
  <1>7. QED
    BY <1>4, <1>5, <1>6 DEF IInv

\* The invariant is inductive.
LEMMA NextIInv == IInv /\ [Next]_vars => IInv'
  <1> SUFFICES ASSUME IInv, [Next]_vars PROVE IInv'
    OBVIOUS
  <1>1. TypeOK'
    BY NextTypes DEF IInv
  <1> USE <1>1
  <1>2. ASSUME NEW r \in Requests, NEW p \in Projects, NEW c \in Commands,
               Command(r, p, c) \/ TapRestart(r, p, c) \/ TapDuplicate(r, p, c)
        PROVE  IInv'
    BY <1>2, CommandStep, TapRestartStep, TapDuplicateStep, StepIInv
  <1>3. ASSUME NEW r \in Requests, Continues(r)
        PROVE  IInv'
    BY <1>3, SessionToldStep, TryPortStep, PortFoundStep, PortToldStep, ReplyFailsStep, StepIInv DEF Continues
  <1>4. ASSUME NEW t \in Requests, Listen(t) \/ Exit(t)
        PROVE  IInv'
    BY <1>4, ListenIInv, ExitIInv
  <1>5. ASSUME NEW p \in Projects, NEW c \in Commands, StopCommand(p, c)
        PROVE  IInv'
    BY <1>5, StopIInv DEF StopCommand, requestVars, taskVars, gatewayVars
  <1>6. ASSUME NEW p \in Projects, StopProject(p)
        PROVE  IInv'
    BY <1>6, StopIInv DEF StopProject, StopAll, requestVars, taskVars, gatewayVars
  <1>7. ASSUME NEW p \in Projects, SessionEnds(p)
        PROVE  IInv'
    <2>1. /\ told' = told \cup {t \in tasks : project[t] = p}
          /\ late' = late \cup {r \in InFlight : project[r] = p}
          /\ session' = session \ {p} /\ stopping' = stopping
          /\ UNCHANGED <<kind, project, command, at, candidate, tasks, port, proc, listener, orphans, met>>
      BY <1>7 DEF SessionEnds, StopAll, requestVars, taskVars
    <2>2. QED
      BY <2>1, StopIInv DEF InFlight, Searching, Searches
  <1>8. ASSUME Shutdown
        PROVE  IInv'
    <2>1. /\ told' = told \cup tasks /\ late' = late \cup InFlight
          /\ UNCHANGED <<kind, project, command, at, candidate, tasks, port, proc, listener, orphans, met>>
      BY <1>8 DEF Shutdown, requestVars, taskVars
    <2>2. QED
      BY <2>1, StopIInv DEF InFlight, Searching, Searches
  <1>9. ASSUME GatewayEnds
        PROVE  IInv'
    BY <1>9, GatewayEndsIInv
  <1>10. ASSUME GatewayStarts
         PROVE  IInv'
    BY <1>10, StopIInv DEF GatewayStarts, requestVars, taskVars
  <1>11. ASSUME UNCHANGED vars
         PROVE  IInv'
    BY <1>11, StopIInv DEF vars, requestVars, taskVars, gatewayVars
  <1>12. QED
    BY <1>2, <1>3, <1>4, <1>5, <1>6, <1>7, <1>8, <1>9, <1>10, <1>11 DEF Next

-----------------------------------------------------------------------------
(* Theorems *)

LEMMA InvariantHolds == Spec => []IInv
  <1>1. QED
    BY InitIInv, NextIInv, PTL DEF Spec

\* Types are kept (all variables of Tasks).
THEOREM TypeCorrect == Spec => []TypeOK
  <1>1. IInv => TypeOK
    BY DEF IInv
  <1>2. QED
    BY <1>1, InvariantHolds, PTL

\* While the gateway is up the list of tasks is exact: exits, stops, failed
\* starts and overlapping requests keep it so (task-manager.ts).
THEOREM ListIsExactAlways == Spec => []ListIsExact
  <1>1. IInv => ListIsExact
    BY DEF IInv, TypeOK, ListInv, ListIsExact, Living, Own, Lives
  <1>2. QED
    BY <1>1, InvariantHolds, PTL

\* Only overlapping requests start a command twice (executor.ts:154-196).
THEOREM NoTwinsAlways == Spec => []NoTwins
  <1>1. IInv => NoTwins
    BY DEF IInv, TwinsMet, NoTwins, Living, Own, Lives, Pair
  <1>2. QED
    BY <1>1, InvariantHolds, PTL

\* Only overlapping searches find one port for two tasks (port-manager.ts).
THEOREM PortsApartAlways == Spec => []PortsApart
  <1>1. IInv => PortsApart
    BY DEF IInv, PortsMet, PortsApart, Living, Lives, Pair
  <1>2. QED
    BY <1>1, InvariantHolds, PTL

\* Tasks end with their session and with the gateway, but for those that were
\* about to start (jorchbot-start.ts: onSessionDestroy, shutdown).
THEOREM QuietEndAlways == Spec => []QuietEnd
  <1>1. IInv => QuietEnd
    BY DEF IInv, QuietTasks, QuietEnd, Living, Own, Lives
  <1>2. QED
    BY <1>1, InvariantHolds, PTL
-----------------------------------------------------------------------------
(* Why every request ends: it has so many steps left *)

LastPort == FirstPort + MaxPortSearch - 1

\* The awaits that a request has before it at most: the reply about the session,
\* a try of every port that is left, the probe and the reply about the port.
StepsLeft(r) ==
    CASE at[r] = "session" -> MaxPortSearch + 3
      [] at[r] = "port"    -> LastPort - candidate[r] + 3
      [] at[r] = "probe"   -> 2
      [] at[r] = "told"    -> 1
      [] OTHER             -> 0

\* A request that tries a port has one to try.
SearchesInRange == \A r \in Requests : at[r] = "port" => candidate[r] \in Ports

\* Requests under way are those with steps left, never more than one for each
\* port and three.
StepsAreBounded ==
    \A r \in Requests :
        /\ StepsLeft(r) \in 0..(MaxPortSearch + 3)
        /\ StepsLeft(r) > 0 <=> r \in InFlight

\* Each step of a request that has begun brings it nearer to its end, and no
\* step of anybody, an end of the gateway included, takes it back.
RequestsAdvance ==
    [][\A r \in Requests : at[r] # "new" =>
        /\ StepsLeft(r)' <= StepsLeft(r)
        /\ Continues(r) => StepsLeft(r)' < StepsLeft(r)]_vars

LEMMA Bounded == TypeOK /\ SearchesInRange => StepsAreBounded
  <1> SUFFICES ASSUME TypeOK, SearchesInRange, NEW r \in Requests
               PROVE  /\ StepsLeft(r) \in 0..(MaxPortSearch + 3)
                      /\ StepsLeft(r) > 0 <=> r \in InFlight
    BY DEF StepsAreBounded
  <1> USE TasksAssumption
  <1>1. CASE at[r] = "port"
    <2>1. candidate[r] \in Int /\ FirstPort <= candidate[r] /\ candidate[r] <= LastPort
      BY <1>1 DEF SearchesInRange, Ports, LastPort
    <2>2. StepsLeft(r) = LastPort - candidate[r] + 3
      BY <1>1 DEF StepsLeft
    <2>3. QED
      BY <1>1, <2>1, <2>2 DEF InFlight, Searching, LastPort
  <1>2. CASE at[r] = "session"
    BY <1>2 DEF StepsLeft, InFlight
  <1>3. CASE at[r] \in {"probe", "told"}
    BY <1>3 DEF StepsLeft, InFlight, Searching
  <1>4. CASE at[r] \in {"new", "done", "failed"}
    BY <1>4 DEF StepsLeft, InFlight, Searching
  <1>5. QED
    BY <1>1, <1>2, <1>3, <1>4 DEF TypeOK

\* Where a request goes that starts its task, or tries to.
LEMMA StartGoes ==
  ASSUME TypeOK, NEW r \in Requests, NEW p, NEW q, Start(r, p, q)
  PROVE  /\ at'[r] \in {"done", "failed"}
         /\ \A s \in Requests \ {r} : at'[s] \in {at[s], "failed"}
         /\ \A s \in Requests : at'[s] = "port" => at[s] = "port"
  BY DEF TypeOK, Start, Goto, GatewayGone

LEMMA BackgroundGoes ==
  ASSUME TypeOK, NEW r \in Requests, NEW p, NEW c, ExecuteBackground(r, p, c)
  PROVE  /\ \/ at'[r] \in {"done", "failed"}
            \/ at'[r] = "port" /\ candidate'[r] = FirstPort
         /\ \A s \in Requests \ {r} : at'[s] \in {at[s], "failed"} /\ candidate'[s] = candidate[s]
  <1>1. CASE Start(r, p, None) /\ UNCHANGED candidate
    BY <1>1, StartGoes
  <1>2. CASE ~(Start(r, p, None) /\ UNCHANGED candidate)
    BY <1>2 DEF TypeOK, ExecuteBackground, Goto
  <1>3. QED
    BY <1>1, <1>2

\* A request that does nothing itself can only be ended.
Stays(r) == (at'[r] = at[r] /\ candidate'[r] = candidate[r]) \/ at'[r] = "failed"

\* What the others' steps do to a request, and what its own do.
LEMMA Moves ==
  ASSUME TypeOK, TypeOK', [Next]_vars, NEW r \in Requests
  PROVE  \/ Stays(r) /\ ~Continues(r)
         \/ at[r] = "new" /\ (at'[r] = "port" => candidate'[r] = FirstPort)
         \/ /\ at[r] = "session"
            /\ \/ at'[r] \in {"done", "failed"}
               \/ at'[r] = "port" /\ candidate'[r] = FirstPort
         \/ /\ at[r] = "port"
            /\ \/ at'[r] = "port" /\ candidate'[r] = candidate[r] + 1 /\ candidate'[r] \in Ports
               \/ at'[r] \in {"probe", "failed"}
         \/ at[r] = "probe" /\ at'[r] \in {"told", "done", "failed"}
         \/ at[r] = "told" /\ at'[r] \in {"done", "failed"}
  <1> DEFINE Goal == \/ Stays(r) /\ ~Continues(r)
                     \/ at[r] = "new" /\ (at'[r] = "port" => candidate'[r] = FirstPort)
                     \/ /\ at[r] = "session"
                        /\ \/ at'[r] \in {"done", "failed"}
                           \/ at'[r] = "port" /\ candidate'[r] = FirstPort
                     \/ /\ at[r] = "port"
                        /\ \/ at'[r] = "port" /\ candidate'[r] = candidate[r] + 1 /\ candidate'[r] \in Ports
                           \/ at'[r] \in {"probe", "failed"}
                     \/ at[r] = "probe" /\ at'[r] \in {"told", "done", "failed"}
                     \/ at[r] = "told" /\ at'[r] \in {"done", "failed"}
  <1>1. SessionTold(r) => Goal
    BY BackgroundGoes DEF SessionTold
  <1>2. TryPort(r) => Goal
    BY DEF TypeOK, TryPort, SearchGoesOn, Goto
  <1>3. PortFound(r) => Goal
    BY StartGoes DEF TypeOK, PortFound, Goto
  <1>4. PortTold(r) => Goal
    BY StartGoes DEF PortTold
  <1>5. ReplyFails(r) => Goal
    BY DEF TypeOK, ReplyFails, Goto
  <1>6. Continues(r) => Goal
    BY <1>1, <1>2, <1>3, <1>4, <1>5 DEF Continues
  <1>7. ASSUME NEW p \in Projects, NEW c \in Commands,
               Command(r, p, c) \/ TapRestart(r, p, c) \/ TapDuplicate(r, p, c)
        PROVE  Goal
    <2>1. at[r] = "new"
      BY <1>7 DEF Command, TapRestart, TapDuplicate, New
    <2>2. at'[r] = "port" => candidate'[r] = FirstPort
      <3>1. CASE Execute(r, p, c)
        BY <3>1, BackgroundGoes DEF TypeOK, Execute, Goto
      <3>2. CASE Start(r, p, None)
        BY <3>2, StartGoes
      <3>3. QED
        BY <1>7, <3>1, <3>2 DEF Command, TapRestart, TapDuplicate
    <2>3. QED
      BY <2>1, <2>2
  <1>8. ASSUME NEW s \in Requests \ {r}, NEW p \in Projects, NEW c \in Commands,
               Command(s, p, c) \/ TapRestart(s, p, c) \/ TapDuplicate(s, p, c)
        PROVE  Stays(r)
    <2>1. CASE Execute(s, p, c)
      <3>1. CASE ExecuteBackground(s, p, c)
        BY <3>1, BackgroundGoes DEF Stays
      <3>2. CASE Goto(s, "session") /\ UNCHANGED candidate
        BY <3>2 DEF TypeOK, Goto, Stays
      <3>3. QED
        BY <2>1, <3>1, <3>2 DEF Execute
    <2>2. CASE Start(s, p, None) /\ UNCHANGED candidate
      BY <2>2, StartGoes DEF Stays
    <2>3. QED
      BY <1>8, <2>1, <2>2 DEF Command, TapRestart, TapDuplicate
  <1>9. ASSUME NEW s \in Requests \ {r}, Continues(s)
        PROVE  Stays(r)
    <2>1. CASE SessionTold(s)
      BY <2>1, BackgroundGoes DEF SessionTold, Stays
    <2>2. CASE TryPort(s) \/ ReplyFails(s)
      BY <2>2 DEF TypeOK, TryPort, ReplyFails, Goto, Stays
    <2>3. CASE PortFound(s) \/ PortTold(s)
      <3>1. UNCHANGED candidate
        BY <2>3 DEF PortFound, PortTold
      <3>2. CASE Start(s, project[s], candidate[s])
        BY <3>1, <3>2, StartGoes DEF Stays
      <3>3. CASE Goto(s, "told")
        BY <3>1, <3>3 DEF TypeOK, Goto, Stays
      <3>4. QED
        BY <2>3, <3>2, <3>3 DEF PortFound, PortTold
    <2>4. QED
      BY <1>9, <2>1, <2>2, <2>3 DEF Continues
  <1>10. GatewayEnds => Stays(r)
    BY DEF TypeOK, GatewayEnds, GatewayGone, Stays
  <1>11. UNCHANGED <<at, candidate>> => Stays(r)
    BY DEF Stays
  <1>12. Stays(r) \/ Goal
    BY <1>6, <1>7, <1>8, <1>9, <1>10, <1>11
       DEF Next, Listen, Exit, StopCommand, StopProject, SessionEnds, Shutdown, GatewayStarts,
           requestVars, vars
  <1>13. QED
    BY <1>6, <1>12

LEMMA NextInRange ==
  ASSUME TypeOK, TypeOK', SearchesInRange, [Next]_vars
  PROVE  SearchesInRange'
  <1>1. FirstPort \in Ports
    BY TasksAssumption DEF Ports
  <1>2. QED
    BY <1>1, Moves DEF SearchesInRange, Stays

\* A request takes at most MaxPortSearch + 3 steps, whatever else happens: what is
\* left of EveryRequestEnds is that its replies are answered and its probes return.
THEOREM RequestsAlwaysAdvance == Spec => []StepsAreBounded /\ RequestsAdvance
  <1>1. Init => SearchesInRange
    BY DEF Init, SearchesInRange
  <1>2. TypeOK /\ TypeOK' /\ SearchesInRange /\ [Next]_vars => SearchesInRange'
    BY NextInRange
  <1>3. TypeOK /\ TypeOK' /\ SearchesInRange /\ SearchesInRange' /\ [Next]_vars =>
          [\A r \in Requests : at[r] # "new" =>
              /\ StepsLeft(r)' <= StepsLeft(r)
              /\ Continues(r) => StepsLeft(r)' < StepsLeft(r)]_vars
    <2> SUFFICES ASSUME TypeOK, TypeOK', SearchesInRange, SearchesInRange', [Next]_vars,
                        NEW r \in Requests, at[r] # "new"
                 PROVE  /\ StepsLeft(r)' <= StepsLeft(r)
                        /\ Continues(r) => StepsLeft(r)' < StepsLeft(r)
      OBVIOUS
    <2>1. /\ StepsLeft(r) \in 0..(MaxPortSearch + 3)
          /\ StepsLeft(r) > 0 <=> r \in InFlight
      BY Bounded DEF StepsAreBounded
    <2>2. /\ MaxPortSearch \in Nat /\ FirstPort \in Nat
          /\ at[r] = "port" => candidate[r] \in Int /\ FirstPort <= candidate[r] /\ candidate[r] <= LastPort
          /\ LastPort = FirstPort + MaxPortSearch - 1
      BY TasksAssumption DEF SearchesInRange, Ports, LastPort
    <2>3. StepsLeft(r)' = CASE at'[r] = "session" -> MaxPortSearch + 3
                            [] at'[r] = "port"    -> LastPort - candidate'[r] + 3
                            [] at'[r] = "probe"   -> 2
                            [] at'[r] = "told"    -> 1
                            [] OTHER             -> 0
      BY DEF StepsLeft, LastPort
    <2>4. CASE Stays(r) /\ ~Continues(r)
      <3>1. CASE at'[r] = at[r] /\ candidate'[r] = candidate[r]
        <4>1. StepsLeft(r)' = StepsLeft(r)
          BY <2>3, <3>1 DEF StepsLeft
        <4>2. QED
          BY <2>1, <2>4, <4>1
      <3>2. CASE at'[r] = "failed"
        BY <2>1, <2>3, <2>4, <3>2
      <3>3. QED
        BY <2>4, <3>1, <3>2 DEF Stays
    <2>5. CASE ~(Stays(r) /\ ~Continues(r))
      <3>1. StepsLeft(r)' < StepsLeft(r)
        BY <2>2, <2>3, <2>5, Moves DEF StepsLeft
      <3>2. StepsAreBounded'
        BY Bounded, PTL
      <3>3. StepsLeft(r)' \in 0..(MaxPortSearch + 3)
        BY <3>2 DEF StepsAreBounded
      <3>4. QED
        BY <2>1, <2>2, <3>1, <3>3
    <2>6. QED
      BY <2>4, <2>5
  <1>4. QED
    BY <1>1, <1>2, <1>3, Bounded, TypeCorrect, PTL DEF Spec, RequestsAdvance
=============================================================================
