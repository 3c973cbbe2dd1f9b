---------------------------- MODULE CommandLanes ----------------------------
(***************************************************************************)
(* The lanes that serialise agent runs (process/command-queue.ts) and the  *)
(* way runEmbeddedPiAgent uses them (agents/pi-embedded-runner/run.ts): a  *)
(* run is a command in the lane of its session, and that command awaits a  *)
(* second command in a global lane, which does the work.                   *)
(*                                                                         *)
(* A lane starts commands in a loop, the pump, that runs without an await; *)
(* starting the outer command enqueues the inner one, which drains the     *)
(* global lane inside the loop of the session lane.  `pumps` is that stack *)
(* of loops.  While it is not empty nothing else happens: the other        *)
(* actions begin in a callback, with an empty stack.                       *)
(***************************************************************************)
EXTENDS FiniteSets, Naturals, Sequences

CONSTANTS
    MaxRuns,            \* bound: runs ever submitted
    Sessions,           \* the session lanes
    Globals,            \* the global lanes (main, nested, cron, subagent)
    Limits,             \* values of maxConcurrent a configuration may set
    None,               \* no lane, no run
    MaxReloads,         \* bound: configuration reloads
    MaxResets           \* bound: restarts inside the process

Runs == 1..MaxRuns      \* in the order of submission
Lanes == Sessions \cup Globals
Entries == Runs \X {"outer", "inner"}

ASSUME LanesAssumption ==
    /\ MaxRuns \in Nat
    /\ Sessions \cap Globals = {}
    /\ None \notin Lanes \cup Runs
    /\ Limits \subseteq Nat
    /\ MaxReloads \in Nat
    /\ MaxResets \in Nat

VARIABLES
    \* LaneState
    queue, activeTaskIds, maxConcurrent, generation,
    \* the call stack between two callbacks
    pumps,              \* lanes whose pump loop runs, the innermost first
    lanesToDrain,       \* lanes resetAllLanes has still to drain
    \* the commands and the runs they belong to
    place,              \* of each command: none, queued, running or settled
    taskGeneration,     \* generation of the lane when the command was started
    session, globalLane,
    waitsFor,           \* the run whose answer a run awaits (sessions_send)
    \* runGatewayLoop
    restart,            \* running, draining or closing
    reloads, resets

laneVars == <<queue, activeTaskIds, maxConcurrent, generation>>
stackVars == <<pumps, lanesToDrain>>
runVars == <<place, taskGeneration, session, globalLane, waitsFor>>
loopVars == <<restart, reloads, resets>>
vars == <<laneVars, stackVars, runVars, loopVars>>

TypeOK ==
    /\ queue \in [Lanes -> Seq(Entries)]
    /\ activeTaskIds \in [Lanes -> SUBSET Entries]
    /\ maxConcurrent \in [Lanes -> Nat \ {0}]
    /\ generation \in [Lanes -> Nat]
    /\ pumps \in Seq(Lanes)
    /\ lanesToDrain \subseteq Lanes
    /\ place \in [Entries -> {"none", "queued", "running", "settled"}]
    /\ taskGeneration \in [Entries -> Nat]
    /\ session \in [Runs -> Sessions \cup {None}]
    /\ globalLane \in [Runs -> Globals \cup {None}]
    /\ waitsFor \in [Runs -> Runs \cup {None}]
    /\ restart \in {"running", "draining", "closing"}
    /\ reloads \in Nat
    /\ resets \in Nat

Init ==
    /\ queue = [l \in Lanes |-> <<>>]
    /\ activeTaskIds = [l \in Lanes |-> {}]
    /\ maxConcurrent = [l \in Lanes |-> 1]
    /\ generation = [l \in Lanes |-> 0]
    /\ pumps = <<>>
    /\ lanesToDrain = {}
    /\ place = [e \in Entries |-> "none"]
    /\ taskGeneration = [e \in Entries |-> 0]
    /\ session = [r \in Runs |-> None]
    /\ globalLane = [r \in Runs |-> None]
    /\ waitsFor = [r \in Runs |-> None]
    /\ restart = "running"
    /\ reloads = 0
    /\ resets = 0

-----------------------------------------------------------------------------
(***************************************************************************)
(* An operator whose comment starts with "Mistake" is a form of the        *)
(* definition after it that a plausible bug would give.  No action uses    *)
(* it: PROJECT.json pairs it with the property that catches it.            *)
(***************************************************************************)

Outer(r) == <<r, "outer">>
Inner(r) == <<r, "inner">>
LaneOf(e) == IF e[2] = "outer" THEN session[e[1]] ELSE globalLane[e[1]]

\* No loop is on the stack: a callback may run.
Quiet == pumps = <<>> /\ lanesToDrain = {}

AtLeast(lowest, n) == IF n < lowest THEN lowest ELSE n

draining(l) == \E i \in DOMAIN pumps : pumps[i] = l

HasRoom(l) == Cardinality(activeTaskIds[l]) < maxConcurrent[l]

Executing(r) == place[Inner(r)] = "running"
Over(r) == place[Outer(r)] = "settled"

-----------------------------------------------------------------------------
(* The pump *)

\* Mistake: the entry that came last is taken (pop for shift).
StartNewest(l) ==
    LET e == queue[l][Len(queue[l])]
    IN /\ queue[l] # <<>>
       /\ HasRoom(l)
       /\ activeTaskIds' = [activeTaskIds EXCEPT ![l] = @ \cup {e}]
       /\ taskGeneration' = [taskGeneration EXCEPT ![e] = generation[l]]
       /\ IF e[2] = "outer"
          THEN LET g == globalLane[e[1]]
               IN /\ queue' = [queue EXCEPT ![l] = SubSeq(@, 1, Len(@) - 1), ![g] = Append(@, Inner(e[1]))]
                  /\ place' = [place EXCEPT ![e] = "running", ![Inner(e[1])] = "queued"]
                  /\ pumps' = <<g>> \o pumps
          ELSE /\ queue' = [queue EXCEPT ![l] = SubSeq(@, 1, Len(@) - 1)]
               /\ place' = [place EXCEPT ![e] = "running"]
               /\ UNCHANGED pumps

\* One round of the loop: the first entry of lane l is started.  Calling the
\* task of an outer command enqueues the inner one and drains its lane.
StartNext(l) ==
    LET e == Head(queue[l])
    IN /\ queue[l] # <<>>
       /\ HasRoom(l)
       /\ activeTaskIds' = [activeTaskIds EXCEPT ![l] = @ \cup {e}]
       /\ taskGeneration' = [taskGeneration EXCEPT ![e] = generation[l]]
       /\ IF e[2] = "outer"
          THEN LET g == globalLane[e[1]]
               IN /\ queue' = [queue EXCEPT ![l] = Tail(@), ![g] = Append(@, Inner(e[1]))]
                  /\ place' = [place EXCEPT ![e] = "running", ![Inner(e[1])] = "queued"]
                  /\ pumps' = IF draining(g) THEN pumps ELSE <<g>> \o pumps
          ELSE /\ queue' = [queue EXCEPT ![l] = Tail(@)]
               /\ place' = [place EXCEPT ![e] = "running"]
               /\ UNCHANGED pumps

PumpEnds(l) ==
    /\ queue[l] = <<>> \/ ~HasRoom(l)
    /\ pumps' = Tail(pumps)
    /\ UNCHANGED <<queue, activeTaskIds, place, taskGeneration>>

Pump ==
    /\ pumps # <<>>
    /\ StartNext(Head(pumps)) \/ PumpEnds(Head(pumps))
    /\ UNCHANGED <<maxConcurrent, generation, lanesToDrain, session, globalLane, waitsFor, loopVars>>

\* resetAllLanes drains the lanes that have entries one after the other.
DrainNext(l) ==
    /\ pumps = <<>>
    /\ l \in lanesToDrain
    /\ lanesToDrain' = lanesToDrain \ {l}
    /\ pumps' = <<l>>
    /\ UNCHANGED <<laneVars, runVars, loopVars>>

-----------------------------------------------------------------------------
(* Commands *)

\* runEmbeddedPiAgent for run r: by a user (p = None), or by the tool
\* sessions_send of run p, which waits for the answer.
Submit(r, s, g, p) ==
    /\ Quiet
    /\ place[Outer(r)] = "none"
    /\ \A q \in Runs : q < r => place[Outer(q)] # "none"
    /\ place' = [place EXCEPT ![Outer(r)] = "queued"]
    /\ session' = [session EXCEPT ![r] = s]
    /\ globalLane' = [globalLane EXCEPT ![r] = g]
    /\ queue' = [queue EXCEPT ![s] = Append(@, Outer(r))]
    /\ pumps' = <<s>>
    /\ \/ p = None /\ UNCHANGED waitsFor
       \/ /\ p # None
          /\ Executing(p)
          /\ waitsFor[p] = None
          /\ waitsFor' = [waitsFor EXCEPT ![p] = r]
    /\ UNCHANGED <<activeTaskIds, maxConcurrent, generation, lanesToDrain, taskGeneration, loopVars>>

\* Mistake: the slot is given back and the lane is not pumped.
SettleWithoutPump(e) ==
    LET l == LaneOf(e)
    IN /\ place' = [place EXCEPT ![e] = "settled"]
       /\ IF taskGeneration[e] = generation[l]
          THEN activeTaskIds' = [activeTaskIds EXCEPT ![l] = @ \ {e}]
          ELSE UNCHANGED activeTaskIds
       /\ UNCHANGED pumps

\* Mistake: the end of a command is ignored when it fails.
SettleKeepsSlot(e) ==
    LET l == LaneOf(e)
    IN /\ place' = [place EXCEPT ![e] = "settled"]
       /\ IF taskGeneration[e] = generation[l]
          THEN pumps' = <<l>> /\ (UNCHANGED activeTaskIds \/ activeTaskIds' = [activeTaskIds EXCEPT ![l] = @ \ {e}])
          ELSE UNCHANGED <<activeTaskIds, pumps>>

\* completeTask and what follows it, whether the task succeeded or threw: a
\* command of this generation gives its slot back and the lane is pumped.
Settle(e) ==
    LET l == LaneOf(e)
    IN /\ place' = [place EXCEPT ![e] = "settled"]
       /\ IF taskGeneration[e] = generation[l]
          THEN /\ activeTaskIds' = [activeTaskIds EXCEPT ![l] = @ \ {e}]
               /\ pumps' = <<l>>
          ELSE UNCHANGED <<activeTaskIds, pumps>>

\* The agent run ends or is aborted.
RunEnds(r) ==
    /\ Quiet
    /\ Executing(r)
    /\ waitsFor[r] = None
    /\ Settle(Inner(r))
    /\ UNCHANGED <<queue, maxConcurrent, generation, lanesToDrain, taskGeneration, session, globalLane, waitsFor, loopVars>>

\* The outer command has awaited the inner one.
OuterEnds(r) ==
    /\ Quiet
    /\ place[Outer(r)] = "running"
    /\ place[Inner(r)] = "settled"
    /\ Settle(Outer(r))
    /\ UNCHANGED <<queue, maxConcurrent, generation, lanesToDrain, taskGeneration, session, globalLane, waitsFor, loopVars>>

\* agent.wait answers when the other run is over, or after its timeout.
WaitEnds(r) ==
    /\ Quiet
    /\ waitsFor[r] # None
    /\ waitsFor' = [waitsFor EXCEPT ![r] = None]
    /\ UNCHANGED <<laneVars, stackVars, place, taskGeneration, session, globalLane, loopVars>>

\* clearCommandLane of a session lane: the queued commands are rejected.
Clear(s) ==
    /\ Quiet
    /\ queue[s] # <<>>
    /\ queue' = [queue EXCEPT ![s] = <<>>]
    /\ place' = [e \in Entries |->
          IF e[2] = "outer" /\ session[e[1]] = s /\ place[e] = "queued" THEN "settled" ELSE place[e]]
    /\ UNCHANGED <<activeTaskIds, maxConcurrent, generation, stackVars, taskGeneration, session, globalLane, waitsFor, loopVars>>

\* setCommandLaneConcurrency of a global lane, at a reload of the configuration.
SetConcurrency(g, n) ==
    /\ Quiet
    /\ reloads < MaxReloads
    /\ reloads' = reloads + 1
    /\ maxConcurrent' = [maxConcurrent EXCEPT ![g] = AtLeast(1, n)]
    /\ pumps' = <<g>>
    /\ UNCHANGED <<queue, activeTaskIds, generation, lanesToDrain, runVars, restart, resets>>

-----------------------------------------------------------------------------
(* A restart inside the process *)

\* SIGUSR1: the loop waits for the commands that are active.
RequestRestart ==
    /\ Quiet
    /\ restart = "running"
    /\ resets < MaxResets
    /\ restart' = "draining"
    /\ UNCHANGED <<laneVars, stackVars, runVars, reloads, resets>>

\* waitForActiveTasks finds none of them active any more, or its time is up: a
\* restart goes on either way, and the server closes without ending a run.
DrainEnds ==
    /\ Quiet
    /\ restart = "draining"
    /\ restart' = "closing"
    /\ UNCHANGED <<laneVars, stackVars, runVars, reloads, resets>>

\* Mistake: the lanes are reset and not drained.
ResetWithoutDrain ==
    /\ Quiet
    /\ restart = "closing"
    /\ restart' = "running"
    /\ resets' = resets + 1
    /\ generation' = [l \in Lanes |-> generation[l] + 1]
    /\ activeTaskIds' = [l \in Lanes |-> {}]
    /\ UNCHANGED <<queue, maxConcurrent, stackVars, runVars, reloads>>

\* resetAllLanes, after the server was closed: no slot is held any more, every
\* queue stays, and the lanes that have entries will be drained.
ResetAllLanes ==
    /\ Quiet
    /\ restart = "closing"
    /\ restart' = "running"
    /\ resets' = resets + 1
    /\ generation' = [l \in Lanes |-> generation[l] + 1]
    /\ activeTaskIds' = [l \in Lanes |-> {}]
    /\ lanesToDrain' = {l \in Lanes : queue[l] # <<>>}
    /\ UNCHANGED <<queue, maxConcurrent, pumps, runVars, reloads>>

Next ==
    \/ Pump
    \/ \E l \in Lanes : DrainNext(l)
    \/ \E r \in Runs, s \in Sessions, g \in Globals, p \in Runs \cup {None} : Submit(r, s, g, p)
    \/ \E r \in Runs : RunEnds(r) \/ OuterEnds(r) \/ WaitEnds(r)
    \/ \E s \in Sessions : Clear(s)
    \/ \E g \in Globals, n \in Limits : SetConcurrency(g, n)
    \/ RequestRestart
    \/ DrainEnds
    \/ ResetAllLanes

Spec == Init /\ [][Next]_vars

\* Loops go on, agent runs end, waits have a timeout, and a restart that was
\* requested goes on.  Nothing makes anybody submit, clear, reload or restart.
Fairness ==
    /\ WF_vars(Pump)
    /\ \A l \in Lanes : WF_vars(DrainNext(l))
    /\ \A r \in Runs : WF_vars(RunEnds(r)) /\ WF_vars(OuterEnds(r)) /\ WF_vars(WaitEnds(r))
    /\ WF_vars(DrainEnds) /\ WF_vars(ResetAllLanes)

LiveSpec == Spec /\ Fairness

-----------------------------------------------------------------------------
(* Properties *)

\* A lane's slots are held by exactly the commands of this generation that
\* run: no slot is lost when a command ends after a restart, and none is given
\* back that a newer command holds.
SlotsAreHeld ==
    \A l \in Lanes : activeTaskIds[l] =
        {e \in Entries : place[e] = "running" /\ LaneOf(e) = l /\ taskGeneration[e] = generation[l]}

\* Between two callbacks no command waits in a lane that has room: whatever
\* ends, is cleared, reconfigured or reset has pumped the lanes it freed.
NoIdleLane ==
    Quiet => \A l \in Lanes : queue[l] = <<>> \/ ~HasRoom(l)

\* The runs of a session, seen without lanes.
RunStatus ==
    [r \in Runs |->
        CASE place[Outer(r)] = "none" -> "new"
          [] place[Outer(r)] = "queued" -> "waiting"
          [] place[Outer(r)] = "running" -> "running"
          [] OTHER -> "over"]

Serial == INSTANCE SessionRuns WITH
    status <- RunStatus,
    life <- [r \in Runs |-> taskGeneration[Outer(r)]],
    now <- resets

\* The lanes keep the promise of SessionRuns: the runs of a session begin in
\* order and, in one life of the gateway, one at a time.
ImplementsSessionRuns == Serial!Spec

\* Every run that is submitted is over in the end: a run that waits for the
\* answer of another one, in a lane that is full of such runs, too.
EveryRunEnds == \A r \in Runs : place[Outer(r)] = "queued" ~> Over(r)
=============================================================================
