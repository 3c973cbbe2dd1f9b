------------------------- MODULE CommandLanesProofs -------------------------
(***************************************************************************)
(* What holds of the lanes for any number of runs, sessions, global lanes, *)
(* reloads and restarts.                                                   *)
(*                                                                         *)
(* SlotsAreHeld needs to know that a command that waits is in no set of    *)
(* active commands and that no command is of a later generation than its   *)
(* lane.  NoIdleLane speaks of the moments between two callbacks; while    *)
(* loops are on the stack, RoomIsUsed says which lanes may have room.      *)
(* Last, what the order of the outer commands means for the agent runs     *)
(* inside them: RunsApart and NobodyOvertakes.                             *)
(***************************************************************************)
EXTENDS CommandLanes, FiniteSetTheorems, TLAPS

\* A run that was submitted has its lanes.
LanesKnown ==
    \A r \in Runs : place[Outer(r)] # "none" =>
        session[r] \in Sessions /\ globalLane[r] \in Globals

\* The inner command comes to be when the outer one has been started.
OuterFirst ==
    \A r \in Runs : place[Outer(r)] \in {"none", "queued"} => place[Inner(r)] = "none"

OnlyQueued ==
    \A l \in Lanes : \A i \in 1..Len(queue[l]) :
        place[queue[l][i]] = "queued" /\ LaneOf(queue[l][i]) = l

OnceEach ==
    \A l \in Lanes : \A i, j \in 1..Len(queue[l]) : queue[l][i] = queue[l][j] => i = j

AllQueued ==
    \A e \in Entries : place[e] = "queued" =>
        \E i \in 1..Len(queue[LaneOf(e)]) : queue[LaneOf(e)][i] = e

\* Every lane has gone through every restart; no command is of the future.
Generations ==
    /\ \A l \in Lanes : generation[l] = resets
    /\ \A e \in Entries : taskGeneration[e] <= resets

\* A lane that has room and commands that wait is in a loop, or will be.
RoomIsUsed ==
    \A l \in Lanes : queue[l] = <<>> \/ ~HasRoom(l) \/ draining(l) \/ l \in lanesToDrain

SlotInv ==
    /\ TypeOK
    /\ LanesKnown
    /\ OuterFirst
    /\ OnlyQueued
    /\ OnceEach
    /\ AllQueued
    /\ Generations
    /\ SlotsAreHeld
    /\ RoomIsUsed

\* The runs of a session wait in the order in which they were submitted.
SubmittedInOrder ==
    \A r, q \in Runs : q < r /\ place[Outer(r)] # "none" => place[Outer(q)] # "none"

WaitInOrder ==
    \A s \in Sessions : \A i, j \in 1..Len(queue[s]) : i < j => queue[s][i][1] < queue[s][j][1]

\* A session lane has one slot.
OneSlot ==
    /\ \A s \in Sessions : maxConcurrent[s] = 1
    /\ \A l \in Lanes : IsFiniteSet(activeTaskIds[l])

OrderInv == SlotInv /\ SubmittedInOrder /\ WaitInOrder /\ OneSlot

-----------------------------------------------------------------------------
(* Commands and sequences *)

\* A command is the outer or the inner one of its run.
LEMMA EntryFacts ==
  /\ \A r \in Runs : /\ Outer(r) \in Entries /\ Inner(r) \in Entries
                     /\ Outer(r)[1] = r /\ Outer(r)[2] = "outer"
                     /\ Inner(r)[1] = r /\ Inner(r)[2] = "inner"
                     /\ Outer(r) # Inner(r)
                     /\ LaneOf(Outer(r)) = session[r] /\ LaneOf(Inner(r)) = globalLane[r]
  /\ \A e \in Entries : /\ e[1] \in Runs
                        /\ e[2] = "outer" => e = Outer(e[1])
                        /\ e[2] # "outer" => e = Inner(e[1])
  BY DEF Entries, Outer, Inner, LaneOf

\* A command that waits is the outer one of its session lane, or inner.
LEMMA LaneFacts ==
  ASSUME LanesKnown, OuterFirst, NEW e \in Entries, place[e] # "none"
  PROVE  /\ LaneOf(e) \in Lanes
         /\ e[2] = "outer" => LaneOf(e) = session[e[1]] /\ LaneOf(e) \in Sessions
         /\ e[2] # "outer" => LaneOf(e) = globalLane[e[1]] /\ LaneOf(e) \in Globals
         /\ session[e[1]] \in Sessions /\ globalLane[e[1]] \in Globals
  <1>1. place[Outer(e[1])] # "none"
    BY EntryFacts DEF OuterFirst
  <1>2. QED
    BY <1>1, EntryFacts DEF LanesKnown, LaneOf, Lanes

\* The elements of a sequence that was appended to.
LEMMA AppendFacts ==
  ASSUME NEW S, NEW q \in Seq(S), NEW e \in S
  PROVE  /\ Append(q, e) \in Seq(S)
         /\ Len(Append(q, e)) = Len(q) + 1
         /\ \A i \in 1..Len(q) : Append(q, e)[i] = q[i]
         /\ Append(q, e)[Len(q) + 1] = e
  OBVIOUS

\* The elements of a sequence whose first one was taken.
LEMMA TailFacts ==
  ASSUME NEW S, NEW q \in Seq(S), q # <<>>
  PROVE  /\ Head(q) \in S /\ Head(q) = q[1] /\ 1 \in 1..Len(q)
         /\ Tail(q) \in Seq(S)
         /\ Len(Tail(q)) = Len(q) - 1
         /\ \A i \in 1..Len(q) - 1 : Tail(q)[i] = q[i + 1]
  OBVIOUS

\* The lanes that are drained once one more loop was begun.
LEMMA PushFacts ==
  ASSUME NEW S, NEW q \in Seq(S), NEW l \in S
  PROVE  /\ <<l>> \in Seq(S) /\ <<l>> \o q \in Seq(S)
         /\ 1 \in DOMAIN <<l>> /\ <<l>>[1] = l
         /\ 1 \in DOMAIN (<<l>> \o q) /\ (<<l>> \o q)[1] = l
         /\ \A i \in DOMAIN q : i + 1 \in DOMAIN (<<l>> \o q) /\ (<<l>> \o q)[i + 1] = q[i]
  OBVIOUS

-----------------------------------------------------------------------------
(* The initial states, and the types *)

\* Initially nothing was submitted.
LEMMA InitOrderInv == Init => OrderInv
  <1> SUFFICES ASSUME Init PROVE OrderInv
    OBVIOUS
  <1> USE DEF Init
  <1>1. TypeOK
    BY DEF TypeOK
  <1>2. LanesKnown /\ OuterFirst /\ AllQueued /\ Generations /\ SubmittedInOrder
    BY EntryFacts DEF LanesKnown, OuterFirst, AllQueued, Generations, SubmittedInOrder
  <1>3. OnlyQueued /\ OnceEach /\ RoomIsUsed /\ WaitInOrder
    BY DEF OnlyQueued, OnceEach, RoomIsUsed, WaitInOrder, Lanes
  <1>4. SlotsAreHeld
    BY DEF SlotsAreHeld
  <1>5. OneSlot
    BY FS_EmptySet DEF OneSlot, Lanes
  <1>6. QED
    BY <1>1, <1>2, <1>3, <1>4, <1>5 DEF OrderInv, SlotInv

-----------------------------------------------------------------------------
(* One round of a loop *)

\* The first entry of a lane that a loop looks at.
LEMMA HeadFacts ==
  ASSUME SlotInv, NEW l \in Lanes, queue[l] # <<>>
  PROVE  /\ Head(queue[l]) \in Entries
         /\ Head(queue[l]) = queue[l][1]
         /\ 1 \in 1..Len(queue[l])
         /\ place[Head(queue[l])] = "queued"
         /\ LaneOf(Head(queue[l])) = l
  <1>1. queue[l] \in Seq(Entries)
    BY DEF SlotInv, TypeOK
  <1>2. /\ Head(queue[l]) \in Entries /\ Head(queue[l]) = queue[l][1] /\ 1 \in 1..Len(queue[l])
    BY <1>1, TailFacts
  <1>3. QED
    BY <1>2 DEF SlotInv, OnlyQueued

\* What starting the outer command of run r in lane l does to the variables.
StartsOuter(l, r, g) ==
    /\ Head(queue[l]) = Outer(r)
    /\ l = session[r] /\ l \in Sessions /\ g = globalLane[r] /\ l # g
    /\ place[Outer(r)] = "queued" /\ place[Inner(r)] = "none"
    /\ queue' \in [Lanes -> Seq(Entries)]
    /\ queue'[l] = Tail(queue[l]) /\ queue'[g] = Append(queue[g], Inner(r))
    /\ \A m \in Lanes \ {l, g} : queue'[m] = queue[m]
    /\ place' \in [Entries -> {"none", "queued", "running", "settled"}]
    /\ place'[Outer(r)] = "running" /\ place'[Inner(r)] = "queued"
    /\ \A x \in Entries \ {Outer(r), Inner(r)} : place'[x] = place[x]
    /\ taskGeneration' = [taskGeneration EXCEPT ![Outer(r)] = generation[l]]
    /\ activeTaskIds' = [activeTaskIds EXCEPT ![l] = @ \cup {Outer(r)}]
    /\ pumps' = IF draining(g) THEN pumps ELSE <<g>> \o pumps
    /\ \A x \in Entries : LaneOf(x)' = LaneOf(x)

\* An outer command that is started is the one of a run and of the lane of its session.
LEMMA StartOuterFacts ==
  ASSUME SlotInv, NEW l \in Lanes, StartNext(l), Head(queue[l])[2] = "outer",
         UNCHANGED <<maxConcurrent, generation, lanesToDrain, session, globalLane, waitsFor, loopVars>>
  PROVE  \E r \in Runs, g \in Globals : StartsOuter(l, r, g)
  <1> DEFINE e == Head(queue[l])
             r == e[1]
             g == globalLane[r]
  <1>1. e \in Entries /\ place[e] = "queued" /\ LaneOf(e) = l /\ queue[l] # <<>>
    BY HeadFacts DEF StartNext
  <1>2. r \in Runs /\ e = Outer(r)
    BY <1>1, EntryFacts
  <1>3. l = session[r] /\ l \in Sessions /\ g \in Globals
    BY <1>1, <1>2, LaneFacts DEF SlotInv
  <1>4. l # g /\ g \in Lanes
    BY <1>3, LanesAssumption DEF Lanes
  <1>5. place[Inner(r)] = "none"
    BY <1>1, <1>2 DEF SlotInv, OuterFirst
  <1>6. /\ queue' = [queue EXCEPT ![l] = Tail(@), ![g] = Append(@, Inner(r))]
        /\ place' = [place EXCEPT ![e] = "running", ![Inner(r)] = "queued"]
        /\ pumps' = IF draining(g) THEN pumps ELSE <<g>> \o pumps
        /\ activeTaskIds' = [activeTaskIds EXCEPT ![l] = @ \cup {e}]
        /\ taskGeneration' = [taskGeneration EXCEPT ![e] = generation[l]]
    BY DEF StartNext
  <1>7. /\ queue \in [Lanes -> Seq(Entries)]
        /\ place \in [Entries -> {"none", "queued", "running", "settled"}]
    BY DEF SlotInv, TypeOK
  <1>8. Tail(queue[l]) \in Seq(Entries) /\ Append(queue[g], Inner(r)) \in Seq(Entries)
    BY <1>1, <1>2, <1>4, <1>7, EntryFacts
  <1>9. /\ queue' \in [Lanes -> Seq(Entries)]
        /\ queue'[l] = Tail(queue[l]) /\ queue'[g] = Append(queue[g], Inner(r))
        /\ \A m \in Lanes \ {l, g} : queue'[m] = queue[m]
    BY <1>4, <1>6, <1>7, <1>8
  <1>10. /\ place' \in [Entries -> {"none", "queued", "running", "settled"}]
         /\ place'[Outer(r)] = "running" /\ place'[Inner(r)] = "queued"
         /\ \A x \in Entries \ {Outer(r), Inner(r)} : place'[x] = place[x]
    BY <1>2, <1>6, <1>7, EntryFacts
  <1>11. \A x \in Entries : LaneOf(x)' = LaneOf(x)
    BY DEF LaneOf
  <1>12. QED
    BY <1>1, <1>2, <1>3, <1>4, <1>5, <1>6, <1>9, <1>10, <1>11 DEF StartsOuter

\* Starting an outer command keeps the invariant.
LEMMA StartOuterKeeps ==
  ASSUME SlotInv, NEW l \in Lanes, StartNext(l), Head(queue[l])[2] = "outer",
         draining(l),
         UNCHANGED <<maxConcurrent, generation, lanesToDrain, session, globalLane, waitsFor, loopVars>>
  PROVE  SlotInv'
  <1>1. PICK r \in Runs, g \in Globals : StartsOuter(l, r, g)
    BY StartOuterFacts
  <1> USE DEF StartsOuter
  <1> DEFINE e == Outer(r)
             f == Inner(r)
  <1>2. /\ e \in Entries /\ f \in Entries /\ e # f /\ LaneOf(e) = l /\ LaneOf(f) = g
        /\ g \in Lanes
    BY <1>1, EntryFacts DEF Lanes
  <1>3. queue[l] # <<>>
    BY DEF StartNext
  <1>4. /\ queue[l] \in Seq(Entries) /\ queue[g] \in Seq(Entries)
        /\ e = queue[l][1] /\ 1 \in 1..Len(queue[l])
        /\ Len(queue'[l]) = Len(queue[l]) - 1
        /\ \A i \in 1..Len(queue[l]) - 1 : queue'[l][i] = queue[l][i + 1]
        /\ Len(queue'[g]) = Len(queue[g]) + 1
        /\ \A i \in 1..Len(queue[g]) : queue'[g][i] = queue[g][i]
        /\ queue'[g][Len(queue[g]) + 1] = f
    BY <1>1, <1>2, <1>3, TailFacts, AppendFacts, HeadFacts DEF SlotInv, TypeOK
  <1>5. \A m \in Lanes : Len(queue[m]) \in Nat
    BY DEF SlotInv, TypeOK
  <1>6. draining(l)' /\ draining(g)' /\ \A m \in Lanes : draining(m) => draining(m)'
    <2>1. CASE draining(g)
      BY <1>1, <2>1 DEF draining
    <2>2. CASE ~draining(g)
      <3>1. pumps' = <<g>> \o pumps
        BY <1>1, <2>2
      <3>2. /\ 1 \in DOMAIN pumps' /\ pumps'[1] = g
            /\ \A i \in DOMAIN pumps : i + 1 \in DOMAIN pumps' /\ pumps'[i + 1] = pumps[i]
        <4>1. pumps \in Seq(Lanes)
          BY DEF SlotInv, TypeOK
        <4>2. QED
          BY <1>2, <3>1, <4>1, PushFacts
      <3>3. QED
        BY <3>2 DEF draining
    <2>3. QED
      BY <2>1, <2>2
  <1>7. TypeOK'
    <2>1. pumps' \in Seq(Lanes)
      BY <1>1, <1>2, PushFacts DEF SlotInv, TypeOK
    <2>2. activeTaskIds' \in [Lanes -> SUBSET Entries] /\ taskGeneration' \in [Entries -> Nat]
      BY <1>1, <1>2 DEF SlotInv, TypeOK
    <2>3. QED
      BY <1>1, <2>1, <2>2 DEF SlotInv, TypeOK, loopVars
  <1>8. LanesKnown'
    BY <1>1, <1>2, EntryFacts DEF SlotInv, LanesKnown
  <1>9. OuterFirst'
    BY <1>1, <1>2, EntryFacts DEF SlotInv, OuterFirst
  <1>10. OnlyQueued'
    <2> SUFFICES ASSUME NEW m \in Lanes, NEW i \in 1..Len(queue'[m])
                 PROVE  (place[queue[m][i]] = "queued" /\ LaneOf(queue[m][i]) = m)'
      BY DEF OnlyQueued
    <2> USE DEF LaneOf
    <2>1. CASE m = l
      <3>1. /\ i + 1 \in 1..Len(queue[l]) /\ i + 1 # 1 /\ queue'[l][i] = queue[l][i + 1]
            /\ queue[l][i + 1] \in Entries
        BY <1>4, <2>1
      <3>2. /\ place[queue[l][i + 1]] = "queued" /\ LaneOf(queue[l][i + 1]) = l
            /\ queue[l][i + 1] # e
        BY <1>4, <3>1 DEF SlotInv, OnlyQueued, OnceEach
      <3>3. QED
        BY <1>1, <2>1, <3>1, <3>2
    <2>2. CASE m = g
      <3>1. CASE i = Len(queue[g]) + 1
        BY <1>1, <1>2, <1>4, <2>2, <3>1
      <3>2. CASE i # Len(queue[g]) + 1
        <4>1. i \in 1..Len(queue[g]) /\ queue'[g][i] = queue[g][i] /\ queue[g][i] \in Entries
          BY <1>4, <2>2, <3>2
        <4>2. place[queue[g][i]] = "queued" /\ LaneOf(queue[g][i]) = g
          BY <1>2, <4>1 DEF SlotInv, OnlyQueued
        <4>3. QED
          BY <1>1, <1>2, <2>2, <4>1, <4>2
      <3>3. QED
        BY <3>1, <3>2
    <2>3. CASE m # l /\ m # g
      <3>1. queue'[m] = queue[m] /\ queue[m][i] \in Entries
        BY <1>1, <2>3 DEF SlotInv, TypeOK
      <3>2. place[queue[m][i]] = "queued" /\ LaneOf(queue[m][i]) = m
        BY <3>1 DEF SlotInv, OnlyQueued
      <3>3. QED
        BY <1>1, <1>2, <2>3, <3>1, <3>2
    <2>4. QED
      BY <2>1, <2>2, <2>3
  <1>11. OnceEach'
    <2> SUFFICES ASSUME NEW m \in Lanes, NEW i \in 1..Len(queue'[m]), NEW j \in 1..Len(queue'[m]),
                        queue'[m][i] = queue'[m][j]
                 PROVE  i = j
      BY DEF OnceEach
    <2>1. CASE m = l
      <3>1. /\ i + 1 \in 1..Len(queue[l]) /\ j + 1 \in 1..Len(queue[l])
            /\ queue[l][i + 1] = queue[l][j + 1]
        BY <1>4, <2>1
      <3>2. QED
        BY <1>2, <3>1 DEF SlotInv, OnceEach
    <2>2. CASE m = g
      <3>1. \A k \in 1..Len(queue[g]) : queue[g][k] # f
        BY <1>1, <1>2 DEF SlotInv, OnlyQueued
      <3>2. CASE i \in 1..Len(queue[g]) /\ j \in 1..Len(queue[g])
        BY <1>2, <1>4, <2>2, <3>2 DEF SlotInv, OnceEach
      <3>3. \A k \in 1..Len(queue'[g]) : k \in 1..Len(queue[g]) \/ k = Len(queue[g]) + 1
        BY <1>2, <1>4, <1>5
      <3>4. CASE i = Len(queue[g]) + 1
        <4>1. \A k \in 1..Len(queue[g]) : queue'[g][k] # f
          BY <1>4, <3>1
        <4>2. QED
          BY <1>4, <2>2, <3>3, <3>4, <4>1
      <3>5. CASE j = Len(queue[g]) + 1
        <4>1. \A k \in 1..Len(queue[g]) : queue'[g][k] # f
          BY <1>4, <3>1
        <4>2. QED
          BY <1>4, <2>2, <3>3, <3>5, <4>1
      <3>6. QED
        BY <2>2, <3>2, <3>3, <3>4, <3>5
    <2>3. CASE m # l /\ m # g
      BY <1>1, <2>3 DEF SlotInv, OnceEach
    <2>4. QED
      BY <2>1, <2>2, <2>3
  <1>12. AllQueued'
    <2> SUFFICES ASSUME NEW x \in Entries, place'[x] = "queued"
                 PROVE  \E i \in 1..Len(queue'[LaneOf(x)]) : queue'[LaneOf(x)][i] = x
      BY <1>1 DEF AllQueued
    <2>1. CASE x = f
      BY <1>2, <1>4, <1>5, <2>1
    <2>2. CASE x # f
      <3>1. x # e /\ place[x] = "queued"
        BY <1>1, <2>2
      <3>2. PICK i \in 1..Len(queue[LaneOf(x)]) : queue[LaneOf(x)][i] = x
        BY <3>1 DEF SlotInv, AllQueued
      <3>3. CASE LaneOf(x) = l
        <4>1. i # 1 /\ i - 1 \in 1..Len(queue[l]) - 1 /\ queue'[l][i - 1] = x
          BY <1>4, <3>1, <3>2, <3>3
        <4>2. QED
          BY <1>4, <3>3, <4>1
      <3>4. CASE LaneOf(x) = g
        BY <1>4, <1>5, <3>2, <3>4
      <3>5. CASE LaneOf(x) # l /\ LaneOf(x) # g
        <4>1. LaneOf(x) \in Lanes
          BY <3>1, LaneFacts DEF SlotInv
        <4>2. QED
          BY <1>1, <3>2, <3>5, <4>1
      <3>6. QED
        BY <3>3, <3>4, <3>5
    <2>3. QED
      BY <2>1, <2>2
  <1>13. Generations'
    BY <1>1, <1>2 DEF SlotInv, TypeOK, Generations, loopVars
  <1>14. SlotsAreHeld'
    <2> SUFFICES ASSUME NEW m \in Lanes
                 PROVE  activeTaskIds'[m] = {x \in Entries :
                           place'[x] = "running" /\ LaneOf(x)' = m /\ taskGeneration'[x] = generation[m]}
      BY DEF SlotsAreHeld
    <2>1. activeTaskIds[m] = {x \in Entries :
              place[x] = "running" /\ LaneOf(x) = m /\ taskGeneration[x] = generation[m]}
      BY DEF SlotInv, SlotsAreHeld
    <2>2. taskGeneration'[e] = generation[l] /\ \A x \in Entries \ {e} : taskGeneration'[x] = taskGeneration[x]
      BY <1>1, <1>2 DEF SlotInv, TypeOK
    <2>3. activeTaskIds'[m] = IF m = l THEN activeTaskIds[m] \cup {e} ELSE activeTaskIds[m]
      BY <1>1 DEF SlotInv, TypeOK
    <2>4. \A x \in Entries : place'[x] = "running" <=> place[x] = "running" \/ x = e
      BY <1>1, <1>2
    <2>5. QED
      BY <1>1, <1>2, <2>1, <2>2, <2>3, <2>4
  <1>15. RoomIsUsed'
    <2> SUFFICES ASSUME NEW m \in Lanes
                 PROVE  queue'[m] = <<>> \/ ~HasRoom(m)' \/ draining(m)' \/ m \in lanesToDrain'
      BY DEF RoomIsUsed
    <2>1. CASE m # l /\ m # g
      BY <1>1, <1>6, <2>1 DEF SlotInv, TypeOK, RoomIsUsed, HasRoom
    <2>2. QED
      BY <1>6, <2>1
  <1>16. QED
    BY <1>7, <1>8, <1>9, <1>10, <1>11, <1>12, <1>13, <1>14, <1>15 DEF SlotInv

\* So does starting an inner command.
LEMMA StartInnerKeeps ==
  ASSUME SlotInv, NEW l \in Lanes, StartNext(l), Head(queue[l])[2] # "outer",
         draining(l),
         UNCHANGED <<maxConcurrent, generation, lanesToDrain, session, globalLane, waitsFor, loopVars>>
  PROVE  SlotInv'
  <1> DEFINE e == Head(queue[l])
  <1>1. /\ e \in Entries /\ place[e] = "queued" /\ LaneOf(e) = l /\ queue[l] # <<>>
        /\ e = queue[l][1] /\ 1 \in 1..Len(queue[l])
    BY HeadFacts DEF StartNext
  <1>2. e[1] \in Runs /\ e = Inner(e[1])
    BY <1>1, EntryFacts
  <1>3. /\ queue' = [queue EXCEPT ![l] = Tail(@)]
        /\ place' = [place EXCEPT ![e] = "running"]
        /\ pumps' = pumps
        /\ activeTaskIds' = [activeTaskIds EXCEPT ![l] = @ \cup {e}]
        /\ taskGeneration' = [taskGeneration EXCEPT ![e] = generation[l]]
    BY DEF StartNext
  <1>4. /\ queue \in [Lanes -> Seq(Entries)]
        /\ place \in [Entries -> {"none", "queued", "running", "settled"}]
    BY DEF SlotInv, TypeOK
  <1>5. /\ queue[l] \in Seq(Entries) /\ Tail(queue[l]) \in Seq(Entries)
        /\ Len(Tail(queue[l])) = Len(queue[l]) - 1
        /\ \A i \in 1..Len(queue[l]) - 1 : Tail(queue[l])[i] = queue[l][i + 1]
    BY <1>1, <1>4, TailFacts
  <1>6. /\ queue' \in [Lanes -> Seq(Entries)]
        /\ queue'[l] = Tail(queue[l])
        /\ \A m \in Lanes \ {l} : queue'[m] = queue[m]
    BY <1>3, <1>4, <1>5
  <1>7. /\ place' \in [Entries -> {"none", "queued", "running", "settled"}]
        /\ place'[e] = "running"
        /\ \A x \in Entries \ {e} : place'[x] = place[x]
    BY <1>1, <1>3, <1>4
  <1>8. \A x : LaneOf(x)' = LaneOf(x)
    BY DEF LaneOf
  <1> HIDE DEF e
  <1>9. TypeOK'
    <2>1. activeTaskIds' \in [Lanes -> SUBSET Entries] /\ taskGeneration' \in [Entries -> Nat]
      BY <1>1, <1>3 DEF SlotInv, TypeOK
    <2>2. QED
      BY <1>3, <1>6, <1>7, <2>1 DEF SlotInv, TypeOK, loopVars
  <1>10. LanesKnown' /\ OuterFirst'
    BY <1>1, <1>2, <1>7, EntryFacts DEF SlotInv, LanesKnown, OuterFirst
  <1>11. OnlyQueued'
    <2> SUFFICES ASSUME NEW m \in Lanes, NEW i \in 1..Len(queue'[m])
                 PROVE  (place[queue[m][i]] = "queued" /\ LaneOf(queue[m][i]) = m)'
      BY DEF OnlyQueued
    <2> USE DEF LaneOf
    <2>1. CASE m = l
      <3>1. /\ i + 1 \in 1..Len(queue[l]) /\ i + 1 # 1 /\ queue'[l][i] = queue[l][i + 1]
            /\ queue[l][i + 1] \in Entries
        BY <1>5, <1>6, <2>1
      <3>2. /\ place[queue[l][i + 1]] = "queued" /\ LaneOf(queue[l][i + 1]) = l
            /\ queue[l][i + 1] # e
        BY <1>1, <3>1 DEF SlotInv, OnlyQueued, OnceEach
      <3>3. QED
        BY <1>7, <2>1, <3>1, <3>2
    <2>2. CASE m # l
      <3>1. queue'[m] = queue[m] /\ queue[m][i] \in Entries
        BY <1>4, <1>6, <2>2
      <3>2. place[queue[m][i]] = "queued" /\ LaneOf(queue[m][i]) = m
        BY <3>1 DEF SlotInv, OnlyQueued
      <3>3. QED
        BY <1>1, <1>7, <2>2, <3>1, <3>2
    <2>3. QED
      BY <2>1, <2>2
  <1>12. OnceEach'
    <2> SUFFICES ASSUME NEW m \in Lanes, NEW i \in 1..Len(queue'[m]), NEW j \in 1..Len(queue'[m]),
                        queue'[m][i] = queue'[m][j]
                 PROVE  i = j
      BY DEF OnceEach
    <2>1. CASE m = l
      <3>1. /\ i + 1 \in 1..Len(queue[l]) /\ j + 1 \in 1..Len(queue[l])
            /\ queue[l][i + 1] = queue[l][j + 1]
        <4>1. /\ Len(queue[l]) \in Nat
              /\ i \in 1..Len(queue[l]) - 1 /\ j \in 1..Len(queue[l]) - 1
          BY <1>5, <1>6, <2>1
        <4>2. queue'[l][i] = queue[l][i + 1] /\ queue'[l][j] = queue[l][j + 1]
          BY <1>5, <1>6, <4>1
        <4>3. QED
          BY <2>1, <4>1, <4>2
      <3>2. QED
        BY <3>1 DEF SlotInv, OnceEach
    <2>2. CASE m # l
      BY <1>6, <2>2 DEF SlotInv, OnceEach
    <2>3. QED
      BY <2>1, <2>2
  <1>13. AllQueued'
    <2> SUFFICES ASSUME NEW x \in Entries, place'[x] = "queued"
                 PROVE  \E i \in 1..Len(queue'[LaneOf(x)]) : queue'[LaneOf(x)][i] = x
      BY <1>8 DEF AllQueued
    <2>1. x # e /\ place[x] = "queued"
      BY <1>7
    <2>2. PICK i \in 1..Len(queue[LaneOf(x)]) : queue[LaneOf(x)][i] = x
      BY <2>1 DEF SlotInv, AllQueued
    <2>3. CASE LaneOf(x) = l
      <3>1. i # 1 /\ i - 1 \in 1..Len(queue[l]) - 1 /\ queue'[l][i - 1] = x
        BY <1>1, <1>5, <1>6, <2>1, <2>2, <2>3
      <3>2. QED
        BY <1>5, <1>6, <2>3, <3>1
    <2>4. CASE LaneOf(x) # l
      <3>1. LaneOf(x) \in Lanes
        BY <2>1, LaneFacts DEF SlotInv
      <3>2. QED
        BY <1>6, <2>2, <2>4, <3>1
    <2>5. QED
      BY <2>3, <2>4
  <1>14. Generations'
    BY <1>1, <1>3 DEF SlotInv, TypeOK, Generations, loopVars
  <1>15. SlotsAreHeld'
    <2> SUFFICES ASSUME NEW m \in Lanes
                 PROVE  activeTaskIds'[m] = {x \in Entries :
                           place'[x] = "running" /\ LaneOf(x) = m /\ taskGeneration'[x] = generation[m]}
      BY <1>8 DEF SlotsAreHeld
    <2>1. activeTaskIds[m] = {x \in Entries :
              place[x] = "running" /\ LaneOf(x) = m /\ taskGeneration[x] = generation[m]}
      BY DEF SlotInv, SlotsAreHeld
    <2>2. taskGeneration'[e] = generation[l] /\ \A x \in Entries \ {e} : taskGeneration'[x] = taskGeneration[x]
      BY <1>1, <1>3 DEF SlotInv, TypeOK
    <2>3. activeTaskIds'[m] = IF m = l THEN activeTaskIds[m] \cup {e} ELSE activeTaskIds[m]
      BY <1>3 DEF SlotInv, TypeOK
    <2>4. \A x \in Entries : place'[x] = "running" <=> place[x] = "running" \/ x = e
      BY <1>7
    <2>5. QED
      BY <1>1, <2>1, <2>2, <2>3, <2>4
  <1>16. RoomIsUsed'
    <2> SUFFICES ASSUME NEW m \in Lanes
                 PROVE  queue'[m] = <<>> \/ ~HasRoom(m)' \/ draining(m)' \/ m \in lanesToDrain'
      BY DEF RoomIsUsed
    <2>1. CASE m # l
      BY <1>3, <1>6, <2>1 DEF SlotInv, TypeOK, RoomIsUsed, HasRoom, draining
    <2>2. QED
      BY <1>3, <2>1 DEF draining
  <1>17. QED
    BY <1>9, <1>10, <1>11, <1>12, <1>13, <1>14, <1>15, <1>16 DEF SlotInv

\* A loop ends when its lane is empty or full.
LEMMA PumpEndsKeeps ==
  ASSUME SlotInv, pumps # <<>>, PumpEnds(Head(pumps)),
         UNCHANGED <<maxConcurrent, generation, lanesToDrain, session, globalLane, waitsFor, loopVars>>
  PROVE  SlotInv'
  <1> DEFINE l == Head(pumps)
  <1> USE DEF PumpEnds, SlotInv
  <1>1. /\ l \in Lanes /\ l = pumps[1] /\ pumps' \in Seq(Lanes)
        /\ \A i \in DOMAIN pumps : i = 1 \/ (i - 1 \in DOMAIN pumps' /\ pumps'[i - 1] = pumps[i])
    <2>1. pumps \in Seq(Lanes)
      BY DEF TypeOK
    <2>2. /\ l \in Lanes /\ l = pumps[1] /\ pumps' \in Seq(Lanes) /\ Len(pumps') = Len(pumps) - 1
          /\ \A i \in 1..Len(pumps) - 1 : pumps'[i] = pumps[i + 1]
      BY <2>1, TailFacts
    <2>3. DOMAIN pumps = 1..Len(pumps) /\ DOMAIN pumps' = 1..Len(pumps') /\ Len(pumps) \in Nat
      BY <2>1, <2>2
    <2>4. QED
      BY <2>2, <2>3
  <1>2. TypeOK'
    BY <1>1 DEF TypeOK, loopVars
  <1>3. LanesKnown' /\ OuterFirst' /\ OnlyQueued' /\ OnceEach' /\ AllQueued'
    BY DEF LanesKnown, OuterFirst, OnlyQueued, OnceEach, AllQueued, LaneOf
  <1>4. Generations' /\ SlotsAreHeld'
    BY DEF Generations, SlotsAreHeld, LaneOf, loopVars
  <1>5. \A m \in Lanes : draining(m) => m = l \/ draining(m)'
    BY <1>1 DEF draining
  <1>6. RoomIsUsed'
    BY <1>1, <1>5 DEF RoomIsUsed, HasRoom
  <1>7. QED
    BY <1>2, <1>3, <1>4, <1>6

-----------------------------------------------------------------------------
(* The other steps *)

\* Submitting a run appends its outer command to the lane of the session.
LEMMA SubmitKeeps ==
  ASSUME SlotInv, NEW r \in Runs, NEW s \in Sessions, NEW g \in Globals,
         NEW p \in Runs \cup {None}, Submit(r, s, g, p)
  PROVE  SlotInv'
  <1> DEFINE e == Outer(r)
  <1>1. /\ e \in Entries /\ e[1] = r /\ e[2] = "outer" /\ s \in Lanes
        /\ place[e] = "none" /\ place[Inner(r)] = "none"
    BY EntryFacts DEF Submit, Lanes, SlotInv, OuterFirst
  <1>2. /\ place' = [place EXCEPT ![e] = "queued"]
        /\ session' = [session EXCEPT ![r] = s]
        /\ globalLane' = [globalLane EXCEPT ![r] = g]
        /\ queue' = [queue EXCEPT ![s] = Append(@, e)]
        /\ pumps' = <<s>> /\ pumps = <<>>
        /\ UNCHANGED <<activeTaskIds, maxConcurrent, generation, lanesToDrain, taskGeneration, loopVars>>
    BY DEF Submit, Quiet
  <1>3. waitsFor' \in [Runs -> Runs \cup {None}]
    BY DEF Submit, SlotInv, TypeOK
  <1>4. /\ queue \in [Lanes -> Seq(Entries)]
        /\ place \in [Entries -> {"none", "queued", "running", "settled"}]
        /\ session \in [Runs -> Sessions \cup {None}]
        /\ globalLane \in [Runs -> Globals \cup {None}]
    BY DEF SlotInv, TypeOK
  <1> HIDE DEF e
  <1>5. /\ queue' \in [Lanes -> Seq(Entries)]
        /\ queue'[s] = Append(queue[s], e)
        /\ \A m \in Lanes \ {s} : queue'[m] = queue[m]
    BY <1>1, <1>2, <1>4
  <1>6. /\ Len(queue[s]) \in Nat /\ Len(queue'[s]) = Len(queue[s]) + 1
        /\ \A i \in 1..Len(queue[s]) : queue'[s][i] = queue[s][i]
        /\ queue'[s][Len(queue[s]) + 1] = e
    BY <1>1, <1>4, <1>5, AppendFacts
  <1>7. /\ place' \in [Entries -> {"none", "queued", "running", "settled"}]
        /\ place'[e] = "queued"
        /\ \A x \in Entries \ {e} : place'[x] = place[x]
    BY <1>1, <1>2, <1>4
  <1>8. /\ LaneOf(e)' = s
        /\ \A x \in Entries : place[x] # "none" => LaneOf(x)' = LaneOf(x)
    <2>1. session'[r] = s /\ \A q \in Runs \ {r} : session'[q] = session[q] /\ globalLane'[q] = globalLane[q]
      BY <1>2, <1>4
    <2>2. ASSUME NEW x \in Entries, place[x] # "none" PROVE x[1] \in Runs /\ x[1] # r
      <3>1. x[1] \in Runs /\ (x = Outer(x[1]) \/ x = Inner(x[1]))
        BY EntryFacts
      <3>2. QED
        BY <1>1, <2>2, <3>1 DEF e
    <2>3. QED
      BY <1>1, <2>1, <2>2 DEF LaneOf
  <1>9. TypeOK'
    BY <1>2, <1>3, <1>4, <1>5, <1>7, <1>1, PushFacts DEF SlotInv, TypeOK, loopVars
  <1>10. LanesKnown' /\ OuterFirst'
    BY <1>1, <1>2, <1>4, <1>7, EntryFacts DEF SlotInv, LanesKnown, OuterFirst, e
  <1>11. OnlyQueued'
    <2> SUFFICES ASSUME NEW m \in Lanes, NEW i \in 1..Len(queue'[m])
                 PROVE  (place[queue[m][i]] = "queued" /\ LaneOf(queue[m][i]) = m)'
      BY DEF OnlyQueued
    <2>1. CASE m = s /\ i = Len(queue[s]) + 1
      BY <1>6, <1>7, <1>8, <2>1 DEF LaneOf
    <2>2. CASE m # s \/ i # Len(queue[s]) + 1
      <3>1. i \in 1..Len(queue[m]) /\ queue'[m][i] = queue[m][i] /\ queue[m][i] \in Entries
        <4>1. CASE m # s
          BY <1>4, <1>5, <4>1
        <4>2. CASE m = s
          BY <1>1, <1>4, <1>6, <2>2, <4>2
        <4>3. QED
          BY <4>1, <4>2
      <3>2. place[queue[m][i]] = "queued" /\ LaneOf(queue[m][i]) = m
        BY <3>1 DEF SlotInv, OnlyQueued
      <3>3. QED
        BY <1>1, <1>7, <1>8, <3>1, <3>2 DEF LaneOf
    <2>3. QED
      BY <2>1, <2>2
  <1>12. OnceEach'
    <2> SUFFICES ASSUME NEW m \in Lanes, NEW i \in 1..Len(queue'[m]), NEW j \in 1..Len(queue'[m]),
                        queue'[m][i] = queue'[m][j]
                 PROVE  i = j
      BY DEF OnceEach
    <2>1. CASE m = s
      <3>1. \A k \in 1..Len(queue[s]) : queue'[s][k] # e
        BY <1>1, <1>6 DEF SlotInv, OnlyQueued
      <3>2. \A k \in 1..Len(queue'[s]) : k \in 1..Len(queue[s]) \/ k = Len(queue[s]) + 1
        BY <1>6
      <3>3. CASE i \in 1..Len(queue[s]) /\ j \in 1..Len(queue[s])
        BY <1>1, <1>6, <2>1, <3>3 DEF SlotInv, OnceEach
      <3>4. QED
        BY <1>6, <2>1, <3>1, <3>2, <3>3
    <2>2. CASE m # s
      BY <1>5, <2>2 DEF SlotInv, OnceEach
    <2>3. QED
      BY <2>1, <2>2
  <1>13. AllQueued'
    <2> SUFFICES ASSUME NEW x \in Entries, place'[x] = "queued"
                 PROVE  (\E i \in 1..Len(queue[LaneOf(x)]) : queue[LaneOf(x)][i] = x)'
      BY DEF AllQueued
    <2>1. CASE x = e
      BY <1>6, <1>8, <2>1
    <2>2. CASE x # e
      <3>1. place[x] = "queued"
        BY <1>7, <2>2
      <3>2. PICK i \in 1..Len(queue[LaneOf(x)]) : queue[LaneOf(x)][i] = x
        BY <3>1 DEF SlotInv, AllQueued
      <3>3. LaneOf(x) \in Lanes /\ LaneOf(x)' = LaneOf(x)
        BY <1>8, <3>1, LaneFacts DEF SlotInv
      <3>4. i \in 1..Len(queue'[LaneOf(x)]) /\ queue'[LaneOf(x)][i] = x
        BY <1>5, <1>6, <3>2, <3>3
      <3>5. QED
        BY <3>3, <3>4
    <2>3. QED
      BY <2>1, <2>2
  <1>14. Generations'
    BY <1>2 DEF SlotInv, Generations, loopVars
  <1>15. SlotsAreHeld'
    <2>1. \A x \in Entries : place'[x] = "running" <=> place[x] = "running"
      BY <1>1, <1>7
    <2>2. \A x \in Entries : place[x] = "running" => LaneOf(x)' = LaneOf(x)
      BY <1>8
    <2>3. QED
      BY <1>2, <2>1, <2>2 DEF SlotInv, SlotsAreHeld
  <1>16. RoomIsUsed'
    <2>1. draining(s)'
      BY <1>1, <1>2, PushFacts DEF draining
    <2>2. ASSUME NEW m \in Lanes PROVE ~draining(m)
      BY <1>2 DEF draining
    <2>3. QED
      BY <1>2, <1>5, <2>1, <2>2 DEF SlotInv, RoomIsUsed, HasRoom
  <1>17. QED
    BY <1>9, <1>10, <1>11, <1>12, <1>13, <1>14, <1>15, <1>16 DEF SlotInv

\* A command that ends gives its slot back, if it is one of this generation.
LEMMA SettleKeeps ==
  ASSUME SlotInv, NEW e \in Entries, place[e] = "running", Quiet, Settle(e),
         \A r \in Runs : e = Outer(r) => place[Inner(r)] = "settled",
         UNCHANGED <<queue, maxConcurrent, generation, lanesToDrain, taskGeneration, session, globalLane, waitsFor, loopVars>>
  PROVE  SlotInv'
  <1>1. PICK l \in Lanes : l = LaneOf(e) /\ pumps = <<>>
    BY LaneFacts DEF SlotInv, Quiet
  <1>2. \A x : LaneOf(x)' = LaneOf(x)
    BY DEF LaneOf
  <1>3. /\ place' \in [Entries -> {"none", "queued", "running", "settled"}]
        /\ place'[e] = "settled"
        /\ \A x \in Entries \ {e} : place'[x] = place[x]
    BY DEF SlotInv, TypeOK, Settle
  <1>4. \/ /\ taskGeneration[e] = generation[l]
           /\ activeTaskIds' = [activeTaskIds EXCEPT ![l] = @ \ {e}]
           /\ pumps' = <<l>>
        \/ /\ taskGeneration[e] # generation[l]
           /\ UNCHANGED <<activeTaskIds, pumps>>
    BY <1>1 DEF Settle
  <1>5. TypeOK'
    <2>1. pumps' \in Seq(Lanes)
      <3>1. pumps \in Seq(Lanes) /\ <<l>> \in Seq(Lanes)
        BY DEF SlotInv, TypeOK
      <3>2. QED
        BY <1>4, <3>1
    <2>2. activeTaskIds' \in [Lanes -> SUBSET Entries]
      BY <1>1, <1>4 DEF SlotInv, TypeOK
    <2>3. QED
      BY <1>3, <2>1, <2>2 DEF SlotInv, TypeOK, loopVars
  <1>6. LanesKnown' /\ OuterFirst'
    BY <1>3, EntryFacts DEF SlotInv, LanesKnown, OuterFirst
  <1>7. OnlyQueued' /\ OnceEach'
    <2>1. \A m \in Lanes : \A i \in 1..Len(queue[m]) : queue[m][i] \in Entries
      BY DEF SlotInv, TypeOK
    <2>2. QED
      BY <1>3, <2>1 DEF SlotInv, OnlyQueued, OnceEach, LaneOf
  <1>8. AllQueued' /\ Generations'
    BY <1>2, <1>3 DEF SlotInv, AllQueued, Generations, loopVars
  <1>9. SlotsAreHeld'
    <2> SUFFICES ASSUME NEW m \in Lanes
                 PROVE  activeTaskIds'[m] = {x \in Entries :
                           place'[x] = "running" /\ LaneOf(x) = m /\ taskGeneration[x] = generation[m]}
      BY <1>2 DEF SlotsAreHeld
    <2>1. activeTaskIds[m] = {x \in Entries :
              place[x] = "running" /\ LaneOf(x) = m /\ taskGeneration[x] = generation[m]}
      BY DEF SlotInv, SlotsAreHeld
    <2>2. \A x \in Entries : place'[x] = "running" <=> place[x] = "running" /\ x # e
      BY <1>3
    <2>3. activeTaskIds'[m] = activeTaskIds[m] \ {e}
      <3>1. CASE taskGeneration[e] = generation[l]
        <4>1. activeTaskIds'[m] = IF m = l THEN activeTaskIds[m] \ {e} ELSE activeTaskIds[m]
          BY <1>4, <3>1 DEF SlotInv, TypeOK
        <4>2. QED
          BY <1>1, <2>1, <4>1
      <3>2. CASE taskGeneration[e] # generation[l]
        BY <1>1, <1>4, <2>1, <3>2
      <3>3. QED
        BY <3>1, <3>2
    <2>4. QED
      BY <2>1, <2>2, <2>3
  <1>10. RoomIsUsed'
    <2>1. ASSUME NEW m \in Lanes PROVE ~draining(m)
      BY <1>1 DEF draining
    <2>2. CASE taskGeneration[e] = generation[l]
      <3>1. draining(l)'
        BY <1>4, <2>2 DEF draining
      <3>2. \A m \in Lanes \ {l} : activeTaskIds'[m] = activeTaskIds[m]
        BY <1>4, <2>2 DEF SlotInv, TypeOK
      <3>3. ASSUME NEW m \in Lanes, m # l
            PROVE  (queue[m] = <<>> \/ ~HasRoom(m) \/ draining(m) \/ m \in lanesToDrain)'
        BY <2>1, <3>2, <3>3 DEF SlotInv, RoomIsUsed, HasRoom
      <3>4. QED
        BY <3>1, <3>3 DEF RoomIsUsed
    <2>3. CASE taskGeneration[e] # generation[l]
      BY <1>4, <2>1, <2>3 DEF SlotInv, RoomIsUsed, HasRoom
    <2>4. QED
      BY <2>2, <2>3
  <1>11. QED
    BY <1>5, <1>6, <1>7, <1>8, <1>9, <1>10 DEF SlotInv

\* Clearing a session lane drops exactly the commands in its queue.
LEMMA ClearKeeps ==
  ASSUME SlotInv, NEW s \in Sessions, Clear(s)
  PROVE  SlotInv'
  <1> USE DEF SlotInv
  <1>1. s \in Lanes /\ \A x : LaneOf(x)' = LaneOf(x)
    BY DEF Lanes, LaneOf, Clear
  <1>2. /\ queue' \in [Lanes -> Seq(Entries)]
        /\ queue'[s] = <<>> /\ \A m \in Lanes \ {s} : queue'[m] = queue[m]
    BY <1>1 DEF Clear, TypeOK
  <1>3. /\ place' \in [Entries -> {"none", "queued", "running", "settled"}]
        /\ \A x \in Entries : place'[x] =
              IF x[2] = "outer" /\ session[x[1]] = s /\ place[x] = "queued" THEN "settled" ELSE place[x]
    BY DEF Clear, TypeOK
  <1>4. \A x \in Entries : place[x] = "queued" =>
            place'[x] = IF LaneOf(x) = s THEN "settled" ELSE "queued"
    <2> SUFFICES ASSUME NEW x \in Entries, place[x] = "queued"
                 PROVE  place'[x] = IF LaneOf(x) = s THEN "settled" ELSE "queued"
      OBVIOUS
    <2>1. /\ x[2] = "outer" => LaneOf(x) = session[x[1]]
          /\ x[2] # "outer" => LaneOf(x) \in Globals
      BY LaneFacts
    <2>2. s \notin Globals
      BY LanesAssumption
    <2>3. QED
      BY <1>3, <2>1, <2>2
  <1>5. \A x \in Entries : place[x] # "queued" => place'[x] = place[x]
    BY <1>3
  <1>6. TypeOK'
    BY <1>2, <1>3 DEF TypeOK, Clear, stackVars, loopVars
  <1>7. LanesKnown' /\ OuterFirst'
    <2>1. UNCHANGED <<session, globalLane>>
      BY DEF Clear
    <2>2. \A r \in Runs : place'[Inner(r)] # place[Inner(r)] => FALSE
      BY <1>3, EntryFacts
    <2>3. \A r \in Runs : place[Outer(r)] \in {"none", "queued"} \/ place'[Outer(r)] = place[Outer(r)]
      BY <1>5, EntryFacts
    <2>4. \A r \in Runs : place'[Outer(r)] = "none" <=> place[Outer(r)] = "none"
      BY <1>3, EntryFacts
    <2>5. \A r \in Runs : place'[Outer(r)] = "queued" => place[Outer(r)] = "queued"
      BY <1>3, EntryFacts
    <2>6. QED
      BY <2>1, <2>2, <2>4, <2>5 DEF LanesKnown, OuterFirst
  <1>8. OnlyQueued' /\ OnceEach'
    <2>1. \A m \in Lanes : \A i \in 1..Len(queue[m]) : queue[m][i] \in Entries
      BY DEF TypeOK
    <2>2. \A m \in Lanes : \A i \in 1..Len(queue'[m]) : m # s
      BY <1>2
    <2>3. UNCHANGED <<session, globalLane>>
      BY DEF Clear
    <2>4. OnlyQueued'
      BY <1>2, <1>4, <2>1, <2>2, <2>3 DEF OnlyQueued, LaneOf
    <2>5. OnceEach'
      BY <1>2, <2>2 DEF OnceEach
    <2>6. QED
      BY <2>4, <2>5
  <1>9. AllQueued'
    <2> SUFFICES ASSUME NEW x \in Entries, place'[x] = "queued"
                 PROVE  \E i \in 1..Len(queue'[LaneOf(x)]) : queue'[LaneOf(x)][i] = x
      BY <1>1 DEF AllQueued
    <2>1. place[x] = "queued" /\ LaneOf(x) # s
      BY <1>4, <1>5
    <2>2. LaneOf(x) \in Lanes
      BY <2>1, LaneFacts
    <2>3. QED
      BY <1>2, <2>1, <2>2 DEF AllQueued
  <1>10. Generations'
    BY DEF Generations, Clear, loopVars
  <1>11. SlotsAreHeld'
    <2>1. \A x \in Entries : place'[x] = "running" <=> place[x] = "running"
      BY <1>3
    <2>2. UNCHANGED <<activeTaskIds, generation, taskGeneration>>
      BY DEF Clear
    <2>3. QED
      BY <1>1, <2>1, <2>2 DEF SlotsAreHeld
  <1>12. RoomIsUsed'
    <2>1. UNCHANGED <<activeTaskIds, maxConcurrent, pumps, lanesToDrain>>
      BY DEF Clear, stackVars
    <2>2. QED
      BY <1>2, <2>1 DEF RoomIsUsed, HasRoom, draining
  <1>13. QED
    BY <1>6, <1>7, <1>8, <1>9, <1>10, <1>11, <1>12

\* A new limit takes effect at once.
LEMMA SetConcurrencyKeeps ==
  ASSUME SlotInv, NEW g \in Globals, NEW n \in Limits, SetConcurrency(g, n)
  PROVE  SlotInv'
  <1> USE DEF SlotInv, SetConcurrency, runVars, Quiet
  <1>1. g \in Lanes
    BY DEF Lanes
  <1>2. TypeOK'
    <2>1. AtLeast(1, n) \in Nat \ {0}
      BY LanesAssumption DEF AtLeast
    <2>2. maxConcurrent' \in [Lanes -> Nat \ {0}]
      BY <2>1 DEF TypeOK
    <2>3. pumps' \in Seq(Lanes)
      BY <1>1
    <2>4. QED
      BY <2>2, <2>3, LanesAssumption DEF TypeOK
  <1>3. LanesKnown' /\ OuterFirst' /\ OnlyQueued' /\ OnceEach' /\ AllQueued'
    BY DEF LanesKnown, OuterFirst, OnlyQueued, OnceEach, AllQueued, LaneOf
  <1>4. Generations' /\ SlotsAreHeld'
    BY DEF Generations, SlotsAreHeld, LaneOf
  <1>5. RoomIsUsed'
    <2>1. draining(g)'
      BY DEF draining
    <2>2. ASSUME NEW m \in Lanes, m # g
          PROVE  (queue[m] = <<>> \/ ~HasRoom(m) \/ draining(m) \/ m \in lanesToDrain)'
      <3>1. ~draining(m) /\ maxConcurrent'[m] = maxConcurrent[m]
        BY <2>2 DEF draining, TypeOK
      <3>2. QED
        BY <3>1 DEF RoomIsUsed, HasRoom
    <2>3. QED
      BY <2>1, <2>2 DEF RoomIsUsed
  <1>6. QED
    BY <1>2, <1>3, <1>4, <1>5

\* A reset frees every slot, and every lane that has commands is drained.
LEMMA ResetKeeps ==
  ASSUME SlotInv, ResetAllLanes
  PROVE  SlotInv'
  <1> USE DEF SlotInv, ResetAllLanes, runVars
  <1>1. \A l \in Lanes : generation'[l] = generation[l] + 1
    OBVIOUS
  <1>2. TypeOK'
    BY DEF TypeOK
  <1>3. LanesKnown' /\ OuterFirst' /\ OnlyQueued' /\ OnceEach' /\ AllQueued'
    BY DEF LanesKnown, OuterFirst, OnlyQueued, OnceEach, AllQueued, LaneOf
  <1>4. Generations'
    BY DEF Generations, TypeOK
  <1>5. SlotsAreHeld'
    <2>1. \A e \in Entries, l \in Lanes : taskGeneration[e] # generation'[l]
      BY DEF Generations, TypeOK
    <2>2. QED
      BY <2>1 DEF SlotsAreHeld
  <1>6. RoomIsUsed'
    BY DEF RoomIsUsed
  <1>7. QED
    BY <1>2, <1>3, <1>4, <1>5, <1>6

\* Steps that start, end and queue no command.
LEMMA OtherKeeps ==
  ASSUME SlotInv,
         \/ \E l \in Lanes : DrainNext(l)
         \/ \E r \in Runs : WaitEnds(r)
         \/ RequestRestart
         \/ DrainEnds
         \/ UNCHANGED vars
  PROVE  SlotInv'
  <1> USE DEF SlotInv, laneVars, stackVars, runVars, loopVars, vars
  <1>1. UNCHANGED <<laneVars, place, taskGeneration, session, globalLane, resets>>
    BY DEF DrainNext, WaitEnds, RequestRestart, DrainEnds
  <1>2. TypeOK'
    <2>1. ASSUME NEW l \in Lanes, DrainNext(l) PROVE TypeOK'
      BY <2>1 DEF TypeOK, DrainNext
    <2>2. ASSUME NEW r \in Runs, WaitEnds(r) PROVE TypeOK'
      BY <2>2 DEF TypeOK, WaitEnds
    <2>3. ASSUME RequestRestart \/ DrainEnds \/ UNCHANGED vars PROVE TypeOK'
      BY <2>3 DEF TypeOK, RequestRestart, DrainEnds
    <2>4. QED
      BY <2>1, <2>2, <2>3
  <1>3. LanesKnown' /\ OuterFirst' /\ OnlyQueued' /\ OnceEach' /\ AllQueued'
    BY <1>1 DEF LanesKnown, OuterFirst, OnlyQueued, OnceEach, AllQueued, LaneOf
  <1>4. Generations' /\ SlotsAreHeld'
    BY <1>1 DEF Generations, SlotsAreHeld, LaneOf
  <1>5. RoomIsUsed'
    <2>1. ASSUME NEW l \in Lanes, DrainNext(l) PROVE RoomIsUsed'
      <3>1. draining(l)' /\ lanesToDrain' = lanesToDrain \ {l} /\ \A m \in Lanes : ~draining(m)
        BY <2>1 DEF DrainNext, draining
      <3>2. QED
        BY <1>1, <3>1 DEF RoomIsUsed, HasRoom
    <2>2. ASSUME UNCHANGED stackVars PROVE RoomIsUsed'
      BY <1>1, <2>2 DEF RoomIsUsed, HasRoom, draining
    <2>3. QED
      BY <2>1, <2>2 DEF WaitEnds, RequestRestart, DrainEnds
  <1>6. QED
    BY <1>2, <1>3, <1>4, <1>5

\* Every step keeps the invariant.
LEMMA NextSlotInv == SlotInv /\ [Next]_vars => SlotInv'
  <1> SUFFICES ASSUME SlotInv, [Next]_vars PROVE SlotInv'
    OBVIOUS
  <1>1. CASE Pump
    <2> DEFINE l == Head(pumps)
    <2>1. pumps # <<>> /\ l \in Lanes /\ draining(l)
      <3>1. pumps \in Seq(Lanes) /\ pumps # <<>>
        BY <1>1 DEF Pump, SlotInv, TypeOK
      <3>2. l \in Lanes /\ l = pumps[1] /\ 1 \in DOMAIN pumps
        BY <3>1
      <3>3. QED
        BY <3>1, <3>2 DEF draining
    <2>2. UNCHANGED <<maxConcurrent, generation, lanesToDrain, session, globalLane, waitsFor, loopVars>>
      BY <1>1 DEF Pump
    <2>3. CASE StartNext(l) /\ Head(queue[l])[2] = "outer"
      BY <2>1, <2>2, <2>3, StartOuterKeeps
    <2>4. CASE StartNext(l) /\ Head(queue[l])[2] # "outer"
      BY <2>1, <2>2, <2>4, StartInnerKeeps
    <2>5. CASE PumpEnds(l)
      BY <2>1, <2>2, <2>5, PumpEndsKeeps
    <2>6. QED
      BY <1>1, <2>3, <2>4, <2>5 DEF Pump
  <1>2. ASSUME NEW r \in Runs, NEW s \in Sessions, NEW g \in Globals, NEW p \in Runs \cup {None},
               Submit(r, s, g, p)
        PROVE  SlotInv'
    BY <1>2, SubmitKeeps
  <1>3. ASSUME NEW r \in Runs, RunEnds(r) PROVE SlotInv'
    <2>1. Inner(r) \in Entries /\ \A q \in Runs : Inner(r) # Outer(q)
      BY EntryFacts
    <2>2. QED
      BY <1>3, <2>1, SettleKeeps DEF RunEnds, Executing
  <1>4. ASSUME NEW r \in Runs, OuterEnds(r) PROVE SlotInv'
    <2>1. Outer(r) \in Entries /\ \A q \in Runs : Outer(r) = Outer(q) => q = r
      BY EntryFacts
    <2>2. QED
      BY <1>4, <2>1, SettleKeeps DEF OuterEnds
  <1>5. ASSUME NEW s \in Sessions, Clear(s) PROVE SlotInv'
    BY <1>5, ClearKeeps
  <1>6. ASSUME NEW g \in Globals, NEW n \in Limits, SetConcurrency(g, n) PROVE SlotInv'
    BY <1>6, SetConcurrencyKeeps
  <1>7. CASE ResetAllLanes
    BY <1>7, ResetKeeps
  <1>8. ASSUME \/ \E l \in Lanes : DrainNext(l)
               \/ \E r \in Runs : WaitEnds(r)
               \/ RequestRestart
               \/ DrainEnds
               \/ UNCHANGED vars
        PROVE  SlotInv'
    BY <1>8, OtherKeeps
  <1>9. QED
    BY <1>1, <1>2, <1>3, <1>4, <1>5, <1>6, <1>7, <1>8 DEF Next

-----------------------------------------------------------------------------
(* The order within a session *)

\* Every step keeps the order in which the runs of a session wait.
LEMMA NextWaitInOrder ==
  ASSUME OrderInv, [Next]_vars
  PROVE  SubmittedInOrder' /\ WaitInOrder'
  <1> USE DEF OrderInv, SlotInv
  <1>1. ASSUME NEW r \in Runs, NEW s \in Sessions, NEW g \in Globals, NEW p \in Runs \cup {None},
               Submit(r, s, g, p)
        PROVE  SubmittedInOrder' /\ WaitInOrder'
    <2>1. /\ place' = [place EXCEPT ![Outer(r)] = "queued"]
          /\ queue' = [queue EXCEPT ![s] = Append(@, Outer(r))]
          /\ \A q \in Runs : q < r => place[Outer(q)] # "none"
          /\ place[Outer(r)] = "none"
          /\ s \in Lanes
      BY <1>1 DEF Submit, Lanes
    <2>2. \A q \in Runs : place'[Outer(q)] = IF q = r THEN "queued" ELSE place[Outer(q)]
      BY <2>1, EntryFacts DEF TypeOK, Outer
    <2>3. SubmittedInOrder'
      BY <2>1, <2>2 DEF SubmittedInOrder
    <2>4. \A i \in 1..Len(queue[s]) : queue[s][i][1] < r
      <3> SUFFICES ASSUME NEW i \in 1..Len(queue[s])
                   PROVE  queue[s][i][1] < r
        OBVIOUS
      <3> DEFINE q == queue[s][i][1]
      <3>1. queue[s][i] \in Entries /\ place[queue[s][i]] = "queued" /\ LaneOf(queue[s][i]) = s
        BY <2>1 DEF TypeOK, OnlyQueued
      <3>2. q \in Runs /\ place[Outer(q)] # "none"
        BY <3>1, EntryFacts DEF OuterFirst
      <3>3. ~(r < q) /\ q # r
        BY <2>1, <3>2 DEF SubmittedInOrder
      <3>4. QED
        BY <3>2, <3>3, LanesAssumption DEF Runs
    <2>5. /\ queue'[s] = Append(queue[s], Outer(r)) /\ queue[s] \in Seq(Entries) /\ Outer(r) \in Entries
          /\ \A m \in Sessions \ {s} : queue'[m] = queue[m]
      BY <2>1, EntryFacts DEF TypeOK, Lanes
    <2>6. /\ Len(queue[s]) \in Nat /\ Len(queue'[s]) = Len(queue[s]) + 1
          /\ \A i \in 1..Len(queue[s]) : queue'[s][i] = queue[s][i]
          /\ queue'[s][Len(queue[s]) + 1] = Outer(r)
      BY <2>5, AppendFacts
    <2>7. ASSUME NEW m \in Sessions, NEW i \in 1..Len(queue'[m]), NEW j \in 1..Len(queue'[m]), i < j
          PROVE  queue'[m][i][1] < queue'[m][j][1]
      <3>1. CASE m # s
        BY <2>5, <2>7, <3>1 DEF WaitInOrder
      <3>2. CASE m = s
        <4>1. i \in 1..Len(queue[s]) /\ (j \in 1..Len(queue[s]) \/ j = Len(queue[s]) + 1)
          BY <2>6, <2>7, <3>2
        <4>2. CASE j \in 1..Len(queue[s])
          BY <2>6, <2>7, <3>2, <4>1, <4>2 DEF WaitInOrder
        <4>3. CASE j = Len(queue[s]) + 1
          BY <2>4, <2>6, <3>2, <4>1, <4>3, EntryFacts
        <4>4. QED
          BY <4>1, <4>2, <4>3
      <3>3. QED
        BY <3>1, <3>2
    <2>8. QED
      BY <2>3, <2>7 DEF WaitInOrder
  <1>2. CASE Pump
    <2> DEFINE l == Head(pumps)
    <2>1. pumps # <<>> /\ l \in Lanes
      BY <1>2 DEF Pump, TypeOK
    <2>2. CASE PumpEnds(l)
      BY <2>2 DEF PumpEnds, SubmittedInOrder, WaitInOrder
    <2>3. CASE StartNext(l)
      <3>1. /\ queue[l] \in Seq(Entries) /\ queue[l] # <<>>
            /\ Head(queue[l]) \in Entries /\ place[Head(queue[l])] = "queued"
            /\ LaneOf(Head(queue[l])) = l
        BY <2>1, <2>3, HeadFacts DEF StartNext, TypeOK
      <3>2. /\ Len(Tail(queue[l])) = Len(queue[l]) - 1 /\ Len(queue[l]) \in Nat
            /\ \A i \in 1..Len(queue[l]) - 1 : Tail(queue[l])[i] = queue[l][i + 1]
        BY <3>1, TailFacts
      <3>3. /\ \A s \in Sessions : queue'[s] = IF s = l THEN Tail(queue[s]) ELSE queue[s]
            /\ \A r \in Runs : place[Outer(r)] # "none" <=> place'[Outer(r)] # "none"
        <4>1. CASE Head(queue[l])[2] = "outer"
          <5>1. UNCHANGED <<maxConcurrent, generation, lanesToDrain, session, globalLane, waitsFor, loopVars>>
            BY <1>2 DEF Pump
          <5>2. PICK r \in Runs, g \in Globals : StartsOuter(l, r, g)
            BY <2>1, <2>3, <4>1, <5>1, StartOuterFacts
          <5>3. \A s \in Sessions : queue'[s] = IF s = l THEN Tail(queue[s]) ELSE queue[s]
            BY <5>2, LanesAssumption DEF Lanes, StartsOuter
          <5>4. \A q \in Runs : place[Outer(q)] # "none" <=> place'[Outer(q)] # "none"
            BY <5>2, EntryFacts DEF StartsOuter
          <5>5. QED
            BY <5>3, <5>4
        <4>2. CASE Head(queue[l])[2] # "outer"
          <5>1. /\ queue' = [queue EXCEPT ![l] = Tail(@)]
                /\ place' = [place EXCEPT ![Head(queue[l])] = "running"]
            BY <2>3, <4>2 DEF StartNext
          <5>2. \A s \in Sessions : queue'[s] = IF s = l THEN Tail(queue[s]) ELSE queue[s]
            BY <2>1, <5>1 DEF TypeOK, Lanes
          <5>3. \A r \in Runs : place[Outer(r)] # "none" <=> place'[Outer(r)] # "none"
            BY <3>1, <5>1, EntryFacts DEF TypeOK
          <5>4. QED
            BY <5>2, <5>3
        <4>3. QED
          BY <4>1, <4>2
      <3>4. SubmittedInOrder'
        BY <3>3 DEF SubmittedInOrder
      <3>5. ASSUME NEW s \in Sessions, NEW i \in 1..Len(queue'[s]), NEW j \in 1..Len(queue'[s]), i < j
            PROVE  queue'[s][i][1] < queue'[s][j][1]
        <4>1. CASE s # l
          BY <3>3, <3>5, <4>1 DEF WaitInOrder
        <4>2. CASE s = l
          <5>1. /\ i + 1 \in 1..Len(queue[s]) /\ j + 1 \in 1..Len(queue[s]) /\ i + 1 < j + 1
                /\ queue'[s][i] = queue[s][i + 1] /\ queue'[s][j] = queue[s][j + 1]
            <6>1. queue'[s] = Tail(queue[l]) /\ i \in 1..Len(queue[l]) - 1 /\ j \in 1..Len(queue[l]) - 1
              BY <3>2, <3>3, <4>2
            <6>2. QED
              BY <3>2, <3>5, <4>2, <6>1
          <5>2. QED
            BY <5>1 DEF WaitInOrder
        <4>3. QED
          BY <4>1, <4>2
      <3>6. QED
        BY <3>4, <3>5 DEF WaitInOrder
    <2>4. QED
      BY <1>2, <2>2, <2>3 DEF Pump
  <1>3. ASSUME NEW s \in Sessions, Clear(s) PROVE SubmittedInOrder' /\ WaitInOrder'
    <2>1. \A r \in Runs : place'[Outer(r)] = "none" <=> place[Outer(r)] = "none"
      BY <1>3, EntryFacts DEF Clear, TypeOK
    <2>2. s \in Lanes /\ queue'[s] = <<>> /\ \A m \in Sessions \ {s} : queue'[m] = queue[m]
      BY <1>3 DEF Clear, TypeOK, Lanes
    <2>3. SubmittedInOrder'
      BY <2>1 DEF SubmittedInOrder
    <2>4. WaitInOrder'
      BY <2>2 DEF WaitInOrder
    <2>5. QED
      BY <2>3, <2>4
  <1>4. ASSUME NEW e \in Entries, Settle(e), place[e] = "running", UNCHANGED queue
        PROVE  SubmittedInOrder' /\ WaitInOrder'
    <2>1. \A r \in Runs : place'[Outer(r)] = "none" <=> place[Outer(r)] = "none"
      BY <1>4, EntryFacts DEF Settle, TypeOK
    <2>2. QED
      BY <1>4, <2>1 DEF SubmittedInOrder, WaitInOrder
  <1>5. ASSUME NEW r \in Runs, RunEnds(r) \/ OuterEnds(r) PROVE SubmittedInOrder' /\ WaitInOrder'
    BY <1>4, <1>5, EntryFacts DEF RunEnds, OuterEnds, Executing
  <1>6. ASSUME UNCHANGED <<place, queue>> PROVE SubmittedInOrder' /\ WaitInOrder'
    BY <1>6 DEF SubmittedInOrder, WaitInOrder
  <1>7. QED
    BY <1>1, <1>2, <1>3, <1>5, <1>6
       DEF Next, DrainNext, WaitEnds, SetConcurrency, RequestRestart, DrainEnds, ResetAllLanes,
           vars, laneVars, stackVars, runVars

\* Every step leaves a session lane one slot.
LEMMA NextOneSlot ==
  ASSUME OrderInv, [Next]_vars
  PROVE  OneSlot'
  <1> USE DEF OrderInv, SlotInv, OneSlot
  <1>1. \A s \in Sessions : maxConcurrent'[s] = 1
    <2>1. ASSUME NEW g \in Globals, NEW n \in Limits, SetConcurrency(g, n)
          PROVE  \A s \in Sessions : maxConcurrent'[s] = 1
      BY <2>1, LanesAssumption DEF SetConcurrency, TypeOK, Lanes
    <2>2. ASSUME UNCHANGED maxConcurrent PROVE \A s \in Sessions : maxConcurrent'[s] = 1
      BY <2>2
    <2>3. QED
      BY <2>1, <2>2
         DEF Next, Pump, DrainNext, Submit, RunEnds, OuterEnds, WaitEnds, Clear, RequestRestart,
             DrainEnds, ResetAllLanes, vars, laneVars
  <1>2. \A l \in Lanes : IsFiniteSet(activeTaskIds'[l])
    <2>1. ASSUME NEW l \in Lanes, NEW e, activeTaskIds' = [activeTaskIds EXCEPT ![l] = @ \cup {e}]
          PROVE  \A m \in Lanes : IsFiniteSet(activeTaskIds'[m])
      BY <2>1, FS_AddElement DEF TypeOK
    <2>2. ASSUME NEW l \in Lanes, NEW e, activeTaskIds' = [activeTaskIds EXCEPT ![l] = @ \ {e}]
          PROVE  \A m \in Lanes : IsFiniteSet(activeTaskIds'[m])
      BY <2>2, FS_RemoveElement DEF TypeOK
    <2>3. ASSUME UNCHANGED activeTaskIds PROVE \A m \in Lanes : IsFiniteSet(activeTaskIds'[m])
      BY <2>3
    <2>4. CASE Pump
      <3>1. Head(pumps) \in Lanes
        BY <2>4 DEF Pump, TypeOK
      <3>2. QED
        BY <2>1, <2>3, <2>4, <3>1 DEF Pump, StartNext, PumpEnds
    <2>5. ASSUME NEW r \in Runs, RunEnds(r) \/ OuterEnds(r)
          PROVE  \A m \in Lanes : IsFiniteSet(activeTaskIds'[m])
      <3>1. LaneOf(Inner(r)) \in Lanes \/ ~RunEnds(r)
        BY EntryFacts, LaneFacts DEF RunEnds, Executing
      <3>2. LaneOf(Outer(r)) \in Lanes \/ ~OuterEnds(r)
        BY EntryFacts, LaneFacts DEF OuterEnds
      <3>3. QED
        BY <2>2, <2>3, <2>5, <3>1, <3>2 DEF RunEnds, OuterEnds, Settle
    <2>6. CASE ResetAllLanes
      BY <2>6, FS_EmptySet DEF ResetAllLanes
    <2>7. QED
      BY <2>3, <2>4, <2>5, <2>6
         DEF Next, DrainNext, Submit, WaitEnds, Clear, SetConcurrency, RequestRestart,
             DrainEnds, vars, laneVars
  <1>3. QED
    BY <1>1, <1>2

-----------------------------------------------------------------------------
(* What holds of every behaviour *)

\* The inductive invariant, with the order of the runs.
THEOREM LanesInvariant == Spec => []OrderInv
  <1>1. OrderInv /\ [Next]_vars => OrderInv'
    BY NextSlotInv, NextWaitInOrder, NextOneSlot DEF OrderInv
  <1>2. QED
    BY <1>1, InitOrderInv, PTL DEF Spec

\* Type correctness (the run checks the same on a small instance).
THEOREM TypeCorrect == Spec => []TypeOK
  <1>1. OrderInv => TypeOK
    BY DEF OrderInv, SlotInv
  <1>2. QED
    BY <1>1, LanesInvariant, PTL

\* A lane's slots are held by exactly its running commands of this generation.
THEOREM SlotsAlwaysHeld == Spec => []SlotsAreHeld
  <1>1. OrderInv => SlotsAreHeld
    BY DEF OrderInv, SlotInv
  <1>2. QED
    BY <1>1, LanesInvariant, PTL

\* Between two callbacks no command waits in a lane that has room.
THEOREM NoLaneIdles == Spec => []NoIdleLane
  <1>1. OrderInv => NoIdleLane
    BY DEF OrderInv, SlotInv, RoomIsUsed, NoIdleLane, Quiet, draining
  <1>2. QED
    BY <1>1, LanesInvariant, PTL

\* A command that waits is in the queue of its lane, once; nothing else is.
QueuedOnce ==
    \A e \in Entries, l \in Lanes :
        Cardinality({i \in DOMAIN queue[l] : queue[l][i] = e}) =
            (IF place[e] = "queued" /\ LaneOf(e) = l THEN 1 ELSE 0)

\* A command that waits is in the queue of its lane, once; nothing else is.
THEOREM AlwaysQueuedOnce == Spec => []QueuedOnce
  <1>1. ASSUME OrderInv, NEW e \in Entries, NEW l \in Lanes
        PROVE  Cardinality({i \in DOMAIN queue[l] : queue[l][i] = e}) =
                  (IF place[e] = "queued" /\ LaneOf(e) = l THEN 1 ELSE 0)
    <2>1. DOMAIN queue[l] = 1..Len(queue[l])
      BY <1>1 DEF OrderInv, SlotInv, TypeOK
    <2>2. CASE place[e] = "queued" /\ LaneOf(e) = l
      <3>1. PICK i \in 1..Len(queue[l]) : queue[l][i] = e
        BY <1>1, <2>2 DEF OrderInv, SlotInv, AllQueued
      <3>2. {j \in DOMAIN queue[l] : queue[l][j] = e} = {i}
        BY <1>1, <2>1, <3>1 DEF OrderInv, SlotInv, OnceEach
      <3>3. QED
        BY <2>2, <3>2, FS_Singleton
    <2>3. CASE ~(place[e] = "queued" /\ LaneOf(e) = l)
      <3>1. {j \in DOMAIN queue[l] : queue[l][j] = e} = {}
        BY <1>1, <2>1, <2>3 DEF OrderInv, SlotInv, OnlyQueued
      <3>2. QED
        BY <2>3, <3>1, FS_EmptySet
    <2>4. QED
      BY <2>2, <2>3
  <1>2. OrderInv => QueuedOnce
    BY <1>1 DEF QueuedOnce
  <1>3. QED
    BY <1>2, LanesInvariant, PTL

-----------------------------------------------------------------------------
(* The lanes implement SessionRuns *)

Life == [r \in Runs |-> taskGeneration[Outer(r)]]

\* The status of a run is the place of its outer command.
LEMMA StatusFacts ==
  ASSUME TypeOK
  PROVE  /\ DOMAIN RunStatus = Runs
         /\ \A r \in Runs :
               /\ RunStatus[r] = "new" <=> place[Outer(r)] = "none"
               /\ RunStatus[r] = "waiting" <=> place[Outer(r)] = "queued"
               /\ RunStatus[r] = "running" <=> place[Outer(r)] = "running"
               /\ RunStatus[r] = "over" <=> place[Outer(r)] = "settled"
               /\ RunStatus[r] \in {"new", "waiting", "running", "over"}
  BY EntryFacts DEF TypeOK, RunStatus

\* Initial states are initial states.
LEMMA InitImplements == Init => Serial!Init
  BY EntryFacts DEF Init, Serial!Init, RunStatus

\* Steps that touch no outer command are steps of nothing.
LEMMA StutterImplements ==
  ASSUME UNCHANGED <<session, resets>>,
         \A r \in Runs : UNCHANGED <<place[Outer(r)], taskGeneration[Outer(r)]>>
  PROVE  UNCHANGED Serial!vars
  BY DEF Serial!vars, RunStatus

\* The outer command that is started is the first that waits in its session,
\* and no outer command of this life is running there.
LEMMA BeginImplements ==
  ASSUME OrderInv, TypeOK', NEW l \in Lanes, StartNext(l), Head(queue[l])[2] = "outer",
         UNCHANGED <<maxConcurrent, generation, lanesToDrain, session, globalLane, waitsFor, loopVars>>
  PROVE  \E r \in Runs : Serial!Begin(r)
  <1> USE DEF OrderInv, SlotInv
  <1>1. PICK r \in Runs, g \in Globals : StartsOuter(l, r, g)
    BY StartOuterFacts
  <1>2. /\ Outer(r) = queue[l][1] /\ 1 \in 1..Len(queue[l]) /\ session[r] = l /\ l \in Sessions
        /\ place[Outer(r)] = "queued" /\ place'[Outer(r)] = "running"
        /\ \A q \in Runs \ {r} : place'[Outer(q)] = place[Outer(q)]
    <2>1. queue[l] # <<>>
      BY DEF StartNext
    <2>2. Outer(r) = queue[l][1] /\ 1 \in 1..Len(queue[l])
      BY <1>1, <2>1, HeadFacts DEF StartsOuter
    <2>3. \A q \in Runs \ {r} : Outer(q) \in Entries \ {Outer(r), Inner(r)}
      BY EntryFacts
    <2>4. QED
      BY <1>1, <2>2, <2>3 DEF StartsOuter
  <1>3. ASSUME NEW q \in Runs, session[q] = l, place[Outer(q)] = "queued" PROVE r <= q
    <2>1. PICK i \in 1..Len(queue[l]) : queue[l][i] = Outer(q)
      BY <1>3, EntryFacts DEF AllQueued
    <2>2. CASE i = 1
      BY <1>2, <2>1, <2>2, EntryFacts, LanesAssumption DEF Runs
    <2>3. CASE i # 1
      <3>1. queue[l][1][1] < queue[l][i][1]
        BY <1>2, <2>1, <2>3 DEF WaitInOrder
      <3>2. r < q
        BY <1>2, <2>1, <3>1, EntryFacts
      <3>3. QED
        BY <3>2, LanesAssumption DEF Runs
    <2>4. QED
      BY <2>2, <2>3
  <1>4. ASSUME NEW q \in Runs, session[q] = l, place[Outer(q)] = "running"
        PROVE  taskGeneration[Outer(q)] < resets
    <2>1. activeTaskIds[l] = {}
      <3>1. IsFiniteSet(activeTaskIds[l]) /\ Cardinality(activeTaskIds[l]) < 1
        BY <1>2 DEF OneSlot, StartNext, HasRoom
      <3>2. Cardinality(activeTaskIds[l]) = 0
        BY <3>1, FS_CardinalityType
      <3>3. QED
        BY <3>1, <3>2, FS_EmptySet
    <2>2. /\ Outer(q) \in Entries /\ LaneOf(Outer(q)) = l
          /\ generation[l] = resets /\ taskGeneration[Outer(q)] <= resets
          /\ taskGeneration[Outer(q)] \in Nat /\ resets \in Nat
      BY <1>4, EntryFacts DEF Generations, TypeOK
    <2>3. taskGeneration[Outer(q)] # generation[l]
      BY <1>4, <2>1, <2>2 DEF SlotsAreHeld
    <2>4. QED
      BY <2>2, <2>3
  <1>5. RunStatus' = [RunStatus EXCEPT ![r] = "running"]
    BY <1>2 DEF RunStatus
  <1>6. Life' = [Life EXCEPT ![r] = resets]
    <2>1. taskGeneration' = [taskGeneration EXCEPT ![Outer(r)] = resets]
      BY <1>1 DEF StartsOuter, Generations
    <2>2. \A q \in Runs : taskGeneration'[Outer(q)] = IF q = r THEN resets ELSE taskGeneration[Outer(q)]
      BY <2>1, EntryFacts DEF TypeOK, Outer
    <2>3. QED
      BY <2>2 DEF Life
  <1>7. UNCHANGED <<session, resets>>
    BY DEF loopVars
  <1>8. RunStatus[r] = "waiting"
    BY <1>2, StatusFacts
  <1>9. \A q \in Runs : session[q] = session[r] =>
            /\ RunStatus[q] = "waiting" => r <= q
            /\ RunStatus[q] = "running" => Life[q] < resets
    BY <1>2, <1>3, <1>4, StatusFacts DEF Life
  <1>10. QED
    BY <1>5, <1>6, <1>7, <1>8, <1>9 DEF Serial!Begin, Life

\* Every step is a step of SessionRuns or leaves its variables alone.
LEMMA NextImplements ==
  ASSUME OrderInv, OrderInv', [Next]_vars
  PROVE  [Serial!Next]_(Serial!vars)
  <1> USE DEF OrderInv, SlotInv
  <1>1. CASE Pump
    <2> DEFINE l == Head(pumps)
    <2>1. l \in Lanes
      BY <1>1 DEF Pump, TypeOK
    <2>2. UNCHANGED <<maxConcurrent, generation, lanesToDrain, session, globalLane, waitsFor, loopVars>>
      BY <1>1 DEF Pump
    <2>3. CASE StartNext(l) /\ Head(queue[l])[2] = "outer"
      BY <2>1, <2>2, <2>3, BeginImplements DEF Serial!Next
    <2>4. CASE StartNext(l) /\ Head(queue[l])[2] # "outer"
      <3>1. /\ \A r \in Runs : Outer(r) \in Entries /\ Outer(r) # Head(queue[l])
            /\ place' = [place EXCEPT ![Head(queue[l])] = "running"]
            /\ taskGeneration' = [taskGeneration EXCEPT ![Head(queue[l])] = generation[l]]
        BY <2>4, EntryFacts DEF StartNext
      <3>2. \A r \in Runs : UNCHANGED <<place[Outer(r)], taskGeneration[Outer(r)]>>
        BY <3>1 DEF TypeOK
      <3>3. QED
        BY <2>2, <3>2, StutterImplements DEF loopVars
    <2>5. CASE PumpEnds(l)
      BY <2>2, <2>5, StutterImplements DEF PumpEnds, loopVars
    <2>6. QED
      BY <1>1, <2>3, <2>4, <2>5 DEF Pump
  <1>2. ASSUME NEW r \in Runs, NEW s \in Sessions, NEW g \in Globals, NEW p \in Runs \cup {None},
               Submit(r, s, g, p)
        PROVE  Serial!Next
    <2>1. /\ \A q \in Runs : place'[Outer(q)] = IF q = r THEN "queued" ELSE place[Outer(q)]
          /\ place[Outer(r)] = "none"
          /\ \A q \in Runs : q < r => place[Outer(q)] # "none"
          /\ session' = [session EXCEPT ![r] = s]
          /\ UNCHANGED <<taskGeneration, resets>>
      BY <1>2, EntryFacts DEF Submit, TypeOK, Outer, loopVars
    <2>2. RunStatus' = [RunStatus EXCEPT ![r] = "waiting"]
      BY <2>1 DEF RunStatus
    <2>3. RunStatus[r] = "new" /\ \A q \in Runs : q < r => RunStatus[q] # "new"
      BY <2>1, StatusFacts
    <2>4. Serial!Submit(r, s)
      BY <2>1, <2>2, <2>3 DEF Serial!Submit
    <2>5. QED
      BY <2>4 DEF Serial!Next
  <1>3. ASSUME NEW r \in Runs, RunEnds(r) PROVE UNCHANGED Serial!vars
    <2>1. \A q \in Runs : UNCHANGED <<place[Outer(q)], taskGeneration[Outer(q)]>>
      <3>1. \A q \in Runs : Outer(q) \in Entries /\ Outer(q) # Inner(r)
        BY EntryFacts
      <3>2. /\ place' = [place EXCEPT ![Inner(r)] = "settled"]
            /\ taskGeneration' = taskGeneration
        BY <1>3 DEF RunEnds, Settle
      <3>3. QED
        BY <3>1, <3>2 DEF TypeOK
    <2>2. QED
      BY <1>3, <2>1, StutterImplements DEF RunEnds, loopVars
  <1>4. ASSUME NEW r \in Runs, OuterEnds(r) PROVE Serial!Next
    <2>1. /\ \A q \in Runs : place'[Outer(q)] = IF q = r THEN "settled" ELSE place[Outer(q)]
          /\ place[Outer(r)] = "running"
          /\ UNCHANGED <<session, taskGeneration, resets>>
      BY <1>4, EntryFacts DEF OuterEnds, Settle, TypeOK, Outer, loopVars
    <2>2. RunStatus' = [RunStatus EXCEPT ![r] = "over"]
      BY <2>1 DEF RunStatus
    <2>3. Serial!End(r)
      BY <2>1, <2>2, StatusFacts DEF Serial!End
    <2>4. QED
      BY <2>3 DEF Serial!Next
  <1>5. ASSUME NEW s \in Sessions, Clear(s) PROVE Serial!Next
    <2>1. /\ \A q \in Runs : place'[Outer(q)] =
                IF place[Outer(q)] = "queued" /\ session[q] = s THEN "settled" ELSE place[Outer(q)]
          /\ UNCHANGED <<session, taskGeneration, resets>>
      BY <1>5, EntryFacts DEF Clear, loopVars
    <2>2. RunStatus' = [q \in Runs |->
              IF RunStatus[q] = "waiting" /\ session[q] = s THEN "over" ELSE RunStatus[q]]
      BY <2>1 DEF RunStatus
    <2>3. Serial!Drop(s)
      BY <2>1, <2>2 DEF Serial!Drop
    <2>4. QED
      BY <2>3 DEF Serial!Next
  <1>6. CASE ResetAllLanes
    BY <1>6 DEF ResetAllLanes, runVars, Serial!Next, Serial!Restart, RunStatus
  <1>7. ASSUME UNCHANGED <<place, session, taskGeneration, resets>> PROVE UNCHANGED Serial!vars
    BY <1>7, StutterImplements
  <1>8. QED
    BY <1>1, <1>2, <1>3, <1>4, <1>5, <1>6, <1>7
       DEF Next, DrainNext, WaitEnds, SetConcurrency, RequestRestart, DrainEnds,
           vars, laneVars, stackVars, runVars, loopVars

\* The runs of a session begin in order and, in one life, one at a time.
THEOREM LanesImplementSessionRuns == Spec => ImplementsSessionRuns
  <1>1. OrderInv /\ OrderInv' /\ [Next]_vars => [Serial!Next]_(Serial!vars)
    BY NextImplements
  <1>2. QED
    BY InitImplements, LanesInvariant, <1>1, PTL DEF Spec, ImplementsSessionRuns, Serial!Spec

-----------------------------------------------------------------------------
(* What SessionRuns means for agent runs *)

\* Of two agent runs of a session, the later one executes next to the earlier one
\* only if a restart came between their beginnings.
RunsApart ==
    \A q, r \in Runs :
        q < r /\ session[q] = session[r] /\ Executing(q) /\ Executing(r)
            => taskGeneration[Outer(q)] < taskGeneration[Outer(r)]

\* While a run waits, every later run of its session waits: it has neither begun
\* nor been dropped from the queue alone.
NobodyOvertakes ==
    \A q, r \in Runs :
        q < r /\ session[q] = session[r] /\ place[Outer(q)] = "queued"
            => place[Outer(r)] = "queued"

\* The same of the states of SessionRuns.
RunsApartStatus ==
    \A q, r \in Runs :
        q < r /\ session[q] = session[r] /\ RunStatus[q] = "running" /\ RunStatus[r] = "running"
            => Life[q] < Life[r]

NobodyOvertakesStatus ==
    \A q, r \in Runs :
        q < r /\ session[q] = session[r] /\ RunStatus[q] = "waiting"
            => RunStatus[r] = "waiting"

\* Runs are submitted one after the other, each to a session.
NewRunsLast ==
    /\ \A r \in Runs : RunStatus[r] = "new" <=> session[r] = None
    /\ \A q, r \in Runs : q < r /\ RunStatus[q] = "new" => RunStatus[r] = "new"

StatusInv ==
    /\ \A r \in Runs : Life[r] \in Nat /\ Life[r] <= resets
    /\ NewRunsLast
    /\ NobodyOvertakesStatus
    /\ RunsApartStatus

\* The inner command of an outer one that is over is over.
InnerInOuter ==
    \A r \in Runs :
        place[Outer(r)] = "settled" => place[Inner(r)] \in {"none", "settled"}

\* A step of SessionRuns keeps what is said of its states: the run that begins is
\* the first that waits, and those of its session that are on are of earlier lives.
LEMMA SerialKeeps ==
  ASSUME TypeOK, StatusInv, Serial!Next,
         \A r \in Runs : Life'[r] \in Nat /\ Life'[r] <= resets'
  PROVE  StatusInv'
  <1> DEFINE st == RunStatus  lf == Life
  <1>0. /\ DOMAIN st = Runs /\ lf = [r \in Runs |-> lf[r]] /\ resets \in Nat
        /\ session = [r \in Runs |-> session[r]]
        /\ st = [r \in Runs |-> st[r]] /\ None \notin Sessions
        /\ \A q, r \in Runs : q \in Int /\ (q < r \/ q = r \/ r < q)
    <2>1. DOMAIN st = Runs
      BY StatusFacts
    <2>2. st = [r \in Runs |-> st[r]]
      BY DEF RunStatus
    <2>3. lf = [r \in Runs |-> lf[r]]
      BY DEF Life
    <2>4. resets \in Nat /\ session = [r \in Runs |-> session[r]]
      BY DEF TypeOK
    <2>5. None \notin Sessions
      BY LanesAssumption DEF Lanes
    <2>6. \A q, r \in Runs : q \in Int /\ (q < r \/ q = r \/ r < q)
      BY LanesAssumption DEF Runs
    <2>7. QED
      BY <2>1, <2>2, <2>3, <2>4, <2>5, <2>6
  <1>1. Life = lf /\ Life' = lf' /\ RunStatus = st /\ RunStatus' = st'
    OBVIOUS
  <1> USE DEF StatusInv, NewRunsLast, NobodyOvertakesStatus, RunsApartStatus
  <1>2. ASSUME NEW r \in Runs, NEW s \in Sessions, Serial!Submit(r, s)
        PROVE  StatusInv'
    <2>1. /\ st[r] = "new" /\ \A q \in Runs : q < r => st[q] # "new"
          /\ st' = [st EXCEPT ![r] = "waiting"] /\ session' = [session EXCEPT ![r] = s]
          /\ lf' = lf /\ resets' = resets
      BY <1>2 DEF Serial!Submit, Life
    <2> HIDE DEF st, lf
    <2>2. QED
      BY <1>0, <1>1, <2>1
  <1>3. ASSUME NEW r \in Runs, Serial!Begin(r) PROVE StatusInv'
    <2>1. /\ st[r] = "waiting"
          /\ \A q \in Runs : session[q] = session[r] =>
                /\ st[q] = "waiting" => r <= q
                /\ st[q] = "running" => lf[q] < resets
          /\ st' = [st EXCEPT ![r] = "running"] /\ session' = session
          /\ lf' = [lf EXCEPT ![r] = resets] /\ resets' = resets
      BY <1>3 DEF Serial!Begin, Life
    <2> HIDE DEF st, lf
    <2>2. QED
      BY <1>0, <1>1, <2>1
  <1>4. ASSUME NEW r \in Runs, Serial!End(r) PROVE StatusInv'
    <2>1. /\ st[r] = "running" /\ st' = [st EXCEPT ![r] = "over"]
          /\ session' = session /\ lf' = lf /\ resets' = resets
      BY <1>4 DEF Serial!End, Life
    <2> HIDE DEF st, lf
    <2>2. QED
      BY <1>0, <1>1, <2>1
  <1>5. ASSUME NEW s \in Sessions, Serial!Drop(s) PROVE StatusInv'
    <2>1. /\ st' = [r \in Runs |->
                IF st[r] = "waiting" /\ session[r] = s THEN "over" ELSE st[r]]
          /\ session' = session /\ lf' = lf /\ resets' = resets
      BY <1>5 DEF Serial!Drop, Life
    <2> HIDE DEF st, lf
    <2>2. QED
      BY <1>0, <1>1, <2>1
  <1>6. CASE Serial!Restart
    <2>1. st' = st /\ session' = session /\ lf' = lf
      BY <1>6 DEF Serial!Restart, Life
    <2> HIDE DEF st, lf
    <2>2. QED
      BY <1>0, <1>1, <2>1
  <1>7. QED
    BY <1>2, <1>3, <1>4, <1>5, <1>6 DEF Serial!Next

\* Moving one command leaves every other one in its place.
LEMMA PlaceFacts ==
  ASSUME TypeOK, NEW r \in Runs, NEW v
  PROVE  /\ place' = [place EXCEPT ![Outer(r)] = v] =>
              \A q \in Runs : /\ place'[Outer(q)] = IF q = r THEN v ELSE place[Outer(q)]
                              /\ place'[Inner(q)] = place[Inner(q)]
         /\ place' = [place EXCEPT ![Inner(r)] = v] =>
              \A q \in Runs : /\ place'[Inner(q)] = IF q = r THEN v ELSE place[Inner(q)]
                              /\ place'[Outer(q)] = place[Outer(q)]
  BY EntryFacts DEF TypeOK, Outer, Inner

\* An outer command is over when it has awaited the inner one, or was dropped
\* before there was one.
LEMMA NextInnerInOuter ==
  ASSUME OrderInv, InnerInOuter, [Next]_vars
  PROVE  InnerInOuter'
  <1> USE DEF OrderInv, SlotInv, InnerInOuter
  <1> USE EntryFacts
  <1>1. CASE Pump
    <2> DEFINE l == Head(pumps)
    <2>1. l \in Lanes
      BY <1>1 DEF Pump, TypeOK
    <2>2. UNCHANGED <<maxConcurrent, generation, lanesToDrain, session, globalLane, waitsFor, loopVars>>
      BY <1>1 DEF Pump
    <2>3. CASE StartNext(l) /\ Head(queue[l])[2] = "outer"
      <3>1. PICK r \in Runs, g \in Globals : StartsOuter(l, r, g)
        BY <2>1, <2>2, <2>3, StartOuterFacts
      <3>2. \A q \in Runs \ {r} :
               UNCHANGED <<place[Outer(q)], place[Inner(q)]>>
        <4>1. \A q \in Runs \ {r} : /\ Outer(q) \in Entries \ {Outer(r), Inner(r)}
                                    /\ Inner(q) \in Entries \ {Outer(r), Inner(r)}
          OBVIOUS
        <4>2. QED
          BY <3>1, <4>1 DEF StartsOuter
      <3>3. place'[Outer(r)] = "running"
        BY <3>1 DEF StartsOuter
      <3>4. QED
        BY <3>2, <3>3
    <2>4. CASE StartNext(l) /\ Head(queue[l])[2] # "outer"
      <3>1. PICK r \in Runs : Head(queue[l]) = Inner(r) /\ place[Inner(r)] = "queued"
        BY <2>1, <2>4, HeadFacts DEF StartNext
      <3>2. place' = [place EXCEPT ![Inner(r)] = "running"]
        BY <2>4, <3>1 DEF StartNext
      <3>3. place[Outer(r)] # "settled"
        BY <3>1
      <3>4. \A q \in Runs :
               /\ place'[Inner(q)] = IF q = r THEN "running" ELSE place[Inner(q)]
               /\ place'[Outer(q)] = place[Outer(q)]
        BY <3>2, PlaceFacts
      <3>5. QED
        BY <3>3, <3>4
    <2>5. CASE PumpEnds(l)
      BY <2>5 DEF PumpEnds
    <2>6. QED
      BY <1>1, <2>3, <2>4, <2>5 DEF Pump
  <1>2. ASSUME NEW r \in Runs, NEW s \in Sessions, NEW g \in Globals, NEW p \in Runs \cup {None},
               Submit(r, s, g, p)
        PROVE  InnerInOuter'
    <2>1. TypeOK /\ place' = [place EXCEPT ![Outer(r)] = "queued"]
      BY <1>2 DEF Submit
    <2>2. \A q \in Runs : /\ place'[Outer(q)] = IF q = r THEN "queued" ELSE place[Outer(q)]
                          /\ place'[Inner(q)] = place[Inner(q)]
      BY <2>1, PlaceFacts
    <2>3. QED
      BY <2>2
  <1>3. ASSUME NEW r \in Runs, RunEnds(r) PROVE InnerInOuter'
    <2>1. TypeOK /\ place' = [place EXCEPT ![Inner(r)] = "settled"]
      BY <1>3 DEF RunEnds, Settle
    <2>2. \A q \in Runs : /\ place'[Inner(q)] = IF q = r THEN "settled" ELSE place[Inner(q)]
                          /\ place'[Outer(q)] = place[Outer(q)]
      BY <2>1 DEF TypeOK, Outer, Inner
    <2>3. QED
      BY <2>2
  <1>4. ASSUME NEW r \in Runs, OuterEnds(r) PROVE InnerInOuter'
    <2>1. \A q \in Runs : /\ place'[Outer(q)] = IF q = r THEN "settled" ELSE place[Outer(q)]
                          /\ place'[Inner(q)] = place[Inner(q)]
      BY <1>4, PlaceFacts DEF OuterEnds, Settle
    <2>2. QED
      BY <1>4, <2>1 DEF OuterEnds
  <1>5. ASSUME NEW s \in Sessions, Clear(s) PROVE InnerInOuter'
    <2>1. \A q \in Runs :
             /\ place'[Inner(q)] = place[Inner(q)]
             /\ place'[Outer(q)] # place[Outer(q)] => place[Outer(q)] = "queued"
      BY <1>5 DEF Clear
    <2>2. QED
      BY <2>1 DEF OuterFirst
  <1>6. CASE UNCHANGED place
    BY <1>6
  <1>7. QED
    BY <1>1, <1>2, <1>3, <1>4, <1>5, <1>6
       DEF Next, DrainNext, WaitEnds, SetConcurrency, RequestRestart, DrainEnds,
           ResetAllLanes, vars, runVars

\* Agent runs of a session never overtake each other, and overlap only across a
\* restart.
THEOREM AgentRunsAreSerial == Spec => [](RunsApart /\ NobodyOvertakes)
  <1>1. Init => StatusInv /\ InnerInOuter
    <2> SUFFICES ASSUME Init PROVE StatusInv /\ InnerInOuter
      OBVIOUS
    <2>1. \A r \in Runs : RunStatus[r] = "new" /\ session[r] = None /\ Life[r] = 0
      BY EntryFacts DEF Init, RunStatus, Life
    <2>2. \A r \in Runs : place[Outer(r)] = "none"
      BY EntryFacts DEF Init
    <2>3. resets = 0
      BY DEF Init
    <2>4. QED
      BY <2>1, <2>2, <2>3
         DEF StatusInv, InnerInOuter, NewRunsLast, NobodyOvertakesStatus, RunsApartStatus
  <1>2. OrderInv /\ OrderInv' /\ StatusInv /\ InnerInOuter /\ [Next]_vars
            => (StatusInv /\ InnerInOuter)'
    <2> SUFFICES ASSUME OrderInv, OrderInv', StatusInv, InnerInOuter, [Next]_vars
                 PROVE  StatusInv' /\ InnerInOuter'
      OBVIOUS
    <2>1. InnerInOuter'
      BY NextInnerInOuter
    <2>2. \A r \in Runs : Life'[r] \in Nat /\ Life'[r] <= resets'
      <3>1. \A e \in Entries : taskGeneration'[e] \in Nat /\ taskGeneration'[e] <= resets'
        BY DEF OrderInv, SlotInv, Generations, TypeOK
      <3>2. QED
        BY <3>1, EntryFacts DEF Life
    <2>3. CASE Serial!Next
      BY <2>1, <2>2, <2>3, SerialKeeps DEF OrderInv, SlotInv
    <2>4. CASE UNCHANGED Serial!vars
      <3>1. RunStatus' = RunStatus /\ session' = session /\ Life' = Life
        BY <2>4 DEF Serial!vars, Life
      <3>2. NewRunsLast' /\ NobodyOvertakesStatus' /\ RunsApartStatus'
        BY <3>1 DEF StatusInv, NewRunsLast, NobodyOvertakesStatus, RunsApartStatus
      <3>3. QED
        BY <2>1, <2>2, <3>2 DEF StatusInv
    <2>5. QED
      BY <2>1, <2>3, <2>4, NextImplements
  <1>3. OrderInv /\ StatusInv /\ InnerInOuter => RunsApart /\ NobodyOvertakes
    <2> SUFFICES ASSUME OrderInv, StatusInv, InnerInOuter
                 PROVE  RunsApart /\ NobodyOvertakes
      OBVIOUS
    <2>1. TypeOK /\ OuterFirst
      BY DEF OrderInv, SlotInv
    <2>2. \A r \in Runs : Executing(r) => RunStatus[r] = "running"
      BY <2>1, StatusFacts, EntryFacts DEF Executing, OuterFirst, InnerInOuter, TypeOK
    <2>3. RunsApart
      BY <2>2 DEF RunsApart, StatusInv, RunsApartStatus, Life
    <2>4. NobodyOvertakes
      BY <2>1, StatusFacts DEF NobodyOvertakes, StatusInv, NobodyOvertakesStatus
    <2>5. QED
      BY <2>3, <2>4
  <1>4. QED
    BY <1>1, <1>2, <1>3, LanesInvariant, PTL DEF Spec
=============================================================================
