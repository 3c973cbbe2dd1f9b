------------------------- MODULE ClaudeRunnerProofs -------------------------
(***************************************************************************)
(* What holds of a run that has the runner to itself, for any number of    *)
(* runs, any usage and any limits.                                         *)
(*                                                                         *)
(* Watched speaks of the fields, and the exit or the stop of any other run *)
(* clears them.  So the invariant says that a run outside `crowded` is the *)
(* only one at work (AloneAtWork), that a process in the field which is    *)
(* not crowded is not beside another one at work (FieldAlone), and that    *)
(* the field is empty once such a run was told to stop (ToldLeavesField).  *)
(* What liveness rests on comes last: whoever waits has something due.     *)
(***************************************************************************)
EXTENDS ClaudeRunner, TLAPS

Living == {"alive", "terminated", "killed"}

\* A run that has not begun is in no field.
Unborn ==
    \A r \in Runs : promise[r] = "none" =>
        /\ proc[r] = "none" /\ ~armed[r] /\ ~reading[r]
        /\ stopper[r] = "nobody"
        /\ process # r /\ timeoutHandle # r /\ readline # r

PendingLives == \A r \in Runs : promise[r] = "pending" => proc[r] \in Living

StopperTold == \A r \in Runs : stopper[r] # "nobody" => proc[r] # "alive"

AloneAtWork == \A r \in Busy \ crowded : Busy \subseteq {r}

FieldAlone == process # None /\ process \notin crowded => Busy \subseteq {process}

ToldLeavesField == \A r \in Busy \ crowded : proc[r] # "alive" => process = None

TimerIsCurrent == \A r \in Runs \ crowded : armed[r] => timeoutHandle = r

DestroyIsQuiet ==
    microtask = "destroy" => \A r \in Runs : proc[r] = "alive" => r \in crowded

IInv ==
    /\ TypeOK
    /\ Unborn
    /\ PendingLives
    /\ StopperTold
    /\ AloneAtWork
    /\ FieldAlone
    /\ ToldLeavesField
    /\ TimerIsCurrent
    /\ DestroyIsQuiet
    /\ Watched
    /\ TimersBelong
    /\ EndedSessionIsQuiet

-----------------------------------------------------------------------------

\* Initially no run has begun.
LEMMA InitIInv == Init => IInv
  <1> SUFFICES ASSUME Init PROVE IInv
    OBVIOUS
  <1> USE DEF Init, Busy, Callers
  <1>1. TypeOK
    BY DEF TypeOK
  <1>2. Unborn /\ PendingLives /\ StopperTold /\ AloneAtWork /\ FieldAlone
    BY RunnerAssumption DEF Unborn, PendingLives, StopperTold, AloneAtWork, FieldAlone
  <1>3. ToldLeavesField /\ TimerIsCurrent /\ DestroyIsQuiet
    BY DEF ToldLeavesField, TimerIsCurrent, DestroyIsQuiet
  <1>4. Watched /\ TimersBelong /\ EndedSessionIsQuiet
    BY DEF Watched, TimersBelong, EndedSessionIsQuiet
  <1>5. QED
    BY <1>1, <1>2, <1>3, <1>4 DEF IInv

\* Every step keeps the variables in their types.
LEMMA NextTypeOK == TypeOK /\ [Next]_vars => TypeOK'
  <1> SUFFICES ASSUME TypeOK, [Next]_vars PROVE TypeOK'
    OBVIOUS
  <1> USE DEF TypeOK, Callers, Off, fieldVars, runVars, stopVars, seenVars
  <1>1. ASSUME NEW r \in Runs, Begin(r) PROVE
          /\ process' \in Runs \cup {None} /\ timeoutHandle' \in Runs \cup {None}
          /\ readline' \in Runs \cup {None}
          /\ status' \in {"idle", "running", "stopped", "error"}
          /\ promise' \in [Runs -> {"none", "pending", "resolved", "rejected"}]
          /\ proc' \in [Runs -> {"none", "alive", "terminated", "killed", "gone"}]
          /\ armed' \in [Runs -> BOOLEAN] /\ reading' \in [Runs -> BOOLEAN]
          /\ crowded' \subseteq Runs /\ late' \subseteq Runs
          /\ UNCHANGED <<tokens, stopper, asked, open, reported>>
    BY <1>1 DEF Begin, SpawnThrows, SpawnFails, Spawned, Busy
  <1>2. ASSUME NEW r \in Runs, Prompt(r) PROVE TypeOK'
    BY <1>1, <1>2 DEF Prompt
  <1>3. ASSUME NEW r \in Runs, NEW u \in Usages, Result(r, u) PROVE TypeOK'
    BY <1>3, RunnerAssumption DEF Result
  <1>4. ASSUME NEW r \in Runs, NEW ok \in BOOLEAN, Exit(r, ok) PROVE TypeOK'
    BY <1>4 DEF Exit
  <1>5. ASSUME NEW r \in Runs, OutputEnds(r) PROVE TypeOK'
    BY <1>5 DEF OutputEnds
  <1>6. ASSUME NEW r \in Runs, KillTimer(r) PROVE TypeOK'
    BY <1>6 DEF KillTimer
  <1>7. ASSUME NEW r \in Runs, TimerFires(r) PROVE TypeOK'
    BY <1>7 DEF TimerFires, Stop
  <1>8. CASE CompactAsked \/ Compact
    <2>1. CASE CompactAsked
      BY <2>1 DEF CompactAsked
    <2>2. CASE Compact
      BY <2>2 DEF Compact, Stop
    <2>3. QED
      BY <1>8, <2>1, <2>2
  <1>9. CASE Destroy
    BY <1>9 DEF Destroy, Stop
  <1>10. CASE CompactStarts
    BY <1>1, <1>10 DEF CompactStarts
  <1>11. CASE DestroyEnds
    BY <1>11 DEF DestroyEnds
  <1>12. CASE UNCHANGED vars
    BY <1>12 DEF vars
  <1>13. QED
    BY <1>2, <1>3, <1>4, <1>5, <1>6, <1>7, <1>8, <1>9, <1>10, <1>11, <1>12 DEF Next

\* Type correctness (the run MCClaudeRunner checks the same on a small instance).
THEOREM TypeCorrect == Spec => []TypeOK
  <1>1. Init => TypeOK
    BY InitIInv DEF IInv
  <1>2. QED
    BY <1>1, NextTypeOK, PTL DEF Spec

-----------------------------------------------------------------------------
(* The steps, one by one *)

\* A new run, by a prompt or a /compact: it is alone, or all at work are crowded.
LEMMA BeginKeeps ==
  ASSUME IInv, TypeOK', NEW r \in Runs, Begin(r), microtask' = "nobody"
  PROVE  IInv'
  <1> USE DEF TypeOK, Living, Callers, Busy, Off, Quiet, fieldVars, runVars, stopVars, seenVars, vars, IInv, Begin, SpawnThrows, SpawnFails, Spawned
  <1>1. Unborn'
    BY RunnerAssumption DEF Unborn
  <1>2. PendingLives'
    BY DEF PendingLives
  <1>3. StopperTold'
    BY DEF Unborn, StopperTold
  <1>4. AloneAtWork'
    BY DEF AloneAtWork
  <1>5. FieldAlone'
    BY DEF FieldAlone
  <1>6. ToldLeavesField'
    BY DEF ToldLeavesField
  <1>7. TimerIsCurrent'
    BY DEF PendingLives, TimerIsCurrent, TimersBelong
  <1>8. DestroyIsQuiet'
    BY DEF DestroyIsQuiet
  <1>9. Watched'
    BY DEF Watched
  <1>10. TimersBelong'
    BY DEF TimersBelong
  <1>11. EndedSessionIsQuiet'
    BY DEF EndedSessionIsQuiet
  <1>12. QED
    BY <1>1, <1>2, <1>3, <1>4, <1>5, <1>6, <1>7, <1>8, <1>9, <1>10, <1>11 DEF IInv

\* The exit of a run clears the fields of no run that was alone.
LEMMA ExitKeeps ==
  ASSUME IInv, TypeOK', NEW r \in Runs, NEW ok \in BOOLEAN, Exit(r, ok)
  PROVE  IInv'
  <1> USE DEF TypeOK, Living, Callers, Busy, Off, Quiet, fieldVars, runVars, stopVars, seenVars, vars, IInv, Exit
  <1>1. Unborn'
    BY RunnerAssumption DEF Unborn
  <1>2. PendingLives'
    BY DEF PendingLives
  <1>3. StopperTold'
    BY DEF StopperTold
  <1>4. AloneAtWork'
    BY DEF AloneAtWork
  <1>5. FieldAlone'
    BY DEF FieldAlone
  <1>6. ToldLeavesField'
    BY DEF ToldLeavesField
  <1>7. TimerIsCurrent'
    BY DEF TimerIsCurrent
  <1>8. DestroyIsQuiet'
    BY RunnerAssumption DEF FieldAlone, DestroyIsQuiet, Watched
  <1>9. Watched'
    BY RunnerAssumption DEF FieldAlone, Watched
  <1>10. TimersBelong'
    BY DEF TimerIsCurrent, TimersBelong
  <1>11. EndedSessionIsQuiet'
    BY DEF EndedSessionIsQuiet
  <1>12. QED
    BY <1>1, <1>2, <1>3, <1>4, <1>5, <1>6, <1>7, <1>8, <1>9, <1>10, <1>11 DEF IInv

\* So does the end of a stop() that has waited long enough.
LEMMA KillKeeps ==
  ASSUME IInv, TypeOK', NEW r \in Runs, KillTimer(r)
  PROVE  IInv'
  <1> USE DEF TypeOK, Living, Callers, Busy, Off, Quiet, fieldVars, runVars, stopVars, seenVars, vars, IInv, KillTimer
  <1>1. Unborn'
    BY RunnerAssumption DEF Unborn
  <1>2. PendingLives'
    BY DEF PendingLives
  <1>3. StopperTold'
    BY DEF StopperTold
  <1>4. AloneAtWork'
    BY DEF AloneAtWork
  <1>5. FieldAlone'
    BY DEF FieldAlone
  <1>6. ToldLeavesField'
    BY DEF ToldLeavesField
  <1>7. TimerIsCurrent'
    BY DEF TimerIsCurrent
  <1>8. DestroyIsQuiet'
    BY RunnerAssumption DEF StopperTold, FieldAlone, DestroyIsQuiet, Watched
  <1>9. Watched'
    BY RunnerAssumption DEF StopperTold, FieldAlone, Watched
  <1>10. TimersBelong'
    BY DEF TimersBelong
  <1>11. EndedSessionIsQuiet'
    BY DEF EndedSessionIsQuiet
  <1>12. QED
    BY <1>1, <1>2, <1>3, <1>4, <1>5, <1>6, <1>7, <1>8, <1>9, <1>10, <1>11 DEF IInv

\* stop() for /compact or for the end of the session
LEMMA StopKeeps ==
  ASSUME IInv, TypeOK', NEW caller \in Callers, Quiet, Stop(caller, armed),
         UNCHANGED <<promise, open, seenVars>>
  PROVE  IInv'
  <1> USE DEF TypeOK, Living, Callers, Busy, Off, Quiet, fieldVars, runVars, stopVars, seenVars, vars, IInv, Stop
  <1>1. Unborn'
    BY RunnerAssumption DEF Unborn
  <1>2. PendingLives'
    BY DEF PendingLives
  <1>3. StopperTold'
    BY DEF StopperTold
  <1>4. AloneAtWork'
    BY RunnerAssumption DEF AloneAtWork, FieldAlone, ToldLeavesField, Watched
  <1>5. FieldAlone'
    BY DEF FieldAlone
  <1>6. ToldLeavesField'
    BY DEF ToldLeavesField
  <1>7. TimerIsCurrent'
    BY DEF TimerIsCurrent
  <1>8. DestroyIsQuiet'
    BY DEF DestroyIsQuiet, Watched
  <1>9. Watched'
    BY DEF Watched
  <1>10. TimersBelong'
    BY DEF TimersBelong
  <1>11. EndedSessionIsQuiet'
    BY DEF EndedSessionIsQuiet
  <1>12. QED
    BY <1>1, <1>2, <1>3, <1>4, <1>5, <1>6, <1>7, <1>8, <1>9, <1>10, <1>11 DEF IInv

\* stop() by a timer, the current one or one that was left behind
LEMMA TimerKeeps ==
  ASSUME IInv, TypeOK', NEW r \in Runs, TimerFires(r)
  PROVE  IInv'
  <1> USE DEF TypeOK, Living, Callers, Busy, Off, Quiet, fieldVars, runVars, stopVars, seenVars, vars, IInv, TimerFires, Stop
  <1>1. Unborn'
    BY RunnerAssumption DEF Unborn
  <1>2. PendingLives'
    BY DEF PendingLives
  <1>3. StopperTold'
    BY DEF StopperTold
  <1>4. AloneAtWork'
    BY RunnerAssumption DEF AloneAtWork, FieldAlone, ToldLeavesField, Watched
  <1>5. FieldAlone'
    BY DEF FieldAlone
  <1>6. ToldLeavesField'
    BY DEF ToldLeavesField
  <1>7. TimerIsCurrent'
    BY DEF TimerIsCurrent
  <1>8. DestroyIsQuiet'
    BY DEF DestroyIsQuiet
  <1>9. Watched'
    BY DEF Watched
  <1>10. TimersBelong'
    <2> SUFFICES ASSUME NEW q \in Runs, armed'[q], promise'[q] # "pending"
                 PROVE  q \in crowded'
      BY DEF TimersBelong
    <2>1. q # r /\ armed[q]
      OBVIOUS
    <2>2. promise'[q] = promise[q]
      BY <2>1
    <2>3. QED
      BY <2>1, <2>2 DEF TimersBelong
  <1>11. EndedSessionIsQuiet'
    BY DEF EndedSessionIsQuiet
  <1>12. QED
    BY <1>1, <1>2, <1>3, <1>4, <1>5, <1>6, <1>7, <1>8, <1>9, <1>10, <1>11 DEF IInv

\* Steps that begin, stop and end no run
LEMMA OtherKeeps ==
  ASSUME IInv, TypeOK',
         \/ \E r \in Runs, u \in Usages : Result(r, u)
         \/ \E r \in Runs : OutputEnds(r)
         \/ DestroyEnds
         \/ CompactAsked
         \/ UNCHANGED <<fieldVars, tokens, runVars, stopper, open, seenVars>> /\ microtask' = "nobody"
         \/ UNCHANGED vars
  PROVE  IInv'
  <1> USE DEF TypeOK, Living, Callers, Busy, Off, Quiet, fieldVars, runVars, stopVars, seenVars, vars, IInv, Result, OutputEnds, DestroyEnds, CompactAsked
  <1>1. Unborn'
    BY DEF Unborn
  <1>2. PendingLives'
    BY DEF PendingLives
  <1>3. StopperTold'
    BY DEF StopperTold
  <1>4. AloneAtWork'
    BY DEF AloneAtWork
  <1>5. FieldAlone'
    BY DEF FieldAlone
  <1>6. ToldLeavesField'
    BY DEF ToldLeavesField
  <1>7. TimerIsCurrent'
    BY DEF TimerIsCurrent
  <1>8. DestroyIsQuiet'
    BY DEF DestroyIsQuiet
  <1>9. Watched'
    BY DEF Watched
  <1>10. TimersBelong'
    BY DEF TimersBelong
  <1>11. EndedSessionIsQuiet'
    BY DEF DestroyIsQuiet, EndedSessionIsQuiet
  <1>12. QED
    BY <1>1, <1>2, <1>3, <1>4, <1>5, <1>6, <1>7, <1>8, <1>9, <1>10, <1>11 DEF IInv

-----------------------------------------------------------------------------
(* The invariant *)

\* Every step of the runner, its callers and the processes keeps the invariant.
LEMMA NextIInv == IInv /\ [Next]_vars => IInv'
  <1> SUFFICES ASSUME IInv, [Next]_vars PROVE IInv'
    OBVIOUS
  <1>1. TypeOK'
    BY NextTypeOK DEF IInv
  <1>2. ASSUME NEW r \in Runs, Prompt(r) PROVE IInv'
    BY <1>1, <1>2, BeginKeeps DEF Prompt, Quiet
  <1>3. ASSUME NEW r \in Runs, OutputEnds(r) PROVE IInv'
    BY <1>1, <1>3, OtherKeeps
  <1>4. ASSUME NEW r \in Runs, KillTimer(r) PROVE IInv'
    BY <1>1, <1>4, KillKeeps
  <1>5. ASSUME NEW r \in Runs, TimerFires(r) PROVE IInv'
    BY <1>1, <1>5, TimerKeeps
  <1>6. ASSUME NEW r \in Runs, NEW u \in Usages, Result(r, u) PROVE IInv'
    BY <1>1, <1>6, OtherKeeps
  <1>7. ASSUME NEW r \in Runs, NEW ok \in BOOLEAN, Exit(r, ok) PROVE IInv'
    BY <1>1, <1>7, ExitKeeps
  <1>8. CASE Compact
    BY <1>1, <1>8, StopKeeps DEF Compact, Callers
  <1>9. CASE Destroy
    BY <1>1, <1>9, StopKeeps DEF Destroy, Callers
  <1>10. CASE CompactStarts
    <2>1. CASE \E r \in Runs : Begin(r)
      BY <1>1, <1>10, <2>1, BeginKeeps DEF CompactStarts
    <2>2. CASE UNCHANGED <<fieldVars, tokens, runVars, stopper, open, seenVars>>
      BY <1>1, <1>10, <2>2, OtherKeeps DEF CompactStarts
    <2>3. QED
      BY <1>10, <2>1, <2>2 DEF CompactStarts
  <1>11. CASE DestroyEnds \/ CompactAsked
    BY <1>1, <1>11, OtherKeeps
  <1>12. CASE UNCHANGED vars
    BY <1>1, <1>12, OtherKeeps
  <1>13. QED
    BY <1>2, <1>3, <1>4, <1>5, <1>6, <1>7, <1>8, <1>9, <1>10, <1>11, <1>12 DEF Next

\* The inductive invariant holds of every behaviour.
THEOREM RunnerInvariant == Spec => []IInv
  <1>1. QED
    BY InitIInv, NextIInv, PTL DEF Spec

\* A run that has the runner to itself is in its fields until it is told to stop.
THEOREM WatchedAlways == Spec => []Watched
  <1>1. IInv => Watched
    BY DEF IInv
  <1>2. QED
    BY <1>1, RunnerInvariant, PTL

\* Only a run that shared the runner leaves its timer behind.
THEOREM TimersBelongAlways == Spec => []TimersBelong
  <1>1. IInv => TimersBelong
    BY DEF IInv
  <1>2. QED
    BY <1>1, RunnerInvariant, PTL

\* The end of a session ends its process, but for crowded and late ones.
THEOREM EndedSessionIsQuietAlways == Spec => []EndedSessionIsQuiet
  <1>1. IInv => EndedSessionIsQuiet
    BY DEF IInv
  <1>2. QED
    BY <1>1, RunnerInvariant, PTL
-----------------------------------------------------------------------------
(* Why every run settles and every stop ends: something is always due *)

\* A run that has begun has, or had, a process.  One that was sent SIGTERM has a
\* stop() that waits for its end and will send SIGKILL.
ToldIsAwaited ==
    \A r \in Runs : /\ promise[r] # "none" => proc[r] # "none"
                    /\ proc[r] = "terminated" => stopper[r] # "nobody"

\* A run whose caller waits, and which had the runner to itself, has a timer that
\* will fire, a stop() that will end, or a process that was killed: no path of the
\* code leaves a caller with none of them.
SomethingIsDue ==
    \A r \in Runs : promise[r] = "pending" /\ r \notin crowded =>
        armed[r] \/ stopper[r] # "nobody" \/ proc[r] = "killed"

\* A process that was told to end never works again, and the stop() that waits
\* for it returns only when it has ended or was killed, whoever else calls stop()
\* or run() in the meantime.
StopsAreFinal ==
    [][\A r \in Runs :
        /\ proc[r] \in {"terminated", "killed", "gone"} => proc'[r] \in {proc[r], "killed", "gone"}
        /\ proc[r] = "gone" => proc'[r] = "gone"
        /\ stopper[r] # "nobody" /\ stopper'[r] = "nobody" => proc'[r] \in {"killed", "gone"}]_vars

\* What a step does to a process and to the stop() that waits for it.
LEMMA ProcessSteps ==
  ASSUME IInv, ToldIsAwaited, [Next]_vars, NEW r \in Runs
  PROVE  /\ proc[r] \in {"terminated", "killed", "gone"} => proc'[r] \in {proc[r], "killed", "gone"}
         /\ proc[r] = "gone" => proc'[r] = "gone"
         /\ stopper[r] # "nobody" /\ stopper'[r] = "nobody" => proc'[r] \in {"killed", "gone"}
         /\ promise'[r] # "none" => proc'[r] # "none"
         /\ proc'[r] = "terminated" => stopper'[r] # "nobody"
  <1> DEFINE Goal ==
        /\ proc[r] \in {"terminated", "killed", "gone"} => proc'[r] \in {proc[r], "killed", "gone"}
        /\ proc[r] = "gone" => proc'[r] = "gone"
        /\ stopper[r] # "nobody" /\ stopper'[r] = "nobody" => proc'[r] \in {"killed", "gone"}
        /\ promise'[r] # "none" => proc'[r] # "none"
        /\ proc'[r] = "terminated" => stopper'[r] # "nobody"
  <1>1. /\ promise \in [Runs -> {"none", "pending", "resolved", "rejected"}]
        /\ proc \in [Runs -> {"none", "alive", "terminated", "killed", "gone"}]
        /\ stopper \in [Runs -> Callers \cup {"nobody", "timeout"}]
        /\ promise[r] = "none" <=> proc[r] = "none"
        /\ promise[r] = "none" => stopper[r] = "nobody" /\ process # r
        /\ stopper[r] # "nobody" => proc[r] \in {"terminated", "killed", "gone"}
        /\ proc[r] = "terminated" => stopper[r] # "nobody"
    BY DEF IInv, TypeOK, Unborn, StopperTold, ToldIsAwaited
  <1>2. ASSUME NEW q \in Runs, Begin(q) PROVE Goal
    BY <1>1, <1>2 DEF Begin, SpawnThrows, SpawnFails, Spawned
  <1>3. ASSUME NEW caller \in Callers \cup {"timeout"}, NEW timers, Stop(caller, timers),
               promise'[r] # "none" => promise[r] # "none"
        PROVE  Goal
    BY <1>1, <1>3 DEF Stop, Callers
  <1>4. ASSUME NEW q \in Runs, KillTimer(q) PROVE Goal
    BY <1>1, <1>4 DEF KillTimer
  <1>5. ASSUME NEW q \in Runs, NEW ok \in BOOLEAN, Exit(q, ok) PROVE Goal
    BY <1>1, <1>5 DEF Exit
  <1>6. ASSUME NEW q \in Runs, TimerFires(q) PROVE Goal
    BY <1>1, <1>3, <1>6 DEF TimerFires
  <1>7. CASE Compact \/ Destroy
    BY <1>3, <1>7 DEF Compact, Destroy, Callers
  <1>8. CASE UNCHANGED <<promise, proc, stopper>>
    BY <1>1, <1>8
  <1>9. QED
    BY <1>2, <1>4, <1>5, <1>6, <1>7, <1>8
       DEF Next, Prompt, OutputEnds, Result, CompactAsked, CompactStarts, DestroyEnds, runVars, stopVars, vars

\* Something is due for every caller that waits, and a stop() ends only with its
\* process: the part of EveryRunSettles and StopEnds that needs no fairness.
THEOREM StopsAndRunsMoveOn == Spec => []SomethingIsDue /\ StopsAreFinal
  <1> DEFINE A == \A r \in Runs :
        /\ proc[r] \in {"terminated", "killed", "gone"} => proc'[r] \in {proc[r], "killed", "gone"}
        /\ proc[r] = "gone" => proc'[r] = "gone"
        /\ stopper[r] # "nobody" /\ stopper'[r] = "nobody" => proc'[r] \in {"killed", "gone"}
  <1>1. Init => ToldIsAwaited
    BY DEF Init, ToldIsAwaited
  <1>2. IInv /\ ToldIsAwaited /\ [Next]_vars => ToldIsAwaited' /\ [A]_vars
    <2> SUFFICES ASSUME IInv, ToldIsAwaited, [Next]_vars PROVE ToldIsAwaited' /\ A
      OBVIOUS
    <2>1. ToldIsAwaited'
      BY ProcessSteps DEF ToldIsAwaited
    <2>2. A
      BY ProcessSteps
    <2>3. QED
      BY <2>1, <2>2
  <1>3. IInv /\ ToldIsAwaited => SomethingIsDue
    BY DEF IInv, PendingLives, Living, Watched, ToldIsAwaited, SomethingIsDue
  <1>4. QED
    BY <1>1, <1>2, <1>3, RunnerInvariant, PTL DEF Spec, StopsAreFinal
=============================================================================
