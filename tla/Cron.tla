-------------------------------- MODULE Cron --------------------------------
(***************************************************************************)
(* The scheduler of jobs (cron/service): a store of jobs in memory and in  *)
(* a file, a timer whose tick takes the jobs that are due, runs them and   *)
(* applies the results, the operations add, update, remove, list and run,  *)
(* and the start of the gateway with its catch-up of missed jobs.          *)
(*                                                                         *)
(* locked() chains the operations and the two ends of a tick; the runs of  *)
(* a tick happen outside the lock, those of start and of a manual run      *)
(* under it.  An operation that awaits only the file is one action, whose  *)
(* write succeeds or fails; a file changes in one rename.  Of times only   *)
(* the order counts: a job's next run lies ahead or in the past, and a     *)
(* marker of a running job is fresh or older than STUCK_RUN_MS.            *)
(***************************************************************************)
EXTENDS FiniteSets, Naturals

CONSTANTS
    Jobs,               \* ids of jobs
    Kind,               \* schedule.kind of each job: "at", "every" or "cron"
    Kept,               \* one-shot jobs with deleteAfterRun: false
    Limited,            \* jobs whose runs in a tick have a time limit: all but
                        \* those with a timeoutSeconds of 0 or less
    MaxConcurrentRuns,  \* cron.maxConcurrentRuns
    Absent,             \* no job in the store
    None,               \* no job is executed under the lock
    MaxTroubles         \* bound: times that the gateway ends, a write of the store
                        \* fails or a patch is refused, all together

\* A run that was skipped counts as "error" for a one-shot job, as "ok" for
\* the others.
Outcomes == {"ok", "error"}

\* A job: its schedule is over or not (one-shot jobs only), its next run is due
\* or not, and its marker runningAtMs.
JobState == [enabled : BOOLEAN, when : {"ahead", "past"}, next : {"none", "ahead", "past"},
             mark : {"no", "fresh", "old"}, last : {"none"} \cup Outcomes]

ASSUME CronAssumption ==
    /\ Absent \notin JobState
    /\ IsFiniteSet(Jobs)
    /\ Kind \in [Jobs -> {"at", "every", "cron"}]
    /\ Kept \subseteq Jobs
    /\ Limited \subseteq Jobs
    /\ MaxConcurrentRuns \in Nat \ {0}
    /\ None \notin Jobs
    /\ MaxTroubles \in Nat

VARIABLES
    \* the store: what is in the file, and state.store
    disk, store,
    \* the scheduler
    timer,              \* state.timer is set and has not fired
    phase,              \* the tick: "idle", "waiting" for the lock, "running"
    exec,               \* the jobs of the tick: "no", "queued", "executing",
                        \* or how the run ended
    overtime,           \* jobs with a run whose time was up and that goes on
    \* what holds the lock for longer than a write
    boot,               \* start(): "down", "starting", "up" or "failed"
    missed,             \* jobs that start() has still to catch up with
    current,            \* the job that executeJob runs, or None
    \* bounds
    crashes, faults,
    \* for the properties only: jobs whose marker was taken away while a run of
    \* theirs goes on, by an update that disables the job, because it was two
    \* hours old or because the run's time was up
    unguarded

vars == <<disk, store, timer, phase, exec, overtime, boot, missed, current, crashes, faults,
          unguarded>>

InHand == {"queued", "executing"}

TypeOK ==
    /\ disk \in [Jobs -> JobState \cup {Absent}]
    /\ store \in [Jobs -> JobState \cup {Absent}]
    /\ timer \in BOOLEAN
    /\ phase \in {"idle", "waiting", "running"}
    /\ exec \in [Jobs -> {"no"} \cup InHand \cup Outcomes]
    /\ overtime \subseteq Jobs
    /\ boot \in {"down", "starting", "up", "failed"}
    /\ missed \subseteq Jobs
    /\ current \in Jobs \cup {None}
    /\ crashes \in Nat
    /\ faults \in Nat
    /\ unguarded \subseteq Jobs

-----------------------------------------------------------------------------
(***************************************************************************)
(* Helpers.  An operator whose comment starts with "Mistake" is a form of  *)
(* the definition after it that a plausible bug would give.  No action     *)
(* uses it: PROJECT.json pairs it with the property that catches it.       *)
(***************************************************************************)

Present(s) == {j \in Jobs : s[j] # Absent}
OneShot == {j \in Jobs : Kind[j] = "at"}
Timed(j) == IF j \in OneShot THEN {"ahead", "past"} ELSE {"ahead"}

\* An "every" job asked for its next run at a multiple of its period gets that
\* very moment; "cron" schedules always answer with a later one.
Edges == SUBSET {j \in Jobs : Kind[j] = "every"}
EdgesOf(j) == {edge \in Edges : edge \subseteq {j}}

\* computeJobNextRunAtMs of an enabled job, at a moment that is a multiple of
\* the period for the jobs in edge.
NextRun(j, r, edge) ==
    IF j \in OneShot THEN IF r.last = "ok" THEN "none" ELSE r.when
    ELSE IF j \in edge THEN "past" ELSE "ahead"

\* normalizeJobTickState
Tidy(r) ==
    IF ~r.enabled THEN [r EXCEPT !.next = "none", !.mark = "no"]
    ELSE IF r.mark = "old" THEN [r EXCEPT !.mark = "no"] ELSE r

\* walkSchedulableJobs, computing anew the next runs in which
Walk(s, edge, which) ==
    [j \in Jobs |->
        IF s[j] = Absent THEN Absent
        ELSE LET r == Tidy(s[j])
             IN IF r.enabled /\ r.next \in which
                THEN [r EXCEPT !.next = NextRun(j, r, edge)] ELSE r]

RecomputeNextRuns(s, edge) == Walk(s, edge, {"none", "past"})
\* Mistake: the maintenance of ticks computes past runs anew as well.
MaintainAll(s, edge) == Walk(s, edge, {"none", "past"})

RecomputeForMaintenance(s, edge) == Walk(s, edge, {"none"})

\* isRunnableJob, for a tick
Runnable(s, j) ==
    s[j] # Absent /\ s[j].enabled /\ s[j].mark = "no" /\ s[j].next = "past"

\* applyJobResult, and the removal of a one-shot job that is done.  How the
\* last run ended is kept for one-shot jobs only: it decides nothing for others.
Finish(j, r, outcome, edge) ==
    IF j \in OneShot
    THEN IF outcome = "ok" /\ j \notin Kept THEN Absent
         ELSE [r EXCEPT !.mark = "no", !.enabled = FALSE, !.next = "none", !.last = outcome]
    ELSE [r EXCEPT !.mark = "no",
                   !.next = IF ~r.enabled THEN "none"
                            ELSE IF outcome = "error" THEN "ahead"
                            ELSE NextRun(j, r, edge)]

Marked(s, js) == [j \in Jobs |-> IF j \in js THEN [s[j] EXCEPT !.mark = "fresh"] ELSE s[j]]

\* armTimer: whether it sets the timer
Armed(s) == \E j \in Jobs : s[j] # Absent /\ s[j].enabled /\ s[j].next # "none"

LockFree == boot \in {"up", "failed"} /\ current = None

\* The bound leaves room for one more.
Trouble == crashes + faults < MaxTroubles

\* persist
Persist(ok, s) ==
    IF ok THEN disk' = s /\ UNCHANGED faults
    ELSE Trouble /\ faults' = faults + 1 /\ UNCHANGED disk

Mark(r) == IF r = Absent THEN "no" ELSE r.mark

\* What NeverTwice is told of each step
Lifted ==
    {j \in Jobs : /\ exec'[j] \in InHand \/ j \in overtime'
                  /\ \/ j \in unguarded
                     \/ /\ store'[j] # Absent
                        /\ store'[j].mark = "no"
                        /\ \/ ~store'[j].enabled
                           \/ "old" \in {Mark(store[j]), Mark(disk[j])}
                           \/ exec[j] \in Outcomes /\ exec'[j] = "no"}

Watch == unguarded' = Lifted

-----------------------------------------------------------------------------
(* The start of the service *)

Init ==
    /\ disk = [j \in Jobs |-> Absent]
    /\ store = [j \in Jobs |-> Absent]
    /\ timer = FALSE
    /\ phase = "idle"
    /\ exec = [j \in Jobs |-> "no"]
    /\ overtime = {}
    /\ boot = "down"
    /\ missed = {}
    /\ current = None
    /\ crashes = 0
    /\ faults = 0
    /\ unguarded = {}

\* start(), up to the catch-up: markers of the last process go, and the jobs
\* that had one are not caught up with.
Start ==
    /\ boot = "down"
    /\ boot' = "starting"
    /\ store' = [j \in Jobs |-> IF disk[j] = Absent THEN Absent ELSE [disk[j] EXCEPT !.mark = "no"]]
    /\ missed' = {j \in Jobs : Runnable(disk, j) /\ ~(j \in OneShot /\ disk[j].last # "none")}
    /\ UNCHANGED <<disk, timer, phase, exec, overtime, current, crashes, faults>>
    /\ Watch

\* Loading the store rewrites it where there is something to normalise; when
\* that fails, start() rejects.
StartFails ==
    /\ boot = "down"
    /\ boot' = "failed"
    /\ store' = disk
    /\ Persist(FALSE, disk)
    /\ UNCHANGED <<timer, phase, exec, overtime, missed, current, crashes>>
    /\ Watch

\* runMissedJobs: one job after the other, under the lock
CatchUp(j) ==
    /\ boot = "starting" /\ current = None
    /\ j \in missed
    /\ missed' = missed \ {j}
    /\ current' = j
    /\ store' = Marked(store, {j})
    /\ UNCHANGED <<disk, timer, phase, exec, overtime, boot, crashes, faults>>
    /\ Watch

CaughtUp(outcome, edge) ==
    /\ boot = "starting" /\ current # None
    /\ store' = [store EXCEPT ![current] = Finish(current, @, outcome, edge)]
    /\ current' = None
    /\ UNCHANGED <<disk, timer, phase, exec, overtime, boot, missed, crashes, faults>>
    /\ Watch

StartEnds(edge, ok) ==
    /\ boot = "starting" /\ current = None /\ missed = {}
    /\ store' = RecomputeNextRuns(store, edge)
    /\ Persist(ok, store')
    /\ boot' = IF ok THEN "up" ELSE "failed"
    /\ timer' = (ok /\ Armed(store'))
    /\ UNCHANGED <<phase, exec, overtime, missed, current, crashes>>
    /\ Watch

\* The gateway ends, at any moment, and is started again.
Crash ==
    /\ boot # "down"
    /\ Trouble
    /\ crashes' = crashes + 1
    /\ store' = [j \in Jobs |-> Absent]
    /\ timer' = FALSE
    /\ phase' = "idle"
    /\ exec' = [j \in Jobs |-> "no"]
    /\ overtime' = {}
    /\ boot' = "down"
    /\ missed' = {}
    /\ current' = None
    /\ UNCHANGED <<disk, faults>>
    /\ Watch

-----------------------------------------------------------------------------
(* The tick *)

\* onTimer: while a tick is at work the timer is only set again.
TimerFires ==
    /\ timer
    /\ timer' = (phase # "idle")
    /\ phase' = IF phase = "idle" THEN "waiting" ELSE phase
    /\ UNCHANGED <<disk, store, exec, overtime, boot, missed, current, crashes, faults>>
    /\ Watch

\* Mistake: a tick ends without setting the timer again.
FallAsleep == phase' = "idle" /\ UNCHANGED timer

\* The end of every tick, whatever happened in it
TickEnds ==
    /\ phase' = "idle"
    /\ timer' = Armed(store')

\* The store is read again and nothing is due: a maintenance.
FindNothing(edge, ok) ==
    /\ phase = "waiting" /\ LockFree
    /\ \A j \in Jobs : ~Runnable(disk, j)
    /\ store' = RecomputeForMaintenance(disk, edge)
    /\ IF store' = disk THEN ok /\ UNCHANGED <<disk, faults>> ELSE Persist(ok, store')
    /\ TickEnds
    /\ UNCHANGED <<exec, overtime, boot, missed, current, crashes>>
    /\ Watch

\* The jobs that are due are marked in the file before any of them runs.
FindDue ==
    LET due == {j \in Jobs : Runnable(disk, j)}
    IN /\ phase = "waiting" /\ LockFree
       /\ due # {}
       /\ store' = Marked(disk, due)
       /\ Persist(TRUE, store')
       /\ phase' = "running"
       /\ exec' = [j \in Jobs |-> IF j \in due THEN "queued" ELSE "no"]
       /\ UNCHANGED <<timer, overtime, boot, missed, current, crashes>>
       /\ Watch

\* That write fails, or the one that normalises what was read.
FindFails(marked) ==
    LET due == {j \in Jobs : Runnable(disk, j)}
    IN /\ phase = "waiting" /\ LockFree
       /\ store' = IF marked THEN Marked(disk, due) ELSE disk
       /\ Persist(FALSE, store')
       /\ TickEnds
       /\ UNCHANGED <<exec, overtime, boot, missed, current, crashes>>
       /\ Watch

\* runDueJob: the marker is set again, in memory, whatever became of the job
\* since; a job that was removed runs all the same.
RunDueJob(j) ==
    /\ exec[j] = "queued"
    /\ Cardinality({k \in Jobs : exec[k] = "executing"}) < MaxConcurrentRuns
    /\ exec' = [exec EXCEPT ![j] = "executing"]
    /\ store' = IF store[j] = Absent THEN store ELSE Marked(store, {j})
    /\ UNCHANGED <<disk, timer, phase, overtime, boot, missed, current, crashes, faults>>
    /\ Watch

DueJobEnds(j, outcome) ==
    /\ exec[j] = "executing"
    /\ exec' = [exec EXCEPT ![j] = outcome]
    /\ UNCHANGED <<disk, store, timer, phase, overtime, boot, missed, current, crashes, faults>>
    /\ Watch

\* The limit of a run passes: for the tick it ended with an error, but nothing
\* cancels it.
DueJobTimesOut(j) ==
    /\ j \in Limited
    /\ exec[j] = "executing"
    /\ exec' = [exec EXCEPT ![j] = "error"]
    /\ overtime' = overtime \cup {j}
    /\ UNCHANGED <<disk, store, timer, phase, boot, missed, current, crashes, faults>>
    /\ Watch

\* The last of a job's runs of that kind ends; nobody takes its result.
OvertimeEnds(j) ==
    /\ j \in overtime
    /\ overtime' = overtime \ {j}
    /\ UNCHANGED <<disk, store, timer, phase, exec, boot, missed, current, crashes, faults>>
    /\ Watch

\* All runs have ended: the store is read again and the results are applied to
\* the jobs as they are by then.
ApplyResults(edge, ok) ==
    LET applied == [j \in Jobs |->
            IF exec[j] \in Outcomes /\ disk[j] # Absent
            THEN Finish(j, disk[j], exec[j], edge) ELSE disk[j]]
    IN /\ phase = "running" /\ LockFree
       /\ \A j \in Jobs : exec[j] \notin InHand
       /\ store' = RecomputeForMaintenance(applied, edge)
       /\ Persist(ok, store')
       /\ exec' = [j \in Jobs |-> "no"]
       /\ TickEnds
       /\ UNCHANGED <<overtime, boot, missed, current, crashes>>
       /\ Watch

\* What was read is normalised first, and that write fails: the results are lost.
LoseResults ==
    /\ phase = "running" /\ LockFree
    /\ \A j \in Jobs : exec[j] \notin InHand
    /\ store' = disk
    /\ Persist(FALSE, disk)
    /\ exec' = [j \in Jobs |-> "no"]
    /\ TickEnds
    /\ UNCHANGED <<overtime, boot, missed, current, crashes>>
    /\ Watch

-----------------------------------------------------------------------------
(* The operations *)

\* An operation that changes the store: if the write fails it rejects, but
\* memory keeps the change.
Commit(s, ok) ==
    /\ LockFree
    /\ store' = s
    /\ Persist(ok, s)
    /\ IF ok THEN timer' = Armed(s) ELSE UNCHANGED timer
    /\ UNCHANGED <<phase, exec, overtime, boot, missed, crashes>>
    /\ Watch

\* The id is new: not even a run of a job that is gone has it.
Add(j, enabled, when, edge, ok) ==
    LET new == [enabled |-> enabled, when |-> when, next |-> "none", mark |-> "no", last |-> "none"]
        job == [new EXCEPT !.next = IF enabled THEN NextRun(j, new, edge) ELSE "none"]
    IN /\ j \notin Present(store) \cup Present(disk) \cup overtime /\ exec[j] = "no"
       /\ Commit(RecomputeNextRuns([store EXCEPT ![j] = job], edge), ok)
       /\ UNCHANGED current

\* update() with a schedule or with enabled
Reschedule(j, enabled, when, edge, ok) ==
    LET r == [store[j] EXCEPT !.enabled = enabled, !.when = when]
        new == IF enabled THEN [r EXCEPT !.next = NextRun(j, r, edge)]
               ELSE [r EXCEPT !.next = "none", !.mark = "no"]
    IN /\ j \in Present(store)
       /\ Commit([store EXCEPT ![j] = new], ok)
       /\ UNCHANGED current

\* update() with neither
Edit(j, edge, ok) ==
    LET r == store[j]
    IN /\ j \in Present(store)
       /\ Commit(IF r.enabled /\ r.next = "none"
                 THEN [store EXCEPT ![j].next = NextRun(j, r, edge)] ELSE store, ok)
       /\ UNCHANGED current

\* update() with a patch that is refused when it is already half applied
EditRefused(j, enabled, when) ==
    /\ LockFree
    /\ j \in Present(store)
    /\ store' = [store EXCEPT ![j].enabled = enabled, ![j].when = when]
    /\ Persist(FALSE, store')
    /\ UNCHANGED <<timer, phase, exec, overtime, boot, missed, current, crashes>>
    /\ Watch

Remove(j, ok) ==
    /\ Commit([store EXCEPT ![j] = Absent], ok)
    /\ UNCHANGED current

\* list() and status()
Read(edge, ok) ==
    /\ LockFree
    /\ store' = RecomputeForMaintenance(store, edge)
    /\ IF store' = store THEN ok /\ UNCHANGED <<disk, faults>> ELSE Persist(ok, store')
    /\ UNCHANGED <<timer, phase, exec, overtime, boot, missed, current, crashes>>
    /\ Watch

\* Mistake: force passes over the marker as well.
RunAnyway(j, force) ==
    /\ LockFree
    /\ j \in Present(store)
    /\ force \/ Runnable(store, j)
    /\ current' = j
    /\ store' = Marked(store, {j})
    /\ UNCHANGED <<disk, timer, phase, exec, overtime, boot, missed, crashes, faults>>
    /\ Watch

\* run(), which executes the job under the lock; nothing is written before it
\* has ended
Run(j, force) ==
    /\ LockFree
    /\ j \in Present(store)
    /\ store[j].mark = "no"
    /\ force \/ Runnable(store, j)
    /\ current' = j
    /\ store' = Marked(store, {j})
    /\ UNCHANGED <<disk, timer, phase, exec, overtime, boot, missed, crashes, faults>>
    /\ Watch

RunEnds(outcome, edge, ok) ==
    LET s == RecomputeNextRuns([store EXCEPT ![current] = Finish(current, @, outcome, edge)], edge)
    IN /\ boot \in {"up", "failed"} /\ current # None
       /\ store' = s
       /\ Persist(ok, s)
       /\ IF ok THEN timer' = Armed(s) ELSE UNCHANGED timer
       /\ current' = None
       /\ UNCHANGED <<phase, exec, overtime, boot, missed, crashes>>
       /\ Watch

-----------------------------------------------------------------------------
(* The clock *)

Later(j, r) ==
    IF r = Absent THEN Absent
    ELSE [r EXCEPT !.next = IF @ = "ahead" THEN "past" ELSE @,
                   !.when = IF j \in OneShot THEN "past" ELSE @]

\* The next run of a job comes due.
Elapse(j) ==
    /\ <<Later(j, disk[j]), Later(j, store[j])>> # <<disk[j], store[j]>>
    /\ disk' = [disk EXCEPT ![j] = Later(j, @)]
    /\ store' = [store EXCEPT ![j] = Later(j, @)]
    /\ UNCHANGED <<timer, phase, exec, overtime, boot, missed, current, crashes, faults>>
    /\ Watch

Aged(r) == IF r # Absent /\ r.mark = "fresh" THEN [r EXCEPT !.mark = "old"] ELSE r

\* A job has been running for two hours, or so its marker says.
MarkAges(j) ==
    /\ <<Aged(disk[j]), Aged(store[j])>> # <<disk[j], store[j]>>
    /\ disk' = [disk EXCEPT ![j] = Aged(@)]
    /\ store' = [store EXCEPT ![j] = Aged(@)]
    /\ UNCHANGED <<timer, phase, exec, overtime, boot, missed, current, crashes, faults>>
    /\ Watch

-----------------------------------------------------------------------------
(* Specification *)

Boot ==
    \/ Start
    \/ StartFails
    \/ \E j \in Jobs : CatchUp(j)
    \/ \E outcome \in Outcomes, edge \in Edges : CaughtUp(outcome, edge)
    \/ \E edge \in Edges, ok \in BOOLEAN : StartEnds(edge, ok)

\* The first half of a tick
Find ==
    \/ \E edge \in Edges, ok \in BOOLEAN : FindNothing(edge, ok)
    \/ FindDue
    \/ \E marked \in BOOLEAN : FindFails(marked)

Execute ==
    \/ \E j \in Jobs : RunDueJob(j)
    \/ \E j \in Jobs, outcome \in Outcomes : DueJobEnds(j, outcome)
    \/ \E j \in Jobs : DueJobTimesOut(j)
    \/ \E j \in Jobs : OvertimeEnds(j)

Apply ==
    \/ \E edge \in Edges, ok \in BOOLEAN : ApplyResults(edge, ok)
    \/ LoseResults

Tick == TimerFires \/ Find \/ Execute \/ Apply

\* The operations that name a job
ChangeOf(j) ==
    \/ \E enabled \in BOOLEAN, when \in Timed(j), edge \in EdgesOf(j), ok \in BOOLEAN :
            Reschedule(j, enabled, when, edge, ok)
    \/ \E edge \in EdgesOf(j), ok \in BOOLEAN : Edit(j, edge, ok)
    \/ \E enabled \in BOOLEAN, when \in Timed(j) : EditRefused(j, enabled, when)
    \/ \E ok \in BOOLEAN : Remove(j, ok)
    \/ \E force \in BOOLEAN : Run(j, force)

RunReturns ==
    \E outcome \in Outcomes, edge \in Edges, ok \in BOOLEAN : RunEnds(outcome, edge, ok)

Operation ==
    \/ \E j \in Jobs, enabled \in BOOLEAN, edge \in Edges, ok \in BOOLEAN :
            \E when \in Timed(j) : Add(j, enabled, when, edge, ok)
    \/ \E j \in Jobs : ChangeOf(j)
    \/ \E edge \in Edges, ok \in BOOLEAN : Read(edge, ok)
    \/ RunReturns

Clock == \E j \in Jobs : Elapse(j) \/ MarkAges(j)

Next == Boot \/ Tick \/ Operation \/ Clock \/ Crash

Spec == Init /\ [][Next]_vars

-----------------------------------------------------------------------------
(* Properties *)

\* Of the runs of one job - by hand or of the catch-up, of the tick, and past
\* their time - no two go on at once: the markers in memory and in the file keep
\* the others off, through the writes, failed writes, reads and reloads of all.
\* Three things take a marker away from a run that goes on, and then the job may
\* be executed again beside it: an update that disables the job, two hours, and
\* the time limit of a tick's run, which the run itself outlasts.
NeverTwice ==
    \A j \in Jobs \ unguarded :
        /\ current = j => exec[j] # "executing"
        /\ j \in overtime => current # j /\ exec[j] # "executing"

Due(j) == Runnable(disk, j) /\ Runnable(store, j)

\* A step moves the next run of a job that is due ahead, and nothing ran it.
Skipped(j) ==
    /\ Due(j)
    /\ exec[j] \notin Outcomes
    /\ store'[j] # Absent
    /\ store'[j].enabled /\ store'[j].next = "ahead"

\* No step of a tick, no list or status, no update or removal of another job and
\* no start of another job's manual run moves a due job ahead, so that it would
\* wait for the run after (#13992, #16156, #17852 in the comments of the code).
\* Two operations on others are not among them: adding a job and the end of a
\* manual run compute every past run anew, as the start of the gateway does
\* (NoJobIsSkipped).
DueJobsAreKept ==
    [][\A j \in Jobs : Skipped(j) =>
        ~ \/ Tick
          \/ \E k \in Jobs \ {j} : ChangeOf(k)
          \/ \E edge \in Edges, ok \in BOOLEAN : Read(edge, ok)]_vars

\* Nothing at all does, but a new schedule for the job itself.
NoJobIsSkipped ==
    [][\A j \in Jobs : Skipped(j) => ChangeOf(j)]_vars

\* The scheduler does not fall asleep (#9733, #12025 and #14233 in the history
\* of the code): between two ticks the timer is set whenever a job has a next
\* run.  A failed operation may leave a change in memory with no timer set for
\* it, so this is said up to the first failure.
TimerIsSet == boot = "up" /\ phase = "idle" /\ faults = 0 /\ Armed(store) => timer
=============================================================================
