----------------------------- MODULE CronProofs -----------------------------
(***************************************************************************)
(* Proofs about the scheduler, for any jobs, schedules and limits.         *)
(*                                                                         *)
(* Structure says what the lock and the phases of a tick have to do with   *)
(* each other.  That nothing runs twice needs that all a tick has in hand, *)
(* and what goes on past its time, is marked in memory and in the file     *)
(* (Guarded), since every tick reads memory anew from the file; that the   *)
(* timer is set, that no enabled job waits for its next run to be computed *)
(* (Settled), since list and status would compute it and set no timer.     *)
(* That due jobs are kept is a fact of single steps and needs the types    *)
(* only.  That no marker stays behind needs that the file tells the truth  *)
(* of the tick (Honest).                                                   *)
(***************************************************************************)
EXTENDS Cron, TLAPS

Stores == [Jobs -> JobState \cup {Absent}]

-----------------------------------------------------------------------------
(* What the helpers return *)

LEMMA NextRunType ==
    ASSUME NEW j \in Jobs, NEW r \in JobState, NEW edge
    PROVE  NextRun(j, r, edge) \in {"none", "ahead", "past"}
BY DEF NextRun, JobState

LEMMA TidyType ==
    ASSUME NEW r \in JobState
    PROVE  /\ Tidy(r) \in JobState
           /\ Tidy(r).enabled = r.enabled
           /\ Tidy(r).when = r.when
           /\ Tidy(r).last = r.last
           /\ r.enabled => Tidy(r).next = r.next
           /\ ~r.enabled => Tidy(r).next = "none"
           /\ Tidy(r).mark = "no" /\ r.mark # "no" => ~r.enabled \/ r.mark = "old"
BY DEF Tidy, JobState

\* One job of a walk.
LEMMA WalkJob ==
    ASSUME NEW s \in Stores, NEW edge, NEW which, NEW j \in Jobs
    PROVE  /\ Walk(s, edge, which)[j] \in JobState \cup {Absent}
           /\ (Walk(s, edge, which)[j] = Absent) <=> (s[j] = Absent)
           /\ s[j] # Absent =>
                LET new == Walk(s, edge, which)[j]
                IN /\ new.enabled = s[j].enabled
                   /\ new.when = s[j].when
                   /\ new.last = s[j].last
                   /\ new.mark = "no" /\ s[j].mark # "no" => ~new.enabled \/ s[j].mark = "old"
                   /\ s[j].enabled /\ s[j].next \notin which => new.next = s[j].next
                   /\ s[j].enabled /\ s[j].next \in which =>
                        /\ new.next = NextRun(j, Tidy(s[j]), edge)
                        /\ new.next = "none" => j \in OneShot /\ new.last = "ok"
<1> DEFINE r == Tidy(s[j])
           new == Walk(s, edge, which)[j]
<1>1. new = IF s[j] = Absent THEN Absent
            ELSE IF r.enabled /\ r.next \in which
                 THEN [r EXCEPT !.next = NextRun(j, r, edge)] ELSE r
  BY DEF Walk
<1>2. CASE s[j] = Absent
  BY <1>1, <1>2
<1>3. CASE s[j] # Absent
  <2>1. s[j] \in JobState
    BY <1>3 DEF Stores
  <2>2. /\ r \in JobState
        /\ r.enabled = s[j].enabled
        /\ r.when = s[j].when
        /\ r.last = s[j].last
        /\ s[j].enabled => r.next = s[j].next
        /\ r.mark = "no" /\ s[j].mark # "no" => ~s[j].enabled \/ s[j].mark = "old"
    BY <2>1, TidyType
  <2> HIDE DEF r
  <2>3. NextRun(j, r, edge) \in {"none", "ahead", "past"}
    BY <2>2, NextRunType
  <2>4. NextRun(j, r, edge) = "none" => j \in OneShot /\ r.last = "ok"
    BY <2>2 DEF NextRun, JobState
  <2>5. CASE r.enabled /\ r.next \in which
    <3>1. new = [r EXCEPT !.next = NextRun(j, r, edge)]
      BY <1>1, <1>3, <2>5
    <3>2. /\ new \in JobState
          /\ new.enabled = r.enabled /\ new.when = r.when /\ new.last = r.last
          /\ new.mark = r.mark /\ new.next = NextRun(j, r, edge)
      BY <2>2, <2>3, <3>1 DEF JobState
    <3> QED
      BY <1>3, <2>2, <2>4, <2>5, <3>2, CronAssumption DEF r
  <2>6. CASE ~(r.enabled /\ r.next \in which)
    <3>1. new = r
      BY <1>1, <1>3, <2>6
    <3> QED
      BY <1>3, <2>2, <2>6, <3>1, CronAssumption DEF r
  <2> QED
    BY <2>5, <2>6
<1> QED
  BY <1>2, <1>3

LEMMA WalkType ==
    ASSUME NEW s \in Stores, NEW edge, NEW which
    PROVE  Walk(s, edge, which) \in Stores
<1>1. \A j \in Jobs : Walk(s, edge, which)[j] \in JobState \cup {Absent}
  BY WalkJob
<1>2. Walk(s, edge, which) = [j \in Jobs |-> Walk(s, edge, which)[j]]
  BY DEF Walk
<1> QED
  BY <1>1, <1>2 DEF Stores

LEMMA FinishType ==
    ASSUME NEW j \in Jobs, NEW r \in JobState, NEW outcome \in Outcomes, NEW edge
    PROVE  Finish(j, r, outcome, edge) \in JobState \cup {Absent}
<1>1. NextRun(j, r, edge) \in {"none", "ahead", "past"}
  BY NextRunType
<1> QED
  BY <1>1 DEF Finish, JobState, Outcomes

\* Marks are all that marking changes.
LEMMA MarkedJob ==
    ASSUME NEW s \in Stores, NEW js \in SUBSET Jobs, NEW j \in js, s[j] # Absent
    PROVE  LET new == Marked(s, js)[j]
           IN /\ new \in JobState
              /\ new # Absent
              /\ new.mark = "fresh"
              /\ new.enabled = s[j].enabled
              /\ new.when = s[j].when
              /\ new.next = s[j].next
              /\ new.last = s[j].last
<1>1. s[j] \in JobState
  BY DEF Stores
<1>2. Marked(s, js)[j] = [s[j] EXCEPT !.mark = "fresh"]
  BY DEF Marked
<1> QED
  BY <1>1, <1>2, CronAssumption DEF JobState

LEMMA MarkedType ==
    ASSUME NEW s \in Stores, NEW js \in SUBSET Jobs, \A j \in js : s[j] # Absent
    PROVE  /\ Marked(s, js) \in Stores
           /\ \A j \in Jobs : j \notin js => Marked(s, js)[j] = s[j]
           /\ \A j \in Jobs : Marked(s, js)[j] = Absent <=> s[j] = Absent
<1>1. \A j \in js : Marked(s, js)[j] \in JobState /\ Marked(s, js)[j] # Absent
  BY MarkedJob
<1>2. \A j \in Jobs : j \notin js => Marked(s, js)[j] = s[j]
  BY DEF Marked
<1>3. \A j \in Jobs : Marked(s, js)[j] \in JobState \cup {Absent}
  BY <1>1, <1>2 DEF Stores
<1>4. Marked(s, js) = [j \in Jobs |-> Marked(s, js)[j]]
  BY DEF Marked
<1> QED
  BY <1>1, <1>2, <1>3, <1>4 DEF Stores

LEMMA LaterJob ==
    ASSUME NEW j \in Jobs, NEW r \in JobState \cup {Absent}
    PROVE  /\ Later(j, r) \in JobState \cup {Absent}
           /\ Later(j, r) = Absent <=> r = Absent
           /\ r # Absent => /\ Later(j, r).enabled = r.enabled
                            /\ Later(j, r).mark = r.mark
                            /\ Later(j, r).last = r.last
                            /\ Later(j, r).next = IF r.next = "ahead" THEN "past" ELSE r.next
                            /\ Later(j, r).when = IF j \in OneShot THEN "past" ELSE r.when
BY CronAssumption DEF Later, JobState

LEMMA AgedJob ==
    ASSUME NEW r \in JobState \cup {Absent}
    PROVE  /\ Aged(r) \in JobState \cup {Absent}
           /\ Aged(r) = Absent <=> r = Absent
           /\ r # Absent => /\ Aged(r).enabled = r.enabled
                            /\ Aged(r).mark = "no" => r.mark = "no"
                            /\ Aged(r).last = r.last
                            /\ Aged(r).next = r.next
                            /\ Aged(r).when = r.when
BY CronAssumption DEF Aged, JobState

LEMMA PersistStep ==
    ASSUME disk \in Stores, faults \in Nat, NEW ok \in BOOLEAN, NEW s \in Stores, Persist(ok, s)
    PROVE  /\ disk' \in Stores
           /\ faults' \in Nat
           /\ faults' = 0 => faults = 0 /\ ok /\ disk' = s
<1>1. CASE ok
  BY <1>1 DEF Persist
<1>2. CASE ~ok
  BY <1>2 DEF Persist
<1> QED
  BY <1>1, <1>2

LEMMA WatchStep == ASSUME Watch PROVE unguarded' \in SUBSET Jobs
BY DEF Watch, Lifted

-----------------------------------------------------------------------------
(* Types, and what holds the lock *)

Structure ==
    /\ boot \in {"down", "starting"} => phase = "idle" /\ ~timer /\ overtime = {}
    /\ boot = "down" => current = None
    /\ phase # "running" => \A j \in Jobs : exec[j] = "no"
    /\ missed # {} => boot = "starting"
    /\ \A j \in missed : store[j] # Absent /\ j # current
    /\ current # None => store[current] # Absent

Typed == TypeOK /\ Structure

\* Nothing in the store, nothing in hand.
LEMMA Empty ==
    /\ [j \in Jobs |-> Absent] \in Stores
    /\ [j \in Jobs |-> "no"] \in [Jobs -> {"no"} \cup InHand \cup Outcomes]
<1>1. [j \in Jobs |-> Absent] \in Stores
  BY DEF Stores
<1>2. [j \in Jobs |-> "no"] \in [Jobs -> {"no"} \cup InHand \cup Outcomes]
  OBVIOUS
<1> QED
  BY <1>1, <1>2

LEMMA InitTyped == Init => Typed
<1> SUFFICES ASSUME Init PROVE Typed
  OBVIOUS
<1>1. TypeOK
  <2> HIDE DEF Stores
  <2>1. disk \in Stores /\ store \in Stores /\ exec \in [Jobs -> {"no"} \cup InHand \cup Outcomes]
    BY Empty DEF Init
  <2>2. /\ timer \in BOOLEAN /\ phase = "idle" /\ boot = "down"
        /\ missed = {} /\ current = None /\ crashes = 0 /\ faults = 0 /\ unguarded = {}
        /\ overtime = {}
    BY DEF Init
  <2> QED
    BY <2>1, <2>2 DEF TypeOK, Stores
<1>2. Structure
  BY DEF Init, Structure
<1> QED
  BY <1>1, <1>2 DEF Typed

\* A step that leaves lock, tick and start-up alone and writes a store of the
\* right type that keeps the jobs the lock needs.
LEMMA QuietTyped ==
    ASSUME Typed, store' \in Stores, disk' \in Stores, faults' \in Nat, timer' \in BOOLEAN,
           boot \in {"up", "failed"}, UNCHANGED <<phase, exec, overtime, boot, missed, current, crashes>>,
           current # None => store'[current] # Absent, Watch
    PROVE  Typed'
<1>1. missed = {}
  BY DEF Typed, Structure
<1>2. unguarded' \in SUBSET Jobs
  BY WatchStep
<1> QED
  BY <1>1, <1>2 DEF Typed, TypeOK, Structure, Stores

LEMMA StartTyped == ASSUME Typed, Start PROVE Typed'
<1> USE DEF Typed, TypeOK, Structure
<1>1. store' \in Stores
  BY DEF Start, Stores, JobState
<1>2. \A j \in missed' : store'[j] # Absent
  BY CronAssumption DEF Start, Runnable, JobState
<1>3. unguarded' \in SUBSET Jobs
  BY WatchStep DEF Start
<1> QED
  BY <1>1, <1>2, <1>3, CronAssumption DEF Start, Stores

LEMMA StartFailsTyped == ASSUME Typed, StartFails PROVE Typed'
<1> USE DEF Typed, TypeOK, Structure
<1>1. /\ disk' \in Stores
      /\ faults' \in Nat
  BY PersistStep DEF StartFails, Stores
<1>2. unguarded' \in SUBSET Jobs
  BY WatchStep DEF StartFails
<1> QED
  BY <1>1, <1>2 DEF StartFails, Stores

LEMMA CatchUpTyped == ASSUME Typed, NEW j \in Jobs, CatchUp(j) PROVE Typed'
<1> USE DEF Typed, TypeOK, Structure
<1>1. store' \in Stores /\ \A k \in Jobs : store[k] # Absent => store'[k] # Absent
  <2>1. store \in Stores /\ {j} \in SUBSET Jobs /\ \A k \in {j} : store[k] # Absent
    BY DEF CatchUp, Stores
  <2>2. store' = Marked(store, {j})
    BY DEF CatchUp
  <2> HIDE DEF Typed, TypeOK, Structure
  <2> DEFINE js == {j}
  <2>3. js \in SUBSET Jobs /\ \A k \in js : store[k] # Absent
    BY <2>1
  <2> HIDE DEF js
  <2>4. /\ Marked(store, js) \in Stores
        /\ \A k \in Jobs : store[k] # Absent => Marked(store, js)[k] # Absent
    BY <2>1, <2>3, MarkedType
  <2> QED
    BY <2>2, <2>4 DEF js
<1>2. unguarded' \in SUBSET Jobs
  BY WatchStep DEF CatchUp
<1> QED
  BY <1>1, <1>2 DEF CatchUp, Stores

LEMMA CaughtUpTyped ==
    ASSUME Typed, NEW outcome \in Outcomes, NEW edge, CaughtUp(outcome, edge)
    PROVE  Typed'
<1> USE DEF Typed, TypeOK, Structure
<1>1. store[current] \in JobState /\ current \in Jobs
  BY DEF CaughtUp
<1>2. Finish(current, store[current], outcome, edge) \in JobState \cup {Absent}
  BY <1>1, FinishType
<1>3. store' \in Stores /\ \A k \in Jobs : k # current => store'[k] = store[k]
  BY <1>1, <1>2 DEF CaughtUp, Stores
<1>4. unguarded' \in SUBSET Jobs
  BY WatchStep DEF CaughtUp
<1> QED
  BY <1>3, <1>4, CronAssumption DEF CaughtUp, Stores

LEMMA StartEndsTyped ==
    ASSUME Typed, NEW edge, NEW ok \in BOOLEAN, StartEnds(edge, ok)
    PROVE  Typed'
<1> USE DEF Typed, TypeOK, Structure
<1>1. store' \in Stores
  BY WalkType DEF StartEnds, RecomputeNextRuns, Stores
<1>2. /\ disk' \in Stores
      /\ faults' \in Nat
  BY <1>1, PersistStep DEF StartEnds, Stores
<1>3. unguarded' \in SUBSET Jobs
  BY WatchStep DEF StartEnds
<1>4. timer' \in BOOLEAN
  BY DEF StartEnds, Armed
<1> QED
  BY <1>1, <1>2, <1>3, <1>4 DEF StartEnds, Stores

LEMMA CrashTyped == ASSUME Typed, Crash PROVE Typed'
<1>1. unguarded' \in SUBSET Jobs
  BY WatchStep DEF Crash
<1>2. TypeOK'
  <2>1. store' \in Stores /\ exec' \in [Jobs -> {"no"} \cup InHand \cup Outcomes]
    BY Empty DEF Crash
  <2>2. /\ disk' \in Stores /\ crashes' \in Nat /\ faults' \in Nat
        /\ timer' \in BOOLEAN /\ phase' = "idle" /\ boot' = "down"
        /\ missed' = {} /\ current' = None /\ overtime' = {}
    <3>1. disk \in Stores /\ crashes \in Nat /\ faults \in Nat
      BY DEF Typed, TypeOK, Stores
    <3>2. disk' = disk /\ crashes' = crashes + 1 /\ faults' = faults
      BY DEF Crash
    <3>3. /\ timer' \in BOOLEAN /\ phase' = "idle" /\ boot' = "down"
          /\ missed' = {} /\ current' = None /\ overtime' = {}
      BY DEF Crash
    <3>4. crashes + 1 \in Nat
      BY <3>1
    <3> QED
      BY <3>1, <3>2, <3>3, <3>4
  <2> QED
    BY <1>1, <2>1, <2>2 DEF TypeOK, Stores
<1>3. Structure'
  BY CronAssumption DEF Crash, Structure
<1> QED
  BY <1>2, <1>3 DEF Typed

LEMMA TimerFiresTyped == ASSUME Typed, TimerFires PROVE Typed'
<1>1. unguarded' \in SUBSET Jobs
  BY WatchStep DEF TimerFires
<1> QED
  BY <1>1 DEF TimerFires, Typed, TypeOK, Structure

\* The three ways in which a tick ends.
LEMMA TickEndsTyped ==
    ASSUME Typed, store' \in Stores, disk' \in Stores, faults' \in Nat, LockFree, TickEnds,
           \A j \in Jobs : exec'[j] = "no", exec' \in [Jobs -> {"no"} \cup InHand \cup Outcomes],
           UNCHANGED <<overtime, boot, missed, current, crashes>>, Watch
    PROVE  Typed'
<1>1. missed = {} /\ current = None /\ boot \in {"up", "failed"}
  BY DEF Typed, Structure, LockFree
<1>2. unguarded' \in SUBSET Jobs
  BY WatchStep
<1>3. timer' \in BOOLEAN
  BY DEF TickEnds, Armed
<1> QED
  BY <1>1, <1>2, <1>3 DEF Typed, TypeOK, Structure, Stores, TickEnds

LEMMA FindTyped == ASSUME Typed, Find PROVE Typed'
<1> USE DEF Typed, TypeOK, Structure
<1>1. ASSUME NEW edge \in Edges, NEW ok \in BOOLEAN, FindNothing(edge, ok) PROVE Typed'
  <2>1. store' \in Stores
    BY <1>1, WalkType DEF FindNothing, RecomputeForMaintenance, Stores
  <2>2. disk' \in Stores /\ faults' \in Nat
    BY <1>1, <2>1, PersistStep DEF FindNothing, Stores
  <2> QED
    BY <1>1, <2>1, <2>2, TickEndsTyped DEF FindNothing
<1>2. ASSUME FindDue PROVE Typed'
  <2> DEFINE due == {j \in Jobs : Runnable(disk, j)}
  <2>1. disk \in Stores /\ due \in SUBSET Jobs /\ \A j \in due : disk[j] # Absent
    BY DEF Runnable, Stores
  <2>2. store' = Marked(disk, due)
    BY <1>2 DEF FindDue
  <2>3. store' \in Stores
    BY <2>1, <2>2, MarkedType
  <2>4. disk' \in Stores /\ faults' \in Nat
    BY <1>2, <2>1, <2>3, PersistStep DEF FindDue
  <2>5. unguarded' \in SUBSET Jobs
    BY <1>2, WatchStep DEF FindDue
  <2>6. missed = {} /\ current = None /\ boot \in {"up", "failed"}
    BY <1>2 DEF FindDue, LockFree
  <2>7. exec' \in [Jobs -> {"no"} \cup InHand \cup Outcomes]
    BY <1>2 DEF FindDue, InHand
  <2> QED
    BY <1>2, <2>3, <2>4, <2>5, <2>6, <2>7 DEF FindDue, Stores
<1>3. ASSUME NEW marked \in BOOLEAN, FindFails(marked) PROVE Typed'
  <2> DEFINE due == {j \in Jobs : Runnable(disk, j)}
  <2>1. disk \in Stores /\ due \in SUBSET Jobs /\ \A j \in due : disk[j] # Absent
    BY DEF Runnable, Stores
  <2>2. store' = IF marked THEN Marked(disk, due) ELSE disk
    BY <1>3 DEF FindFails
  <2>3. store' \in Stores
    BY <2>1, <2>2, MarkedType
  <2>4. disk' \in Stores /\ faults' \in Nat
    BY <1>3, <2>1, <2>3, PersistStep DEF FindFails
  <2>5. exec' = exec /\ \A j \in Jobs : exec[j] = "no"
    BY <1>3 DEF FindFails
  <2> QED
    BY <1>3, <2>3, <2>4, <2>5, TickEndsTyped DEF FindFails
<1> QED
  BY <1>1, <1>2, <1>3 DEF Find

LEMMA ExecuteTyped == ASSUME Typed, Execute PROVE Typed'
<1>1. ASSUME NEW j \in Jobs, RunDueJob(j) PROVE Typed'
  <2> DEFINE js == {j}
  <2>1. store \in Stores /\ js \in SUBSET Jobs /\ phase = "running" /\ missed = {}
    BY <1>1 DEF RunDueJob, Typed, TypeOK, Structure, Stores
  <2>2. store' = IF store[j] = Absent THEN store ELSE Marked(store, js)
    BY <1>1 DEF RunDueJob
  <2>3. store[j] # Absent => \A k \in js : store[k] # Absent
    OBVIOUS
  <2> HIDE DEF js
  <2>4. store' \in Stores /\ \A k \in Jobs : store[k] # Absent => store'[k] # Absent
    BY <2>1, <2>2, <2>3, MarkedType
  <2>5. unguarded' \in SUBSET Jobs
    BY <1>1, WatchStep DEF RunDueJob
  <2>6. exec' \in [Jobs -> {"no"} \cup InHand \cup Outcomes]
    BY <1>1 DEF RunDueJob, InHand, Typed, TypeOK
  <2>7. UNCHANGED <<disk, timer, phase, overtime, boot, missed, current, crashes, faults>>
    BY <1>1 DEF RunDueJob
  <2>8. TypeOK'
    BY <2>4, <2>5, <2>6, <2>7 DEF Typed, TypeOK, Stores
  <2>9. Structure'
    BY <2>1, <2>4, <2>7 DEF Typed, TypeOK, Structure
  <2> QED
    BY <2>8, <2>9 DEF Typed
<1>2. ASSUME NEW j \in Jobs, NEW outcome \in Outcomes, DueJobEnds(j, outcome) PROVE Typed'
  <2>1. phase = "running"
    BY <1>2 DEF DueJobEnds, Typed, TypeOK, Structure
  <2>2. exec' \in [Jobs -> {"no"} \cup InHand \cup Outcomes]
    BY <1>2 DEF DueJobEnds, Typed, TypeOK
  <2>3. unguarded' \in SUBSET Jobs
    BY <1>2, WatchStep DEF DueJobEnds
  <2>4. UNCHANGED <<disk, store, timer, phase, overtime, boot, missed, current, crashes, faults>>
    BY <1>2 DEF DueJobEnds
  <2> QED
    BY <2>1, <2>2, <2>3, <2>4 DEF Typed, TypeOK, Structure
<1>3. ASSUME NEW j \in Jobs, DueJobTimesOut(j) PROVE Typed'
  <2>1. phase = "running" /\ boot \notin {"down", "starting"}
    BY <1>3 DEF DueJobTimesOut, Typed, TypeOK, Structure
  <2>2. /\ exec' \in [Jobs -> {"no"} \cup InHand \cup Outcomes]
        /\ overtime' \subseteq Jobs
    BY <1>3 DEF DueJobTimesOut, Typed, TypeOK, Outcomes
  <2>3. unguarded' \in SUBSET Jobs
    BY <1>3, WatchStep DEF DueJobTimesOut
  <2>4. UNCHANGED <<disk, store, timer, phase, boot, missed, current, crashes, faults>>
    BY <1>3 DEF DueJobTimesOut
  <2> QED
    BY <2>1, <2>2, <2>3, <2>4 DEF Typed, TypeOK, Structure
<1>4. ASSUME NEW j \in Jobs, OvertimeEnds(j) PROVE Typed'
  <2>1. overtime' \subseteq overtime
    BY <1>4 DEF OvertimeEnds
  <2>2. unguarded' \in SUBSET Jobs
    BY <1>4, WatchStep DEF OvertimeEnds
  <2>3. UNCHANGED <<disk, store, timer, phase, exec, boot, missed, current, crashes, faults>>
    BY <1>4 DEF OvertimeEnds
  <2> QED
    BY <2>1, <2>2, <2>3 DEF Typed, TypeOK, Structure
<1> QED
  BY <1>1, <1>2, <1>3, <1>4 DEF Execute

\* What ApplyResults computes before its maintenance.
Applied(edge) == [j \in Jobs |->
    IF exec[j] \in Outcomes /\ disk[j] # Absent
    THEN Finish(j, disk[j], exec[j], edge) ELSE disk[j]]

LEMMA AppliedType == ASSUME Typed, NEW edge PROVE Applied(edge) \in Stores
<1>1. disk \in Stores
  BY DEF Typed, TypeOK, Stores
<1>2. ASSUME NEW j \in Jobs, exec[j] \in Outcomes, disk[j] # Absent
      PROVE  Finish(j, disk[j], exec[j], edge) \in JobState \cup {Absent}
  BY <1>1, <1>2, FinishType DEF Stores
<1> QED
  BY <1>1, <1>2 DEF Applied, Stores

LEMMA ApplyTyped == ASSUME Typed, Apply PROVE Typed'
<1>1. ASSUME NEW edge \in Edges, NEW ok \in BOOLEAN, ApplyResults(edge, ok) PROVE Typed'
  <2>1. store' = Walk(Applied(edge), edge, {"none"})
    BY <1>1 DEF ApplyResults, RecomputeForMaintenance, Applied
  <2>2. store' \in Stores
    BY <2>1, AppliedType, WalkType
  <2>3. disk' \in Stores /\ faults' \in Nat
    BY <1>1, <2>2, PersistStep DEF ApplyResults, Typed, TypeOK, Stores
  <2>4. /\ \A j \in Jobs : exec'[j] = "no"
        /\ exec' \in [Jobs -> {"no"} \cup InHand \cup Outcomes]
    BY <1>1, Empty DEF ApplyResults
  <2> QED
    BY <1>1, <2>2, <2>3, <2>4, TickEndsTyped DEF ApplyResults
<1>2. ASSUME LoseResults PROVE Typed'
  <2>1. store' \in Stores
    BY <1>2 DEF LoseResults, Typed, TypeOK, Stores
  <2>2. disk' \in Stores /\ faults' \in Nat
    BY <1>2, <2>1, PersistStep DEF LoseResults, Typed, TypeOK, Stores
  <2>3. /\ \A j \in Jobs : exec'[j] = "no"
        /\ exec' \in [Jobs -> {"no"} \cup InHand \cup Outcomes]
    BY <1>2, Empty DEF LoseResults
  <2> QED
    BY <1>2, <2>1, <2>2, <2>3, TickEndsTyped DEF LoseResults
<1> QED
  BY <1>1, <1>2 DEF Apply

\* An operation that is not a run: what it commits is all that matters.
LEMMA CommitTyped ==
    ASSUME Typed, NEW s \in Stores, NEW ok \in BOOLEAN, Commit(s, ok), UNCHANGED current
    PROVE  Typed'
<1>1. store' \in Stores /\ store' = s
  BY DEF Commit
<1>2. disk' \in Stores /\ faults' \in Nat
  BY PersistStep DEF Commit, Typed, TypeOK, Stores
<1>3. timer' \in BOOLEAN
  <2>1. CASE ok
    BY <2>1 DEF Commit, Armed
  <2>2. CASE ~ok
    BY <2>2 DEF Commit, Typed, TypeOK
  <2> QED
    BY <2>1, <2>2
<1>4. boot \in {"up", "failed"} /\ current = None
  BY DEF Commit, LockFree
<1> QED
  BY <1>1, <1>2, <1>3, <1>4, QuietTyped DEF Commit

LEMMA AddTyped ==
    ASSUME Typed, NEW j \in Jobs, NEW enabled \in BOOLEAN, NEW when \in Timed(j), NEW edge,
           NEW ok \in BOOLEAN, Add(j, enabled, when, edge, ok)
    PROVE  Typed'
<1> DEFINE new == [enabled |-> enabled, when |-> when, next |-> "none", mark |-> "no", last |-> "none"]
           job == [new EXCEPT !.next = IF enabled THEN NextRun(j, new, edge) ELSE "none"]
           s == [store EXCEPT ![j] = job]
<1>1. new \in JobState
  BY DEF JobState, Timed
<1>2. NextRun(j, new, edge) \in {"none", "ahead", "past"}
  BY <1>1, NextRunType
<1>3. job \in JobState
  BY <1>1, <1>2 DEF JobState
<1> HIDE DEF job
<1>4. s \in Stores
  BY <1>3 DEF Typed, TypeOK, Stores
<1>5. Commit(RecomputeNextRuns(s, edge), ok) /\ UNCHANGED current
  BY DEF Add, job
<1> HIDE DEF s
<1>6. RecomputeNextRuns(s, edge) \in Stores
  BY <1>4, WalkType DEF RecomputeNextRuns
<1> QED
  BY <1>5, <1>6, CommitTyped

\* A job of the store stays one when its schedule, its switch or its next run change.
LEMMA ChangedJob ==
    ASSUME NEW r \in JobState, NEW enabled \in BOOLEAN, NEW when \in {"ahead", "past"},
           NEW next \in {"none", "ahead", "past"}
    PROVE  /\ [r EXCEPT !.enabled = enabled, !.when = when] \in JobState
           /\ [r EXCEPT !.next = next] \in JobState
           /\ [r EXCEPT !.next = "none", !.mark = "no"] \in JobState
BY DEF JobState

LEMMA RescheduleTyped ==
    ASSUME Typed, NEW j \in Jobs, NEW enabled \in BOOLEAN, NEW when \in Timed(j), NEW edge,
           NEW ok \in BOOLEAN, Reschedule(j, enabled, when, edge, ok)
    PROVE  Typed'
<1> DEFINE r == [store[j] EXCEPT !.enabled = enabled, !.when = when]
           new == IF enabled THEN [r EXCEPT !.next = NextRun(j, r, edge)]
                  ELSE [r EXCEPT !.next = "none", !.mark = "no"]
           s == [store EXCEPT ![j] = new]
<1>1. store \in Stores /\ store[j] \in JobState /\ when \in {"ahead", "past"}
  BY DEF Reschedule, Present, Typed, TypeOK, Stores, Timed
<1>2. r \in JobState
  BY <1>1, ChangedJob
<1>3. Commit(s, ok) /\ UNCHANGED current
  BY DEF Reschedule
<1> HIDE DEF r
<1>4. NextRun(j, r, edge) \in {"none", "ahead", "past"}
  BY <1>2, NextRunType
<1>5. new \in JobState
  BY <1>2, <1>4, ChangedJob
<1> HIDE DEF new
<1>6. s \in Stores
  BY <1>1, <1>5 DEF Stores
<1> QED
  BY <1>3, <1>6, CommitTyped

LEMMA EditTyped ==
    ASSUME Typed, NEW j \in Jobs, NEW edge, NEW ok \in BOOLEAN, Edit(j, edge, ok)
    PROVE  Typed'
<1> DEFINE r == store[j]
           new == [r EXCEPT !.next = NextRun(j, r, edge)]
           s == IF r.enabled /\ r.next = "none" THEN [store EXCEPT ![j] = new] ELSE store
<1>1. store \in Stores /\ r \in JobState
  BY DEF Edit, Present, Typed, TypeOK, Stores
<1>2. NextRun(j, r, edge) \in {"none", "ahead", "past"}
  BY <1>1, NextRunType
<1>3. new \in JobState
  BY <1>1, <1>2, ChangedJob
<1>4. [store EXCEPT ![j].next = NextRun(j, r, edge)] = [store EXCEPT ![j] = new]
  BY <1>1 DEF Stores
<1>5. Commit(s, ok) /\ UNCHANGED current
  BY <1>4 DEF Edit
<1> HIDE DEF new
<1>6. s \in Stores
  BY <1>1, <1>3 DEF Stores
<1> QED
  BY <1>5, <1>6, CommitTyped

LEMMA EditRefusedTyped ==
    ASSUME Typed, NEW j \in Jobs, NEW enabled \in BOOLEAN, NEW when \in Timed(j),
           EditRefused(j, enabled, when)
    PROVE  Typed'
<1> DEFINE r == [store[j] EXCEPT !.enabled = enabled, !.when = when]
<1>1. store \in Stores /\ store[j] \in JobState /\ when \in {"ahead", "past"}
  BY DEF EditRefused, Present, Typed, TypeOK, Stores, Timed
<1>2. r \in JobState
  BY <1>1, ChangedJob
<1>3. store' = [store EXCEPT ![j] = r]
  BY <1>1 DEF EditRefused, Stores
<1> HIDE DEF r
<1>4. store' \in Stores
  BY <1>1, <1>2, <1>3 DEF Stores
<1>5. disk' \in Stores /\ faults' \in Nat
  BY <1>4, PersistStep DEF EditRefused, Typed, TypeOK, Stores
<1>6. boot \in {"up", "failed"} /\ current = None /\ timer' \in BOOLEAN
  BY DEF EditRefused, LockFree, Typed, TypeOK
<1> QED
  BY <1>4, <1>5, <1>6, QuietTyped DEF EditRefused

LEMMA RemoveTyped ==
    ASSUME Typed, NEW j \in Jobs, NEW ok \in BOOLEAN, Remove(j, ok)
    PROVE  Typed'
<1>1. [store EXCEPT ![j] = Absent] \in Stores
  BY DEF Typed, TypeOK, Stores
<1> QED
  BY <1>1, CommitTyped DEF Remove

LEMMA ReadTyped ==
    ASSUME Typed, NEW edge, NEW ok \in BOOLEAN, Read(edge, ok)
    PROVE  Typed'
<1>1. store' \in Stores
  BY WalkType DEF Read, RecomputeForMaintenance, Typed, TypeOK, Stores
<1>2. disk' \in Stores /\ faults' \in Nat
  BY <1>1, PersistStep DEF Read, Typed, TypeOK, Stores
<1>3. boot \in {"up", "failed"} /\ current = None /\ timer' \in BOOLEAN
  BY DEF Read, LockFree, Typed, TypeOK
<1> QED
  BY <1>1, <1>2, <1>3, QuietTyped DEF Read

LEMMA RunTyped ==
    ASSUME Typed, NEW j \in Jobs, NEW force \in BOOLEAN, Run(j, force)
    PROVE  Typed'
<1> DEFINE js == {j}
<1>1. store \in Stores /\ js \in SUBSET Jobs /\ store[j] # Absent /\ missed = {}
  BY DEF Run, Present, LockFree, Typed, TypeOK, Structure, Stores
<1>2. store' = Marked(store, js) /\ \A k \in js : store[k] # Absent
  BY <1>1 DEF Run
<1> HIDE DEF js
<1>3. store' \in Stores /\ \A k \in Jobs : store[k] # Absent => store'[k] # Absent
  BY <1>1, <1>2, MarkedType
<1>4. unguarded' \in SUBSET Jobs
  BY WatchStep DEF Run
<1>5. /\ current' = j /\ boot \in {"up", "failed"}
      /\ UNCHANGED <<disk, timer, phase, exec, overtime, boot, missed, crashes, faults>>
  BY DEF Run, LockFree
<1>6. TypeOK'
  BY <1>3, <1>4, <1>5 DEF Typed, TypeOK, Stores
<1>7. Structure'
  BY <1>1, <1>3, <1>5 DEF Typed, TypeOK, Structure
<1> QED
  BY <1>6, <1>7 DEF Typed

LEMMA RunEndsTyped ==
    ASSUME Typed, NEW outcome \in Outcomes, NEW edge, NEW ok \in BOOLEAN,
           RunEnds(outcome, edge, ok)
    PROVE  Typed'
<1> DEFINE s == [store EXCEPT ![current] = Finish(current, @, outcome, edge)]
<1>1. store \in Stores /\ current \in Jobs /\ store[current] \in JobState /\ missed = {}
  BY DEF RunEnds, Typed, TypeOK, Structure, Stores
<1>2. Finish(current, store[current], outcome, edge) \in JobState \cup {Absent}
  BY <1>1, FinishType
<1>3. s \in Stores
  BY <1>1, <1>2 DEF Stores
<1>4. store' = RecomputeNextRuns(s, edge) /\ Persist(ok, store')
  BY DEF RunEnds
<1> HIDE DEF s
<1>5. store' \in Stores
  BY <1>3, <1>4, WalkType DEF RecomputeNextRuns
<1>6. disk' \in Stores /\ faults' \in Nat
  BY <1>4, <1>5, PersistStep DEF Typed, TypeOK, Stores
<1>7. timer' \in BOOLEAN
  <2>1. CASE ok
    BY <2>1 DEF RunEnds, Armed
  <2>2. CASE ~ok
    BY <2>2 DEF RunEnds, Typed, TypeOK
  <2> QED
    BY <2>1, <2>2
<1>8. unguarded' \in SUBSET Jobs
  BY WatchStep DEF RunEnds
<1>9. /\ current' = None /\ boot \in {"up", "failed"}
      /\ UNCHANGED <<phase, exec, overtime, boot, missed, crashes>>
  BY DEF RunEnds
<1>10. TypeOK'
  BY <1>5, <1>6, <1>7, <1>8, <1>9 DEF Typed, TypeOK, Stores
<1>11. Structure'
  BY <1>1, <1>9 DEF Typed, TypeOK, Structure
<1> QED
  BY <1>10, <1>11 DEF Typed

\* Time passes for one job, in memory and in the file.
LEMMA ClockTyped == ASSUME Typed, Clock PROVE Typed'
<1>1. /\ store' \in Stores /\ disk' \in Stores
      /\ \A k \in Jobs : store[k] # Absent => store'[k] # Absent
      /\ UNCHANGED <<timer, phase, exec, overtime, boot, missed, current, crashes, faults>>
      /\ Watch
  <2>1. disk \in Stores /\ store \in Stores
    BY DEF Typed, TypeOK, Stores
  <2>2. ASSUME NEW j \in Jobs, Elapse(j) PROVE <1>1!:
    <3>1. /\ Later(j, disk[j]) \in JobState \cup {Absent}
          /\ Later(j, store[j]) \in JobState \cup {Absent}
          /\ Later(j, store[j]) = Absent <=> store[j] = Absent
      BY <2>1, LaterJob DEF Stores
    <3>2. /\ disk' = [disk EXCEPT ![j] = Later(j, disk[j])]
          /\ store' = [store EXCEPT ![j] = Later(j, store[j])]
          /\ UNCHANGED <<timer, phase, exec, overtime, boot, missed, current, crashes, faults>>
          /\ Watch
      BY <2>2 DEF Elapse
    <3> QED
      BY <2>1, <3>1, <3>2 DEF Stores
  <2>3. ASSUME NEW j \in Jobs, MarkAges(j) PROVE <1>1!:
    <3>1. /\ Aged(disk[j]) \in JobState \cup {Absent}
          /\ Aged(store[j]) \in JobState \cup {Absent}
          /\ Aged(store[j]) = Absent <=> store[j] = Absent
      BY <2>1, AgedJob DEF Stores
    <3>2. /\ disk' = [disk EXCEPT ![j] = Aged(disk[j])]
          /\ store' = [store EXCEPT ![j] = Aged(store[j])]
          /\ UNCHANGED <<timer, phase, exec, overtime, boot, missed, current, crashes, faults>>
          /\ Watch
      BY <2>3 DEF MarkAges
    <3> QED
      BY <2>1, <3>1, <3>2 DEF Stores
  <2> QED
    BY <2>2, <2>3 DEF Clock
<1>2. unguarded' \in SUBSET Jobs
  BY <1>1, WatchStep
<1>3. TypeOK'
  BY <1>1, <1>2 DEF Typed, TypeOK, Stores
<1>4. Structure'
  BY <1>1 DEF Typed, TypeOK, Structure
<1> QED
  BY <1>3, <1>4 DEF Typed

LEMMA NextTyped == ASSUME Typed, [Next]_vars PROVE Typed'
<1>1. CASE Boot
  BY <1>1, StartTyped, StartFailsTyped, CatchUpTyped, CaughtUpTyped, StartEndsTyped DEF Boot
<1>2. CASE Tick
  BY <1>2, TimerFiresTyped, FindTyped, ExecuteTyped, ApplyTyped DEF Tick
<1>3. CASE Operation
  <2>1. ASSUME NEW j \in Jobs, ChangeOf(j) PROVE Typed'
    BY <2>1, RescheduleTyped, EditTyped, EditRefusedTyped, RemoveTyped, RunTyped DEF ChangeOf
  <2> QED
    BY <1>3, <2>1, AddTyped, ReadTyped, RunEndsTyped DEF Operation, RunReturns
<1>4. CASE Clock
  BY <1>4, ClockTyped
<1>5. CASE Crash
  BY <1>5, CrashTyped
<1>6. CASE UNCHANGED vars
  BY <1>6 DEF vars, Typed, TypeOK, Structure
<1> QED
  BY <1>1, <1>2, <1>3, <1>4, <1>5, <1>6 DEF Next

LEMMA AlwaysTyped == Spec => []Typed
BY InitTyped, NextTyped, PTL DEF Spec

\* The scheduler's state is well formed, whatever fails and whenever it ends:
\* every job in memory or in the file has a schedule, a switch, a next run and a
\* marker the code can give it.
THEOREM TypeCorrect == Spec => []TypeOK
BY AlwaysTyped, PTL DEF Typed

-----------------------------------------------------------------------------
(* Due jobs are left alone *)

\* The maintenance of a tick or a read computes no run anew.
LEMMA MaintenanceKeeps ==
    ASSUME NEW s \in Stores, NEW edge, NEW j \in Jobs, s[j] # Absent, s[j].enabled,
           s[j].next = "past"
    PROVE  RecomputeForMaintenance(s, edge)[j].next = "past"
BY WalkJob DEF RecomputeForMaintenance

\* Nor does marking.
LEMMA MarkingKeeps ==
    ASSUME NEW s \in Stores, NEW js \in SUBSET Jobs, NEW j \in Jobs, s[j] # Absent
    PROVE  Marked(s, js)[j].next = s[j].next
<1>1. CASE j \in js
  BY <1>1, MarkedJob
<1>2. CASE j \notin js
  BY <1>2 DEF Marked
<1> QED
  BY <1>1, <1>2

LEMMA TickKeeps ==
    ASSUME Typed, NEW j \in Jobs, Due(j), exec[j] \notin Outcomes, Tick
    PROVE  store'[j].next = "past"
<1>1. /\ disk \in Stores /\ store \in Stores
      /\ disk[j] # Absent /\ disk[j].enabled /\ disk[j].next = "past"
      /\ store[j] # Absent /\ store[j].enabled /\ store[j].next = "past"
  BY DEF Typed, TypeOK, Stores, Due, Runnable
<1>2. CASE TimerFires
  BY <1>1, <1>2 DEF TimerFires
<1>3. CASE Find
  <2> DEFINE due == {k \in Jobs : Runnable(disk, k)}
  <2>1. due \in SUBSET Jobs
    OBVIOUS
  <2>2. ASSUME NEW edge \in Edges, NEW ok \in BOOLEAN, FindNothing(edge, ok)
        PROVE  store'[j].next = "past"
    BY <1>1, <2>2, MaintenanceKeeps DEF FindNothing
  <2>3. CASE FindDue
    <3>1. store' = Marked(disk, due)
      BY <2>3 DEF FindDue
    <3> HIDE DEF due
    <3> QED
      BY <1>1, <2>1, <3>1, MarkingKeeps
  <2>4. ASSUME NEW marked \in BOOLEAN, FindFails(marked)
        PROVE  store'[j].next = "past"
    <3>1. store' = IF marked THEN Marked(disk, due) ELSE disk
      BY <2>4 DEF FindFails
    <3> HIDE DEF due
    <3> QED
      BY <1>1, <2>1, <3>1, MarkingKeeps
  <2> QED
    BY <1>3, <2>2, <2>3, <2>4 DEF Find
<1>4. CASE Execute
  <2>1. ASSUME NEW k \in Jobs, RunDueJob(k)
        PROVE  store'[j].next = "past"
    <3> DEFINE js == {k}
    <3>1. js \in SUBSET Jobs /\ store' = IF store[k] = Absent THEN store ELSE Marked(store, js)
      BY <2>1 DEF RunDueJob
    <3> HIDE DEF js
    <3> QED
      BY <1>1, <3>1, MarkingKeeps
  <2> QED
    BY <1>1, <1>4, <2>1 DEF Execute, DueJobEnds, DueJobTimesOut, OvertimeEnds
<1>5. CASE Apply
  <2>1. ASSUME NEW edge \in Edges, NEW ok \in BOOLEAN, ApplyResults(edge, ok)
        PROVE  store'[j].next = "past"
    <3>1. store' = RecomputeForMaintenance(Applied(edge), edge)
      BY <2>1 DEF ApplyResults, Applied
    <3>2. Applied(edge) \in Stores /\ Applied(edge)[j] = disk[j]
      BY AppliedType DEF Applied
    <3> QED
      BY <1>1, <3>1, <3>2, MaintenanceKeeps
  <2> QED
    BY <1>1, <1>5, <2>1 DEF Apply, LoseResults
<1> QED
  BY <1>2, <1>3, <1>4, <1>5 DEF Tick

LEMMA OthersKeep ==
    ASSUME Typed, NEW j \in Jobs, Due(j), NEW k \in Jobs \ {j}, ChangeOf(k)
    PROVE  store'[j].next = "past"
<1>1. store \in Stores /\ store[j] # Absent /\ store[j].next = "past"
  BY DEF Typed, TypeOK, Stores, Due, Runnable
<1>2. ASSUME NEW force \in BOOLEAN, Run(k, force) PROVE store'[j].next = "past"
  <2> DEFINE js == {k}
  <2>1. js \in SUBSET Jobs /\ store' = Marked(store, js)
    BY <1>2 DEF Run
  <2> HIDE DEF js
  <2> QED
    BY <1>1, <2>1, MarkingKeeps
<1>3. ASSUME NEW enabled, NEW when, NEW edge, NEW ok, Reschedule(k, enabled, when, edge, ok)
      PROVE  store'[j].next = "past"
  BY <1>1, <1>3 DEF Reschedule, Commit, Stores
<1>4. ASSUME NEW edge, NEW ok, Edit(k, edge, ok)
      PROVE  store'[j].next = "past"
  BY <1>1, <1>4 DEF Edit, Commit, Stores
<1>5. ASSUME NEW enabled, NEW when, EditRefused(k, enabled, when)
      PROVE  store'[j].next = "past"
  BY <1>1, <1>5 DEF EditRefused, Stores
<1>6. ASSUME NEW ok, Remove(k, ok)
      PROVE  store'[j].next = "past"
  BY <1>1, <1>6 DEF Remove, Commit, Stores
<1> QED
  BY <1>2, <1>3, <1>4, <1>5, <1>6 DEF ChangeOf

\* A job that is due, in memory and in the file, is never moved to its next slot by
\* a tick, by list or status, by the update or the removal of another job or by the
\* start of another job's manual run.  Adding a job and the end of a manual run are
\* not among them: these do move due jobs ahead.
THEOREM DueJobsAreKeptAlways == Spec => DueJobsAreKept
<1> DEFINE A == \A j \in Jobs : Skipped(j) =>
                    ~ \/ Tick
                      \/ \E k \in Jobs \ {j} : ChangeOf(k)
                      \/ \E edge \in Edges, ok \in BOOLEAN : Read(edge, ok)
<1>1. ASSUME Typed PROVE A
  <2> SUFFICES ASSUME NEW j \in Jobs, Skipped(j)
               PROVE  /\ ~Tick
                      /\ \A k \in Jobs \ {j} : ~ChangeOf(k)
                      /\ \A edge \in Edges, ok \in BOOLEAN : ~Read(edge, ok)
    OBVIOUS
  <2>1. Due(j) /\ exec[j] \notin Outcomes /\ store'[j].next = "ahead"
    BY DEF Skipped
  <2>2. ASSUME NEW edge \in Edges, NEW ok \in BOOLEAN, Read(edge, ok)
        PROVE  store'[j].next = "past"
    <3>1. store \in Stores /\ store[j] # Absent /\ store[j].enabled /\ store[j].next = "past"
      BY <2>1, <1>1 DEF Typed, TypeOK, Stores, Due, Runnable
    <3> QED
      BY <2>2, <3>1, MaintenanceKeeps DEF Read
  <2> QED
    BY <1>1, <2>1, <2>2, TickKeeps, OthersKeep
<1>2. Typed => [A]_vars
  BY <1>1
<1> QED
  BY <1>2, AlwaysTyped, PTL DEF Spec, DueJobsAreKept

-----------------------------------------------------------------------------
(* Two runs of a job *)

\* A run of the tick goes on, within its time or past it.
Going(j) == exec[j] \in InHand \/ j \in overtime

\* What keeps other runs off
Shut(r) == r = Absent \/ r.mark # "no"

Alone(j) ==
    /\ Shut(store[j]) /\ Shut(disk[j])
    /\ current # j
    /\ exec[j] \in InHand => j \notin overtime

\* A job with a run that goes on is marked in memory and in the file, unless the
\* marker was taken away; so nothing else runs it.
Guarded == \A j \in Jobs : Going(j) /\ j \notin unguarded => Alone(j)

\* In most steps nothing goes on.
LEMMA IdleGuarded ==
    ASSUME \A j \in Jobs : exec'[j] \notin InHand, overtime' = {}
    PROVE  Guarded'
BY DEF Guarded, Going

\* The others take no job in hand, and a marker goes only as unguarded says.
LEMMA BusyGuarded ==
    ASSUME Guarded, Watch,
           \A j \in Jobs : Going(j)' => Going(j),
           \A j \in Jobs : Going(j)' /\ Alone(j) =>
                /\ current' # j
                /\ exec'[j] \in InHand => j \notin overtime'
                /\ disk'[j] = store'[j] \/ Shut(disk'[j])
                /\ store'[j] # Absent /\ store'[j].mark = "no" =>
                    \/ ~store'[j].enabled
                    \/ Mark(store[j]) = "old" \/ Mark(disk[j]) = "old"
                    \/ exec[j] \in Outcomes /\ exec'[j] = "no"
    PROVE  Guarded'
<1> SUFFICES ASSUME NEW j \in Jobs, Going(j)', j \notin unguarded'
             PROVE  Alone(j)'
  BY DEF Guarded
<1>1. exec'[j] \in InHand \/ j \in overtime'
  BY DEF Going
<1>2. j \notin Lifted
  BY DEF Watch
<1>3. j \notin unguarded
  BY <1>1, <1>2 DEF Lifted
<1>4. Alone(j)
  BY <1>3 DEF Guarded
<1>5. ~(store'[j] # Absent /\ store'[j].mark = "no")
  BY <1>1, <1>2, <1>4 DEF Lifted
<1>6. Shut(store'[j]) /\ Shut(disk'[j])
  BY <1>4, <1>5 DEF Shut
<1> QED
  BY <1>4, <1>6 DEF Alone, Shut

\* Steps that have to do with the store only.
LEMMA QuietGuarded ==
    ASSUME Guarded, Watch, UNCHANGED <<exec, overtime>>, UNCHANGED current \/ current' = None,
           \A j \in Jobs : Going(j) /\ Alone(j) =>
                /\ disk'[j] = store'[j] \/ Shut(disk'[j])
                /\ store'[j] # Absent /\ store'[j].mark = "no" =>
                    \/ ~store'[j].enabled
                    \/ Mark(store[j]) = "old" \/ Mark(disk[j]) = "old"
    PROVE  Guarded'
<1>1. \A j \in Jobs : Going(j)' <=> Going(j)
  BY DEF Going
<1>2. \A j \in Jobs : Alone(j) => current' # j /\ (exec'[j] \in InHand => j \notin overtime')
  BY CronAssumption DEF Alone
<1> QED
  BY <1>1, <1>2, BusyGuarded

\* A write leaves the file as it is in memory, or as it was.
LEMMA PersistGuarded ==
    ASSUME NEW s, NEW ok, Persist(ok, s), NEW j \in Jobs, Alone(j)
    PROVE  disk'[j] = s[j] \/ Shut(disk'[j])
BY DEF Persist, Alone

\* A walk takes markers away from disabled jobs and old ones.
LEMMA WalkGuarded ==
    ASSUME NEW s \in Stores, NEW edge, NEW which, NEW j \in Jobs, Shut(s[j]),
           Walk(s, edge, which)[j] # Absent, Walk(s, edge, which)[j].mark = "no"
    PROVE  ~Walk(s, edge, which)[j].enabled \/ Mark(s[j]) = "old"
BY WalkJob DEF Shut, Mark

\* Marking opens no job.
LEMMA MarkedShut ==
    ASSUME NEW s \in Stores, NEW js \in SUBSET Jobs, \A j \in js : s[j] # Absent, NEW j \in Jobs
    PROVE  /\ Shut(s[j]) => Shut(Marked(s, js)[j])
           /\ j \in js => Shut(Marked(s, js)[j])
<1>1. CASE j \in js
  BY <1>1, MarkedJob DEF Shut
<1>2. CASE j \notin js
  BY <1>2, MarkedType
<1> QED
  BY <1>1, <1>2

LEMMA InitGuarded == Init => Guarded
BY DEF Init, Guarded, Going, InHand

LEMMA BootGuarded == ASSUME Typed, Boot \/ Crash PROVE Guarded'
<1>1. CASE Boot
  <2>1. UNCHANGED <<exec, overtime>> /\ boot \in {"down", "starting"}
    BY <1>1 DEF Boot, Start, StartFails, CatchUp, CaughtUp, StartEnds
  <2>2. overtime = {} /\ \A j \in Jobs : exec[j] = "no"
    BY <2>1 DEF Typed, Structure
  <2> QED
    BY <2>1, <2>2, IdleGuarded DEF InHand
<1>2. CASE Crash
  BY <1>2, IdleGuarded DEF Crash, InHand
<1> QED
  BY <1>1, <1>2

LEMMA FindGuarded == ASSUME Typed, Guarded, Find PROVE Guarded'
<1>1. disk \in Stores
  BY DEF Typed, TypeOK, Stores
<1> DEFINE due == {j \in Jobs : Runnable(disk, j)}
<1>2. due \in SUBSET Jobs /\ \A j \in due : disk[j] # Absent /\ disk[j].mark = "no"
  BY DEF Runnable
<1>3. ASSUME NEW edge \in Edges, NEW ok \in BOOLEAN, FindNothing(edge, ok) PROVE Guarded'
  <2>1. /\ store' = Walk(disk, edge, {"none"})
        /\ UNCHANGED <<exec, overtime, current>> /\ Watch
    BY <1>3 DEF FindNothing, RecomputeForMaintenance
  <2>2. disk' = disk \/ disk' = store'
    BY <1>3 DEF FindNothing, Persist
  <2> QED
    BY <1>1, <2>1, <2>2, WalkGuarded, QuietGuarded DEF Alone
<1>4. ASSUME NEW marked \in BOOLEAN, FindFails(marked) PROVE Guarded'
  <2>1. /\ store' = IF marked THEN Marked(disk, due) ELSE disk
        /\ UNCHANGED <<exec, overtime, current, disk>> /\ Watch
    BY <1>4 DEF FindFails, Persist
  <2> HIDE DEF due
  <2>2. \A j \in Jobs : Shut(disk[j]) => Shut(store'[j])
    BY <1>1, <1>2, <2>1, MarkedShut
  <2> QED
    BY <2>1, <2>2, QuietGuarded DEF Alone, Shut
<1>5. CASE FindDue
  <2>1. /\ store' = Marked(disk, due) /\ disk' = store'
        /\ exec' = [j \in Jobs |-> IF j \in due THEN "queued" ELSE "no"]
        /\ UNCHANGED overtime /\ current' = None /\ Watch
    BY <1>5 DEF FindDue, LockFree, Persist
  <2> HIDE DEF due
  <2> SUFFICES ASSUME NEW j \in Jobs, Going(j)', j \notin unguarded'
               PROVE  Alone(j)'
    BY DEF Guarded
  <2>2. j \in due \/ j \in overtime
    BY <2>1 DEF Going, InHand
  <2>3. j \notin unguarded
    BY <2>1 DEF Watch, Lifted, Going
  <2>4. j \in overtime => Shut(disk[j])
    BY <2>3 DEF Guarded, Going, Alone
  <2>5. j \in due => j \notin overtime
    BY <1>2, <2>4 DEF Shut
  <2>6. Shut(store'[j])
    BY <1>1, <1>2, <2>1, <2>2, <2>4, MarkedShut
  <2>7. Shut(store[j])' /\ Shut(disk[j])'
    BY <2>1, <2>6 DEF Shut
  <2>8. current' # j
    BY <2>1, CronAssumption
  <2>9. exec'[j] \in InHand => j \notin overtime'
    BY <2>1, <2>5 DEF InHand
  <2> QED
    BY <2>7, <2>8, <2>9 DEF Alone
<1> QED
  BY <1>3, <1>4, <1>5 DEF Find

LEMMA ExecuteGuarded == ASSUME Typed, Guarded, Execute PROVE Guarded'
<1>1. exec \in [Jobs -> {"no"} \cup InHand \cup Outcomes]
  BY DEF Typed, TypeOK
<1>2. ASSUME NEW k \in Jobs, RunDueJob(k) PROVE Guarded'
  <2> DEFINE js == {k}
  <2>1. /\ store' = IF store[k] = Absent THEN store ELSE Marked(store, js)
        /\ js \in SUBSET Jobs /\ store \in Stores
        /\ store[k] # Absent => \A j \in js : store[j] # Absent
        /\ exec' = [exec EXCEPT ![k] = "executing"] /\ exec[k] = "queued"
        /\ UNCHANGED <<disk, overtime, current>> /\ Watch
    BY <1>2 DEF RunDueJob, Typed, TypeOK, Stores
  <2> HIDE DEF js
  <2>2. \A j \in Jobs : exec'[j] \in InHand <=> exec[j] \in InHand
    BY <1>1, <2>1 DEF InHand
  <2>3. \A j \in Jobs : Shut(store[j]) => Shut(store'[j])
    BY <2>1, MarkedShut
  <2>4. \A j \in Jobs : Going(j)' => Going(j)
    BY <2>1, <2>2 DEF Going
  <2> QED
    BY <2>1, <2>2, <2>3, <2>4, BusyGuarded DEF Alone, Shut
<1>3. ASSUME NEW k \in Jobs, NEW outcome \in Outcomes, DueJobEnds(k, outcome) PROVE Guarded'
  <2>1. /\ exec' = [exec EXCEPT ![k] = outcome]
        /\ UNCHANGED <<disk, store, overtime, current>> /\ Watch
    BY <1>3 DEF DueJobEnds
  <2>2. \A j \in Jobs : exec'[j] \in InHand => exec[j] \in InHand
    BY <1>1, <2>1 DEF InHand, Outcomes
  <2>3. \A j \in Jobs : Going(j)' => Going(j)
    BY <2>1, <2>2 DEF Going
  <2> QED
    BY <2>1, <2>2, <2>3, BusyGuarded DEF Alone, Shut
<1>4. ASSUME NEW k \in Jobs, DueJobTimesOut(k) PROVE Guarded'
  <2>1. /\ exec[k] = "executing" /\ exec' = [exec EXCEPT ![k] = "error"]
        /\ overtime' = overtime \cup {k}
        /\ UNCHANGED <<disk, store, current>> /\ Watch
    BY <1>4 DEF DueJobTimesOut
  <2>2. exec'[k] = "error" /\ \A j \in Jobs : j # k => exec'[j] = exec[j]
    BY <1>1, <2>1
  <2>3. \A j \in Jobs : Going(j)' => Going(j)
    BY <2>1, <2>2 DEF Going, InHand
  <2>4. \A j \in Jobs : Alone(j) => (exec'[j] \in InHand => j \notin overtime')
    BY <2>1, <2>2 DEF Alone, InHand
  <2> QED
    BY <2>1, <2>3, <2>4, BusyGuarded DEF Alone, Shut
<1>5. ASSUME NEW k \in Jobs, OvertimeEnds(k) PROVE Guarded'
  <2>1. /\ overtime' = overtime \ {k}
        /\ UNCHANGED <<exec, disk, store, current>> /\ Watch
    BY <1>5 DEF OvertimeEnds
  <2>2. \A j \in Jobs : Going(j)' => Going(j)
    BY <2>1 DEF Going
  <2> QED
    BY <2>1, <2>2, BusyGuarded DEF Alone, Shut
<1> QED
  BY <1>2, <1>3, <1>4, <1>5 DEF Execute

LEMMA ApplyGuarded == ASSUME Typed, Guarded, Apply PROVE Guarded'
<1>1. \A j \in Jobs : exec[j] \notin InHand
  BY DEF Apply, ApplyResults, LoseResults
<1>2. /\ exec' = [j \in Jobs |-> "no"] /\ UNCHANGED <<overtime, current>> /\ Watch
  BY DEF Apply, ApplyResults, LoseResults
<1>3. \A j \in Jobs : Going(j)' => Going(j) /\ exec'[j] = "no" /\ exec'[j] \notin InHand
  BY <1>2 DEF Going, InHand
<1>4. ASSUME NEW edge \in Edges, NEW ok \in BOOLEAN, ApplyResults(edge, ok) PROVE Guarded'
  <2>1. /\ store' = Walk(Applied(edge), edge, {"none"})
        /\ disk' = disk \/ disk' = store'
    BY <1>4 DEF ApplyResults, RecomputeForMaintenance, Applied, Persist
  <2>2. Applied(edge) \in Stores
    BY AppliedType
  <2>3. ASSUME NEW j \in Jobs, Alone(j), exec[j] \notin Outcomes,
               store'[j] # Absent, store'[j].mark = "no"
        PROVE  ~store'[j].enabled \/ Mark(disk[j]) = "old"
    <3>1. Applied(edge)[j] = disk[j] /\ Shut(disk[j])
      BY <2>3 DEF Applied, Alone
    <3>2. Shut(Applied(edge)[j])
      BY <3>1
    <3> QED
      BY <2>1, <2>2, <2>3, <3>1, <3>2, WalkGuarded
  <2> QED
    BY <1>2, <1>3, <2>1, <2>3, BusyGuarded DEF Alone
<1>5. CASE LoseResults
  <2>1. store' = disk /\ disk' = disk
    BY <1>5 DEF LoseResults, Persist
  <2> QED
    BY <1>2, <1>3, <2>1, BusyGuarded DEF Alone, Shut
<1> QED
  BY <1>4, <1>5 DEF Apply

LEMMA TickGuarded == ASSUME Typed, Guarded, Tick PROVE Guarded'
<1>1. CASE TimerFires
  <2>1. UNCHANGED <<disk, store, exec, overtime, current>> /\ Watch
    BY <1>1 DEF TimerFires
  <2> QED
    BY <2>1, QuietGuarded DEF Alone, Shut
<1> QED
  BY <1>1, FindGuarded, ExecuteGuarded, ApplyGuarded DEF Tick

\* An operation that changes the markers of what is in memory in no way but two.
LEMMA CommitGuarded ==
    ASSUME Guarded, NEW s, NEW ok, Commit(s, ok), UNCHANGED current,
           \A j \in Jobs : Going(j) /\ Alone(j) /\ s[j] # Absent /\ s[j].mark = "no" =>
                ~s[j].enabled \/ Mark(store[j]) = "old"
    PROVE  Guarded'
<1>1. store' = s /\ Persist(ok, s) /\ UNCHANGED <<exec, overtime>> /\ Watch
  BY DEF Commit
<1>2. \A j \in Jobs : Alone(j) => disk'[j] = s[j] \/ Shut(disk'[j])
  BY <1>1, PersistGuarded
<1> QED
  BY <1>1, <1>2, QuietGuarded

LEMMA AddGuarded ==
    ASSUME Typed, Guarded, NEW j \in Jobs, NEW enabled \in BOOLEAN, NEW when \in Timed(j), NEW edge,
           NEW ok \in BOOLEAN, Add(j, enabled, when, edge, ok)
    PROVE  Guarded'
<1> DEFINE new == [enabled |-> enabled, when |-> when, next |-> "none", mark |-> "no", last |-> "none"]
           job == [new EXCEPT !.next = IF enabled THEN NextRun(j, new, edge) ELSE "none"]
           s == [store EXCEPT ![j] = job]
<1>1. new \in JobState
  BY DEF JobState, Timed
<1>2. NextRun(j, new, edge) \in {"none", "ahead", "past"}
  BY <1>1, NextRunType
<1>3. job \in JobState
  BY <1>1, <1>2 DEF JobState
<1>4. /\ exec[j] = "no" /\ j \notin overtime
      /\ Commit(RecomputeNextRuns(s, edge), ok) /\ UNCHANGED current
  BY DEF Add
<1> HIDE DEF job
<1>5. s \in Stores /\ \A k \in Jobs : k # j => s[k] = store[k]
  BY <1>3 DEF Typed, TypeOK, Stores
<1> HIDE DEF s
<1> DEFINE t == RecomputeNextRuns(s, edge)
<1>6. ASSUME NEW k \in Jobs, Going(k), Alone(k), t[k] # Absent, t[k].mark = "no"
      PROVE  ~t[k].enabled \/ Mark(store[k]) = "old"
  <2>1. k # j
    BY <1>4, <1>6 DEF Going, InHand
  <2>2. s[k] = store[k] /\ Shut(s[k])
    BY <1>5, <1>6, <2>1 DEF Alone
  <2> QED
    BY <1>5, <1>6, <2>2, WalkGuarded DEF RecomputeNextRuns
<1> HIDE DEF t
<1>7. Commit(t, ok)
  BY <1>4 DEF t
<1> QED
  BY <1>4, <1>6, <1>7, CommitGuarded

LEMMA ChangeGuarded ==
    ASSUME Typed, Guarded, NEW k \in Jobs, ChangeOf(k)
    PROVE  Guarded'
<1>1. store \in Stores
  BY DEF Typed, TypeOK, Stores
<1>2. ASSUME NEW enabled \in BOOLEAN, NEW when \in Timed(k), NEW edge, NEW ok,
             Reschedule(k, enabled, when, edge, ok)
      PROVE  Guarded'
  <2> DEFINE r == [store[k] EXCEPT !.enabled = enabled, !.when = when]
             on == [r EXCEPT !.next = NextRun(k, r, edge)]
             off == [r EXCEPT !.next = "none", !.mark = "no"]
             s == [store EXCEPT ![k] = IF enabled THEN on ELSE off]
  <2>1. store[k] # Absent /\ Commit(s, ok) /\ UNCHANGED current
    BY <1>2 DEF Reschedule, Present
  <2>2. store[k] \in JobState
    BY <1>1, <2>1 DEF Stores
  <2>3. on.mark = store[k].mark /\ off.enabled = enabled
    BY <2>2 DEF JobState
  <2> HIDE DEF on, off
  <2>4. \A j \in Jobs : j # k => s[j] = store[j]
    BY <1>1 DEF Stores
  <2>5. s[k].mark = "no" => store[k].mark = "no" \/ ~s[k].enabled
    BY <1>1, <2>3 DEF Stores
  <2> HIDE DEF s
  <2>6. \A j \in Jobs : Alone(j) /\ s[j] # Absent /\ s[j].mark = "no" => ~s[j].enabled
    BY <2>1, <2>4, <2>5 DEF Alone, Shut
  <2> QED
    BY <2>1, <2>6, CommitGuarded
<1>3. ASSUME NEW edge, NEW ok, Edit(k, edge, ok) PROVE Guarded'
  <2> DEFINE s == IF store[k].enabled /\ store[k].next = "none"
                  THEN [store EXCEPT ![k].next = NextRun(k, store[k], edge)] ELSE store
  <2>1. store[k] # Absent /\ Commit(s, ok) /\ UNCHANGED current
    BY <1>3 DEF Edit, Present
  <2>2. store[k] \in JobState
    BY <1>1, <2>1 DEF Stores
  <2>3. \A j \in Jobs : j # k => s[j] = store[j]
    BY <1>1 DEF Stores
  <2>4. s[k].mark = store[k].mark
    BY <1>1, <2>2 DEF Stores, JobState
  <2> HIDE DEF s
  <2>5. \A j \in Jobs : Alone(j) => ~(s[j] # Absent /\ s[j].mark = "no")
    BY <2>1, <2>3, <2>4 DEF Alone, Shut
  <2> QED
    BY <2>1, <2>5, CommitGuarded
<1>4. ASSUME NEW enabled \in BOOLEAN, NEW when \in Timed(k), EditRefused(k, enabled, when)
      PROVE  Guarded'
  <2>1. /\ store[k] # Absent /\ UNCHANGED <<disk, current, exec, overtime>> /\ Watch
        /\ store' = [store EXCEPT ![k].enabled = enabled, ![k].when = when]
    BY <1>4 DEF EditRefused, Present, Persist
  <2>2. store[k] \in JobState
    BY <1>1, <2>1 DEF Stores
  <2>3. \A j \in Jobs : j # k => store'[j] = store[j]
    BY <1>1, <2>1 DEF Stores
  <2>4. store'[k].mark = store[k].mark
    BY <1>1, <2>1, <2>2 DEF Stores, JobState
  <2>5. \A j \in Jobs : Alone(j) =>
            /\ ~(store'[j] # Absent /\ store'[j].mark = "no")
            /\ Shut(disk'[j])
    BY <2>1, <2>3, <2>4 DEF Alone, Shut
  <2> QED
    BY <2>1, <2>5, QuietGuarded
<1>5. ASSUME NEW ok, Remove(k, ok) PROVE Guarded'
  <2> DEFINE s == [store EXCEPT ![k] = Absent]
  <2>1. Commit(s, ok) /\ UNCHANGED current
    BY <1>5 DEF Remove
  <2>2. s[k] = Absent /\ \A j \in Jobs : j # k => s[j] = store[j]
    BY <1>1 DEF Stores
  <2> HIDE DEF s
  <2>3. \A j \in Jobs : Alone(j) => ~(s[j] # Absent /\ s[j].mark = "no")
    BY <2>2 DEF Alone, Shut
  <2> QED
    BY <2>1, <2>3, CommitGuarded
<1>6. ASSUME NEW force \in BOOLEAN, Run(k, force) PROVE Guarded'
  <2> DEFINE js == {k}
  <2>1. /\ store[k] # Absent /\ store[k].mark = "no" /\ current' = k
        /\ UNCHANGED <<disk, exec, overtime>> /\ Watch
        /\ store' = Marked(store, js) /\ js \in SUBSET Jobs
        /\ \A j \in js : store[j] # Absent
    BY <1>6 DEF Run, Present
  <2> HIDE DEF js
  <2>2. \A j \in Jobs : Shut(store[j]) => Shut(store'[j])
    BY <1>1, <2>1, MarkedShut
  <2>3. \A j \in Jobs : Alone(j) => current' # j
    BY <2>1 DEF Alone, Shut
  <2>4. \A j \in Jobs : Going(j)' <=> Going(j)
    BY <2>1 DEF Going
  <2> QED
    BY <2>1, <2>2, <2>3, <2>4, BusyGuarded DEF Alone, Shut
<1> QED
  BY <1>2, <1>3, <1>4, <1>5, <1>6 DEF ChangeOf

LEMMA ReadGuarded ==
    ASSUME Typed, Guarded, NEW edge, NEW ok, Read(edge, ok)
    PROVE  Guarded'
<1>1. /\ store \in Stores /\ store' = Walk(store, edge, {"none"})
      /\ UNCHANGED <<exec, overtime, current>> /\ Watch
      /\ disk' = disk \/ disk' = store'
  BY DEF Read, RecomputeForMaintenance, Persist, Typed, TypeOK, Stores
<1>2. ASSUME NEW j \in Jobs, Alone(j), store'[j] # Absent, store'[j].mark = "no"
      PROVE  ~store'[j].enabled \/ Mark(store[j]) = "old"
  BY <1>1, <1>2, WalkGuarded DEF Alone
<1> QED
  BY <1>1, <1>2, QuietGuarded DEF Alone

LEMMA RunReturnsGuarded == ASSUME Typed, Guarded, RunReturns PROVE Guarded'
<1>1. PICK outcome \in Outcomes, edge \in Edges, ok \in BOOLEAN : RunEnds(outcome, edge, ok)
  BY DEF RunReturns
<1> DEFINE s == [store EXCEPT ![current] = Finish(current, @, outcome, edge)]
<1>2. store \in Stores /\ current \in Jobs /\ store[current] \in JobState
  BY <1>1 DEF RunEnds, Typed, TypeOK, Structure, Stores
<1>3. Finish(current, store[current], outcome, edge) \in JobState \cup {Absent}
  BY <1>2, FinishType
<1>4. s \in Stores /\ \A j \in Jobs : j # current => s[j] = store[j]
  BY <1>2, <1>3 DEF Stores
<1>5. /\ store' = Walk(s, edge, {"none", "past"})
      /\ disk' = disk \/ disk' = store'
      /\ UNCHANGED <<exec, overtime>> /\ current' = None /\ Watch
  BY <1>1 DEF RunEnds, RecomputeNextRuns, Persist
<1> HIDE DEF s
<1>6. ASSUME NEW j \in Jobs, Alone(j), store'[j] # Absent, store'[j].mark = "no"
      PROVE  ~store'[j].enabled \/ Mark(store[j]) = "old"
  <2>1. s[j] = store[j] /\ Shut(s[j])
    BY <1>4, <1>6 DEF Alone
  <2> QED
    BY <1>4, <1>5, <1>6, <2>1, WalkGuarded
<1> QED
  BY <1>5, <1>6, QuietGuarded DEF Alone

LEMMA ClockGuarded == ASSUME Typed, Guarded, Clock PROVE Guarded'
<1>1. store \in Stores /\ disk \in Stores
  BY DEF Typed, TypeOK, Stores
<1>2. ASSUME NEW k \in Jobs, Elapse(k) PROVE Guarded'
  <2>1. /\ store' = [store EXCEPT ![k] = Later(k, store[k])]
        /\ disk' = [disk EXCEPT ![k] = Later(k, disk[k])]
        /\ UNCHANGED <<exec, overtime, current>> /\ Watch
    BY <1>2 DEF Elapse
  <2>2. \A j \in Jobs : /\ store'[j] = IF j = k THEN Later(k, store[k]) ELSE store[j]
                        /\ disk'[j] = IF j = k THEN Later(k, disk[k]) ELSE disk[j]
    BY <1>1, <2>1 DEF Stores
  <2>3. \A j \in Jobs : /\ Shut(store[j]) => Shut(store'[j])
                        /\ Shut(disk[j]) => Shut(disk'[j])
    BY <1>1, <2>2, LaterJob DEF Stores, Shut
  <2> QED
    BY <2>1, <2>3, QuietGuarded DEF Alone, Shut
<1>3. ASSUME NEW k \in Jobs, MarkAges(k) PROVE Guarded'
  <2>1. /\ store' = [store EXCEPT ![k] = Aged(store[k])]
        /\ disk' = [disk EXCEPT ![k] = Aged(disk[k])]
        /\ UNCHANGED <<exec, overtime, current>> /\ Watch
    BY <1>3 DEF MarkAges
  <2>2. \A j \in Jobs : /\ store'[j] = IF j = k THEN Aged(store[k]) ELSE store[j]
                        /\ disk'[j] = IF j = k THEN Aged(disk[k]) ELSE disk[j]
    BY <1>1, <2>1 DEF Stores
  <2>3. \A j \in Jobs : /\ Shut(store[j]) => Shut(store'[j])
                        /\ Shut(disk[j]) => Shut(disk'[j])
    BY <1>1, <2>2, AgedJob DEF Stores, Shut
  <2> QED
    BY <2>1, <2>3, QuietGuarded DEF Alone, Shut
<1> QED
  BY <1>2, <1>3 DEF Clock

LEMMA NextGuarded == ASSUME Typed, Guarded, [Next]_vars PROVE Guarded'
<1>1. CASE Boot \/ Crash
  BY <1>1, BootGuarded
<1>2. CASE Tick
  BY <1>2, TickGuarded
<1>3. CASE Operation
  BY <1>3, AddGuarded, ChangeGuarded, ReadGuarded, RunReturnsGuarded DEF Operation
<1>4. CASE Clock
  BY <1>4, ClockGuarded
<1>5. CASE UNCHANGED vars
  BY <1>5 DEF vars, Guarded, Going, Alone, Shut
<1> QED
  BY <1>1, <1>2, <1>3, <1>4, <1>5 DEF Next

\* Of the runs of one job - by hand or of the catch-up, of the tick, and past the
\* time limit - no two go on at once, unless the marker of the one that goes on
\* was taken away: by an update that disables the job, after two hours, or by a
\* tick that took the time limit of a run for its end.
THEOREM NeverTwiceAlways == Spec => []NeverTwice
<1>1. Guarded => NeverTwice
  BY DEF Guarded, NeverTwice, Going, Alone, InHand
<1> QED
  BY <1>1, AlwaysTyped, InitGuarded, NextGuarded, PTL DEF Spec

-----------------------------------------------------------------------------
(* The timer *)

\* No enabled job waits for its next run to be computed.
Settled(s) ==
    \A j \in Jobs : s[j] # Absent /\ s[j].enabled /\ s[j].next = "none"
                    => j \in OneShot /\ s[j].last = "ok"

Awake == faults = 0 => Settled(disk) /\ Settled(store)

LEMMA WalkSettles ==
    ASSUME NEW s \in Stores, NEW edge, NEW which, "none" \in which
    PROVE  Settled(Walk(s, edge, which))
BY WalkJob DEF Settled

LEMMA MarkedSettled ==
    ASSUME NEW s \in Stores, NEW js \in SUBSET Jobs, \A j \in js : s[j] # Absent
    PROVE  /\ Settled(s) => Settled(Marked(s, js))
           /\ Armed(Marked(s, js)) <=> Armed(s)
<1>1. ASSUME NEW j \in Jobs
      PROVE  /\ Marked(s, js)[j] = Absent <=> s[j] = Absent
             /\ s[j] # Absent => /\ Marked(s, js)[j].enabled = s[j].enabled
                                 /\ Marked(s, js)[j].next = s[j].next
                                 /\ Marked(s, js)[j].last = s[j].last
  <2>1. CASE j \in js
    BY <2>1, MarkedJob
  <2>2. CASE j \notin js
    BY <2>2, MarkedType
  <2> QED
    BY <2>1, <2>2
<1> QED
  BY <1>1 DEF Settled, Armed

\* A list or a status sets no run that is not there already, if all are settled.
LEMMA SettledStaysArmed ==
    ASSUME NEW s \in Stores, NEW edge, Settled(s)
    PROVE  Armed(Walk(s, edge, {"none"})) => Armed(s)
<1>1. ASSUME NEW j \in Jobs, Walk(s, edge, {"none"})[j] # Absent,
             Walk(s, edge, {"none"})[j].enabled, Walk(s, edge, {"none"})[j].next # "none"
      PROVE  s[j] # Absent /\ s[j].enabled /\ s[j].next # "none"
  <2>1. s[j] # Absent /\ s[j].enabled /\ s[j] \in JobState
    BY <1>1, WalkJob DEF Stores
  <2>2. CASE s[j].next = "none"
    <3>1. j \in OneShot /\ s[j].last = "ok"
      BY <2>1, <2>2 DEF Settled
    <3>2. Walk(s, edge, {"none"})[j].next = NextRun(j, Tidy(s[j]), edge)
      BY <2>1, <2>2, WalkJob
    <3>3. Tidy(s[j]).last = "ok"
      BY <2>1, <3>1, TidyType
    <3> QED
      BY <1>1, <3>1, <3>2, <3>3 DEF NextRun
  <2> QED
    BY <2>1, <2>2
<1> QED
  BY <1>1 DEF Armed

\* A store that is settled and written leaves both copies settled.
LEMMA WrittenAwake ==
    ASSUME Typed, NEW s \in Stores, NEW ok \in BOOLEAN, store' = s, Persist(ok, s),
           faults' = 0 => Settled(s)
    PROVE  Awake'
<1>1. faults' = 0 => disk' = s
  BY PersistStep DEF Typed, TypeOK, Stores
<1> QED
  BY <1>1 DEF Awake, Settled

\* A write that fails is the end of what is claimed.
LEMMA FailedAwake ==
    ASSUME Typed, NEW s, Persist(FALSE, s)
    PROVE  faults' # 0
BY DEF Persist, Typed, TypeOK

LEMMA InitAwake == Init => Awake
BY DEF Init, Awake, Settled

LEMMA BootAwake == ASSUME Typed, Awake, Boot \/ Crash PROVE Awake'
<1>1. disk \in Stores /\ store \in Stores /\ faults \in Nat
  BY DEF Typed, TypeOK, Stores
<1>2. CASE Start
  <2>1. \A j \in Jobs : store'[j] = IF disk[j] = Absent THEN Absent ELSE [disk[j] EXCEPT !.mark = "no"]
    BY <1>2 DEF Start
  <2>2. ASSUME NEW j \in Jobs, store'[j] # Absent
        PROVE  /\ disk[j] # Absent
               /\ store'[j].enabled = disk[j].enabled
               /\ store'[j].next = disk[j].next
               /\ store'[j].last = disk[j].last
    BY <1>1, <2>1, <2>2 DEF Stores, JobState
  <2>3. disk' = disk /\ faults' = faults
    BY <1>2 DEF Start
  <2> QED
    BY <2>2, <2>3 DEF Awake, Settled
<1>3. CASE StartFails
  BY <1>3, FailedAwake DEF StartFails, Awake
<1>4. ASSUME NEW j \in Jobs, CatchUp(j) PROVE Awake'
  <2> DEFINE js == {j}
  <2>1. /\ store' = Marked(store, js) /\ disk' = disk /\ faults' = faults
        /\ js \in SUBSET Jobs /\ store[j] # Absent
    BY <1>4 DEF CatchUp, Typed, Structure
  <2>2. \A k \in js : store[k] # Absent
    BY <2>1
  <2> HIDE DEF js
  <2>3. Settled(store) => Settled(store')
    BY <1>1, <2>1, <2>2, MarkedSettled
  <2> QED
    BY <2>1, <2>3 DEF Awake, Settled
<1>5. ASSUME NEW outcome \in Outcomes, NEW edge \in Edges, CaughtUp(outcome, edge) PROVE Awake'
  <2> DEFINE new == Finish(current, store[current], outcome, edge)
  <2>1. /\ current \in Jobs /\ store[current] \in JobState
        /\ store' = [store EXCEPT ![current] = new]
        /\ disk' = disk /\ faults' = faults
    BY <1>1, <1>5 DEF CaughtUp, Typed, TypeOK, Structure, Stores
  <2>2. new # Absent => ~new.enabled \/ new.next # "none"
    BY <2>1 DEF Finish, NextRun, JobState
  <2> HIDE DEF new
  <2>3. \A j \in Jobs : store'[j] = IF j = current THEN new ELSE store[j]
    BY <1>1, <2>1 DEF Stores
  <2> QED
    BY <2>1, <2>2, <2>3 DEF Awake, Settled
<1>6. ASSUME NEW edge \in Edges, NEW ok \in BOOLEAN, StartEnds(edge, ok) PROVE Awake'
  <2>1. store' = Walk(store, edge, {"none", "past"}) /\ Persist(ok, store')
    BY <1>6 DEF StartEnds, RecomputeNextRuns
  <2>2. store' \in Stores /\ Settled(store')
    BY <1>1, <2>1, WalkType, WalkSettles
  <2> QED
    BY <2>1, <2>2, WrittenAwake
<1>7. CASE Crash
  <2>1. \A j \in Jobs : store'[j] = Absent
    BY <1>7 DEF Crash
  <2>2. disk' = disk /\ faults' = faults
    BY <1>7 DEF Crash
  <2> QED
    BY <2>1, <2>2 DEF Awake, Settled
<1> QED
  BY <1>2, <1>3, <1>4, <1>5, <1>6, <1>7 DEF Boot

LEMMA TickAwake == ASSUME Typed, Awake, Tick PROVE Awake'
<1>1. disk \in Stores /\ store \in Stores
  BY DEF Typed, TypeOK, Stores
<1>2. CASE UNCHANGED <<disk, store, faults>>
  BY <1>2 DEF Awake, Settled
<1>3. CASE Find
  <2> DEFINE due == {j \in Jobs : Runnable(disk, j)}
  <2>1. due \in SUBSET Jobs /\ \A j \in due : disk[j] # Absent
    BY DEF Runnable
  <2>2. ASSUME NEW edge \in Edges, NEW ok \in BOOLEAN, FindNothing(edge, ok) PROVE Awake'
    <3>1. store' = Walk(disk, edge, {"none"})
      BY <2>2 DEF FindNothing, RecomputeForMaintenance
    <3>2. store' \in Stores /\ Settled(store')
      BY <1>1, <3>1, WalkType, WalkSettles
    <3>3. CASE store' = disk
      BY <2>2, <3>2, <3>3 DEF FindNothing, Awake, Settled
    <3>4. CASE store' # disk
      <4>1. Persist(ok, store')
        BY <2>2, <3>4 DEF FindNothing
      <4> QED
        BY <3>2, <4>1, WrittenAwake
    <3> QED
      BY <3>3, <3>4
  <2>3. CASE FindDue
    <3>1. store' = Marked(disk, due) /\ Persist(TRUE, store')
      BY <2>3 DEF FindDue
    <3> HIDE DEF due
    <3>2. store' \in Stores /\ (Settled(disk) => Settled(store'))
      BY <1>1, <2>1, <3>1, MarkedType, MarkedSettled
    <3>3. faults' = faults
      BY <3>1 DEF Persist
    <3> QED
      BY <3>1, <3>2, <3>3, WrittenAwake DEF Awake
  <2>4. ASSUME NEW marked \in BOOLEAN, FindFails(marked) PROVE Awake'
    <3>1. faults' # 0
      BY <2>4, FailedAwake DEF FindFails
    <3> QED
      BY <3>1 DEF Awake
  <2> QED
    BY <1>3, <2>2, <2>3, <2>4 DEF Find
<1>4. ASSUME NEW k \in Jobs, RunDueJob(k) PROVE Awake'
  <2> DEFINE js == {k}
  <2>1. /\ store' = IF store[k] = Absent THEN store ELSE Marked(store, js)
        /\ js \in SUBSET Jobs /\ UNCHANGED <<disk, faults>>
    BY <1>4 DEF RunDueJob
  <2>2. store[k] # Absent => \A j \in js : store[j] # Absent
    OBVIOUS
  <2> HIDE DEF js
  <2>3. Settled(store) => Settled(store')
    BY <1>1, <2>1, <2>2, MarkedSettled
  <2> QED
    BY <2>1, <2>3 DEF Awake, Settled
<1>5. CASE Apply
  <2>1. ASSUME NEW edge \in Edges, NEW ok \in BOOLEAN, ApplyResults(edge, ok) PROVE Awake'
    <3>1. store' = Walk(Applied(edge), edge, {"none"}) /\ Persist(ok, store')
      BY <2>1 DEF ApplyResults, RecomputeForMaintenance, Applied
    <3>2. store' \in Stores /\ Settled(store')
      BY <3>1, AppliedType, WalkType, WalkSettles
    <3> QED
      BY <3>1, <3>2, WrittenAwake
  <2>2. CASE LoseResults
    <3>1. faults' # 0
      BY <2>2, FailedAwake DEF LoseResults
    <3> QED
      BY <3>1 DEF Awake
  <2> QED
    BY <1>5, <2>1, <2>2 DEF Apply
<1>6. (\/ TimerFires
       \/ \E j \in Jobs, outcome \in Outcomes : DueJobEnds(j, outcome)
       \/ \E j \in Jobs : DueJobTimesOut(j) \/ OvertimeEnds(j))
        => UNCHANGED <<disk, store, faults>>
  BY DEF TimerFires, DueJobEnds, DueJobTimesOut, OvertimeEnds
<1> QED
  BY <1>2, <1>3, <1>4, <1>5, <1>6 DEF Tick, Execute

LEMMA AddAwake ==
    ASSUME Typed, NEW j \in Jobs, NEW enabled \in BOOLEAN, NEW when \in Timed(j), NEW edge,
           NEW ok \in BOOLEAN, Add(j, enabled, when, edge, ok)
    PROVE  Awake'
<1> DEFINE new == [enabled |-> enabled, when |-> when, next |-> "none", mark |-> "no", last |-> "none"]
           job == [new EXCEPT !.next = IF enabled THEN NextRun(j, new, edge) ELSE "none"]
           s == [store EXCEPT ![j] = job]
<1>1. new \in JobState
  BY DEF JobState, Timed
<1>2. NextRun(j, new, edge) \in {"none", "ahead", "past"}
  BY <1>1, NextRunType
<1>3. job \in JobState
  BY <1>1, <1>2 DEF JobState
<1>4. store' = Walk(s, edge, {"none", "past"}) /\ Persist(ok, store')
  BY DEF Add, Commit, RecomputeNextRuns
<1> HIDE DEF job
<1>5. s \in Stores
  BY <1>3 DEF Typed, TypeOK, Stores
<1> HIDE DEF s
<1>6. store' \in Stores /\ Settled(store')
  BY <1>4, <1>5, WalkType, WalkSettles
<1> QED
  BY <1>4, <1>6, WrittenAwake

\* A change of one job that settles it.
LEMMA OneJobAwake ==
    ASSUME Typed, Awake, NEW k \in Jobs, NEW r \in JobState \cup {Absent}, NEW ok \in BOOLEAN,
           store' = [store EXCEPT ![k] = r], Persist(ok, store'),
           r # Absent /\ r.enabled /\ r.next = "none" => k \in OneShot /\ r.last = "ok"
    PROVE  Awake'
<1>1. store \in Stores
  BY DEF Typed, TypeOK, Stores
<1>2. store' \in Stores /\ \A j \in Jobs : store'[j] = IF j = k THEN r ELSE store[j]
  BY <1>1 DEF Stores
<1>3. faults' = 0 => faults = 0
  BY <1>2, PersistStep DEF Typed, TypeOK, Stores
<1>4. faults' = 0 => Settled(store')
  BY <1>2, <1>3 DEF Awake, Settled
<1> QED
  BY <1>2, <1>4, WrittenAwake

LEMMA ChangeAwake ==
    ASSUME Typed, Awake, NEW k \in Jobs, ChangeOf(k)
    PROVE  Awake'
<1>1. store \in Stores
  BY DEF Typed, TypeOK, Stores
<1>2. ASSUME NEW enabled \in BOOLEAN, NEW when \in Timed(k), NEW edge, NEW ok \in BOOLEAN,
             Reschedule(k, enabled, when, edge, ok)
      PROVE  Awake'
  <2> DEFINE r == [store[k] EXCEPT !.enabled = enabled, !.when = when]
             on == [r EXCEPT !.next = NextRun(k, r, edge)]
             off == [r EXCEPT !.next = "none", !.mark = "no"]
             new == IF enabled THEN on ELSE off
  <2>1. store[k] \in JobState /\ when \in {"ahead", "past"}
    BY <1>1, <1>2 DEF Reschedule, Present, Stores, Timed
  <2>2. r \in JobState /\ r.enabled = enabled
    BY <2>1 DEF JobState
  <2>3. store' = [store EXCEPT ![k] = new] /\ Persist(ok, store')
    BY <1>2 DEF Reschedule, Commit
  <2> HIDE DEF r
  <2>4. NextRun(k, r, edge) \in {"none", "ahead", "past"}
    BY <2>2, NextRunType
  <2>5. /\ on \in JobState /\ on.last = r.last
        /\ on.next = "none" => k \in OneShot /\ r.last = "ok"
    BY <2>2, <2>4 DEF JobState, NextRun
  <2>6. off \in JobState /\ off.enabled = enabled
    BY <2>2 DEF JobState
  <2> HIDE DEF on, off
  <2>7. new \in JobState \cup {Absent}
    BY <2>5, <2>6
  <2>8. new # Absent /\ new.enabled /\ new.next = "none" => k \in OneShot /\ new.last = "ok"
    BY <2>5, <2>6
  <2> HIDE DEF new
  <2> QED
    BY <2>3, <2>7, <2>8, OneJobAwake
<1>3. ASSUME NEW edge, NEW ok \in BOOLEAN, Edit(k, edge, ok) PROVE Awake'
  <2> DEFINE r == store[k]
             fixed == [r EXCEPT !.next = NextRun(k, r, edge)]
             new == IF r.enabled /\ r.next = "none" THEN fixed ELSE r
  <2>1. r \in JobState
    BY <1>1, <1>3 DEF Edit, Present, Stores
  <2>2. NextRun(k, r, edge) \in {"none", "ahead", "past"}
    BY <2>1, NextRunType
  <2>3. /\ fixed \in JobState /\ fixed.last = r.last
        /\ fixed.next = "none" => k \in OneShot /\ r.last = "ok"
    BY <2>1, <2>2 DEF JobState, NextRun
  <2>4. store' = [store EXCEPT ![k] = new] /\ Persist(ok, store')
    BY <1>1, <1>3 DEF Edit, Commit, Stores
  <2> HIDE DEF fixed
  <2>5. /\ new \in JobState \cup {Absent}
        /\ new # Absent /\ new.enabled /\ new.next = "none" => k \in OneShot /\ new.last = "ok"
    BY <2>1, <2>3
  <2> HIDE DEF new
  <2> QED
    BY <2>4, <2>5, OneJobAwake
<1>4. ASSUME NEW enabled, NEW when, EditRefused(k, enabled, when) PROVE Awake'
  <2>1. faults' # 0
    BY <1>4, FailedAwake DEF EditRefused
  <2> QED
    BY <2>1 DEF Awake
<1>5. ASSUME NEW ok \in BOOLEAN, Remove(k, ok) PROVE Awake'
  <2>1. store' = [store EXCEPT ![k] = Absent] /\ Persist(ok, store')
    BY <1>5 DEF Remove, Commit
  <2> QED
    BY <2>1, OneJobAwake
<1>6. ASSUME NEW force \in BOOLEAN, Run(k, force) PROVE Awake'
  <2> DEFINE js == {k}
  <2>1. /\ store' = Marked(store, js) /\ js \in SUBSET Jobs
        /\ \A j \in js : store[j] # Absent
        /\ UNCHANGED <<disk, faults>>
    BY <1>6 DEF Run, Present
  <2> HIDE DEF js
  <2>2. Settled(store) => Settled(store')
    BY <1>1, <2>1, MarkedSettled
  <2> QED
    BY <2>1, <2>2 DEF Awake, Settled
<1> QED
  BY <1>2, <1>3, <1>4, <1>5, <1>6 DEF ChangeOf

LEMMA ReadAwake ==
    ASSUME Typed, Awake, NEW edge, NEW ok \in BOOLEAN, Read(edge, ok)
    PROVE  Awake'
<1>1. store' = Walk(store, edge, {"none"})
  BY DEF Read, RecomputeForMaintenance
<1>2. store' \in Stores /\ Settled(store')
  BY <1>1, WalkType, WalkSettles DEF Typed, TypeOK, Stores
<1>3. CASE store' = store
  BY <1>3 DEF Read, Awake, Settled
<1>4. CASE store' # store
  <2>1. Persist(ok, store')
    BY <1>4 DEF Read
  <2> QED
    BY <1>2, <2>1, WrittenAwake
<1> QED
  BY <1>3, <1>4

LEMMA RunReturnsAwake == ASSUME Typed, RunReturns PROVE Awake'
<1>1. PICK outcome \in Outcomes, edge \in Edges, ok \in BOOLEAN : RunEnds(outcome, edge, ok)
  BY DEF RunReturns
<1> DEFINE s == [store EXCEPT ![current] = Finish(current, @, outcome, edge)]
<1>2. store \in Stores /\ current \in Jobs /\ store[current] \in JobState
  BY <1>1 DEF RunEnds, Typed, TypeOK, Structure, Stores
<1>3. Finish(current, store[current], outcome, edge) \in JobState \cup {Absent}
  BY <1>2, FinishType
<1>4. s \in Stores
  BY <1>2, <1>3 DEF Stores
<1>5. store' = Walk(s, edge, {"none", "past"}) /\ Persist(ok, store')
  BY <1>1 DEF RunEnds, RecomputeNextRuns
<1> HIDE DEF s
<1>6. store' \in Stores /\ Settled(store')
  BY <1>4, <1>5, WalkType, WalkSettles
<1> QED
  BY <1>5, <1>6, WrittenAwake

\* Time brings no job a run that it did not have.
LEMMA SameRuns ==
    ASSUME NEW s \in Stores, NEW t, NEW k \in Jobs, NEW r \in JobState \cup {Absent},
           t = [s EXCEPT ![k] = r],
           r = Absent <=> s[k] = Absent,
           r # Absent => r.enabled = s[k].enabled,
           r # Absent => r.last = s[k].last,
           r # Absent => (r.next = "none" <=> s[k].next = "none")
    PROVE  (Settled(s) => Settled(t)) /\ (Armed(t) => Armed(s))
<1>1. \A j \in Jobs : t[j] = IF j = k THEN r ELSE s[j]
  BY DEF Stores
<1> QED
  BY <1>1 DEF Settled, Armed

LEMMA LaterRuns ==
    ASSUME NEW s \in Stores, NEW t, NEW k \in Jobs, t = [s EXCEPT ![k] = Later(k, s[k])]
    PROVE  (Settled(s) => Settled(t)) /\ (Armed(t) => Armed(s))
<1> DEFINE r == Later(k, s[k])
<1>1. s[k] \in JobState \cup {Absent}
  BY DEF Stores
<1>2. /\ r \in JobState \cup {Absent}
      /\ r = Absent <=> s[k] = Absent
      /\ r # Absent => /\ r.enabled = s[k].enabled
                       /\ r.last = s[k].last
                       /\ (r.next = "none" <=> s[k].next = "none")
  BY <1>1, LaterJob
<1>3. t = [s EXCEPT ![k] = r]
  OBVIOUS
<1> HIDE DEF r
<1> QED
  BY <1>2, <1>3, SameRuns

LEMMA AgedRuns ==
    ASSUME NEW s \in Stores, NEW t, NEW k \in Jobs, t = [s EXCEPT ![k] = Aged(s[k])]
    PROVE  (Settled(s) => Settled(t)) /\ (Armed(t) => Armed(s))
<1> DEFINE r == Aged(s[k])
<1>1. s[k] \in JobState \cup {Absent}
  BY DEF Stores
<1>2. /\ r \in JobState \cup {Absent}
      /\ r = Absent <=> s[k] = Absent
      /\ r # Absent => /\ r.enabled = s[k].enabled
                       /\ r.last = s[k].last
                       /\ (r.next = "none" <=> s[k].next = "none")
  BY <1>1, AgedJob
<1>3. t = [s EXCEPT ![k] = r]
  OBVIOUS
<1> HIDE DEF r
<1> QED
  BY <1>2, <1>3, SameRuns

LEMMA ClockAwake ==
    ASSUME Typed, Awake, Clock
    PROVE  Awake' /\ (Armed(store') => Armed(store))
<1>1. disk \in Stores /\ store \in Stores
  BY DEF Typed, TypeOK, Stores
<1>2. /\ Settled(disk) => Settled(disk')
      /\ Settled(store) => Settled(store')
      /\ Armed(store') => Armed(store)
      /\ faults' = faults
  <2>1. ASSUME NEW k \in Jobs, Elapse(k) PROVE <1>2!:
    <3>1. /\ disk' = [disk EXCEPT ![k] = Later(k, disk[k])]
          /\ store' = [store EXCEPT ![k] = Later(k, store[k])]
          /\ faults' = faults
      BY <2>1 DEF Elapse
    <3>2. Settled(disk) => Settled(disk')
      BY <1>1, <3>1, LaterRuns
    <3>3. (Settled(store) => Settled(store')) /\ (Armed(store') => Armed(store))
      BY <1>1, <3>1, LaterRuns
    <3> QED
      BY <3>1, <3>2, <3>3
  <2>2. ASSUME NEW k \in Jobs, MarkAges(k) PROVE <1>2!:
    <3>1. /\ disk' = [disk EXCEPT ![k] = Aged(disk[k])]
          /\ store' = [store EXCEPT ![k] = Aged(store[k])]
          /\ faults' = faults
      BY <2>2 DEF MarkAges
    <3>2. Settled(disk) => Settled(disk')
      BY <1>1, <3>1, AgedRuns
    <3>3. (Settled(store) => Settled(store')) /\ (Armed(store') => Armed(store))
      BY <1>1, <3>1, AgedRuns
    <3> QED
      BY <3>1, <3>2, <3>3
  <2> QED
    BY <2>1, <2>2 DEF Clock
<1> QED
  BY <1>2 DEF Awake, Settled

LEMMA NextAwake == ASSUME Typed, Awake, [Next]_vars PROVE Awake'
<1>1. CASE Boot \/ Crash
  BY <1>1, BootAwake
<1>2. CASE Tick
  BY <1>2, TickAwake
<1>3. CASE Operation
  BY <1>3, AddAwake, ChangeAwake, ReadAwake, RunReturnsAwake DEF Operation
<1>4. CASE Clock
  BY <1>4, ClockAwake
<1>5. CASE UNCHANGED vars
  BY <1>5 DEF vars, Awake, Settled
<1> QED
  BY <1>1, <1>2, <1>3, <1>4, <1>5 DEF Next

\* An operation that leaves nothing in the lock and reports no failure has set the
\* timer anew, or left memory with the runs it had.
LEMMA OperationSets ==
    ASSUME Typed, Awake, Operation, faults' = 0, Armed(store')
    PROVE  timer' \/ (Armed(store) /\ UNCHANGED <<timer, phase, boot>> /\ faults = 0)
<1>1. store \in Stores
  BY DEF Typed, TypeOK, Stores
<1>2. ASSUME NEW s, NEW ok \in BOOLEAN, Commit(s, ok) PROVE timer'
  <2>1. ok
    BY <1>2, FailedAwake DEF Commit
  <2> QED
    BY <1>2, <2>1 DEF Commit
<1>3. ASSUME NEW j \in Jobs, NEW enabled, NEW when, NEW edge, NEW ok \in BOOLEAN,
             Add(j, enabled, when, edge, ok)
      PROVE  timer'
  BY <1>2, <1>3 DEF Add
<1>4. ASSUME NEW j \in Jobs, ChangeOf(j)
      PROVE  timer' \/ (Armed(store) /\ UNCHANGED <<timer, phase, boot>> /\ faults = 0)
  <2>1. ASSUME NEW enabled, NEW when, NEW edge, NEW ok \in BOOLEAN,
               Reschedule(j, enabled, when, edge, ok)
        PROVE  timer'
    BY <1>2, <2>1 DEF Reschedule
  <2>2. ASSUME NEW edge, NEW ok \in BOOLEAN, Edit(j, edge, ok) PROVE timer'
    BY <1>2, <2>2 DEF Edit
  <2>3. ASSUME NEW enabled, NEW when, EditRefused(j, enabled, when) PROVE FALSE
    BY <2>3, FailedAwake DEF EditRefused
  <2>4. ASSUME NEW ok \in BOOLEAN, Remove(j, ok) PROVE timer'
    BY <1>2, <2>4 DEF Remove
  <2>5. ASSUME NEW force \in BOOLEAN, Run(j, force)
        PROVE  Armed(store) /\ UNCHANGED <<timer, phase, boot, faults>>
    <3> DEFINE js == {j}
    <3>1. /\ store' = Marked(store, js) /\ js \in SUBSET Jobs
          /\ \A k \in js : store[k] # Absent
          /\ UNCHANGED <<timer, phase, boot, faults>>
      BY <2>5 DEF Run, Present
    <3> HIDE DEF js
    <3> QED
      BY <1>1, <3>1, MarkedSettled
  <2> QED
    BY <1>4, <2>1, <2>2, <2>3, <2>4, <2>5 DEF ChangeOf
<1>5. ASSUME NEW edge \in Edges, NEW ok \in BOOLEAN, Read(edge, ok)
      PROVE  Armed(store) /\ UNCHANGED <<timer, phase, boot>> /\ faults = 0
  <2>1. store' = Walk(store, edge, {"none"}) /\ UNCHANGED <<timer, phase, boot>>
    BY <1>5 DEF Read, RecomputeForMaintenance
  <2>2. faults = 0
    <3>1. CASE store' = store
      BY <1>5, <3>1 DEF Read
    <3>2. CASE store' # store
      <4>1. store' \in Stores
        BY <1>1, <2>1, WalkType
      <4>2. Persist(ok, store')
        BY <1>5, <3>2 DEF Read
      <4> QED
        BY <4>1, <4>2, PersistStep DEF Typed, TypeOK, Stores
    <3> QED
      BY <3>1, <3>2
  <2>3. Armed(store)
    BY <1>1, <2>1, <2>2, SettledStaysArmed DEF Awake
  <2> QED
    BY <2>1, <2>2, <2>3
<1>6. ASSUME NEW outcome, NEW edge, NEW ok \in BOOLEAN, RunEnds(outcome, edge, ok) PROVE timer'
  <2>1. ok
    BY <1>6, FailedAwake DEF RunEnds
  <2> QED
    BY <1>6, <2>1 DEF RunEnds
<1> QED
  BY <1>3, <1>4, <1>5, <1>6 DEF Operation, RunReturns

LEMMA TimerStep ==
    ASSUME Typed, Awake, TimerIsSet, [Next]_vars
    PROVE  TimerIsSet'
<1> SUFFICES ASSUME boot' = "up", phase' = "idle", faults' = 0, Armed(store') PROVE timer'
  <2>1. Armed(store)' <=> Armed(store')
    BY DEF Armed
  <2> QED
    BY <2>1 DEF TimerIsSet
<1>1. CASE Boot
  <2>1. ASSUME NEW edge \in Edges, NEW ok \in BOOLEAN, StartEnds(edge, ok) PROVE timer'
    BY <2>1 DEF StartEnds
  <2> QED
    BY <1>1, <2>1 DEF Boot, Start, StartFails, CatchUp, CaughtUp
<1>2. CASE Crash
  BY <1>2 DEF Crash
<1>3. CASE Tick
  <2>1. CASE TimerFires
    BY <2>1 DEF TimerFires, Typed, TypeOK
  <2>2. CASE Find
    BY <2>2 DEF Find, FindNothing, FindDue, FindFails, TickEnds
  <2>3. CASE Execute
    <3>1. ASSUME NEW j \in Jobs, OvertimeEnds(j) PROVE timer'
      <4>1. UNCHANGED <<timer, phase, boot, faults, store>>
        BY <3>1 DEF OvertimeEnds
      <4> QED
        BY <4>1 DEF TimerIsSet, Armed
    <3>2. CASE \A j \in Jobs : ~OvertimeEnds(j)
      <4>1. phase = "running" /\ phase' = phase
        BY <2>3, <3>2 DEF Execute, RunDueJob, DueJobEnds, DueJobTimesOut, Typed, TypeOK, Structure
      <4> QED
        BY <4>1
    <3> QED
      BY <3>1, <3>2
  <2>4. CASE Apply
    BY <2>4 DEF Apply, ApplyResults, LoseResults, TickEnds
  <2> QED
    BY <1>3, <2>1, <2>2, <2>3, <2>4 DEF Tick
<1>4. CASE Operation
  BY <1>4, OperationSets DEF TimerIsSet
<1>5. CASE Clock
  <2>1. UNCHANGED <<timer, phase, boot, faults>>
    BY <1>5 DEF Clock, Elapse, MarkAges
  <2> QED
    BY <1>5, <2>1, ClockAwake DEF TimerIsSet
<1>6. CASE UNCHANGED vars
  BY <1>6 DEF vars, TimerIsSet, Armed
<1> QED
  BY <1>1, <1>2, <1>3, <1>4, <1>5, <1>6 DEF Next

\* The scheduler never falls asleep: until a first write fails, the timer is set
\* whenever no tick is at work and a job has a next run, after every tick, every
\* operation and every start.
THEOREM TimerIsSetAlways == Spec => []TimerIsSet
<1>1. Init => TimerIsSet
  BY DEF Init, TimerIsSet
<1> QED
  BY <1>1, AlwaysTyped, InitAwake, NextAwake, TimerStep, PTL DEF Spec
-----------------------------------------------------------------------------
(* Markers that nobody takes away *)

Marks(s) == {j \in Jobs : s[j] # Absent /\ s[j].mark # "no"}
Taken == {j \in Jobs : exec[j] # "no"}

\* Once the service is up and as long as no write has failed, a job that says in
\* memory that it is running is in the hands of the tick or executed under the
\* lock: no marker is left over that would keep the job from running for the two
\* hours after which normalizeJobTickState takes it away.
NoStuckMarker ==
    boot = "up" /\ faults = 0 =>
        \A j \in Jobs : store[j] # Absent /\ store[j].mark # "no" => exec[j] # "no" \/ current = j

\* What the file says is true of the tick alone, since a manual run and the
\* catch-up write nothing before they end; and until the service is up the file
\* may hold the markers of the last process, which start() has taken from memory.
Honest ==
    /\ boot = "starting" => Marks(store) \subseteq {current}
    /\ boot = "up" /\ faults = 0 => /\ Marks(disk) \subseteq Taken
                                    /\ Marks(store) \subseteq Taken \cup {current}

LEMMA WalkMarks ==
    ASSUME NEW s \in Stores, NEW edge, NEW which
    PROVE  Marks(Walk(s, edge, which)) \subseteq Marks(s)
<1> SUFFICES ASSUME NEW j \in Marks(Walk(s, edge, which)) PROVE j \in Marks(s)
  OBVIOUS
<1> DEFINE r == Tidy(s[j])
           new == Walk(s, edge, which)[j]
<1>1. j \in Jobs /\ new # Absent /\ new.mark # "no"
  BY DEF Marks
<1>2. s[j] # Absent /\ s[j] \in JobState
  BY <1>1, WalkJob DEF Stores
<1>3. new = r \/ new = [r EXCEPT !.next = NextRun(j, r, edge)]
  BY <1>1, <1>2 DEF Walk
<1>4. r \in JobState /\ (r.mark # "no" => s[j].mark # "no")
  BY <1>2, TidyType DEF Tidy, JobState
<1> HIDE DEF r
<1>5. new.mark = r.mark
  BY <1>3, <1>4 DEF JobState
<1> QED
  BY <1>1, <1>2, <1>4, <1>5 DEF Marks

LEMMA MarkedMarks ==
    ASSUME NEW s, NEW js \in SUBSET Jobs
    PROVE  Marks(Marked(s, js)) \subseteq Marks(s) \cup js
BY DEF Marks, Marked

\* One job of the store changes.
LEMMA OneJobMarks ==
    ASSUME NEW s \in Stores, NEW k \in Jobs, NEW r
    PROVE  /\ Marks([s EXCEPT ![k] = r]) \subseteq Marks(s) \cup {k}
           /\ r = Absent \/ r.mark = "no" => Marks([s EXCEPT ![k] = r]) \subseteq Marks(s) \ {k}
           /\ s[k] # Absent /\ r # Absent /\ (r.mark # "no" => s[k].mark # "no")
                => Marks([s EXCEPT ![k] = r]) \subseteq Marks(s)
<1>1. \A j \in Jobs : [s EXCEPT ![k] = r][j] = IF j = k THEN r ELSE s[j]
  BY DEF Stores
<1> QED
  BY <1>1 DEF Marks

LEMMA FinishMarks ==
    ASSUME NEW j \in Jobs, NEW r \in JobState, NEW outcome, NEW edge
    PROVE  Finish(j, r, outcome, edge) = Absent \/ Finish(j, r, outcome, edge).mark = "no"
BY DEF Finish, JobState

\* While the service is up a step that leaves tick and lock alone, and marks no
\* other jobs.
LEMMA QuietHonest ==
    ASSUME Typed, Honest, boot \in {"up", "failed"}, UNCHANGED <<boot, exec, current>>,
           faults' = 0 => /\ faults = 0
                          /\ Marks(store') \subseteq Marks(store) \cup Marks(disk)
                          /\ Marks(disk') \subseteq Marks(disk) \/ (disk' = store' /\ current = None)
    PROVE  Honest'
<1>1. ASSUME boot' = "up", faults' = 0
      PROVE  Marks(disk') \subseteq Taken' /\ Marks(store') \subseteq Taken' \cup {current'}
  <2>1. /\ Marks(disk) \subseteq Taken /\ Marks(store) \subseteq Taken \cup {current}
        /\ Taken' = Taken /\ current' = current
    BY <1>1 DEF Honest, Taken
  <2>2. Marks(store') \subseteq Taken' \cup {current'}
    BY <1>1, <2>1
  <2>3. CASE disk' = store' /\ current = None
    <3>1. None \notin Marks(store')
      BY CronAssumption DEF Marks
    <3> QED
      BY <2>1, <2>2, <2>3, <3>1
  <2> QED
    BY <1>1, <2>1, <2>2, <2>3
<1>2. boot' # "starting"
  OBVIOUS
<1> QED
  BY <1>1, <1>2 DEF Honest, Marks, Taken

LEMMA InitHonest == Init => Honest
BY DEF Init, Honest, Marks

LEMMA BootHonest == ASSUME Typed, Honest, Boot \/ Crash PROVE Honest'
<1>1. disk \in Stores /\ store \in Stores /\ faults \in Nat
  BY DEF Typed, TypeOK, Stores
<1>2. CASE Start
  <2>1. \A j \in Jobs : store'[j] = IF disk[j] = Absent THEN Absent ELSE [disk[j] EXCEPT !.mark = "no"]
    BY <1>2 DEF Start
  <2>2. Marks(store') = {}
    BY <1>1, <2>1 DEF Marks, Stores, JobState
  <2>3. boot' = "starting"
    BY <1>2 DEF Start
  <2> QED
    BY <2>2, <2>3 DEF Honest, Marks
<1>3. CASE StartFails \/ Crash
  <2>1. boot' \in {"down", "failed"}
    BY <1>3 DEF StartFails, Crash
  <2> QED
    BY <2>1 DEF Honest
<1>4. ASSUME NEW j \in Jobs, CatchUp(j) PROVE Honest'
  <2>1. /\ boot = "starting" /\ current = None /\ boot' = boot
        /\ store' = Marked(store, {j}) /\ current' = j
    BY <1>4 DEF CatchUp
  <2>2. Marks(store) = {}
    BY <2>1, CronAssumption DEF Honest, Marks
  <2>3. Marks(store') \subseteq {j}
    BY <2>1, <2>2, MarkedMarks
  <2> QED
    BY <2>1, <2>3 DEF Honest, Marks
<1>5. ASSUME NEW outcome \in Outcomes, NEW edge \in Edges, CaughtUp(outcome, edge) PROVE Honest'
  <2> DEFINE new == Finish(current, store[current], outcome, edge)
  <2>1. /\ boot = "starting" /\ boot' = boot
        /\ current \in Jobs /\ store[current] \in JobState
        /\ store' = [store EXCEPT ![current] = new]
    BY <1>1, <1>5 DEF CaughtUp, Typed, TypeOK, Structure, Stores
  <2>2. new = Absent \/ new.mark = "no"
    BY <2>1, FinishMarks
  <2> HIDE DEF new
  <2>3. Marks(store') \subseteq Marks(store) \ {current}
    BY <1>1, <2>1, <2>2, OneJobMarks
  <2>4. Marks(store') = {}
    BY <2>1, <2>3 DEF Honest
  <2> QED
    BY <2>1, <2>4 DEF Honest, Marks
<1>6. ASSUME NEW edge \in Edges, NEW ok \in BOOLEAN, StartEnds(edge, ok) PROVE Honest'
  <2>1. /\ boot = "starting" /\ current = None /\ boot' = IF ok THEN "up" ELSE "failed"
        /\ store' = Walk(store, edge, {"none", "past"}) /\ Persist(ok, store')
    BY <1>6 DEF StartEnds, RecomputeNextRuns
  <2>2. Marks(store) = {}
    BY <2>1, CronAssumption DEF Honest, Marks
  <2>3. Marks(store') = {}
    BY <1>1, <2>1, <2>2, WalkMarks
  <2>4. ok => disk' = store'
    BY <2>1 DEF Persist
  <2> QED
    BY <2>1, <2>3, <2>4 DEF Honest, Marks
<1> QED
  BY <1>2, <1>3, <1>4, <1>5, <1>6 DEF Boot

LEMMA TickHonest == ASSUME Typed, Honest, Tick PROVE Honest'
<1>1. disk \in Stores /\ store \in Stores /\ faults \in Nat /\ exec = [j \in Jobs |-> exec[j]]
  BY DEF Typed, TypeOK, Stores
<1>2. boot' = boot /\ current' = current
  BY DEF Tick, TimerFires, Find, FindNothing, FindDue, FindFails, Execute, RunDueJob, DueJobEnds,
         DueJobTimesOut, OvertimeEnds, Apply, ApplyResults, LoseResults
<1>3. boot \in {"up", "failed"}
  <2>1. phase # "idle" \/ timer \/ overtime # {}
    BY <1>1 DEF Tick, TimerFires, Find, FindNothing, FindDue, FindFails, Execute, RunDueJob, DueJobEnds,
                DueJobTimesOut, OvertimeEnds, Apply, ApplyResults, LoseResults, Typed, Structure
  <2> QED
    BY <2>1 DEF Typed, TypeOK, Structure
<1>4. CASE TimerFires
  <2>1. UNCHANGED <<exec, disk, store, faults>>
    BY <1>4 DEF TimerFires
  <2> QED
    BY <1>2, <1>3, <2>1, QuietHonest
<1>5. CASE Find
  <2>1. LockFree /\ Taken = {}
    BY <1>5 DEF Find, FindNothing, FindDue, FindFails, Typed, Structure, Taken
  <2>2. ASSUME NEW edge \in Edges, NEW ok \in BOOLEAN, FindNothing(edge, ok) PROVE Honest'
    <3>1. store' = Walk(disk, edge, {"none"}) /\ exec' = exec
      BY <2>2 DEF FindNothing, RecomputeForMaintenance
    <3>2. store' \in Stores /\ Marks(store') \subseteq Marks(disk)
      BY <1>1, <3>1, WalkType, WalkMarks
    <3>3. faults' = 0 => faults = 0 /\ disk' = store'
      BY <1>1, <2>2, <3>2, PersistStep DEF FindNothing
    <3> QED
      BY <1>2, <1>3, <2>1, <3>1, <3>2, <3>3, QuietHonest DEF LockFree
  <2>3. CASE FindDue
    <3> DEFINE due == {j \in Jobs : Runnable(disk, j)}
    <3>1. /\ store' = Marked(disk, due) /\ disk' = store' /\ faults' = faults
          /\ exec' = [j \in Jobs |-> IF j \in due THEN "queued" ELSE "no"]
      BY <2>3 DEF FindDue, Persist
    <3>2. due \subseteq Jobs
      OBVIOUS
    <3> HIDE DEF due
    <3>3. Marks(store') \subseteq Marks(disk) \cup due /\ Taken' = due
      BY <3>1, <3>2, MarkedMarks DEF Taken
    <3>4. boot = "up" /\ faults = 0 => Marks(disk) = {}
      BY <2>1 DEF Honest
    <3> QED
      BY <1>2, <1>3, <3>1, <3>3, <3>4 DEF Honest, Marks
  <2>4. ASSUME NEW marked \in BOOLEAN, FindFails(marked) PROVE Honest'
    <3>1. faults' # 0
      BY <2>4, FailedAwake DEF FindFails
    <3> QED
      BY <1>2, <1>3, <3>1 DEF Honest
  <2> QED
    BY <1>5, <2>2, <2>3, <2>4 DEF Find
<1>6. ASSUME NEW k \in Jobs, RunDueJob(k) PROVE Honest'
  <2>1. /\ store' = store \/ store' = Marked(store, {k})
        /\ UNCHANGED <<disk, faults>> /\ Taken' = Taken /\ k \in Taken
    BY <1>1, <1>6 DEF RunDueJob, Taken
  <2>2. Marks(store') \subseteq Marks(store) \cup {k}
    BY <2>1, MarkedMarks
  <2> QED
    BY <1>2, <1>3, <2>1, <2>2 DEF Honest, Marks
<1>7. ASSUME NEW k \in Jobs, NEW outcome \in Outcomes, DueJobEnds(k, outcome) PROVE Honest'
  <2>1. UNCHANGED <<disk, store, faults>> /\ Taken' = Taken
    BY <1>1, <1>7 DEF DueJobEnds, Taken, Outcomes
  <2> QED
    BY <1>2, <1>3, <2>1 DEF Honest, Marks
<1>8. ASSUME NEW k \in Jobs, DueJobTimesOut(k) \/ OvertimeEnds(k) PROVE Honest'
  <2>1. UNCHANGED <<disk, store, faults>> /\ Taken' = Taken
    BY <1>1, <1>8 DEF DueJobTimesOut, OvertimeEnds, Taken
  <2> QED
    BY <1>2, <1>3, <2>1 DEF Honest, Marks
<1>9. ASSUME NEW edge \in Edges, NEW ok \in BOOLEAN, ApplyResults(edge, ok) PROVE Honest'
  <2>1. /\ \A j \in Jobs : exec[j] \notin InHand
        /\ store' = Walk(Applied(edge), edge, {"none"}) /\ Persist(ok, store')
    BY <1>9 DEF ApplyResults, RecomputeForMaintenance, Applied
  <2>2. Applied(edge) \in Stores
    BY AppliedType
  <2>3. Marks(Applied(edge)) \subseteq Marks(disk) \ Taken
    <3> SUFFICES ASSUME NEW j \in Marks(Applied(edge)) PROVE j \in Marks(disk) \ Taken
      OBVIOUS
    <3>1. j \in Jobs /\ Applied(edge)[j] # Absent /\ Applied(edge)[j].mark # "no"
      BY DEF Marks
    <3>2. CASE exec[j] \in Outcomes /\ disk[j] # Absent
      <4>1. Applied(edge)[j] = Finish(j, disk[j], exec[j], edge) /\ disk[j] \in JobState
        BY <1>1, <3>1, <3>2 DEF Applied, Stores
      <4> QED
        BY <3>1, <4>1, FinishMarks
    <3>3. CASE ~(exec[j] \in Outcomes /\ disk[j] # Absent)
      <4>1. Applied(edge)[j] = disk[j]
        BY <3>1, <3>3 DEF Applied
      <4>2. exec[j] = "no"
        BY <2>1, <3>1, <3>3, <4>1 DEF Typed, TypeOK
      <4> QED
        BY <3>1, <4>1, <4>2 DEF Marks, Taken
    <3> QED
      BY <3>2, <3>3
  <2>4. store' \in Stores /\ Marks(store') \subseteq Marks(disk) \ Taken
    BY <2>1, <2>2, <2>3, WalkType, WalkMarks
  <2>5. faults' = 0 => faults = 0 /\ disk' = store'
    BY <1>1, <2>1, <2>4, PersistStep
  <2>6. boot' = "up" /\ faults' = 0 => Marks(store') = {} /\ disk' = store'
    BY <1>2, <2>4, <2>5 DEF Honest
  <2> QED
    BY <1>2, <1>3, <2>6 DEF Honest
<1>10. CASE LoseResults
  <2>1. faults' # 0
    BY <1>10, FailedAwake DEF LoseResults
  <2> QED
    BY <1>2, <1>3, <2>1 DEF Honest
<1> QED
  BY <1>4, <1>5, <1>6, <1>7, <1>8, <1>9, <1>10 DEF Tick, Execute, Apply

\* An operation writes what is in memory, with no new marker.
LEMMA CommitHonest ==
    ASSUME Typed, Honest, NEW s \in Stores, NEW ok \in BOOLEAN, Commit(s, ok), UNCHANGED current,
           Marks(s) \subseteq Marks(store)
    PROVE  Honest'
<1>1. /\ disk \in Stores /\ faults \in Nat /\ store' = s /\ Persist(ok, s)
      /\ boot \in {"up", "failed"} /\ current = None /\ UNCHANGED <<boot, exec>>
  BY DEF Commit, LockFree, Typed, TypeOK, Stores
<1>2. faults' = 0 => faults = 0 /\ disk' = s
  BY <1>1, PersistStep
<1> QED
  BY <1>1, <1>2, QuietHonest

LEMMA AddHonest ==
    ASSUME Typed, Honest, NEW j \in Jobs, NEW enabled \in BOOLEAN, NEW when \in Timed(j), NEW edge,
           NEW ok \in BOOLEAN, Add(j, enabled, when, edge, ok)
    PROVE  Honest'
<1> DEFINE new == [enabled |-> enabled, when |-> when, next |-> "none", mark |-> "no", last |-> "none"]
           job == [new EXCEPT !.next = IF enabled THEN NextRun(j, new, edge) ELSE "none"]
           s == [store EXCEPT ![j] = job]
<1>1. new \in JobState /\ new.mark = "no"
  BY DEF JobState, Timed
<1>2. NextRun(j, new, edge) \in {"none", "ahead", "past"}
  BY <1>1, NextRunType
<1>3. job \in JobState /\ job.mark = "no"
  BY <1>1, <1>2 DEF JobState
<1>4. Commit(RecomputeNextRuns(s, edge), ok) /\ UNCHANGED current
  BY DEF Add
<1> HIDE DEF job
<1>5. store \in Stores /\ s \in Stores
  BY <1>3 DEF Typed, TypeOK, Stores
<1>6. Marks(s) \subseteq Marks(store)
  BY <1>3, <1>5, OneJobMarks
<1> HIDE DEF s
<1>7. /\ RecomputeNextRuns(s, edge) \in Stores
      /\ Marks(RecomputeNextRuns(s, edge)) \subseteq Marks(store)
  BY <1>5, <1>6, WalkType, WalkMarks DEF RecomputeNextRuns
<1> QED
  BY <1>4, <1>7, CommitHonest

LEMMA ChangeHonest == ASSUME Typed, Honest, NEW k \in Jobs, ChangeOf(k) PROVE Honest'
<1>1. disk \in Stores /\ store \in Stores /\ faults \in Nat
  BY DEF Typed, TypeOK, Stores
<1>2. ASSUME NEW enabled \in BOOLEAN, NEW when \in Timed(k), NEW edge, NEW ok \in BOOLEAN,
             Reschedule(k, enabled, when, edge, ok)
      PROVE  Honest'
  <2> DEFINE r == [store[k] EXCEPT !.enabled = enabled, !.when = when]
             on == [r EXCEPT !.next = NextRun(k, r, edge)]
             off == [r EXCEPT !.next = "none", !.mark = "no"]
             new == IF enabled THEN on ELSE off
             s == [store EXCEPT ![k] = new]
  <2>1. store[k] \in JobState /\ store[k] # Absent /\ when \in {"ahead", "past"}
    BY <1>1, <1>2 DEF Reschedule, Present, Stores, Timed
  <2>2. r \in JobState /\ r.mark = store[k].mark
    BY <2>1 DEF JobState
  <2>3. Commit(s, ok) /\ UNCHANGED current
    BY <1>2 DEF Reschedule
  <2> HIDE DEF r
  <2>4. NextRun(k, r, edge) \in {"none", "ahead", "past"}
    BY <2>2, NextRunType
  <2>5. on \in JobState /\ on.mark = r.mark /\ off \in JobState /\ off.mark = "no"
    BY <2>2, <2>4 DEF JobState
  <2> HIDE DEF on, off
  <2>6. new \in JobState /\ new # Absent /\ (new.mark # "no" => store[k].mark # "no")
    BY <2>2, <2>5, CronAssumption
  <2> HIDE DEF new
  <2>7. s \in Stores /\ Marks(s) \subseteq Marks(store)
    BY <1>1, <2>1, <2>6, OneJobMarks DEF Stores
  <2> QED
    BY <2>3, <2>7, CommitHonest
<1>3. ASSUME NEW edge, NEW ok \in BOOLEAN, Edit(k, edge, ok) PROVE Honest'
  <2> DEFINE r == store[k]
             fixed == [r EXCEPT !.next = NextRun(k, r, edge)]
             new == IF r.enabled /\ r.next = "none" THEN fixed ELSE r
             s == [store EXCEPT ![k] = new]
  <2>1. r \in JobState /\ r # Absent
    BY <1>1, <1>3 DEF Edit, Present, Stores
  <2>2. NextRun(k, r, edge) \in {"none", "ahead", "past"}
    BY <2>1, NextRunType
  <2>3. fixed \in JobState /\ fixed.mark = r.mark
    BY <2>1, <2>2 DEF JobState
  <2>4. Commit(s, ok) /\ UNCHANGED current
    <3>1. s = IF r.enabled /\ r.next = "none"
              THEN [store EXCEPT ![k].next = NextRun(k, r, edge)] ELSE store
      BY <1>1 DEF Stores
    <3> QED
      BY <1>3, <3>1 DEF Edit
  <2> HIDE DEF fixed
  <2>5. new \in JobState /\ new # Absent /\ (new.mark # "no" => store[k].mark # "no")
    BY <2>1, <2>3, CronAssumption
  <2> HIDE DEF new
  <2>6. s \in Stores /\ Marks(s) \subseteq Marks(store)
    BY <1>1, <2>1, <2>5, OneJobMarks DEF Stores
  <2> QED
    BY <2>4, <2>6, CommitHonest
<1>4. ASSUME NEW enabled, NEW when, EditRefused(k, enabled, when) PROVE Honest'
  <2>1. faults' # 0
    BY <1>4, FailedAwake DEF EditRefused
  <2>2. boot' \in {"up", "failed"}
    BY <1>4 DEF EditRefused, LockFree
  <2> QED
    BY <2>1, <2>2 DEF Honest
<1>5. ASSUME NEW ok \in BOOLEAN, Remove(k, ok) PROVE Honest'
  <2> DEFINE s == [store EXCEPT ![k] = Absent]
  <2>1. Commit(s, ok) /\ UNCHANGED current
    BY <1>5 DEF Remove
  <2>2. s \in Stores /\ Marks(s) \subseteq Marks(store)
    BY <1>1, OneJobMarks DEF Stores
  <2> QED
    BY <2>1, <2>2, CommitHonest
<1>6. ASSUME NEW force \in BOOLEAN, Run(k, force) PROVE Honest'
  <2>1. /\ store' = Marked(store, {k}) /\ current' = k /\ current = None
        /\ boot \in {"up", "failed"} /\ UNCHANGED <<disk, faults, boot>> /\ Taken' = Taken
    BY <1>6 DEF Run, LockFree, Taken
  <2>2. Marks(store') \subseteq Marks(store) \cup {k} /\ None \notin Marks(store)
    BY <2>1, MarkedMarks, CronAssumption DEF Marks
  <2> QED
    BY <2>1, <2>2 DEF Honest, Marks
<1> QED
  BY <1>2, <1>3, <1>4, <1>5, <1>6 DEF ChangeOf

LEMMA ReadHonest ==
    ASSUME Typed, Honest, NEW edge, NEW ok \in BOOLEAN, Read(edge, ok)
    PROVE  Honest'
<1>1. /\ store' = Walk(store, edge, {"none"})
      /\ boot \in {"up", "failed"} /\ current = None /\ UNCHANGED <<boot, exec, current>>
  BY DEF Read, RecomputeForMaintenance, LockFree
<1>2. store' \in Stores /\ Marks(store') \subseteq Marks(store)
  BY <1>1, WalkType, WalkMarks DEF Typed, TypeOK, Stores
<1>3. faults' = 0 => faults = 0 /\ (disk' = disk \/ disk' = store')
  <2>1. CASE store' = store
    BY <2>1 DEF Read
  <2>2. CASE store' # store
    BY <1>2, <2>2, PersistStep DEF Read, Typed, TypeOK, Stores
  <2> QED
    BY <2>1, <2>2
<1> QED
  BY <1>1, <1>2, <1>3, QuietHonest

LEMMA RunReturnsHonest == ASSUME Typed, Honest, RunReturns PROVE Honest'
<1>1. PICK outcome \in Outcomes, edge \in Edges, ok \in BOOLEAN : RunEnds(outcome, edge, ok)
  BY DEF RunReturns
<1> DEFINE new == Finish(current, store[current], outcome, edge)
           s == [store EXCEPT ![current] = new]
<1>2. store \in Stores /\ current \in Jobs /\ store[current] \in JobState
  BY <1>1 DEF RunEnds, Typed, TypeOK, Structure, Stores
<1>3. new \in JobState \cup {Absent} /\ (new = Absent \/ new.mark = "no")
  BY <1>2, FinishType, FinishMarks
<1>4. /\ store' = Walk(s, edge, {"none", "past"}) /\ Persist(ok, store')
      /\ boot' = boot /\ boot # "starting" /\ Taken' = Taken
  BY <1>1 DEF RunEnds, RecomputeNextRuns, Taken
<1> HIDE DEF new
<1>5. s \in Stores /\ Marks(s) \subseteq Marks(store) \ {current}
  BY <1>2, <1>3, OneJobMarks DEF Stores
<1> HIDE DEF s
<1>6. store' \in Stores /\ Marks(store') \subseteq Marks(store) \ {current}
  BY <1>4, <1>5, WalkType, WalkMarks
<1>7. faults' = 0 => faults = 0 /\ disk' = store'
  BY <1>4, <1>6, PersistStep DEF Typed, TypeOK, Stores
<1>8. boot' = "up" /\ faults' = 0 => Marks(store') \subseteq Taken' /\ disk' = store'
  BY <1>4, <1>6, <1>7 DEF Honest
<1> QED
  BY <1>4, <1>8 DEF Honest

LEMMA ClockHonest == ASSUME Typed, Honest, Clock PROVE Honest'
<1>1. disk \in Stores /\ store \in Stores
  BY DEF Typed, TypeOK, Stores
<1>2. Marks(store') \subseteq Marks(store) /\ Marks(disk') \subseteq Marks(disk)
  <2>1. ASSUME NEW k \in Jobs, Elapse(k)
        PROVE  Marks(store') \subseteq Marks(store) /\ Marks(disk') \subseteq Marks(disk)
    <3>1. \A s \in Stores : Marks([s EXCEPT ![k] = Later(k, s[k])]) \subseteq Marks(s)
      <4> SUFFICES ASSUME NEW s \in Stores
                   PROVE  Marks([s EXCEPT ![k] = Later(k, s[k])]) \subseteq Marks(s)
        OBVIOUS
      <4>1. s[k] \in JobState \cup {Absent}
        BY DEF Stores
      <4> QED
        BY <4>1, LaterJob, OneJobMarks
    <3> QED
      BY <1>1, <2>1, <3>1 DEF Elapse
  <2>2. ASSUME NEW k \in Jobs, MarkAges(k)
        PROVE  Marks(store') \subseteq Marks(store) /\ Marks(disk') \subseteq Marks(disk)
    <3>1. \A s \in Stores : Marks([s EXCEPT ![k] = Aged(s[k])]) \subseteq Marks(s)
      <4> SUFFICES ASSUME NEW s \in Stores
                   PROVE  Marks([s EXCEPT ![k] = Aged(s[k])]) \subseteq Marks(s)
        OBVIOUS
      <4>1. s[k] \in JobState \cup {Absent}
        BY DEF Stores
      <4>2. s[k] # Absent /\ Aged(s[k]).mark # "no" => s[k].mark # "no"
        BY DEF Aged
      <4> QED
        BY <4>1, <4>2, AgedJob, OneJobMarks
    <3> QED
      BY <1>1, <2>2, <3>1 DEF MarkAges
  <2> QED
    BY <2>1, <2>2 DEF Clock
<1>3. UNCHANGED <<boot, faults, current>> /\ Taken' = Taken
  BY DEF Clock, Elapse, MarkAges, Taken
<1> QED
  BY <1>2, <1>3 DEF Honest

LEMMA NextHonest == ASSUME Typed, Honest, [Next]_vars PROVE Honest'
<1>1. CASE Boot \/ Crash
  BY <1>1, BootHonest
<1>2. CASE Tick
  BY <1>2, TickHonest
<1>3. CASE Operation
  BY <1>3, AddHonest, ChangeHonest, ReadHonest, RunReturnsHonest DEF Operation
<1>4. CASE Clock
  BY <1>4, ClockHonest
<1>5. CASE UNCHANGED vars
  BY <1>5 DEF vars, Honest, Marks, Taken
<1> QED
  BY <1>1, <1>2, <1>3, <1>4, <1>5 DEF Next

\* No marker outlives the run it stands for, in a service that is up and as long
\* as its writes succeed.
THEOREM NoMarkerStaysBehind == Spec => []NoStuckMarker
<1>1. Honest => NoStuckMarker
  BY DEF Honest, NoStuckMarker, Marks, Taken
<1> QED
  BY <1>1, AlwaysTyped, InitHonest, NextHonest, PTL DEF Spec
=============================================================================
