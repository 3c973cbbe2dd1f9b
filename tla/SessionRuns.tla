----------------------------- MODULE SessionRuns -----------------------------
(***************************************************************************)
(* What the lanes promise about the runs of a session, without lanes: the  *)
(* runs begin in the order they were submitted, and within one life of the *)
(* gateway one at a time.  A run that still waits may be dropped; a run    *)
(* that has begun ends by itself.  A restart begins a new life, in which   *)
(* runs of an earlier life may still go on.                                *)
(***************************************************************************)
EXTENDS Naturals

CONSTANTS Runs, Sessions, None

VARIABLES
    status,             \* of each run: new, waiting, running or over
    session,            \* of each run, None while it is new
    life,               \* of each run: the life it began in
    now                 \* the current life

vars == <<status, session, life, now>>

Init ==
    /\ status = [r \in Runs |-> "new"]
    /\ session = [r \in Runs |-> None]
    /\ life = [r \in Runs |-> 0]
    /\ now = 0

Submit(r, s) ==
    /\ status[r] = "new"
    /\ \A q \in Runs : q < r => status[q] # "new"
    /\ status' = [status EXCEPT ![r] = "waiting"]
    /\ session' = [session EXCEPT ![r] = s]
    /\ UNCHANGED <<life, now>>

\* r is the first of its session that waits, and no run of this life is on.
Begin(r) ==
    /\ status[r] = "waiting"
    /\ \A q \in Runs : session[q] = session[r] =>
          /\ status[q] = "waiting" => r <= q
          /\ status[q] = "running" => life[q] < now
    /\ status' = [status EXCEPT ![r] = "running"]
    /\ life' = [life EXCEPT ![r] = now]
    /\ UNCHANGED <<session, now>>

End(r) ==
    /\ status[r] = "running"
    /\ status' = [status EXCEPT ![r] = "over"]
    /\ UNCHANGED <<session, life, now>>

\* All waiting runs of a session are dropped.
Drop(s) ==
    /\ status' = [r \in Runs |->
          IF status[r] = "waiting" /\ session[r] = s THEN "over" ELSE status[r]]
    /\ UNCHANGED <<session, life, now>>

Restart ==
    /\ now' = now + 1
    /\ UNCHANGED <<status, session, life>>

Next ==
    \/ \E r \in Runs, s \in Sessions : Submit(r, s)
    \/ \E r \in Runs : Begin(r) \/ End(r)
    \/ \E s \in Sessions : Drop(s)
    \/ Restart

Spec == Init /\ [][Next]_vars
=============================================================================
