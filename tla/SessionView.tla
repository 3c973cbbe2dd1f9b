----------------------------- MODULE SessionView -----------------------------
(***************************************************************************)
(* What the approval path sees of the sessions of one phone: which are     *)
(* active, which one has the focus, and whether the gateway runs.  Ids are *)
(* never used twice.  The gateway may go down at any time; if that cuts    *)
(* the end of a session or a change of focus in two, the session is over   *)
(* or the phone has no focus when it comes back.                           *)
(*                                                                         *)
(* Approval.tla is built on these actions, and Sessions.tla implements     *)
(* them for every phone, as long as nobody stops a session that is already *)
(* being stopped: so the approval path may rely on the session manager for *)
(* all that it assumes of it here.                                         *)
(***************************************************************************)
CONSTANTS Ids, None

VARIABLES
    born,               \* sessions created so far
    live,               \* active sessions; while down, those to be restored
    focused,            \* the focused one, or None
    up                  \* the gateway runs

vars == <<born, live, focused, up>>

Init ==
    /\ born = {}
    /\ live = {}
    /\ focused = None
    /\ up = TRUE

\* The first session gets the focus.
Open(s) ==
    /\ up
    /\ s \notin born
    /\ born' = born \cup {s}
    /\ live' = live \cup {s}
    /\ focused' = IF live = {} THEN s ELSE focused
    /\ UNCHANGED up

\* The focus moves on to another session if there is one.
Close(s) ==
    /\ up
    /\ s \in live
    /\ live' = live \ {s}
    /\ \/ focused # s /\ UNCHANGED focused
       \/ focused = s /\ focused' \in live'
       \/ focused = s /\ live' = {} /\ focused' = None
    /\ UNCHANGED <<born, up>>

Focus(s) ==
    /\ up
    /\ s \in live
    /\ focused' = s
    /\ UNCHANGED <<born, live, up>>

\* The process ends between two callbacks, in a change of focus, or in the end
\* of a session.
Down ==
    /\ up
    /\ up' = FALSE
    /\ \/ UNCHANGED <<live, focused>>
       \/ focused' = None /\ UNCHANGED live
       \/ \E s \in live :
             /\ live' = live \ {s}
             /\ focused' = IF focused = s THEN None ELSE focused
    /\ UNCHANGED born

Up ==
    /\ ~up
    /\ up' = TRUE
    /\ UNCHANGED <<born, live, focused>>

Next ==
    \/ \E s \in Ids : Open(s) \/ Close(s) \/ Focus(s)
    \/ Down
    \/ Up

Spec == Init /\ [][Next]_vars
=============================================================================
