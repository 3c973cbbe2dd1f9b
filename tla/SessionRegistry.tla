-------------------------- MODULE SessionRegistry --------------------------
(***************************************************************************)
(* What the session manager promises, with the in-memory maps, the rows    *)
(* and the restarts left out: a project is a session of at most one phone, *)
(* at most MaxSessions run at a time, and each phone's focus is one of its *)
(* own sessions.  The gateway may go down and come back at any time, and   *)
(* nobody can tell, except that a focus change may be cut in two, which    *)
(* leaves the phone without focus until it asks for one.                   *)
(*                                                                         *)
(* Sessions.tla implements this as long as nobody stops a session that is  *)
(* already being stopped.                                                  *)
(***************************************************************************)
EXTENDS FiniteSets, Naturals

CONSTANTS Projects, Phones, None, MaxSessions

VARIABLES
    holder,             \* the phone whose session each project is
    focus               \* the project each phone is focused on

vars == <<holder, focus>>

Running == {p \in Projects : holder[p] # None}
Of(o) == {p \in Projects : holder[p] = o}

Init ==
    /\ holder = [p \in Projects |-> None]
    /\ focus = [o \in Phones |-> None]

\* A phone's first session gets its focus.  A later one does not.
Open(p, o) ==
    /\ holder[p] = None
    /\ Cardinality(Running) < MaxSessions
    /\ holder' = [holder EXCEPT ![p] = o]
    /\ focus' = IF Of(o) = {} THEN [focus EXCEPT ![o] = p] ELSE focus

\* The focus a session leaves behind goes to another session of the phone.  It
\* may be lost, to a crash, only then.
Close(p, o) ==
    /\ holder[p] = o
    /\ holder' = [holder EXCEPT ![p] = None]
    /\ IF focus[o] = p
       THEN \E q \in (Of(o) \ {p}) \cup {None} : focus' = [focus EXCEPT ![o] = q]
       ELSE UNCHANGED focus

\* The phone moves its focus, or a crash cuts the move.
Focus(p, o) ==
    /\ holder[p] = o
    /\ \E q \in {p, None} : focus' = [focus EXCEPT ![o] = q]
    /\ UNCHANGED holder

Next == \E p \in Projects, o \in Phones : Open(p, o) \/ Close(p, o) \/ Focus(p, o)

Spec == Init /\ [][Next]_vars
=============================================================================
