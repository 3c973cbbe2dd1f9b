------------------------------ MODULE Sessions ------------------------------
(***************************************************************************)
(* SessionManager and FocusModel: creating, stopping and focusing sessions *)
(* across gateway restarts (sessions/jorchbot/manager.ts).                 *)
(*                                                                         *)
(* Three records of the same facts have to agree: the map of active        *)
(* sessions, keyed by project; the focus of each phone, by project name;   *)
(* and the rows of the sessions table, keyed by session id.  Everything    *)
(* between two awaits is one action; stopping a session awaits the end of  *)
(* its Claude process in the middle, and other commands run meanwhile.     *)
(* The database calls are synchronous, so only the end of the gateway      *)
(* process comes between two writes.                                       *)
(***************************************************************************)
EXTENDS FiniteSets, Naturals

CONSTANTS
    Projects, Phones,
    None,               \* no project, no phone
    MaxSessions,        \* maxConcurrent of the configuration
    MaxIds,             \* bound: sessions ever created
    MaxStops,           \* bound: calls that stop one session at the same time
    MaxCrashes          \* bound: times the gateway process ends

ASSUME SessionsAssumption ==
    /\ None \notin Projects \cup Phones
    /\ MaxSessions \in Nat
    /\ MaxIds \in Nat
    /\ MaxStops \in Nat \ {0}
    /\ MaxCrashes \in Nat

Ids == 1..MaxIds        \* ids in the order of creation

VARIABLES
    \* the sessions table, in insertion order
    status, project, owner, focusedRow,
    \* SessionManager: the map `active`, FocusModel, calls of destroy
    sid,                \* session id of each project in the map, 0 if none
    slot,               \* place of the project's key in the map
    focus,              \* the map `focused`: project of each phone
    stops,              \* calls of destroy that wait for each session's runner
    up, crashes

rowVars == <<status, project, owner, focusedRow>>
memoryVars == <<sid, slot, focus, stops>>
processVars == <<up, crashes>>
vars == <<rowVars, memoryVars, processVars>>

TypeOK ==
    /\ status \in [Ids -> {"none", "active", "stopped"}]
    /\ project \in [Ids -> Projects \cup {None}]
    /\ owner \in [Ids -> Phones \cup {None}]
    /\ focusedRow \in [Ids -> BOOLEAN]
    /\ sid \in [Projects -> Ids \cup {0}]
    /\ slot \in [Projects -> Ids \cup {0}]
    /\ focus \in [Phones -> Projects \cup {None}]
    /\ stops \in [Ids -> 0..MaxStops]
    /\ up \in BOOLEAN
    /\ crashes \in Nat

Init ==
    /\ status = [i \in Ids |-> "none"]
    /\ project = [i \in Ids |-> None]
    /\ owner = [i \in Ids |-> None]
    /\ focusedRow = [i \in Ids |-> FALSE]
    /\ sid = [p \in Projects |-> 0]
    /\ slot = [p \in Projects |-> 0]
    /\ focus = [o \in Phones |-> None]
    /\ stops = [i \in Ids |-> 0]
    /\ up = TRUE
    /\ crashes = 0

-----------------------------------------------------------------------------
(***************************************************************************)
(* An operator whose comment starts with "Mistake" is a form of the        *)
(* definition after it that a plausible bug would give.  No action uses    *)
(* it: PROJECT.json pairs it with the property that catches it.            *)
(***************************************************************************)

Active == {p \in Projects : sid[p] # 0}

\* A session of the map keeps the owner it was created with, as its row does.
OwnedBy(o) == {p \in Active : owner[sid[p]] = o}

Rows(s) == {i \in Ids : status[i] = s}

\* The first of some keys of the map, in the map's order.
FirstOf(S) == {p \in S : \A q \in S : slot[p] <= slot[q]}

\* Mistake: the target gets the focus and the others keep theirs.
RowsFocusedToo(p, owned) ==
    [i \in Ids |-> IF i = sid[p] THEN TRUE ELSE focusedRow[i]]

\* updateFocusInDb(p, true, o), where the owner's sessions in the map are owned.
RowsFocusedOn(p, owned) ==
    [i \in Ids |->
        IF i = sid[p] THEN TRUE
        ELSE IF \E q \in owned : sid[q] = i THEN FALSE
        ELSE focusedRow[i]]

\* updateFocusInDb(p, false, o)
RowsUnfocused(p) ==
    [i \in Ids |->
        IF p # None /\ p \in Active /\ i = sid[p] THEN FALSE ELSE focusedRow[i]]

IsFirstForOwner(o) == OwnedBy(o) = {}

\* Mistake: the limit is compared after counting the new session as well.
BelowLimitOrAt == Cardinality(Active) <= MaxSessions

BelowLimit == Cardinality(Active) < MaxSessions

\* create: no await between the checks and the insertions.
Create(i, p, o) ==
    /\ up
    /\ BelowLimit
    /\ p \notin Active
    /\ status[i] = "none"
    /\ \A j \in 1..(i - 1) : status[j] # "none"
    /\ status' = [status EXCEPT ![i] = "active"]
    /\ project' = [project EXCEPT ![i] = p]
    /\ owner' = [owner EXCEPT ![i] = o]
    /\ focusedRow' = [focusedRow EXCEPT ![i] = IsFirstForOwner(o)]
    /\ sid' = [sid EXCEPT ![p] = i]
    /\ slot' = [slot EXCEPT ![p] = i]
    /\ focus' = IF IsFirstForOwner(o) THEN [focus EXCEPT ![o] = p] ELSE focus
    /\ UNCHANGED <<stops, processVars>>

-----------------------------------------------------------------------------
(* destroy, in two steps: before and after the await of runner.stop() *)

DestroyBegin(p) ==
    /\ up
    /\ p \in Active
    /\ stops[sid[p]] < MaxStops
    /\ stops' = [stops EXCEPT ![sid[p]] = @ + 1]
    /\ UNCHANGED <<rowVars, sid, slot, focus, processVars>>

\* The runner has stopped, or the kill timer passed.
Stopped(i) ==
    /\ up
    /\ stops[i] > 0
    /\ stops' = [stops EXCEPT ![i] = @ - 1]

\* The owner's focus and its rows when project p has left the map: the next of
\* the owner's sessions gets a focus that was on p.
FocusMovesOn(p, o, left) ==
    \/ /\ focus[o] # p
       /\ UNCHANGED <<focus, focusedRow>>
    \/ /\ focus[o] = p
       /\ \E q \in FirstOf(left) :
             /\ focus' = [focus EXCEPT ![o] = q]
             /\ focusedRow' = RowsFocusedOn(q, left)
    \/ /\ focus[o] = p
       /\ left = {}
       /\ focus' = [focus EXCEPT ![o] = None]
       /\ UNCHANGED focusedRow

\* Mistake: the row stays active.
DestroyEndKeepsRow(i) ==
    /\ Stopped(i)
    /\ sid' = [sid EXCEPT ![project[i]] = 0]
    /\ slot' = [slot EXCEPT ![project[i]] = 0]
    /\ FocusMovesOn(project[i], owner[i], OwnedBy(owner[i]) \ {project[i]})
    /\ UNCHANGED <<status, project, owner, processVars>>

\* Mistake: the focus of the session that ends goes to no other session.
DestroyEndDropsFocus(i) ==
    /\ Stopped(i)
    /\ status' = [status EXCEPT ![i] = "stopped"]
    /\ sid' = [sid EXCEPT ![project[i]] = 0]
    /\ slot' = [slot EXCEPT ![project[i]] = 0]
    /\ focus' = [focus EXCEPT ![owner[i]] = IF @ = project[i] THEN None ELSE @]
    /\ UNCHANGED <<project, owner, focusedRow, processVars>>

\* Mistake: the next session is taken from the whole map.
DestroyEndAnyNext(i) ==
    /\ Stopped(i)
    /\ status' = [status EXCEPT ![i] = "stopped"]
    /\ sid' = [sid EXCEPT ![project[i]] = 0]
    /\ slot' = [slot EXCEPT ![project[i]] = 0]
    /\ FocusMovesOn(project[i], owner[i], Active \ {project[i]})
    /\ UNCHANGED <<project, owner, processVars>>

\* The row of the session the call found is stopped; what leaves the map is the
\* project's key, whichever session it holds by now.
DestroyEnd(i) ==
    /\ Stopped(i)
    /\ status' = [status EXCEPT ![i] = "stopped"]
    /\ sid' = [sid EXCEPT ![project[i]] = 0]
    /\ slot' = [slot EXCEPT ![project[i]] = 0]
    /\ FocusMovesOn(project[i], owner[i], OwnedBy(owner[i]) \ {project[i]})
    /\ UNCHANGED <<project, owner, processVars>>

\* Stopping the runner or the first write throws: the caller gets
\* SessionDestroyError and the session stays as it was.
DestroyFails(i) ==
    /\ Stopped(i)
    /\ UNCHANGED <<rowVars, sid, slot, focus, processVars>>

-----------------------------------------------------------------------------
(* Focus *)

SwitchFocus(p, o) ==
    /\ up
    /\ p \in OwnedBy(o)
    /\ focus' = [focus EXCEPT ![o] = p]
    /\ focusedRow' = RowsFocusedOn(p, OwnedBy(o))
    /\ UNCHANGED <<status, project, owner, sid, slot, stops, processVars>>

-----------------------------------------------------------------------------
(* The gateway process *)

\* The process is gone with its memory, and calls in flight with it.
ProcessEnds ==
    /\ up
    /\ crashes < MaxCrashes
    /\ up' = FALSE
    /\ crashes' = crashes + 1
    /\ sid' = [p \in Projects |-> 0]
    /\ slot' = [p \in Projects |-> 0]
    /\ focus' = [o \in Phones |-> None]
    /\ stops' = [i \in Ids |-> 0]

\* Between two callbacks.  An orderly shutdown stops the runners and leaves the
\* rows alone as well.
Crash ==
    /\ ProcessEnds
    /\ UNCHANGED rowVars

\* In the middle of destroy: the row is stopped, the focus has not moved.
CrashInDestroy(i) ==
    /\ ProcessEnds
    /\ stops[i] > 0
    /\ status' = [status EXCEPT ![i] = "stopped"]
    /\ UNCHANGED <<project, owner, focusedRow>>

\* In the middle of switchFocus: the old row is unfocused, the new one is not
\* focused yet.
CrashInSwitch(p, o) ==
    /\ ProcessEnds
    /\ p \in OwnedBy(o)
    /\ focusedRow' = RowsUnfocused(focus[o])
    /\ UNCHANGED <<status, project, owner>>

Last(S) == IF S = {} THEN 0 ELSE CHOOSE i \in S : \A j \in S : j <= i
First(S) == IF S = {} THEN 0 ELSE CHOOSE i \in S : \A j \in S : i <= j

RowsOf(p) == {i \in Rows("active") : project[i] = p}
FocusedRowsOf(o) == {i \in Rows("active") : owner[i] = o /\ focusedRow[i]}

\* Mistake: restore forgets the focus.
RestoreWithoutFocus ==
    /\ ~up
    /\ up' = TRUE
    /\ sid' = [p \in Projects |-> Last(RowsOf(p))]
    /\ slot' = [p \in Projects |-> First(RowsOf(p))]
    /\ UNCHANGED <<rowVars, focus, stops, crashes>>

\* restore: the active rows in the table's order.  A later row of a project takes
\* the key over, and the last focused row of a phone gives its focus.
Restore ==
    /\ ~up
    /\ up' = TRUE
    /\ sid' = [p \in Projects |-> Last(RowsOf(p))]
    /\ slot' = [p \in Projects |-> First(RowsOf(p))]
    /\ focus' = [o \in Phones |->
          IF FocusedRowsOf(o) = {} THEN None ELSE project[Last(FocusedRowsOf(o))]]
    /\ UNCHANGED <<rowVars, stops, crashes>>

-----------------------------------------------------------------------------

Next ==
    \/ \E p \in Projects, o \in Phones :
          \/ \E i \in Ids : Create(i, p, o)
          \/ SwitchFocus(p, o)
          \/ CrashInSwitch(p, o)
    \/ \E p \in Projects : DestroyBegin(p)
    \/ \E i \in Ids : DestroyEnd(i) \/ DestroyFails(i) \/ CrashInDestroy(i)
    \/ Crash
    \/ Restore

Spec == Init /\ [][Next]_vars

-----------------------------------------------------------------------------
(***************************************************************************)
(* Properties.  They hold in the behaviours in which nobody stops a        *)
(* session while it is being stopped, as with MaxStops = 1.                *)
(***************************************************************************)

NoSecondStop == \A i \in Ids : stops[i] <= 1

\* The map and the table tell the same sessions: /list and the status endpoint
\* read rows, everything else reads the map (create, destroy, restore).
MapMirrorsRows ==
    up => /\ Rows("active") = {sid[p] : p \in Active}
          /\ \A p \in Active : project[sid[p]] = p

RowsWithinLimit == Cardinality(Rows("active")) <= MaxSessions
OneRowPerProject == \A p \in Projects : \A i, j \in RowsOf(p) : i = j
OneFocusPerPhone == \A o \in Phones : \A i, j \in FocusedRowsOf(o) : i = j

\* What a restart would restore is sound at every moment, crashes between two
\* writes included: no two sessions of one project, none above the limit, and no
\* phone with two focused sessions (restore).
RestorableRows == RowsWithinLimit /\ OneRowPerProject /\ OneFocusPerPhone

\* focus-model.ts: "State is kept in-memory (source of truth) and mirrored to DB
\* (persistence) by SessionManager."  An active row is focused exactly if its
\* owner's focus is its project.
FocusIsMirrored ==
    up => \A i \in Rows("active") : focusedRow[i] <=> focus[owner[i]] = project[i]

\* Free texts and $ commands of a phone go to an active session of its own, never
\* to one that ended or to another phone's (create, destroy, switchFocus).
FocusIsOwn ==
    up => \A o \in Phones : focus[o] # None => focus[o] \in OwnedBy(o)

\* A phone that has a focus keeps one for as long as it has a session, and its
\* first session gets it: no step of a running gateway takes it away.
FocusIsKept ==
    [][up /\ up' =>
        \A o \in Phones :
            /\ focus[o] # None /\ OwnedBy(o)' # {} => focus'[o] # None
            /\ OwnedBy(o) = {} /\ OwnedBy(o)' # {} => focus'[o] # None]_vars

\* Restarts cannot be told from outside: read from the rows alone, the sessions
\* behave as a registry that never goes down.
RowHolder(p) == IF RowsOf(p) = {} THEN None ELSE owner[Last(RowsOf(p))]
RowFocus(o) ==
    IF FocusedRowsOf(o) = {} THEN None ELSE project[Last(FocusedRowsOf(o))]

Registry == INSTANCE SessionRegistry WITH
    holder <- [p \in Projects |-> RowHolder(p)],
    focus <- [o \in Phones |-> RowFocus(o)]

ImplementsRegistry == Registry!Spec
=============================================================================
