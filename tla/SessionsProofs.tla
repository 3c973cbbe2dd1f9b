--------------------------- MODULE SessionsProofs ---------------------------
(***************************************************************************)
(* Safety of the session manager, for every set of projects and phones,    *)
(* every limit, and any number of sessions and crashes, in every behaviour *)
(* in which nobody stops a session that is being stopped (NoSecondStop).   *)
(* SessionsOverlap shows what happens in the others.                       *)
(*                                                                         *)
(* The properties need each other.  Stopping a session clears the map by   *)
(* project name, which is right only because a session that is being       *)
(* stopped is still the one under its name (StopsRunning, MapPointwise).   *)
(* A crash leaves the rows alone in charge, so what restore needs of them  *)
(* (OneRowPerProject, OneFocusPerPhone) has to hold before the crash.      *)
(***************************************************************************)
EXTENDS Sessions, FiniteSetTheorems, TLAPS

\* A row that was written has a project and an owner.
WellFormedRows ==
    \A i \in Ids : status[i] # "none" => project[i] \in Projects /\ owner[i] \in Phones

\* Only active sessions are being stopped.
StopsRunning == \A i \in Ids : stops[i] > 0 => up /\ status[i] = "active"

\* MapMirrorsRows, said of one project or row at a time.
MapPointwise ==
    up => /\ \A p \in Projects :
                sid[p] # 0 => status[sid[p]] = "active" /\ project[sid[p]] = p
          /\ \A i \in Ids : status[i] = "active" => sid[project[i]] = i

IInv ==
    /\ TypeOK
    /\ WellFormedRows
    /\ StopsRunning
    /\ MapPointwise
    /\ OneRowPerProject
    /\ OneFocusPerPhone
    /\ FocusIsMirrored
    /\ FocusIsOwn
    /\ RowsWithinLimit

-----------------------------------------------------------------------------
(* The sets the specification speaks of *)

\* Every set of rows is finite, so cardinalities are numbers.
LEMMA RowsFinite ==
    ASSUME NEW S \in SUBSET Ids
    PROVE  IsFiniteSet(S) /\ Cardinality(S) \in Nat
  <1>1. IsFiniteSet(Ids)
    BY FS_Interval, SessionsAssumption DEF Ids
  <1>2. IsFiniteSet(S)
    BY <1>1, FS_Subset
  <1>3. QED
    BY <1>2, FS_CardinalityType

\* The two forms of "the map mirrors the rows" say the same.
LEMMA MapForms ==
    ASSUME TypeOK, WellFormedRows
    PROVE  MapMirrorsRows <=> MapPointwise
  <1> USE DEF TypeOK, Ids
  <1>1. ASSUME up, MapMirrorsRows PROVE MapPointwise
    <2>1. ASSUME NEW p \in Projects, sid[p] # 0
          PROVE  status[sid[p]] = "active" /\ project[sid[p]] = p
      <3>1. p \in Active /\ sid[p] \in Ids
        BY <2>1 DEF Active
      <3>2. sid[p] \in Rows("active")
        BY <1>1, <3>1 DEF MapMirrorsRows
      <3>3. QED
        BY <1>1, <3>1, <3>2 DEF MapMirrorsRows, Rows
    <2>2. ASSUME NEW i \in Ids, status[i] = "active" PROVE sid[project[i]] = i
      <3>1. i \in Rows("active")
        BY <2>2 DEF Rows
      <3>2. PICK p \in Active : sid[p] = i
        BY <1>1, <3>1 DEF MapMirrorsRows
      <3>3. QED
        BY <1>1, <3>2 DEF MapMirrorsRows
    <2>3. QED
      BY <2>1, <2>2 DEF MapPointwise
  <1>2. ASSUME up, MapPointwise PROVE MapMirrorsRows
    <2>1. ASSUME NEW i \in Rows("active") PROVE \E p \in Active : sid[p] = i
      <3>1. i \in Ids /\ status[i] = "active"
        BY <2>1 DEF Rows
      <3>2. project[i] \in Projects /\ sid[project[i]] = i
        BY <1>2, <3>1 DEF MapPointwise, WellFormedRows
      <3>3. QED
        BY <3>1, <3>2 DEF Active
    <2>2. ASSUME NEW p \in Active PROVE sid[p] \in Rows("active") /\ project[sid[p]] = p
      BY <1>2, <2>2 DEF Active, Rows, MapPointwise
    <2>3. QED
      BY <2>1, <2>2 DEF MapMirrorsRows
  <1>3. QED
    BY <1>1, <1>2 DEF MapMirrorsRows, MapPointwise

\* In a running gateway there are as many active rows as sessions in the map.
LEMMA AsManyRows ==
    ASSUME TypeOK, WellFormedRows, MapPointwise, up
    PROVE  Cardinality(Active) = Cardinality(Rows("active"))
  <1> DEFINE f == [p \in Active |-> sid[p]]
  <1> USE DEF TypeOK, MapPointwise, Active, Rows
  <1>1. f \in [Active -> Rows("active")]
    BY DEF Ids
  <1>2. f \in Injection(Active, Rows("active"))
    BY <1>1 DEF Injection, IsInjective
  <1>3. f \in Surjection(Active, Rows("active"))
    <2>1. ASSUME NEW i \in Rows("active") PROVE \E p \in Active : f[p] = i
      <3>1. project[i] \in Active /\ sid[project[i]] = i
        BY <2>1 DEF WellFormedRows, Ids
      <3>2. QED
        BY <3>1
    <2>2. QED
      BY <1>1, <2>1 DEF Surjection
  <1>4. f \in Bijection(Active, Rows("active"))
    BY <1>2, <1>3 DEF Bijection
  <1> HIDE DEF f
  <1>5. IsFiniteSet(Rows("active"))
    BY RowsFinite DEF Rows
  <1>6. IsFiniteSet(Active)
    BY <1>2, <1>5, FS_Injection
  <1>7. QED
    BY <1>4, <1>6, FS_Bijection DEF ExistsBijection

-----------------------------------------------------------------------------
(* The parts of the invariant, one after the other *)

\* Initially there is nothing.
LEMMA InitIInv == Init => IInv
  <1> SUFFICES ASSUME Init PROVE IInv
    OBVIOUS
  <1> USE SessionsAssumption DEF Init
  <1>1. TypeOK
    BY DEF TypeOK, Ids
  <1>2. Rows("active") = {}
    BY DEF Rows
  <1>3. RowsWithinLimit
    BY <1>2, FS_EmptySet DEF RowsWithinLimit
  <1>4. WellFormedRows /\ StopsRunning /\ MapPointwise
    BY DEF WellFormedRows, StopsRunning, MapPointwise
  <1>5. OneRowPerProject /\ OneFocusPerPhone
    BY <1>2 DEF OneRowPerProject, OneFocusPerPhone, RowsOf, FocusedRowsOf
  <1>6. FocusIsMirrored /\ FocusIsOwn
    BY <1>2 DEF FocusIsMirrored, FocusIsOwn
  <1>7. QED
    BY <1>1, <1>3, <1>4, <1>5, <1>6 DEF IInv

\* Moving the focus off project p chooses among the phone's other sessions.
LEMMA FocusMovesOnType ==
    ASSUME TypeOK, NEW p \in Projects, NEW o \in Phones,
           FocusMovesOn(p, o, OwnedBy(o) \ {p})
    PROVE  /\ focus' \in [Phones -> Projects \cup {None}]
           /\ focusedRow' \in [Ids -> BOOLEAN]
  <1> USE DEF TypeOK, FirstOf, OwnedBy, Active
  <1>1. CASE focus[o] # p
    BY <1>1 DEF FocusMovesOn
  <1>2. ASSUME NEW q \in FirstOf(OwnedBy(o) \ {p}),
               focus' = [focus EXCEPT ![o] = q],
               focusedRow' = RowsFocusedOn(q, OwnedBy(o) \ {p})
        PROVE  /\ focus' \in [Phones -> Projects \cup {None}]
               /\ focusedRow' \in [Ids -> BOOLEAN]
    BY <1>2 DEF RowsFocusedOn
  <1>3. CASE focus' = [focus EXCEPT ![o] = None] /\ UNCHANGED focusedRow
    BY <1>3
  <1>4. QED
    BY <1>1, <1>2, <1>3 DEF FocusMovesOn

\* The session a destroy call goes on with is the one its project's key holds.
LEMMA StoppedFacts ==
    ASSUME IInv, NoSecondStop, NEW i \in Ids, stops[i] > 0
    PROVE  /\ up
           /\ status[i] = "active"
           /\ stops[i] = 1
           /\ project[i] \in Projects
           /\ owner[i] \in Phones
           /\ sid[project[i]] = i
  <1>1. up /\ status[i] = "active"
    BY DEF IInv, StopsRunning
  <1>2. stops[i] = 1
    BY SessionsAssumption DEF IInv, TypeOK, NoSecondStop
  <1>3. QED
    BY <1>1, <1>2 DEF IInv, WellFormedRows, MapPointwise

\* The last and the first of one id are that id.
LEMMA OnlyOne ==
    ASSUME NEW i \in Int
    PROVE  Last({i}) = i /\ First({i}) = i
  <1>1. \E j \in {i} : \A k \in {i} : k <= j
    OBVIOUS
  <1>2. \E j \in {i} : \A k \in {i} : j <= k
    OBVIOUS
  <1>3. (CHOOSE j \in {i} : \A k \in {i} : k <= j) \in {i}
    BY <1>1
  <1>4. (CHOOSE j \in {i} : \A k \in {i} : j <= k) \in {i}
    BY <1>2
  <1>5. QED
    BY <1>3, <1>4 DEF Last, First

\* Restoring the rows gives each project the session of its one active row.
LEMMA RestoreFacts ==
    ASSUME IInv, Restore
    PROVE  /\ \A p \in Projects :
                \/ RowsOf(p) = {} /\ sid'[p] = 0 /\ slot'[p] = 0
                \/ \E i \in RowsOf(p) : sid'[p] = i /\ slot'[p] = i
           /\ \A o \in Phones :
                \/ FocusedRowsOf(o) = {} /\ focus'[o] = None
                \/ \E i \in FocusedRowsOf(o) : focus'[o] = project[i]
  <1> USE DEF IInv, Ids
  <1>1. ASSUME NEW p \in Projects, RowsOf(p) # {}
        PROVE  \E i \in RowsOf(p) : Last(RowsOf(p)) = i /\ First(RowsOf(p)) = i
    <2>1. PICK i \in RowsOf(p) : TRUE
      BY <1>1
    <2>2. \A j \in RowsOf(p) : i = j
      BY <2>1 DEF OneRowPerProject
    <2>3. i \in Int
      BY <2>1 DEF RowsOf, Rows
    <2>4. RowsOf(p) = {i}
      BY <2>1, <2>2
    <2>5. QED
      BY <2>3, <2>4, OnlyOne
  <1>2. ASSUME NEW o \in Phones, FocusedRowsOf(o) # {}
        PROVE  \E i \in FocusedRowsOf(o) : Last(FocusedRowsOf(o)) = i
    <2>1. PICK i \in FocusedRowsOf(o) : TRUE
      BY <1>2
    <2>2. \A j \in FocusedRowsOf(o) : i = j
      BY <2>1 DEF OneFocusPerPhone
    <2>3. i \in Int
      BY <2>1 DEF FocusedRowsOf, Rows
    <2>4. FocusedRowsOf(o) = {i}
      BY <2>1, <2>2
    <2>5. QED
      BY <2>3, <2>4, OnlyOne
  <1>3. ASSUME NEW p \in Projects
        PROVE  \/ RowsOf(p) = {} /\ sid'[p] = 0 /\ slot'[p] = 0
               \/ \E i \in RowsOf(p) : sid'[p] = i /\ slot'[p] = i
    <2>1. sid'[p] = Last(RowsOf(p)) /\ slot'[p] = First(RowsOf(p))
      BY DEF Restore
    <2>2. CASE RowsOf(p) = {}
      BY <2>1, <2>2 DEF Last, First
    <2>3. CASE RowsOf(p) # {}
      BY <2>1, <2>3, <1>1
    <2>4. QED
      BY <2>2, <2>3
  <1>4. ASSUME NEW o \in Phones
        PROVE  \/ FocusedRowsOf(o) = {} /\ focus'[o] = None
               \/ \E i \in FocusedRowsOf(o) : focus'[o] = project[i]
    <2>1. CASE FocusedRowsOf(o) = {}
      BY <2>1 DEF Restore
    <2>2. CASE FocusedRowsOf(o) # {}
      BY <2>2, <1>2 DEF Restore
    <2>3. QED
      BY <2>1, <2>2
  <1>5. QED
    BY <1>3, <1>4

-----------------------------------------------------------------------------
(* Every step preserves the parts *)

\* Every step keeps the variables in their types.
LEMMA NextTypeOK ==
    ASSUME IInv, NoSecondStop, [Next]_vars
    PROVE  TypeOK'
  <1>t. TypeOK
    BY DEF IInv
  <1> USE SessionsAssumption DEF rowVars, memoryVars, processVars
  <1>1. ASSUME NEW i \in Ids, NEW p \in Projects, NEW o \in Phones, Create(i, p, o)
        PROVE  TypeOK'
    <2> USE <1>t, <1>1 DEF TypeOK, Create
    <2>1. IsFirstForOwner(o) \in BOOLEAN
      BY DEF IsFirstForOwner
    <2>2. focusedRow' \in [Ids -> BOOLEAN]
      BY <2>1
    <2>3. status' \in [Ids -> {"none", "active", "stopped"}]
      OBVIOUS
    <2>4. focus' \in [Phones -> Projects \cup {None}]
      OBVIOUS
    <2>5. /\ project' \in [Ids -> Projects \cup {None}]
          /\ owner' \in [Ids -> Phones \cup {None}]
          /\ sid' \in [Projects -> Ids \cup {0}]
          /\ slot' \in [Projects -> Ids \cup {0}]
      OBVIOUS
    <2>6. QED
      BY <2>2, <2>3, <2>4, <2>5
  <1>2. ASSUME NEW p \in Projects, DestroyBegin(p) PROVE TypeOK'
    <2> USE <1>t, <1>2 DEF TypeOK, DestroyBegin, Active
    <2>1. stops' \in [Ids -> 0..MaxStops]
      OBVIOUS
    <2>2. QED
      BY <2>1
  <1>3. ASSUME NEW i \in Ids, Stopped(i)
        PROVE  stops' \in [Ids -> 0..MaxStops]
    BY <1>t, <1>3 DEF TypeOK, Stopped
  <1>4. ASSUME NEW i \in Ids, DestroyEnd(i) PROVE TypeOK'
    <2>1. project[i] \in Projects /\ owner[i] \in Phones
      BY <1>4, StoppedFacts DEF DestroyEnd, Stopped
    <2>2. /\ focus' \in [Phones -> Projects \cup {None}]
          /\ focusedRow' \in [Ids -> BOOLEAN]
      BY <1>t, <1>4, <2>1, FocusMovesOnType DEF DestroyEnd
    <2>3. status' \in [Ids -> {"none", "active", "stopped"}]
      BY <1>t, <1>4 DEF DestroyEnd, TypeOK
    <2>4. sid' \in [Projects -> Ids \cup {0}] /\ slot' \in [Projects -> Ids \cup {0}]
      BY <1>t, <1>4, <2>1 DEF DestroyEnd, TypeOK
    <2>5. stops' \in [Ids -> 0..MaxStops]
      BY <1>3, <1>4 DEF DestroyEnd
    <2>6. UNCHANGED <<project, owner, up, crashes>>
      BY <1>4 DEF DestroyEnd, Stopped
    <2>7. QED
      BY <1>t, <2>2, <2>3, <2>4, <2>5, <2>6 DEF TypeOK
  <1>5. ASSUME NEW i \in Ids, DestroyFails(i) PROVE TypeOK'
    BY <1>t, <1>3, <1>5 DEF DestroyFails, TypeOK
  <1>6. ASSUME NEW p \in Projects, NEW o \in Phones, SwitchFocus(p, o) PROVE TypeOK'
    BY <1>t, <1>6 DEF SwitchFocus, TypeOK, RowsFocusedOn
  <1>7. ASSUME ProcessEnds
        PROVE  /\ sid' \in [Projects -> Ids \cup {0}]
               /\ slot' \in [Projects -> Ids \cup {0}]
               /\ focus' \in [Phones -> Projects \cup {None}]
               /\ stops' \in [Ids -> 0..MaxStops]
               /\ up' \in BOOLEAN
               /\ crashes' \in Nat
    <2>1. stops' \in [Ids -> 0..MaxStops]
      BY <1>7 DEF ProcessEnds
    <2>2. crashes' \in Nat
      BY <1>t, <1>7 DEF ProcessEnds, TypeOK
    <2>3. up' \in BOOLEAN
      BY <1>7 DEF ProcessEnds
    <2>4. QED
      BY <1>7, <2>1, <2>2, <2>3 DEF ProcessEnds
  <1>8. CASE Crash
    BY <1>t, <1>7, <1>8 DEF Crash, TypeOK
  <1>9. ASSUME NEW i \in Ids, CrashInDestroy(i) PROVE TypeOK'
    <2>1. status' \in [Ids -> {"none", "active", "stopped"}]
      BY <1>t, <1>9 DEF CrashInDestroy, TypeOK
    <2>2. QED
      BY <1>t, <1>7, <1>9, <2>1 DEF CrashInDestroy, TypeOK
  <1>10. ASSUME NEW p \in Projects, NEW o \in Phones, CrashInSwitch(p, o) PROVE TypeOK'
    <2>1. focusedRow' \in [Ids -> BOOLEAN]
      BY <1>t, <1>10 DEF CrashInSwitch, RowsUnfocused, TypeOK
    <2>2. QED
      BY <1>t, <1>7, <1>10, <2>1 DEF CrashInSwitch, TypeOK
  <1>11. CASE Restore
    <2>1. sid' \in [Projects -> Ids \cup {0}] /\ slot' \in [Projects -> Ids \cup {0}]
      BY <1>11, RestoreFacts DEF Restore, RowsOf, Rows
    <2>2. focus' \in [Phones -> Projects \cup {None}]
      BY <1>t, <1>11, RestoreFacts DEF Restore, FocusedRowsOf, Rows, TypeOK
    <2>3. up' \in BOOLEAN
      BY <1>11 DEF Restore
    <2>4. QED
      BY <1>t, <1>11, <2>1, <2>2, <2>3 DEF Restore, TypeOK
  <1>12. CASE UNCHANGED vars
    BY <1>t, <1>12 DEF vars, TypeOK
  <1>13. QED
    BY <1>1, <1>2, <1>4, <1>5, <1>6, <1>8, <1>9, <1>10, <1>11, <1>12 DEF Next

\* Rows stay well formed, and only active sessions are being stopped.
LEMMA NextRowsAndStops ==
    ASSUME IInv, NoSecondStop, [Next]_vars
    PROVE  WellFormedRows' /\ StopsRunning'
  <1> USE DEF IInv, TypeOK, WellFormedRows, StopsRunning, rowVars, memoryVars, processVars
  <1>1. ASSUME NEW i \in Ids, NEW p \in Projects, NEW o \in Phones, Create(i, p, o)
        PROVE  WellFormedRows' /\ StopsRunning'
    BY <1>1 DEF Create
  <1>2. ASSUME NEW p \in Projects, DestroyBegin(p) PROVE WellFormedRows' /\ StopsRunning'
    <2>1. sid[p] \in Ids /\ status[sid[p]] = "active"
      BY <1>2 DEF DestroyBegin, Active, MapPointwise
    <2>2. QED
      BY <1>2, <2>1 DEF DestroyBegin
  <1>3. ASSUME NEW i \in Ids, DestroyEnd(i) PROVE WellFormedRows' /\ StopsRunning'
    <2>1. stops[i] = 1
      BY <1>3, StoppedFacts DEF DestroyEnd, Stopped
    <2>2. stops'[i] = 0
      BY <1>3, <2>1 DEF DestroyEnd, Stopped
    <2>3. QED
      BY <1>3, <2>2 DEF DestroyEnd, Stopped
  <1>4. ASSUME NEW i \in Ids, DestroyFails(i) PROVE WellFormedRows' /\ StopsRunning'
    <2>1. stops[i] = 1
      BY <1>4, StoppedFacts DEF DestroyFails, Stopped
    <2>2. stops'[i] = 0
      BY <1>4, <2>1 DEF DestroyFails, Stopped
    <2>3. QED
      BY <1>4, <2>2 DEF DestroyFails, Stopped
  <1>5. ASSUME NEW p \in Projects, NEW o \in Phones, SwitchFocus(p, o)
        PROVE  WellFormedRows' /\ StopsRunning'
    BY <1>5 DEF SwitchFocus
  <1>6. CASE Crash
    BY <1>6 DEF Crash, ProcessEnds
  <1>7. ASSUME NEW i \in Ids, CrashInDestroy(i) PROVE WellFormedRows' /\ StopsRunning'
    BY <1>7 DEF CrashInDestroy, ProcessEnds
  <1>8. ASSUME NEW p \in Projects, NEW o \in Phones, CrashInSwitch(p, o)
        PROVE  WellFormedRows' /\ StopsRunning'
    BY <1>8 DEF CrashInSwitch, ProcessEnds
  <1>9. CASE Restore
    BY <1>9 DEF Restore
  <1>10. CASE UNCHANGED vars
    BY <1>10 DEF vars
  <1>11. QED
    BY <1>1, <1>2, <1>3, <1>4, <1>5, <1>6, <1>7, <1>8, <1>9, <1>10 DEF Next

\* The map keeps mirroring the rows: create adds to both, the end of a destroy
\* call takes the same session from both, and restore rebuilds the one from the
\* other.
LEMMA NextMapPointwise ==
    ASSUME IInv, NoSecondStop, [Next]_vars
    PROVE  MapPointwise'
  <1> USE DEF IInv, TypeOK, MapPointwise, WellFormedRows, rowVars, memoryVars, processVars
  <1>1. ASSUME NEW i \in Ids, NEW p \in Projects, NEW o \in Phones, Create(i, p, o)
        PROVE  MapPointwise'
    <2>1. ASSUME NEW q \in Projects, sid'[q] # 0
          PROVE  status'[sid'[q]] = "active" /\ project'[sid'[q]] = q
      BY <1>1, <2>1 DEF Create, Active, Ids
    <2>2. ASSUME NEW j \in Ids, status'[j] = "active" PROVE sid'[project'[j]] = j
      BY <1>1, <2>2 DEF Create, Active, Ids
    <2>3. QED
      BY <2>1, <2>2
  <1>2. ASSUME NEW p \in Projects, DestroyBegin(p) PROVE MapPointwise'
    BY <1>2 DEF DestroyBegin
  <1>3. ASSUME NEW i \in Ids, DestroyEnd(i) PROVE MapPointwise'
    <2>1. up /\ status[i] = "active" /\ project[i] \in Projects /\ sid[project[i]] = i
      BY <1>3, StoppedFacts DEF DestroyEnd, Stopped
    <2>2. ASSUME NEW q \in Projects, sid'[q] # 0
          PROVE  status'[sid'[q]] = "active" /\ project'[sid'[q]] = q
      BY <1>3, <2>1, <2>2 DEF DestroyEnd, Ids
    <2>3. ASSUME NEW j \in Ids, status'[j] = "active" PROVE sid'[project'[j]] = j
      BY <1>3, <2>1, <2>3 DEF DestroyEnd, Ids
    <2>4. QED
      BY <2>2, <2>3
  <1>4. ASSUME NEW i \in Ids, DestroyFails(i) PROVE MapPointwise'
    BY <1>4 DEF DestroyFails, Stopped
  <1>5. ASSUME NEW p \in Projects, NEW o \in Phones, SwitchFocus(p, o) PROVE MapPointwise'
    BY <1>5 DEF SwitchFocus
  <1>6. ASSUME ProcessEnds PROVE MapPointwise'
    BY <1>6 DEF ProcessEnds
  <1>7. CASE Restore
    <2>1. ASSUME NEW q \in Projects, sid'[q] # 0
          PROVE  status'[sid'[q]] = "active" /\ project'[sid'[q]] = q
      <3>1. PICK i \in RowsOf(q) : sid'[q] = i
        BY <1>7, <2>1, RestoreFacts
      <3>2. QED
        BY <1>7, <3>1 DEF Restore, RowsOf, Rows
    <2>2. ASSUME NEW j \in Ids, status'[j] = "active" PROVE sid'[project'[j]] = j
      <3>1. project[j] \in Projects /\ j \in RowsOf(project[j]) /\ project' = project
        BY <1>7, <2>2 DEF Restore, RowsOf, Rows
      <3>2. PICK i \in RowsOf(project[j]) : sid'[project[j]] = i
        BY <1>7, <3>1, RestoreFacts
      <3>3. i = j
        BY <3>1, <3>2 DEF OneRowPerProject
      <3>4. QED
        BY <3>1, <3>2, <3>3
    <2>3. QED
      BY <2>1, <2>2
  <1>8. CASE UNCHANGED vars
    BY <1>8 DEF vars
  <1>9. QED
    BY <1>1, <1>2, <1>3, <1>4, <1>5, <1>6, <1>7, <1>8
       DEF Next, Crash, CrashInDestroy, CrashInSwitch

\* In a running gateway an active row is the session its project's key holds, and
\* its owner has it among her sessions.
LEMMA ActiveRow ==
    ASSUME IInv, up, NEW i \in Ids, status[i] = "active"
    PROVE  /\ project[i] \in Projects
           /\ project[i] # None
           /\ owner[i] \in Phones
           /\ sid[project[i]] = i
           /\ project[i] \in OwnedBy(owner[i])
  <1>1. project[i] \in Projects /\ owner[i] \in Phones
    BY DEF IInv, WellFormedRows
  <1>2. sid[project[i]] = i
    BY DEF IInv, MapPointwise
  <1>3. QED
    BY <1>1, <1>2, SessionsAssumption DEF OwnedBy, Active, Ids

\* Focus and rows after p has left the map, given that they agreed before.
LEMMA FocusMovesOnAgrees ==
    ASSUME IInv, up, NEW i \in Ids, status[i] = "active",
           FocusMovesOn(project[i], owner[i], OwnedBy(owner[i]) \ {project[i]}),
           NEW j \in Ids, j # i, status[j] = "active"
    PROVE  focusedRow'[j] <=> focus'[owner[j]] = project[j]
  <1> DEFINE p == project[i]  o == owner[i]  left == OwnedBy(o) \ {p}
  <1> USE DEF IInv, TypeOK
  <1>1. p \in Projects /\ o \in Phones /\ sid[p] = i
    BY ActiveRow
  <1>2. /\ project[j] \in Projects /\ project[j] # None /\ owner[j] \in Phones
        /\ sid[project[j]] = j /\ project[j] \in OwnedBy(owner[j])
    BY ActiveRow
  <1>3. project[j] # p
    BY <1>1, <1>2
  <1>4. focusedRow[j] <=> focus[owner[j]] = project[j]
    BY DEF FocusIsMirrored, Rows
  <1>5. CASE focus[o] # p
    BY <1>4, <1>5 DEF FocusMovesOn
  <1>6. ASSUME NEW q \in FirstOf(left),
               focus' = [focus EXCEPT ![o] = q],
               focusedRow' = RowsFocusedOn(q, left)
        PROVE  focusedRow'[j] <=> focus'[owner[j]] = project[j]
    <2>1. q \in Projects /\ owner[sid[q]] = o
      BY <1>6 DEF FirstOf, OwnedBy, Active
    <2>2. focusedRow'[j] = IF j = sid[q] THEN TRUE
                           ELSE IF \E z \in left : sid[z] = j THEN FALSE
                           ELSE focusedRow[j]
      BY <1>6 DEF RowsFocusedOn
    <2>3. CASE owner[j] = o
      <3>1. project[j] \in left
        BY <1>2, <1>3, <2>3
      <3>2. focusedRow'[j] <=> j = sid[q]
        BY <1>2, <2>2, <3>1
      <3>3. focus'[owner[j]] = q
        BY <1>1, <1>6, <2>3
      <3>4. j = sid[q] <=> project[j] = q
        <4>1. status[sid[q]] = "active" /\ project[sid[q]] = q
          BY <1>6 DEF FirstOf, OwnedBy, Active, MapPointwise
        <4>2. QED
          BY <1>2, <4>1
      <3>5. QED
        BY <3>2, <3>3, <3>4
    <2>4. CASE owner[j] # o
      <3>1. j # sid[q]
        BY <2>1, <2>4
      <3>2. ~ \E z \in left : sid[z] = j
        BY <2>4 DEF OwnedBy
      <3>3. focusedRow'[j] = focusedRow[j]
        BY <2>2, <3>1, <3>2
      <3>4. focus'[owner[j]] = focus[owner[j]]
        BY <1>2, <1>6, <2>4
      <3>5. QED
        BY <1>4, <3>3, <3>4
    <2>5. QED
      BY <2>3, <2>4
  <1>7. ASSUME left = {}, focus' = [focus EXCEPT ![o] = None], UNCHANGED focusedRow
        PROVE  focusedRow'[j] <=> focus'[owner[j]] = project[j]
    <2>1. owner[j] # o
      BY <1>2, <1>3, <1>7
    <2>2. QED
      BY <1>2, <1>4, <1>7, <2>1
  <1>8. QED
    BY <1>5, <1>6, <1>7 DEF FocusMovesOn

\* Focus and its rows keep agreeing.
LEMMA NextFocusIsMirrored ==
    ASSUME IInv, NoSecondStop, [Next]_vars
    PROVE  FocusIsMirrored'
  <1> USE DEF IInv, TypeOK, rowVars, memoryVars, processVars
  <1> SUFFICES ASSUME up', NEW j \in Ids, status'[j] = "active"
               PROVE  focusedRow'[j] <=> focus'[owner'[j]] = project'[j]
    BY DEF FocusIsMirrored, Rows
  <1> DEFINE Goal == focusedRow'[j] <=> focus'[owner'[j]] = project'[j]
  <1>0. ASSUME up, status[j] = "active"
        PROVE  focusedRow[j] <=> focus[owner[j]] = project[j]
    BY <1>0 DEF FocusIsMirrored, Rows
  <1>1. ASSUME NEW i \in Ids, NEW p \in Projects, NEW o \in Phones, Create(i, p, o)
        PROVE  Goal
    <2> USE <1>1 DEF Create
    <2>1. CASE j = i
      <3>1. focusedRow'[j] <=> IsFirstForOwner(o)
        BY <2>1
      <3>2. owner'[j] = o /\ project'[j] = p
        BY <2>1
      <3>3. focus[o] # p
        BY SessionsAssumption DEF FocusIsOwn, OwnedBy
      <3>4. focus'[o] = p <=> IsFirstForOwner(o)
        BY <3>3
      <3>5. QED
        BY <3>1, <3>2, <3>4
    <2>2. CASE j # i
      <3>1. status[j] = "active" /\ owner'[j] = owner[j] /\ project'[j] = project[j]
        BY <2>2
      <3>2. focusedRow'[j] = focusedRow[j]
        BY <2>2
      <3>3. project[j] \in OwnedBy(owner[j])
        BY <3>1, ActiveRow
      <3>4. focus'[owner[j]] = focus[owner[j]]
        BY <3>1, <3>3, ActiveRow DEF IsFirstForOwner
      <3>5. QED
        BY <1>0, <3>1, <3>2, <3>4
    <2>3. QED
      BY <2>1, <2>2
  <1>2. ASSUME NEW p \in Projects, DestroyBegin(p) PROVE Goal
    BY <1>0, <1>2 DEF DestroyBegin
  <1>3. ASSUME NEW i \in Ids, DestroyEnd(i) PROVE Goal
    <2>1. up /\ status[i] = "active" /\ j # i /\ status[j] = "active"
      BY <1>3, StoppedFacts DEF DestroyEnd, Stopped
    <2>2. FocusMovesOn(project[i], owner[i], OwnedBy(owner[i]) \ {project[i]})
      BY <1>3 DEF DestroyEnd
    <2>3. focusedRow'[j] <=> focus'[owner[j]] = project[j]
      BY <2>1, <2>2, FocusMovesOnAgrees
    <2>4. QED
      BY <1>3, <2>3 DEF DestroyEnd
  <1>4. ASSUME NEW i \in Ids, DestroyFails(i) PROVE Goal
    BY <1>0, <1>4 DEF DestroyFails, Stopped
  <1>5. ASSUME NEW p \in Projects, NEW o \in Phones, SwitchFocus(p, o) PROVE Goal
    <2>1. /\ up /\ status[j] = "active" /\ owner' = owner /\ project' = project
          /\ p \in OwnedBy(o)
          /\ focus' = [focus EXCEPT ![o] = p]
          /\ focusedRow' = RowsFocusedOn(p, OwnedBy(o))
      BY <1>5 DEF SwitchFocus
    <2>2. project[j] \in Projects /\ owner[j] \in Phones /\ sid[project[j]] = j
          /\ project[j] \in OwnedBy(owner[j])
      BY <2>1, ActiveRow
    <2>3. status[sid[p]] = "active" /\ project[sid[p]] = p /\ owner[sid[p]] = o
      BY <2>1 DEF OwnedBy, Active, MapPointwise
    <2>4. focusedRow'[j] = IF j = sid[p] THEN TRUE
                           ELSE IF \E z \in OwnedBy(o) : sid[z] = j THEN FALSE
                           ELSE focusedRow[j]
      BY <2>1 DEF RowsFocusedOn
    <2>5. CASE owner[j] = o
      <3>1. focusedRow'[j] <=> j = sid[p]
        BY <2>2, <2>4, <2>5
      <3>2. focus'[owner[j]] = p
        BY <2>1, <2>5
      <3>3. j = sid[p] <=> project[j] = p
        BY <2>2, <2>3
      <3>4. QED
        BY <2>1, <3>1, <3>2, <3>3
    <2>6. CASE owner[j] # o
      <3>1. focusedRow'[j] = focusedRow[j]
        BY <2>3, <2>4, <2>6 DEF OwnedBy
      <3>2. focus'[owner[j]] = focus[owner[j]]
        BY <2>1, <2>2, <2>6
      <3>3. QED
        BY <1>0, <2>1, <3>1, <3>2
    <2>7. QED
      BY <2>5, <2>6
  <1>6. ASSUME ProcessEnds PROVE Goal
    BY <1>6 DEF ProcessEnds
  <1>7. CASE Restore
    <2>1. UNCHANGED rowVars
      BY <1>7 DEF Restore
    <2>2. project[j] \in Projects /\ project[j] # None /\ owner[j] \in Phones
      BY <2>1, SessionsAssumption DEF WellFormedRows
    <2>3. ASSUME focusedRow[j] PROVE focus'[owner[j]] = project[j]
      <3>1. j \in FocusedRowsOf(owner[j])
        BY <2>1, <2>3 DEF FocusedRowsOf, Rows
      <3>2. PICK k \in FocusedRowsOf(owner[j]) : focus'[owner[j]] = project[k]
        BY <1>7, <2>2, <3>1, RestoreFacts
      <3>3. QED
        BY <2>2, <3>1, <3>2 DEF OneFocusPerPhone
    <2>4. ASSUME focus'[owner[j]] = project[j] PROVE focusedRow[j]
      <3>1. PICK k \in FocusedRowsOf(owner[j]) : focus'[owner[j]] = project[k]
        BY <1>7, <2>2, <2>4, RestoreFacts
      <3>2. j \in RowsOf(project[j]) /\ k \in RowsOf(project[j])
        BY <2>1, <2>4, <3>1 DEF RowsOf, FocusedRowsOf, Rows
      <3>3. k = j
        BY <2>2, <3>2 DEF OneRowPerProject
      <3>4. QED
        BY <3>1, <3>3 DEF FocusedRowsOf
    <2>5. QED
      BY <2>1, <2>3, <2>4
  <1>8. CASE UNCHANGED vars
    BY <1>0, <1>8 DEF vars
  <1>9. QED
    BY <1>1, <1>2, <1>3, <1>4, <1>5, <1>6, <1>7, <1>8
       DEF Next, Crash, CrashInDestroy, CrashInSwitch

\* A phone's focus stays on one of its own sessions.
LEMMA NextFocusIsOwn ==
    ASSUME IInv, NoSecondStop, [Next]_vars
    PROVE  FocusIsOwn'
  <1> USE SessionsAssumption DEF IInv, TypeOK, rowVars, memoryVars, processVars
  <1> SUFFICES ASSUME up', NEW x \in Phones, focus'[x] # None
               PROVE  focus'[x] \in Projects /\ sid'[focus'[x]] # 0
                      /\ owner'[sid'[focus'[x]]] = x
    BY DEF FocusIsOwn, OwnedBy, Active
  <1> DEFINE Goal == focus'[x] \in Projects /\ sid'[focus'[x]] # 0
                     /\ owner'[sid'[focus'[x]]] = x
  <1>0. ASSUME up, focus[x] # None
        PROVE  /\ focus[x] \in Projects /\ sid[focus[x]] \in Ids /\ sid[focus[x]] # 0
               /\ owner[sid[focus[x]]] = x
               /\ status[sid[focus[x]]] = "active"
    BY <1>0 DEF FocusIsOwn, OwnedBy, Active, MapPointwise
  <1>1. ASSUME NEW i \in Ids, NEW p \in Projects, NEW o \in Phones, Create(i, p, o)
        PROVE  Goal
    <2> USE <1>1 DEF Create
    <2>1. CASE IsFirstForOwner(o) /\ x = o
      BY <2>1 DEF Ids
    <2>2. CASE ~(IsFirstForOwner(o) /\ x = o)
      <3>1. focus'[x] = focus[x]
        BY <2>2
      <3>2. focus[x] # p
        BY <1>0, <3>1 DEF Active
      <3>3. sid[focus[x]] # i
        BY <1>0, <3>1
      <3>4. QED
        BY <1>0, <3>1, <3>2, <3>3
    <2>3. QED
      BY <2>1, <2>2
  <1>2. ASSUME NEW p \in Projects, DestroyBegin(p) PROVE Goal
    BY <1>0, <1>2 DEF DestroyBegin
  <1>3. ASSUME NEW i \in Ids, DestroyEnd(i) PROVE Goal
    <2> DEFINE p == project[i]  o == owner[i]  left == OwnedBy(o) \ {p}
    <2>1. /\ up /\ p \in Projects /\ o \in Phones /\ sid[p] = i
          /\ owner' = owner
          /\ sid' = [sid EXCEPT ![p] = 0]
          /\ FocusMovesOn(p, o, left)
      BY <1>3, StoppedFacts DEF DestroyEnd, Stopped
    <2>2. CASE focus'[x] = focus[x] /\ focus[x] # p
      BY <1>0, <2>1, <2>2
    <2>3. ASSUME NEW q \in FirstOf(left), focus'[x] = q, x = o PROVE Goal
      BY <2>1, <2>3 DEF FirstOf, OwnedBy, Active
    <2>4. CASE focus'[x] = focus[x] /\ focus[x] = p /\ x # o
      BY <1>0, <2>1, <2>4
    <2>5. \/ focus' = focus /\ focus[o] # p
          \/ \E q \in FirstOf(left) : focus' = [focus EXCEPT ![o] = q]
          \/ focus' = [focus EXCEPT ![o] = None]
      BY <2>1 DEF FocusMovesOn
    <2>6. CASE x = o
      BY <2>1, <2>2, <2>3, <2>5, <2>6
    <2>7. CASE x # o
      <3>1. focus'[x] = focus[x]
        BY <2>1, <2>5, <2>7
      <3>2. QED
        BY <2>2, <2>4, <2>7, <3>1
    <2>8. QED
      BY <2>6, <2>7
  <1>4. ASSUME NEW i \in Ids, DestroyFails(i) PROVE Goal
    BY <1>0, <1>4 DEF DestroyFails, Stopped
  <1>5. ASSUME NEW p \in Projects, NEW o \in Phones, SwitchFocus(p, o) PROVE Goal
    <2>1. CASE x = o
      BY <1>5, <2>1 DEF SwitchFocus, OwnedBy, Active
    <2>2. CASE x # o
      BY <1>0, <1>5, <2>2 DEF SwitchFocus
    <2>3. QED
      BY <2>1, <2>2
  <1>6. ASSUME ProcessEnds PROVE Goal
    BY <1>6 DEF ProcessEnds
  <1>7. CASE Restore
    <2>1. PICK i \in FocusedRowsOf(x) : focus'[x] = project[i]
      BY <1>7, RestoreFacts
    <2>2. i \in Ids /\ status[i] = "active" /\ owner[i] = x /\ project[i] \in Projects
      BY <2>1 DEF FocusedRowsOf, Rows, WellFormedRows
    <2>3. i \in RowsOf(project[i])
      BY <2>2 DEF RowsOf, Rows
    <2>4. PICK k \in RowsOf(project[i]) : sid'[project[i]] = k
      BY <1>7, <2>2, <2>3, RestoreFacts
    <2>5. k = i
      BY <2>2, <2>3, <2>4 DEF OneRowPerProject
    <2>6. owner' = owner
      BY <1>7 DEF Restore
    <2>7. QED
      BY <2>1, <2>2, <2>4, <2>5, <2>6 DEF Ids
  <1>8. CASE UNCHANGED vars
    BY <1>0, <1>8 DEF vars
  <1>9. QED
    BY <1>1, <1>2, <1>3, <1>4, <1>5, <1>6, <1>7, <1>8
       DEF Next, Crash, CrashInDestroy, CrashInSwitch

\* In a running gateway the rows can be restored because the map, which has one
\* entry per project, and the focus, which has one per phone, mirror them.
LEMMA MirrorsAreUnique ==
    WellFormedRows /\ MapPointwise /\ FocusIsMirrored /\ up
        => OneRowPerProject /\ OneFocusPerPhone
  <1> SUFFICES ASSUME WellFormedRows, MapPointwise, FocusIsMirrored, up
               PROVE  OneRowPerProject /\ OneFocusPerPhone
    OBVIOUS
  <1>1. OneRowPerProject
    BY DEF MapPointwise, OneRowPerProject, RowsOf, Rows
  <1>2. ASSUME NEW o \in Phones, NEW i \in FocusedRowsOf(o), NEW j \in FocusedRowsOf(o)
        PROVE  i = j
    <2>1. /\ i \in Ids /\ j \in Ids /\ status[i] = "active" /\ status[j] = "active"
          /\ focus[o] = project[i] /\ focus[o] = project[j]
      BY <1>2 DEF FocusedRowsOf, FocusIsMirrored, Rows
    <2>2. sid[project[i]] = i /\ sid[project[j]] = j
      BY <2>1 DEF MapPointwise
    <2>3. QED
      BY <2>1, <2>2
  <1>3. QED
    BY <1>1, <1>2 DEF OneFocusPerPhone

\* The rows can be restored after every step: a crash, even between two writes,
\* only takes rows away or unfocuses some.
LEMMA NextRowsUnique ==
    ASSUME IInv, NoSecondStop, [Next]_vars,
           WellFormedRows', MapPointwise', FocusIsMirrored'
    PROVE  OneRowPerProject' /\ OneFocusPerPhone'
  <1> USE DEF rowVars, memoryVars, processVars
  <1>1. CASE up'
    BY <1>1, MirrorsAreUnique, PTL
  <1>2. ASSUME ~up'
        PROVE  /\ project' = project /\ owner' = owner
               /\ \A i \in Ids :
                     /\ status'[i] = "active" => status[i] = "active"
                     /\ focusedRow'[i] => focusedRow[i]
    <2> USE DEF IInv, TypeOK
    <2>1. CASE Crash
      BY <2>1 DEF Crash
    <2>2. ASSUME NEW i \in Ids, CrashInDestroy(i) PROVE <1>2!2
      BY <2>2 DEF CrashInDestroy
    <2>3. ASSUME NEW p \in Projects, NEW o \in Phones, CrashInSwitch(p, o) PROVE <1>2!2
      BY <2>3 DEF CrashInSwitch, RowsUnfocused
    <2>4. CASE UNCHANGED vars
      BY <2>4 DEF vars
    <2>5. QED
      BY <1>2, <2>1, <2>2, <2>3, <2>4
         DEF Next, Create, DestroyBegin, DestroyEnd, DestroyFails, Stopped,
             SwitchFocus, Restore
  <1>3. CASE ~up'
    <2>1. ASSUME NEW p \in Projects, NEW i \in RowsOf(p)', NEW j \in RowsOf(p)'
          PROVE  i = j
      BY <1>2, <1>3, <2>1 DEF RowsOf, Rows, IInv, OneRowPerProject
    <2>2. ASSUME NEW o \in Phones, NEW i \in FocusedRowsOf(o)', NEW j \in FocusedRowsOf(o)'
          PROVE  i = j
      BY <1>2, <1>3, <2>2 DEF FocusedRowsOf, Rows, IInv, OneFocusPerPhone
    <2>3. QED
      BY <2>1, <2>2 DEF OneRowPerProject, OneFocusPerPhone
  <1>4. QED
    BY <1>1, <1>3

\* The rows stay within the limit: create counts the sessions of the map, which
\* are as many as the active rows, and nothing else adds an active row.
LEMMA NextRowsWithinLimit ==
    ASSUME IInv, NoSecondStop, [Next]_vars
    PROVE  RowsWithinLimit'
  <1> USE DEF IInv, TypeOK
  <1> DEFINE A == Rows("active")
  <1>1. ASSUME NEW i \in Ids, NEW p \in Projects, NEW o \in Phones, Create(i, p, o)
        PROVE  RowsWithinLimit'
    <2>1. Cardinality(A) < MaxSessions
      BY <1>1, AsManyRows DEF Create, BelowLimit
    <2>2. A' = A \cup {i} /\ i \notin A
      BY <1>1 DEF Create, Rows
    <2>3. A \in SUBSET Ids
      BY DEF Rows
    <2>4. IsFiniteSet(A) /\ Cardinality(A) \in Nat
      BY <2>3, RowsFinite
    <2>5. Cardinality(A \cup {i}) = Cardinality(A) + 1
      BY <2>2, <2>4, FS_AddElement
    <2>6. Cardinality(A \cup {i}) <= MaxSessions
      BY <2>1, <2>4, <2>5, SessionsAssumption
    <2>7. QED
      BY <2>2, <2>6 DEF RowsWithinLimit
  <1>2. ASSUME A' \in SUBSET A PROVE RowsWithinLimit'
    <2>1. A \in SUBSET Ids
      BY DEF Rows
    <2>2. IsFiniteSet(A) /\ Cardinality(A) \in Nat
      BY <2>1, RowsFinite
    <2>3. Cardinality(A') <= Cardinality(A)
      BY <1>2, <2>2, FS_Subset
    <2>4. A' \in SUBSET Ids
      BY <1>2, <2>1
    <2>5. Cardinality(A') \in Nat
      BY <2>4, RowsFinite
    <2>6. Cardinality(A) <= MaxSessions
      BY DEF RowsWithinLimit
    <2>7. Cardinality(A') <= MaxSessions
      BY <2>2, <2>3, <2>5, <2>6, SessionsAssumption
    <2>8. QED
      BY <2>7 DEF RowsWithinLimit
  <1>3. ASSUME NEW i \in Ids, status' = [status EXCEPT ![i] = "stopped"]
        PROVE  A' \in SUBSET A
    BY <1>3 DEF Rows
  <1>4. ASSUME UNCHANGED status PROVE A' \in SUBSET A
    BY <1>4 DEF Rows
  <1>5. QED
    BY <1>1, <1>2, <1>3, <1>4
       DEF Next, DestroyBegin, DestroyEnd, DestroyFails, SwitchFocus, Crash,
           CrashInDestroy, CrashInSwitch, Restore, vars, rowVars

\* No step of a running gateway takes a phone's focus while it has a session.
LEMMA NextFocusIsKept ==
    ASSUME IInv, NoSecondStop, [Next]_vars, up, up', NEW x \in Phones
    PROVE  /\ focus[x] # None /\ OwnedBy(x)' # {} => focus'[x] # None
           /\ OwnedBy(x) = {} /\ OwnedBy(x)' # {} => focus'[x] # None
  <1> USE SessionsAssumption DEF IInv, TypeOK, rowVars, memoryVars, processVars
  <1> DEFINE Goal == /\ focus[x] # None /\ OwnedBy(x)' # {} => focus'[x] # None
                     /\ OwnedBy(x) = {} /\ OwnedBy(x)' # {} => focus'[x] # None
  <1>1. ASSUME NEW i \in Ids, NEW p \in Projects, NEW o \in Phones, Create(i, p, o)
        PROVE  Goal
    <2> USE <1>1 DEF Create
    <2>1. focus'[x] = focus[x] \/ (x = o /\ focus'[x] = p)
      OBVIOUS
    <2>2. ASSUME OwnedBy(x) = {}, x = o PROVE focus'[x] = p
      BY <2>2 DEF IsFirstForOwner
    <2>3. ASSUME OwnedBy(x) = {}, x # o PROVE OwnedBy(x)' = {}
      BY <2>3 DEF OwnedBy, Active, MapPointwise
    <2>4. QED
      BY <2>1, <2>2, <2>3
  <1>2. ASSUME sid' = sid, owner' = owner, focus'[x] = focus[x] \/ focus'[x] \in Projects
        PROVE  Goal
    BY <1>2 DEF OwnedBy, Active
  <1>3. ASSUME NEW p \in Projects, DestroyBegin(p) PROVE Goal
    BY <1>2, <1>3 DEF DestroyBegin
  <1>4. ASSUME NEW i \in Ids, DestroyEnd(i) PROVE Goal
    <2> DEFINE p == project[i]  o == owner[i]  left == OwnedBy(o) \ {p}
    <2>1. /\ p \in Projects /\ o \in Phones /\ owner' = owner
          /\ sid' = [sid EXCEPT ![p] = 0]
          /\ FocusMovesOn(p, o, left)
      BY <1>4, StoppedFacts DEF DestroyEnd, Stopped
    <2>2. OwnedBy(x)' = OwnedBy(x) \ {p}
      BY <2>1 DEF OwnedBy, Active
    <2>3. CASE focus'[x] = focus[x]
      BY <2>2, <2>3
    <2>4. ASSUME NEW q \in FirstOf(left), focus'[x] = q PROVE Goal
      BY <2>2, <2>4 DEF FirstOf, OwnedBy, Active
    <2>5. CASE x = o /\ left = {}
      BY <2>2, <2>5
    <2>6. QED
      BY <2>1, <2>3, <2>4, <2>5 DEF FocusMovesOn
  <1>5. ASSUME NEW i \in Ids, DestroyFails(i) PROVE Goal
    BY <1>2, <1>5 DEF DestroyFails
  <1>6. ASSUME NEW p \in Projects, NEW o \in Phones, SwitchFocus(p, o) PROVE Goal
    BY <1>2, <1>6 DEF SwitchFocus
  <1>7. CASE UNCHANGED vars
    BY <1>2, <1>7 DEF vars
  <1>8. QED
    BY <1>1, <1>3, <1>4, <1>5, <1>6, <1>7
       DEF Next, Crash, CrashInDestroy, CrashInSwitch, ProcessEnds, Restore

-----------------------------------------------------------------------------
(* Theorems *)

\* With MaxStops = 1, as in the run, every behaviour is one the theorems are about.
THEOREM OneStopAtATime == MaxStops = 1 /\ Spec => []NoSecondStop
  <1> SUFFICES ASSUME MaxStops = 1 PROVE Spec => []NoSecondStop
    OBVIOUS
  <1> DEFINE Bounded == stops \in [Ids -> 0..MaxStops]
  <1>1. Init => Bounded
    BY SessionsAssumption DEF Init
  <1>2. Bounded /\ [Next]_vars => Bounded'
    <2> SUFFICES ASSUME Bounded, [Next]_vars PROVE Bounded'
      OBVIOUS
    <2> USE SessionsAssumption DEF memoryVars, processVars
    <2>1. ASSUME NEW i \in Ids, Stopped(i) PROVE Bounded'
      BY <2>1 DEF Stopped
    <2>2. ASSUME NEW p \in Projects, DestroyBegin(p) PROVE Bounded'
      <3>1. CASE sid[p] \in Ids
        <4>1. stops[sid[p]] + 1 \in 0..MaxStops
          BY <2>2, <3>1 DEF DestroyBegin
        <4>2. QED
          BY <2>2, <4>1 DEF DestroyBegin
      <3>2. CASE sid[p] \notin Ids
        BY <2>2, <3>2 DEF DestroyBegin
      <3>3. QED
        BY <3>1, <3>2
    <2>3. CASE ProcessEnds
      BY <2>3 DEF ProcessEnds
    <2>4. CASE UNCHANGED stops
      BY <2>4
    <2>5. QED
      BY <2>1, <2>2, <2>3, <2>4
         DEF Next, Create, DestroyEnd, DestroyFails, SwitchFocus, Crash,
             CrashInDestroy, CrashInSwitch, Restore, vars
  <1>3. Bounded => NoSecondStop
    BY DEF NoSecondStop
  <1> HIDE DEF Bounded
  <1>4. QED
    BY <1>1, <1>2, <1>3, PTL DEF Spec

\* The invariant holds in every state of the specification.
THEOREM Invariance == Spec /\ []NoSecondStop => []IInv
  <1>1. Init => IInv
    BY InitIInv
  <1>2. IInv /\ NoSecondStop /\ [Next]_vars => IInv'
    <2> SUFFICES ASSUME IInv, NoSecondStop, [Next]_vars PROVE IInv'
      OBVIOUS
    <2>1. TypeOK'
      BY NextTypeOK
    <2>2. WellFormedRows' /\ StopsRunning'
      BY NextRowsAndStops
    <2>3. MapPointwise'
      BY NextMapPointwise
    <2>4. FocusIsMirrored' /\ FocusIsOwn'
      BY NextFocusIsMirrored, NextFocusIsOwn
    <2>5. OneRowPerProject' /\ OneFocusPerPhone'
      BY <2>2, <2>3, <2>4, NextRowsUnique
    <2>6. RowsWithinLimit'
      BY NextRowsWithinLimit
    <2>7. QED
      BY <2>1, <2>2, <2>3, <2>4, <2>5, <2>6 DEF IInv
  <1>3. QED
    BY <1>1, <1>2, PTL DEF Spec

\* The variables keep their types: no call ends that did not begin.
THEOREM TypeCorrect == Spec /\ []NoSecondStop => []TypeOK
  <1>1. IInv => TypeOK
    BY DEF IInv
  <1>2. QED
    BY <1>1, Invariance, PTL

\* The map of a running gateway holds exactly the sessions of the active rows.
THEOREM MapAlwaysMirrorsRows == Spec /\ []NoSecondStop => []MapMirrorsRows
  <1>1. IInv => MapMirrorsRows
    BY MapForms DEF IInv
  <1>2. QED
    BY <1>1, Invariance, PTL

\* At every moment a restart would restore at most one session per project, one
\* focus per phone, and no more sessions than the limit.
THEOREM RowsAlwaysRestorable == Spec /\ []NoSecondStop => []RestorableRows
  <1>1. IInv => RestorableRows
    BY DEF IInv, RestorableRows
  <1>2. QED
    BY <1>1, Invariance, PTL

\* The focus in memory and the focus in the table always agree.
THEOREM FocusAlwaysMirrored == Spec /\ []NoSecondStop => []FocusIsMirrored
  <1>1. IInv => FocusIsMirrored
    BY DEF IInv
  <1>2. QED
    BY <1>1, Invariance, PTL

\* A phone is only ever focused on an active session of its own.
THEOREM FocusAlwaysOwn == Spec /\ []NoSecondStop => []FocusIsOwn
  <1>1. IInv => FocusIsOwn
    BY DEF IInv
  <1>2. QED
    BY <1>1, Invariance, PTL

\* A running gateway never takes the focus of a phone that has a session.
THEOREM FocusAlwaysKept == Spec /\ []NoSecondStop => FocusIsKept
  <1>1. IInv /\ NoSecondStop /\ [Next]_vars =>
          [up /\ up' =>
             \A o \in Phones :
                /\ focus[o] # None /\ OwnedBy(o)' # {} => focus'[o] # None
                /\ OwnedBy(o) = {} /\ OwnedBy(o)' # {} => focus'[o] # None]_vars
    BY NextFocusIsKept
  <1>2. QED
    BY <1>1, Invariance, PTL DEF Spec, FocusIsKept

-----------------------------------------------------------------------------
(* The rows implement the registry *)

\* What the rows say of a project and of a phone, each having one row at most.
LEMMA RowReadings ==
    IInv =>
        /\ \A p \in Projects :
              /\ RowsOf(p) = {} => RowHolder(p) = None
              /\ \A i \in RowsOf(p) : RowHolder(p) = owner[i]
        /\ \A o \in Phones :
              /\ FocusedRowsOf(o) = {} => RowFocus(o) = None
              /\ \A i \in FocusedRowsOf(o) : RowFocus(o) = project[i]
  <1> SUFFICES ASSUME IInv
               PROVE  /\ \A p \in Projects :
                            /\ RowsOf(p) = {} => RowHolder(p) = None
                            /\ \A i \in RowsOf(p) : RowHolder(p) = owner[i]
                      /\ \A o \in Phones :
                            /\ FocusedRowsOf(o) = {} => RowFocus(o) = None
                            /\ \A i \in FocusedRowsOf(o) : RowFocus(o) = project[i]
    OBVIOUS
  <1> USE DEF IInv
  <1>1. ASSUME NEW p \in Projects, NEW i \in RowsOf(p) PROVE RowHolder(p) = owner[i]
    <2>1. RowsOf(p) = {i} /\ i \in Int
      BY <1>1 DEF OneRowPerProject, RowsOf, Rows, Ids
    <2>2. QED
      BY <2>1, OnlyOne DEF RowHolder
  <1>2. ASSUME NEW o \in Phones, NEW i \in FocusedRowsOf(o) PROVE RowFocus(o) = project[i]
    <2>1. FocusedRowsOf(o) = {i} /\ i \in Int
      BY <1>2 DEF OneFocusPerPhone, FocusedRowsOf, Rows, Ids
    <2>2. QED
      BY <2>1, OnlyOne DEF RowFocus
  <1>3. QED
    BY <1>1, <1>2 DEF RowHolder, RowFocus

\* While the gateway runs, memory says the same.
LEMMA MemoryReadings ==
    IInv /\ up =>
        /\ \A p \in Projects :
              RowHolder(p) = IF sid[p] = 0 THEN None ELSE owner[sid[p]]
        /\ \A o \in Phones : RowFocus(o) = focus[o]
  <1> SUFFICES ASSUME IInv, up
               PROVE  /\ \A p \in Projects :
                            RowHolder(p) = IF sid[p] = 0 THEN None ELSE owner[sid[p]]
                      /\ \A o \in Phones : RowFocus(o) = focus[o]
    OBVIOUS
  <1> USE DEF IInv, TypeOK
  <1>1. ASSUME NEW p \in Projects
        PROVE  RowHolder(p) = IF sid[p] = 0 THEN None ELSE owner[sid[p]]
    <2>1. CASE sid[p] = 0
      <3>1. RowsOf(p) = {}
        BY <2>1 DEF RowsOf, Rows, MapPointwise, Ids
      <3>2. QED
        BY <2>1, <3>1, RowReadings
    <2>2. CASE sid[p] # 0
      <3>1. sid[p] \in RowsOf(p)
        BY <2>2 DEF RowsOf, Rows, MapPointwise
      <3>2. QED
        BY <2>2, <3>1, RowReadings
    <2>3. QED
      BY <2>1, <2>2
  <1>2. ASSUME NEW o \in Phones PROVE RowFocus(o) = focus[o]
    <2>1. ASSUME NEW i \in FocusedRowsOf(o) PROVE RowFocus(o) = focus[o]
      <3>1. RowFocus(o) = project[i]
        BY <2>1, RowReadings
      <3>2. i \in Rows("active") /\ owner[i] = o /\ focusedRow[i]
        BY <2>1 DEF FocusedRowsOf
      <3>3. QED
        BY <3>1, <3>2 DEF FocusIsMirrored
    <2>2. CASE FocusedRowsOf(o) = {}
      <3>1. ASSUME focus[o] # None PROVE FALSE
        <4> DEFINE i == sid[focus[o]]
        <4>1. focus[o] \in Projects /\ i # 0 /\ owner[i] = o
          BY <3>1 DEF FocusIsOwn, OwnedBy, Active
        <4>2. i \in Ids /\ status[i] = "active" /\ project[i] = focus[o]
          BY <4>1 DEF MapPointwise
        <4>3. i \in FocusedRowsOf(o)
          BY <4>1, <4>2 DEF FocusIsMirrored, FocusedRowsOf, Rows
        <4>4. QED
          BY <2>2, <4>3
      <3>2. QED
        BY <2>2, <3>1, RowReadings
    <2>3. QED
      BY <2>1, <2>2
  <1>3. QED
    BY <1>1, <1>2

\* The abstract state, under the refinement mapping.
HolderOf == [p \in Projects |-> RowHolder(p)]
FocusOf == [o \in Phones |-> RowFocus(o)]

\* The initial state maps to the abstract initial state.
LEMMA InitImplements == Init => Registry!Init
  <1> SUFFICES ASSUME Init PROVE Registry!Init
    OBVIOUS
  <1>1. \A p \in Projects : RowsOf(p) = {}
    BY DEF Init, RowsOf, Rows
  <1>2. \A o \in Phones : FocusedRowsOf(o) = {}
    BY DEF Init, FocusedRowsOf, Rows
  <1>3. QED
    BY <1>1, <1>2 DEF Registry!Init, RowHolder, RowFocus

\* A step that leaves the rows alone is an abstract stutter.
LEMMA SameRowsImplement ==
    ASSUME UNCHANGED rowVars
    PROVE  HolderOf' = HolderOf /\ FocusOf' = FocusOf
  BY DEF rowVars, HolderOf, FocusOf, RowHolder, RowFocus, RowsOf, FocusedRowsOf,
         Rows, Last

\* What the abstract state is in memory before and after a step of a running
\* gateway.
LEMMA MappedMemory ==
    ASSUME IInv, up, IInv', up'
    PROVE  /\ HolderOf = [p \in Projects |-> IF sid[p] = 0 THEN None ELSE owner[sid[p]]]
           /\ FocusOf = [o \in Phones |-> focus[o]]
           /\ HolderOf' =
                [p \in Projects |-> IF sid'[p] = 0 THEN None ELSE owner'[sid'[p]]]
           /\ FocusOf' = [o \in Phones |-> focus'[o]]
  <1>1. /\ \A p \in Projects :
              RowHolder(p) = IF sid[p] = 0 THEN None ELSE owner[sid[p]]
        /\ \A o \in Phones : RowFocus(o) = focus[o]
    BY MemoryReadings
  <1>2. (/\ \A p \in Projects :
              RowHolder(p) = IF sid[p] = 0 THEN None ELSE owner[sid[p]]
         /\ \A o \in Phones : RowFocus(o) = focus[o])'
    BY MemoryReadings, PTL
  <1>3. QED
    BY <1>1, <1>2 DEF HolderOf, FocusOf

\* Creating a session is an abstract Open.
LEMMA CreateImplements ==
    ASSUME IInv, IInv', NEW i \in Ids, NEW p \in Projects, NEW o \in Phones,
           Create(i, p, o)
    PROVE  Registry!Open(p, o)
  <1> DEFINE H == HolderOf  F == FocusOf
  <1> USE SessionsAssumption DEF IInv, TypeOK, processVars
  <1>1. up /\ up'
    BY DEF Create
  <1>2. /\ H = [q \in Projects |-> IF sid[q] = 0 THEN None ELSE owner[sid[q]]]
        /\ F = [x \in Phones |-> focus[x]]
        /\ H' = [q \in Projects |-> IF sid'[q] = 0 THEN None ELSE owner'[sid'[q]]]
        /\ F' = [x \in Phones |-> focus'[x]]
    BY <1>1, MappedMemory
  <1> HIDE DEF H, F
  <1>3. \A q \in Active : sid[q] \in Ids /\ sid[q] # i /\ owner[sid[q]] \in Phones
    BY <1>1 DEF Create, Active, MapPointwise, WellFormedRows
  <1>4. H[p] = None
    BY <1>2 DEF Create, Active
  <1>5. {q \in Projects : H[q] # None} = Active
    BY <1>2, <1>3 DEF Active
  <1>6. {q \in Projects : H[q] = o} = OwnedBy(o)
    BY <1>2 DEF Active, OwnedBy
  <1>7. H' = [H EXCEPT ![p] = o]
    <2>1. sid' = [sid EXCEPT ![p] = i] /\ owner' = [owner EXCEPT ![i] = o] /\ i # 0
      BY DEF Create, Ids
    <2>2. ASSUME NEW q \in Projects
          PROVE  H'[q] = IF q = p THEN o ELSE H[q]
      <3>1. H'[q] = IF sid'[q] = 0 THEN None ELSE owner'[sid'[q]]
        BY <1>2
      <3>2. H[q] = IF sid[q] = 0 THEN None ELSE owner[sid[q]]
        BY <1>2
      <3>3. CASE q = p
        BY <2>1, <3>1, <3>3
      <3>4. CASE q # p /\ sid[q] = 0
        BY <2>1, <3>1, <3>2, <3>4
      <3>5. CASE q # p /\ sid[q] # 0
        BY <1>3, <2>1, <3>1, <3>2, <3>5 DEF Active
      <3>6. QED
        BY <3>3, <3>4, <3>5
    <2>3. QED
      BY <1>2, <2>2
  <1>8. F' = IF OwnedBy(o) = {} THEN [F EXCEPT ![o] = p] ELSE F
    BY <1>2 DEF Create, IsFirstForOwner
  <1>9. Cardinality(Active) < MaxSessions
    BY DEF Create, BelowLimit
  <1>10. Registry!Running = Active
    BY <1>5 DEF Registry!Running, H, HolderOf
  <1>11. Registry!Of(o) = OwnedBy(o)
    BY <1>6 DEF Registry!Of, H, HolderOf
  <1>12. Cardinality(Registry!Running) < MaxSessions
    BY <1>9, <1>10
  <1>13. F' = IF Registry!Of(o) = {} THEN [F EXCEPT ![o] = p] ELSE F
    BY <1>8, <1>11
  <1>14. /\ HolderOf[p] = None
         /\ HolderOf' = [HolderOf EXCEPT ![p] = o]
         /\ FocusOf' = IF Registry!Of(o) = {} THEN [FocusOf EXCEPT ![o] = p] ELSE FocusOf
    BY <1>4, <1>7, <1>13 DEF H, F
  <1>15. Registry!Cardinality(Registry!Running) = Cardinality(Registry!Running)
    BY Zenon DEF Cardinality, Registry!Cardinality, IsFiniteSet, Registry!IsFiniteSet
  <1>16. Registry!Cardinality(Registry!Running) < MaxSessions
    BY <1>12, <1>15
  <1>17. QED
    BY <1>14, <1>16 DEF Registry!Open, HolderOf, FocusOf

\* The end of a destroy call is an abstract Close.
LEMMA DestroyEndImplements ==
    ASSUME IInv, IInv', NoSecondStop, NEW i \in Ids, DestroyEnd(i)
    PROVE  Registry!Close(project[i], owner[i])
  <1> DEFINE H == HolderOf  F == FocusOf
             p == project[i]  o == owner[i]  left == OwnedBy(o) \ {p}
  <1> USE SessionsAssumption DEF IInv, TypeOK
  <1>1. /\ up /\ up' /\ p \in Projects /\ o \in Phones /\ sid[p] = i
        /\ owner' = owner
        /\ sid' = [sid EXCEPT ![p] = 0]
        /\ FocusMovesOn(p, o, left)
    BY StoppedFacts DEF DestroyEnd, Stopped, processVars
  <1>2. /\ H = [q \in Projects |-> IF sid[q] = 0 THEN None ELSE owner[sid[q]]]
        /\ F = [x \in Phones |-> focus[x]]
        /\ H' = [q \in Projects |-> IF sid'[q] = 0 THEN None ELSE owner'[sid'[q]]]
        /\ F' = [x \in Phones |-> focus'[x]]
    BY <1>1, MappedMemory
  <1> HIDE DEF H, F
  <1>3. H[p] = o
    BY <1>1, <1>2 DEF Ids
  <1>4. {q \in Projects : H[q] = o} = OwnedBy(o)
    BY <1>1, <1>2 DEF Active, OwnedBy
  <1>5. H' = [H EXCEPT ![p] = None]
    BY <1>1, <1>2
  <1>6. IF F[o] = p
        THEN \E q \in left \cup {None} : F' = [F EXCEPT ![o] = q]
        ELSE F' = F
    <2>1. CASE focus[o] # p
      BY <1>1, <1>2, <2>1 DEF FocusMovesOn
    <2>2. ASSUME focus[o] = p, NEW q \in FirstOf(left), focus' = [focus EXCEPT ![o] = q]
          PROVE  F' = [F EXCEPT ![o] = q] /\ q \in left
      BY <1>2, <2>2 DEF FirstOf
    <2>3. ASSUME focus[o] = p, focus' = [focus EXCEPT ![o] = None]
          PROVE  F' = [F EXCEPT ![o] = None]
      BY <1>2, <2>3
    <2>4. F[o] = focus[o]
      BY <1>1, <1>2
    <2>5. QED
      BY <1>1, <2>1, <2>2, <2>3, <2>4 DEF FocusMovesOn
  <1>7. QED
    BY <1>3, <1>4, <1>5, <1>6
       DEF Registry!Close, Registry!Of, H, F, HolderOf, FocusOf

\* Taking focus from one row, or taking one row away, changes what the rows say of
\* its own project and owner only.
LEMMA OtherReadings ==
    ASSUME NEW i \in Ids, project' = project, owner' = owner,
           \A j \in Ids : j # i => status'[j] = status[j] /\ focusedRow'[j] = focusedRow[j]
    PROVE  /\ \A q \in Projects : q # project[i] => RowHolder(q)' = RowHolder(q)
           /\ \A x \in Phones : x # owner[i] => RowFocus(x)' = RowFocus(x)
  <1>1. ASSUME NEW q \in Projects, q # project[i] PROVE RowHolder(q)' = RowHolder(q)
    <2>1. RowsOf(q)' = RowsOf(q)
      BY <1>1 DEF RowsOf, Rows
    <2>2. QED
      BY <2>1 DEF RowHolder, Last
  <1>2. ASSUME NEW x \in Phones, x # owner[i] PROVE RowFocus(x)' = RowFocus(x)
    <2>1. FocusedRowsOf(x)' = FocusedRowsOf(x)
      BY <1>2 DEF FocusedRowsOf, Rows
    <2>2. QED
      BY <2>1 DEF RowFocus, Last
  <1>3. QED
    BY <1>1, <1>2

\* A crash after the first write of destroy is an abstract Close that may lose the
\* focus.
LEMMA CrashInDestroyImplements ==
    ASSUME IInv, IInv', NoSecondStop, NEW i \in Ids, CrashInDestroy(i)
    PROVE  Registry!Close(project[i], owner[i])
  <1> DEFINE p == project[i]  o == owner[i]
  <1> USE SessionsAssumption DEF IInv, TypeOK
  <1>1. /\ up /\ status[i] = "active" /\ p \in Projects /\ o \in Phones /\ sid[p] = i
        /\ project' = project /\ owner' = owner /\ focusedRow' = focusedRow
        /\ status' = [status EXCEPT ![i] = "stopped"]
    BY StoppedFacts DEF CrashInDestroy, ProcessEnds
  <1>2. /\ \A q \in Projects : q # p => RowHolder(q)' = RowHolder(q)
        /\ \A x \in Phones : x # o => RowFocus(x)' = RowFocus(x)
    BY <1>1, OtherReadings
  <1>4. i \in RowsOf(p) /\ RowHolder(p) = o
    BY <1>1, RowReadings DEF RowsOf, Rows
  <1>5. HolderOf[p] = o /\ HolderOf' = [HolderOf EXCEPT ![p] = None]
    <2>1. HolderOf[p] = o
      BY <1>1, <1>4 DEF HolderOf
    <2>2. ASSUME NEW q \in Projects
          PROVE  RowHolder(q)' = IF q = p THEN None ELSE RowHolder(q)
      <3>1. CASE q = p
        <4>1. RowsOf(q)' = {}
          BY <1>1, <1>4, <3>1 DEF RowsOf, Rows, OneRowPerProject
        <4>2. QED
          BY <3>1, <4>1 DEF RowHolder
      <3>2. CASE q # p
        BY <1>2, <3>2
      <3>3. QED
        BY <3>1, <3>2
    <2>3. HolderOf' = [HolderOf EXCEPT ![p] = None]
      BY <2>2 DEF HolderOf
    <2>4. QED
      BY <2>1, <2>3
  <1>6. CASE i \in FocusedRowsOf(o)
    <2>1. RowFocus(o) = p
      BY <1>1, <1>6, RowReadings
    <2>2. FocusedRowsOf(o)' = {}
      BY <1>1, <1>6 DEF FocusedRowsOf, Rows, OneFocusPerPhone
    <2>3. RowFocus(o)' = None
      BY <2>2 DEF RowFocus
    <2>5. FocusOf' = [FocusOf EXCEPT ![o] = None]
      BY <1>1, <1>2, <2>3 DEF FocusOf
    <2>6. FocusOf[o] = p
      BY <1>1, <2>1 DEF FocusOf
    <2>7. QED
      BY <1>5, <2>5, <2>6 DEF Registry!Close, HolderOf, FocusOf
  <1>7. CASE i \notin FocusedRowsOf(o)
    <2>1. FocusedRowsOf(o)' = FocusedRowsOf(o)
      BY <1>1, <1>7 DEF FocusedRowsOf, Rows
    <2>2. RowFocus(o)' = RowFocus(o)
      BY <1>1, <2>1 DEF RowFocus, Last
    <2>3. RowFocus(o) # p
      <3>1. ASSUME NEW j \in FocusedRowsOf(o), RowFocus(o) = p PROVE FALSE
        <4>1. project[j] = p
          BY <1>1, <3>1, RowReadings
        <4>2. j \in RowsOf(p)
          BY <3>1, <4>1 DEF FocusedRowsOf, RowsOf
        <4>3. j = i
          BY <1>1, <1>4, <4>2 DEF OneRowPerProject
        <4>4. QED
          BY <1>7, <3>1, <4>3
      <3>2. CASE FocusedRowsOf(o) = {}
        BY <1>1, <3>2, RowReadings
      <3>3. QED
        BY <3>1, <3>2
    <2>5. FocusOf' = FocusOf
      BY <1>1, <1>2, <2>2 DEF FocusOf
    <2>6. FocusOf[o] # p
      BY <1>1, <2>3 DEF FocusOf
    <2>7. QED
      BY <1>5, <2>5, <2>6 DEF Registry!Close, HolderOf, FocusOf
  <1>8. QED
    BY <1>6, <1>7

\* A crash between the two writes of switchFocus is an abstract Focus that is cut.
LEMMA CrashInSwitchImplements ==
    ASSUME IInv, IInv', NEW p \in Projects, NEW o \in Phones, CrashInSwitch(p, o)
    PROVE  Registry!Focus(p, o)
  <1> USE SessionsAssumption DEF IInv, TypeOK
  <1>1. /\ up /\ sid[p] # 0 /\ owner[sid[p]] = o
        /\ status' = status /\ project' = project /\ owner' = owner
        /\ focusedRow' = RowsUnfocused(focus[o])
    BY DEF CrashInSwitch, ProcessEnds, OwnedBy, Active
  <1>2. /\ RowHolder(p) = o
        /\ RowFocus(o) = focus[o]
    BY <1>1, MemoryReadings
  <1>3. \A q \in Projects : RowHolder(q)' = RowHolder(q)
    BY <1>1 DEF RowHolder, RowsOf, Rows, Last
  <1>4. RowFocus(o)' = None /\ \A x \in Phones : x # o => RowFocus(x)' = RowFocus(x)
    <2>1. CASE focus[o] = None
      <3>1. focusedRow' = focusedRow
        BY <1>1, <2>1 DEF RowsUnfocused
      <3>2. \A x \in Phones : RowFocus(x)' = RowFocus(x)
        BY <1>1, <3>1 DEF RowFocus, FocusedRowsOf, Rows, Last
      <3>3. QED
        BY <1>2, <2>1, <3>2
    <2>2. CASE focus[o] # None
      <3> DEFINE i == sid[focus[o]]
      <3>1. focus[o] \in Projects /\ focus[o] \in Active /\ i \in Ids /\ owner[i] = o
            /\ status[i] = "active" /\ project[i] = focus[o]
        BY <1>1, <2>2 DEF FocusIsOwn, OwnedBy, Active, MapPointwise
      <3>2. focusedRow' = [j \in Ids |-> IF j = i THEN FALSE ELSE focusedRow[j]]
        BY <1>1, <2>2, <3>1 DEF RowsUnfocused
      <3>3. \A x \in Phones : x # o => RowFocus(x)' = RowFocus(x)
        BY <1>1, <3>1, <3>2, OtherReadings
      <3>4. i \in FocusedRowsOf(o)
        BY <1>1, <3>1 DEF FocusIsMirrored, FocusedRowsOf, Rows
      <3>5. FocusedRowsOf(o)' = {}
        <4>1. ASSUME NEW j \in FocusedRowsOf(o)' PROVE FALSE
          <5>1. j \in FocusedRowsOf(o) /\ j # i
            BY <1>1, <3>2, <4>1 DEF FocusedRowsOf, Rows
          <5>2. QED
            BY <3>4, <5>1 DEF OneFocusPerPhone
        <4>2. QED
          BY <4>1
      <3>6. RowFocus(o)' = None
        BY <3>5 DEF RowFocus
      <3>7. QED
        BY <3>3, <3>6
    <2>3. QED
      BY <2>1, <2>2
  <1>5. HolderOf[p] = o /\ HolderOf' = HolderOf
    BY <1>2, <1>3 DEF HolderOf
  <1>6. FocusOf' = [FocusOf EXCEPT ![o] = None]
    BY <1>4 DEF FocusOf
  <1>7. QED
    BY <1>5, <1>6 DEF Registry!Focus, HolderOf, FocusOf

\* switchFocus is an abstract Focus.
LEMMA SwitchFocusImplements ==
    ASSUME IInv, IInv', NEW p \in Projects, NEW o \in Phones, SwitchFocus(p, o)
    PROVE  Registry!Focus(p, o)
  <1> DEFINE H == HolderOf  F == FocusOf
  <1> USE SessionsAssumption DEF IInv, TypeOK, processVars
  <1>1. /\ up /\ up' /\ sid[p] # 0 /\ owner[sid[p]] = o
        /\ owner' = owner /\ sid' = sid /\ focus' = [focus EXCEPT ![o] = p]
    BY DEF SwitchFocus, OwnedBy, Active
  <1>2. /\ H = [q \in Projects |-> IF sid[q] = 0 THEN None ELSE owner[sid[q]]]
        /\ F = [x \in Phones |-> focus[x]]
        /\ H' = [q \in Projects |-> IF sid'[q] = 0 THEN None ELSE owner'[sid'[q]]]
        /\ F' = [x \in Phones |-> focus'[x]]
    BY <1>1, MappedMemory
  <1> HIDE DEF H, F
  <1>3. H[p] = o /\ H' = H
    BY <1>1, <1>2
  <1>4. F' = [F EXCEPT ![o] = p]
    BY <1>1, <1>2
  <1>5. QED
    BY <1>3, <1>4 DEF Registry!Focus, H, F, HolderOf, FocusOf

\* Read from the rows, the session manager is a registry that never goes down:
\* creating, stopping and focusing are its three operations, a crash between two
\* writes is one of them cut short, and everything else is invisible.
THEOREM SessionsImplementRegistry == Spec /\ []NoSecondStop => ImplementsRegistry
  <1>1. IInv /\ IInv' /\ NoSecondStop /\ [Next]_vars => [Registry!Next]_(Registry!vars)
    <2> SUFFICES ASSUME IInv, IInv', NoSecondStop, [Next]_vars
                 PROVE  [Registry!Next]_(Registry!vars)
      OBVIOUS
    <2>1. ASSUME NEW i \in Ids, NEW p \in Projects, NEW o \in Phones, Create(i, p, o)
          PROVE  Registry!Next
      BY <2>1, CreateImplements DEF Registry!Next
    <2>2. ASSUME NEW p \in Projects, NEW o \in Phones,
                 SwitchFocus(p, o) \/ CrashInSwitch(p, o)
          PROVE  Registry!Next
      BY <2>2, SwitchFocusImplements, CrashInSwitchImplements DEF Registry!Next
    <2>3. ASSUME NEW i \in Ids, DestroyEnd(i) \/ CrashInDestroy(i)
          PROVE  Registry!Next
      <3>1. stops[i] > 0
        BY <2>3 DEF DestroyEnd, CrashInDestroy, Stopped
      <3>2. project[i] \in Projects /\ owner[i] \in Phones
        BY <3>1, StoppedFacts
      <3>3. QED
        BY <2>3, <3>2, DestroyEndImplements, CrashInDestroyImplements DEF Registry!Next
    <2>4. ASSUME UNCHANGED rowVars PROVE UNCHANGED Registry!vars
      BY <2>4, SameRowsImplement DEF Registry!vars, HolderOf, FocusOf
    <2>5. QED
      BY <2>1, <2>2, <2>3, <2>4
         DEF Next, DestroyBegin, DestroyFails, Crash, Restore, vars
  <1>2. Init => Registry!Init
    BY InitImplements
  <1>3. QED
    BY <1>1, <1>2, Invariance, PTL DEF Spec, ImplementsRegistry, Registry!Spec

-----------------------------------------------------------------------------
(***************************************************************************)
(* Every phone's sessions are what the approval path takes them for: read  *)
(* from the rows of one phone, the session manager implements SessionView, *)
(* on whose actions Approval.tla is built.  Ids stand for sessions, and 0  *)
(* for no focus.                                                           *)
(***************************************************************************)

BornOf(x) == {i \in Ids : status[i] # "none" /\ owner[i] = x}
LiveOf(x) == {i \in Rows("active") : owner[i] = x}
FocusedId(x) == Last(FocusedRowsOf(x))

View(x) == INSTANCE SessionView WITH
    None <- 0, born <- BornOf(x), live <- LiveOf(x), focused <- FocusedId(x)

\* The focused session of a phone is its one focused row.
FocusedIdReadings ==
    \A x \in Phones :
        /\ FocusedRowsOf(x) = {} => FocusedId(x) = 0
        /\ \A i \in FocusedRowsOf(x) : FocusedId(x) = i

\* A phone has one focused row at most.
LEMMA FocusedIdReading == IInv => FocusedIdReadings
  <1> SUFFICES ASSUME IInv, NEW x \in Phones, NEW i \in FocusedRowsOf(x)
               PROVE  FocusedId(x) = i
    BY DEF FocusedIdReadings, FocusedId, Last
  <1>1. FocusedRowsOf(x) = {i} /\ i \in Int
    BY DEF IInv, OneFocusPerPhone, FocusedRowsOf, Rows, Ids
  <1>2. QED
    BY <1>1, OnlyOne DEF FocusedId

\* The same after a step.
LEMMA NextFocusedIdReading == IInv' => FocusedIdReadings'
  BY FocusedIdReading, PTL

\* While the gateway runs, the focused session is the active one whose project has
\* the focus in memory.
LEMMA FocusedIdIsFocus ==
    ASSUME IInv, up, NEW x \in Phones, NEW i \in LiveOf(x)
    PROVE  FocusedId(x) = i <=> focus[x] = project[i]
  <1>1. i \in Ids /\ i # 0 /\ i \in Rows("active") /\ owner[i] = x
    BY DEF LiveOf, Rows, Ids
  <1>2. focusedRow[i] <=> focus[x] = project[i]
    BY <1>1 DEF IInv, FocusIsMirrored
  <1>3. i \in FocusedRowsOf(x) <=> focusedRow[i]
    BY <1>1 DEF FocusedRowsOf
  <1>4. FocusedId(x) = i => i \in FocusedRowsOf(x)
    BY <1>1, FocusedIdReading DEF FocusedIdReadings
  <1>5. QED
    BY <1>2, <1>3, <1>4, FocusedIdReading DEF FocusedIdReadings

\* A step that changes rows of other phones only is invisible to this one.
LEMMA OtherPhonesInvisible ==
    ASSUME NEW x \in Phones,
           \A j \in Ids :
              \/ /\ status'[j] = status[j]
                 /\ owner'[j] = owner[j]
                 /\ focusedRow'[j] = focusedRow[j]
              \/ owner'[j] # x /\ (owner[j] # x \/ status[j] = "none")
    PROVE  BornOf(x)' = BornOf(x) /\ LiveOf(x)' = LiveOf(x)
           /\ FocusedId(x)' = FocusedId(x)
  <1>1. BornOf(x)' = BornOf(x)
    BY DEF BornOf
  <1>2. LiveOf(x)' = LiveOf(x)
    BY DEF LiveOf, Rows
  <1>3. FocusedRowsOf(x)' = FocusedRowsOf(x)
    BY DEF FocusedRowsOf, Rows
  <1>4. QED
    BY <1>1, <1>2, <1>3 DEF FocusedId, Last

\* Creating a session opens it for its owner and is invisible to other phones.
LEMMA CreateImplementsView ==
    ASSUME IInv, IInv', NEW x \in Phones, NEW i \in Ids, NEW p \in Projects,
           NEW o \in Phones, Create(i, p, o)
    PROVE  View(x)!Open(i) \/ UNCHANGED View(x)!vars
  <1> USE DEF IInv, TypeOK
  <1>1. /\ up /\ up' = up /\ status[i] = "none"
        /\ status' = [status EXCEPT ![i] = "active"]
        /\ owner' = [owner EXCEPT ![i] = o]
        /\ focusedRow' = [focusedRow EXCEPT ![i] = IsFirstForOwner(o)]
    BY DEF Create, processVars
  <1>2. CASE x # o
    BY <1>1, <1>2, OtherPhonesInvisible DEF View!vars
  <1>3. CASE x = o
    <2>1. i \notin BornOf(x) /\ BornOf(x)' = BornOf(x) \cup {i}
      BY <1>1, <1>3 DEF BornOf
    <2>2. LiveOf(x)' = LiveOf(x) \cup {i}
      BY <1>1, <1>3 DEF LiveOf, Rows
    <2>3. LiveOf(x) = {} <=> OwnedBy(x) = {}
      <3>1. ASSUME NEW j \in LiveOf(x) PROVE project[j] \in OwnedBy(x)
        BY <1>1, <3>1, ActiveRow DEF LiveOf, Rows
      <3>2. ASSUME NEW q \in OwnedBy(x) PROVE sid[q] \in LiveOf(x)
        BY <1>1, <3>2 DEF LiveOf, Rows, OwnedBy, Active, MapPointwise
      <3>3. QED
        BY <3>1, <3>2
    <2>4. CASE LiveOf(x) = {}
      <3>1. i \in FocusedRowsOf(x)'
        BY <1>1, <1>3, <2>3, <2>4 DEF FocusedRowsOf, Rows, IsFirstForOwner
      <3>2. FocusedId(x)' = i
        BY <3>1, NextFocusedIdReading DEF FocusedIdReadings
      <3>3. QED
        BY <1>1, <2>1, <2>2, <2>4, <3>2 DEF View!Open
    <2>5. CASE LiveOf(x) # {}
      <3>1. FocusedRowsOf(x)' = FocusedRowsOf(x)
        BY <1>1, <1>3, <2>3, <2>5 DEF FocusedRowsOf, Rows, IsFirstForOwner
      <3>2. FocusedId(x)' = FocusedId(x)
        BY <3>1 DEF FocusedId, Last
      <3>3. QED
        BY <1>1, <2>1, <2>2, <2>5, <3>2 DEF View!Open
    <2>6. QED
      BY <2>4, <2>5
  <1>4. QED
    BY <1>2, <1>3

\* The end of a destroy call closes the session for its owner.
LEMMA DestroyEndImplementsView ==
    ASSUME IInv, IInv', NoSecondStop, NEW x \in Phones, NEW i \in Ids, DestroyEnd(i)
    PROVE  View(x)!Close(i) \/ UNCHANGED View(x)!vars
  <1> DEFINE p == project[i]  o == owner[i]  left == OwnedBy(o) \ {p}
  <1> USE DEF IInv, TypeOK
  <1>1. /\ up /\ up' = up /\ status[i] = "active" /\ p \in Projects /\ o \in Phones
        /\ sid[p] = i /\ owner' = owner
        /\ status' = [status EXCEPT ![i] = "stopped"]
        /\ FocusMovesOn(p, o, left)
    BY StoppedFacts DEF DestroyEnd, Stopped, processVars
  <1>2. ASSUME NEW q \in left
        PROVE  /\ q \in Projects /\ sid[q] \in Ids /\ sid[q] # i
               /\ status[sid[q]] = "active" /\ owner[sid[q]] = o
    BY <1>1, <1>2 DEF OwnedBy, Active, MapPointwise, Ids
  <1>3. \/ focus[o] # p /\ focusedRow' = focusedRow
        \/ focus[o] = p /\ \E q \in left : focusedRow' = RowsFocusedOn(q, left)
        \/ focus[o] = p /\ left = {} /\ focusedRow' = focusedRow
    BY <1>1 DEF FocusMovesOn, FirstOf
  <1>4. CASE x # o
    <2>1. ASSUME NEW j \in Ids, owner[j] = x PROVE focusedRow'[j] = focusedRow[j]
      <3>1. j # i /\ \A q \in left : sid[q] # j
        BY <1>2, <1>4, <2>1
      <3>2. ASSUME NEW q \in left, focusedRow' = RowsFocusedOn(q, left)
            PROVE  focusedRow'[j] = focusedRow[j]
        BY <3>1, <3>2 DEF RowsFocusedOn
      <3>3. QED
        BY <1>3, <3>2
    <2>2. QED
      BY <1>1, <1>4, <2>1, OtherPhonesInvisible DEF View!vars
  <1>5. CASE x = o
    <2>1. BornOf(x)' = BornOf(x)
      BY <1>1 DEF BornOf
    <2>2. i \in LiveOf(x) /\ LiveOf(x)' = LiveOf(x) \ {i}
      BY <1>1, <1>5 DEF LiveOf, Rows
    <2>3. FocusedId(x) = i <=> focus[x] = p
      BY <1>1, <2>2, FocusedIdIsFocus
    <2>4. CASE focus[o] # p
      <3>1. FocusedId(x) # i
        BY <1>5, <2>3, <2>4
      <3>2. i \notin FocusedRowsOf(x)
        BY <3>1, FocusedIdReading DEF FocusedIdReadings
      <3>3. FocusedRowsOf(x)' = FocusedRowsOf(x)
        BY <1>1, <1>3, <2>4, <3>2 DEF FocusedRowsOf, Rows
      <3>4. FocusedId(x)' = FocusedId(x)
        BY <3>3 DEF FocusedId, Last
      <3>5. QED
        BY <1>1, <2>1, <2>2, <3>1, <3>4 DEF View!Close
    <2>5. ASSUME focus[o] = p, NEW q \in left, focusedRow' = RowsFocusedOn(q, left)
          PROVE  View(x)!Close(i)
      <3>1. sid[q] \in FocusedRowsOf(x)' /\ sid[q] \in LiveOf(x)'
        BY <1>1, <1>2, <1>5, <2>5 DEF FocusedRowsOf, LiveOf, Rows, RowsFocusedOn
      <3>2. FocusedId(x)' = sid[q]
        BY <1>2, <3>1, NextFocusedIdReading DEF FocusedIdReadings
      <3>3. QED
        BY <1>1, <1>5, <2>1, <2>2, <2>3, <2>5, <3>1, <3>2 DEF View!Close
    <2>6. CASE focus[o] = p /\ left = {}
      <3>1. ASSUME NEW j \in LiveOf(x)' PROVE FALSE
        <4>1. j \in Ids /\ j # i /\ status[j] = "active" /\ owner[j] = o
          BY <1>5, <2>2, <3>1 DEF LiveOf, Rows
        <4>2. project[j] \in OwnedBy(o) /\ sid[project[j]] = j
          BY <1>1, <4>1, ActiveRow
        <4>3. project[j] \in left
          BY <1>1, <4>1, <4>2
        <4>4. QED
          BY <2>6, <4>3
      <3>2. LiveOf(x)' = {}
        BY <3>1
      <3>3. FocusedRowsOf(x)' = {}
        BY <3>2 DEF LiveOf, FocusedRowsOf
      <3>4. FocusedId(x)' = 0
        BY <3>3, NextFocusedIdReading DEF FocusedIdReadings
      <3>5. QED
        BY <1>1, <1>5, <2>1, <2>2, <2>3, <2>6, <3>2, <3>4 DEF View!Close
    <2>7. QED
      BY <1>3, <2>4, <2>5, <2>6
  <1>6. QED
    BY <1>4, <1>5

\* switchFocus moves the focus of the phone that asked.
LEMMA SwitchFocusImplementsView ==
    ASSUME IInv, IInv', NEW x \in Phones, NEW p \in Projects, NEW o \in Phones,
           SwitchFocus(p, o)
    PROVE  View(x)!Focus(sid[p]) \/ UNCHANGED View(x)!vars
  <1> USE DEF IInv, TypeOK
  <1>1. /\ up /\ up' = up /\ status' = status /\ owner' = owner
        /\ focusedRow' = RowsFocusedOn(p, OwnedBy(o))
        /\ p \in OwnedBy(o)
    BY DEF SwitchFocus, processVars
  <1>2. \A q \in OwnedBy(o) :
           sid[q] \in Ids /\ status[sid[q]] = "active" /\ owner[sid[q]] = o
    BY <1>1 DEF OwnedBy, Active, MapPointwise, Ids
  <1>3. CASE x # o
    <2>1. ASSUME NEW j \in Ids, owner[j] = x PROVE focusedRow'[j] = focusedRow[j]
      BY <1>1, <1>2, <1>3, <2>1 DEF RowsFocusedOn
    <2>2. QED
      BY <1>1, <1>3, <2>1, OtherPhonesInvisible DEF View!vars
  <1>4. CASE x = o
    <2>1. BornOf(x)' = BornOf(x) /\ LiveOf(x)' = LiveOf(x)
      BY <1>1 DEF BornOf, LiveOf, Rows
    <2>2. sid[p] \in LiveOf(x) /\ sid[p] \in FocusedRowsOf(x)'
      BY <1>1, <1>2, <1>4 DEF LiveOf, FocusedRowsOf, Rows, RowsFocusedOn
    <2>3. FocusedId(x)' = sid[p]
      BY <1>1, <1>2, <2>2, NextFocusedIdReading DEF FocusedIdReadings
    <2>4. QED
      BY <1>1, <2>1, <2>2, <2>3 DEF View!Focus
  <1>5. QED
    BY <1>3, <1>4

\* The end of the process is an end of it for every phone; a cut destroy has taken
\* its session from the rows of its owner, a cut switch the focus.
LEMMA CrashImplementsView ==
    ASSUME IInv, IInv', NoSecondStop, NEW x \in Phones,
           \/ Crash
           \/ \E i \in Ids : CrashInDestroy(i)
           \/ \E p \in Projects, o \in Phones : CrashInSwitch(p, o)
    PROVE  View(x)!Down
  <1> USE DEF IInv, TypeOK
  <1>1. up /\ up' = FALSE
    BY DEF Crash, CrashInDestroy, CrashInSwitch, ProcessEnds
  <1>2. ASSUME BornOf(x)' = BornOf(x), LiveOf(x)' = LiveOf(x),
               FocusedId(x)' = FocusedId(x) \/ FocusedId(x)' = 0
        PROVE  View(x)!Down
    BY <1>1, <1>2 DEF View!Down
  <1>3. CASE Crash
    BY <1>2, <1>3, OtherPhonesInvisible DEF Crash, rowVars
  <1>4. ASSUME NEW i \in Ids, CrashInDestroy(i) PROVE View(x)!Down
    <2>1. /\ status[i] = "active" /\ owner' = owner /\ focusedRow' = focusedRow
          /\ status' = [status EXCEPT ![i] = "stopped"]
      BY <1>4, StoppedFacts DEF CrashInDestroy
    <2>2. CASE x # owner[i]
      BY <1>2, <2>1, <2>2, OtherPhonesInvisible
    <2>3. CASE x = owner[i]
      <3>1. BornOf(x)' = BornOf(x)
        BY <2>1 DEF BornOf
      <3>2. i \in LiveOf(x) /\ LiveOf(x)' = LiveOf(x) \ {i}
        BY <2>1, <2>3 DEF LiveOf, Rows
      <3>3. FocusedRowsOf(x)' = FocusedRowsOf(x) \ {i}
        BY <2>1 DEF FocusedRowsOf, Rows
      <3>4. CASE FocusedId(x) = i
        <4>1. FocusedRowsOf(x)' = {}
          BY <3>3, <3>4, FocusedIdReading DEF FocusedIdReadings, FocusedRowsOf, Rows
        <4>2. FocusedId(x)' = 0
          BY <4>1, NextFocusedIdReading DEF FocusedIdReadings
        <4>3. QED
          BY <1>1, <3>1, <3>2, <3>4, <4>2 DEF View!Down
      <3>5. CASE FocusedId(x) # i
        <4>1. FocusedRowsOf(x)' = FocusedRowsOf(x)
          BY <3>3, <3>5, FocusedIdReading DEF FocusedIdReadings
        <4>2. FocusedId(x)' = FocusedId(x)
          BY <4>1 DEF FocusedId, Last
        <4>3. QED
          BY <1>1, <3>1, <3>2, <3>5, <4>2 DEF View!Down
      <3>6. QED
        BY <3>4, <3>5
    <2>4. QED
      BY <2>2, <2>3
  <1>5. ASSUME NEW p \in Projects, NEW o \in Phones, CrashInSwitch(p, o)
        PROVE  View(x)!Down
    <2>1. /\ status' = status /\ owner' = owner
          /\ focusedRow' = RowsUnfocused(focus[o])
      BY <1>5 DEF CrashInSwitch
    <2>2. BornOf(x)' = BornOf(x) /\ LiveOf(x)' = LiveOf(x)
      BY <2>1 DEF BornOf, LiveOf, Rows
    <2>3. FocusedRowsOf(x)' \in SUBSET FocusedRowsOf(x)
      BY <2>1 DEF FocusedRowsOf, Rows, RowsUnfocused
    <2>4. CASE FocusedRowsOf(x)' = {}
      BY <1>2, <2>2, <2>4, NextFocusedIdReading DEF FocusedIdReadings
    <2>5. ASSUME NEW i \in Ids, i \in FocusedRowsOf(x)' PROVE View(x)!Down
      <3>1. FocusedId(x) = i /\ FocusedId(x)' = i
        BY <2>3, <2>5, FocusedIdReading, NextFocusedIdReading DEF FocusedIdReadings
      <3>2. QED
        BY <1>2, <2>2, <3>1
    <2>6. QED
      BY <2>3, <2>4, <2>5 DEF FocusedRowsOf, Rows
  <1>6. QED
    BY <1>3, <1>4, <1>5

\* The sessions of every phone, read from its rows across restarts and crashes cut
\* between two writes, behave as SessionView says.
THEOREM SessionsImplementView ==
    Spec /\ []NoSecondStop => \A x \in Phones : View(x)!Spec
  <1> SUFFICES ASSUME NEW x \in Phones
               PROVE  Spec /\ []NoSecondStop => View(x)!Spec
    OBVIOUS
  <1>1. Init => View(x)!Init
    <2> SUFFICES ASSUME Init PROVE View(x)!Init
      OBVIOUS
    <2>1. BornOf(x) = {} /\ LiveOf(x) = {} /\ FocusedRowsOf(x) = {} /\ up
      BY DEF Init, BornOf, LiveOf, FocusedRowsOf, Rows
    <2>2. QED
      BY <2>1 DEF View!Init, FocusedId, Last
  <1>2. IInv /\ IInv' /\ NoSecondStop /\ [Next]_vars => [View(x)!Next]_(View(x)!vars)
    <2> SUFFICES ASSUME IInv, IInv', NoSecondStop, [Next]_vars
                 PROVE  View(x)!Next \/ UNCHANGED View(x)!vars
      OBVIOUS
    <2>1. ASSUME NEW i \in Ids, NEW p \in Projects, NEW o \in Phones, Create(i, p, o)
          PROVE  View(x)!Next \/ UNCHANGED View(x)!vars
      BY <2>1, CreateImplementsView DEF View!Next
    <2>2. ASSUME NEW i \in Ids, DestroyEnd(i)
          PROVE  View(x)!Next \/ UNCHANGED View(x)!vars
      BY <2>2, DestroyEndImplementsView DEF View!Next
    <2>3. ASSUME NEW p \in Projects, NEW o \in Phones, SwitchFocus(p, o)
          PROVE  View(x)!Next \/ UNCHANGED View(x)!vars
      <3>1. sid[p] \in Ids
        BY <2>3 DEF SwitchFocus, OwnedBy, Active, IInv, TypeOK
      <3>2. QED
        BY <2>3, <3>1, SwitchFocusImplementsView DEF View!Next
    <2>4. ASSUME \/ Crash
                 \/ \E i \in Ids : CrashInDestroy(i)
                 \/ \E p \in Projects, o \in Phones : CrashInSwitch(p, o)
          PROVE  View(x)!Next
      BY <2>4, CrashImplementsView DEF View!Next
    <2>5. ASSUME UNCHANGED rowVars
          PROVE  BornOf(x)' = BornOf(x) /\ LiveOf(x)' = LiveOf(x)
                 /\ FocusedId(x)' = FocusedId(x)
      BY <2>5, OtherPhonesInvisible DEF rowVars
    <2>6. CASE Restore
      BY <2>5, <2>6 DEF Restore, View!Next, View!Up
    <2>7. CASE \/ \E p \in Projects : DestroyBegin(p)
               \/ \E i \in Ids : DestroyFails(i)
               \/ UNCHANGED vars
      BY <2>5, <2>7 DEF DestroyBegin, DestroyFails, Stopped, processVars, vars,
                        View!vars
    <2>8. QED
      BY <2>1, <2>2, <2>3, <2>4, <2>6, <2>7 DEF Next
  <1>3. QED
    BY <1>1, <1>2, Invariance, PTL DEF Spec, View!Spec
=============================================================================
