--------------------------- MODULE ApprovalProofs ---------------------------
(***************************************************************************)
(* Safety of the approval path, for every set of sessions and requests and *)
(* any number of taps and restarts.                                        *)
(*                                                                         *)
(* AllowedWasGranted is not inductive: a poll allows on what the map       *)
(* `resolved` says, so it needs that the map repeats the answer given,     *)
(* which in turn needs that only a request without an answer is pending.   *)
(* MapsAgree says both, and is inductive with TypeOK.                      *)
(*                                                                         *)
(* FeedbackModeIsTimed needs, when a session is created, that none of its  *)
(* requests is in feedback mode already: UnbornIdle.  That a text answers  *)
(* one request at most needs that no two requests entered feedback mode    *)
(* with the same tap: TapsDiffer.                                          *)
(***************************************************************************)
EXTENDS Approval, TLAPS

\* A session that was never created has asked for nothing.
UnbornIdle ==
    \A r \in Requests : SessionOf[r] \notin born => hook[r] = "idle"

\* The order of the keys of `awaitingFeedback` is total: each key came with a tap
\* of its own.
TapsDiffer ==
    /\ \A r \in Requests : since[r] <= taps
    /\ \A q, r \in Requests : Awaiting(q) /\ since[q] = since[r] => q = r

IInv ==
    /\ TypeOK
    /\ MapsAgree
    /\ AllowedWasGranted
    /\ UnbornIdle
    /\ FeedbackModeIsTimed
    /\ TapsDiffer

\* A free text answers at most one request, however many wait for feedback and
\* in whatever order they were tapped (getAwaitingFeedbackId returns the first
\* key of one session's map).
TextAnswersOne == \A q, r \in FeedbackTarget : q = r

-----------------------------------------------------------------------------

\* Initially nothing is asked, pending or answered.
LEMMA InitIInv == Init => IInv
  <1> SUFFICES ASSUME Init PROVE IInv
    OBVIOUS
  <1> USE DEF Init, View!Init
  <1>1. TypeOK
    BY DEF TypeOK, HookState, Answers
  <1>2. MapsAgree
    BY DEF MapsAgree, Awaiting
  <1>3. AllowedWasGranted
    BY DEF AllowedWasGranted
  <1>4. FeedbackModeIsTimed /\ TapsDiffer
    BY DEF FeedbackModeIsTimed, TapsDiffer, Awaiting
  <1>5. UnbornIdle
    BY DEF UnbornIdle
  <1>6. QED
    BY <1>1, <1>2, <1>3, <1>4, <1>5 DEF IInv

\* Every step keeps the variables in their types.
LEMMA NextTypeOK == TypeOK /\ [Next]_vars => TypeOK'
  <1> SUFFICES ASSUME TypeOK, [Next]_vars PROVE TypeOK'
    OBVIOUS
  <1> USE DEF TypeOK, HookState, Answers, hookVars, chatVars, timerVars,
              managerVars, sessionVars, processVars
  <1>1. ASSUME NEW r \in Requests, HookStep(r) PROVE TypeOK'
    BY <1>1 DEF HookStep, AskRefused, AskAutoResolved, AskUser, PostFails,
                Poll, HookTimesOut
  <1>2. ASSUME NEW r \in Requests, SendStep(r) PROVE TypeOK'
    BY <1>2 DEF SendStep, SendSucceeds, SendFails
  <1>3. ASSUME NEW r \in Requests, UserStep(r) PROVE TypeOK'
    <2>1. ASSUME NEW answer \in {"approved", "denied", "feedback"},
                 Resolve(r, answer)
          PROVE  TypeOK'
      BY <2>1 DEF Resolve, ClearHandle
    <2>2. CASE TapFeedback(r)
      BY <2>2 DEF TapFeedback
    <2>3. QED
      BY <1>3, <2>1, <2>2 DEF UserStep, TapYesNo, WriteText
  <1>4. ASSUME NEW r \in Requests, TimerStep(r) PROVE TypeOK'
    <2>1. ASSUME NEW k \in 1..taps, FeedbackTimeout(r, k) PROVE TypeOK'
      BY <2>1 DEF FeedbackTimeout
    <2>2. CASE ReminderFires(r)
      BY <2>2 DEF ReminderFires
    <2>3. QED
      BY <1>4, <2>1, <2>2 DEF TimerStep
  <1>5. ASSUME NEW s \in Sessions, Destroy(s) PROVE TypeOK'
    BY <1>5 DEF Destroy, RequestsOf, View!Close
  <1>6. ASSUME NEW s \in Sessions, SwitchFocus(s) \/ Create(s) PROVE TypeOK'
    BY <1>6 DEF SwitchFocus, Create, View!Focus, View!Open
  <1>7. CASE GatewayDown
    <2> USE <1>7 DEF GatewayDown, View!Down
    <2>1. up' \in BOOLEAN
      OBVIOUS
    <2>2. restarts' \in Nat
      OBVIOUS
    <2>3. QED
      BY <2>1, <2>2
  <1>8. CASE GatewayUp
    BY <1>8 DEF GatewayUp, View!Up
  <1>9. CASE UNCHANGED vars
    BY <1>9 DEF vars
  <1>10. QED
    BY <1>1, <1>2, <1>3, <1>4, <1>5, <1>6, <1>7, <1>8, <1>9
       DEF Next, SessionStep

\* Type correctness (the run MCApproval checks the same on a small instance).
THEOREM TypeCorrect == Spec => []TypeOK
  <1>1. Init => TypeOK
    BY InitIInv DEF IInv
  <1>2. QED
    BY <1>1, NextTypeOK, PTL DEF Spec

-----------------------------------------------------------------------------
(* The stage of each request *)

\* An answer is only given to a pending request, takes it out of every map that
\* getApprovalStatus looks at first, and is recorded in `resolved`.
LEMMA ResolveMapsAgree ==
  ASSUME TypeOK, MapsAgree, NEW r \in Requests,
         NEW answer \in Answers, Resolve(r, answer)
  PROVE  MapsAgree'
  BY DEF TypeOK, MapsAgree, Awaiting, Answers, HookState, Resolve, ClearHandle, hookVars

\* Every step keeps the maps, the hook and the answers in agreement.
LEMMA NextMapsAgree == TypeOK /\ MapsAgree /\ [Next]_vars => MapsAgree'
  <1> SUFFICES ASSUME TypeOK, MapsAgree, [Next]_vars PROVE MapsAgree'
    OBVIOUS
  <1> USE DEF TypeOK, HookState, MapsAgree, Awaiting, hookVars, chatVars,
              timerVars, managerVars, sessionVars, processVars
  <1>1. ASSUME NEW r \in Requests, HookStep(r) PROVE MapsAgree'
    <2>1. CASE AskRefused(r)
      BY <2>1 DEF AskRefused
    <2>2. ASSUME NEW m \in Mode, AskAutoResolved(r, m) PROVE MapsAgree'
      BY <2>2 DEF AskAutoResolved
    <2>3. ASSUME NEW m \in Mode, AskUser(r, m) PROVE MapsAgree'
      BY <2>3 DEF AskUser
    <2>4. CASE PostFails(r)
      BY <2>4 DEF PostFails
    <2>5. CASE Poll(r)
      BY <2>5 DEF Poll
    <2>6. CASE HookTimesOut(r)
      BY <2>6 DEF HookTimesOut
    <2>7. QED
      BY <1>1, <2>1, <2>2, <2>3, <2>4, <2>5, <2>6 DEF HookStep
  <1>2. ASSUME NEW r \in Requests, SendStep(r) PROVE MapsAgree'
    BY <1>2 DEF SendStep, SendSucceeds, SendFails
  <1>3. ASSUME NEW r \in Requests, UserStep(r) PROVE MapsAgree'
    <2>1. ASSUME NEW answer \in {"approved", "denied"}, TapYesNo(r, answer)
          PROVE  MapsAgree'
      BY <2>1, ResolveMapsAgree DEF TapYesNo, Answers
    <2>2. CASE TapFeedback(r)
      BY <2>2 DEF TapFeedback
    <2>3. CASE WriteText(r)
      BY <2>3, ResolveMapsAgree DEF WriteText, Answers
    <2>4. QED
      BY <1>3, <2>1, <2>2, <2>3 DEF UserStep
  <1>4. ASSUME NEW r \in Requests, TimerStep(r) PROVE MapsAgree'
    <2>1. ASSUME NEW k \in 1..taps, FeedbackTimeout(r, k) PROVE MapsAgree'
      BY <2>1 DEF FeedbackTimeout
    <2>2. CASE ReminderFires(r)
      BY <2>2 DEF ReminderFires
    <2>3. QED
      BY <1>4, <2>1, <2>2 DEF TimerStep
  <1>5. ASSUME NEW s \in Sessions, Destroy(s) PROVE MapsAgree'
    BY <1>5 DEF Destroy, View!Close
  <1>6. ASSUME NEW s \in Sessions, SwitchFocus(s) \/ Create(s) PROVE MapsAgree'
    BY <1>6 DEF SwitchFocus, Create, View!Focus, View!Open
  <1>7. CASE GatewayDown
    BY <1>7 DEF GatewayDown, View!Down
  <1>8. CASE GatewayUp
    BY <1>8 DEF GatewayUp, View!Up
  <1>9. CASE UNCHANGED vars
    BY <1>9 DEF vars
  <1>10. QED
    BY <1>1, <1>2, <1>3, <1>4, <1>5, <1>6, <1>7, <1>8, <1>9
       DEF Next, SessionStep

-----------------------------------------------------------------------------
(* Answers are final *)

\* No step changes an answer once given: the only steps that give one require a
\* request that is pending or has not asked, and MapsAgree says it has none.
LEMMA NextVerdictIsFinal ==
  ASSUME TypeOK, MapsAgree, [Next]_vars, NEW q \in Requests, verdict[q] # "none"
  PROVE  verdict'[q] = verdict[q]
  <1> USE DEF TypeOK, MapsAgree, hookVars, chatVars, timerVars, managerVars,
              sessionVars, processVars
  <1>1. ASSUME NEW r \in Requests, HookStep(r) PROVE verdict'[q] = verdict[q]
    BY <1>1 DEF HookStep, AskRefused, AskAutoResolved, AskUser, PostFails,
                Poll, HookTimesOut
  <1>2. ASSUME NEW r \in Requests, SendStep(r) PROVE verdict'[q] = verdict[q]
    BY <1>2 DEF SendStep, SendSucceeds, SendFails
  <1>3. ASSUME NEW r \in Requests, UserStep(r) PROVE verdict'[q] = verdict[q]
    BY <1>3 DEF UserStep, TapYesNo, TapFeedback, WriteText, Resolve, ClearHandle
  <1>4. ASSUME NEW r \in Requests, TimerStep(r) PROVE verdict'[q] = verdict[q]
    BY <1>4 DEF TimerStep, FeedbackTimeout, ReminderFires
  <1>5. ASSUME NEW s \in Sessions, Create(s) \/ Destroy(s) \/ SwitchFocus(s)
        PROVE  verdict'[q] = verdict[q]
    BY <1>5 DEF Create, Destroy, SwitchFocus
  <1>6. CASE GatewayDown \/ GatewayUp \/ UNCHANGED vars
    BY <1>6 DEF GatewayDown, GatewayUp, vars
  <1>7. QED
    BY <1>1, <1>2, <1>3, <1>4, <1>5, <1>6 DEF Next, SessionStep

\* A hook that is allowed after a step was allowed before it, was answered by
\* the mode in this step, or polls a request whose answer grants.
LEMMA NextAllowed ==
  ASSUME TypeOK, MapsAgree, [Next]_vars, NEW q \in Requests,
         hook'[q] = "allowed", hook[q] # "allowed"
  PROVE  verdict'[q] \in Granting
  <1> USE DEF TypeOK, hookVars, chatVars, timerVars, managerVars,
              sessionVars, processVars
  <1>1. ASSUME NEW r \in Requests, HookStep(r) PROVE verdict'[q] \in Granting
    <2>1. ASSUME NEW m \in Mode, AskAutoResolved(r, m)
          PROVE  verdict'[q] \in Granting
      BY <2>1 DEF AskAutoResolved, Granting
    <2>2. CASE Poll(r)
      <3>1. resolved[q] \in {"approved", "feedback"}
        BY <2>2 DEF Poll, Status
      <3>2. verdict'[q] = resolved[q]
        BY <2>2, <3>1 DEF Poll, MapsAgree
      <3>3. QED
        BY <3>1, <3>2 DEF Granting
    <2>3. QED
      BY <1>1, <2>1, <2>2
         DEF HookStep, AskRefused, AskUser, PostFails, HookTimesOut
  <1>2. ASSUME NEW r \in Requests, SendStep(r) PROVE FALSE
    BY <1>2 DEF SendStep, SendSucceeds, SendFails
  <1>3. ASSUME NEW r \in Requests, UserStep(r) PROVE FALSE
    BY <1>3 DEF UserStep, TapYesNo, TapFeedback, WriteText, Resolve, ClearHandle
  <1>4. ASSUME NEW r \in Requests, TimerStep(r) PROVE FALSE
    BY <1>4 DEF TimerStep, FeedbackTimeout, ReminderFires
  <1>5. ASSUME NEW s \in Sessions, Create(s) \/ Destroy(s) \/ SwitchFocus(s) PROVE FALSE
    BY <1>5 DEF Create, Destroy, SwitchFocus
  <1>6. CASE GatewayDown \/ GatewayUp \/ UNCHANGED vars
    BY <1>6 DEF GatewayDown, GatewayUp, vars
  <1>7. QED
    BY <1>1, <1>2, <1>3, <1>4, <1>5, <1>6 DEF Next, SessionStep

\* A call that was allowed stays granted, by the two lemmas above.
LEMMA NextAllowedWasGranted ==
  TypeOK /\ MapsAgree /\ AllowedWasGranted /\ [Next]_vars => AllowedWasGranted'
  <1> SUFFICES ASSUME TypeOK, MapsAgree, AllowedWasGranted, [Next]_vars,
                      NEW q \in Requests, hook'[q] = "allowed"
               PROVE  verdict'[q] \in Granting
    BY DEF AllowedWasGranted
  <1>1. CASE hook[q] = "allowed"
    <2>1. verdict[q] \in Granting
      BY <1>1 DEF AllowedWasGranted
    <2>2. verdict'[q] = verdict[q]
      BY <2>1, NextVerdictIsFinal DEF Granting
    <2>3. QED
      BY <2>1, <2>2
  <1>2. CASE hook[q] # "allowed"
    BY <1>2, NextAllowed
  <1>3. QED
    BY <1>1, <1>2
-----------------------------------------------------------------------------
(* Feedback mode is timed *)

\* No step leaves an active session's request in feedback mode without the timer
\* the map holds for it: what clears that timer also ends feedback mode, or the
\* session.
LEMMA NextFeedbackModeIsTimed ==
  TypeOK /\ MapsAgree /\ UnbornIdle /\ FeedbackModeIsTimed /\ [Next]_vars
    => FeedbackModeIsTimed'
  <1> SUFFICES ASSUME TypeOK, MapsAgree, UnbornIdle, FeedbackModeIsTimed,
                      [Next]_vars
               PROVE  FeedbackModeIsTimed'
    OBVIOUS
  <1> USE DEF TypeOK, FeedbackModeIsTimed, Awaiting, hookVars, chatVars,
              timerVars, managerVars, sessionVars, processVars
  <1>1. ASSUME NEW r \in Requests, HookStep(r) PROVE FeedbackModeIsTimed'
    BY <1>1 DEF HookStep, AskRefused, AskAutoResolved, AskUser, PostFails,
                Poll, HookTimesOut
  <1>2. ASSUME NEW r \in Requests, SendStep(r) PROVE FeedbackModeIsTimed'
    BY <1>2 DEF SendStep, SendSucceeds, SendFails
  <1>3. ASSUME NEW r \in Requests, UserStep(r) PROVE FeedbackModeIsTimed'
    <2>1. ASSUME NEW answer, Resolve(r, answer) PROVE FeedbackModeIsTimed'
      BY <2>1 DEF Resolve, ClearHandle
    <2>2. CASE TapFeedback(r)
      BY <2>2 DEF TapFeedback
    <2>3. QED
      BY <1>3, <2>1, <2>2 DEF UserStep, TapYesNo, WriteText
  <1>4. ASSUME NEW r \in Requests, TimerStep(r) PROVE FeedbackModeIsTimed'
    <2>1. ASSUME NEW k \in 1..taps, FeedbackTimeout(r, k)
          PROVE  FeedbackModeIsTimed'
      BY <2>1 DEF FeedbackTimeout
    <2>2. CASE ReminderFires(r)
      BY <2>2 DEF ReminderFires
    <2>3. QED
      BY <1>4, <2>1, <2>2 DEF TimerStep
  <1>5. ASSUME NEW s \in Sessions, Destroy(s) PROVE FeedbackModeIsTimed'
    <2> SUFFICES ASSUME NEW q \in Requests, since'[q] # 0,
                        SessionOf[q] \in live'
                 PROVE  <<q, handle'[q]>> \in armed'
      OBVIOUS
    <2>1. since[q] # 0 /\ SessionOf[q] \in live /\ SessionOf[q] # s
      BY <1>5 DEF Destroy, View!Close
    <2>2. <<q, handle[q]>> \in armed /\ handle'[q] = handle[q]
      BY <1>5, <2>1 DEF Destroy
    <2>3. <<q, handle[q]>> \notin {<<r, handle[r]>> : r \in RequestsOf(s)}
      BY <2>1 DEF RequestsOf
    <2>4. QED
      BY <1>5, <2>2, <2>3 DEF Destroy
  <1>6. ASSUME NEW s \in Sessions, SwitchFocus(s) \/ Create(s)
        PROVE  FeedbackModeIsTimed'
    <2>1. CASE SwitchFocus(s)
      BY <2>1 DEF SwitchFocus, View!Focus
    <2>2. CASE Create(s)
      <3>1. \A r \in Requests : SessionOf[r] = s => since[r] = 0
        BY <2>2 DEF Create, View!Open, UnbornIdle, MapsAgree
      <3>2. QED
        BY <2>2, <3>1 DEF Create, View!Open
    <2>3. QED
      BY <1>6, <2>1, <2>2
  <1>7. CASE GatewayDown
    BY <1>7 DEF GatewayDown, View!Down
  <1>8. CASE GatewayUp
    BY <1>8 DEF GatewayUp, View!Up
  <1>9. CASE UNCHANGED vars
    BY <1>9 DEF vars
  <1>10. QED
    BY <1>1, <1>2, <1>3, <1>4, <1>5, <1>6, <1>7, <1>8, <1>9
       DEF Next, SessionStep

-----------------------------------------------------------------------------
(* Sessions not yet created, and the order of taps *)

\* Only a request of a created session asks, and no session is uncreated.
LEMMA NextUnbornIdle == TypeOK /\ UnbornIdle /\ [Next]_vars => UnbornIdle'
  <1> SUFFICES ASSUME TypeOK, UnbornIdle, [Next]_vars PROVE UnbornIdle'
    OBVIOUS
  <1> USE DEF TypeOK, UnbornIdle, hookVars, chatVars, timerVars, managerVars,
              sessionVars, processVars
  <1>1. ASSUME NEW r \in Requests, HookStep(r) PROVE UnbornIdle'
    <2>1. SessionOf[r] \in born
      BY <1>1 DEF HookStep, AskRefused, AskAutoResolved, AskUser, PostFails,
                  Poll, HookTimesOut, Reachable
    <2>2. born' = born /\ \A q \in Requests : q # r => hook'[q] = hook[q]
      BY <1>1 DEF HookStep, AskRefused, AskAutoResolved, AskUser, PostFails,
                  Poll, HookTimesOut
    <2>3. QED
      BY <2>1, <2>2
  <1>2. ASSUME NEW r \in Requests, SendStep(r) PROVE UnbornIdle'
    BY <1>2 DEF SendStep, SendSucceeds, SendFails
  <1>3. ASSUME NEW r \in Requests, UserStep(r) PROVE UnbornIdle'
    BY <1>3 DEF UserStep, TapYesNo, TapFeedback, WriteText, Resolve
  <1>4. ASSUME NEW r \in Requests, TimerStep(r) PROVE UnbornIdle'
    BY <1>4 DEF TimerStep, FeedbackTimeout, ReminderFires
  <1>5. ASSUME NEW s \in Sessions, Create(s) \/ Destroy(s) \/ SwitchFocus(s)
        PROVE  UnbornIdle'
    BY <1>5 DEF Create, Destroy, SwitchFocus, View!Open, View!Close, View!Focus
  <1>6. CASE GatewayDown
    BY <1>6 DEF GatewayDown, View!Down
  <1>7. CASE GatewayUp
    BY <1>7 DEF GatewayUp, View!Up
  <1>8. CASE UNCHANGED vars
    BY <1>8 DEF vars
  <1>9. QED
    BY <1>1, <1>2, <1>3, <1>4, <1>5, <1>6, <1>7, <1>8 DEF Next, SessionStep

\* A step that only takes requests out of feedback mode keeps their order.
LEMMA FewerAwaiting ==
  ASSUME TypeOK, TypeOK', TapsDiffer, taps' = taps,
         \A r \in Requests : since'[r] \in {0, since[r]}
  PROVE  TapsDiffer'
  <1> USE DEF TypeOK, TapsDiffer, Awaiting
  <1>1. \A r \in Requests : since'[r] <= taps'
    OBVIOUS
  <1>2. ASSUME NEW q \in Requests, NEW r \in Requests,
               since'[q] # 0, since'[q] = since'[r]
        PROVE  q = r
    BY <1>2
  <1>3. QED
    BY <1>1, <1>2

\* A first tap gets a number no request has; a second one changes no key.
LEMMA NextTapsDiffer == TypeOK /\ TapsDiffer /\ [Next]_vars => TapsDiffer'
  <1> SUFFICES ASSUME TypeOK, TypeOK', TapsDiffer, [Next]_vars PROVE TapsDiffer'
    BY NextTypeOK
  <1> USE DEF hookVars, chatVars, timerVars, managerVars, sessionVars, processVars
  <1>1. ASSUME NEW r \in Requests, TapFeedback(r) PROVE TapsDiffer'
    BY <1>1 DEF TypeOK, TapsDiffer, Awaiting, TapFeedback
  <1>2. ASSUME NEW r \in Requests, HookStep(r) \/ SendStep(r)
        PROVE  taps' = taps /\ since' = since
    BY <1>2 DEF HookStep, AskRefused, AskAutoResolved, AskUser, PostFails,
                Poll, HookTimesOut, SendStep, SendSucceeds, SendFails
  <1>3. ASSUME NEW r \in Requests, NEW answer, Resolve(r, answer)
        PROVE  taps' = taps /\ \A q \in Requests : since'[q] \in {0, since[q]}
    BY <1>3 DEF Resolve, TypeOK
  <1>4. ASSUME NEW r \in Requests, TimerStep(r)
        PROVE  taps' = taps /\ \A q \in Requests : since'[q] \in {0, since[q]}
    BY <1>4 DEF TimerStep, FeedbackTimeout, ReminderFires, TypeOK
  <1>5. CASE SessionStep \/ GatewayUp \/ UNCHANGED vars
    BY <1>5, FewerAwaiting
       DEF SessionStep, Create, Destroy, SwitchFocus, GatewayUp, vars
  <1>6. CASE GatewayDown
    BY <1>6, FewerAwaiting DEF GatewayDown
  <1>7. QED
    BY <1>1, <1>2, <1>3, <1>4, <1>5, <1>6, FewerAwaiting
       DEF Next, UserStep, TapYesNo, WriteText

-----------------------------------------------------------------------------
(* The theorems *)

\* The inductive invariant holds in every reachable state.
THEOREM Invariance == Spec => []IInv
  <1>1. IInv /\ [Next]_vars => IInv'
    BY NextTypeOK, NextMapsAgree, NextAllowedWasGranted, NextUnbornIdle,
       NextFeedbackModeIsTimed, NextTapsDiffer DEF IInv
  <1>2. QED
    BY InitIInv, <1>1, PTL DEF Spec

\* A tool call runs only if the mode or the user granted that very call.
THEOREM AllowedCallsWereGranted == Spec => []AllowedWasGranted
  <1>1. IInv => AllowedWasGranted
    BY DEF IInv
  <1>2. QED
    BY Invariance, <1>1, PTL

\* The manager's maps, the hook and the answers agree on every request.
THEOREM MapsAlwaysAgree == Spec => []MapsAgree
  <1>1. IInv => MapsAgree
    BY DEF IInv
  <1>2. QED
    BY Invariance, <1>1, PTL

\* A request in feedback mode always has its timer running.
THEOREM FeedbackModeAlwaysTimed == Spec => []FeedbackModeIsTimed
  <1>1. IInv => FeedbackModeIsTimed
    BY DEF IInv
  <1>2. QED
    BY Invariance, <1>1, PTL

\* A free text is the answer to one request: two requests that are both the
\* oldest of the focused session's map came with the same tap.
THEOREM TextsAnswerOne == Spec => []TextAnswersOne
  <1>1. IInv => TextAnswersOne
    <2> SUFFICES ASSUME IInv, NEW q \in FeedbackTarget, NEW r \in FeedbackTarget
                 PROVE  q = r
      BY DEF TextAnswersOne
    <2>1. since[q] <= since[r] /\ since[r] <= since[q]
      BY DEF FeedbackTarget
    <2>2. since[q] = since[r]
      BY <2>1 DEF IInv, TypeOK, FeedbackTarget
    <2>3. QED
      BY <2>2 DEF IInv, TapsDiffer, FeedbackTarget
  <1>2. QED
    BY Invariance, <1>1, PTL

\* The first answer given for a request is the only one.
THEOREM AnswersAreFinal == Spec => VerdictIsFinal
  <1>1. IInv /\ [Next]_vars =>
          [\A r \in Requests : verdict[r] # "none" => verdict'[r] = verdict[r]]_vars
    BY NextVerdictIsFinal DEF IInv
  <1>2. QED
    BY Invariance, <1>1, PTL DEF Spec, VerdictIsFinal

-----------------------------------------------------------------------------
(* The approval path implements the abstract gate *)

\* The abstract state of a request, under the refinement mapping.
GateOf == [r \in Requests |-> GateOfHook(hook[r])]
GrantOf == [r \in Requests |-> GrantOfVerdict(verdict[r])]

\* The initial states map to the abstract initial state.
LEMMA InitImplements == Init => Gate!Init
  BY DEF Init, Gate!Init, GateOfHook, GrantOfVerdict, Granting

\* A step that changes neither the hooks nor the answers is an abstract stutter.
LEMMA UnchangedImplements ==
  ASSUME hook' = hook, verdict' = verdict
  PROVE  UNCHANGED Gate!vars
  BY DEF Gate!vars

\* A step that only denies a call that has no decision is an abstract Deny.
LEMMA DenyImplements ==
  ASSUME TypeOK, NEW r \in Requests, hook[r] \in {"idle", "posting", "polling"},
         hook' = [hook EXCEPT ![r] = "denied"], verdict' = verdict
  PROVE  Gate!Deny(r)
  BY DEF TypeOK, HookState, Gate!Deny, GateOfHook

\* An answer to a pending request is an abstract Answer.
LEMMA ResolveImplements ==
  ASSUME TypeOK, MapsAgree, NEW r \in Requests, NEW answer \in Answers,
         Resolve(r, answer)
  PROVE  Gate!Answer(r)
  <1> USE DEF TypeOK, HookState, MapsAgree, Resolve, hookVars
  <1>1. GateOfHook(hook[r]) # "idle" /\ GrantOfVerdict(verdict[r]) = "none"
    BY DEF GateOfHook, GrantOfVerdict, Granting
  <1>2. GrantOfVerdict(answer) \in {"yes", "no"}
    BY DEF Answers, Granting, GrantOfVerdict
  <1>3. hook' = hook /\ verdict' = [verdict EXCEPT ![r] = answer]
    OBVIOUS
  <1>4. QED
    BY <1>1, <1>2, <1>3 DEF Gate!Answer

\* Every step of a hook is an abstract step or a stutter.
LEMMA HookStepImplements ==
  ASSUME TypeOK, MapsAgree, NEW r \in Requests, HookStep(r)
  PROVE  [Gate!Next]_(Gate!vars)
  <1> USE DEF TypeOK, HookState, MapsAgree, hookVars, chatVars
  <1>1. CASE AskRefused(r)
    BY <1>1, DenyImplements DEF AskRefused, Gate!Next
  <1>2. ASSUME NEW m \in Mode, AskAutoResolved(r, m)
        PROVE  [Gate!Next]_(Gate!vars)
    <2>1. CASE DecisionByMode(m) = "allow"
      <3>1. Gate!AllowByMode(r)
        BY <1>2, <2>1 DEF AskAutoResolved, Gate!AllowByMode, GateOfHook,
                          GrantOfVerdict, Granting
      <3>2. QED
        BY <3>1 DEF Gate!Next
    <2>2. CASE DecisionByMode(m) # "allow"
      BY <1>2, <2>2, DenyImplements DEF AskAutoResolved, Gate!Next
    <2>3. QED
      BY <2>1, <2>2
  <1>3. ASSUME NEW m \in Mode, AskUser(r, m) PROVE [Gate!Next]_(Gate!vars)
    <2>1. Gate!Ask(r)
      BY <1>3 DEF AskUser, Gate!Ask, GateOfHook
    <2>2. QED
      BY <2>1 DEF Gate!Next
  <1>4. CASE PostFails(r)
    BY <1>4, DenyImplements DEF PostFails, Gate!Next
  <1>5. CASE Poll(r)
    <2>1. CASE Status(r) \in {"approved", "feedback"}
      <3>1. verdict[r] \in {"approved", "feedback"}
        BY <2>1 DEF Status
      <3>2. Gate!Allow(r)
        BY <1>5, <2>1, <3>1
           DEF Poll, Gate!Allow, GateOfHook, GrantOfVerdict, Granting
      <3>3. QED
        BY <3>2 DEF Gate!Next
    <2>2. CASE Status(r) \notin {"approved", "feedback"}
      BY <1>5, <2>2, DenyImplements DEF Poll, Gate!Next
    <2>3. QED
      BY <2>1, <2>2
  <1>6. CASE HookTimesOut(r)
    BY <1>6, DenyImplements DEF HookTimesOut, Gate!Next
  <1>7. QED
    BY <1>1, <1>2, <1>3, <1>4, <1>5, <1>6 DEF HookStep

\* Every step of the detailed specification is an abstract step or a stutter.
LEMMA NextImplements ==
  ASSUME TypeOK, MapsAgree, [Next]_vars
  PROVE  [Gate!Next]_(Gate!vars)
  <1> USE DEF hookVars, chatVars, timerVars, managerVars, sessionVars, processVars
  <1>1. ASSUME NEW r \in Requests, HookStep(r) PROVE [Gate!Next]_(Gate!vars)
    BY <1>1, HookStepImplements
  <1>2. ASSUME NEW r \in Requests, SendStep(r) PROVE [Gate!Next]_(Gate!vars)
    <2>1. CASE SendSucceeds(r)
      <3>1. GateOf' = GateOf /\ verdict' = verdict
        BY <2>1 DEF SendSucceeds, GateOf, GateOfHook, TypeOK
      <3>2. QED
        BY <3>1 DEF GateOf, Gate!vars
    <2>2. CASE SendFails(r) /\ hook[r] = "posting"
      BY <2>2, DenyImplements DEF SendFails, Gate!Next
    <2>3. CASE SendFails(r) /\ hook[r] # "posting"
      BY <2>3, UnchangedImplements DEF SendFails
    <2>4. QED
      BY <1>2, <2>1, <2>2, <2>3 DEF SendStep
  <1>3. ASSUME NEW r \in Requests, UserStep(r) PROVE [Gate!Next]_(Gate!vars)
    <2>1. ASSUME NEW answer \in Answers, Resolve(r, answer)
          PROVE  [Gate!Next]_(Gate!vars)
      BY <2>1, ResolveImplements DEF Gate!Next
    <2>2. CASE TapFeedback(r)
      BY <2>2, UnchangedImplements DEF TapFeedback
    <2>3. QED
      BY <1>3, <2>1, <2>2 DEF UserStep, TapYesNo, WriteText, Answers
  <1>4. ASSUME NEW r \in Requests, TimerStep(r) PROVE [Gate!Next]_(Gate!vars)
    BY <1>4, UnchangedImplements DEF TimerStep, FeedbackTimeout, ReminderFires
  <1>5. ASSUME NEW s \in Sessions, Create(s) \/ Destroy(s) \/ SwitchFocus(s)
        PROVE  [Gate!Next]_(Gate!vars)
    BY <1>5, UnchangedImplements DEF Create, Destroy, SwitchFocus
  <1>6. CASE GatewayDown \/ GatewayUp \/ UNCHANGED vars
    BY <1>6, UnchangedImplements DEF GatewayDown, GatewayUp, vars
  <1>7. QED
    BY <1>1, <1>2, <1>3, <1>4, <1>5, <1>6 DEF Next, SessionStep

\* The approval path implements ToolGate: every behaviour of hooks, gateway,
\* chat and timers is, seen through the mapping, a behaviour of the gate.
THEOREM ApprovalImplementsToolGate == Spec => ImplementsToolGate
  <1>1. IInv /\ [Next]_vars => [Gate!Next]_(Gate!vars)
    BY NextImplements DEF IInv
  <1>2. QED
    BY InitImplements, Invariance, <1>1, PTL DEF Spec, ImplementsToolGate, Gate!Spec
=============================================================================
