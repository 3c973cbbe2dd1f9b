------------------------------ MODULE Approval ------------------------------
(***************************************************************************)
(* The tool approval path of the gateway, end to end.                      *)
(*                                                                         *)
(* Claude Code starts one hook process per tool call (tool-approval.ts).   *)
(* The hook posts to the gateway (approval-api.ts), which answers at once  *)
(* when the session's mode decides, and otherwise registers the request in *)
(* the session's ApprovalManager and sends three buttons to the chat.  The *)
(* hook then polls.  The user taps buttons, or taps "Yes + feedback" and   *)
(* writes a text (jorchbot-start.ts).  Feedback windows and reminders run  *)
(* on timers.  Sessions are destroyed, focus moves, the gateway restarts.  *)
(*                                                                         *)
(* JavaScript runs one callback at a time: an action is what runs between  *)
(* two awaits, a process step of a hook, or something the user does.       *)
(*                                                                         *)
(* The sessions are those of one phone, and do what SessionView says; an   *)
(* action on them is a step of SessionView and what it does to approvals.  *)
(***************************************************************************)
EXTENDS Naturals

CONSTANTS
    Sessions,           \* ids of sessions
    Requests,           \* tool calls, one per hook process
    SessionOf,          \* the session whose Claude process makes each call
    None,               \* no session is focused
    MaxTaps,            \* bound: "Yes + feedback" taps, over all requests
    MaxRestarts         \* bound: times the gateway process goes down

ASSUME ApprovalAssumption ==
    /\ SessionOf \in [Requests -> Sessions]
    /\ None \notin Sessions
    /\ MaxTaps \in Nat
    /\ MaxRestarts \in Nat

VARIABLES
    \* hook processes and the HTTP endpoint
    hook,               \* state of each hook process
    inflight,           \* requests whose button message is still being sent
    \* the chat
    prompted,           \* requests whose buttons may be on the user's phone
    verdict,            \* history: the first answer given for each request
    \* ApprovalManager, one per session, flattened over request ids
    pending,            \* keys of the map `pending`
    resolved,           \* the map `resolved`
    since,              \* the map `awaitingFeedback`: 0, or the tap that added
                        \* the key (a Map iterates its keys in that order)
    handle,             \* the map `feedbackTimeouts`: 0, or the timer it holds
    armed,              \* feedback timers set and neither fired nor cleared
    taps,               \* feedback timers created so far, which names them
    reminders,          \* armed reminder timers
    \* SessionManager
    born,               \* sessions created so far
    live,               \* active sessions; while down, rows marked active
    focused,            \* focused session of the phone
    \* gateway process
    up, restarts

hookVars == <<hook, inflight>>
chatVars == <<prompted, verdict>>
timerVars == <<handle, armed, taps, reminders>>
managerVars == <<pending, resolved, since, timerVars>>
sessionVars == <<born, live, focused>>
processVars == <<up, restarts>>
vars == <<hookVars, chatVars, managerVars, sessionVars, processVars>>

HookState == {"idle", "posting", "polling", "allowed", "denied"}
Mode == {"confirm", "plan", "auto"}
Answers == {"approved", "feedback", "denied"}
Granting == {"approved", "feedback", "auto"}

TypeOK ==
    /\ hook \in [Requests -> HookState]
    /\ inflight \in SUBSET Requests
    /\ prompted \in SUBSET Requests
    /\ verdict \in [Requests -> Answers \cup {"none", "auto"}]
    /\ pending \in SUBSET Requests
    /\ resolved \in [Requests -> Answers \cup {"none"}]
    /\ since \in [Requests -> Nat]
    /\ handle \in [Requests -> Nat]
    /\ armed \in SUBSET (Requests \X Nat)
    /\ taps \in Nat
    /\ reminders \in SUBSET Requests
    /\ born \in SUBSET Sessions
    /\ live \in SUBSET born
    /\ focused \in Sessions \cup {None}
    /\ up \in BOOLEAN
    /\ restarts \in Nat

View == INSTANCE SessionView WITH Ids <- Sessions

Init ==
    /\ View!Init
    /\ hook = [r \in Requests |-> "idle"]
    /\ inflight = {}
    /\ prompted = {}
    /\ verdict = [r \in Requests |-> "none"]
    /\ pending = {}
    /\ resolved = [r \in Requests |-> "none"]
    /\ since = [r \in Requests |-> 0]
    /\ handle = [r \in Requests |-> 0]
    /\ armed = {}
    /\ taps = 0
    /\ reminders = {}
    /\ restarts = 0

-----------------------------------------------------------------------------
(***************************************************************************)
(* Helpers.  An operator whose comment starts with "Mistake" is a form of  *)
(* the definition after it that a plausible bug would give.  No action     *)
(* uses it: PROJECT.json pairs it with the property that catches it.       *)
(***************************************************************************)

Awaiting(r) == since[r] # 0

\* The endpoints and the button handler search the sessions in the active map
\* of the running gateway.
Reachable(r) == up /\ SessionOf[r] \in live

\* Mistake: tapping "Yes + feedback" already counts as the approval.
StatusFeedbackIsConsent(r) ==
    IF ~Reachable(r) THEN "unknown"
    ELSE IF Awaiting(r) THEN "approved"
    ELSE IF r \in pending THEN "pending"
    ELSE IF resolved[r] # "none" THEN resolved[r]
    ELSE "unknown"

\* GET /api/tool-approval/:id, getApprovalStatus of the session that knows r.
Status(r) ==
    IF ~Reachable(r) THEN "unknown"
    ELSE IF Awaiting(r) THEN "awaiting_feedback"
    ELSE IF r \in pending THEN "pending"
    ELSE IF resolved[r] # "none" THEN resolved[r]
    ELSE "unknown"

\* resolveApprovalByMode.  Hooks are registered for write tools only, which
\* plan mode refuses.
DecisionByMode(m) ==
    CASE m = "auto" -> "allow"
      [] m = "plan" -> "deny"
      [] m = "confirm" -> "ask"

\* The request getAwaitingFeedbackId finds for a text: the oldest key of the
\* focused session's awaitingFeedback map.
FeedbackTarget ==
    {r \in Requests :
        /\ Reachable(r)
        /\ SessionOf[r] = focused
        /\ Awaiting(r)
        /\ \A q \in Requests :
              SessionOf[q] = focused /\ Awaiting(q) => since[r] <= since[q]}

\* clearFeedbackTimeout: clears the timer the map holds, and no other.
ClearHandle(r) ==
    /\ armed' = armed \ {<<r, handle[r]>>}
    /\ handle' = [handle EXCEPT ![r] = 0]

\* Mistake: the user's answer leaves the request in `pending`.
ResolveKeepsPending(r, answer) ==
    /\ r \in pending
    /\ since' = [since EXCEPT ![r] = 0]
    /\ ClearHandle(r)
    /\ reminders' = reminders \ {r}
    /\ resolved' = [resolved EXCEPT ![r] = answer]
    /\ verdict' = [verdict EXCEPT ![r] = answer]
    /\ UNCHANGED <<hookVars, prompted, pending, taps, sessionVars, processVars>>

\* Mistake: the user's answer leaves the request in `awaitingFeedback`.
ResolveKeepsAwaiting(r, answer) ==
    /\ r \in pending
    /\ pending' = pending \ {r}
    /\ ClearHandle(r)
    /\ reminders' = reminders \ {r}
    /\ resolved' = [resolved EXCEPT ![r] = answer]
    /\ verdict' = [verdict EXCEPT ![r] = answer]
    /\ UNCHANGED <<hookVars, prompted, since, taps, sessionVars, processVars>>

\* resolveApproval of the manager that has the request pending.
Resolve(r, answer) ==
    /\ r \in pending
    /\ pending' = pending \ {r}
    /\ since' = [since EXCEPT ![r] = 0]
    /\ ClearHandle(r)
    /\ reminders' = reminders \ {r}
    /\ resolved' = [resolved EXCEPT ![r] = answer]
    /\ verdict' = [verdict EXCEPT ![r] = answer]
    /\ UNCHANGED <<hookVars, prompted, taps, sessionVars, processVars>>

-----------------------------------------------------------------------------
(* The hook process and the endpoint *)

\* POST with no gateway listening (fetch throws) or for a session that is not
\* active any more (404): the hook denies.
AskRefused(r) ==
    /\ hook[r] = "idle"
    /\ SessionOf[r] \in born
    /\ ~Reachable(r)
    /\ hook' = [hook EXCEPT ![r] = "denied"]
    /\ UNCHANGED <<inflight, chatVars, managerVars, sessionVars, processVars>>

\* POST answered from the mode in the session's row.  The user may set the mode
\* between any two requests, so the mode read is any mode.
AskAutoResolved(r, m) ==
    /\ hook[r] = "idle"
    /\ Reachable(r)
    /\ \/ /\ DecisionByMode(m) = "allow"
          /\ hook' = [hook EXCEPT ![r] = "allowed"]
          /\ verdict' = [verdict EXCEPT ![r] = "auto"]
       \/ /\ DecisionByMode(m) = "deny"
          /\ hook' = [hook EXCEPT ![r] = "denied"]
          /\ UNCHANGED verdict
    /\ UNCHANGED <<inflight, prompted, managerVars, sessionVars, processVars>>

\* POST in confirm mode: requestApproval up to the await of the send.
AskUser(r, m) ==
    /\ hook[r] = "idle"
    /\ Reachable(r)
    /\ DecisionByMode(m) = "ask"
    /\ hook' = [hook EXCEPT ![r] = "posting"]
    /\ pending' = pending \cup {r}
    /\ inflight' = inflight \cup {r}
    /\ prompted' = prompted \cup {r}
    /\ UNCHANGED <<verdict, resolved, since, timerVars, sessionVars, processVars>>

\* The send succeeded: requestApproval resumes, starts the reminder whatever
\* happened meanwhile, and the response carries the id to a hook that still
\* waits for it.
SendSucceeds(r) ==
    /\ up
    /\ r \in inflight
    /\ inflight' = inflight \ {r}
    /\ reminders' = reminders \cup {r}
    /\ hook' = IF hook[r] = "posting" THEN [hook EXCEPT ![r] = "polling"] ELSE hook
    /\ UNCHANGED <<chatVars, pending, resolved, since, handle, armed, taps,
                   sessionVars, processVars>>

\* The send failed (the message may still have reached the phone): the endpoint
\* answers 500, the hook denies, and the request stays pending.
SendFails(r) ==
    /\ up
    /\ r \in inflight
    /\ inflight' = inflight \ {r}
    /\ hook' = IF hook[r] = "posting" THEN [hook EXCEPT ![r] = "denied"] ELSE hook
    /\ UNCHANGED <<chatVars, managerVars, sessionVars, processVars>>

\* The hook's POST fails on its side: the connection broke with the gateway, or
\* the client's own timeout passed.
PostFails(r) ==
    /\ hook[r] = "posting"
    /\ hook' = [hook EXCEPT ![r] = "denied"]
    /\ UNCHANGED <<inflight, chatVars, managerVars, sessionVars, processVars>>

\* A poll that brings a decision.  One that finds no gateway, 404, pending or
\* awaiting_feedback sleeps and tries again.
Poll(r) ==
    /\ hook[r] = "polling"
    /\ \/ /\ Status(r) \in {"approved", "feedback"}
          /\ hook' = [hook EXCEPT ![r] = "allowed"]
       \/ /\ Status(r) = "denied"
          /\ hook' = [hook EXCEPT ![r] = "denied"]
    /\ UNCHANGED <<inflight, chatVars, managerVars, sessionVars, processVars>>

\* Mistake: a poll that gets no answer does not count towards the deadline.
HookTimesOutIfAnswered(r) ==
    /\ hook[r] = "polling"
    /\ Status(r) # "unknown"
    /\ hook' = [hook EXCEPT ![r] = "denied"]
    /\ UNCHANGED <<inflight, chatVars, managerVars, sessionVars, processVars>>

\* Mistake: the hook fails open when nobody answered.
HookTimesOutOpen(r) ==
    /\ hook[r] = "polling"
    /\ hook' = [hook EXCEPT ![r] = "allowed"]
    /\ UNCHANGED <<inflight, chatVars, managerVars, sessionVars, processVars>>

\* MAX_POLL_MS is over: the hook denies, and tells nobody.
HookTimesOut(r) ==
    /\ hook[r] = "polling"
    /\ hook' = [hook EXCEPT ![r] = "denied"]
    /\ UNCHANGED <<inflight, chatVars, managerVars, sessionVars, processVars>>

-----------------------------------------------------------------------------
(* The user: buttons stay on the phone and can be tapped at any later time *)

\* Buttons "Yes" and "No".  The handler ignores a tap nobody has pending.
TapYesNo(r, answer) ==
    /\ Reachable(r)
    /\ r \in prompted
    /\ answer \in {"approved", "denied"}
    /\ Resolve(r, answer)

\* Button "Yes + feedback": setAwaitingFeedback.  A second tap keeps the key's
\* place in the awaitingFeedback map and overwrites the timer in the other map
\* without clearing it.
TapFeedback(r) ==
    /\ taps < MaxTaps
    /\ Reachable(r)
    /\ r \in prompted
    /\ r \in pending
    /\ taps' = taps + 1
    /\ since' = [since EXCEPT ![r] = IF Awaiting(r) THEN @ ELSE taps + 1]
    /\ handle' = [handle EXCEPT ![r] = taps + 1]
    /\ armed' = armed \cup {<<r, taps + 1>>}
    /\ UNCHANGED <<hookVars, chatVars, pending, resolved, reminders,
                   sessionVars, processVars>>

\* A free text arrives and is taken as feedback.  Any other text goes to the
\* command router, which does not touch approvals.
WriteText(r) ==
    /\ r \in FeedbackTarget
    /\ Resolve(r, "feedback")

-----------------------------------------------------------------------------
(* Timers *)

\* Mistake: the callback forgets to leave feedback mode.
FeedbackTimeoutKeepsAwaiting(r, k) ==
    /\ up
    /\ <<r, k>> \in armed
    /\ armed' = armed \ {<<r, k>>, <<r, handle[r]>>}
    /\ handle' = [handle EXCEPT ![r] = 0]
    /\ UNCHANGED <<hookVars, chatVars, pending, resolved, since, taps, reminders,
                   sessionVars, processVars>>

\* The callback of setAwaitingFeedback's timer.  It clears the timer the map
\* holds, which need not be the one that fired, and leaves feedback mode.  The
\* buttons it sends again are on the phone already.
FeedbackTimeout(r, k) ==
    /\ up
    /\ <<r, k>> \in armed
    /\ armed' = armed \ {<<r, k>>, <<r, handle[r]>>}
    /\ handle' = [handle EXCEPT ![r] = 0]
    /\ since' = [since EXCEPT ![r] = 0]
    /\ UNCHANGED <<hookVars, chatVars, pending, resolved, taps, reminders,
                   sessionVars, processVars>>

\* ApprovalTimer fires once; onReminder sends the buttons again if the request
\* is pending.
ReminderFires(r) ==
    /\ up
    /\ r \in reminders
    /\ reminders' = reminders \ {r}
    /\ UNCHANGED <<hookVars, chatVars, pending, resolved, since, handle, armed,
                   taps, sessionVars, processVars>>

-----------------------------------------------------------------------------
(* Sessions and the gateway process *)

RequestsOf(s) == {r \in Requests : SessionOf[r] = s}

Create(s) ==
    /\ View!Open(s)
    /\ UNCHANGED <<hookVars, chatVars, managerVars, restarts>>

\* Session destroy once the runner has stopped: dispose() of the session's
\* manager clears the timers its two maps hold.
Destroy(s) ==
    /\ View!Close(s)
    /\ armed' = armed \ {<<r, handle[r]>> : r \in RequestsOf(s)}
    /\ handle' = [r \in Requests |-> IF SessionOf[r] = s THEN 0 ELSE handle[r]]
    /\ reminders' = reminders \ RequestsOf(s)
    /\ UNCHANGED <<hookVars, chatVars, pending, resolved, since, taps, restarts>>

SwitchFocus(s) ==
    /\ View!Focus(s)
    /\ UNCHANGED <<hookVars, chatVars, managerVars, restarts>>

\* The gateway process ends.  Every map and timer is gone, a hook that waits for
\* its POST has lost the connection, and sessions stay in the database.
GatewayDown ==
    /\ restarts < MaxRestarts
    /\ View!Down
    /\ restarts' = restarts + 1
    /\ inflight' = {}
    /\ pending' = {}
    /\ resolved' = [r \in Requests |-> "none"]
    /\ since' = [r \in Requests |-> 0]
    /\ handle' = [r \in Requests |-> 0]
    /\ armed' = {}
    /\ reminders' = {}
    /\ UNCHANGED <<hook, chatVars, taps>>

\* restore() gives every active row a session with a fresh ApprovalManager.
GatewayUp ==
    /\ View!Up
    /\ UNCHANGED <<hookVars, chatVars, managerVars, restarts>>

-----------------------------------------------------------------------------

HookStep(r) ==
    \/ AskRefused(r)
    \/ \E m \in Mode : AskAutoResolved(r, m) \/ AskUser(r, m)
    \/ PostFails(r)
    \/ Poll(r)
    \/ HookTimesOut(r)

SendStep(r) == SendSucceeds(r) \/ SendFails(r)

UserStep(r) ==
    \/ \E answer \in {"approved", "denied"} : TapYesNo(r, answer)
    \/ TapFeedback(r)
    \/ WriteText(r)

TimerStep(r) ==
    \/ \E k \in 1..taps : FeedbackTimeout(r, k)
    \/ ReminderFires(r)

SessionStep == \E s \in Sessions : Create(s) \/ Destroy(s) \/ SwitchFocus(s)

Next ==
    \/ \E r \in Requests : HookStep(r) \/ SendStep(r) \/ UserStep(r) \/ TimerStep(r)
    \/ SessionStep
    \/ GatewayDown
    \/ GatewayUp

Spec == Init /\ [][Next]_vars

\* Polling ends by its own clock, a POST is answered or fails, and timers fire as
\* long as the gateway runs.  Nothing is assumed of the user, of session
\* commands, or of anybody starting the gateway again.
Fairness ==
    \A r \in Requests :
        /\ WF_vars(Poll(r) \/ HookTimesOut(r))
        /\ WF_vars(SendStep(r) \/ PostFails(r))
        /\ WF_vars(TimerStep(r))

FairSpec == Spec /\ Fairness

-----------------------------------------------------------------------------
(* Properties *)

\* A tool call runs only if the session's mode or the user granted that very
\* call, whatever restarts, timeouts and late taps happened around it
\* (tool-approval.ts, approval-api.ts, resolveApproval).
AllowedWasGranted ==
    \A r \in Requests : hook[r] = "allowed" => verdict[r] \in Granting

\* The first answer to a request is the only one: a button that stays on the
\* phone, a text after a tap, or a tap after a restart never changes it.
VerdictIsFinal ==
    [][\A r \in Requests : verdict[r] # "none" => verdict'[r] = verdict[r]]_vars

\* The maps of the manager, the hook and the answers given agree on the stage of
\* every request.  In particular an answered request is neither pending nor in
\* feedback mode, so getApprovalStatus, which looks at those first, never hides
\* the answer from the poll; and a pending request has no answer yet.
MapsAgree ==
    \A r \in Requests :
        /\ hook[r] = "idle" => r \notin pending /\ verdict[r] = "none"
        /\ Awaiting(r) => r \in pending
        /\ r \in pending => verdict[r] = "none"
        /\ resolved[r] # "none" => r \notin pending /\ verdict[r] = resolved[r]

\* Feedback mode takes over the user's free texts, so it must not outlive its
\* timer: an active session's request in feedback mode has a timer running, and
\* it is the one clearFeedbackTimeout would clear.
FeedbackModeIsTimed ==
    \A r \in Requests :
        Awaiting(r) /\ SessionOf[r] \in live => <<r, handle[r]>> \in armed

\* Feedback mode ends, by a text, a tap, its timer, or the session's end.
FeedbackModeEnds ==
    \A r \in Requests :
        (Awaiting(r) /\ Reachable(r)) ~> (~Awaiting(r) \/ ~Reachable(r))

\* Every hook that asked gets a decision, even if its session is destroyed, the
\* gateway goes down for good, or nobody answers.
EveryAskIsDecided ==
    \A r \in Requests :
        (hook[r] \in {"posting", "polling"}) ~> (hook[r] \in {"allowed", "denied"})

\* The hook's own state and the answers implement the abstract gate.
GateOfHook(h) == IF h \in {"posting", "polling"} THEN "asking" ELSE h
GrantOfVerdict(v) ==
    IF v \in Granting THEN "yes" ELSE IF v = "denied" THEN "no" ELSE "none"

Gate == INSTANCE ToolGate WITH
    gate <- [r \in Requests |-> GateOfHook(hook[r])],
    grant <- [r \in Requests |-> GrantOfVerdict(verdict[r])]

ImplementsToolGate == Gate!Spec

-----------------------------------------------------------------------------
(* What the repository says of the program, and the program does not do *)

\* jorchbot-start.ts tells the user who wrote a feedback text "Approved with
\* feedback. Claude received: ...".  Then the hook must still be waiting.
FeedbackReachesClaude ==
    [][\A r \in Requests :
          WriteText(r) => hook[r] \in {"posting", "polling"}]_vars
=============================================================================
