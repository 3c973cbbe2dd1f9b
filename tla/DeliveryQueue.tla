---------------------------- MODULE DeliveryQueue ----------------------------
(***************************************************************************)
(* The write-ahead queue of outbound messages: deliverOutboundPayloads     *)
(* (infra/outbound/deliver.ts) records a message in a file, sends its      *)
(* payloads one by one and removes the file; recoverPendingDeliveries      *)
(* (infra/outbound/delivery-queue.ts) sends what a start of the gateway    *)
(* finds, with a growing backoff and within a budget of time.              *)
(*                                                                         *)
(* Two actors send a message: "live", the call that accepted it, and       *)
(* "recovery", the loop of the current start.  Both take the same steps    *)
(* after the record is there, and every step that awaits the network or    *)
(* the disk is an action of its own, so that they interleave and the       *)
(* process may end between any two.  A file appears, changes and goes in   *)
(* one rename or unlink.                                                   *)
(***************************************************************************)
EXTENDS FiniteSets, Naturals, Sequences

CONSTANTS
    Payloads,           \* number of payloads of each message, a sequence
    Kinds,              \* how the callers may want errors handled, per message
    MaxLive,            \* bound: live calls at the same time
    MaxRetries,         \* MAX_RETRIES
    Backoff,            \* BACKOFF_MS, a sequence, in seconds
    Budget,             \* maxRecoveryMs, in seconds
    SendTimes,          \* how long sending a message may take, in seconds
    None,               \* no kind: the message is not accepted yet
    MaxCrashes,         \* bound: times the process ends
    MaxFaults           \* bound: operations that fail

\* A message is "strict" if bestEffort is not set, "watched" if it is and the
\* caller passes onError, "blind" if it is and the caller does not.
AllKinds == {"strict", "watched", "blind"}

ASSUME DeliveryAssumption ==
    /\ Payloads \in Seq(Nat \ {0})
    /\ Kinds \in [1..Len(Payloads) -> SUBSET AllKinds]
    /\ MaxLive \in Nat
    /\ MaxRetries \in Nat
    /\ Backoff \in Seq(Nat)
    /\ Backoff # <<>>
    /\ Budget \in Nat
    /\ SendTimes \subseteq Nat
    /\ SendTimes # {}
    /\ None \notin AllKinds
    /\ MaxCrashes \in Nat
    /\ MaxFaults \in Nat

Messages == 1..Len(Payloads)        \* in the order of enqueuedAt
Pieces(m) == 1..Payloads[m]
Actors == {"live", "recovery"}
Steps == {"off", "writing", "sending", "acking", "failing", "renaming"}

VARIABLES
    \* the directory delivery-queue and its failed/ subdirectory
    queued, retries, failed,
    \* the calls of deliverOutboundPayloads, one per actor and message
    kind,               \* kind of each message, None before it is accepted
    step, piece,        \* where each call is, and the payload it sends, else 1
    read,               \* retryCount that failDelivery has read, else 0
    tracked,            \* queueId of the live call is not null
    missed,             \* hadPartialFailure of the live call
    \* recoverPendingDeliveries: files to read, entries read and not yet tried
    phase, unread, loaded, loadedRetries, elapsed,
    up

VARIABLES
    \* what happened, for the properties
    copies,             \* times each payload reached the recipient
    aborted,            \* messages whose live call ended in an AbortError
    failures,           \* calls that ended in failDelivery
    overtaken,          \* messages a start found while their live call ran
    crashes, faults

diskVars == <<queued, retries, failed>>
callVars == <<kind, step, piece, read, tracked, missed>>
loopVars == <<phase, unread, loaded, loadedRetries, elapsed>>
seenVars == <<copies, aborted, failures, overtaken>>
faultVars == <<crashes, faults>>
vars == <<diskVars, callVars, loopVars, up, seenVars, faultVars>>

TypeOK ==
    /\ queued \in [Messages -> BOOLEAN]
    /\ failed \in [Messages -> BOOLEAN]
    /\ retries \in [Messages -> Nat]
    /\ kind \in [Messages -> AllKinds \cup {None}]
    /\ step \in [Actors -> [Messages -> Steps]]
    /\ piece \in [Actors -> [Messages -> Nat]]
    /\ \A a \in Actors, m \in Messages : piece[a][m] \in Pieces(m)
    /\ read \in [Actors -> [Messages -> Nat]]
    /\ tracked \in [Messages -> BOOLEAN]
    /\ missed \in [Messages -> BOOLEAN]
    /\ phase \in {"off", "listing", "reading", "trying"}
    /\ unread \subseteq Messages
    /\ loaded \subseteq Messages
    /\ loadedRetries \in [Messages -> Nat]
    /\ elapsed \in Nat
    /\ up \in BOOLEAN
    /\ DOMAIN copies = Messages
    /\ \A m \in Messages : copies[m] \in [Pieces(m) -> Nat]
    /\ aborted \in [Messages -> BOOLEAN]
    /\ failures \in [Messages -> Nat]
    /\ overtaken \subseteq Messages
    /\ crashes \in Nat
    /\ faults \in Nat

Init ==
    /\ queued = [m \in Messages |-> FALSE]
    /\ failed = [m \in Messages |-> FALSE]
    /\ retries = [m \in Messages |-> 0]
    /\ kind = [m \in Messages |-> None]
    /\ step = [a \in Actors |-> [m \in Messages |-> "off"]]
    /\ piece = [a \in Actors |-> [m \in Messages |-> 1]]
    /\ read = [a \in Actors |-> [m \in Messages |-> 0]]
    /\ tracked = [m \in Messages |-> FALSE]
    /\ missed = [m \in Messages |-> FALSE]
    /\ phase = "listing"
    /\ unread = {}
    /\ loaded = {}
    /\ loadedRetries = [m \in Messages |-> 0]
    /\ elapsed = 0
    /\ up = TRUE
    /\ copies = [m \in Messages |-> [p \in Pieces(m) |-> 0]]
    /\ aborted = [m \in Messages |-> FALSE]
    /\ failures = [m \in Messages |-> 0]
    /\ overtaken = {}
    /\ crashes = 0
    /\ faults = 0

-----------------------------------------------------------------------------
(***************************************************************************)
(* An operator whose comment starts with "Mistake" is a form of the        *)
(* definition after it that a plausible bug would give.  No action uses    *)
(* it: PROJECT.json pairs it with the property that catches it.            *)
(***************************************************************************)

Smallest(S) == CHOOSE m \in S : \A n \in S : m <= n
AtMost(n, limit) == IF n <= limit THEN n ELSE limit

computeBackoff(n) == IF n = 0 THEN 0 ELSE Backoff[AtMost(n, Len(Backoff))]

\* The call of actor a for message m goes on to step s.
Goto(a, m, s) == step' = [step EXCEPT ![a][m] = s]

\* A file operation or the set-up of a channel fails and leaves the directory
\* as it is.
Fault ==
    /\ faults < MaxFaults
    /\ faults' = faults + 1
    /\ UNCHANGED <<diskVars, crashes>>

\* Mistake: the call is over when the sending has failed.
GoFailAcks(a, m) ==
    /\ Goto(a, m, IF a = "recovery" \/ tracked[m] THEN "acking" ELSE "off")
    /\ failures' = [failures EXCEPT ![m] = @ + 1]

\* The call ends in failDelivery, unless there is no entry.
GoFail(a, m) ==
    /\ Goto(a, m, IF a = "recovery" \/ tracked[m] THEN "failing" ELSE "off")
    /\ failures' = [failures EXCEPT ![m] = @ + 1]

\* The call ends in ackDelivery, unless there is no entry.
GoAck(a, m) ==
    /\ Goto(a, m, IF a = "recovery" \/ tracked[m] THEN "acking" ELSE "off")
    /\ UNCHANGED failures

\* The core goes on to the next payload, or returns: what follows then depends
\* on whether the wrapper has seen an error.
GoOn(a, m, seen) ==
    IF piece[a][m] < Payloads[m]
    THEN /\ piece' = [piece EXCEPT ![a][m] = @ + 1]
         /\ UNCHANGED <<step, failures>>
    ELSE /\ piece' = [piece EXCEPT ![a][m] = 1]
         /\ IF a = "live" /\ seen THEN GoFail(a, m) ELSE GoAck(a, m)

Delivered(a, m) ==
    copies' = [copies EXCEPT ![m][piece[a][m]] = @ + 1]

-----------------------------------------------------------------------------
(* deliverOutboundPayloads *)

\* deliverOutboundPayloads is called without skipQueue for the next message.
Accept(m, k) ==
    /\ up
    /\ kind[m] = None
    /\ k \in Kinds[m]
    /\ \A n \in 1..(m - 1) : kind[n] # None
    /\ Cardinality({n \in Messages : step["live"][n] # "off"}) < MaxLive
    /\ kind' = [kind EXCEPT ![m] = k]
    /\ Goto("live", m, "writing")
    /\ UNCHANGED <<diskVars, piece, read, tracked, missed, loopVars, up, seenVars, faultVars>>

\* enqueueDelivery: the renamed file is the record.  A write that fails does
\* not keep the message from being sent.
Enqueue(m) ==
    /\ step["live"][m] = "writing"
    /\ Goto("live", m, "sending")
    /\ \/ /\ queued' = [queued EXCEPT ![m] = TRUE]
          /\ tracked' = [tracked EXCEPT ![m] = TRUE]
          /\ UNCHANGED <<retries, failed, faultVars>>
       \/ Fault /\ UNCHANGED tracked
    /\ UNCHANGED <<kind, piece, read, missed, loopVars, up, seenVars>>

SendPiece(a, m) ==
    /\ step[a][m] = "sending"
    /\ Delivered(a, m)
    /\ GoOn(a, m, missed[m])
    /\ UNCHANGED <<diskVars, kind, read, tracked, missed, loopVars, up, aborted, overtaken, faultVars>>

\* Mistake: the core goes on after an error whatever bestEffort says.
PieceFailsSwallowed(a, m) ==
    /\ step[a][m] = "sending"
    /\ Delivered(a, m) \/ UNCHANGED copies
    /\ missed' = [missed EXCEPT ![m] = @ \/ (a = "live" /\ kind[m] # "blind")]
    /\ GoOn(a, m, missed'[m])
    /\ UNCHANGED <<diskVars, kind, read, tracked, loopVars, up, aborted, overtaken, faultVars>>

\* Sending a payload throws, whether or not it has reached the recipient.
\* Without bestEffort the core throws; with it the core goes on, and only the
\* live call with an onError callback notices.  Recovery passes no onError.
PieceFails(a, m) ==
    /\ step[a][m] = "sending"
    /\ Delivered(a, m) \/ UNCHANGED copies
    /\ \/ /\ kind[m] = "strict"
          /\ piece' = [piece EXCEPT ![a][m] = 1]
          /\ GoFail(a, m)
          /\ UNCHANGED missed
       \/ /\ kind[m] # "strict"
          /\ missed' = [missed EXCEPT ![m] = @ \/ (a = "live" /\ kind[m] = "watched")]
          /\ GoOn(a, m, missed'[m])
    /\ UNCHANGED <<diskVars, kind, read, tracked, loopVars, up, aborted, overtaken, faultVars>>

\* The core throws whatever bestEffort says: before the first payload, as the
\* channel cannot be set up, or after the last, as the transcript of the
\* session cannot be written.
CoreFails(a, m) ==
    /\ step[a][m] = "sending"
    /\ \/ piece[a][m] = 1 /\ UNCHANGED copies
       \/ piece[a][m] = Payloads[m] /\ (Delivered(a, m) \/ UNCHANGED copies)
    /\ piece' = [piece EXCEPT ![a][m] = 1]
    /\ GoFail(a, m)
    /\ Fault
    /\ UNCHANGED <<kind, read, tracked, missed, loopVars, up, aborted, overtaken>>

\* The live call ends in an AbortError and the entry is dropped: the caller's
\* signal fired before a payload, or the channel's own request timed out
\* (fetchWithTimeout, for Signal), which gives an error of the same name.  Under
\* bestEffort it is an error of a payload like any other.
Abort(m) ==
    /\ step["live"][m] = "sending"
    /\ kind[m] = "strict"
    /\ Delivered("live", m) \/ UNCHANGED copies
    /\ aborted' = [aborted EXCEPT ![m] = TRUE]
    /\ piece' = [piece EXCEPT !["live"][m] = 1]
    /\ GoAck("live", m)
    /\ UNCHANGED <<diskVars, kind, read, tracked, missed, loopVars, up, overtaken, faultVars>>

\* ackDelivery: a file that is already gone is no error.  The live call ignores
\* an error, the recovery counts it as a failed delivery.
AckDelivery(a, m) ==
    /\ step[a][m] = "acking"
    /\ \/ /\ queued' = [queued EXCEPT ![m] = FALSE]
          /\ Goto(a, m, "off")
          /\ UNCHANGED <<retries, failed, failures, faultVars>>
       \/ /\ Fault
          /\ IF a = "recovery" THEN GoFail(a, m) ELSE Goto(a, m, "off") /\ UNCHANGED failures
    /\ UNCHANGED <<kind, piece, read, tracked, missed, loopVars, up, copies, aborted, overtaken>>

\* failDelivery up to its first await: the file is read, if it is there.
FailRead(a, m) ==
    /\ step[a][m] = "failing"
    /\ \/ /\ queued[m]
          /\ read' = [read EXCEPT ![a][m] = retries[m]]
          /\ Goto(a, m, "renaming")
          /\ UNCHANGED <<diskVars, faultVars>>
       \/ /\ ~queued[m]
          /\ Goto(a, m, "off")
          /\ UNCHANGED <<read, diskVars, faultVars>>
       \/ /\ Fault
          /\ Goto(a, m, "off")
          /\ UNCHANGED read
    /\ UNCHANGED <<kind, piece, tracked, missed, loopVars, up, seenVars>>

\* failDelivery, the rename: the file is there afterwards, even if it was
\* removed since it was read.
FailWrite(a, m) ==
    /\ step[a][m] = "renaming"
    /\ Goto(a, m, "off")
    /\ read' = [read EXCEPT ![a][m] = 0]
    /\ \/ /\ queued' = [queued EXCEPT ![m] = TRUE]
          /\ retries' = [retries EXCEPT ![m] = read[a][m] + 1]
          /\ UNCHANGED <<failed, faultVars>>
       \/ Fault
    /\ UNCHANGED <<kind, piece, tracked, missed, loopVars, up, seenVars>>

-----------------------------------------------------------------------------
(* recoverPendingDeliveries *)

\* loadPendingDeliveries: the names in the directory at this moment.
ListFiles ==
    /\ phase = "listing"
    /\ phase' = "reading"
    /\ unread' = {m \in Messages : queued[m]}
    /\ loaded' = {}
    /\ elapsed' = 0
    /\ UNCHANGED <<diskVars, callVars, loadedRetries, up, seenVars, faultVars>>

\* One file is read, in the directory's order; one that is gone or cannot be
\* read is skipped.
ReadFile(m) ==
    /\ phase = "reading"
    /\ m \in unread
    /\ unread' = unread \ {m}
    /\ \/ /\ queued[m]
          /\ loaded' = loaded \cup {m}
          /\ loadedRetries' = [loadedRetries EXCEPT ![m] = retries[m]]
          /\ overtaken' = IF step["live"][m] = "off" THEN overtaken ELSE overtaken \cup {m}
          /\ UNCHANGED <<diskVars, faultVars>>
       \/ /\ ~queued[m]
          /\ UNCHANGED <<loaded, loadedRetries, overtaken, diskVars, faultVars>>
       \/ /\ Fault
          /\ UNCHANGED <<loaded, loadedRetries, overtaken>>
    /\ UNCHANGED <<callVars, phase, elapsed, up, copies, aborted, failures>>

AllRead ==
    /\ phase = "reading"
    /\ unread = {}
    /\ phase' = "trying"
    /\ UNCHANGED <<diskVars, callVars, unread, loaded, loadedRetries, elapsed, up, seenVars, faultVars>>

\* The loop is between two entries.
BetweenEntries ==
    /\ phase = "trying"
    /\ \A m \in Messages : step["recovery"][m] = "off"

Oldest == Smallest(loaded)
BackoffOfOldest == computeBackoff(loadedRetries[Oldest] + 1)
OutOfRetries == loadedRetries[Oldest] >= MaxRetries

\* Mistake: an entry goes to failed/ one attempt early.
GiveUpEarly ==
    /\ BetweenEntries
    /\ loaded # {}
    /\ elapsed < Budget
    /\ loadedRetries[Oldest] + 1 >= MaxRetries
    /\ queued' = [queued EXCEPT ![Oldest] = FALSE]
    /\ failed' = [failed EXCEPT ![Oldest] = TRUE]
    /\ loaded' = loaded \ {Oldest}
    /\ UNCHANGED <<retries, callVars, phase, unread, loadedRetries, elapsed, up, seenVars, faultVars>>

\* Mistake: an entry that is out of retries is skipped.
GiveUpSkips ==
    /\ BetweenEntries
    /\ loaded # {}
    /\ elapsed < Budget
    /\ OutOfRetries
    /\ loaded' = loaded \ {Oldest}
    /\ UNCHANGED <<diskVars, callVars, phase, unread, loadedRetries, elapsed, up, seenVars, faultVars>>

\* moveToFailed: renaming a file that is gone fails and is logged.
GiveUp ==
    /\ BetweenEntries
    /\ loaded # {}
    /\ elapsed < Budget
    /\ OutOfRetries
    /\ loaded' = loaded \ {Oldest}
    /\ \/ /\ queued[Oldest]
          /\ queued' = [queued EXCEPT ![Oldest] = FALSE]
          /\ failed' = [failed EXCEPT ![Oldest] = TRUE]
          /\ UNCHANGED <<retries, faultVars>>
       \/ ~queued[Oldest] /\ UNCHANGED <<diskVars, faultVars>>
       \/ Fault
    /\ UNCHANGED <<callVars, phase, unread, loadedRetries, elapsed, up, seenVars>>

\* Mistake: the entry stays in the list of entries to try.
RetryAgain ==
    /\ BetweenEntries
    /\ loaded # {}
    /\ ~OutOfRetries
    /\ elapsed + BackoffOfOldest < Budget
    /\ \E d \in SendTimes : elapsed' = AtMost(elapsed + BackoffOfOldest + d, Budget)
    /\ Goto("recovery", Oldest, "sending")
    /\ UNCHANGED <<diskVars, kind, piece, read, tracked, missed, phase, unread, loaded, loadedRetries, up, seenVars, faultVars>>

\* The loop waits for the backoff and calls deliver for the oldest entry, which
\* takes a while.  It does not look at the file again.
Retry ==
    /\ BetweenEntries
    /\ loaded # {}
    /\ ~OutOfRetries
    /\ elapsed + BackoffOfOldest < Budget
    /\ \E d \in SendTimes : elapsed' = AtMost(elapsed + BackoffOfOldest + d, Budget)
    /\ loaded' = loaded \ {Oldest}
    /\ Goto("recovery", Oldest, "sending")
    /\ UNCHANGED <<diskVars, kind, piece, read, tracked, missed, phase, unread, loadedRetries, up, seenVars, faultVars>>

\* The list is done, or the budget does not allow the next entry: whatever is
\* left waits for the next start.
StopRecovery ==
    /\ BetweenEntries
    /\ \/ loaded = {}
       \/ elapsed >= Budget
       \/ loaded # {} /\ ~OutOfRetries /\ elapsed + BackoffOfOldest >= Budget
    /\ phase' = "off"
    /\ loaded' = {}
    /\ loadedRetries' = [m \in Messages |-> 0]
    /\ elapsed' = 0
    /\ UNCHANGED <<diskVars, callVars, unread, up, seenVars, faultVars>>

-----------------------------------------------------------------------------
(* The gateway process *)

\* The process ends: files stay, calls and the loop are gone.
Crash ==
    /\ up
    /\ crashes < MaxCrashes
    /\ crashes' = crashes + 1
    /\ up' = FALSE
    /\ step' = [a \in Actors |-> [m \in Messages |-> "off"]]
    /\ piece' = [a \in Actors |-> [m \in Messages |-> 1]]
    /\ read' = [a \in Actors |-> [m \in Messages |-> 0]]
    /\ phase' = "off"
    /\ unread' = {}
    /\ loaded' = {}
    /\ loadedRetries' = [m \in Messages |-> 0]
    /\ elapsed' = 0
    /\ UNCHANGED <<diskVars, kind, tracked, missed, seenVars, faults>>

\* startGatewayServer, in a new process or again in this one (SIGUSR1): live
\* calls of this process go on.  The recovery of the last start has ended.
StartGateway ==
    /\ phase = "off"
    /\ up' = TRUE
    /\ phase' = "listing"
    /\ UNCHANGED <<diskVars, callVars, unread, loaded, loadedRetries, elapsed, seenVars, faultVars>>

CallStep(a, m) ==
    \/ SendPiece(a, m)
    \/ PieceFails(a, m)
    \/ CoreFails(a, m)
    \/ AckDelivery(a, m)
    \/ FailRead(a, m)
    \/ FailWrite(a, m)

LoopStep ==
    \/ ListFiles
    \/ \E m \in Messages : ReadFile(m)
    \/ AllRead
    \/ GiveUp
    \/ Retry
    \/ StopRecovery

Next ==
    \/ \E m \in Messages, k \in AllKinds : Accept(m, k)
    \/ \E m \in Messages : Enqueue(m) \/ Abort(m)
    \/ \E a \in Actors, m \in Messages : CallStep(a, m)
    \/ LoopStep
    \/ Crash
    \/ StartGateway

Spec == Init /\ [][Next]_vars

\* Sends and file operations end, the loop goes on, and the gateway is started
\* again and again.  Nothing makes a caller send or abort, or a process end.
Fairness ==
    /\ \A m \in Messages : WF_vars(Enqueue(m))
    /\ \A a \in Actors, m \in Messages : WF_vars(CallStep(a, m))
    /\ WF_vars(LoopStep)
    /\ WF_vars(StartGateway)

LiveSpec == Spec /\ Fairness

-----------------------------------------------------------------------------
(* Properties *)

Record(m) == queued[m] \/ failed[m]
Complete(m) == \A p \in Pieces(m) : copies[m][p] > 0

\* A message whose entry was written is never lost: while no entry is there,
\* neither in the queue nor in failed/, all its payloads have been sent or its
\* live call ended in an AbortError, whatever crashed or failed in between.
\* Said of messages that are sent without bestEffort.
NothingLost ==
    \A m \in Messages :
        kind[m] = "strict" /\ tracked[m] /\ ~Record(m) => Complete(m) \/ aborted[m]

\* The recipient never gets a later payload of a message more often than an
\* earlier one: an attempt that fails ends there, and the next one starts over.
InOrder ==
    \A m \in Messages : kind[m] = "strict" =>
        \A p \in Pieces(m) : p < Payloads[m] => copies[m][p] >= copies[m][p + 1]

\* A payload is sent again only for a reason: an attempt that failed, a process
\* that ended, a file operation that failed, or a start that found the entry
\* while its live call was still at it.  Each of them costs at most one copy.
CopiesHaveCauses ==
    \A m \in Messages : \A p \in Pieces(m) :
        copies[m][p] <= 1 + failures[m] + crashes + faults + (IF m \in overtaken THEN 1 ELSE 0)

\* Only a message that failed at least MaxRetries times is given up.
GivenUpWasTried ==
    \A m \in Messages : failed[m] => failures[m] >= MaxRetries

\* Every entry leaves the queue, sent or given up, if the gateway is started
\* often enough.  This needs a budget that is longer than each backoff.
EveryEntryLeaves == \A m \in Messages : queued[m] ~> ~queued[m]
=============================================================================
