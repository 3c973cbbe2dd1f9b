------------------------ MODULE DeliveryQueueProofs ------------------------
(***************************************************************************)
(* What holds of the delivery queue for any number of messages, payloads,  *)
(* live calls, retries, crashes and faults, and any backoff and budget.    *)
(*                                                                         *)
(* The live call and the recovery may send the same message at once, so    *)
(* each part of the invariant says what a call that is still on its way    *)
(* may add.  InOrder: a call that sends a payload has sent the one before  *)
(* it, and that copy is not accounted for yet.  GivenUpWasTried: a call    *)
(* that has failed will count one more retry.  CopiesHaveCauses: whatever  *)
(* can still lead to one more copy has been paid for by a cause.           *)
(***************************************************************************)
EXTENDS DeliveryQueue, FiniteSetTheorems, WellFoundedInduction, TLAPS

\* 1 for a condition that holds, to count conditions
One(condition) == IF condition THEN 1 ELSE 0

\* Nothing is sent, recorded or tried of a message that nobody accepted, and
\* what is in the directory or in the recovery was written by its live call.
OnlyAccepted(m) ==
    /\ kind[m] = None => step["live"][m] = "off" /\ ~tracked[m] /\ \A p \in Pieces(m) : copies[m][p] = 0
    /\ tracked[m] => kind[m] # None /\ step["live"][m] # "writing"
    /\ ~tracked[m] => ~queued[m] /\ m \notin loaded /\ m \notin overtaken /\ step["recovery"][m] = "off"
    /\ step["live"][m] \in {"acking", "failing", "renaming"} => tracked[m]
    /\ step["recovery"][m] # "writing"

\* A call that does not send stands at the first payload.
FromTheStart(m) ==
    \A a \in Actors : step[a][m] # "sending" => piece[a][m] = 1

\* A call has sent the payloads before the one it sends, if it is strict, and
\* all of them when it removes the entry.
SentBefore(m) ==
    \A a \in Actors : kind[m] = "strict" =>
        /\ step[a][m] = "sending" => \A p \in Pieces(m) : p < piece[a][m] => copies[m][p] > 0
        /\ step[a][m] = "acking" => Complete(m) \/ aborted[m]

\* The recovery sends only while its loop is on, and reads each file once.
LoopIsOn(m) ==
    /\ phase # "trying" => step["recovery"][m] = "off"
    /\ ~(m \in unread /\ m \in loaded)

SendsAt(a, m, p) == step[a][m] = "sending" /\ piece[a][m] = p

\* InOrder, with the calls that have sent p and are now at p + 1
Ahead(m) ==
    kind[m] = "strict" =>
        \A p \in Pieces(m) : p < Payloads[m] =>
            copies[m][p] >= copies[m][p + 1] + One(SendsAt("live", m, p + 1)) + One(SendsAt("recovery", m, p + 1))

Other(a) == IF a = "live" THEN "recovery" ELSE "live"

\* Every retry that is or will be counted is a call that failed.
RetriesFailed(m) ==
    /\ retries[m] + One(step["live"][m] = "failing") + One(step["recovery"][m] = "failing") <= failures[m]
    /\ \A a \in Actors : step[a][m] = "renaming" =>
          read[a][m] + 1 + One(step[Other(a)][m] = "failing") <= failures[m]
    /\ loadedRetries[m] <= failures[m]
    /\ failed[m] => failures[m] >= MaxRetries

\* What may lead to one more copy of payload p without another cause
LiveMaySend(m, p) == step["live"][m] = "writing" \/ (step["live"][m] = "sending" /\ piece["live"][m] <= p)
RecoveryMaySend(m, p) == step["recovery"][m] = "sending" /\ piece["recovery"][m] <= p
Failing(a, m) == step[a][m] \in {"failing", "renaming"}
Unclaimed(m) ==
    /\ queued[m]
    /\ m \notin loaded
    /\ step["recovery"][m] = "off"
    /\ step["live"][m] = "off" \/ m \in overtaken

Chances(m, p) ==
    One(LiveMaySend(m, p)) + One(RecoveryMaySend(m, p)) + One(m \in loaded)
        + One(Failing("live", m)) + One(Failing("recovery", m)) + One(Unclaimed(m))

\* CopiesHaveCauses, with the copies that may still come
PaidFor(m) ==
    \A p \in Pieces(m) :
        copies[m][p] + Chances(m, p) <= 1 + failures[m] + crashes + faults + One(m \in overtaken)

NotLost(m) ==
    kind[m] = "strict" /\ tracked[m] /\ ~Record(m) => Complete(m) \/ aborted[m]

Sound(m) ==
    /\ OnlyAccepted(m)
    /\ FromTheStart(m)
    /\ SentBefore(m)
    /\ LoopIsOn(m)
    /\ Ahead(m)
    /\ RetriesFailed(m)
    /\ PaidFor(m)
    /\ NotLost(m)

IInv == TypeOK /\ \A m \in Messages : Sound(m)

-----------------------------------------------------------------------------
(* The oldest entry *)

\* A set of natural numbers that is not empty has a smallest element.
LEMMA SmallestFacts ==
  ASSUME NEW S \in SUBSET Nat, S # {}
  PROVE  Smallest(S) \in S /\ \A n \in S : Smallest(S) <= n
  <1>1. \E m \in S : \A n \in S : m <= n
    <2> DEFINE R == OpToRel(<, Nat)
    <2>1. IsWellFoundedOn(R, Nat)
      BY NatLessThanWellFounded
    <2>2. \A i, j \in Nat : <<i, j>> \in R <=> i < j
      BY DEF OpToRel
    <2> HIDE DEF R
    <2>3. PICK m \in S : \A n \in S : ~(<<n, m>> \in R)
      BY <2>1, WFMin
    <2>4. ASSUME NEW n \in S PROVE m <= n
      <3>1. m \in Nat /\ n \in Nat
        OBVIOUS
      <3>2. ~(n < m)
        BY <2>2, <2>3, <3>1
      <3>3. QED
        BY <3>1, <3>2
    <2>5. QED
      BY <2>4
  <1>2. QED
    BY <1>1 DEF Smallest

-----------------------------------------------------------------------------
(* What the helpers do to the variables *)

\* The payloads of a message are numbered from 1.
LEMMA PieceRange ==
  ASSUME NEW m \in Messages
  PROVE  /\ Payloads[m] \in Nat \ {0}
         /\ Pieces(m) = 1..Payloads[m]
         /\ 1 \in Pieces(m) /\ Payloads[m] \in Pieces(m)
         /\ Pieces(m) \subseteq Nat
         /\ m \in Nat
  BY DeliveryAssumption DEF Messages, Pieces

\* Goto changes the step of one call of one message.
LEMMA GotoFacts ==
  ASSUME TypeOK, NEW a \in Actors, NEW m \in Messages, NEW s \in Steps, Goto(a, m, s)
  PROVE  /\ step' \in [Actors -> [Messages -> Steps]]
         /\ step'[a][m] = s
         /\ \A b \in Actors, n \in Messages : b # a \/ n # m => step'[b][n] = step[b][n]
  BY DEF TypeOK, Goto

\* A call stands at another payload.
LEMMA PieceFacts ==
  ASSUME TypeOK, NEW a \in Actors, NEW m \in Messages, NEW v \in Pieces(m),
         piece' = [piece EXCEPT ![a][m] = v]
  PROVE  /\ piece' \in [Actors -> [Messages -> Nat]]
         /\ piece'[a][m] = v
         /\ \A b \in Actors, n \in Messages : b # a \/ n # m => piece'[b][n] = piece[b][n]
         /\ \A b \in Actors, n \in Messages : piece'[b][n] \in Pieces(n)
  <1>1. v \in Nat
    BY PieceRange
  <1>2. /\ piece' \in [Actors -> [Messages -> Nat]]
        /\ piece'[a][m] = v
        /\ \A b \in Actors, n \in Messages : b # a \/ n # m => piece'[b][n] = piece[b][n]
    BY <1>1 DEF TypeOK
  <1>3. QED
    BY <1>2 DEF TypeOK

\* GoFail and GoAck, seen from outside.
LEMMA GoFacts ==
  ASSUME TypeOK, NEW a \in Actors, NEW m \in Messages, GoFail(a, m) \/ GoAck(a, m)
  PROVE  /\ step' \in [Actors -> [Messages -> Steps]]
         /\ \A b \in Actors, n \in Messages : b # a \/ n # m => step'[b][n] = step[b][n]
         /\ failures' \in [Messages -> Nat]
         /\ \A n \in Messages : n # m => failures'[n] = failures[n]
         /\ \/ /\ GoFail(a, m)
               /\ step'[a][m] = IF a = "recovery" \/ tracked[m] THEN "failing" ELSE "off"
               /\ failures'[m] = failures[m] + 1
            \/ /\ GoAck(a, m)
               /\ step'[a][m] = IF a = "recovery" \/ tracked[m] THEN "acking" ELSE "off"
               /\ failures'[m] = failures[m]
  <1>1. CASE GoFail(a, m)
    <2> DEFINE s == IF a = "recovery" \/ tracked[m] THEN "failing" ELSE "off"
    <2>1. s \in Steps /\ Goto(a, m, s)
      BY <1>1 DEF GoFail, Steps
    <2>2. failures' \in [Messages -> Nat] /\ failures'[m] = failures[m] + 1
          /\ \A n \in Messages : n # m => failures'[n] = failures[n]
      BY <1>1 DEF GoFail, TypeOK
    <2> HIDE DEF s
    <2>3. QED
      BY <1>1, <2>1, <2>2, GotoFacts DEF s
  <1>2. CASE GoAck(a, m)
    <2> DEFINE s == IF a = "recovery" \/ tracked[m] THEN "acking" ELSE "off"
    <2>1. s \in Steps /\ Goto(a, m, s)
      BY <1>2 DEF GoAck, Steps
    <2>2. failures' = failures /\ failures' \in [Messages -> Nat]
      BY <1>2 DEF GoAck, TypeOK
    <2> HIDE DEF s
    <2>3. QED
      BY <1>2, <2>1, <2>2, GotoFacts DEF s
  <1>3. QED
    BY <1>1, <1>2

\* A payload that is delivered has one copy more.
LEMMA DeliveredFacts ==
  ASSUME TypeOK, NEW a \in Actors, NEW m \in Messages, Delivered(a, m)
  PROVE  /\ DOMAIN copies' = Messages
         /\ \A n \in Messages : copies'[n] \in [Pieces(n) -> Nat]
         /\ \A n \in Messages : n # m => copies'[n] = copies[n]
         /\ \A p \in Pieces(m) : copies'[m][p] = copies[m][p] + (IF p = piece[a][m] THEN 1 ELSE 0)
  <1>1. piece[a][m] \in Pieces(m) /\ copies[m] \in [Pieces(m) -> Nat]
    BY DEF TypeOK
  <1>2. copies'[m] = [copies[m] EXCEPT ![piece[a][m]] = @ + 1]
    BY DEF Delivered, TypeOK
  <1>3. DOMAIN copies' = Messages /\ \A n \in Messages : n # m => copies'[n] = copies[n]
    BY DEF Delivered, TypeOK
  <1>4. copies'[m] \in [Pieces(m) -> Nat]
    BY <1>1, <1>2
  <1>5. \A n \in Messages : copies'[n] \in [Pieces(n) -> Nat]
    BY <1>3, <1>4 DEF TypeOK
  <1>6. \A p \in Pieces(m) : copies'[m][p] = copies[m][p] + (IF p = piece[a][m] THEN 1 ELSE 0)
    BY <1>1, <1>2
  <1>7. QED
    BY <1>3, <1>5, <1>6

\* An operation that fails is counted.
LEMMA FaultFacts ==
  ASSUME TypeOK, Fault
  PROVE  faults' = faults + 1 /\ faults' \in Nat /\ UNCHANGED <<queued, retries, failed, crashes>>
  BY DEF Fault, TypeOK, diskVars

\* What a step of a call that sends comes to: the payload was delivered or not
\* (d), and the call goes on (if strict, only when it was), removes the entry
\* after the last payload, or fails.
GoesOn(a, m) ==
    /\ piece[a][m] < Payloads[m]
    /\ piece' = [piece EXCEPT ![a][m] = @ + 1]
    /\ UNCHANGED <<step, failures>>

Ends(a, m) ==
    /\ piece[a][m] = Payloads[m]
    /\ piece' = [piece EXCEPT ![a][m] = 1]
    /\ GoAck(a, m)

Fails(a, m) ==
    /\ piece' = [piece EXCEPT ![a][m] = 1]
    /\ GoFail(a, m)

Outcome(a, m, d) ==
    /\ step[a][m] = "sending"
    /\ \A n \in Messages : n # m => copies'[n] = copies[n]
    /\ \A p \in Pieces(m) : copies'[m][p] = copies[m][p] + (IF p = piece[a][m] THEN d ELSE 0)
    /\ \/ (kind[m] = "strict" => d = 1) /\ (GoesOn(a, m) \/ Ends(a, m))
       \/ Fails(a, m)
    /\ missed' \in [Messages -> BOOLEAN]
    /\ DOMAIN copies' = Messages
    /\ \A n \in Messages : copies'[n] \in [Pieces(n) -> Nat]
    /\ UNCHANGED <<diskVars, kind, read, tracked, loopVars, up, aborted, overtaken, crashes>>
    /\ faults' \in Nat /\ faults' >= faults

\* After a payload the call goes on, ends or fails.
LEMMA GoOnFacts ==
  ASSUME TypeOK, NEW a \in Actors, NEW m \in Messages, NEW seen, GoOn(a, m, seen)
  PROVE  GoesOn(a, m) \/ Ends(a, m) \/ Fails(a, m)
  <1>1. piece[a][m] \in 1..Payloads[m] /\ Payloads[m] \in Nat
    BY PieceRange DEF TypeOK
  <1>2. piece[a][m] < Payloads[m] \/ piece[a][m] = Payloads[m]
    BY <1>1
  <1>3. QED
    BY <1>1, <1>2 DEF GoOn, GoesOn, Ends, Fails

\* Sending a payload has an outcome, whether it throws or not.
LEMMA OutcomeFacts ==
  ASSUME TypeOK, NEW a \in Actors, NEW m \in Messages,
         SendPiece(a, m) \/ PieceFails(a, m) \/ CoreFails(a, m)
  PROVE  \E d \in {0, 1} : Outcome(a, m, d)
  <1>1. CASE SendPiece(a, m)
    <2>1. GoesOn(a, m) \/ Ends(a, m) \/ Fails(a, m)
      BY <1>1, GoOnFacts DEF SendPiece
    <2>2. missed' \in [Messages -> BOOLEAN] /\ crashes' = crashes /\ faults' = faults /\ faults \in Nat
      BY <1>1 DEF SendPiece, TypeOK, faultVars
    <2>3. Outcome(a, m, 1)
      BY <1>1, <2>1, <2>2, DeliveredFacts DEF SendPiece, Outcome
    <2>4. QED
      BY <2>3
  <1>2. CASE PieceFails(a, m)
    <2>1. GoesOn(a, m) \/ Ends(a, m) \/ Fails(a, m)
      BY <1>2, GoOnFacts DEF PieceFails, Fails
    <2>2. kind[m] = "strict" => Fails(a, m)
      BY <1>2 DEF PieceFails, Fails
    <2>3. missed' \in [Messages -> BOOLEAN] /\ crashes' = crashes /\ faults' = faults /\ faults \in Nat
      BY <1>2 DEF PieceFails, TypeOK, faultVars
    <2>4. CASE Delivered(a, m)
      <3>1. Outcome(a, m, 1)
        BY <1>2, <2>1, <2>2, <2>3, <2>4, DeliveredFacts DEF PieceFails, Outcome
      <3>2. QED
        BY <3>1
    <2>5. CASE UNCHANGED copies
      <3>1. \A p \in Pieces(m) : copies'[m][p] = copies[m][p] + (IF p = piece[a][m] THEN 0 ELSE 0)
        BY <2>5 DEF TypeOK
      <3>2. Outcome(a, m, 0)
        BY <1>2, <2>1, <2>2, <2>3, <2>5, <3>1 DEF PieceFails, Outcome, TypeOK
      <3>3. QED
        BY <3>2
    <2>6. QED
      BY <1>2, <2>4, <2>5 DEF PieceFails
  <1>3. CASE CoreFails(a, m)
    <2>1. /\ Fails(a, m) /\ missed' \in [Messages -> BOOLEAN] /\ UNCHANGED diskVars
          /\ crashes' = crashes /\ faults' \in Nat /\ faults' >= faults
      BY <1>3, FaultFacts DEF CoreFails, Fails, TypeOK, diskVars
    <2>2. CASE Delivered(a, m)
      <3>1. Outcome(a, m, 1)
        BY <1>3, <2>1, <2>2, DeliveredFacts DEF CoreFails, Outcome
      <3>2. QED
        BY <3>1
    <2>3. CASE UNCHANGED copies
      <3>1. \A p \in Pieces(m) : copies'[m][p] = copies[m][p] + (IF p = piece[a][m] THEN 0 ELSE 0)
        BY <2>3 DEF TypeOK
      <3>2. Outcome(a, m, 0)
        BY <1>3, <2>1, <2>3, <3>1 DEF CoreFails, Outcome, TypeOK
      <3>3. QED
        BY <3>2
    <2>4. QED
      BY <1>3, <2>2, <2>3 DEF CoreFails
  <1>4. QED
    BY <1>1, <1>2, <1>3

-----------------------------------------------------------------------------
(* The initial states, and the types *)

\* Initially nothing was accepted.
LEMMA InitIInv == Init => IInv
  <1> SUFFICES ASSUME Init PROVE IInv
    OBVIOUS
  <1> USE PieceRange DEF Init
  <1>1. TypeOK
    BY DEF TypeOK, Actors, Steps
  <1>2. ASSUME NEW m \in Messages PROVE Sound(m)
    <2>1. OnlyAccepted(m) /\ FromTheStart(m) /\ SentBefore(m) /\ LoopIsOn(m)
      BY DeliveryAssumption DEF OnlyAccepted, FromTheStart, SentBefore, LoopIsOn, AllKinds, Actors
    <2>2. Ahead(m) /\ NotLost(m)
      BY DeliveryAssumption DEF Ahead, NotLost, AllKinds
    <2>3. RetriesFailed(m)
      BY DEF RetriesFailed, One, Actors
    <2>4. PaidFor(m)
      BY DEF PaidFor, Chances, One, LiveMaySend, RecoveryMaySend, Failing, Unclaimed, Actors
    <2>5. QED
      BY <2>1, <2>2, <2>3, <2>4 DEF Sound
  <1>3. QED
    BY <1>1, <1>2 DEF IInv

\* Sending changes the variables within their types.
LEMMA OutcomeTypeOK ==
  ASSUME TypeOK, NEW a \in Actors, NEW m \in Messages, NEW d \in {0, 1}, Outcome(a, m, d)
  PROVE  TypeOK'
  <1>1. /\ piece' \in [Actors -> [Messages -> Nat]]
        /\ \A b \in Actors, n \in Messages : piece'[b][n] \in Pieces(n)
    <2>1. piece[a][m] \in 1..Payloads[m] /\ Pieces(m) = 1..Payloads[m] /\ Payloads[m] \in Nat /\ 1 \in Pieces(m)
      BY PieceRange DEF TypeOK
    <2>2. CASE GoesOn(a, m)
      <3>1. piece[a][m] + 1 \in Pieces(m) /\ piece' = [piece EXCEPT ![a][m] = piece[a][m] + 1]
        BY <2>1, <2>2 DEF GoesOn
      <3>2. QED
        BY <3>1, PieceFacts
    <2>3. CASE Ends(a, m) \/ Fails(a, m)
      BY <2>1, <2>3, PieceFacts DEF Ends, Fails
    <2>4. QED
      BY <2>2, <2>3 DEF Outcome
  <1>2. step' \in [Actors -> [Messages -> Steps]] /\ failures' \in [Messages -> Nat]
    BY GoFacts DEF Outcome, GoesOn, Ends, Fails, TypeOK
  <1>3. QED
    BY <1>1, <1>2 DEF Outcome, TypeOK, diskVars, loopVars, faultVars

\* The wait before a retry is a number of seconds.
LEMMA BackoffFacts ==
  ASSUME NEW n \in Nat
  PROVE  computeBackoff(n) \in Nat
  <1>1. Len(Backoff) \in Nat \ {0} /\ \A i \in 1..Len(Backoff) : Backoff[i] \in Nat
    BY DeliveryAssumption
  <1>2. n # 0 => AtMost(n, Len(Backoff)) \in 1..Len(Backoff)
    BY <1>1 DEF AtMost
  <1>3. QED
    BY <1>1, <1>2 DEF computeBackoff

\* Every step keeps the variables in their types.
LEMMA NextTypeOK == IInv /\ [Next]_vars => TypeOK'
  <1> SUFFICES ASSUME IInv, [Next]_vars PROVE TypeOK'
    OBVIOUS
  <1>0. TypeOK
    BY DEF IInv
  <1> USE DEF diskVars, callVars, loopVars, seenVars, faultVars, vars
  <1>1. ASSUME NEW m \in Messages, NEW k \in AllKinds, Accept(m, k) PROVE TypeOK'
    <2>1. Goto("live", m, "writing") /\ "live" \in Actors /\ "writing" \in Steps
      BY <1>1 DEF Accept, Actors, Steps
    <2>2. step' \in [Actors -> [Messages -> Steps]]
      BY <1>0, <2>1, GotoFacts
    <2>3. QED
      BY <1>0, <1>1, <2>2 DEF Accept, TypeOK
  <1>2. ASSUME NEW m \in Messages, Enqueue(m) PROVE TypeOK'
    <2>1. Goto("live", m, "sending") /\ "live" \in Actors /\ "sending" \in Steps
      BY <1>2 DEF Enqueue, Actors, Steps
    <2>2. step' \in [Actors -> [Messages -> Steps]]
      BY <1>0, <2>1, GotoFacts
    <2>3. QED
      BY <1>0, <1>2, <2>2, FaultFacts DEF Enqueue, TypeOK
  <1>3. ASSUME NEW m \in Messages, Abort(m) PROVE TypeOK'
    <2>1. step' \in [Actors -> [Messages -> Steps]] /\ failures' \in [Messages -> Nat]
      BY <1>0, <1>3, GoFacts DEF Abort, Actors
    <2>2. /\ piece' \in [Actors -> [Messages -> Nat]]
          /\ \A b \in Actors, n \in Messages : piece'[b][n] \in Pieces(n)
      <3>1. "live" \in Actors /\ 1 \in Pieces(m) /\ piece' = [piece EXCEPT !["live"][m] = 1]
        BY <1>3, PieceRange DEF Abort, Actors
      <3>2. QED
        BY <1>0, <3>1, PieceFacts
    <2>3. /\ DOMAIN copies' = Messages
          /\ \A n \in Messages : copies'[n] \in [Pieces(n) -> Nat]
      <3>1. "live" \in Actors
        BY DEF Actors
      <3>2. QED
        BY <1>0, <1>3, <3>1, DeliveredFacts DEF Abort, TypeOK
    <2>4. QED
      BY <1>0, <1>3, <2>1, <2>2, <2>3 DEF Abort, TypeOK
  <1>4. ASSUME NEW a \in Actors, NEW m \in Messages, SendPiece(a, m) \/ PieceFails(a, m) \/ CoreFails(a, m)
        PROVE  TypeOK'
    BY <1>0, <1>4, OutcomeFacts, OutcomeTypeOK
  <1>5. ASSUME NEW a \in Actors, NEW m \in Messages, AckDelivery(a, m) PROVE TypeOK'
    <2>1. Goto(a, m, "off") => step' \in [Actors -> [Messages -> Steps]]
      BY <1>0, GotoFacts DEF Steps
    <2>2. GoFail(a, m) => step' \in [Actors -> [Messages -> Steps]] /\ failures' \in [Messages -> Nat]
      BY <1>0, GoFacts
    <2>3. step' \in [Actors -> [Messages -> Steps]] /\ failures' \in [Messages -> Nat]
      BY <1>0, <1>5, <2>1, <2>2 DEF AckDelivery, TypeOK
    <2>4. queued' \in [Messages -> BOOLEAN] /\ faults' \in Nat /\ UNCHANGED <<retries, failed, crashes>>
      BY <1>0, <1>5, FaultFacts DEF AckDelivery, TypeOK
    <2>5. QED
      BY <1>0, <1>5, <2>3, <2>4 DEF AckDelivery, TypeOK
  <1>6. ASSUME NEW a \in Actors, NEW m \in Messages, FailRead(a, m) PROVE TypeOK'
    <2>1. \A s \in Steps : Goto(a, m, s) => step' \in [Actors -> [Messages -> Steps]]
      BY <1>0, GotoFacts
    <2>2. step' \in [Actors -> [Messages -> Steps]]
      BY <1>6, <2>1 DEF FailRead, Steps
    <2>3. read' \in [Actors -> [Messages -> Nat]]
      <3>1. read' = read \/ read' = [read EXCEPT ![a][m] = retries[m]]
        BY <1>6 DEF FailRead
      <3>2. read \in [Actors -> [Messages -> Nat]] /\ retries[m] \in Nat
        BY <1>0 DEF TypeOK
      <3>3. QED
        BY <3>1, <3>2
    <2>4. faults' \in Nat /\ UNCHANGED <<diskVars, crashes>>
      BY <1>0, <1>6, FaultFacts DEF FailRead, TypeOK
    <2>5. UNCHANGED <<kind, piece, tracked, missed, loopVars, up, seenVars>>
      BY <1>6 DEF FailRead
    <2>6. /\ queued' = queued /\ retries' = retries /\ failed' = failed /\ kind' = kind
          /\ piece' = piece /\ tracked' = tracked /\ missed' = missed /\ up' = up
          /\ UNCHANGED loopVars /\ UNCHANGED seenVars /\ crashes' = crashes
      BY <2>4, <2>5
    <2>7. QED
      BY <1>0, <2>2, <2>3, <2>4, <2>6 DEF TypeOK
  <1>7. ASSUME NEW a \in Actors, NEW m \in Messages, FailWrite(a, m) PROVE TypeOK'
    <2>1. step' \in [Actors -> [Messages -> Steps]]
      BY <1>0, <1>7, GotoFacts DEF FailWrite, Steps
    <2>2. read' \in [Actors -> [Messages -> Nat]]
      <3>1. read' = [read EXCEPT ![a][m] = 0]
        BY <1>7 DEF FailWrite
      <3>2. read \in [Actors -> [Messages -> Nat]]
        BY <1>0 DEF TypeOK
      <3>3. QED
        BY <3>1, <3>2
    <2>3. /\ queued' \in [Messages -> BOOLEAN] /\ retries' \in [Messages -> Nat] /\ failed' = failed
          /\ faults' \in Nat /\ crashes' = crashes
      <3>1. CASE Fault
        BY <1>0, <3>1, FaultFacts DEF TypeOK
      <3>2. CASE /\ queued' = [queued EXCEPT ![m] = TRUE]
                 /\ retries' = [retries EXCEPT ![m] = read[a][m] + 1]
                 /\ UNCHANGED <<failed, faultVars>>
        <4>1. read[a][m] + 1 \in Nat /\ retries \in [Messages -> Nat] /\ queued \in [Messages -> BOOLEAN]
          BY <1>0 DEF TypeOK
        <4>2. queued' \in [Messages -> BOOLEAN] /\ retries' \in [Messages -> Nat]
          BY <3>2, <4>1
        <4>3. QED
          BY <1>0, <3>2, <4>2 DEF TypeOK
      <3>3. QED
        BY <1>7, <3>1, <3>2 DEF FailWrite
    <2>4. UNCHANGED <<kind, piece, tracked, missed, loopVars, up, seenVars>>
      BY <1>7 DEF FailWrite
    <2>5. /\ kind' = kind /\ piece' = piece /\ tracked' = tracked /\ missed' = missed /\ up' = up
          /\ UNCHANGED loopVars /\ UNCHANGED seenVars
      BY <2>4
    <2>6. QED
      BY <1>0, <2>1, <2>2, <2>3, <2>5 DEF TypeOK
  <1>8. CASE ListFiles
    BY <1>0, <1>8 DEF ListFiles, TypeOK
  <1>9. ASSUME NEW m \in Messages, ReadFile(m) PROVE TypeOK'
    BY <1>0, <1>9, FaultFacts DEF ReadFile, TypeOK
  <1>10. CASE AllRead
    BY <1>0, <1>10 DEF AllRead, TypeOK
  <1>11. CASE GiveUp
    BY <1>0, <1>11, FaultFacts DEF GiveUp, TypeOK
  <1>12. CASE Retry
    <2>1. loaded \subseteq Nat /\ Oldest \in loaded /\ Oldest \in Messages
      BY <1>0, <1>12, PieceRange, SmallestFacts DEF Retry, Oldest, TypeOK
    <2>2. step' \in [Actors -> [Messages -> Steps]]
      BY <1>0, <1>12, <2>1, GotoFacts DEF Retry, Actors, Steps
    <2>3. elapsed' \in Nat
      <3>1. BackoffOfOldest \in Nat
        BY <1>0, <2>1, BackoffFacts DEF BackoffOfOldest, TypeOK
      <3>2. PICK d \in SendTimes : elapsed' = AtMost(elapsed + BackoffOfOldest + d, Budget)
        BY <1>12 DEF Retry
      <3>3. QED
        BY <1>0, <3>1, <3>2, DeliveryAssumption DEF AtMost, TypeOK
    <2>4. QED
      BY <1>0, <1>12, <2>2, <2>3 DEF Retry, TypeOK
  <1>13. CASE StopRecovery
    BY <1>0, <1>13 DEF StopRecovery, TypeOK
  <1>14. CASE Crash
    <2>1. step' \in [Actors -> [Messages -> Steps]] /\ read' \in [Actors -> [Messages -> Nat]]
      BY <1>14 DEF Crash, Steps
    <2>2. /\ piece' \in [Actors -> [Messages -> Nat]]
          /\ \A a \in Actors, m \in Messages : piece'[a][m] \in Pieces(m)
      BY <1>14, PieceRange DEF Crash
    <2>3. UNCHANGED <<diskVars, kind, tracked, missed, seenVars, faults>>
      BY <1>14 DEF Crash
    <2>4. /\ up' = FALSE /\ phase' = "off" /\ unread' = {} /\ loaded' = {} /\ elapsed' = 0
          /\ loadedRetries' \in [Messages -> Nat] /\ crashes' \in Nat
      BY <1>0, <1>14 DEF Crash, TypeOK
    <2>5. QED
      BY <1>0, <2>1, <2>2, <2>3, <2>4 DEF TypeOK
  <1>15. CASE StartGateway
    BY <1>0, <1>15 DEF StartGateway, TypeOK
  <1>16. CASE UNCHANGED vars
    BY <1>0, <1>16 DEF TypeOK
  <1>17. QED
    BY <1>1, <1>2, <1>3, <1>4, <1>5, <1>6, <1>7, <1>8, <1>9, <1>10, <1>11, <1>12, <1>13, <1>14, <1>15, <1>16
       DEF Next, CallStep, LoopStep

-----------------------------------------------------------------------------
(* What a step leaves alone *)

\* Nothing of message n changes.
Same(n) ==
    /\ queued'[n] = queued[n]
    /\ retries'[n] = retries[n]
    /\ failed'[n] = failed[n]
    /\ kind'[n] = kind[n]
    /\ \A a \in Actors : step'[a][n] = step[a][n] /\ piece'[a][n] = piece[a][n] /\ read'[a][n] = read[a][n]
    /\ tracked'[n] = tracked[n]
    /\ copies'[n] = copies[n]
    /\ aborted'[n] = aborted[n]
    /\ failures'[n] = failures[n]
    /\ loadedRetries'[n] = loadedRetries[n]
    /\ n \in loaded' <=> n \in loaded
    /\ n \in unread' <=> n \in unread
    /\ n \in overtaken' <=> n \in overtaken

\* Crashes and failed file operations are not forgotten.
MoreFaults == crashes' + faults' >= crashes + faults

\* A message that a step leaves alone stays sound.
LEMMA SameSound ==
  ASSUME IInv, TypeOK', NEW n \in Messages, Same(n), MoreFaults, phase' = phase
  PROVE  Sound(n)'
  <1>0. TypeOK /\ Sound(n) /\ "live" \in Actors /\ "recovery" \in Actors
    BY DEF IInv, Actors
  <1>1. OnlyAccepted(n)' /\ FromTheStart(n)' /\ SentBefore(n)' /\ LoopIsOn(n)' /\ NotLost(n)'
    BY <1>0 DEF Sound, Same, OnlyAccepted, FromTheStart, SentBefore, LoopIsOn, NotLost, Complete, Record
  <1>2. Ahead(n)'
    BY <1>0 DEF Sound, Same, Ahead, SendsAt
  <1>3. RetriesFailed(n)'
    BY <1>0 DEF Sound, Same, RetriesFailed, Other
  <1>4. PaidFor(n)'
    <2> SUFFICES ASSUME NEW p \in Pieces(n)
                 PROVE  copies'[n][p] + Chances(n, p)' <= 1 + failures'[n] + crashes' + faults' + One(n \in overtaken)'
      BY DEF PaidFor
    <2>1. Chances(n, p)' = Chances(n, p) /\ One(n \in overtaken)' = One(n \in overtaken)
      BY <1>0 DEF Same, One, Chances, LiveMaySend, RecoveryMaySend, Failing, Unclaimed
    <2>2. Chances(n, p) \in Nat /\ One(n \in overtaken) \in Nat
      BY DEF Chances, One
    <2>3. copies[n][p] + Chances(n, p) <= 1 + failures[n] + crashes + faults + One(n \in overtaken)
      BY <1>0 DEF Sound, PaidFor
    <2>4. copies[n][p] \in Nat /\ failures[n] \in Nat /\ crashes \in Nat /\ faults \in Nat /\ crashes' \in Nat /\ faults' \in Nat
      BY <1>0 DEF TypeOK
    <2>5. copies'[n][p] = copies[n][p] /\ failures'[n] = failures[n]
      BY DEF Same
    <2>6. QED
      BY <2>1, <2>2, <2>3, <2>4, <2>5 DEF MoreFaults
  <1>5. QED
    BY <1>1, <1>2, <1>3, <1>4 DEF Sound

\* The types of what is known of one message
LEMMA Values ==
  ASSUME TypeOK, NEW m \in Messages
  PROVE  /\ "live" \in Actors /\ "recovery" \in Actors
         /\ queued[m] \in BOOLEAN /\ failed[m] \in BOOLEAN /\ tracked[m] \in BOOLEAN
         /\ retries[m] \in Nat /\ failures[m] \in Nat /\ loadedRetries[m] \in Nat
         /\ \A a \in Actors : step[a][m] \in Steps /\ piece[a][m] \in Pieces(m) /\ piece[a][m] \in Nat /\ read[a][m] \in Nat
         /\ \A p \in Pieces(m) : copies[m][p] \in Nat
         /\ crashes \in Nat /\ faults \in Nat
  BY DEF TypeOK, Actors

\* The chances of one more copy, one by one
LEMMA ChancesFacts ==
  ASSUME NEW m \in Messages, NEW p \in Pieces(m)
  PROVE  /\ \A c \in BOOLEAN : One(c) \in {0, 1} /\ (c => One(c) = 1) /\ (~c => One(c) = 0)
         /\ Chances(m, p) \in Nat
  BY DEF One, Chances

-----------------------------------------------------------------------------
(* The steps of a live call before it sends *)

\* A message that is accepted may be sent once.
LEMMA AcceptSound ==
  ASSUME IInv, TypeOK', NEW m \in Messages, NEW k \in AllKinds, Accept(m, k)
  PROVE  \A n \in Messages : Sound(n)'
  <1>0. TypeOK /\ Sound(m) /\ k # None
    BY DeliveryAssumption DEF IInv
  <1>1. /\ step'["live"][m] = "writing"
        /\ \A b \in Actors, n \in Messages : b # "live" \/ n # m => step'[b][n] = step[b][n]
    BY <1>0, GotoFacts DEF Accept, Actors, Steps
  <1>2. ASSUME NEW n \in Messages, n # m PROVE Sound(n)'
    <2>1. Same(n) /\ MoreFaults /\ phase' = phase
      BY <1>0, <1>1, <1>2 DEF Accept, Same, MoreFaults, TypeOK, diskVars, loopVars, seenVars, faultVars
    <2>2. QED
      BY <2>1, SameSound
  <1>3. /\ kind[m] = None /\ kind'[m] = k
        /\ UNCHANGED <<queued, retries, failed, piece, read, tracked, phase, unread, loaded, loadedRetries>>
        /\ UNCHANGED <<copies, aborted, failures, overtaken, crashes, faults>>
    BY <1>0 DEF Accept, TypeOK, diskVars, loopVars, seenVars, faultVars
  <1>4. /\ step["live"][m] = "off" /\ step'["recovery"][m] = "off" /\ step["recovery"][m] = "off"
        /\ ~tracked[m] /\ ~queued[m] /\ m \notin loaded /\ m \notin overtaken
        /\ \A p \in Pieces(m) : copies[m][p] = 0
    BY <1>0, <1>1, <1>3 DEF Sound, OnlyAccepted, Actors
  <1>5. OnlyAccepted(m)' /\ FromTheStart(m)' /\ SentBefore(m)' /\ LoopIsOn(m)' /\ NotLost(m)'
    BY <1>0, <1>1, <1>3, <1>4 DEF Sound, OnlyAccepted, FromTheStart, SentBefore, LoopIsOn, NotLost, Actors
  <1>6. Ahead(m)'
    BY <1>1, <1>3, <1>4, PieceRange DEF Ahead, SendsAt, One
  <1>7. RetriesFailed(m)'
    BY <1>0, <1>1, <1>3, <1>4 DEF Sound, RetriesFailed, Other, One, Actors
  <1>8. PaidFor(m)'
    BY <1>0, <1>1, <1>3, <1>4, Values DEF PaidFor, Chances, LiveMaySend, RecoveryMaySend, Failing, Unclaimed, One
  <1>9. QED
    BY <1>2, <1>5, <1>6, <1>7, <1>8 DEF Sound

\* The record does not change what may be sent.
LEMMA EnqueueSound ==
  ASSUME IInv, TypeOK', NEW m \in Messages, Enqueue(m)
  PROVE  \A n \in Messages : Sound(n)'
  <1>0. TypeOK /\ Sound(m)
    BY DEF IInv
  <1>1. /\ step'["live"][m] = "sending"
        /\ \A b \in Actors, n \in Messages : b # "live" \/ n # m => step'[b][n] = step[b][n]
    BY <1>0, GotoFacts DEF Enqueue, Actors, Steps
  <1>2. /\ UNCHANGED <<retries, failed, kind, piece, read, phase, unread, loaded, loadedRetries>>
        /\ UNCHANGED <<copies, aborted, failures, overtaken, crashes>>
        /\ \A n \in Messages : n # m => queued'[n] = queued[n] /\ tracked'[n] = tracked[n]
        /\ (queued'[m] /\ tracked'[m]) \/ (queued'[m] = queued[m] /\ tracked'[m] = tracked[m])
        /\ faults' \in Nat /\ faults' >= faults
    <2>1. CASE Fault /\ UNCHANGED tracked
      BY <1>0, <2>1, FaultFacts, Values DEF Enqueue, loopVars, seenVars
    <2>2. CASE /\ queued' = [queued EXCEPT ![m] = TRUE]
               /\ tracked' = [tracked EXCEPT ![m] = TRUE]
               /\ UNCHANGED <<retries, failed, faultVars>>
      <3>1. queued \in [Messages -> BOOLEAN] /\ tracked \in [Messages -> BOOLEAN]
        BY <1>0 DEF TypeOK
      <3>2. /\ \A n \in Messages : n # m => queued'[n] = queued[n] /\ tracked'[n] = tracked[n]
            /\ queued'[m] /\ tracked'[m]
        BY <2>2, <3>1
      <3>3. faults' = faults /\ faults \in Nat /\ crashes' = crashes /\ retries' = retries /\ failed' = failed
        BY <1>0, <2>2, Values DEF faultVars
      <3>4. /\ UNCHANGED <<kind, piece, read, phase, unread, loaded, loadedRetries>>
            /\ UNCHANGED <<copies, aborted, failures, overtaken>>
        BY DEF Enqueue, loopVars, seenVars
      <3>5. faults' \in Nat /\ faults' >= faults
        BY <3>3
      <3>6. QED
        BY <3>2, <3>3, <3>4, <3>5
    <2>3. QED
      BY <2>1, <2>2 DEF Enqueue
  <1>3. MoreFaults
    BY <1>0, <1>2, Values DEF MoreFaults
  <1>4. ASSUME NEW n \in Messages, n # m PROVE Sound(n)'
    <2>1. Same(n)
      BY <1>1, <1>2, <1>4 DEF Same
    <2>2. QED
      BY <1>2, <1>3, <2>1, SameSound
  <1>5. /\ step["live"][m] = "writing" /\ step'["recovery"][m] = "off" /\ step["recovery"][m] = "off"
        /\ ~tracked[m] /\ ~queued[m] /\ m \notin loaded /\ m \notin overtaken
        /\ kind[m] # None /\ piece["live"][m] = 1
    BY <1>0, <1>1 DEF Sound, OnlyAccepted, FromTheStart, Enqueue, Actors
  <1>6. OnlyAccepted(m)' /\ FromTheStart(m)' /\ LoopIsOn(m)'
    BY <1>0, <1>1, <1>2, <1>5 DEF Sound, OnlyAccepted, FromTheStart, LoopIsOn, Actors
  <1>7. SentBefore(m)' /\ NotLost(m)'
    BY <1>0, <1>1, <1>2, <1>5, PieceRange DEF Sound, SentBefore, NotLost, Record, Actors
  <1>8. Ahead(m)'
    BY <1>0, <1>1, <1>2, <1>5, PieceRange DEF Sound, Ahead, SendsAt, One
  <1>9. RetriesFailed(m)'
    BY <1>0, <1>1, <1>2, <1>5, Values DEF Sound, RetriesFailed, Other, One, Actors
  <1>10. PaidFor(m)'
    BY <1>0, <1>1, <1>2, <1>5, PieceRange, Values DEF Sound, PaidFor, Chances, LiveMaySend, RecoveryMaySend, Failing, Unclaimed, One
  <1>11. QED
    BY <1>4, <1>6, <1>7, <1>8, <1>9, <1>10 DEF Sound

-----------------------------------------------------------------------------
(* The steps of a call that sends *)

\* A call of message m takes a step: nothing else changes.
OnlyCall(a, m) ==
    /\ \A b \in Actors, n \in Messages : b # a \/ n # m => step'[b][n] = step[b][n] /\ piece'[b][n] = piece[b][n]
    /\ \A n \in Messages : n # m => copies'[n] = copies[n] /\ aborted'[n] = aborted[n] /\ failures'[n] = failures[n]
    /\ UNCHANGED <<queued, retries, failed, kind, read, tracked, phase, unread, loaded, loadedRetries, overtaken, crashes>>
    /\ faults' \in Nat /\ faults' >= faults

\* A call that sends leaves the other messages alone.
LEMMA OnlyCallSound ==
  ASSUME IInv, TypeOK', NEW a \in Actors, NEW m \in Messages, OnlyCall(a, m), NEW n \in Messages, n # m
  PROVE  Sound(n)'
  <1>1. Same(n)
    BY DEF Same, OnlyCall
  <1>2. MoreFaults
    BY Values DEF MoreFaults, OnlyCall, IInv
  <1>3. QED
    BY <1>1, <1>2, SameSound DEF OnlyCall

\* The call goes on to the next payload.
LEMMA GoesOnSound ==
  ASSUME IInv, TypeOK', NEW a \in Actors, NEW m \in Messages, NEW d \in {0, 1},
         Outcome(a, m, d), GoesOn(a, m), kind[m] = "strict" => d = 1
  PROVE  Sound(m)' /\ OnlyCall(a, m)
  <1>0. TypeOK /\ Sound(m)
    BY DEF IInv
  <1>1. /\ step[a][m] = "sending" /\ piece[a][m] \in Nat
        /\ piece'[a][m] = piece[a][m] + 1
        /\ \A b \in Actors, n \in Messages : b # a \/ n # m => piece'[b][n] = piece[b][n]
        /\ step' = step
    BY <1>0 DEF Outcome, GoesOn, TypeOK
  <1>2. /\ UNCHANGED <<queued, retries, failed, kind, read, tracked, phase, unread, loaded, loadedRetries>>
        /\ UNCHANGED <<aborted, failures, overtaken, crashes>> /\ faults' \in Nat /\ faults' >= faults
        /\ \A n \in Messages : n # m => copies'[n] = copies[n]
    BY DEF Outcome, GoesOn, diskVars, loopVars, faultVars
  <1>3. \A p \in Pieces(m) : copies'[m][p] = copies[m][p] + (IF p = piece[a][m] THEN d ELSE 0)
    BY DEF Outcome
  <1>4. OnlyCall(a, m)
    BY <1>1, <1>2 DEF OnlyCall
  <1>5. OnlyAccepted(m)' /\ FromTheStart(m)' /\ LoopIsOn(m)'
    BY <1>0, <1>1, <1>2 DEF Sound, OnlyAccepted, FromTheStart, LoopIsOn, Actors
  <1>6. \A p \in Pieces(m) : copies'[m][p] \in Nat /\ copies'[m][p] >= copies[m][p] /\ (copies[m][p] > 0 => copies'[m][p] > 0)
    BY <1>0, <1>3, Values
  <1>7. SentBefore(m)'
    <2> SUFFICES ASSUME NEW b \in Actors, kind[m] = "strict"
                 PROVE  /\ step[b][m] = "sending" => \A p \in Pieces(m) : p < piece'[b][m] => copies'[m][p] > 0
                        /\ step[b][m] = "acking" => Complete(m)' \/ aborted[m]
      BY <1>1, <1>2 DEF SentBefore
    <2>1. /\ step[b][m] = "sending" => \A p \in Pieces(m) : p < piece[b][m] => copies[m][p] > 0
          /\ step[b][m] = "acking" => Complete(m) \/ aborted[m]
      BY <1>0 DEF Sound, SentBefore
    <2>2. step[b][m] = "acking" => Complete(m)' \/ aborted[m]
      BY <1>6, <2>1 DEF Complete
    <2>3. ASSUME step[b][m] = "sending", NEW p \in Pieces(m), p < piece'[b][m] PROVE copies'[m][p] > 0
      <3>1. CASE b = a /\ p = piece[a][m]
        BY <1>0, <1>3, <3>1, Values
      <3>2. CASE b # a \/ p # piece[a][m]
        <4>1. p < piece[b][m]
          BY <1>1, <2>3, <3>2, PieceRange
        <4>2. QED
          BY <1>6, <2>1, <2>3, <4>1
      <3>3. QED
        BY <3>1, <3>2
    <2>4. QED
      BY <2>2, <2>3
  <1>8. NotLost(m)'
    BY <1>0, <1>2, <1>6 DEF Sound, NotLost, Complete, Record
  <1>9. Ahead(m)'
    <2> SUFFICES ASSUME kind[m] = "strict", NEW p \in Pieces(m), p < Payloads[m]
                 PROVE  copies'[m][p] >= copies'[m][p + 1] + One(SendsAt("live", m, p + 1))' + One(SendsAt("recovery", m, p + 1))'
      BY <1>2 DEF Ahead
    <2>1. p \in Nat /\ p + 1 \in Pieces(m)
      BY PieceRange
    <2>2. copies[m][p] >= copies[m][p + 1] + One(SendsAt("live", m, p + 1)) + One(SendsAt("recovery", m, p + 1))
      BY <1>0 DEF Sound, Ahead
    <2>3. copies[m][p] \in Nat /\ copies[m][p + 1] \in Nat
      BY <1>0, <2>1, Values
    <2>4. QED
      BY <1>1, <1>3, <2>1, <2>2, <2>3 DEF SendsAt, One, Actors
  <1>10. RetriesFailed(m)'
    BY <1>0, <1>1, <1>2 DEF Sound, RetriesFailed
  <1>11. PaidFor(m)'
    <2> SUFFICES ASSUME NEW p \in Pieces(m)
                 PROVE  copies'[m][p] + Chances(m, p)' <= 1 + failures'[m] + crashes' + faults' + One(m \in overtaken)'
      BY DEF PaidFor
    <2>1. copies[m][p] + Chances(m, p) <= 1 + failures[m] + crashes + faults + One(m \in overtaken)
      BY <1>0 DEF Sound, PaidFor
    <2>2. copies'[m][p] + Chances(m, p)' <= copies[m][p] + Chances(m, p)
      <3>1. Unclaimed(m)' = Unclaimed(m) /\ \A b \in Actors : Failing(b, m)' = Failing(b, m)
        BY <1>1, <1>2 DEF Unclaimed, Failing
      <3>2. p \in Nat /\ copies[m][p] \in Nat /\ \A b \in Actors : piece[b][m] \in Nat
        BY <1>0, PieceRange, Values
      <3>3. QED
        BY <1>1, <1>2, <1>3, <3>1, <3>2 DEF Chances, LiveMaySend, RecoveryMaySend, One, Actors
    <2>3. QED
      BY <1>0, <1>2, <1>6, <2>1, <2>2, Values, ChancesFacts DEF One, Chances
  <1>12. QED
    BY <1>4, <1>5, <1>7, <1>8, <1>9, <1>10, <1>11 DEF Sound

\* A call stops sending: at most the payload at hand was delivered, and its
\* caller may have given up.
StopsSending(a, m, d) ==
    /\ step[a][m] = "sending"
    /\ piece' = [piece EXCEPT ![a][m] = 1]
    /\ \A n \in Messages : n # m => copies'[n] = copies[n] /\ aborted'[n] = aborted[n]
    /\ \A p \in Pieces(m) : copies'[m][p] = copies[m][p] + (IF p = piece[a][m] THEN d ELSE 0)
    /\ aborted[m] => aborted'[m]
    /\ UNCHANGED <<queued, retries, failed, kind, read, tracked, phase, unread, loaded, loadedRetries, overtaken, crashes>>
    /\ faults' \in Nat /\ faults' >= faults

\* A call stops and removes the entry, or fails and is counted.
LEMMA StopsSendingSound ==
  ASSUME IInv, TypeOK', NEW a \in Actors, NEW m \in Messages, NEW d \in {0, 1}, StopsSending(a, m, d),
         GoFail(a, m) \/ GoAck(a, m),
         kind[m] = "strict" /\ GoAck(a, m) => Complete(m)' \/ aborted'[m]
  PROVE  Sound(m)' /\ OnlyCall(a, m)
  <1>0. TypeOK /\ Sound(m)
    BY DEF IInv
  <1>1. /\ \A b \in Actors, n \in Messages : b # a \/ n # m => step'[b][n] = step[b][n]
        /\ \A n \in Messages : n # m => failures'[n] = failures[n]
        /\ failures'[m] \in Nat
        /\ failures'[m] >= failures[m] + One(step'[a][m] = "failing")
        /\ step'[a][m] \in {"failing", "acking"} => a = "recovery" \/ tracked[m]
        /\ step'[a][m] \in {"failing", "acking", "off"}
        /\ step'[a][m] = "off" => a = "live" /\ ~tracked[m]
        /\ step'[a][m] = "acking" => GoAck(a, m)
    BY <1>0, GoFacts, Values DEF One, Actors
  <1>2. /\ step[a][m] = "sending" /\ piece'[a][m] = 1
        /\ \A b \in Actors, n \in Messages : b # a \/ n # m => piece'[b][n] = piece[b][n]
    BY <1>0 DEF StopsSending, TypeOK
  <1>3. /\ UNCHANGED <<queued, retries, failed, kind, read, tracked, phase, unread, loaded, loadedRetries, overtaken, crashes>>
        /\ faults' \in Nat /\ faults' >= faults
        /\ \A n \in Messages : n # m => copies'[n] = copies[n] /\ aborted'[n] = aborted[n]
        /\ aborted[m] => aborted'[m]
    BY DEF StopsSending
  <1>4. \A p \in Pieces(m) : copies'[m][p] = copies[m][p] + (IF p = piece[a][m] THEN d ELSE 0)
    BY DEF StopsSending
  <1>5. OnlyCall(a, m)
    BY <1>1, <1>2, <1>3 DEF OnlyCall
  <1>6. \A p \in Pieces(m) : copies'[m][p] \in Nat /\ copies'[m][p] >= copies[m][p] /\ (copies[m][p] > 0 => copies'[m][p] > 0)
    BY <1>0, <1>4, Values
  <1>7. OnlyAccepted(m)' /\ FromTheStart(m)' /\ LoopIsOn(m)'
    BY <1>0, <1>1, <1>2, <1>3 DEF Sound, OnlyAccepted, FromTheStart, LoopIsOn, Actors
  <1>8. NotLost(m)'
    BY <1>0, <1>3, <1>6 DEF Sound, NotLost, Complete, Record
  <1>9. SentBefore(m)'
    <2> SUFFICES ASSUME NEW b \in Actors, kind[m] = "strict"
                 PROVE  /\ step'[b][m] = "sending" => \A p \in Pieces(m) : p < piece'[b][m] => copies'[m][p] > 0
                        /\ step'[b][m] = "acking" => Complete(m)' \/ aborted'[m]
      BY <1>3 DEF SentBefore
    <2>1. CASE b = a
      BY <1>1, <2>1
    <2>2. CASE b # a
      BY <1>0, <1>1, <1>2, <1>3, <1>6, <2>2 DEF Sound, SentBefore, Complete
    <2>3. QED
      BY <2>1, <2>2
  <1>10. Ahead(m)'
    <2> SUFFICES ASSUME kind[m] = "strict", NEW p \in Pieces(m), p < Payloads[m]
                 PROVE  copies'[m][p] >= copies'[m][p + 1] + One(SendsAt("live", m, p + 1))' + One(SendsAt("recovery", m, p + 1))'
      BY <1>3 DEF Ahead
    <2>1. p \in Nat /\ p + 1 \in Pieces(m)
      BY PieceRange
    <2>2. copies[m][p] >= copies[m][p + 1] + One(SendsAt("live", m, p + 1)) + One(SendsAt("recovery", m, p + 1))
      BY <1>0 DEF Sound, Ahead
    <2>3. copies[m][p] \in Nat /\ copies[m][p + 1] \in Nat
      BY <1>0, <2>1, Values
    <2>4. QED
      BY <1>1, <1>2, <1>4, <2>1, <2>2, <2>3 DEF SendsAt, One, Actors
  <1>11. RetriesFailed(m)'
    <2>1. /\ retries[m] \in Nat /\ failures[m] \in Nat /\ failures'[m] \in Nat /\ loadedRetries[m] \in Nat
          /\ MaxRetries \in Nat /\ \A b \in Actors : read[b][m] \in Nat
      BY <1>0, <1>1, Values, DeliveryAssumption
    <2>2. \A b \in Actors : Other(b) \in Actors
      BY DEF Other, Actors
    <2>3. QED
      BY <1>0, <1>1, <1>2, <1>3, <2>1, <2>2 DEF Sound, RetriesFailed, One, Other, Actors
  <1>12. PaidFor(m)'
    <2> SUFFICES ASSUME NEW p \in Pieces(m)
                 PROVE  copies'[m][p] + Chances(m, p)' <= 1 + failures'[m] + crashes' + faults' + One(m \in overtaken)'
      BY DEF PaidFor
    <2>1. copies[m][p] + Chances(m, p) <= 1 + failures[m] + crashes + faults + One(m \in overtaken)
      BY <1>0 DEF Sound, PaidFor
    <2>2. copies'[m][p] + Chances(m, p)' <= copies[m][p] + Chances(m, p) + One(step'[a][m] = "failing")
      <3>1. Unclaimed(m)' => Unclaimed(m)
        BY <1>0, <1>1, <1>2, <1>3 DEF Sound, OnlyAccepted, Unclaimed, Actors
      <3>2. /\ \A b \in Actors : b # a => Failing(b, m)' = Failing(b, m)
            /\ ~Failing(a, m) /\ (Failing(a, m)' <=> step'[a][m] = "failing")
        BY <1>1, <1>2 DEF Failing
      <3>3. p \in Nat /\ copies[m][p] \in Nat /\ \A b \in Actors : piece[b][m] \in Nat
        BY <1>0, PieceRange, Values
      <3>4. QED
        BY <1>1, <1>2, <1>3, <1>4, <3>1, <3>2, <3>3 DEF Chances, LiveMaySend, RecoveryMaySend, One, Actors
    <2>3. /\ Chances(m, p) \in Nat /\ Chances(m, p)' \in Nat /\ One(m \in overtaken) \in Nat
          /\ One(step'[a][m] = "failing") \in Nat /\ One(m \in overtaken)' = One(m \in overtaken)
      BY <1>3 DEF Chances, One
    <2>4. copies[m][p] \in Nat /\ copies'[m][p] \in Nat /\ failures[m] \in Nat /\ crashes \in Nat /\ faults \in Nat
      BY <1>0, <1>6, Values
    <2>5. QED
      BY <1>1, <1>3, <2>1, <2>2, <2>3, <2>4
  <1>13. QED
    BY <1>5, <1>7, <1>8, <1>9, <1>10, <1>11, <1>12 DEF Sound

\* Whatever comes of sending a payload, every message stays sound.
LEMMA OutcomeSound ==
  ASSUME IInv, TypeOK', NEW a \in Actors, NEW m \in Messages, NEW d \in {0, 1}, Outcome(a, m, d)
  PROVE  \A n \in Messages : Sound(n)'
  <1>0. TypeOK /\ Sound(m)
    BY DEF IInv
  <1>1. Sound(m)' /\ OnlyCall(a, m)
    <2>1. CASE GoesOn(a, m) /\ (kind[m] = "strict" => d = 1)
      BY <2>1, GoesOnSound
    <2>2. (Ends(a, m) \/ Fails(a, m)) => StopsSending(a, m, d)
      BY DEF Outcome, StopsSending, Ends, Fails, diskVars, loopVars, faultVars
    <2>3. CASE Ends(a, m) /\ (kind[m] = "strict" => d = 1)
      <3>1. ASSUME kind[m] = "strict", NEW p \in Pieces(m) PROVE copies'[m][p] > 0
        <4>1. copies'[m][p] = copies[m][p] + (IF p = piece[a][m] THEN 1 ELSE 0) /\ copies[m][p] \in Nat
          BY <1>0, <2>3, <3>1, Values DEF Outcome
        <4>2. p = piece[a][m] \/ p < piece[a][m]
          BY <1>0, <2>3, PieceRange DEF Ends
        <4>3. p < piece[a][m] => copies[m][p] > 0
          BY <1>0, <3>1 DEF Sound, SentBefore, Outcome
        <4>4. QED
          BY <4>1, <4>2, <4>3
      <3>2. kind[m] = "strict" => Complete(m)'
        BY <3>1 DEF Complete
      <3>3. GoAck(a, m) /\ StopsSending(a, m, d)
        BY <2>2, <2>3 DEF Ends
      <3>4. QED
        BY <3>2, <3>3, StopsSendingSound
    <2>4. CASE Fails(a, m)
      <3>1. GoFail(a, m) /\ StopsSending(a, m, d)
        BY <2>2, <2>4 DEF Fails
      <3>2. kind[m] = "strict" /\ GoAck(a, m) => Complete(m)' \/ aborted'[m]
        <4>1. ~GoAck(a, m)
          BY <1>0, <3>1, Values DEF GoFail, GoAck, TypeOK
        <4>2. QED
          BY <4>1
      <3>3. QED
        BY <3>1, <3>2, StopsSendingSound
    <2>5. QED
      BY <2>1, <2>3, <2>4 DEF Outcome
  <1>2. QED
    BY <1>1, OnlyCallSound

\* A call that ends in an AbortError is remembered.
LEMMA AbortSound ==
  ASSUME IInv, TypeOK', NEW m \in Messages, Abort(m)
  PROVE  \A n \in Messages : Sound(n)'
  <1>0. TypeOK /\ "live" \in Actors
    BY DEF IInv, Actors
  <1>1. aborted'[m] /\ \A n \in Messages : n # m => aborted'[n] = aborted[n]
    BY <1>0 DEF Abort, TypeOK
  <1>2. PICK d \in {0, 1} :
          /\ \A n \in Messages : n # m => copies'[n] = copies[n]
          /\ \A p \in Pieces(m) : copies'[m][p] = copies[m][p] + (IF p = piece["live"][m] THEN d ELSE 0)
    <2>1. CASE Delivered("live", m)
      BY <1>0, <2>1, DeliveredFacts
    <2>2. CASE UNCHANGED copies
      BY <1>0, <2>2, Values
    <2>3. QED
      BY <2>1, <2>2 DEF Abort
  <1>3. StopsSending("live", m, d)
    <2>1. crashes' = crashes /\ faults' = faults /\ faults \in Nat
      BY <1>0, Values DEF Abort, faultVars
    <2>2. QED
      BY <1>1, <1>2, <2>1 DEF Abort, StopsSending, diskVars, loopVars
  <1>4. GoAck("live", m)
    BY DEF Abort
  <1>5. Sound(m)' /\ OnlyCall("live", m)
    BY <1>0, <1>1, <1>3, <1>4, StopsSendingSound
  <1>6. QED
    BY <1>0, <1>5, OnlyCallSound

-----------------------------------------------------------------------------
(* The steps of a call after it has sent *)

\* A call of message m takes a step on the message's file.
OnlyEntry(a, m) ==
    /\ \A b \in Actors, n \in Messages : b # a \/ n # m => step'[b][n] = step[b][n] /\ read'[b][n] = read[b][n]
    /\ \A n \in Messages : n # m =>
          queued'[n] = queued[n] /\ retries'[n] = retries[n] /\ failures'[n] = failures[n]
    /\ UNCHANGED <<failed, kind, piece, tracked, copies, aborted, phase, unread, loaded, loadedRetries, overtaken, crashes>>
    /\ faults' \in Nat /\ faults' >= faults

\* The files of other messages stay as they are.
LEMMA OnlyEntrySound ==
  ASSUME IInv, TypeOK', NEW a \in Actors, NEW m \in Messages, OnlyEntry(a, m), NEW n \in Messages, n # m
  PROVE  Sound(n)'
  <1>1. Same(n)
    BY DEF Same, OnlyEntry
  <1>2. MoreFaults
    BY Values DEF MoreFaults, OnlyEntry, IInv
  <1>3. QED
    BY <1>1, <1>2, SameSound DEF OnlyEntry

\* An entry goes only after the message was sent, or an AbortError.
LEMMA AckSound ==
  ASSUME IInv, TypeOK', NEW a \in Actors, NEW m \in Messages, AckDelivery(a, m)
  PROVE  \A n \in Messages : Sound(n)'
  <1>0. TypeOK /\ Sound(m)
    BY DEF IInv
  <1>1. UNCHANGED <<kind, piece, read, tracked, copies, aborted, phase, unread, loaded, loadedRetries, overtaken>>
    BY DEF AckDelivery, loopVars
  <1>2. step[a][m] = "acking" /\ tracked[m] /\ piece[a][m] = 1
    BY <1>0 DEF AckDelivery, Sound, OnlyAccepted, FromTheStart, Actors
  <1>3. CASE /\ queued' = [queued EXCEPT ![m] = FALSE]
             /\ Goto(a, m, "off")
             /\ UNCHANGED <<retries, failed, failures, faultVars>>
    <2>1. /\ step'[a][m] = "off"
          /\ \A b \in Actors, n \in Messages : b # a \/ n # m => step'[b][n] = step[b][n]
      BY <1>0, <1>3, GotoFacts DEF Steps
    <2>2. ~queued'[m] /\ \A n \in Messages : n # m => queued'[n] = queued[n]
      BY <1>0, <1>3 DEF TypeOK
    <2>3. UNCHANGED <<retries, failed, failures, crashes, faults>> /\ faults \in Nat
      BY <1>0, <1>3, Values DEF faultVars
    <2>4. OnlyEntry(a, m)
      BY <1>1, <2>1, <2>2, <2>3 DEF OnlyEntry
    <2>5. OnlyAccepted(m)' /\ FromTheStart(m)' /\ LoopIsOn(m)'
      BY <1>0, <1>1, <1>2, <2>1, <2>2 DEF Sound, OnlyAccepted, FromTheStart, LoopIsOn, Actors
    <2>6. SentBefore(m)' /\ NotLost(m)'
      BY <1>0, <1>1, <1>2, <2>1, <2>2 DEF Sound, SentBefore, NotLost, Complete, Record, Actors
    <2>7. Ahead(m)'
      BY <1>0, <1>1, <1>2, <2>1 DEF Sound, Ahead, SendsAt, One, Actors
    <2>8. RetriesFailed(m)'
      BY <1>0, <1>1, <1>2, <2>1, <2>3 DEF Sound, RetriesFailed, Other, One, Actors
    <2>9. PaidFor(m)'
      BY <1>0, <1>1, <1>2, <2>1, <2>2, <2>3, Values DEF Sound, PaidFor, Chances, LiveMaySend, RecoveryMaySend, Failing, Unclaimed, One, Actors
    <2>10. QED
      BY <2>4, <2>5, <2>6, <2>7, <2>8, <2>9, OnlyEntrySound DEF Sound
  <1>4. CASE Fault /\ (IF a = "recovery" THEN GoFail(a, m) ELSE Goto(a, m, "off") /\ UNCHANGED failures)
    <2>1. /\ \A b \in Actors, n \in Messages : b # a \/ n # m => step'[b][n] = step[b][n]
          /\ \A n \in Messages : n # m => failures'[n] = failures[n]
          /\ \/ step'[a][m] = "failing" /\ failures'[m] = failures[m] + 1
             \/ step'[a][m] = "off" /\ failures'[m] = failures[m]
      <3>1. CASE a = "recovery"
        BY <1>0, <1>4, <3>1, GoFacts DEF GoFail, GoAck
      <3>2. CASE a # "recovery"
        BY <1>0, <1>4, <3>2, GotoFacts DEF Steps
      <3>3. QED
        BY <3>1, <3>2
    <2>2. UNCHANGED <<queued, retries, failed, crashes>> /\ faults' = faults + 1 /\ faults' \in Nat
      BY <1>0, <1>4, FaultFacts
    <2>3. OnlyEntry(a, m)
      BY <1>0, <1>1, <2>1, <2>2, Values DEF OnlyEntry
    <2>4. OnlyAccepted(m)' /\ FromTheStart(m)' /\ LoopIsOn(m)'
      BY <1>0, <1>1, <1>2, <2>1, <2>2 DEF Sound, OnlyAccepted, FromTheStart, LoopIsOn, Actors
    <2>5. SentBefore(m)' /\ NotLost(m)'
      BY <1>0, <1>1, <1>2, <2>1, <2>2 DEF Sound, SentBefore, NotLost, Complete, Record, Actors
    <2>6. Ahead(m)'
      BY <1>0, <1>1, <1>2, <2>1 DEF Sound, Ahead, SendsAt, One, Actors
    <2>7. RetriesFailed(m)'
      <3>1. /\ retries[m] \in Nat /\ failures[m] \in Nat /\ failures'[m] \in Nat /\ loadedRetries[m] \in Nat
            /\ MaxRetries \in Nat /\ \A b \in Actors : read[b][m] \in Nat
        BY <1>0, <2>1, Values, DeliveryAssumption
      <3>2. failures'[m] >= failures[m] + One(step'[a][m] = "failing") /\ step'[a][m] # "renaming"
        BY <2>1, <3>1 DEF One
      <3>3. QED
        BY <1>0, <1>1, <1>2, <2>1, <2>2, <3>1, <3>2 DEF Sound, RetriesFailed, One, Other, Actors
    <2>8. PaidFor(m)'
      BY <1>0, <1>1, <1>2, <2>1, <2>2, Values DEF Sound, PaidFor, Chances, LiveMaySend, RecoveryMaySend, Failing, Unclaimed, One, Actors
    <2>9. QED
      BY <2>3, <2>4, <2>5, <2>6, <2>7, <2>8, OnlyEntrySound DEF Sound
  <1>5. QED
    BY <1>3, <1>4 DEF AckDelivery

\* failDelivery has read the retries that are recorded, which failures explain.
LEMMA FailReadSound ==
  ASSUME IInv, TypeOK', NEW a \in Actors, NEW m \in Messages, FailRead(a, m)
  PROVE  \A n \in Messages : Sound(n)'
  <1>0. TypeOK /\ Sound(m)
    BY DEF IInv
  <1>1. /\ UNCHANGED <<kind, piece, tracked, copies, aborted, failures, phase, unread, loaded, loadedRetries, overtaken>>
        /\ step[a][m] = "failing"
    BY DEF FailRead, loopVars, seenVars
  <1>2. tracked[m] /\ piece[a][m] = 1
    BY <1>0, <1>1 DEF Sound, OnlyAccepted, FromTheStart, Actors
  <1>3. \/ /\ queued[m] /\ Goto(a, m, "renaming")
           /\ read' = [read EXCEPT ![a][m] = retries[m]]
           /\ UNCHANGED <<diskVars, faultVars>>
        \/ /\ ~queued[m] /\ Goto(a, m, "off")
           /\ UNCHANGED <<read, diskVars, faultVars>>
        \/ /\ Fault /\ Goto(a, m, "off") /\ UNCHANGED read
    BY DEF FailRead
  <1>4. /\ UNCHANGED <<queued, retries, failed, crashes>>
        /\ faults' \in Nat /\ faults' >= faults
    BY <1>0, <1>3, FaultFacts, Values DEF diskVars, faultVars
  <1>5. \A b \in Actors, n \in Messages : b # a \/ n # m => step'[b][n] = step[b][n] /\ read'[b][n] = read[b][n]
    BY <1>0, <1>3, GotoFacts DEF Steps, TypeOK
  <1>6. OnlyEntry(a, m)
    BY <1>1, <1>4, <1>5 DEF OnlyEntry
  <1>7. /\ step'[a][m] \in {"renaming", "off"}
        /\ step'[a][m] = "renaming" => read'[a][m] = retries[m]
        /\ step'[a][m] = "off" => ~queued[m] \/ faults' = faults + 1
    <2>1. CASE queued[m] /\ Goto(a, m, "renaming") /\ read' = [read EXCEPT ![a][m] = retries[m]]
      BY <1>0, <2>1, GotoFacts DEF Steps, TypeOK
    <2>2. CASE ~queued[m] /\ Goto(a, m, "off")
      BY <1>0, <2>2, GotoFacts DEF Steps
    <2>3. CASE Fault /\ Goto(a, m, "off")
      BY <1>0, <2>3, GotoFacts, FaultFacts DEF Steps
    <2>4. QED
      BY <1>3, <2>1, <2>2, <2>3
  <1>8. OnlyAccepted(m)' /\ FromTheStart(m)' /\ LoopIsOn(m)'
    BY <1>0, <1>1, <1>2, <1>4, <1>5, <1>7 DEF Sound, OnlyAccepted, FromTheStart, LoopIsOn, Actors
  <1>9. SentBefore(m)' /\ NotLost(m)'
    BY <1>0, <1>1, <1>2, <1>4, <1>5, <1>7 DEF Sound, SentBefore, NotLost, Complete, Record, Actors
  <1>10. Ahead(m)'
    BY <1>0, <1>1, <1>2, <1>5, <1>7 DEF Sound, Ahead, SendsAt, One, Actors
  <1>11. RetriesFailed(m)'
    <2>1. /\ retries[m] \in Nat /\ failures[m] \in Nat /\ loadedRetries[m] \in Nat
          /\ MaxRetries \in Nat /\ \A b \in Actors : read[b][m] \in Nat
      BY <1>0, Values, DeliveryAssumption
    <2>2. QED
      BY <1>0, <1>1, <1>4, <1>5, <1>7, <2>1 DEF Sound, RetriesFailed, One, Other, Actors
  <1>12. PaidFor(m)'
    BY <1>0, <1>1, <1>2, <1>4, <1>5, <1>7, Values
       DEF Sound, PaidFor, Chances, LiveMaySend, RecoveryMaySend, Failing, Unclaimed, One, Actors
  <1>13. QED
    BY <1>6, <1>8, <1>9, <1>10, <1>11, <1>12, OnlyEntrySound DEF Sound

\* The retry that is recorded is one of the failures, even if the file was
\* removed, or counted again, since it was read.
LEMMA FailWriteSound ==
  ASSUME IInv, TypeOK', NEW a \in Actors, NEW m \in Messages, FailWrite(a, m)
  PROVE  \A n \in Messages : Sound(n)'
  <1>0. TypeOK /\ Sound(m)
    BY DEF IInv
  <1>1. /\ UNCHANGED <<kind, piece, tracked, copies, aborted, failures, phase, unread, loaded, loadedRetries, overtaken>>
        /\ step[a][m] = "renaming"
    BY DEF FailWrite, loopVars, seenVars
  <1>2. tracked[m] /\ piece[a][m] = 1
    BY <1>0, <1>1 DEF Sound, OnlyAccepted, FromTheStart, Actors
  <1>3. \/ /\ queued' = [queued EXCEPT ![m] = TRUE]
           /\ retries' = [retries EXCEPT ![m] = read[a][m] + 1]
           /\ UNCHANGED <<failed, faultVars>>
        \/ Fault
    BY DEF FailWrite
  <1>4. /\ step'[a][m] = "off"
        /\ \A b \in Actors, n \in Messages : b # a \/ n # m => step'[b][n] = step[b][n]
    BY <1>0, GotoFacts DEF FailWrite, Steps
  <1>5. \A b \in Actors, n \in Messages : b # a \/ n # m => read'[b][n] = read[b][n]
    BY <1>0 DEF FailWrite, TypeOK
  <1>6. /\ UNCHANGED <<failed, crashes>> /\ faults' \in Nat /\ faults' >= faults
        /\ \A n \in Messages : n # m => queued'[n] = queued[n] /\ retries'[n] = retries[n]
        /\ queued[m] => queued'[m]
        /\ retries'[m] \in {retries[m], read[a][m] + 1}
    <2>1. CASE Fault
      BY <1>0, <2>1, FaultFacts, Values
    <2>2. CASE /\ queued' = [queued EXCEPT ![m] = TRUE]
               /\ retries' = [retries EXCEPT ![m] = read[a][m] + 1]
               /\ UNCHANGED <<failed, faultVars>>
      <3>1. /\ \A n \in Messages : n # m => queued'[n] = queued[n] /\ retries'[n] = retries[n]
            /\ queued'[m] /\ retries'[m] = read[a][m] + 1
        BY <1>0, <2>2 DEF TypeOK
      <3>2. QED
        BY <1>0, <2>2, <3>1, Values DEF faultVars
    <2>3. QED
      BY <1>3, <2>1, <2>2
  <1>7. OnlyEntry(a, m)
    BY <1>1, <1>4, <1>5, <1>6 DEF OnlyEntry
  <1>8. OnlyAccepted(m)' /\ FromTheStart(m)' /\ LoopIsOn(m)'
    BY <1>0, <1>1, <1>2, <1>4 DEF Sound, OnlyAccepted, FromTheStart, LoopIsOn, Actors
  <1>9. SentBefore(m)' /\ NotLost(m)'
    BY <1>0, <1>1, <1>2, <1>4, <1>6 DEF Sound, SentBefore, NotLost, Complete, Record, Actors
  <1>10. Ahead(m)'
    BY <1>0, <1>1, <1>2, <1>4 DEF Sound, Ahead, SendsAt, One, Actors
  <1>11. RetriesFailed(m)'
    <2>1. /\ retries[m] \in Nat /\ failures[m] \in Nat /\ loadedRetries[m] \in Nat
          /\ MaxRetries \in Nat /\ \A b \in Actors : read[b][m] \in Nat
      BY <1>0, Values, DeliveryAssumption
    <2>2. QED
      BY <1>0, <1>1, <1>4, <1>5, <1>6, <2>1 DEF Sound, RetriesFailed, One, Other, Actors
  <1>12. PaidFor(m)'
    BY <1>0, <1>1, <1>2, <1>4, <1>6, Values
       DEF Sound, PaidFor, Chances, LiveMaySend, RecoveryMaySend, Failing, Unclaimed, One, Actors
  <1>13. QED
    BY <1>7, <1>8, <1>9, <1>10, <1>11, <1>12, OnlyEntrySound DEF Sound

-----------------------------------------------------------------------------
(* The recovery and the process *)

\* The start lists the directory: what it had loaded is not its any more.
LEMMA ListFilesSound ==
  ASSUME IInv, TypeOK', ListFiles, NEW m \in Messages
  PROVE  Sound(m)'
  <1>0. TypeOK /\ Sound(m)
    BY DEF IInv
  <1>1. /\ UNCHANGED <<queued, retries, failed, kind, step, piece, read, tracked, loadedRetries>>
        /\ UNCHANGED <<copies, aborted, failures, overtaken, crashes, faults>>
        /\ phase = "listing" /\ phase' = "reading" /\ loaded' = {}
    BY DEF ListFiles, diskVars, callVars, seenVars, faultVars
  <1>2. OnlyAccepted(m)' /\ FromTheStart(m)' /\ SentBefore(m)' /\ LoopIsOn(m)' /\ NotLost(m)'
    BY <1>0, <1>1 DEF Sound, OnlyAccepted, FromTheStart, SentBefore, LoopIsOn, NotLost, Complete, Record
  <1>3. Ahead(m)' /\ RetriesFailed(m)'
    BY <1>0, <1>1 DEF Sound, Ahead, SendsAt, RetriesFailed
  <1>4. PaidFor(m)'
    BY <1>0, <1>1, Values DEF Sound, PaidFor, Chances, LiveMaySend, RecoveryMaySend, Failing, Unclaimed, One
  <1>5. QED
    BY <1>2, <1>3, <1>4 DEF Sound

\* An entry that is loaded may be sent once more: nobody else will, unless its
\* live call is still at it, which counts as overtaken.
LEMMA ReadFileSound ==
  ASSUME IInv, TypeOK', NEW m \in Messages, ReadFile(m)
  PROVE  \A n \in Messages : Sound(n)'
  <1>0. TypeOK /\ Sound(m) /\ "live" \in Actors /\ "recovery" \in Actors
    BY DEF IInv, Actors
  <1>1. /\ UNCHANGED <<kind, step, piece, read, tracked, phase, copies, aborted, failures>>
        /\ phase = "reading" /\ m \in unread /\ unread' = unread \ {m}
    BY DEF ReadFile, callVars
  <1>2. \/ /\ queued[m] /\ loaded' = loaded \cup {m}
           /\ loadedRetries' = [loadedRetries EXCEPT ![m] = retries[m]]
           /\ overtaken' = IF step["live"][m] = "off" THEN overtaken ELSE overtaken \cup {m}
           /\ UNCHANGED <<diskVars, faultVars>>
        \/ UNCHANGED <<loaded, loadedRetries, overtaken, diskVars, faultVars>>
        \/ Fault /\ UNCHANGED <<loaded, loadedRetries, overtaken>>
    BY DEF ReadFile
  <1>3. UNCHANGED <<queued, retries, failed, crashes>> /\ faults' \in Nat /\ faults' >= faults
    BY <1>0, <1>2, FaultFacts, Values DEF diskVars, faultVars
  <1>4. MoreFaults
    BY <1>0, <1>3, Values DEF MoreFaults
  <1>5. \/ /\ queued[m] /\ m \in loaded' /\ loadedRetries'[m] = retries[m]
           /\ m \in overtaken' <=> m \in overtaken \/ step["live"][m] # "off"
        \/ /\ m \in loaded' <=> m \in loaded
           /\ loadedRetries'[m] = loadedRetries[m]
           /\ m \in overtaken' <=> m \in overtaken
    BY <1>0, <1>2 DEF TypeOK
  <1>6. \A n \in Messages : n # m =>
          /\ n \in loaded' <=> n \in loaded
          /\ n \in overtaken' <=> n \in overtaken
          /\ loadedRetries'[n] = loadedRetries[n]
    BY <1>0, <1>2 DEF TypeOK
  <1>7. ASSUME NEW n \in Messages, n # m PROVE Sound(n)'
    <2>1. Same(n)
      BY <1>1, <1>3, <1>6, <1>7 DEF Same
    <2>2. QED
      BY <1>1, <1>4, <2>1, SameSound
  <1>8. m \notin loaded /\ step["recovery"][m] = "off"
    BY <1>0, <1>1 DEF Sound, LoopIsOn
  <1>9. OnlyAccepted(m)' /\ FromTheStart(m)' /\ SentBefore(m)' /\ LoopIsOn(m)' /\ NotLost(m)'
    <2>1. queued[m] => tracked[m]
      BY <1>0 DEF Sound, OnlyAccepted
    <2>2. QED
      BY <1>0, <1>1, <1>3, <1>5, <1>8, <2>1
         DEF Sound, OnlyAccepted, FromTheStart, SentBefore, LoopIsOn, NotLost, Complete, Record
  <1>10. Ahead(m)'
    BY <1>0, <1>1 DEF Sound, Ahead, SendsAt
  <1>11. RetriesFailed(m)'
    BY <1>0, <1>1, <1>3, <1>5, Values DEF Sound, RetriesFailed, One
  <1>12. PaidFor(m)'
    BY <1>0, <1>1, <1>3, <1>5, <1>8, Values
       DEF Sound, PaidFor, Chances, LiveMaySend, RecoveryMaySend, Failing, Unclaimed, One
  <1>13. QED
    BY <1>7, <1>9, <1>10, <1>11, <1>12 DEF Sound

\* The loop goes on with one of the entries that are loaded.
LEMMA OldestFacts ==
  ASSUME TypeOK, loaded # {}
  PROVE  Oldest \in Messages /\ Oldest \in loaded
  BY PieceRange, SmallestFacts DEF Oldest, TypeOK

\* An entry that is out of retries has failed as often.
LEMMA GiveUpSound ==
  ASSUME IInv, TypeOK', GiveUp
  PROVE  \A n \in Messages : Sound(n)'
  <1>m. PICK m \in Messages : m = Oldest /\ m \in loaded
    BY OldestFacts DEF GiveUp, IInv
  <1>0. TypeOK /\ m \in loaded /\ Sound(m) /\ "live" \in Actors /\ "recovery" \in Actors
    BY <1>m DEF IInv, Actors
  <1>1. /\ UNCHANGED <<retries, kind, step, piece, read, tracked, phase, unread, loadedRetries>>
        /\ UNCHANGED <<copies, aborted, failures, overtaken>>
        /\ loaded' = loaded \ {m} /\ loadedRetries[m] >= MaxRetries /\ step["recovery"][m] = "off"
    BY <1>0, <1>m, FaultFacts DEF GiveUp, OutOfRetries, BetweenEntries, diskVars, callVars, seenVars
  <1>2. \/ /\ queued[m]
           /\ queued' = [queued EXCEPT ![m] = FALSE]
           /\ failed' = [failed EXCEPT ![m] = TRUE]
           /\ UNCHANGED faultVars
        \/ ~queued[m] /\ UNCHANGED <<diskVars, faultVars>>
        \/ Fault
    BY <1>m DEF GiveUp
  <1>3. /\ \A n \in Messages : n # m => queued'[n] = queued[n] /\ failed'[n] = failed[n]
        /\ crashes' = crashes /\ faults' \in Nat /\ faults' >= faults
        /\ \/ ~queued'[m] /\ (failed'[m] \/ (~queued[m] /\ failed'[m] = failed[m]))
           \/ queued'[m] = queued[m] /\ failed'[m] = failed[m] /\ faults' = faults + 1
    <2>1. CASE /\ queued[m]
               /\ queued' = [queued EXCEPT ![m] = FALSE]
               /\ failed' = [failed EXCEPT ![m] = TRUE]
               /\ UNCHANGED faultVars
      <3>1. /\ \A n \in Messages : n # m => queued'[n] = queued[n] /\ failed'[n] = failed[n]
            /\ ~queued'[m] /\ failed'[m]
        BY <1>0, <2>1 DEF TypeOK
      <3>2. crashes' = crashes /\ faults' \in Nat /\ faults' >= faults
        BY <1>0, <2>1, Values DEF faultVars
      <3>3. QED
        BY <3>1, <3>2, Zenon
    <2>2. CASE ~queued[m] /\ UNCHANGED <<diskVars, faultVars>>
      BY <1>0, <2>2, Values DEF diskVars, faultVars
    <2>3. CASE Fault
      BY <1>0, <2>3, FaultFacts, Values
    <2>4. QED
      BY <1>2, <2>1, <2>2, <2>3
  <1>4. MoreFaults
    BY <1>0, <1>3, Values DEF MoreFaults
  <1>5. ASSUME NEW n \in Messages, n # m PROVE Sound(n)'
    <2>1. Same(n)
      BY <1>1, <1>3, <1>5 DEF Same
    <2>2. QED
      BY <1>1, <1>4, <2>1, SameSound
  <1>6. OnlyAccepted(m)' /\ FromTheStart(m)' /\ SentBefore(m)' /\ LoopIsOn(m)' /\ NotLost(m)'
    BY <1>0, <1>1, <1>3 DEF Sound, OnlyAccepted, FromTheStart, SentBefore, LoopIsOn, NotLost, Complete, Record
  <1>7. Ahead(m)'
    BY <1>0, <1>1 DEF Sound, Ahead, SendsAt
  <1>8. RetriesFailed(m)'
    <2>1. failures[m] >= MaxRetries
      BY <1>0, <1>1, Values, DeliveryAssumption DEF Sound, RetriesFailed
    <2>2. QED
      BY <1>0, <1>1, <2>1 DEF Sound, RetriesFailed
  <1>9. PaidFor(m)'
    BY <1>0, <1>1, <1>3, Values DEF Sound, PaidFor, Chances, LiveMaySend, RecoveryMaySend, Failing, Unclaimed, One
  <1>10. QED
    BY <1>0, <1>5, <1>6, <1>7, <1>8, <1>9 DEF Sound

\* The attempt takes the place of the loaded entry.
LEMMA RetrySound ==
  ASSUME IInv, TypeOK', Retry
  PROVE  \A n \in Messages : Sound(n)'
  <1>m. PICK m \in Messages : m = Oldest /\ m \in loaded
    BY OldestFacts DEF Retry, IInv
  <1>0. TypeOK /\ m \in loaded /\ Sound(m) /\ "live" \in Actors /\ "recovery" \in Actors
    BY <1>m DEF IInv, Actors
  <1>1. /\ UNCHANGED <<queued, retries, failed, kind, piece, read, tracked, phase, unread, loadedRetries>>
        /\ UNCHANGED <<copies, aborted, failures, overtaken, crashes, faults>>
        /\ loaded' = loaded \ {m} /\ step["recovery"][m] = "off" /\ phase = "trying"
    BY <1>0, <1>m DEF Retry, BetweenEntries, diskVars, callVars, seenVars, faultVars
  <1>2. /\ step'["recovery"][m] = "sending"
        /\ \A b \in Actors, n \in Messages : b # "recovery" \/ n # m => step'[b][n] = step[b][n]
    BY <1>0, <1>m, GotoFacts DEF Retry, Steps
  <1>3. MoreFaults
    BY <1>0, <1>1, Values DEF MoreFaults
  <1>4. ASSUME NEW n \in Messages, n # m PROVE Sound(n)'
    <2>1. Same(n)
      BY <1>1, <1>2, <1>4 DEF Same
    <2>2. QED
      BY <1>1, <1>3, <2>1, SameSound
  <1>5. tracked[m] /\ piece["recovery"][m] = 1
    BY <1>0, <1>1 DEF Sound, OnlyAccepted, FromTheStart
  <1>6. OnlyAccepted(m)' /\ FromTheStart(m)' /\ LoopIsOn(m)'
    BY <1>0, <1>1, <1>2, <1>5 DEF Sound, OnlyAccepted, FromTheStart, LoopIsOn, Actors
  <1>7. SentBefore(m)' /\ NotLost(m)'
    BY <1>0, <1>1, <1>2, <1>5, PieceRange DEF Sound, SentBefore, NotLost, Complete, Record, Actors
  <1>8. Ahead(m)'
    BY <1>0, <1>1, <1>2, <1>5, PieceRange DEF Sound, Ahead, SendsAt, One
  <1>9. RetriesFailed(m)'
    BY <1>0, <1>1, <1>2, Values DEF Sound, RetriesFailed, Other, One, Actors
  <1>10. PaidFor(m)'
    BY <1>0, <1>1, <1>2, Values DEF Sound, PaidFor, Chances, LiveMaySend, RecoveryMaySend, Failing, Unclaimed, One
  <1>11. QED
    BY <1>4, <1>6, <1>7, <1>8, <1>9, <1>10 DEF Sound

\* What the loop leaves is for the next start.
LEMMA StopRecoverySound ==
  ASSUME IInv, TypeOK', StopRecovery, NEW m \in Messages
  PROVE  Sound(m)'
  <1>0. TypeOK /\ Sound(m)
    BY DEF IInv
  <1>1. /\ UNCHANGED <<queued, retries, failed, kind, step, piece, read, tracked, unread>>
        /\ UNCHANGED <<copies, aborted, failures, overtaken, crashes, faults>>
        /\ phase' = "off" /\ loaded' = {} /\ loadedRetries'[m] = 0 /\ step["recovery"][m] = "off"
    BY DEF StopRecovery, BetweenEntries, diskVars, callVars, seenVars, faultVars
  <1>2. OnlyAccepted(m)' /\ FromTheStart(m)' /\ SentBefore(m)' /\ LoopIsOn(m)' /\ NotLost(m)'
    BY <1>0, <1>1 DEF Sound, OnlyAccepted, FromTheStart, SentBefore, LoopIsOn, NotLost, Complete, Record
  <1>3. Ahead(m)'
    BY <1>0, <1>1 DEF Sound, Ahead, SendsAt
  <1>4. RetriesFailed(m)'
    BY <1>0, <1>1, Values DEF Sound, RetriesFailed
  <1>5. PaidFor(m)'
    BY <1>0, <1>1, Values DEF Sound, PaidFor, Chances, LiveMaySend, RecoveryMaySend, Failing, Unclaimed, One
  <1>6. QED
    BY <1>2, <1>3, <1>4, <1>5 DEF Sound

\* The end of the process pays for the one copy that the entry may still cause.
LEMMA CrashSound ==
  ASSUME IInv, TypeOK', Crash, NEW m \in Messages
  PROVE  Sound(m)'
  <1>0. TypeOK /\ Sound(m)
    BY DEF IInv
  <1>1. /\ UNCHANGED <<queued, retries, failed, kind, tracked>>
        /\ UNCHANGED <<copies, aborted, failures, overtaken, faults>>
        /\ \A a \in Actors : step'[a][m] = "off" /\ piece'[a][m] = 1
        /\ phase' = "off" /\ loaded' = {} /\ unread' = {} /\ loadedRetries'[m] = 0 /\ crashes' = crashes + 1
    BY DEF Crash, diskVars, seenVars
  <1>2. OnlyAccepted(m)' /\ FromTheStart(m)' /\ SentBefore(m)' /\ LoopIsOn(m)' /\ NotLost(m)'
    BY <1>0, <1>1 DEF Sound, OnlyAccepted, FromTheStart, SentBefore, LoopIsOn, NotLost, Complete, Record, Actors
  <1>3. Ahead(m)'
    <2> SUFFICES ASSUME kind[m] = "strict", NEW p \in Pieces(m), p < Payloads[m]
                 PROVE  copies[m][p] >= copies[m][p + 1] + One(SendsAt("live", m, p + 1))' + One(SendsAt("recovery", m, p + 1))'
      BY <1>1 DEF Ahead
    <2>1. copies[m][p] >= copies[m][p + 1] + One(SendsAt("live", m, p + 1)) + One(SendsAt("recovery", m, p + 1))
      BY <1>0 DEF Sound, Ahead
    <2>2. copies[m][p] \in Nat /\ copies[m][p + 1] \in Nat
      BY <1>0, Values, PieceRange
    <2>3. QED
      BY <1>1, <2>1, <2>2 DEF SendsAt, One, Actors
  <1>4. RetriesFailed(m)'
    <2>1. failures[m] \in Nat /\ retries[m] \in Nat /\ retries[m] <= failures[m] /\ (failed[m] => failures[m] >= MaxRetries)
      BY <1>0, Values DEF Sound, RetriesFailed, One
    <2>2. QED
      BY <1>1, <2>1 DEF RetriesFailed, One, Actors
  <1>5. PaidFor(m)'
    BY <1>0, <1>1, Values DEF Sound, PaidFor, Chances, LiveMaySend, RecoveryMaySend, Failing, Unclaimed, One, Actors
  <1>6. QED
    BY <1>2, <1>3, <1>4, <1>5 DEF Sound

\* The loop begins to try, or the gateway starts: only the phase changes.
LEMMA PhaseSound ==
  ASSUME IInv, TypeOK', AllRead \/ StartGateway \/ UNCHANGED vars, NEW m \in Messages
  PROVE  Sound(m)'
  <1>0. TypeOK /\ Sound(m)
    BY DEF IInv
  <1>1. /\ UNCHANGED <<queued, retries, failed, kind, step, piece, read, tracked, unread, loaded, loadedRetries>>
        /\ UNCHANGED <<copies, aborted, failures, overtaken, crashes, faults>>
        /\ phase' = phase \/ phase # "trying"
    BY DEF AllRead, StartGateway, vars, diskVars, callVars, loopVars, seenVars, faultVars
  <1>2. OnlyAccepted(m)' /\ FromTheStart(m)' /\ SentBefore(m)' /\ LoopIsOn(m)' /\ NotLost(m)'
    BY <1>0, <1>1 DEF Sound, OnlyAccepted, FromTheStart, SentBefore, LoopIsOn, NotLost, Complete, Record
  <1>3. Ahead(m)' /\ RetriesFailed(m)'
    BY <1>0, <1>1 DEF Sound, Ahead, SendsAt, RetriesFailed
  <1>4. PaidFor(m)'
    BY <1>0, <1>1 DEF Sound, PaidFor, Chances, LiveMaySend, RecoveryMaySend, Failing, Unclaimed
  <1>5. QED
    BY <1>2, <1>3, <1>4 DEF Sound

-----------------------------------------------------------------------------
(* The theorems *)

\* Every step keeps the invariant.
LEMMA NextIInv == IInv /\ [Next]_vars => IInv'
  <1> SUFFICES ASSUME IInv, [Next]_vars PROVE IInv'
    OBVIOUS
  <1>0. TypeOK /\ TypeOK'
    BY NextTypeOK DEF IInv
  <1> SUFFICES \A n \in Messages : Sound(n)'
    BY <1>0 DEF IInv
  <1>1. ASSUME NEW m \in Messages, NEW k \in AllKinds, Accept(m, k) PROVE \A n \in Messages : Sound(n)'
    BY <1>0, <1>1, AcceptSound
  <1>2. ASSUME NEW m \in Messages, Enqueue(m) \/ Abort(m) PROVE \A n \in Messages : Sound(n)'
    BY <1>0, <1>2, EnqueueSound, AbortSound
  <1>3. ASSUME NEW a \in Actors, NEW m \in Messages, CallStep(a, m) PROVE \A n \in Messages : Sound(n)'
    <2>1. CASE SendPiece(a, m) \/ PieceFails(a, m) \/ CoreFails(a, m)
      BY <1>0, <2>1, OutcomeFacts, OutcomeSound
    <2>2. CASE AckDelivery(a, m)
      BY <1>0, <2>2, AckSound
    <2>3. CASE FailRead(a, m)
      BY <1>0, <2>3, FailReadSound
    <2>4. CASE FailWrite(a, m)
      BY <1>0, <2>4, FailWriteSound
    <2>5. QED
      BY <1>3, <2>1, <2>2, <2>3, <2>4 DEF CallStep
  <1>4. CASE LoopStep
    BY <1>0, <1>4, ListFilesSound, ReadFileSound, PhaseSound, GiveUpSound, RetrySound, StopRecoverySound DEF LoopStep
  <1>5. CASE Crash
    BY <1>0, <1>5, CrashSound
  <1>6. CASE StartGateway \/ UNCHANGED vars
    BY <1>0, <1>6, PhaseSound
  <1>7. QED
    BY <1>1, <1>2, <1>3, <1>4, <1>5, <1>6 DEF Next

\* The invariant holds in every reachable state.
THEOREM QueueInvariant == Spec => []IInv
  <1>1. QED
    BY InitIInv, NextIInv, PTL DEF Spec

\* TypeOK: the files, the calls and the loop stay what the code makes of them.
THEOREM TypeCorrect == Spec => []TypeOK
  <1>1. IInv => TypeOK
    BY DEF IInv
  <1>2. QED
    BY <1>1, QueueInvariant, PTL

\* NothingLost: an entry of a message sent without bestEffort goes only when
\* the message was sent completely, given up to failed/, or aborted.
THEOREM NothingIsLost == Spec => []NothingLost
  <1>1. IInv => NothingLost
    BY DEF IInv, Sound, NotLost, NothingLost
  <1>2. QED
    BY <1>1, QueueInvariant, PTL

\* InOrder: with the live call and the recovery at it at once, no payload
\* overtakes the one before it.
THEOREM AlwaysInOrder == Spec => []InOrder
  <1>1. ASSUME IInv PROVE InOrder
    <2> SUFFICES ASSUME NEW m \in Messages, kind[m] = "strict", NEW p \in Pieces(m), p < Payloads[m]
                 PROVE  copies[m][p] >= copies[m][p + 1]
      BY DEF InOrder
    <2>1. copies[m][p] >= copies[m][p + 1] + One(SendsAt("live", m, p + 1)) + One(SendsAt("recovery", m, p + 1))
      BY <1>1 DEF IInv, Sound, Ahead
    <2>2. copies[m][p] \in Nat /\ copies[m][p + 1] \in Nat
      BY <1>1, Values, PieceRange DEF IInv
    <2>3. QED
      BY <2>1, <2>2 DEF One
  <1>2. QED
    BY <1>1, QueueInvariant, PTL

\* CopiesHaveCauses: each copy after the first has a failure, a crash, a fault
\* or an overtaking start of its own.
THEOREM CopiesAlwaysHaveCauses == Spec => []CopiesHaveCauses
  <1>1. ASSUME IInv PROVE CopiesHaveCauses
    <2> SUFFICES ASSUME NEW m \in Messages, NEW p \in Pieces(m)
                 PROVE  copies[m][p] <= 1 + failures[m] + crashes + faults + (IF m \in overtaken THEN 1 ELSE 0)
      BY DEF CopiesHaveCauses
    <2>1. copies[m][p] + Chances(m, p) <= 1 + failures[m] + crashes + faults + One(m \in overtaken)
      BY <1>1 DEF IInv, Sound, PaidFor
    <2>2. copies[m][p] \in Nat /\ failures[m] \in Nat /\ crashes \in Nat /\ faults \in Nat /\ Chances(m, p) \in Nat
      BY <1>1, Values, ChancesFacts DEF IInv
    <2>3. QED
      BY <2>1, <2>2 DEF One
  <1>2. QED
    BY <1>1, QueueInvariant, PTL

\* GivenUpWasTried: an entry in failed/ has failed MaxRetries times.
THEOREM GivenUpAlwaysTried == Spec => []GivenUpWasTried
  <1>1. IInv => GivenUpWasTried
    BY DEF IInv, Sound, RetriesFailed, GivenUpWasTried
  <1>2. QED
    BY <1>1, QueueInvariant, PTL
=============================================================================
