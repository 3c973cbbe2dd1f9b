--------------------------- MODULE MCDeliveryQueue ---------------------------
(***************************************************************************)
(* Small instances of DeliveryQueue for TLC.                               *)
(***************************************************************************)
EXTENDS DeliveryQueue

\* An older message of two payloads and a younger one of one payload
TwoMessages == <<2, 1>>
AnyThenBlind == <<{"strict", "watched"}, {"blind"}>>

\* Two messages of one payload without bestEffort
TwoShort == <<1, 1>>
AllStrict == <<{"strict"}, {"strict"}>>

\* A backoff of a second: the budget of the run allows two attempts.
ShortBackoff == <<1>>

\* BACKOFF_MS in seconds
CodeBackoff == <<5, 25, 120, 600>>
=============================================================================
