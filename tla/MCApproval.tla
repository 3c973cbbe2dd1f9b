----------------------------- MODULE MCApproval -----------------------------
(***************************************************************************)
(* Small instances of Approval for TLC.                                    *)
(***************************************************************************)
EXTENDS Approval, TLC

CONSTANTS s1, s2, r1, r2

\* Two calls of one session; one call of each session.
SameSession == (r1 :> s1) @@ (r2 :> s1)
TwoSessions == (r1 :> s1) @@ (r2 :> s2)
=============================================================================
