------------------------------- MODULE MCCron -------------------------------
(***************************************************************************)
(* Small instances of Cron for TLC.                                        *)
(***************************************************************************)
EXTENDS Cron, TLC

CONSTANTS remind, poll

OneAndEvery == (remind :> "at") @@ (poll :> "every")
=============================================================================
