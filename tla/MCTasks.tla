------------------------------- MODULE MCTasks -------------------------------
(***************************************************************************)
(* Small instances of Tasks for TLC: the values are in the .cfg files.     *)
(***************************************************************************)
EXTENDS Tasks

CONSTANTS web, api, lost, dev
=============================================================================
