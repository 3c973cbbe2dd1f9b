--------------------------- MODULE MCClaudeRunner ---------------------------
(***************************************************************************)
(* Small instances of ClaudeRunner for TLC.                                *)
(***************************************************************************)
EXTENDS ClaudeRunner

\* A result that reaches the limit of the context guard; a run that reports none
\* leaves the context below it.
AtLimit == {2}
=============================================================================
