------------------------------ MODULE MCTunnels ------------------------------
(***************************************************************************)
(* Small instances of Tunnels for TLC.                                     *)
(***************************************************************************)
EXTENDS Tunnels

CONSTANTS web, a, b

Serve == [mode |-> "serve", project |-> web, path |-> a]
FunnelA == [mode |-> "funnel", project |-> web, path |-> a]
FunnelB == [mode |-> "funnel", project |-> web, path |-> b]

\* A funnel tunnel, and a second one of the same project on its path or on another.
TwoCalls == <<{FunnelA}, {Serve, FunnelA, FunnelB}>>
=============================================================================
