----------------------------- MODULE MCSessions -----------------------------
(***************************************************************************)
(* Small instances of Sessions for TLC.                                    *)
(***************************************************************************)
EXTENDS Sessions, TLC

\* Projects are interchangeable, and so are phones.
NameSymmetry == Permutations(Projects) \cup Permutations(Phones)
=============================================================================
