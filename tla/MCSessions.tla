----------------------------- MODULE MCSessions -----------------------------
(***************************************************************************)
(* Small instances of Sessions.  Calls are interchangeable, and so are tabs. *)
(***************************************************************************)
EXTENDS Sessions, TLC

Symmetry == Permutations(Calls) \union Permutations(Tabs)
=============================================================================
