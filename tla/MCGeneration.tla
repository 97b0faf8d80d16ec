---------------------------- MODULE MCGeneration ----------------------------
(***************************************************************************)
(* Tabs behind one address, with a small limit and a small budget.         *)
(***************************************************************************)
EXTENDS Generation, TLC

MCCosts == {1, 2}
Symmetric == Permutations(Tabs) \cup Permutations(Requests)
=============================================================================
