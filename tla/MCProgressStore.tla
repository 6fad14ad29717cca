--------------------------- MODULE MCProgressStore ---------------------------
(***************************************************************************)
(* Model checking of ProgressStore: the tabs are interchangeable.          *)
(***************************************************************************)
EXTENDS ProgressStore, TLC

TabSymmetry == Permutations(Tabs)
=============================================================================
