----------------------------- MODULE MCVmNavigation -----------------------------
(* Instances of VmNavigation for TLC. *)
EXTENDS VmNavigation

\* Three labs in a row: the second needs the first, the third the second.
Course == 1..3
ChainNeeds == [l \in Course |-> IF l = 1 THEN {} ELSE {l - 1}]
NoLab == 0
=============================================================================
