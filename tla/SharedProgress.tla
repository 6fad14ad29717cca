---------------------------- MODULE SharedProgress ----------------------------
(***************************************************************************)
(* What the progress of a learner with several tabs promises: one record,  *)
(* edited one operation at a time, as if there were no copies.  Every edit *)
(* is of one unit and works on what the record holds at that moment.  The  *)
(* promise ends with the first write that left something unreadable.       *)
(***************************************************************************)
EXTENDS Integers

CONSTANTS Units, Results, Steps, MaxHints, GuideLength, None

VARIABLES
    progress,  \* what is recorded of each unit
    damaged    \* something unreadable was stored

UnitProgress ==
    [result : Results \cup {None},
     hints  : 0..MaxHints,
     guide  : Nat,
     steps  : SUBSET Steps,
     path   : {"challenge", "mixed"}]   \* mixed once help was received

Untouched == [result |-> None, hints |-> 0, guide |-> 0, steps |-> {}, path |-> "challenge"]

Init ==
    /\ progress \in [Units -> UnitProgress]
    /\ damaged = FALSE

\* One operation on a unit: its first result, a hint, a guide entry, a learning
\* step, help received, or a new attempt that keeps the result.
Becomes(old, new) ==
    \/ old.result = None /\ \E r \in Results : new = [old EXCEPT !.result = r]
    \/ old.hints < MaxHints /\ new = [old EXCEPT !.hints = @ + 1]
    \/ old.guide + 1 < GuideLength /\ new = [old EXCEPT !.guide = @ + 1]
    \/ \E step \in Steps : new = [old EXCEPT !.steps = @ \cup {step}]
    \/ new = [old EXCEPT !.path = "mixed"]
    \/ new = [Untouched EXCEPT !.result = old.result]

Work(u) ==
    /\ Becomes(progress[u], progress'[u])
    /\ progress' = [progress EXCEPT ![u] = progress'[u]]

StartOver == progress' = [u \in Units |-> Untouched]

\* An edit, or a write that moves the selection only; either may do the damage.
Edit ==
    /\ ~damaged
    /\ (\E u \in Units : Work(u)) \/ StartOver \/ UNCHANGED progress
    /\ damaged' \in BOOLEAN

Rewrite ==
    /\ damaged /\ damaged'
    /\ progress' \in [Units -> UnitProgress]

Next == Edit \/ Rewrite

Spec == Init /\ [][Next]_<<progress, damaged>>
===============================================================================
