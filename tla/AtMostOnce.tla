------------------------------ MODULE AtMostOnce ------------------------------
(***************************************************************************)
(* What anonymous counting promises: every event that is reported is        *)
(* counted once or not at all, never before it is reported, and what is     *)
(* counted stays counted.                                                   *)
(***************************************************************************)
CONSTANT Reports

VARIABLES
    reported,  \* the events reported so far
    tally      \* how often each has been counted

Init ==
    /\ reported = {}
    /\ tally = [e \in Reports |-> 0]

Report(e) ==
    /\ e \notin reported
    /\ reported' = reported \cup {e}
    /\ UNCHANGED tally

Count(some) ==
    /\ some \subseteq reported
    /\ \A e \in some : tally[e] = 0
    /\ tally' = [e \in Reports |-> IF e \in some THEN 1 ELSE tally[e]]
    /\ UNCHANGED reported

Next ==
    \/ \E e \in Reports : Report(e)
    \/ \E some \in SUBSET Reports : Count(some)

Spec == Init /\ [][Next]_<<reported, tally>>
===============================================================================
