------------------------------- MODULE MCGuest -------------------------------
(* The guest and its serial line, for TLC: navigation between labs, grading    *)
(* and the debugger in the guest, and the parser of what it prints.  They      *)
(* share no state here; a scene is chosen at first and only that part moves.   *)
EXTENDS VmNavigation, Debugger, SerialParser, TLC

\* Three labs in a row: the second needs the first, the third the second.
Course == 1..3
ChainNeeds == [l \in Course |-> IF l = 1 THEN {} ELSE {l - 1}]
NoLab == 0

\* A lab behind level 1, one with a debugger, and one behind the first.
NeededLevel == [l \in GuestLabs |-> IF l = 11 THEN 1 ELSE 0]
NeededLabs == [l \in GuestLabs |-> IF l = 13 THEN {11} ELSE {}]

\* An instruction of one byte and, behind it, the checkpoint of two, which may
\* loop or end the child.
Loop == (1 :> [length |-> 1, next |-> {2}]) @@ (2 :> [length |-> 2, next |-> {0, 1}])
Checkpoint == << [type |-> "reached-address", value |-> 2],
                 [type |-> "data", value |-> TRUE],
                 [type |-> "all", children |-> {1, 2}] >>

\* Up to two pieces: output with or without its newline, a lone at-sign, and
\* control lines that are valid, invalid or behind unfinished output.
Pieces == { <<"text">>, <<"text", Newline>>, <<"@@", Newline>>,
            Marker \o <<Message, Newline>>, Marker \o <<Telemetry, Newline>>,
            Marker \o <<"text", Newline>>, <<"text">> \o Marker \o <<Telemetry, Newline>> }
Sent == UNION {{FlattenSeq(p) : p \in [1 .. n -> Pieces]} : n \in 1 .. 2}

VARIABLE scene
guestSystem == <<vars, shellVars, debugVars, serialVars, scene>>

\* The student works at the shell, or on the debugger's lab alone, so that the
\* records of one do not multiply the children of the other.
AtShell == GuestCommand /\ UNCHANGED debugVars
InDebugger ==
    \/ DebuggerStep
    \/ mode = "off" /\ UNCHANGED debugVars
       /\ (EnterGuestLab(12) \/ WriteLab \/ Sign \/ Interrupt)

MCInit ==
    /\ Init /\ DebuggerInit /\ SerialInit
    /\ scene \in {"navigation", "shell", "debugger", "serial"}
    /\ scene # "serial" => stream = <<"text">>
MCNext ==
    /\ \/ scene = "navigation" /\ Next /\ UNCHANGED <<shellVars, debugVars, serialVars>>
       \/ scene = "serial" /\ SerialNext /\ UNCHANGED <<vars, shellVars, debugVars>>
       \/ /\ \/ scene = "shell" /\ AtShell
             \/ scene = "debugger" /\ InDebugger
             \/ scene \in {"shell", "debugger"} /\ Restarted
          /\ UNCHANGED <<vars, serialVars>>
    /\ UNCHANGED scene
MCSpec == MCInit /\ [][MCNext]_guestSystem
=============================================================================
