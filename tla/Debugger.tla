------------------------------ MODULE Debugger ------------------------------
(* The guest's own ptrace debugger.  It runs one stopped child at a time,     *)
(* plants breakpoints by overwriting the first byte of an instruction, keeps  *)
(* the list of addresses the child stopped at, and after every command looks  *)
(* whether the lab's success condition holds.  When it does, the child is     *)
(* killed and htcheck grades the lab, for which it takes the one-time key the *)
(* debugger had made at the start of its session.                             *)
(*                                                                            *)
(* Of the child only the instruction pointer and whether each byte of its     *)
(* code is as linked are kept; its registers and data are in the user's hands *)
(* and may have any value when a condition looks.  A step of the child is the     *)
(* processor's, not the debugger's: an intact instruction goes to one of its  *)
(* successors, a planted byte traps behind itself, and anything else may do   *)
(* anything.                                                                  *)
EXTENDS HtCheck, Sequences

CONSTANTS
    Program,        \* [start of an instruction -> [length, next]], 0 is exit
    Entry,          \* where the child first stops
    Debugged,       \* the labs with a debugger.json
    Success,        \* the condition tree: a sequence, the root is the last
    MaxBreakpoints, \* slots of the breakpoint table
    MaxReached      \* entries of reached_addresses

Exit == 0
Starts == DOMAIN Program

ASSUME DebuggerAssumption ==
    /\ Starts \subseteq Nat \ {Exit} /\ Entry \in Starts
    /\ Program \in [Starts -> [length : Nat \ {0}, next : SUBSET (Starts \cup {Exit})]]
    /\ Debugged \subseteq GuestLabs
    /\ MaxBreakpoints \in Nat /\ MaxReached \in Nat \ {0}

Code == UNION {a .. a + Program[a].length - 1 : a \in Starts}

VARIABLES
    mode,           \* what the debugger is doing
    request,        \* the ptrace request resume_child was called with
    origin,         \* the breakpoint resume_child is stepping off, or Exit
    alive,          \* the child has not exited
    eip,            \* its instruction pointer
    code,           \* [Code -> "linked", "edited" or "trap"]
    breakpoints,    \* [address of an active breakpoint -> its original byte]
    reached,        \* reached_addresses
    reachedCount,   \* and how many entries it has
    key,            \* the key file of each lab: "none", "old" or "current"
    due,            \* ghost: where the processor took the child
    stops,          \* ghost: where this child has stopped
    left            \* ghost: breakpoints the stopped child was taken from

debugVars == <<mode, request, origin, alive, eip, code, breakpoints, reached,
               reachedCount, key, due, stops, left>>
childVars == <<alive, eip, code, reached, reachedCount, due, stops>>
tableVars == <<breakpoints, left>>

Planted(b) == b \in DOMAIN breakpoints

NoKeys == [l \in GuestLabs |-> "none"]

DebuggerInit ==
    /\ HtCheckInit
    /\ mode = "off" /\ request = "none" /\ origin = Exit
    /\ alive = FALSE /\ eip = Entry
    /\ code = [a \in Code |-> "linked"]
    /\ breakpoints = <<>> /\ reached = {} /\ reachedCount = 0
    /\ key = NoKeys
    /\ due = Entry /\ stops = {} /\ left = {}

(* A debugger that is gone takes all it knew with it.                         *)
Forget ==
    /\ mode' = "off" /\ request' = "none" /\ origin' = Exit
    /\ alive' = FALSE /\ eip' = Entry /\ due' = Entry
    /\ code' = [a \in Code |-> "linked"]
    /\ breakpoints' = <<>> /\ reached' = {} /\ reachedCount' = 0
    /\ stops' = {} /\ left' = {}

-----------------------------------------------------------------------------
(* condition_satisfied over the tree load_config built: every child of a node *)
(* comes before it.  What is asked of a child that is gone is not satisfied.  *)
Satisfied(data) ==
    LET Holds[i \in DOMAIN Success] == LET node == Success[i] IN
    CASE node.type = "all" -> \A c \in node.children : Holds[c]
      [] node.type = "any" -> \E c \in node.children : Holds[c]
      [] node.type = "not" -> \A c \in node.children : ~Holds[c]
      [] node.type = "reached-address" -> alive /\ node.value \in reached
      [] node.type = "data" -> alive /\ node.value = data
      [] node.type = "instruction-pointer" -> alive /\ eip = node.value
      [] node.type = "exit-code" -> ~alive
    IN Holds[Len(Success)]

\* Variant: a key that is there already is kept.
PrepareKeyOnce ==
    /\ mode = "off" /\ command = "shell" /\ labFile \in Debugged
    /\ key' = [key EXCEPT ![labFile] = IF @ = "none" THEN "current" ELSE @]
    /\ mode' = "starting" /\ command' = "debugger"
    /\ UNCHANGED <<placeVars, record, subject, signed, request, origin,
                   childVars, tableVars>>

(* prepare_dynamic_key: htcheck debugger-reset makes the key of the current   *)
(* lab anew; on an error it leaves none and the debugger gives up.            *)
PrepareKey ==
    /\ mode = "off" /\ command = "shell" /\ labFile \in Debugged
    /\ \/ /\ key' = [key EXCEPT ![labFile] = "current"]
          /\ mode' = "starting" /\ command' = "debugger"
       \/ /\ key' = [key EXCEPT ![labFile] = "none"]
          /\ UNCHANGED <<mode, command>>
    /\ UNCHANGED <<placeVars, record, subject, signed, request, origin,
                   childVars, tableVars>>

(* start_child: everything known of an earlier child is forgotten and the new *)
(* one stops at its entry; exec may fail, which ends the child at once.       *)
Fork(forgotten) ==
    /\ eip' = Entry /\ due' = Entry
    /\ code' = [a \in Code |-> "linked"]
    /\ breakpoints' = <<>> /\ left' = {}
    /\ alive' \in BOOLEAN
    /\ stops' = IF alive' THEN {Entry} ELSE {}
    /\ reached' = stops' \cup (reached \ forgotten)
    /\ reachedCount' = Cardinality(reached')
StartChild ==
    /\ mode = "starting"
    /\ Fork(reached)
    /\ mode' = IF alive' THEN "command" ELSE "quit"
    /\ UNCHANGED <<shellVars, request, origin, key>>

\* Variant: the addresses the killed child reached are kept.
RestartRemembers ==
    /\ mode = "prompt"
    /\ Fork({})
    /\ mode' = "command"
    /\ UNCHANGED <<shellVars, request, origin, key>>

(* restart; the child that still runs is killed first.                        *)
Restart ==
    /\ mode = "prompt"
    /\ Fork(reached)
    /\ mode' = "command"
    /\ UNCHANGED <<shellVars, request, origin, key>>

-----------------------------------------------------------------------------
(* The processor: <<address, signal>> the child may be at after one step.     *)
Intact(a) ==
    a \in Starts /\ \A b \in a .. a + Program[a].length - 1 : code[b] = "linked"
Outcomes(a) ==
    IF a \in Code /\ code[a] = "trap" THEN {<<a + 1, "trap">>}
    ELSE IF Intact(a) THEN {<<n, "trap">> : n \in Program[a].next}
    ELSE ({a} \X {"fault"}) \cup {<<n, "trap">> : n \in Starts}

\* Variant: the child is not set back onto the breakpoint.
NeverRewinds(at, signal) == FALSE

(* wait_for_child: a trap just behind an active breakpoint is taken for a hit *)
(* of it: the byte goes back and the child is set onto the instruction.  The  *)
(* stop is recorded as long as there is room.  A breakpoint that was stepped  *)
(* off is planted again.                                                      *)
Rewinds(at, signal) == signal = "trap" /\ Planted(at - 1)

Written(at, signal) ==
    LET restored == IF Rewinds(at, signal)
                    THEN [code EXCEPT ![at - 1] = breakpoints[at - 1]] ELSE code
    IN IF origin = Exit THEN restored ELSE [restored EXCEPT ![origin] = "trap"]

Room == reachedCount < MaxReached

Stop(at, signal) ==
    /\ alive' = TRUE
    /\ eip' = IF Rewinds(at, signal) THEN at - 1 ELSE at
    /\ due' = IF eip \in Code /\ code[eip] = "trap" THEN eip ELSE at
    /\ code' = Written(at, signal)
    /\ reached' = IF Room THEN reached \cup {eip'} ELSE reached
    /\ reachedCount' = IF Room THEN reachedCount + 1 ELSE reachedCount
    /\ stops' = stops \cup {eip'}

Gone ==
    /\ alive' = FALSE
    /\ eip' = Entry /\ due' = Entry /\ code' = [a \in Code |-> "linked"]
    /\ UNCHANGED <<reached, reachedCount, stops>>

(* One instruction of a child that is being single-stepped.  Off a breakpoint *)
(* and under continue the child is then let go, otherwise the command ends or *)
(* goes on with the next of its n steps.                                      *)
SingleStep ==
    /\ mode = "step"
    /\ \E o \in Outcomes(eip) :
        /\ IF o[1] = Exit THEN Gone ELSE Stop(o[1], o[2])
        /\ mode' \in IF request = "continue" THEN {"run"}
                     ELSE IF alive' THEN {"resume", "command"} ELSE {"command"}
    /\ left' = IF mode' = "run" /\ alive' THEN left \cup ({eip'} \cap DOMAIN breakpoints) ELSE left
    /\ origin' = Exit
    /\ UNCHANGED <<shellVars, request, key, breakpoints>>

(* One instruction of a child that runs: only a trap or a fault stops it.     *)
RunStep ==
    /\ mode = "run" /\ alive
    /\ \E o \in Outcomes(eip) :
        IF o[1] = Exit THEN Gone /\ mode' = "command"
        ELSE IF o[2] = "fault" \/ (eip \in Code /\ code[eip] = "trap")
        THEN Stop(o[1], o[2]) /\ mode' = "command"
        ELSE /\ eip' = o[1] /\ due' = o[1]
             /\ UNCHANGED <<alive, code, reached, reachedCount, stops, mode>>
    /\ UNCHANGED <<shellVars, request, origin, key, tableVars>>

(* The child went away under the step off the breakpoint: ptrace fails.       *)
RunGone ==
    /\ mode = "run" /\ ~alive
    /\ mode' = "command"
    /\ UNCHANGED <<shellVars, request, origin, key, childVars, tableVars>>

(* resume_child: on an active breakpoint the byte is put back for one step.   *)
Resume ==
    /\ mode = "resume"
    /\ \/ /\ ~alive /\ mode' = "command"
          /\ UNCHANGED <<origin, code, left>>
       \/ /\ alive /\ Planted(eip)
          /\ code' = [code EXCEPT ![eip] = breakpoints[eip]]
          /\ origin' = eip /\ left' = left \ {eip} /\ mode' = "step"
       \/ /\ alive /\ ~Planted(eip)
          /\ mode' = IF request = "step" THEN "step" ELSE "run"
          /\ UNCHANGED <<origin, code, left>>
    /\ UNCHANGED <<shellVars, request, key, alive, eip, reached, reachedCount, due,
                   stops, breakpoints>>

-----------------------------------------------------------------------------
(* The commands of command_loop that change anything.                         *)
Step(r) ==
    /\ mode = "prompt"
    /\ request' = r /\ mode' = "resume"
    /\ UNCHANGED <<shellVars, origin, key, childVars, tableVars>>

(* break, and until, which goes on with continue.  install_breakpoint returns *)
(* the breakpoint that is there already.                                      *)
Install(a) ==
    IF Planted(a) THEN UNCHANGED <<breakpoints, code>>
    ELSE /\ Cardinality(DOMAIN breakpoints) < MaxBreakpoints
         /\ breakpoints' = [b \in DOMAIN breakpoints \cup {a} |->
                               IF b = a THEN code[a] ELSE breakpoints[b]]
         /\ code' = [code EXCEPT ![a] = "trap"]
Break(a) ==
    /\ mode = "prompt" /\ alive
    /\ Install(a)
    /\ \/ mode' = "command" /\ UNCHANGED request
       \/ mode' = "resume" /\ request' = "continue"
    /\ UNCHANGED <<shellVars, origin, key, alive, eip, reached, reachedCount, due,
                   stops, left>>

\* Variant: the byte is not put back.
DeleteFromTable(a) ==
    /\ mode = "prompt" /\ Planted(a)
    /\ breakpoints' = [b \in DOMAIN breakpoints \ {a} |-> breakpoints[b]]
    /\ left' = left \ {a} /\ mode' = "command"
    /\ UNCHANGED <<shellVars, request, origin, key, childVars>>

(* delete: the original byte goes back unless there is no child any more.     *)
Delete(a) ==
    /\ mode = "prompt" /\ Planted(a)
    /\ code' = IF alive THEN [code EXCEPT ![a] = breakpoints[a]] ELSE code
    /\ breakpoints' = [b \in DOMAIN breakpoints \ {a} |-> breakpoints[b]]
    /\ left' = left \ {a} /\ mode' = "command"
    /\ UNCHANGED <<shellVars, request, origin, key, alive, eip, reached,
                   reachedCount, due, stops>>

(* setmem, one byte; the user may write anything but a trap.                  *)
SetMemory(a) ==
    /\ mode = "prompt" /\ alive
    /\ code' = [code EXCEPT ![a] = "edited"]
    /\ left' = left \cup ({a} \cap DOMAIN breakpoints) /\ mode' = "command"
    /\ UNCHANGED <<shellVars, request, origin, key, alive, eip, reached,
                   reachedCount, due, stops, breakpoints>>

\* Variant: where the user jumps to counts as reached.
JumpReaches(a) ==
    /\ mode = "prompt" /\ alive
    /\ eip' = a /\ due' = a /\ mode' = "command"
    /\ left' = left \cup {b \in DOMAIN breakpoints : b = eip /\ code[b] # "trap"}
    /\ reached' = reached \cup {a}
    /\ UNCHANGED <<shellVars, request, origin, key, alive, code, reachedCount,
                   stops, breakpoints>>

(* jump and setreg eip.  The child is not run, so nothing is reached by it.   *)
Jump(a) ==
    /\ mode = "prompt" /\ alive
    /\ eip' = a /\ due' = a /\ mode' = "command"
    /\ left' = left \cup {b \in DOMAIN breakpoints : b = eip /\ code[b] # "trap"}
    /\ UNCHANGED <<shellVars, request, origin, key, alive, code, reached,
                   reachedCount, stops, breakpoints>>

(* check_success, after every command.  complete_lab kills the child.         *)
CheckSuccess ==
    /\ mode = "command"
    /\ \E data \in BOOLEAN : mode' = IF Satisfied(data) THEN "complete" ELSE "prompt"
    /\ UNCHANGED <<shellVars, request, origin, key, childVars, tableVars>>

(* htcheck debugger-complete: the key of the current lab is taken off the     *)
(* disk before the lab's debugger-check.sh is run with it, which passes.      *)
TakeKey ==
    /\ mode = "complete"
    /\ \/ /\ key[labFile] # "none"
          /\ key' = [key EXCEPT ![labFile] = "none"]
          /\ subject' = labFile /\ command' = "recorded" /\ Record(labFile)
       \/ /\ key[labFile] = "none" /\ command' = "shell"
          /\ UNCHANGED <<key, subject, record>>
    /\ Forget
    /\ UNCHANGED <<placeVars, signed>>

(* quit, a failed start, or Ctrl-C at any moment: PTRACE_O_EXITKILL ends the  *)
(* child with its debugger, and the key stays behind.                         *)
LeaveDebugger ==
    /\ mode # "off"
    /\ command' = "shell" /\ Forget
    /\ key' = [l \in GuestLabs |-> IF key[l] = "none" THEN "none" ELSE "old"]
    /\ UNCHANGED <<placeVars, record, subject, signed>>

(* The key files are in /tmp, which is gone with the machine.                 *)
Restarted == Reboot /\ Forget /\ key' = NoKeys

DebuggerStep ==
    \/ PrepareKey \/ StartChild \/ Restart \/ SingleStep \/ RunStep \/ RunGone \/ Resume
    \/ \E r \in {"step", "continue"} : Step(r)
    \/ \E a \in Code : Break(a) \/ Delete(a) \/ SetMemory(a)
    \/ \E a \in Starts : Jump(a)
    \/ CheckSuccess \/ TakeKey \/ LeaveDebugger

DebuggerNext ==
    \/ DebuggerStep \/ Restarted
    \/ mode = "off" /\ GuestCommand /\ UNCHANGED debugVars

GuestSpec == DebuggerInit /\ [][DebuggerNext]_<<shellVars, debugVars>>

-----------------------------------------------------------------------------
(* The debugger leaves no trap of its own in the program: whatever was set,   *)
(* hit, stepped off, deleted or written over, a byte that traps belongs to a  *)
(* breakpoint the user can still see and delete.  And it loses none: a        *)
(* breakpoint in the table is planted in the program, unless the child stands *)
(* on it, the user has overwritten it or moved the child off it by hand, or   *)
(* the step off another breakpoint was read as a hit of this one and went on. *)
TrapsAreBreakpoints ==
    alive => /\ \A a \in Code : code[a] = "trap" => Planted(a)
             /\ \A a \in DOMAIN breakpoints : code[a] = "trap" \/ a = eip \/ a \in left

(* Stops are reported where the processor is, or on the breakpoint just hit,  *)
(* except where an instruction of one byte under a breakpoint, or a jump to   *)
(* the byte behind one, makes a step look like another hit.                   *)
StopsWhereDue ==
    [][(mode \in {"step", "run"} /\ alive') =>
          (eip' = due' \/ (Planted(eip') /\ due' = eip' + 1))]_debugVars

(* A lab counts as solved by its debugger only for what this very child did:  *)
(* nothing a killed child reached, and no place the user merely jumped to,    *)
(* satisfies the condition, even in the list's bounded form.                  *)
OnlyReachedCounts == reached \subseteq stops

(* The key a completion is graded with was made for the session that is       *)
(* completing, never left over from one the user quit.                        *)
KeyIsOfThisSession == mode \in {"starting", "prompt", "complete"} => key[labFile] = "current"

(* What the step command promises: the child stands where its instruction     *)
(* took it.                                                                   *)
StepAdvances == [][(mode = "step" /\ alive') => (eip' = due')]_debugVars
=============================================================================
