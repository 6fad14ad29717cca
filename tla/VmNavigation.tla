----------------------------- MODULE VmNavigation -----------------------------
(***************************************************************************)
(* Which lab the page shows and which lab the guest is in                  *)
(* (useVirtualMachine.ts, vm-controller.ts and the guest's hashteamctl).   *)
(* The page types commands into the guest's terminal, where the student    *)
(* works too; the guest answers with signed messages.  A program in the    *)
(* foreground may swallow lines, commands may be refused or answered late, *)
(* and another tab changes the completed labs.                             *)
(*                                                                         *)
(* One session of one machine.  Labs stand for levels as well: a level     *)
(* needs the one before it, and messages and commands match; what only     *)
(* levels do, being clamped when another tab starts over, may happen too.  *)
(***************************************************************************)
EXTENDS Naturals, Sequences, FiniteSets, SequencesExt

CONSTANTS
    Labs,
    Needs,         \* Needs[l]: labs that unlock l
    FirstLab,      \* the lab a fresh guest and a fresh page start with
    None,          \* no navigation awaits its answer
    StartsOver,    \* whether another tab may reset the progress
    MaxUserSteps,  \* bound: things the user and the other tab do
    MaxInput       \* bound: lines on their way to the guest

ASSUME NavigationAssumption ==
    /\ IsFiniteSet(Labs) /\ FirstLab \in Labs
    /\ Needs \in [Labs -> SUBSET Labs]
    /\ Needs[FirstLab] = {}
    /\ None \notin Labs
    /\ StartsOver \in BOOLEAN
    /\ MaxUserSteps \in Nat
    /\ MaxInput \in Nat

VARIABLES
    selected,   \* progress.state.currentLabId
    completed,  \* progress.state.completedLabIds
    unlocked,   \* temporarilyUnlockedLabIds
    pending,    \* target of pendingNavigation
    phase,      \* boot of the guest: "booting", "restoring" (bootRestorePending), "steady"
    input,      \* lines typed into the serial terminal and not read yet
    output,     \* signed messages not handled yet
    lab, done,  \* the guest's files: lab and completed-labs
    program,    \* what reads the terminal: the shell, or a program in the foreground
    told,       \* whether a notice was shown since the page and the guest were in step
    strayed,    \* page or guest moved where the other does not follow
    refused,    \* history: lab of the page that the guest refused to enter, or None
    steps

pageVars == <<selected, completed, unlocked, pending, phase>>
guestVars == <<lab, done, program>>
vars == <<pageVars, input, output, guestVars, told, strayed, refused, steps>>

\* ^C and quit end a plain program (cat, gdb) but not a stubborn one (python).
Programs == {"shell", "plain", "stubborn"}
Phases == {"booting", "restoring", "steady"}

Mark(l) == [command |-> "mark-lab-completed", target |-> l]
Goto(l) == [command |-> "goto-lab", target |-> l]
Leave == [command |-> "leave", target |-> FirstLab]
Reset == [command |-> "reset-level", target |-> FirstLab]
Commands ==
    [command : {"mark-lab-completed", "goto-lab", "leave", "reset-level"}, target : Labs]
Messages == [type : {"lab-ready", "lab-result", "checked ready"}, lab : Labs]

UserStep == steps < MaxUserSteps /\ steps' = steps + 1

-----------------------------------------------------------------------------
(* The page *)

MayEnter(l, temporary) == l \in temporary \/ Needs[l] \subseteq completed
CanNavigateToLab(l) == MayEnter(l, unlocked)

Type(lines) == input' = input \o lines

Marks(labs) == LET order == SetToSeq(labs) IN [i \in DOMAIN order |-> Mark(order[i])]
SyncTemporaryUnlock(l, temporary) == IF l \in temporary THEN Marks(Needs[l]) ELSE <<>>
SyncCompletion == Marks(completed)

\* prepareNavigationCommand, then the command itself.
RestoreLab(l) == <<Leave, Goto(l)>>

\* A message that names l is on its way already, and will pass for the answer.
OnItsWay(l) == \E m \in ToSet(output) : m.lab = l /\ m.type # "lab-result"

\* The lab the student clicks; while the machine boots, and until the shell
\* reads, it is committed at once and restored at the first prompt.
GotoLab(l, temporary) ==
    /\ MayEnter(l, temporary)
    /\ unlocked' = temporary
    /\ Len(input) <= MaxInput
    /\ IF phase = "steady"
       THEN /\ Type(SyncTemporaryUnlock(l, temporary) \o SyncCompletion \o RestoreLab(l))
            /\ pending' = l
            /\ strayed' = (strayed \/ OnItsWay(l))
            /\ UNCHANGED selected
       ELSE /\ selected' = l
            /\ Type(SyncTemporaryUnlock(l, temporary) \o RestoreLab(l))
            /\ UNCHANGED <<pending, strayed>>
    /\ UNCHANGED <<completed, phase, output, guestVars, told, refused>>

SelectLab(l) ==
    /\ UserStep
    /\ l # selected
    /\ GotoLab(l, unlocked)

DebugUnlockLab(l) ==
    /\ UserStep
    /\ IF l # selected THEN GotoLab(l, unlocked \cup {l})
       ELSE /\ unlocked' = unlocked \cup {l}
            /\ UNCHANGED <<selected, completed, pending, phase, input, output, guestVars,
                           told, strayed, refused>>

ResetCurrentLevel ==
    /\ UserStep
    /\ Len(input) <= MaxInput
    /\ Type(<<Leave, Reset>>)
    /\ UNCHANGED <<pageVars, output, guestVars, told, strayed, refused>>

\* The ready message; init starts the shell after it.
Ready ==
    /\ phase = "booting"
    /\ phase' = "restoring"
    /\ UNCHANGED <<selected, completed, unlocked, pending, input, output, guestVars,
                   told, strayed, refused, steps>>

\* The terminal being switched swallows what was typed before the first prompt, or
\* the first lines of it, or hands everything to the shell.
RunBootRestore ==
    /\ phase = "restoring"
    /\ phase' = "steady"
    /\ \E first \in 1..Len(input) + 1 :
         input' = SubSeq(input, first, Len(input))
                  \o SyncCompletion
                  \o SyncTemporaryUnlock(selected, unlocked)
                  \o RestoreLab(selected)
    /\ pending' = selected
    /\ UNCHANGED <<selected, completed, unlocked, output, guestVars, told, strayed,
                   refused, steps>>

\* Variant: the notice is forgotten.
QuietTimeout ==
    /\ pending # None
    /\ pending' = None
    /\ UNCHANGED <<selected, completed, unlocked, phase, input, output, guestVars,
                   told, strayed, refused, steps>>

NavigationTimesOut ==
    /\ pending # None
    /\ pending' = None
    /\ told' = TRUE
    /\ UNCHANGED <<selected, completed, unlocked, phase, input, output, guestVars,
                   strayed, refused, steps>>

NextMessage(type) == output # <<>> /\ Head(output).type = type

\* The guest is in l, has nothing left to read, and has said nothing since.
InStep(l) == l = lab /\ input = <<>> /\ Len(output) = 1

\* Verifying the signature is an await: the progress may change before it ends.
VerifyReady ==
    /\ NextMessage("lab-ready")
    /\ output' = <<[Head(output) EXCEPT !.type = "checked ready"]>> \o Tail(output)
    /\ UNCHANGED <<pageVars, input, guestVars, told, strayed, refused, steps>>

\* The page follows the guest to any lab it counts as unlocked.
HandleReady ==
    /\ NextMessage("checked ready")
    /\ LET l == Head(output).lab IN
         IF CanNavigateToLab(l)
         THEN /\ selected' = l
              /\ pending' = IF pending = l THEN None ELSE pending
              /\ told' = (told /\ ~ InStep(l))
              /\ strayed' = (strayed /\ ~ InStep(l))
         ELSE /\ strayed' = (strayed \/ pending # l)
              /\ UNCHANGED <<selected, pending, told>>
    /\ output' = Tail(output)
    /\ UNCHANGED <<completed, unlocked, phase, input, guestVars, refused, steps>>

\* A pass counts for the lab the page shows, unless guided steps are missing.
HandleResult ==
    /\ NextMessage("lab-result")
    /\ LET l == Head(output).lab IN
         IF l # selected THEN told' = TRUE /\ UNCHANGED completed
         ELSE UNCHANGED told /\ completed' \in {completed, completed \cup {l}}
    /\ output' = Tail(output)
    /\ UNCHANGED <<selected, unlocked, pending, phase, input, guestVars, strayed,
                   refused, steps>>

\* Another tab completed a lab.
OtherTabCompletes ==
    /\ UserStep
    /\ \E l \in Labs : Needs[l] \subseteq completed /\ completed' = completed \cup {l}
    /\ UNCHANGED <<selected, unlocked, pending, phase, input, output, guestVars, told,
                   strayed, refused>>

\* Another tab started over; a level past the first is clamped to it, a lab stays.
OtherTabStartsOver ==
    /\ UserStep
    /\ StartsOver
    /\ completed' = {}
    /\ selected' \in {selected, FirstLab}
    /\ strayed' = (strayed \/ selected' # selected)
    /\ UNCHANGED <<unlocked, pending, phase, input, output, guestVars, told, refused>>

-----------------------------------------------------------------------------
(* The guest *)

Answer(type, l) == output' = Append(output, [type |-> type, lab |-> l])

\* hashteamctl goto-lab; a failing init.sh leaves the lab switched and unsigned,
\* which the page misses only while its timer runs for that lab.
EnterLab(l) ==
    /\ lab' = l
    /\ \/ Answer("lab-ready", l) /\ UNCHANGED strayed
       \/ UNCHANGED output /\ strayed' = (strayed \/ pending # l \/ OnItsWay(l))

\* A refusal counts for the lab the page waits for, if it does not ask again.
Refuse(l) ==
    refused' = IF l = pending /\ Goto(l) \notin ToSet(Tail(input)) THEN l ELSE refused

ShellReads ==
    /\ phase = "steady"
    /\ program = "shell"
    /\ input # <<>>
    /\ input' = Tail(input)
    /\ LET line == Head(input) IN
         \/ /\ line.command = "mark-lab-completed"
            /\ done' = done \cup {line.target}
            /\ UNCHANGED <<lab, output, strayed, refused>>
         \/ /\ line.command = "goto-lab"
            /\ IF Needs[line.target] \subseteq done
               THEN EnterLab(line.target) /\ UNCHANGED refused
               ELSE Refuse(line.target) /\ UNCHANGED <<lab, output, strayed>>
            /\ UNCHANGED done
         \/ /\ line.command = "reset-level"
            /\ Answer("lab-ready", lab)
            /\ UNCHANGED <<done, lab, strayed, refused>>
         \/ line.command = "leave" /\ UNCHANGED <<done, lab, output, strayed, refused>>
    /\ UNCHANGED <<pageVars, program, told, steps>>

\* A program in the foreground reads the lines meant for the shell.
ProgramReads ==
    /\ phase = "steady"
    /\ program # "shell"
    /\ input # <<>>
    /\ input' = Tail(input)
    /\ program' = IF program = "plain" /\ Head(input).command = "leave" THEN "shell" ELSE program
    /\ UNCHANGED <<pageVars, output, lab, done, told, strayed, refused, steps>>

\* The student at the terminal: what is typed comes after the lines of the page.
Prompt == phase = "steady" /\ program = "shell" /\ input = <<>>

RunProgram ==
    /\ UserStep
    /\ Prompt
    /\ program' \in {"plain", "stubborn"}
    /\ UNCHANGED <<pageVars, input, output, lab, done, told, strayed, refused>>

ProgramEnds ==
    /\ program # "shell"
    /\ program' = "shell"
    /\ UNCHANGED <<pageVars, input, output, lab, done, told, strayed, refused, steps>>

TypeGoto(l) ==
    /\ UserStep
    /\ Prompt
    /\ Needs[l] \subseteq done
    /\ EnterLab(l)
    /\ UNCHANGED <<pageVars, input, done, program, told, refused>>

ResetLab ==
    /\ UserStep
    /\ Prompt
    /\ Answer("lab-ready", lab)
    /\ UNCHANGED <<pageVars, input, guestVars, told, strayed, refused>>

\* htcheck signs the pass and records it in the guest before the page knows.
Check ==
    /\ UserStep
    /\ Prompt
    /\ done' = done \cup {lab}
    /\ Answer("lab-result", lab)
    /\ UNCHANGED <<pageVars, input, lab, program, told, strayed, refused>>

-----------------------------------------------------------------------------
\* A page may start with any labs completed and any of their successors selected.
Init ==
    /\ completed \in {c \in SUBSET Labs : \A l \in c : Needs[l] \subseteq c}
    /\ selected \in {l \in Labs : Needs[l] \subseteq completed}
    /\ unlocked = {}
    /\ pending = None
    /\ phase = "booting"
    /\ input = <<>> /\ output = <<>>
    /\ lab = FirstLab /\ done = {} /\ program = "shell"
    /\ told = FALSE /\ strayed = FALSE /\ refused = None
    /\ steps = 0

Page == Ready \/ RunBootRestore \/ NavigationTimesOut \/ VerifyReady \/ HandleReady \/ HandleResult

Student ==
    \/ \E l \in Labs : SelectLab(l) \/ DebugUnlockLab(l) \/ TypeGoto(l)
    \/ ResetCurrentLevel \/ RunProgram \/ ResetLab \/ Check

Next ==
    \/ Page \/ Student
    \/ OtherTabCompletes \/ OtherTabStartsOver
    \/ ShellReads \/ ProgramReads \/ ProgramEnds

Spec == Init /\ [][Next]_vars

-----------------------------------------------------------------------------
TypeOK ==
    /\ selected \in Labs
    /\ completed \subseteq Labs /\ unlocked \subseteq Labs
    /\ pending \in Labs \cup {None}
    /\ phase \in Phases
    /\ input \in Seq(Commands)
    /\ output \in Seq(Messages)
    /\ lab \in Labs /\ done \subseteq Labs /\ program \in Programs
    /\ told \in BOOLEAN /\ strayed \in BOOLEAN
    /\ refused \in Labs \cup {None}
    /\ steps \in 0..MaxUserSteps

\* Once everything typed has been read and answered, the page shows the lab the
\* guest is in, unless the terminal has shown a notice since they last were in step,
\* another tab's reset moved the page, the guest was taken by hand where the page
\* does not follow, or an older message of the same lab confirmed the last change:
\* lost, refused, failed and overtaken commands, and signatures checked while the
\* progress changes, do not part them in silence.
NeverSilentlyApart ==
    phase = "steady" /\ input = <<>> /\ output = <<>> /\ pending = None =>
        selected = lab \/ told \/ strayed

\* Before it enters a lab the page replays the completed labs, so that the guest
\* does not refuse a lab that they unlock.
ReplayPreventsRefusal == refused # None => ~ Needs[refused] \subseteq completed
=============================================================================
