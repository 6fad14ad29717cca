------------------------------- MODULE HtCheck -------------------------------
(* Grading inside the guest.  hashteamctl moves the student from one level or *)
(* lab to another and keeps the guest's own record of what is completed; the  *)
(* set-user-id checker htcheck runs the check script of the place it reads at *)
(* its start, adds to the record when the script passes, and only then reads  *)
(* the key and prints the signed result the page credits.  Everything runs in *)
(* the foreground of the one terminal, so commands never overlap, but Ctrl-C  *)
(* or the end of the machine may cut a command off between any two of its     *)
(* writes.  Levels and labs are both graded "places" here.                    *)
EXTENDS Integers, FiniteSets

CONSTANTS
    LastLevel,      \* the numbered levels are 1 .. LastLevel
    GuestLabs,      \* the labs under /opt/pwnhub/labs, numbered above the levels
    UnlockLevel,    \* [GuestLabs -> 0 .. LastLevel], unlock-level, 0 when absent
    UnlockLabs,     \* [GuestLabs -> SUBSET GuestLabs], unlock-labs
    Scripted        \* the places whose check.sh can pass without the debugger

ASSUME HtCheckAssumption ==
    /\ LastLevel \in Nat \ {0} /\ GuestLabs \subseteq Nat \ (0 .. LastLevel)
    /\ UnlockLevel \in [GuestLabs -> 0 .. LastLevel]
    /\ UnlockLabs \in [GuestLabs -> SUBSET GuestLabs]
    /\ Scripted \subseteq (1 .. LastLevel) \cup GuestLabs

Levels == 1 .. LastLevel
Places == Levels \cup GuestLabs
Absent == 0

VARIABLES
    stateDir,       \* ~/.hashteam exists
    levelFile,      \* the file level, or Absent
    labFile,        \* the file lab, or Absent
    maxCompleted,   \* the file max-completed, 0 when absent
    completedLabs,  \* the lines of completed-labs
    command,        \* what the terminal's foreground command is doing
    subject,        \* the place htcheck read when it started
    signed          \* the places htcheck has printed a signed result for

record == <<maxCompleted, completedLabs>>
placeVars == <<stateDir, levelFile, labFile>>
shellVars == <<placeVars, record, command, subject, signed>>

(* ht_current_lab, and where it prints nothing current_level, which is 1      *)
(* without a file.                                                            *)
CurrentPlace ==
    IF labFile # Absent THEN labFile
    ELSE IF levelFile # Absent THEN levelFile ELSE 1

Recorded(p) == IF p \in GuestLabs THEN p \in completedLabs ELSE p <= maxCompleted

LevelUnlocked(n) == n = 1 \/ n - 1 <= maxCompleted
LabUnlocked(l) == UnlockLevel[l] <= maxCompleted /\ UnlockLabs[l] \subseteq completedLabs

HtCheckInit ==
    /\ stateDir = FALSE /\ levelFile = Absent /\ labFile = Absent
    /\ maxCompleted = 0 /\ completedLabs = {}
    /\ command = "shell" /\ subject = Absent /\ signed = {}

(* hashteamctl goto N: the lab file goes first, then the level is written.    *)
EnterLevel(n) ==
    /\ command = "shell" /\ LevelUnlocked(n)
    /\ stateDir' = TRUE /\ labFile' = Absent
    /\ subject' = n /\ command' = "goto"
    /\ UNCHANGED <<levelFile, record, signed>>

WriteLevel ==
    /\ command = "goto"
    /\ levelFile' = subject /\ subject' = Absent /\ command' = "shell"
    /\ UNCHANGED <<stateDir, labFile, record, signed>>

(* hashteamctl goto-lab ID: the other way round.                              *)
EnterGuestLab(l) ==
    /\ command = "shell" /\ LabUnlocked(l)
    /\ stateDir' = TRUE /\ levelFile' = Absent
    /\ subject' = l /\ command' = "gotoLab"
    /\ UNCHANGED <<labFile, record, signed>>

WriteLab ==
    /\ command = "gotoLab"
    /\ labFile' = subject /\ subject' = Absent /\ command' = "shell"
    /\ UNCHANGED <<stateDir, levelFile, record, signed>>

(* hashteamctl mark-completed and mark-lab-completed, the page's replay of    *)
(* what it has stored.                                                        *)
Record(p) ==
    IF p \in GuestLabs
    THEN completedLabs' = completedLabs \cup {p} /\ UNCHANGED maxCompleted
    ELSE /\ maxCompleted' = IF p > maxCompleted THEN p ELSE maxCompleted
         /\ UNCHANGED completedLabs

Replay(p) ==
    /\ command = "shell" /\ p \in signed
    /\ stateDir' = TRUE /\ Record(p)
    /\ UNCHANGED <<levelFile, labFile, command, subject, signed>>

\* Variant: only the record is removed.
FactoryResetKeepsPlace ==
    /\ command = "shell"
    /\ maxCompleted' = 0 /\ completedLabs' = {}
    /\ subject' = 1 /\ command' = "goto"
    /\ UNCHANGED <<placeVars, signed>>

(* hashteamctl factory-reset: the whole directory goes, then level 1 is set.  *)
FactoryReset ==
    /\ command = "shell"
    /\ stateDir' = TRUE /\ levelFile' = Absent /\ labFile' = Absent
    /\ maxCompleted' = 0 /\ completedLabs' = {}
    /\ subject' = 1 /\ command' = "goto"
    /\ UNCHANGED signed

(* htcheck run: run_check reads the place once and starts its script.         *)
RunCheck ==
    /\ command = "shell"
    /\ subject' = CurrentPlace /\ command' = "script"
    /\ UNCHANGED <<placeVars, record, signed>>

\* Variant: the record is left to the page.
PassesLater ==
    /\ command = "script" /\ subject \in Scripted
    /\ command' = "recorded"
    /\ UNCHANGED <<placeVars, subject, record, signed>>

(* The script's verdict.  A pass is recorded with the caller's rights before  *)
(* the key is read, silently not when there is no directory for it.           *)
Passes ==
    /\ command = "script" /\ subject \in Scripted
    /\ IF stateDir THEN Record(subject) ELSE UNCHANGED record
    /\ command' = "recorded"
    /\ UNCHANGED <<placeVars, subject, signed>>

Fails ==
    /\ command = "script"
    /\ subject' = Absent /\ command' = "shell"
    /\ UNCHANGED <<placeVars, record, signed>>

(* The key is read and the result signed and printed; without a usable key an *)
(* error is printed instead, which Interrupt stands for as well.              *)
Sign ==
    /\ command = "recorded"
    /\ signed' = signed \cup {subject}
    /\ subject' = Absent /\ command' = "shell"
    /\ UNCHANGED <<placeVars, record>>

Interrupt ==
    /\ command \in {"goto", "gotoLab", "script", "recorded"}
    /\ subject' = Absent /\ command' = "shell"
    /\ UNCHANGED <<placeVars, record, signed>>

(* A new machine starts from an empty home.  The page keeps what was signed.  *)
Reboot ==
    /\ stateDir' = FALSE /\ levelFile' = Absent /\ labFile' = Absent
    /\ maxCompleted' = 0 /\ completedLabs' = {}
    /\ command' = "shell" /\ subject' = Absent
    /\ UNCHANGED signed

GuestCommand ==
    \/ \E n \in Levels : EnterLevel(n)
    \/ \E l \in GuestLabs : EnterGuestLab(l)
    \/ \E p \in Places : Replay(p)
    \/ WriteLevel \/ WriteLab \/ FactoryReset
    \/ RunCheck \/ Passes \/ Fails \/ Sign \/ Interrupt

-----------------------------------------------------------------------------
(* Where the student is can be trusted to be unlocked: whichever command was  *)
(* cut off, and wherever, the place the next check would grade is one whose   *)
(* prerequisites the guest has on record.                                     *)
CurrentIsUnlocked ==
    IF labFile # Absent THEN LabUnlocked(labFile) ELSE LevelUnlocked(CurrentPlace)

(* A result is signed only for a place the guest itself has on record, once   *)
(* the first goto has made room for one, so a level the page credits is never *)
(* one the guest then refuses to go on from.                                  *)
SignedIsRecorded == [][\A p \in signed' \ signed : stateDir => Recorded(p)]_shellVars
=============================================================================
