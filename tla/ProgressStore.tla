---------------------------- MODULE ProgressStore ----------------------------
(***************************************************************************)
(* The learner's progress as several browser tabs share it.  Each tab of   *)
(* the application keeps a reactive copy of the progress record (the       *)
(* module-level singleton of useLabProgress.ts) and every operation of     *)
(* progress-store.ts is a synchronous read-merge-write of one localStorage *)
(* item.  Other tabs learn of a write through a queued "storage" event     *)
(* that is delivered later, if the tab's event loop ever runs.             *)
(*                                                                         *)
(* A numeric level and the stable lab id legacyLabId(level) that mirrors   *)
(* it are one unit here: the code writes the level's field and its lab's   *)
(* field together.  Stable labs of the other module are the units of Labs. *)
(* chapterProgress only regroups completedLabIds by chapter and is left    *)
(* out, as are the keys of older schema versions.                          *)
(***************************************************************************)
EXTENDS Integers, FiniteSets

CONSTANTS
    Tabs,         \* browser tabs of the application
    TotalLevels,  \* number of numeric levels
    Labs,         \* stable lab ids without a legacy level
    Steps,        \* learning steps of a unit
    MaxHints,     \* cap on the hints counted for a unit (3 in the code)
    GuideLength,  \* guide entries a unit offers
    Clock,        \* values Date.now() may return; it need not be monotone
    MaxUpdates,   \* bound: no write once a timestamp has reached it
    None          \* the null of JavaScript: no stored item, no record, no tab

Levels == 1..TotalLevels
Units == Levels \cup Labs
Modes == {"guided", "challenge"}
Record == [path : {"guided", "mixed", "challenge"}, hintsUsed : 0..MaxHints]

Snapshot ==
    [currentLevel      : Levels,
     currentLabId      : Units,
     completed         : SUBSET Units,
     hintsUsed         : [Units -> 0..MaxHints],
     guideSteps        : [Units -> Nat],
     completedSteps    : [Units -> SUBSET Steps],
     guidedAssistance  : SUBSET Units,
     completionRecords : [Units -> Record \cup {None}],
     startedAt         : Nat,
     updatedAt         : Nat]

ASSUME ConstantsAssumption ==
    /\ TotalLevels \in Nat \ {0}
    /\ MaxHints \in Nat
    /\ GuideLength \in Nat
    /\ Clock \subseteq Nat
    /\ MaxUpdates \in Nat
    /\ Labs \cap Levels = {}
    /\ None \notin Record
    /\ None \notin Snapshot

VARIABLES
    disk,       \* the localStorage item: None or the snapshot last written
    mem,        \* mem[t]: the reactive copy of tab t, None while it is closed
    unseen,     \* tabs whose event loop still holds a storage event
    corrupted   \* history: some write stored a snapshot that does not validate

vars == <<disk, mem, unseen, corrupted>>

Open == {t \in Tabs : mem[t] # None}

Smaller(a, b) == IF a <= b THEN a ELSE b
Larger(a, b) == IF a >= b THEN a ELSE b

-----------------------------------------------------------------------------
(* Snapshots: the default one, validation, merging. *)

DefaultProgress(now) ==
    [currentLevel      |-> 1,
     currentLabId      |-> 1,
     completed         |-> {},
     hintsUsed         |-> [u \in Units |-> 0],
     guideSteps        |-> [u \in Units |-> 0],
     completedSteps    |-> [u \in Units |-> {}],
     guidedAssistance  |-> {},
     completionRecords |-> [u \in Units |-> None],
     startedAt         |-> now,
     updatedAt         |-> now]

CompletedLevels(s) == s.completed \cap Levels

\* Completed levels form a prefix, the selection is at most one past it, and
\* records exist for completed units only.
IsValid(s) ==
    /\ \E n \in 0..TotalLevels :
         /\ CompletedLevels(s) = 1..n
         /\ s.currentLevel <= Smaller(n + 1, TotalLevels)
    /\ \A u \in Units : s.completionRecords[u] # None => u \in s.completed

\* What readCurrentProgress finds: None when the item is missing or invalid.
Readable == disk # None /\ IsValid(disk)

ClampSelection(s) ==
    LET maxLevel == Smaller(Cardinality(CompletedLevels(s)) + 1, TotalLevels)
    IN  IF s.currentLevel <= maxLevel
        THEN s
        ELSE [s EXCEPT !.currentLevel = maxLevel,
                       !.currentLabId = IF @ = s.currentLevel THEN maxLevel ELSE @]

\* Adopt the data of source, keep the selection of target.
ApplySynced(target, source) ==
    ClampSelection([source EXCEPT !.currentLevel = target.currentLevel,
                                  !.currentLabId = target.currentLabId])

\* Variant: only the stored records survive a merge.
KeepStoredRecords(local, stored) == stored.completionRecords

\* A record that was stored first wins.
MergeRecords(local, stored) ==
    [u \in Units |-> IF stored.completionRecords[u] # None
                     THEN stored.completionRecords[u]
                     ELSE local.completionRecords[u]]

\* The union of two snapshots with the selection of chosen; the attempt fields
\* of the units in reset are cleared.
Merge(local, stored, chosen, reset) ==
    [currentLevel      |-> chosen.currentLevel,
     currentLabId      |-> chosen.currentLabId,
     completed         |-> stored.completed \cup local.completed,
     hintsUsed         |-> [u \in Units |-> IF u \in reset THEN 0
                              ELSE Larger(local.hintsUsed[u], stored.hintsUsed[u])],
     guideSteps        |-> [u \in Units |-> IF u \in reset THEN 0
                              ELSE Larger(local.guideSteps[u], stored.guideSteps[u])],
     completedSteps    |-> [u \in Units |-> IF u \in reset THEN {}
                              ELSE stored.completedSteps[u] \cup local.completedSteps[u]],
     guidedAssistance  |-> (stored.guidedAssistance \cup local.guidedAssistance) \ reset,
     completionRecords |-> MergeRecords(local, stored),
     startedAt         |-> Smaller(local.startedAt, stored.startedAt),
     updatedAt         |-> Larger(local.updatedAt, stored.updatedAt)]

\* Variant: an older copy is never recognised and always merged.
NeverNewer(stored, local) == FALSE

IsNewer(stored, local) ==
    stored.startedAt > local.startedAt \/ stored.updatedAt > local.updatedAt

\* The copy an operation edits: a newer stored snapshot wins as a whole, an
\* equally old one is merged, an unreadable one is ignored.
Synced(local) ==
    IF ~Readable
    THEN local
    ELSE IF IsNewer(disk, local)
    THEN ApplySynced(local, disk)
    ELSE ApplySynced(local, Merge(local, disk, disk, {}))

\* Variant: two writes within a millisecond share their update time.
UpdateTimeNotBumped(now, next, seen) == Larger(now, Larger(next, seen))

UpdateTime(now, next, seen) == Larger(now, Larger(next, seen) + 1)

\* The snapshot persistProgress writes for the edited copy p.
ToStore(p, keepLocalSelection, reset, now) ==
    LET next == IF ~Readable
                THEN p
                ELSE IF disk.startedAt > p.startedAt
                THEN disk
                ELSE Merge(p, disk, IF keepLocalSelection THEN p ELSE disk, reset)
        seen == IF Readable THEN disk.updatedAt ELSE 0
    IN  [next EXCEPT !.updatedAt = UpdateTime(now, @, seen)]

-----------------------------------------------------------------------------
(* Effects shared by the operations. *)

\* Bound on the number of writes.
MayWrite(t) ==
    /\ t \in Open
    /\ mem[t].updatedAt < MaxUpdates
    /\ disk # None => disk.updatedAt < MaxUpdates

\* The item changes: every other open tab gets a storage event.
Store(t, next) ==
    /\ disk' = next
    /\ unseen' = unseen \cup (Open \ {t})
    /\ corrupted' = (corrupted \/ ~IsValid(next))

Persist(t, p, keepLocalSelection, reset) ==
    \E now \in Clock :
        LET next == ToStore(p, keepLocalSelection, reset, now)
        IN  /\ Store(t, next)
            /\ mem' = [mem EXCEPT ![t] = ApplySynced(p, next)]

\* An operation that synchronised and then returned early.
OnlySync(t, p) ==
    /\ mem' = [mem EXCEPT ![t] = p]
    /\ UNCHANGED <<disk, unseen, corrupted>>

\* The unit the learner works on: the current level in SecLab, the current
\* stable lab in PwnHub.
CurrentUnits(t) == {mem[t].currentLevel} \cup ({mem[t].currentLabId} \cap Labs)

CanNavigateToLevel(t, l) == l = 1 \/ l - 1 \in mem[t].completed

CompletionPath(mode, assisted) ==
    IF mode = "guided" THEN "guided" ELSE IF assisted THEN "mixed" ELSE "challenge"

-----------------------------------------------------------------------------
(* Operations of a tab. *)

\* Page load: adopt the stored progress, or replace an unreadable one.
LoadProgress(t) ==
    /\ t \in Tabs \ Open
    /\ \/ /\ Readable
          /\ mem' = [mem EXCEPT ![t] = disk]
          /\ UNCHANGED <<disk, unseen, corrupted>>
       \/ /\ ~Readable
          /\ \E now \in Clock :
                /\ mem' = [mem EXCEPT ![t] = DefaultProgress(now)]
                /\ Store(t, DefaultProgress(now))

CloseTab(t) ==
    /\ t \in Open
    /\ mem' = [mem EXCEPT ![t] = None]
    /\ unseen' = unseen \ {t}
    /\ UNCHANGED <<disk, corrupted>>

\* Variant: the handler takes only what was updated later than its own copy.
SyncIfUpdatedLater(t) ==
    /\ t \in Open \cap unseen
    /\ unseen' = unseen \ {t}
    /\ mem' = IF Readable /\ disk.updatedAt > mem[t].updatedAt
              THEN [mem EXCEPT ![t] = ApplySynced(mem[t], disk)] ELSE mem
    /\ UNCHANGED <<disk, corrupted>>

\* A queued storage event is delivered; the handler reads the item as it is now.
SyncExternalProgress(t) ==
    /\ t \in Open \cap unseen
    /\ unseen' = unseen \ {t}
    /\ mem' = IF Readable THEN [mem EXCEPT ![t] = ApplySynced(mem[t], disk)] ELSE mem
    /\ UNCHANGED <<disk, corrupted>>

\* A verified result for the unit on screen.  The path and the hint count of the
\* record are read from the tab's copy before the operation synchronises it.
Complete(t, u, mode) ==
    /\ MayWrite(t)
    /\ u \in CurrentUnits(t)
    /\ mode = "guided" => mem[t].completedSteps[u] = Steps
    /\ LET p == Synced(mem[t])
           record == [path |-> CompletionPath(mode, u \in mem[t].guidedAssistance),
                      hintsUsed |-> mem[t].hintsUsed[u]]
       IN  IF u \in p.completed
           THEN OnlySync(t, p)
           ELSE Persist(t, [p EXCEPT !.completed = @ \cup {u},
                                     !.completionRecords[u] = record], FALSE, {})

\* Variant: the cap on hints is forgotten.
UncappedHint(n) == n + 1

OneMoreHint(n) == Smaller(n + 1, MaxHints)

RecordHint(t, u) ==
    /\ MayWrite(t)
    /\ u \in CurrentUnits(t)
    /\ LET p == Synced(mem[t])
       IN  Persist(t, [p EXCEPT !.hintsUsed[u] = OneMoreHint(@)], FALSE, {})

AdvanceGuideStep(t, u) ==
    /\ MayWrite(t)
    /\ u \in CurrentUnits(t)
    /\ GuideLength > 0
    /\ LET p == Synced(mem[t])
           current == Smaller(p.guideSteps[u], GuideLength - 1)
       IN  Persist(t, [p EXCEPT !.guideSteps[u] = Smaller(current + 1, GuideLength - 1)],
                   FALSE, {})

CompleteLearningStep(t, u, step) ==
    /\ MayWrite(t)
    /\ u \in CurrentUnits(t)
    /\ LET p == Synced(mem[t])
       IN  Persist(t, [p EXCEPT !.completedSteps[u] = @ \cup {step}], FALSE, {})

MarkGuidedAssistance(t, u) ==
    /\ MayWrite(t)
    /\ u \in CurrentUnits(t)
    /\ LET p == Synced(mem[t])
       IN  IF u \in p.guidedAssistance
           THEN OnlySync(t, p)
           ELSE Persist(t, [p EXCEPT !.guidedAssistance = @ \cup {u}], FALSE, {})

ResetAttempt(t, u) ==
    /\ MayWrite(t)
    /\ u \in CurrentUnits(t)
    /\ LET p == Synced(mem[t])
       IN  Persist(t, [p EXCEPT !.hintsUsed[u] = 0,
                                !.guideSteps[u] = 0,
                                !.completedSteps[u] = {},
                                !.guidedAssistance = @ \ {u}], FALSE, {u})

\* The unlock check reads the tab's copy; the operation synchronises after it.
SetCurrentLevel(t, l) ==
    /\ MayWrite(t)
    /\ l = mem[t].currentLevel \/ CanNavigateToLevel(t, l)
    /\ LET p == Synced(mem[t])
       IN  Persist(t, [p EXCEPT !.currentLevel = l, !.currentLabId = l], TRUE, {})

SetCurrentLab(t, lab) ==
    /\ MayWrite(t)
    /\ LET p == Synced(mem[t])
       IN  Persist(t, [p EXCEPT !.currentLabId = lab], TRUE, {})

\* Variant: a reset takes the clock for its generation.
ResetTimeIsClock(now) == now

ResetTime(now) == Larger(now, IF Readable THEN disk.startedAt + 1 ELSE 1)

\* Start over: a new generation, one past the stored one at least.
ResetAllProgress(t) ==
    /\ MayWrite(t)
    /\ \E now \in Clock :
         LET resetAt == ResetTime(now)
             fresh == [DefaultProgress(resetAt) EXCEPT !.updatedAt = resetAt + 1]
         IN  /\ Store(t, fresh)
             /\ mem' = [mem EXCEPT ![t] = fresh]

-----------------------------------------------------------------------------
Init ==
    /\ disk = None
    /\ mem = [t \in Tabs |-> None]
    /\ unseen = {}
    /\ corrupted = FALSE

WorkOnUnit(t, u) ==
    \/ \E mode \in Modes : Complete(t, u, mode)
    \/ RecordHint(t, u)
    \/ AdvanceGuideStep(t, u)
    \/ \E step \in Steps : CompleteLearningStep(t, u, step)
    \/ MarkGuidedAssistance(t, u)
    \/ ResetAttempt(t, u)

Navigate(t) ==
    \/ \E l \in Levels : SetCurrentLevel(t, l)
    \/ \E lab \in Labs : SetCurrentLab(t, lab)

Next ==
    \E t \in Tabs :
        \/ LoadProgress(t)
        \/ CloseTab(t)
        \/ SyncExternalProgress(t)
        \/ \E u \in Units : WorkOnUnit(t, u)
        \/ Navigate(t)
        \/ ResetAllProgress(t)

Spec == Init /\ [][Next]_vars

\* The browser eventually runs the event loop of an open tab.
FairSpec == Spec /\ \A t \in Tabs : WF_vars(SyncExternalProgress(t))
-----------------------------------------------------------------------------
(* Properties. *)

TypeOK ==
    /\ disk \in Snapshot \cup {None}
    /\ mem \in [Tabs -> Snapshot \cup {None}]
    /\ unseen \subseteq Tabs
    /\ corrupted \in BOOLEAN

\* Everything but the selection.
SameData(a, b) ==
    /\ a.completed = b.completed
    /\ a.hintsUsed = b.hintsUsed
    /\ a.guideSteps = b.guideSteps
    /\ a.completedSteps = b.completedSteps
    /\ a.guidedAssistance = b.guidedAssistance
    /\ a.completionRecords = b.completionRecords
    /\ a.startedAt = b.startedAt
    /\ a.updatedAt = b.updatedAt

SameUnit(a, b, u) ==
    /\ u \in a.completed <=> u \in b.completed
    /\ a.hintsUsed[u] = b.hintsUsed[u]
    /\ a.guideSteps[u] = b.guideSteps[u]
    /\ a.completedSteps[u] = b.completedSteps[u]
    /\ u \in a.guidedAssistance <=> u \in b.guidedAssistance
    /\ a.completionRecords[u] = b.completionRecords[u]

HasRecords(s) == \A u \in Units : s.completionRecords[u] # None <=> u \in s.completed

\* In every copy, stored or in memory, exactly the completed units have a
\* completion record, whatever the interleaving of merges, adoptions and resets.
CompletionHasRecord ==
    /\ disk # None => HasRecords(disk)
    /\ \A t \in Open : HasRecords(mem[t])

\* A tab's copy is either recognisably older than the stored snapshot, by
\* generation or by update time, or holds exactly the stored data.  This is what
\* entitles syncBeforeMutation to let a newer snapshot win as a whole; it holds
\* as long as no write stored an invalid snapshot.
StaleOrCurrent ==
    ~corrupted /\ disk # None =>
        \A t \in Open : /\ mem[t].startedAt <= disk.startedAt
                        /\ \/ mem[t].startedAt < disk.startedAt
                           \/ mem[t].updatedAt < disk.updatedAt
                           \/ SameData(mem[t], disk)

\* A write over readable progress keeps every completed unit and its first
\* completion record, however stale the writing tab is; or it starts a later
\* generation.  No tab moves readable progress back to an earlier generation.
StoredProgressOnlyGrows ==
    [][Readable =>
         \/ disk'.startedAt > disk.startedAt
         \/ /\ disk'.startedAt = disk.startedAt
            /\ disk.completed \subseteq disk'.completed
            /\ \A u \in disk.completed :
                 disk'.completionRecords[u] = disk.completionRecords[u]]_disk

\* The stored record under the abstract view: what is recorded of each unit.
Recorded(s, u) ==
    [result |-> IF u \in s.completed THEN s.completionRecords[u] ELSE None,
     hints  |-> s.hintsUsed[u],
     guide  |-> s.guideSteps[u],
     steps  |-> s.completedSteps[u],
     path   |-> CompletionPath("challenge", u \in s.guidedAssistance)]

\* No item records nothing, as the default one that the first tab stores.
View == [u \in Units |-> Recorded(IF disk = None THEN DefaultProgress(0) ELSE disk, u)]

Shared == INSTANCE SharedProgress WITH
    Results <- Record, progress <- View, damaged <- corrupted

\* All tabs together implement one record that is edited one operation at a time:
\* a write of a stale tab brings back nothing that other tabs reset, loses nothing
\* of what they recorded, and counts on from what is stored, not from what the tab
\* shows.
SharedRecord == Shared!Spec

\* A page load shows every unit the stored item lists as completed.
ReloadKeepsCompletions ==
    [][\A t \in Tabs \ Open :
         mem'[t] # None /\ disk # None => disk.completed \subseteq mem'[t].completed]_mem

\* What is stored reaches every open tab that keeps running: however the events
\* are delayed and the tabs interleave, each tab catches up with the stored data
\* again and again, so with every write.
WritesReachEveryTab ==
    \A t \in Tabs :
        []<>(corrupted \/ disk = None \/ mem[t] = None \/ SameData(mem[t], disk))
=============================================================================
