-------------------------- MODULE ProgressStoreProofs --------------------------
(***************************************************************************)
(* Proofs about ProgressStore and LearningPath, for any number of tabs,    *)
(* levels, labs and steps, any clock and any bound on the number of        *)
(* writes.                                                                 *)
(***************************************************************************)
EXTENDS LearningPath, DataLemmas, FiniteSetTheorems, TLAPS

USE ConstantsAssumption

-----------------------------------------------------------------------------
(* Types of the snapshot operators. *)

LEMMA UnitFacts == 1 \in Levels /\ Levels \subseteq Units /\ Levels \subseteq Nat \ {0}
  BY DEF Levels, Units

LEMMA LargerType ==
  ASSUME NEW a \in Nat, NEW b \in Nat
  PROVE  /\ Larger(a, b) \in Nat /\ Larger(a, b) >= a /\ Larger(a, b) >= b
         /\ Larger(a, b) \in {a, b}
  BY DEF Larger

LEMMA DefaultType ==
  ASSUME NEW now \in Nat
  PROVE  DefaultProgress(now) \in Snapshot
  BY UnitFacts DEF DefaultProgress, Snapshot

LEMMA CompletedLevelsCount ==
  ASSUME NEW s \in Snapshot
  PROVE  Cardinality(CompletedLevels(s)) \in Nat
  <1>1. IsFiniteSet(Levels)
    BY FS_Interval DEF Levels
  <1>2. CompletedLevels(s) \subseteq Levels
    BY DEF CompletedLevels
  <1>3. IsFiniteSet(CompletedLevels(s))
    BY <1>1, <1>2, FS_Subset
  <1> QED
    BY <1>3, FS_CardinalityType

LEMMA ClampType ==
  ASSUME NEW s \in Snapshot
  PROVE  ClampSelection(s) \in Snapshot
  <1> DEFINE maxLevel == Smaller(Cardinality(CompletedLevels(s)) + 1, TotalLevels)
  <1>1. maxLevel \in Levels
    BY CompletedLevelsCount DEF Smaller, Levels
  <1>2. maxLevel \in Units
    BY <1>1, UnitFacts
  <1> HIDE DEF maxLevel
  <1>3. [s EXCEPT !.currentLevel = maxLevel,
                  !.currentLabId = IF @ = s.currentLevel THEN maxLevel ELSE @] \in Snapshot
    BY <1>1, <1>2 DEF Snapshot
  <1> QED
    BY <1>3 DEF ClampSelection, maxLevel

LEMMA ApplySyncedType ==
  ASSUME NEW target \in Snapshot, NEW source \in Snapshot
  PROVE  ApplySynced(target, source) \in Snapshot
  <1>1. [source EXCEPT !.currentLevel = target.currentLevel,
                       !.currentLabId = target.currentLabId] \in Snapshot
    BY DEF Snapshot
  <1> QED
    BY <1>1, ClampType DEF ApplySynced

LEMMA MergeType ==
  ASSUME NEW local \in Snapshot, NEW stored \in Snapshot,
         NEW chosen \in Snapshot, NEW reset
  PROVE  Merge(local, stored, chosen, reset) \in Snapshot
  BY DEF Merge, MergeRecords, Snapshot, Larger, Smaller

LEMMA SyncedType ==
  ASSUME TypeOK, NEW local \in Snapshot
  PROVE  Synced(local) \in Snapshot
  <1>1. CASE ~Readable
    BY <1>1 DEF Synced
  <1>2. CASE Readable
    <2>1. disk \in Snapshot
      BY <1>2 DEF Readable, TypeOK
    <2>2. Merge(local, disk, disk, {}) \in Snapshot
      BY <2>1, MergeType
    <2> QED
      BY <1>2, <2>1, <2>2, ApplySyncedType DEF Synced
  <1> QED
    BY <1>1, <1>2

LEMMA ToStoreType ==
  ASSUME TypeOK, NEW p \in Snapshot, NEW keep \in BOOLEAN, NEW reset, NEW now \in Nat
  PROVE  ToStore(p, keep, reset, now) \in Snapshot
  <1> DEFINE next == IF ~Readable
                     THEN p
                     ELSE IF disk.startedAt > p.startedAt
                     THEN disk
                     ELSE Merge(p, disk, IF keep THEN p ELSE disk, reset)
             seen == IF Readable THEN disk.updatedAt ELSE 0
  <1>1. Readable => disk \in Snapshot
    BY DEF Readable, TypeOK
  <1>2. next \in Snapshot
    BY <1>1, MergeType
  <1>3. seen \in Nat
    BY <1>1 DEF Snapshot
  <1> HIDE DEF next, seen
  <1>4. next.updatedAt \in Nat
    BY <1>2 DEF Snapshot
  <1>5. UpdateTime(now, next.updatedAt, seen) \in Nat
    BY <1>3, <1>4 DEF UpdateTime, Larger
  <1>6. [next EXCEPT !.updatedAt = UpdateTime(now, @, seen)] \in Snapshot
    BY <1>2, <1>5 DEF Snapshot
  <1> QED
    BY <1>6 DEF ToStore, next, seen

-----------------------------------------------------------------------------
(* Completion records: each operator keeps them matched with completion.   *)

LEMMA DefaultHasRecords ==
  ASSUME NEW now
  PROVE  HasRecords(DefaultProgress(now))
  BY DEF HasRecords, DefaultProgress

LEMMA ClampKeepsData ==
  ASSUME NEW s \in Snapshot
  PROVE  SameData(ClampSelection(s), s)
  <1> DEFINE maxLevel == Smaller(Cardinality(CompletedLevels(s)) + 1, TotalLevels)
  <1> HIDE DEF maxLevel
  <1>1. SameData([s EXCEPT !.currentLevel = maxLevel,
                           !.currentLabId = IF @ = s.currentLevel THEN maxLevel ELSE @], s)
    BY DEF SameData, Snapshot
  <1>2. SameData(s, s)
    BY DEF SameData
  <1> QED
    BY <1>1, <1>2 DEF ClampSelection, maxLevel

LEMMA ApplySyncedKeepsData ==
  ASSUME NEW target \in Snapshot, NEW source \in Snapshot
  PROVE  SameData(ApplySynced(target, source), source)
  <1> DEFINE moved == [source EXCEPT !.currentLevel = target.currentLevel,
                                     !.currentLabId = target.currentLabId]
  <1>1. moved \in Snapshot /\ SameData(moved, source)
    BY DEF Snapshot, SameData
  <1> HIDE DEF moved
  <1>2. SameData(ClampSelection(moved), moved)
    BY <1>1, ClampKeepsData
  <1>3. SameData(ClampSelection(moved), source)
    BY <1>1, <1>2 DEF SameData
  <1> QED
    BY <1>3 DEF ApplySynced, moved

LEMMA SameDataHasRecords ==
  ASSUME NEW a, NEW b, SameData(a, b), HasRecords(b)
  PROVE  HasRecords(a)
  BY DEF SameData, HasRecords

LEMMA MergeHasRecords ==
  ASSUME NEW local \in Snapshot, NEW stored \in Snapshot, NEW chosen, NEW reset,
         HasRecords(local), HasRecords(stored)
  PROVE  HasRecords(Merge(local, stored, chosen, reset))
  BY DEF Merge, MergeRecords, HasRecords, Snapshot

LEMMA SyncedHasRecords ==
  ASSUME TypeOK, CompletionHasRecord, NEW local \in Snapshot, HasRecords(local)
  PROVE  HasRecords(Synced(local))
  <1>1. CASE ~Readable
    BY <1>1 DEF Synced
  <1>2. CASE Readable
    <2>1. disk \in Snapshot /\ HasRecords(disk)
      BY <1>2 DEF Readable, TypeOK, CompletionHasRecord
    <2>2. /\ Merge(local, disk, disk, {}) \in Snapshot
          /\ HasRecords(Merge(local, disk, disk, {}))
      BY <2>1, MergeType, MergeHasRecords
    <2>3. HasRecords(ApplySynced(local, disk))
      BY <2>1, ApplySyncedKeepsData, SameDataHasRecords
    <2>4. HasRecords(ApplySynced(local, Merge(local, disk, disk, {})))
      BY <2>2, ApplySyncedKeepsData, SameDataHasRecords
    <2> QED
      BY <1>2, <2>3, <2>4 DEF Synced
  <1> QED
    BY <1>1, <1>2

LEMMA ToStoreHasRecords ==
  ASSUME TypeOK, CompletionHasRecord, NEW p \in Snapshot, HasRecords(p),
         NEW keep \in BOOLEAN, NEW reset, NEW now \in Nat
  PROVE  HasRecords(ToStore(p, keep, reset, now))
  <1> DEFINE next == IF ~Readable
                     THEN p
                     ELSE IF disk.startedAt > p.startedAt
                     THEN disk
                     ELSE Merge(p, disk, IF keep THEN p ELSE disk, reset)
             seen == IF Readable THEN disk.updatedAt ELSE 0
  <1>1. Readable => disk \in Snapshot /\ HasRecords(disk)
    BY DEF Readable, TypeOK, CompletionHasRecord
  <1>2. next \in Snapshot
    BY <1>1, MergeType
  <1>3. HasRecords(next)
    BY <1>1, MergeHasRecords
  <1> HIDE DEF next, seen
  <1>4. HasRecords([next EXCEPT !.updatedAt = UpdateTime(now, @, seen)])
    BY <1>2, <1>3 DEF HasRecords, Snapshot
  <1> QED
    BY <1>4 DEF ToStore, next, seen

-----------------------------------------------------------------------------
(* The inductive invariant: types and records together.                    *)

IInv == TypeOK /\ CompletionHasRecord

\* A copy that an operation may edit and store.
Sound(s) == s \in Snapshot /\ HasRecords(s)

LEMMA OpenIsSound ==
  ASSUME IInv, NEW t \in Open
  PROVE  t \in Tabs /\ Sound(mem[t]) /\ Sound(Synced(mem[t]))
  <1>1. t \in Tabs /\ mem[t] \in Snapshot /\ HasRecords(mem[t])
    BY DEF IInv, TypeOK, CompletionHasRecord, Open
  <1> QED
    BY <1>1, SyncedType, SyncedHasRecords DEF IInv, Sound

LEMMA StoreKeepsIInv ==
  ASSUME IInv, NEW t \in Tabs, NEW next, NEW copy, Sound(next), Sound(copy),
         Store(t, next), mem' = [mem EXCEPT ![t] = copy]
  PROVE  IInv'
  <1>1. TypeOK'
    BY DEF IInv, TypeOK, Store, Sound, Open
  <1>2. CompletionHasRecord'
    BY DEF IInv, TypeOK, Store, Sound, Open, CompletionHasRecord, HasRecords
  <1> QED
    BY <1>1, <1>2 DEF IInv

LEMMA PersistKeepsIInv ==
  ASSUME IInv, NEW t \in Tabs, NEW p, NEW keep \in BOOLEAN, NEW reset,
         Sound(p), Persist(t, p, keep, reset)
  PROVE  IInv'
  <1>1. PICK now \in Clock :
           /\ Store(t, ToStore(p, keep, reset, now))
           /\ mem' = [mem EXCEPT ![t] = ApplySynced(p, ToStore(p, keep, reset, now))]
    BY DEF Persist
  <1> DEFINE next == ToStore(p, keep, reset, now)
  <1>2. Sound(next)
    BY ToStoreType, ToStoreHasRecords DEF Sound, IInv
  <1> HIDE DEF next
  <1>3. Sound(ApplySynced(p, next))
    BY <1>2, ApplySyncedType, ApplySyncedKeepsData, SameDataHasRecords DEF Sound
  <1>4. Store(t, next) /\ mem' = [mem EXCEPT ![t] = ApplySynced(p, next)]
    BY <1>1 DEF next
  <1> QED
    BY <1>2, <1>3, <1>4, StoreKeepsIInv

LEMMA OnlySyncKeepsIInv ==
  ASSUME IInv, NEW t \in Tabs, NEW p, Sound(p), OnlySync(t, p)
  PROVE  IInv'
  BY DEF IInv, TypeOK, OnlySync, Sound, Open, CompletionHasRecord, HasRecords

\* An edit of s that an operation may store: it stays in the generation of s.
SoundEdit(s, e) == Sound(e) /\ e.startedAt = s.startedAt

(***************************************************************************)
(* The copies the operations store are sound, and of the generation they   *)
(* were read in.                                                           *)
(***************************************************************************)
LEMMA EditsAreSound ==
  ASSUME NEW s, Sound(s), NEW u \in Units
  PROVE  /\ \A r \in Record : SoundEdit(s, [s EXCEPT !.completed = @ \cup {u},
                                              !.completionRecords[u] = r])
         /\ SoundEdit(s, [s EXCEPT !.hintsUsed[u] = OneMoreHint(@)])
         /\ \A n \in Nat : SoundEdit(s, [s EXCEPT !.guideSteps[u] = n])
         /\ \A x \in Steps : SoundEdit(s, [s EXCEPT !.completedSteps[u] = @ \cup {x}])
         /\ SoundEdit(s, [s EXCEPT !.guidedAssistance = @ \cup {u}])
         /\ SoundEdit(s, [s EXCEPT !.hintsUsed[u] = 0,
                            !.guideSteps[u] = 0,
                            !.completedSteps[u] = {},
                            !.guidedAssistance = @ \ {u}])
         /\ \A l \in Levels : SoundEdit(s, [s EXCEPT !.currentLevel = l, !.currentLabId = l])
         /\ SoundEdit(s, [s EXCEPT !.currentLabId = u])
  <1>1. s \in Snapshot /\ HasRecords(s)
    BY DEF Sound
  <1>2. ASSUME NEW r \in Record
        PROVE  SoundEdit(s, [s EXCEPT !.completed = @ \cup {u}, !.completionRecords[u] = r])
    <2>1. [s EXCEPT !.completed = @ \cup {u}, !.completionRecords[u] = r] \in Snapshot
      BY <1>1, <1>2 DEF Snapshot
    <2>2. HasRecords([s EXCEPT !.completed = @ \cup {u}, !.completionRecords[u] = r])
      BY <1>1, <1>2 DEF Snapshot, HasRecords
    <2> QED
      BY <1>1, <2>1, <2>2 DEF SoundEdit, Sound, Snapshot
  <1>3. SoundEdit(s, [s EXCEPT !.hintsUsed[u] = OneMoreHint(@)])
    BY <1>1 DEF SoundEdit, Sound, Snapshot, HasRecords, OneMoreHint, Smaller
  <1>4. ASSUME NEW n \in Nat
        PROVE  SoundEdit(s, [s EXCEPT !.guideSteps[u] = n])
    BY <1>1 DEF SoundEdit, Sound, Snapshot, HasRecords
  <1>5. ASSUME NEW x \in Steps
        PROVE  SoundEdit(s, [s EXCEPT !.completedSteps[u] = @ \cup {x}])
    BY <1>1 DEF SoundEdit, Sound, Snapshot, HasRecords
  <1>6. SoundEdit(s, [s EXCEPT !.guidedAssistance = @ \cup {u}])
    BY <1>1 DEF SoundEdit, Sound, Snapshot, HasRecords
  <1>7. SoundEdit(s, [s EXCEPT !.hintsUsed[u] = 0, !.guideSteps[u] = 0,
                        !.completedSteps[u] = {}, !.guidedAssistance = @ \ {u}])
    <2> DEFINE s1 == [s EXCEPT !.hintsUsed[u] = 0]
               s2 == [s1 EXCEPT !.guideSteps[u] = 0]
               s3 == [s2 EXCEPT !.completedSteps[u] = {}]
               s4 == [s3 EXCEPT !.guidedAssistance = @ \ {u}]
    <2>1. SoundEdit(s, s1)
      BY <1>1 DEF SoundEdit, Sound, Snapshot, HasRecords
    <2>2. SoundEdit(s, s2)
      <3> HIDE DEF s1
      <3> QED
        BY <2>1 DEF SoundEdit, Sound, Snapshot, HasRecords
    <2>3. SoundEdit(s, s3)
      <3> HIDE DEF s2
      <3> QED
        BY <2>2 DEF SoundEdit, Sound, Snapshot, HasRecords
    <2>4. SoundEdit(s, s4)
      <3> HIDE DEF s3
      <3> QED
        BY <2>3 DEF SoundEdit, Sound, Snapshot, HasRecords
    <2>5. s4 = [s EXCEPT !.hintsUsed[u] = 0, !.guideSteps[u] = 0,
                         !.completedSteps[u] = {}, !.guidedAssistance = @ \ {u}]
      BY <1>1 DEF Snapshot
    <2> QED
      BY <2>4, <2>5
  <1>8. ASSUME NEW l \in Levels
        PROVE  SoundEdit(s, [s EXCEPT !.currentLevel = l, !.currentLabId = l])
    BY <1>1, UnitFacts DEF SoundEdit, Sound, Snapshot, HasRecords
  <1>9. SoundEdit(s, [s EXCEPT !.currentLabId = u])
    BY <1>1 DEF SoundEdit, Sound, Snapshot, HasRecords
  <1> QED
    BY <1>2, <1>3, <1>4, <1>5, <1>6, <1>7, <1>8, <1>9

\* What is recorded of a unit, field by field.
Entry(result, hints, guide, steps, path) ==
    [result |-> result, hints |-> hints, guide |-> guide, steps |-> steps, path |-> path]

LEMMA ResultOfEntry ==
  ASSUME NEW r, NEW h, NEW g, NEW d, NEW p, NEW x
  PROVE  [Entry(r, h, g, d, p) EXCEPT !.result = x] = Entry(x, h, g, d, p)
  BY DEF Entry

PathOf(s, u) == CompletionPath("challenge", u \in s.guidedAssistance)

LEMMA RecordedEntry ==
  ASSUME NEW s, Sound(s), NEW u \in Units
  PROVE  Recorded(s, u) = Entry(s.completionRecords[u], s.hintsUsed[u], s.guideSteps[u],
                                s.completedSteps[u], PathOf(s, u))
  <1>1. u \in s.completed <=> s.completionRecords[u] # None
    BY DEF Sound, HasRecords
  <1> QED
    BY <1>1 DEF Recorded, Entry, PathOf

\* What a merge of p into s records of a unit.
MergedRecord(p, s, reset, u) ==
    [result |-> IF u \in s.completed \cup p.completed
                THEN IF s.completionRecords[u] # None
                     THEN s.completionRecords[u] ELSE p.completionRecords[u]
                ELSE None,
     hints  |-> IF u \in reset THEN 0 ELSE Larger(p.hintsUsed[u], s.hintsUsed[u]),
     guide  |-> IF u \in reset THEN 0 ELSE Larger(p.guideSteps[u], s.guideSteps[u]),
     steps  |-> IF u \in reset THEN {} ELSE s.completedSteps[u] \cup p.completedSteps[u],
     path   |-> CompletionPath("challenge",
                  u \in (s.guidedAssistance \cup p.guidedAssistance) \ reset)]

LEMMA MergeRecorded ==
  ASSUME NEW p, NEW s, NEW chosen, NEW reset, NEW u \in Units
  PROVE  Recorded(Merge(p, s, chosen, reset), u) = MergedRecord(p, s, reset, u)
  BY DEF Recorded, Merge, MergeRecords, MergedRecord

\* One operation on a unit, or none.
Changed(old, new) == old = new \/ Shared!Becomes(old, new)

\* The edit e of s, with the units to reset, is about one unit at most, and once it
\* is merged into s it is an operation on what s records of it.
OfUnit(s, e, reset, u) ==
    /\ reset \subseteq {u}
    /\ \A v \in Units \ {u} : SameUnit(e, s, v)
    /\ Changed(Recorded(s, u), MergedRecord(e, s, reset, u))

UnitEdit(s, e, reset) == \E u \in Units : OfUnit(s, e, reset, u)

\* The unit as s has it: what the edits leave alone merges into itself.
LEMMA RecordedFields ==
  ASSUME NEW s, Sound(s), NEW u \in Units
  PROVE  /\ Recorded(s, u).result = s.completionRecords[u]
         /\ u \in s.completed <=> s.completionRecords[u] # None
         /\ s.completionRecords[u] \in Record \cup {None}
         /\ s.hintsUsed[u] \in 0..MaxHints
         /\ s.guideSteps[u] \in Nat
         /\ s.completedSteps[u] \in SUBSET Steps
  <1>1. s \in Snapshot /\ (u \in s.completed <=> s.completionRecords[u] # None)
    BY DEF Sound, HasRecords
  <1>2. Recorded(s, u).result = s.completionRecords[u]
    BY <1>1 DEF Recorded
  <1> QED
    BY <1>1, <1>2 DEF Snapshot

LEMMA CompletionIsUnitEdit ==
  ASSUME NEW s, Sound(s), NEW u \in Units, u \notin s.completed, NEW r \in Record
  PROVE  UnitEdit(s, [s EXCEPT !.completed = @ \cup {u}, !.completionRecords[u] = r], {})
  <1> DEFINE e == [s EXCEPT !.completed = @ \cup {u}, !.completionRecords[u] = r]
  <1>1. /\ e.completed = s.completed \cup {u}
        /\ e.completionRecords = [s.completionRecords EXCEPT ![u] = r]
        /\ e.hintsUsed = s.hintsUsed /\ e.guideSteps = s.guideSteps
        /\ e.completedSteps = s.completedSteps
        /\ e.guidedAssistance = s.guidedAssistance
    BY DEF Sound, Snapshot
  <1>2. s.completionRecords \in [Units -> Record \cup {None}]
    BY DEF Sound, Snapshot
  <1> HIDE DEF e
  <1>3. \A v \in Units \ {u} : SameUnit(e, s, v)
    BY <1>1, <1>2 DEF SameUnit
  <1>4. MergedRecord(e, s, {}, u) = [Recorded(s, u) EXCEPT !.result = r]
    <2>1. MergedRecord(e, s, {}, u)
            = Entry(r, s.hintsUsed[u], s.guideSteps[u], s.completedSteps[u], PathOf(s, u))
      <3>1. u \notin s.completed /\ s.completionRecords[u] = None
        BY RecordedFields
      <3> QED
        BY <1>1, <1>2, <3>1 DEF MergedRecord, Larger, Entry, PathOf
    <2>2. Recorded(s, u) = Entry(s.completionRecords[u], s.hintsUsed[u],
                                 s.guideSteps[u], s.completedSteps[u], PathOf(s, u))
      BY RecordedEntry
    <2> QED
      BY <2>1, <2>2 DEF Entry
  <1>5. Recorded(s, u).result = None
    BY RecordedFields
  <1>6. UnitEdit(s, e, {})
    BY <1>3, <1>4, <1>5 DEF UnitEdit, OfUnit, Changed, Shared!Becomes
  <1> QED
    BY <1>6 DEF e

LEMMA HintIsUnitEdit ==
  ASSUME NEW s, Sound(s), NEW u \in Units
  PROVE  UnitEdit(s, [s EXCEPT !.hintsUsed[u] = OneMoreHint(@)], {})
  <1> DEFINE e == [s EXCEPT !.hintsUsed[u] = OneMoreHint(@)]
             h == s.hintsUsed[u]
  <1>1. /\ e.completed = s.completed /\ e.completionRecords = s.completionRecords
        /\ e.hintsUsed = [s.hintsUsed EXCEPT ![u] = OneMoreHint(@)]
        /\ e.guideSteps = s.guideSteps
        /\ e.completedSteps = s.completedSteps
        /\ e.guidedAssistance = s.guidedAssistance
    BY DEF Sound, Snapshot
  <1>2. s.hintsUsed \in [Units -> 0..MaxHints]
    BY DEF Sound, Snapshot
  <1> HIDE DEF e
  <1>3. \A v \in Units \ {u} : SameUnit(e, s, v)
    BY <1>1, <1>2 DEF SameUnit
  <1>4. h \in 0..MaxHints /\ e.hintsUsed[u] = OneMoreHint(h)
    BY <1>1, <1>2
  <1>5. Larger(e.hintsUsed[u], h) = IF h < MaxHints THEN h + 1 ELSE h
    BY <1>4 DEF OneMoreHint, Smaller, Larger
  <1>6. MergedRecord(e, s, {}, u)
          = [Recorded(s, u) EXCEPT !.hints = IF h < MaxHints THEN h + 1 ELSE h]
    <2> DEFINE more == IF h < MaxHints THEN h + 1 ELSE h
    <2>1. MergedRecord(e, s, {}, u)
            = Entry(s.completionRecords[u], more, s.guideSteps[u], s.completedSteps[u],
                    PathOf(s, u))
      <3>1. u \in s.completed <=> s.completionRecords[u] # None
        BY RecordedFields
      <3> HIDE DEF more
      <3> QED
        BY <1>1, <1>5, <3>1 DEF MergedRecord, Larger, Entry, PathOf, more
    <2> HIDE DEF more
    <2>2. Recorded(s, u) = Entry(s.completionRecords[u], s.hintsUsed[u],
                                 s.guideSteps[u], s.completedSteps[u], PathOf(s, u))
      BY RecordedEntry
    <2>3. MergedRecord(e, s, {}, u) = [Recorded(s, u) EXCEPT !.hints = more]
      BY <2>1, <2>2 DEF Entry
    <2> QED
      BY <2>3 DEF more
  <1>7. Recorded(s, u).hints = h
    BY DEF Recorded
  <1>8. Changed(Recorded(s, u), MergedRecord(e, s, {}, u))
    <2>1. CASE h < MaxHints
      BY <1>6, <1>7, <2>1 DEF Changed, Shared!Becomes
    <2>2. CASE ~(h < MaxHints)
      BY <1>6, <2>2 DEF Changed, Recorded
    <2> QED
      BY <2>1, <2>2
  <1>9. UnitEdit(s, e, {})
    BY <1>3, <1>8 DEF UnitEdit, OfUnit
  <1> QED
    BY <1>9 DEF e

\* What advanceGuideStep stores for a guide that shows g entries.
Revealed(g) == Smaller(Smaller(g, GuideLength - 1) + 1, GuideLength - 1)

LEMMA GuideIsUnitEdit ==
  ASSUME NEW s, Sound(s), NEW u \in Units, GuideLength > 0
  PROVE  UnitEdit(s, [s EXCEPT !.guideSteps[u] = Revealed(s.guideSteps[u])], {})
  <1> DEFINE g == s.guideSteps[u]
             e == [s EXCEPT !.guideSteps[u] = Revealed(g)]
  <1>1. /\ e.completed = s.completed /\ e.completionRecords = s.completionRecords
        /\ e.hintsUsed = s.hintsUsed
        /\ e.guideSteps = [s.guideSteps EXCEPT ![u] = Revealed(g)]
        /\ e.completedSteps = s.completedSteps
        /\ e.guidedAssistance = s.guidedAssistance
    BY DEF Sound, Snapshot
  <1>2. s.guideSteps \in [Units -> Nat]
    BY DEF Sound, Snapshot
  <1> HIDE DEF e
  <1>3. \A v \in Units \ {u} : SameUnit(e, s, v)
    BY <1>1, <1>2 DEF SameUnit
  <1>4. g \in Nat /\ e.guideSteps[u] = Revealed(g)
    BY <1>1, <1>2
  <1>5. Larger(e.guideSteps[u], g) = IF g + 1 < GuideLength THEN g + 1 ELSE g
    BY <1>4 DEF Revealed, Smaller, Larger
  <1>6. MergedRecord(e, s, {}, u)
          = [Recorded(s, u) EXCEPT !.guide = IF g + 1 < GuideLength THEN g + 1 ELSE g]
    <2> DEFINE more == IF g + 1 < GuideLength THEN g + 1 ELSE g
    <2>1. MergedRecord(e, s, {}, u)
            = Entry(s.completionRecords[u], s.hintsUsed[u], more, s.completedSteps[u],
                    PathOf(s, u))
      <3>1. u \in s.completed <=> s.completionRecords[u] # None
        BY RecordedFields
      <3> HIDE DEF more
      <3> QED
        BY <1>1, <1>5, <3>1 DEF MergedRecord, Larger, Entry, PathOf, more
    <2> HIDE DEF more
    <2>2. Recorded(s, u) = Entry(s.completionRecords[u], s.hintsUsed[u],
                                 s.guideSteps[u], s.completedSteps[u], PathOf(s, u))
      BY RecordedEntry
    <2>3. MergedRecord(e, s, {}, u) = [Recorded(s, u) EXCEPT !.guide = more]
      BY <2>1, <2>2 DEF Entry
    <2> QED
      BY <2>3 DEF more
  <1>7. Recorded(s, u).guide = g
    BY DEF Recorded
  <1>8. Changed(Recorded(s, u), MergedRecord(e, s, {}, u))
    <2>1. CASE g + 1 < GuideLength
      BY <1>6, <1>7, <2>1 DEF Changed, Shared!Becomes
    <2>2. CASE ~(g + 1 < GuideLength)
      BY <1>6, <2>2 DEF Changed, Recorded
    <2> QED
      BY <2>1, <2>2
  <1>9. UnitEdit(s, e, {})
    BY <1>3, <1>8 DEF UnitEdit, OfUnit
  <1> QED
    BY <1>9 DEF e

LEMMA StepIsUnitEdit ==
  ASSUME NEW s, Sound(s), NEW u \in Units, NEW x \in Steps
  PROVE  UnitEdit(s, [s EXCEPT !.completedSteps[u] = @ \cup {x}], {})
  <1> DEFINE e == [s EXCEPT !.completedSteps[u] = @ \cup {x}]
  <1>1. /\ e.completed = s.completed /\ e.completionRecords = s.completionRecords
        /\ e.hintsUsed = s.hintsUsed /\ e.guideSteps = s.guideSteps
        /\ e.completedSteps = [s.completedSteps EXCEPT ![u] = @ \cup {x}]
        /\ e.guidedAssistance = s.guidedAssistance
    BY DEF Sound, Snapshot
  <1>2. s.completedSteps \in [Units -> SUBSET Steps]
    BY DEF Sound, Snapshot
  <1> HIDE DEF e
  <1>3. \A v \in Units \ {u} : SameUnit(e, s, v)
    BY <1>1, <1>2 DEF SameUnit
  <1>4. e.completedSteps[u] = s.completedSteps[u] \cup {x}
    BY <1>1, <1>2
  <1>5. MergedRecord(e, s, {}, u) = [Recorded(s, u) EXCEPT !.steps = @ \cup {x}]
    <2> DEFINE more == s.completedSteps[u] \cup {x}
    <2>1. MergedRecord(e, s, {}, u)
            = Entry(s.completionRecords[u], s.hintsUsed[u], s.guideSteps[u], more,
                    PathOf(s, u))
      <3>1. u \in s.completed <=> s.completionRecords[u] # None
        BY RecordedFields
      <3> QED
        BY <1>1, <1>4, <3>1 DEF MergedRecord, Larger, Entry, PathOf
    <2>2. Recorded(s, u).steps = s.completedSteps[u]
      BY DEF Recorded
    <2> HIDE DEF more
    <2>3. Recorded(s, u) = Entry(s.completionRecords[u], s.hintsUsed[u],
                                 s.guideSteps[u], s.completedSteps[u], PathOf(s, u))
      BY RecordedEntry
    <2>4. MergedRecord(e, s, {}, u) = [Recorded(s, u) EXCEPT !.steps = more]
      BY <2>1, <2>3 DEF Entry
    <2> QED
      BY <2>2, <2>4 DEF more
  <1>6. UnitEdit(s, e, {})
    BY <1>3, <1>5 DEF UnitEdit, OfUnit, Changed, Shared!Becomes
  <1> QED
    BY <1>6 DEF e

LEMMA AssistanceIsUnitEdit ==
  ASSUME NEW s, Sound(s), NEW u \in Units
  PROVE  UnitEdit(s, [s EXCEPT !.guidedAssistance = @ \cup {u}], {})
  <1> DEFINE e == [s EXCEPT !.guidedAssistance = @ \cup {u}]
  <1>1. /\ e.completed = s.completed /\ e.completionRecords = s.completionRecords
        /\ e.hintsUsed = s.hintsUsed /\ e.guideSteps = s.guideSteps
        /\ e.completedSteps = s.completedSteps
        /\ e.guidedAssistance = s.guidedAssistance \cup {u}
    BY DEF Sound, Snapshot
  <1> HIDE DEF e
  <1>2. \A v \in Units \ {u} : SameUnit(e, s, v)
    BY <1>1 DEF SameUnit
  <1>3. MergedRecord(e, s, {}, u) = [Recorded(s, u) EXCEPT !.path = "mixed"]
    <2>1. MergedRecord(e, s, {}, u)
            = Entry(s.completionRecords[u], s.hintsUsed[u], s.guideSteps[u],
                    s.completedSteps[u], "mixed")
      <3>1. u \in s.completed <=> s.completionRecords[u] # None
        BY RecordedFields
      <3> QED
        BY <1>1, <3>1 DEF MergedRecord, Larger, Entry, CompletionPath
    <2>2. Recorded(s, u) = Entry(s.completionRecords[u], s.hintsUsed[u],
                                 s.guideSteps[u], s.completedSteps[u], PathOf(s, u))
      BY RecordedEntry
    <2> QED
      BY <2>1, <2>2 DEF Entry
  <1>4. UnitEdit(s, e, {})
    BY <1>2, <1>3 DEF UnitEdit, OfUnit, Changed, Shared!Becomes
  <1> QED
    BY <1>4 DEF e

LEMMA ResetIsUnitEdit ==
  ASSUME NEW s, Sound(s), NEW u \in Units
  PROVE  UnitEdit(s, [s EXCEPT !.hintsUsed[u] = 0, !.guideSteps[u] = 0,
                        !.completedSteps[u] = {}, !.guidedAssistance = @ \ {u}], {u})
  <1> DEFINE e == [s EXCEPT !.hintsUsed[u] = 0, !.guideSteps[u] = 0,
                            !.completedSteps[u] = {}, !.guidedAssistance = @ \ {u}]
  <1>1. /\ e.completed = s.completed /\ e.completionRecords = s.completionRecords
        /\ e.guidedAssistance = s.guidedAssistance \ {u}
    BY DEF Sound, Snapshot
  <1>2. e.hintsUsed = [s.hintsUsed EXCEPT ![u] = 0]
    BY DEF Sound, Snapshot
  <1>3. e.guideSteps = [s.guideSteps EXCEPT ![u] = 0]
    BY DEF Sound, Snapshot
  <1>4. e.completedSteps = [s.completedSteps EXCEPT ![u] = {}]
    BY DEF Sound, Snapshot
  <1>5. /\ s.hintsUsed \in [Units -> 0..MaxHints] /\ s.guideSteps \in [Units -> Nat]
        /\ s.completedSteps \in [Units -> SUBSET Steps]
    BY DEF Sound, Snapshot
  <1> HIDE DEF e
  <1>6. \A v \in Units \ {u} : SameUnit(e, s, v)
    BY <1>1, <1>2, <1>3, <1>4, <1>5 DEF SameUnit
  <1>7. MergedRecord(e, s, {u}, u) = [Shared!Untouched EXCEPT !.result = Recorded(s, u).result]
    <2>1. MergedRecord(e, s, {u}, u)
            = Entry(s.completionRecords[u], 0, 0, {}, "challenge")
      <3>1. u \in s.completed <=> s.completionRecords[u] # None
        BY RecordedFields
      <3> QED
        BY <1>1, <3>1 DEF MergedRecord, Entry, CompletionPath
    <2>2. Shared!Untouched = Entry(None, 0, 0, {}, "challenge")
      BY DEF Entry, Shared!Untouched
    <2>3. [Entry(None, 0, 0, {}, "challenge") EXCEPT !.result = s.completionRecords[u]]
            = Entry(s.completionRecords[u], 0, 0, {}, "challenge")
      BY ResultOfEntry
    <2>4. Recorded(s, u).result = s.completionRecords[u]
      BY RecordedFields
    <2> QED
      BY <2>1, <2>2, <2>3, <2>4, Zenon
  <1>8. UnitEdit(s, e, {u})
    BY <1>6, <1>7 DEF UnitEdit, OfUnit, Changed, Shared!Becomes
  <1> QED
    BY <1>8 DEF e

\* A copy that differs in the selection only.
LEMMA SelectionIsUnitEdit ==
  ASSUME NEW s, Sound(s), NEW e, SameData(e, s)
  PROVE  UnitEdit(s, e, {})
  <1>1. 1 \in Units
    BY UnitFacts
  <1>2. \A v \in Units : SameUnit(e, s, v)
    BY DEF SameUnit, SameData
  <1>3. MergedRecord(e, s, {}, 1) = Recorded(s, 1)
    BY <1>1, RecordedFields DEF MergedRecord, Recorded, Larger, CompletionPath, SameData
  <1> QED
    BY <1>1, <1>2, <1>3 DEF UnitEdit, OfUnit, Changed

(***************************************************************************)
(* What an operation on a unit, or a navigation, does: it synchronises the *)
(* tab's copy and then stores a sound edit of it, or stops there.          *)
(***************************************************************************)
Stores(t, p, keep, reset) ==
    /\ SoundEdit(Synced(mem[t]), p)
    /\ UnitEdit(Synced(mem[t]), p, reset)
    /\ Persist(t, p, keep, reset)

Edits(t) ==
    /\ t \in Open
    /\ \/ OnlySync(t, Synced(mem[t]))
       \/ \E p \in Snapshot, keep \in BOOLEAN, reset \in SUBSET Units :
             Stores(t, p, keep, reset)

LEMMA StoresEdits ==
  ASSUME NEW t \in Open, NEW p, NEW keep \in BOOLEAN, NEW reset \in SUBSET Units,
         SoundEdit(Synced(mem[t]), p), UnitEdit(Synced(mem[t]), p, reset),
         Persist(t, p, keep, reset)
  PROVE  Edits(t)
  <1>1. p \in Snapshot
    BY DEF SoundEdit, Sound
  <1> QED
    BY <1>1 DEF Edits, Stores

LEMMA CompleteEdits ==
  ASSUME IInv, NEW t \in Tabs, NEW u \in Units, NEW mode \in Modes,
         Complete(t, u, mode)
  PROVE  Edits(t)
  <1> DEFINE p == Synced(mem[t])
  <1>1. t \in Open
    BY DEF Complete, MayWrite
  <1>2. Sound(mem[t]) /\ Sound(p)
    BY <1>1, OpenIsSound
  <1>3. IF u \in p.completed
        THEN OnlySync(t, p)
        ELSE Persist(t, [p EXCEPT !.completed = @ \cup {u},
                                  !.completionRecords[u] =
                           [path |-> CompletionPath(mode, u \in mem[t].guidedAssistance),
                            hintsUsed |-> mem[t].hintsUsed[u]]], FALSE, {})
    BY DEF Complete
  <1> DEFINE record == [path |-> CompletionPath(mode, u \in mem[t].guidedAssistance),
                        hintsUsed |-> mem[t].hintsUsed[u]]
  <1>4. record \in Record
    BY <1>2 DEF Record, CompletionPath, Sound, Snapshot
  <1> HIDE DEF record
  <1>5. /\ SoundEdit(p, [p EXCEPT !.completed = @ \cup {u}, !.completionRecords[u] = record])
        /\ u \notin p.completed => UnitEdit(p, [p EXCEPT !.completed = @ \cup {u},
                                  !.completionRecords[u] = record], {})
    BY <1>2, <1>4, EditsAreSound, CompletionIsUnitEdit
  <1>6. \/ OnlySync(t, p)
        \/ /\ u \notin p.completed
           /\ Persist(t, [p EXCEPT !.completed = @ \cup {u},
                                !.completionRecords[u] = record], FALSE, {})
    BY <1>3 DEF record
  <1> QED
    BY <1>1, <1>5, <1>6, StoresEdits DEF Edits

LEMMA RecordHintEdits ==
  ASSUME IInv, NEW t \in Tabs, NEW u \in Units, RecordHint(t, u)
  PROVE  Edits(t)
  <1> DEFINE p == Synced(mem[t])
  <1>1. t \in Open
    BY DEF RecordHint, MayWrite
  <1>2. /\ SoundEdit(p, [p EXCEPT !.hintsUsed[u] = OneMoreHint(@)])
        /\ UnitEdit(p, [p EXCEPT !.hintsUsed[u] = OneMoreHint(@)], {})
    BY <1>1, OpenIsSound, EditsAreSound, HintIsUnitEdit
  <1> QED
    BY <1>1, <1>2, StoresEdits DEF RecordHint

LEMMA AdvanceGuideStepEdits ==
  ASSUME IInv, NEW t \in Tabs, NEW u \in Units, AdvanceGuideStep(t, u)
  PROVE  Edits(t)
  <1> DEFINE p == Synced(mem[t])
             next == Revealed(p.guideSteps[u])
  <1>1. t \in Open /\ GuideLength > 0
    BY DEF AdvanceGuideStep, MayWrite
  <1>2. Sound(p)
    BY <1>1, OpenIsSound
  <1>3. next \in Nat
    BY <1>1, <1>2 DEF Sound, Snapshot, Smaller, Revealed
  <1>4. /\ SoundEdit(p, [p EXCEPT !.guideSteps[u] = next])
        /\ UnitEdit(p, [p EXCEPT !.guideSteps[u] = next], {})
    BY <1>1, <1>2, <1>3, EditsAreSound, GuideIsUnitEdit
  <1>5. Persist(t, [p EXCEPT !.guideSteps[u] = next], FALSE, {})
    BY DEF AdvanceGuideStep, Revealed
  <1> QED
    BY <1>1, <1>4, <1>5, StoresEdits

LEMMA CompleteLearningStepEdits ==
  ASSUME IInv, NEW t \in Tabs, NEW u \in Units, NEW x \in Steps,
         CompleteLearningStep(t, u, x)
  PROVE  Edits(t)
  <1> DEFINE p == Synced(mem[t])
  <1>1. t \in Open
    BY DEF CompleteLearningStep, MayWrite
  <1>2. Persist(t, [p EXCEPT !.completedSteps[u] = @ \cup {x}], FALSE, {})
    BY DEF CompleteLearningStep
  <1>3. /\ SoundEdit(p, [p EXCEPT !.completedSteps[u] = @ \cup {x}])
        /\ UnitEdit(p, [p EXCEPT !.completedSteps[u] = @ \cup {x}], {})
    BY <1>1, OpenIsSound, EditsAreSound, StepIsUnitEdit
  <1> QED
    BY <1>1, <1>2, <1>3, StoresEdits

LEMMA MarkGuidedAssistanceEdits ==
  ASSUME IInv, NEW t \in Tabs, NEW u \in Units, MarkGuidedAssistance(t, u)
  PROVE  Edits(t)
  <1> DEFINE p == Synced(mem[t])
  <1>1. t \in Open
    BY DEF MarkGuidedAssistance, MayWrite
  <1>2. /\ SoundEdit(p, [p EXCEPT !.guidedAssistance = @ \cup {u}])
        /\ UnitEdit(p, [p EXCEPT !.guidedAssistance = @ \cup {u}], {})
    BY <1>1, OpenIsSound, EditsAreSound, AssistanceIsUnitEdit
  <1>3. \/ OnlySync(t, p)
        \/ Persist(t, [p EXCEPT !.guidedAssistance = @ \cup {u}], FALSE, {})
    BY DEF MarkGuidedAssistance
  <1> QED
    BY <1>1, <1>2, <1>3, StoresEdits DEF Edits

LEMMA ResetAttemptEdits ==
  ASSUME IInv, NEW t \in Tabs, NEW u \in Units, ResetAttempt(t, u)
  PROVE  Edits(t)
  <1> DEFINE p == Synced(mem[t])
             cleared == [p EXCEPT !.hintsUsed[u] = 0, !.guideSteps[u] = 0,
                                  !.completedSteps[u] = {}, !.guidedAssistance = @ \ {u}]
  <1>1. t \in Open
    BY DEF ResetAttempt, MayWrite
  <1>2. SoundEdit(p, cleared) /\ UnitEdit(p, cleared, {u})
    BY <1>1, OpenIsSound, EditsAreSound, ResetIsUnitEdit
  <1>3. Persist(t, cleared, FALSE, {u})
    BY DEF ResetAttempt
  <1> QED
    BY <1>1, <1>2, <1>3, StoresEdits

LEMMA NavigateEdits ==
  ASSUME IInv, NEW t \in Tabs, Navigate(t)
  PROVE  Edits(t)
  <1> DEFINE p == Synced(mem[t])
  <1>1. ASSUME NEW l \in Levels, SetCurrentLevel(t, l)
        PROVE  Edits(t)
    <2>1. t \in Open
      BY <1>1 DEF SetCurrentLevel, MayWrite
    <2> DEFINE e == [p EXCEPT !.currentLevel = l, !.currentLabId = l]
    <2>2. SoundEdit(p, e) /\ UnitEdit(p, e, {})
      <3>1. Sound(p)
        BY <2>1, OpenIsSound
      <3> HIDE DEF p
      <3>2. SameData(e, p)
        BY <3>1 DEF Sound, Snapshot, SameData
      <3>3. SoundEdit(p, e)
        BY <3>1, EditsAreSound, UnitFacts
      <3> HIDE DEF e
      <3> QED
        BY <3>1, <3>2, <3>3, SelectionIsUnitEdit
    <2> QED
      BY <1>1, <2>1, <2>2, StoresEdits DEF SetCurrentLevel
  <1>2. ASSUME NEW lab \in Labs, SetCurrentLab(t, lab)
        PROVE  Edits(t)
    <2>1. t \in Open /\ lab \in Units
      BY <1>2 DEF SetCurrentLab, MayWrite, Units
    <2> DEFINE e == [p EXCEPT !.currentLabId = lab]
    <2>2. SoundEdit(p, e) /\ UnitEdit(p, e, {})
      <3>1. Sound(p)
        BY <2>1, OpenIsSound
      <3> HIDE DEF p
      <3>2. SameData(e, p)
        BY <3>1 DEF Sound, Snapshot, SameData
      <3>3. SoundEdit(p, e)
        BY <2>1, <3>1, EditsAreSound
      <3> HIDE DEF e
      <3> QED
        BY <3>1, <3>2, <3>3, SelectionIsUnitEdit
    <2> QED
      BY <1>2, <2>1, <2>2, StoresEdits DEF SetCurrentLab
  <1> QED
    BY <1>1, <1>2 DEF Navigate

LEMMA ResetWrites ==
  ASSUME IInv, NEW t \in Tabs, ResetAllProgress(t)
  PROVE  /\ t \in Open
         /\ \E fresh \in Snapshot :
              /\ HasRecords(fresh)
              /\ Readable => fresh.startedAt > disk.startedAt
              /\ Store(t, fresh)
              /\ mem' = [mem EXCEPT ![t] = fresh]
  <1>1. PICK now \in Clock :
          LET fresh == [DefaultProgress(ResetTime(now)) EXCEPT !.updatedAt = ResetTime(now) + 1]
          IN  Store(t, fresh) /\ mem' = [mem EXCEPT ![t] = fresh]
    BY DEF ResetAllProgress
  <1>2. Readable => disk.startedAt \in Nat
    BY DEF Readable, IInv, TypeOK, Snapshot
  <1>3. ResetTime(now) \in Nat /\ (Readable => ResetTime(now) > disk.startedAt)
    BY <1>2 DEF ResetTime, Larger
  <1> DEFINE at == ResetTime(now)
             fresh == [DefaultProgress(at) EXCEPT !.updatedAt = at + 1]
  <1> HIDE DEF at
  <1>4. DefaultProgress(at) \in Snapshot /\ HasRecords(DefaultProgress(at))
    BY <1>3, DefaultType, DefaultHasRecords DEF at
  <1>5. fresh \in Snapshot /\ HasRecords(fresh)
    BY <1>3, <1>4 DEF Snapshot, HasRecords, at
  <1>6. fresh.startedAt = at
    BY <1>4 DEF DefaultProgress
  <1>7. Store(t, fresh) /\ mem' = [mem EXCEPT ![t] = fresh]
    BY <1>1 DEF at
  <1>8. t \in Open
    BY DEF ResetAllProgress, MayWrite
  <1> HIDE DEF fresh
  <1> QED
    BY <1>3, <1>5, <1>6, <1>7, <1>8 DEF at

(***************************************************************************)
(* A step is an edit, a reset, or the life of a tab.                       *)
(***************************************************************************)
LEMMA StepCases ==
  ASSUME IInv, Next
  PROVE  \E t \in Tabs : \/ LoadProgress(t)
                         \/ CloseTab(t)
                         \/ SyncExternalProgress(t)
                         \/ Edits(t)
                         \/ ResetAllProgress(t)
  <1>1. ASSUME NEW t \in Tabs, NEW u \in Units, WorkOnUnit(t, u)
        PROVE  Edits(t)
    BY <1>1, CompleteEdits, RecordHintEdits, AdvanceGuideStepEdits,
       CompleteLearningStepEdits, MarkGuidedAssistanceEdits, ResetAttemptEdits
       DEF WorkOnUnit
  <1> QED
    BY <1>1, NavigateEdits DEF Next

LEMMA SyncedCopyIsSound ==
  ASSUME IInv, NEW t \in Open, Readable
  PROVE  /\ disk \in Snapshot /\ HasRecords(disk)
         /\ Sound(ApplySynced(mem[t], disk))
         /\ SameData(ApplySynced(mem[t], disk), disk)
  <1>1. Sound(mem[t])
    BY OpenIsSound
  <1>2. disk \in Snapshot /\ HasRecords(disk)
    BY DEF Readable, IInv, TypeOK, CompletionHasRecord
  <1> QED
    BY <1>1, <1>2, ApplySyncedType, ApplySyncedKeepsData, SameDataHasRecords DEF Sound

LEMMA EditsKeepIInv ==
  ASSUME IInv, NEW t \in Tabs, Edits(t)
  PROVE  IInv'
  <1>1. t \in Open /\ Sound(Synced(mem[t]))
    BY OpenIsSound DEF Edits
  <1>2. ASSUME NEW p \in Snapshot, NEW keep \in BOOLEAN, NEW reset \in SUBSET Units,
               Stores(t, p, keep, reset)
        PROVE  IInv'
    BY <1>2, PersistKeepsIInv DEF Stores, SoundEdit
  <1> QED
    BY <1>1, <1>2, OnlySyncKeepsIInv DEF Edits

LEMMA TabLifeKeepsIInv ==
  ASSUME IInv, NEW t \in Tabs,
         LoadProgress(t) \/ CloseTab(t) \/ SyncExternalProgress(t)
  PROVE  IInv'
  <1>1. CASE LoadProgress(t)
    <2>1. CASE Readable /\ mem' = [mem EXCEPT ![t] = disk]
                        /\ UNCHANGED <<disk, unseen, corrupted>>
      BY <2>1 DEF IInv, TypeOK, CompletionHasRecord, Open, Readable
    <2>2. ASSUME NEW now \in Clock, mem' = [mem EXCEPT ![t] = DefaultProgress(now)],
                 Store(t, DefaultProgress(now))
          PROVE  IInv'
      <3>1. Sound(DefaultProgress(now))
        BY DefaultType, DefaultHasRecords DEF Sound
      <3> QED
        BY <2>2, <3>1, StoreKeepsIInv
    <2> QED
      BY <1>1, <2>1, <2>2 DEF LoadProgress
  <1>2. CASE CloseTab(t)
    BY <1>2 DEF CloseTab, IInv, TypeOK, CompletionHasRecord, Open
  <1>3. CASE SyncExternalProgress(t)
    <2>1. t \in Open
      BY <1>3 DEF SyncExternalProgress
    <2>2. Readable => Sound(ApplySynced(mem[t], disk))
      BY <2>1, SyncedCopyIsSound
    <2>3. TypeOK'
      BY <1>3, <2>2 DEF SyncExternalProgress, IInv, TypeOK, Sound
    <2>4. CompletionHasRecord'
      BY <1>3, <2>2 DEF SyncExternalProgress, IInv, TypeOK, Sound, CompletionHasRecord, Open
    <2> QED
      BY <2>3, <2>4 DEF IInv
  <1> QED
    BY <1>1, <1>2, <1>3

LEMMA NextKeepsIInv == IInv /\ [Next]_vars => IInv'
  <1> SUFFICES ASSUME IInv, [Next]_vars
               PROVE  IInv'
    OBVIOUS
  <1>1. CASE UNCHANGED vars
    BY <1>1 DEF vars, IInv, TypeOK, CompletionHasRecord, Open
  <1>2. ASSUME NEW t \in Tabs, ResetAllProgress(t)
        PROVE  IInv'
    BY <1>2, ResetWrites, StoreKeepsIInv DEF Sound
  <1> QED
    BY <1>1, <1>2, StepCases, EditsKeepIInv, TabLifeKeepsIInv

LEMMA InitIInv == Init => IInv
  BY DEF Init, IInv, TypeOK, CompletionHasRecord, Open

\* The invariant of every behaviour.
LEMMA Invariance == Spec => []IInv
  BY InitIInv, NextKeepsIInv, PTL DEF Spec

\* Every copy of the progress, stored or in a tab, keeps its type: hint counts stay
\* within their cap and the selection within the levels.
THEOREM TypeCorrect == Spec => []TypeOK
  <1>1. IInv => TypeOK
    BY DEF IInv
  <1> QED
    BY <1>1, Invariance, PTL

\* In every copy, exactly the completed units have a completion record, although
\* records are merged separately from the completed units and per unit.
THEOREM RecordsMatchCompletion == Spec => []CompletionHasRecord
  <1>1. IInv => CompletionHasRecord
    BY DEF IInv
  <1> QED
    BY <1>1, Invariance, PTL
-----------------------------------------------------------------------------
(* A write keeps what was stored, or starts a later generation.            *)

Keeps(old, new) ==
    /\ new.startedAt = old.startedAt
    /\ old.completed \subseteq new.completed
    /\ \A u \in old.completed : new.completionRecords[u] = old.completionRecords[u]

LEMMA SyncedGeneration ==
  ASSUME IInv, Readable, NEW local \in Snapshot
  PROVE  Synced(local).startedAt = disk.startedAt
  <1>1. disk \in Snapshot
    BY DEF Readable, IInv, TypeOK
  <1>2. SameData(ApplySynced(local, disk), disk)
    BY <1>1, ApplySyncedKeepsData
  <1> DEFINE merged == Merge(local, disk, disk, {})
  <1>3. SameData(ApplySynced(local, merged), merged)
    BY <1>1, MergeType, ApplySyncedKeepsData
  <1>4. ~IsNewer(disk, local) => merged.startedAt = disk.startedAt
    BY <1>1 DEF IsNewer, Merge, Smaller, Snapshot
  <1> HIDE DEF merged
  <1>5. CASE IsNewer(disk, local)
    BY <1>2, <1>5 DEF Synced, SameData
  <1>6. CASE ~IsNewer(disk, local)
    BY <1>3, <1>4, <1>6 DEF Synced, SameData, merged
  <1> QED
    BY <1>5, <1>6

\* What persistProgress writes, for a copy of the stored generation.
LEMMA ToStoreKeeps ==
  ASSUME IInv, Readable, NEW p \in Snapshot, p.startedAt = disk.startedAt,
         NEW keep \in BOOLEAN, NEW reset, NEW now \in Nat
  PROVE  /\ Keeps(disk, ToStore(p, keep, reset, now))
         /\ ToStore(p, keep, reset, now).updatedAt > disk.updatedAt
  <1>1. disk \in Snapshot /\ HasRecords(disk)
    BY DEF Readable, IInv, TypeOK, CompletionHasRecord
  <1> DEFINE merged == Merge(p, disk, IF keep THEN p ELSE disk, reset)
             written == [merged EXCEPT !.updatedAt = UpdateTime(now, @, disk.updatedAt)]
  <1>2. merged \in Snapshot
    BY <1>1, MergeType
  <1>3. Keeps(disk, merged)
    BY <1>1 DEF Merge, MergeRecords, Keeps, HasRecords, Snapshot, Smaller
  <1>4. ToStore(p, keep, reset, now) = written
    BY <1>1 DEF ToStore, Snapshot
  <1> HIDE DEF merged
  <1>5. UpdateTime(now, merged.updatedAt, disk.updatedAt) > disk.updatedAt
    BY <1>1, <1>2 DEF UpdateTime, Larger, Snapshot
  <1>6. Keeps(disk, written) /\ written.updatedAt > disk.updatedAt
    BY <1>2, <1>3, <1>5 DEF Keeps, Snapshot
  <1> QED
    BY <1>4, <1>6

LEMMA EditsKeep ==
  ASSUME IInv, Readable, NEW t \in Tabs, Edits(t)
  PROVE  \/ UNCHANGED disk
         \/ Keeps(disk, disk') /\ disk'.updatedAt > disk.updatedAt
  <1>1. t \in Open /\ Synced(mem[t]).startedAt = disk.startedAt
    BY OpenIsSound, SyncedGeneration DEF Edits, Sound
  <1>2. ASSUME NEW p \in Snapshot, NEW keep \in BOOLEAN, NEW reset \in SUBSET Units,
               Stores(t, p, keep, reset)
        PROVE  Keeps(disk, disk') /\ disk'.updatedAt > disk.updatedAt
    <2>1. p.startedAt = disk.startedAt
      BY <1>1, <1>2 DEF Stores, SoundEdit
    <2>2. PICK now \in Clock : disk' = ToStore(p, keep, reset, now)
      BY <1>2 DEF Stores, Persist, Store
    <2> QED
      BY <2>1, <2>2, ToStoreKeeps
  <1> QED
    BY <1>1, <1>2 DEF Edits, OnlySync

\* A write over readable progress keeps every completed unit and its first record,
\* or starts a later generation, whatever tab writes and however stale it is.
THEOREM ProgressOnlyGrows == Spec => StoredProgressOnlyGrows
  <1> DEFINE Grows == Readable =>
         \/ disk'.startedAt > disk.startedAt
         \/ /\ disk'.startedAt = disk.startedAt
            /\ disk.completed \subseteq disk'.completed
            /\ \A u \in disk.completed :
                 disk'.completionRecords[u] = disk.completionRecords[u]
  <1>1. IInv /\ [Next]_vars => [Grows]_disk
    <2> SUFFICES ASSUME IInv, [Next]_vars, disk' # disk, Readable
                 PROVE  disk'.startedAt > disk.startedAt \/ Keeps(disk, disk')
      BY DEF Keeps
    <2>1. PICK t \in Tabs : \/ LoadProgress(t)
                            \/ CloseTab(t)
                            \/ SyncExternalProgress(t)
                            \/ Edits(t)
                            \/ ResetAllProgress(t)
      BY StepCases DEF vars
    <2>2. CASE LoadProgress(t) \/ CloseTab(t) \/ SyncExternalProgress(t)
      BY <2>2 DEF LoadProgress, CloseTab, SyncExternalProgress
    <2>3. CASE Edits(t)
      BY <2>3, EditsKeep
    <2>4. CASE ResetAllProgress(t)
      BY <2>4, ResetWrites DEF Store
    <2> QED
      BY <2>1, <2>2, <2>3, <2>4
  <1> QED
    BY <1>1, Invariance, PTL DEF Spec, StoredProgressOnlyGrows
-----------------------------------------------------------------------------
(***************************************************************************)
(* Why a newer stored snapshot may win as a whole.  StaleOrCurrent is not  *)
(* inductive by itself: it needs that an unreadable item comes only from a *)
(* write that stored one, and that a tab is open only over a stored item.  *)
(***************************************************************************)
JInv ==
    /\ IInv
    /\ StaleOrCurrent
    /\ ~corrupted /\ disk # None => IsValid(disk)
    /\ disk = None => Open = {}

\* The copy x is older than the snapshot y, or holds its data.
Behind(x, y) ==
    /\ x.startedAt <= y.startedAt
    /\ x.startedAt < y.startedAt \/ x.updatedAt < y.updatedAt \/ SameData(x, y)

LEMMA ReadableUnlessCorrupted ==
  ASSUME JInv, ~corrupted, NEW t \in Open
  PROVE  Readable /\ disk \in Snapshot /\ mem[t] \in Snapshot /\ Behind(mem[t], disk)
  <1>1. disk # None
    BY DEF JInv
  <1> QED
    BY <1>1 DEF JInv, Readable, IInv, TypeOK, Open, StaleOrCurrent, Behind

\* A copy that is not recognisably older merges into exactly the stored data.
LEMMA SyncedIsCurrent ==
  ASSUME JInv, ~corrupted, NEW t \in Open
  PROVE  SameData(Synced(mem[t]), disk)
  <1>1. Readable /\ disk \in Snapshot /\ mem[t] \in Snapshot /\ Behind(mem[t], disk)
    BY ReadableUnlessCorrupted
  <1>2. CASE IsNewer(disk, mem[t])
    BY <1>1, <1>2, ApplySyncedKeepsData DEF Synced
  <1>3. CASE ~IsNewer(disk, mem[t])
    <2> DEFINE merged == Merge(mem[t], disk, disk, {})
    <2>1. SameData(mem[t], disk)
      BY <1>1, <1>3 DEF Behind, IsNewer, Snapshot
    <2>2. SameData(merged, disk)
      BY <1>1, <2>1 DEF Merge, MergeRecords, SameData, Snapshot, Larger, Smaller
    <2>3. SameData(ApplySynced(mem[t], merged), merged)
      BY <1>1, MergeType, ApplySyncedKeepsData
    <2> HIDE DEF merged
    <2>4. SameData(ApplySynced(mem[t], merged), disk)
      BY <2>2, <2>3 DEF SameData
    <2> QED
      BY <1>1, <1>3, <2>4 DEF Synced, merged
  <1> QED
    BY <1>2, <1>3

\* A write that every earlier copy is behind of keeps the invariant.
LEMMA StoreKeepsJInv ==
  ASSUME JInv, IInv', NEW t \in Open, NEW next \in Snapshot, NEW copy \in Snapshot,
         Store(t, next), mem' = [mem EXCEPT ![t] = copy], SameData(copy, next),
         ~corrupted => \/ next.startedAt > disk.startedAt
                       \/ /\ next.startedAt = disk.startedAt
                          /\ next.updatedAt > disk.updatedAt
  PROVE  JInv'
  <1>1. t \in Tabs /\ disk' = next /\ next # None /\ Open' = Open
    BY DEF Open, JInv, IInv, TypeOK, Store
  <1>2. ~corrupted' => ~corrupted /\ IsValid(next)
    BY DEF Store
  <1>3. ASSUME ~corrupted', NEW x \in Open
        PROVE  Behind(mem'[x], next)
    <2>1. CASE x = t
      <3>1. mem'[x] = copy
        BY <1>1, <2>1 DEF JInv, IInv, TypeOK
      <3> QED
        BY <3>1 DEF Behind, SameData, Snapshot
    <2>2. CASE x # t
      <3>1. mem'[x] = mem[x]
        BY <2>2 DEF JInv, IInv, TypeOK, Open
      <3>2. disk \in Snapshot /\ mem[x] \in Snapshot /\ Behind(mem[x], disk)
        BY <1>2, <1>3, ReadableUnlessCorrupted
      <3> QED
        BY <1>2, <1>3, <3>1, <3>2 DEF Behind, SameData, Snapshot
    <2> QED
      BY <2>1, <2>2
  <1> QED
    BY <1>1, <1>2, <1>3 DEF JInv, StaleOrCurrent, Behind, Store

LEMMA EditsKeepJInv ==
  ASSUME JInv, NEW t \in Tabs, Edits(t)
  PROVE  JInv'
  <1>1. t \in Open /\ IInv /\ IInv' /\ Sound(Synced(mem[t]))
    BY EditsKeepIInv, OpenIsSound DEF Edits, JInv
  <1>2. CASE OnlySync(t, Synced(mem[t]))
    <2>1. ~corrupted => SameData(Synced(mem[t]), disk)
      BY <1>1, SyncedIsCurrent
    <2>2. Open' = Open
      BY <1>1, <1>2 DEF OnlySync, Open, Sound, IInv, TypeOK
    <2>3. ASSUME ~corrupted, NEW x \in Open
          PROVE  Behind(mem'[x], disk)
      <3>1. disk \in Snapshot /\ Behind(mem[x], disk)
        BY <2>3, ReadableUnlessCorrupted
      <3> QED
        BY <1>1, <1>2, <2>1, <2>3, <3>1 DEF OnlySync, Behind, SameData, Snapshot, IInv, TypeOK
    <2> QED
      BY <1>1, <1>2, <2>2, <2>3 DEF OnlySync, JInv, StaleOrCurrent, Behind
  <1>3. ASSUME NEW p \in Snapshot, NEW keep \in BOOLEAN, NEW reset \in SUBSET Units,
               Stores(t, p, keep, reset)
        PROVE  JInv'
    <2>1. PICK now \in Clock :
             /\ Store(t, ToStore(p, keep, reset, now))
             /\ mem' = [mem EXCEPT ![t] = ApplySynced(p, ToStore(p, keep, reset, now))]
      BY <1>3 DEF Stores, Persist
    <2> DEFINE next == ToStore(p, keep, reset, now)
    <2>2. next \in Snapshot
      BY <1>1, ToStoreType DEF IInv
    <2>3. ~corrupted => /\ next.startedAt = disk.startedAt
                        /\ next.updatedAt > disk.updatedAt
      <3> SUFFICES ASSUME ~corrupted
                   PROVE  next.startedAt = disk.startedAt /\ next.updatedAt > disk.updatedAt
        OBVIOUS
      <3>1. Readable /\ Synced(mem[t]).startedAt = disk.startedAt
        BY <1>1, ReadableUnlessCorrupted, SyncedIsCurrent DEF SameData
      <3>2. p.startedAt = disk.startedAt
        BY <1>3, <3>1 DEF Stores, SoundEdit
      <3> QED
        BY <1>1, <3>1, <3>2, ToStoreKeeps DEF Keeps
    <2> HIDE DEF next
    <2>4. Store(t, next) /\ mem' = [mem EXCEPT ![t] = ApplySynced(p, next)]
      BY <2>1 DEF next
    <2>5. ApplySynced(p, next) \in Snapshot /\ SameData(ApplySynced(p, next), next)
      BY <2>2, ApplySyncedType, ApplySyncedKeepsData
    <2> QED
      BY <1>1, <2>2, <2>3, <2>4, <2>5, StoreKeepsJInv
  <1> QED
    BY <1>2, <1>3 DEF Edits

LEMMA TabLifeKeepsJInv ==
  ASSUME JInv, NEW t \in Tabs,
         LoadProgress(t) \/ CloseTab(t) \/ SyncExternalProgress(t)
  PROVE  JInv'
  <1>1. IInv /\ IInv'
    BY TabLifeKeepsIInv DEF JInv
  <1>2. CASE LoadProgress(t)
    <2>1. CASE Readable /\ mem' = [mem EXCEPT ![t] = disk]
                        /\ UNCHANGED <<disk, unseen, corrupted>>
      BY <1>1, <2>1 DEF JInv, StaleOrCurrent, Open, Readable, IInv, TypeOK, SameData, Snapshot
    <2>2. ASSUME NEW now \in Clock, ~Readable, mem' = [mem EXCEPT ![t] = DefaultProgress(now)],
                 Store(t, DefaultProgress(now))
          PROVE  JInv'
      <3>1. DefaultProgress(now) \in Snapshot /\ DefaultProgress(now) # None
        BY DefaultType
      <3>2. ~corrupted => Open = {}
        BY <2>2 DEF JInv, Readable
      <3>3. ~corrupted => Open' = {t}
        BY <2>2, <3>1, <3>2 DEF Open, IInv, TypeOK, JInv
      <3>4. ~corrupted => mem'[t] = disk'
        BY <2>2 DEF Store, JInv, IInv, TypeOK
      <3>5. disk' = DefaultProgress(now) /\ (corrupted' <=> corrupted \/ ~IsValid(disk'))
        BY <2>2 DEF Store
      <3>6. StaleOrCurrent'
        BY <3>1, <3>3, <3>4, <3>5 DEF StaleOrCurrent, SameData, Snapshot
      <3> QED
        BY <1>1, <3>1, <3>5, <3>6 DEF JInv
    <2> QED
      BY <1>2, <2>1, <2>2 DEF LoadProgress
  <1>3. CASE CloseTab(t)
    BY <1>1, <1>3 DEF CloseTab, JInv, IInv, TypeOK, StaleOrCurrent, Open, SameData
  <1>4. CASE SyncExternalProgress(t)
    <2>1. t \in Open
      BY <1>4 DEF SyncExternalProgress
    <2>2. Readable => /\ Sound(ApplySynced(mem[t], disk))
                      /\ SameData(ApplySynced(mem[t], disk), disk)
      BY <1>1, <2>1, SyncedCopyIsSound
    <2>3. Open' = Open
      BY <1>1, <1>4, <2>2 DEF SyncExternalProgress, Open, Sound, IInv, TypeOK
    <2>4. ASSUME ~corrupted, NEW x \in Open
          PROVE  Behind(mem'[x], disk)
      <3>1. disk \in Snapshot /\ Behind(mem[x], disk)
        BY <2>4, ReadableUnlessCorrupted
      <3> QED
        BY <1>1, <1>4, <2>2, <2>4, <3>1
           DEF SyncExternalProgress, Behind, SameData, Snapshot, IInv, TypeOK
    <2> QED
      BY <1>1, <1>4, <2>3, <2>4 DEF SyncExternalProgress, JInv, StaleOrCurrent, Behind
  <1> QED
    BY <1>2, <1>3, <1>4

LEMMA NextKeepsJInv == JInv /\ [Next]_vars => JInv'
  <1> SUFFICES ASSUME JInv, [Next]_vars
               PROVE  JInv'
    OBVIOUS
  <1>1. IInv /\ IInv'
    BY NextKeepsIInv DEF JInv
  <1>2. CASE UNCHANGED vars
    BY <1>1, <1>2 DEF vars, JInv, StaleOrCurrent, Open, SameData
  <1>3. ASSUME NEW t \in Tabs, ResetAllProgress(t)
        PROVE  JInv'
    <2>1. t \in Open
      BY <1>1, <1>3, ResetWrites
    <2>2. PICK fresh \in Snapshot :
            /\ Readable => fresh.startedAt > disk.startedAt
            /\ Store(t, fresh)
            /\ mem' = [mem EXCEPT ![t] = fresh]
      BY <1>1, <1>3, ResetWrites
    <2>3. ~corrupted => Readable
      BY <2>1, ReadableUnlessCorrupted
    <2>4. SameData(fresh, fresh)
      BY DEF SameData
    <2> QED
      BY <1>1, <2>1, <2>2, <2>3, <2>4, StoreKeepsJInv
  <1> QED
    BY <1>1, <1>2, <1>3, StepCases, EditsKeepJInv, TabLifeKeepsJInv

LEMMA InitIsJ == Init => JInv
  BY InitIInv DEF Init, JInv, StaleOrCurrent, Open

\* As long as nothing invalid was stored, an open tab is recognisably older than
\* the stored snapshot or holds its data: merging never mixes two attempts.
THEOREM TabsAreStaleOrCurrent == Spec => []StaleOrCurrent
  <1>1. JInv => StaleOrCurrent
    BY DEF JInv
  <1> QED
    BY <1>1, InitIsJ, NextKeepsJInv, PTL DEF Spec
-----------------------------------------------------------------------------
(***************************************************************************)
(* The tabs implement SharedProgress.  While nothing invalid was stored,   *)
(* the copy an operation edits holds the stored data, so that merging its  *)
(* edit into the item is the operation on the item itself.                 *)
(***************************************************************************)
\* The snapshot new is old after an operation on one unit at most.
OneUnit(new, old) ==
    \E u \in Units :
        /\ \A v \in Units \ {u} : Recorded(new, v) = Recorded(old, v)
        /\ Changed(Recorded(old, u), Recorded(new, u))

LEMMA ToStoreIsOneUnit ==
  ASSUME IInv, Readable, NEW s, Sound(s), SameData(s, disk),
         NEW p \in Snapshot, p.startedAt = s.startedAt,
         NEW keep \in BOOLEAN, NEW reset, UnitEdit(s, p, reset), NEW now \in Nat
  PROVE  OneUnit(ToStore(p, keep, reset, now), disk)
  <1>1. disk \in Snapshot /\ Sound(disk) /\ disk.startedAt = p.startedAt
    BY DEF Readable, IInv, TypeOK, SameData, CompletionHasRecord, Sound
  <1>2. PICK u \in Units : OfUnit(s, p, reset, u)
    BY DEF UnitEdit
  <1> DEFINE merged == Merge(p, disk, IF keep THEN p ELSE disk, reset)
             written == [merged EXCEPT !.updatedAt = UpdateTime(now, @, disk.updatedAt)]
  <1>3. ToStore(p, keep, reset, now) = written
    BY <1>1 DEF ToStore, Snapshot
  <1>4. ASSUME NEW v \in Units
        PROVE  Recorded(written, v) = MergedRecord(p, disk, reset, v)
    <2>1. Recorded(merged, v) = MergedRecord(p, disk, reset, v)
      BY MergeRecorded
    <2>2. Recorded(written, v) = Recorded(merged, v)
      BY DEF Recorded, Merge
    <2> QED
      BY <2>1, <2>2
  <1> HIDE DEF merged, written
  <1>5. ASSUME NEW v \in Units \ {u}
        PROVE  Recorded(written, v) = Recorded(disk, v)
    <2>1. SameUnit(p, disk, v) /\ v \notin reset
      BY <1>2 DEF OfUnit, SameUnit, SameData
    <2>2. MergedRecord(p, disk, reset, v) = Recorded(disk, v)
      BY <1>1, <2>1, RecordedFields DEF SameUnit, MergedRecord, Recorded, Larger, CompletionPath
    <2> QED
      BY <1>4, <2>2
  <1>6. Changed(Recorded(disk, u), Recorded(written, u))
    <2>1. Recorded(s, u) = Recorded(disk, u)
      BY DEF Recorded, SameData
    <2>2. MergedRecord(p, s, reset, u) = MergedRecord(p, disk, reset, u)
      BY DEF MergedRecord, SameData
    <2> QED
      BY <1>2, <1>4, <2>1, <2>2 DEF OfUnit
  <1> QED
    BY <1>3, <1>5, <1>6 DEF OneUnit

LEMMA EditsAreOfOneUnit ==
  ASSUME JInv, ~corrupted, NEW t \in Tabs, Edits(t)
  PROVE  UNCHANGED disk \/ OneUnit(disk', disk)
  <1>1. t \in Open /\ IInv
    BY DEF Edits, JInv
  <1>2. Readable /\ SameData(Synced(mem[t]), disk) /\ Sound(Synced(mem[t]))
    BY <1>1, ReadableUnlessCorrupted, SyncedIsCurrent, OpenIsSound
  <1>3. ASSUME NEW p \in Snapshot, NEW keep \in BOOLEAN, NEW reset \in SUBSET Units,
               Stores(t, p, keep, reset)
        PROVE  OneUnit(disk', disk)
    <2>1. PICK now \in Clock : disk' = ToStore(p, keep, reset, now)
      BY <1>3 DEF Stores, Persist, Store
    <2>2. /\ UnitEdit(Synced(mem[t]), p, reset)
          /\ p.startedAt = Synced(mem[t]).startedAt
      BY <1>3 DEF Stores, SoundEdit
    <2> QED
      BY <1>1, <1>2, <2>1, <2>2, ToStoreIsOneUnit
  <1> QED
    BY <1>1, <1>3 DEF Edits, OnlySync

LEMMA OneUnitIsWork ==
  ASSUME disk # None, disk' # None, OneUnit(disk', disk)
  PROVE  (\E u \in Units : Shared!Work(u)) \/ View' = View
  <1>1. PICK u \in Units :
          /\ \A v \in Units \ {u} : Recorded(disk', v) = Recorded(disk, v)
          /\ Changed(Recorded(disk, u), Recorded(disk', u))
    BY DEF OneUnit
  <1>2. /\ View = [v \in Units |-> Recorded(disk, v)]
        /\ View' = [v \in Units |-> Recorded(disk', v)]
    BY DEF View
  <1>3. View' = [View EXCEPT ![u] = View'[u]]
    BY <1>1, <1>2
  <1>4. View[u] = Recorded(disk, u) /\ View'[u] = Recorded(disk', u)
    BY <1>2
  <1>5. CASE Recorded(disk', u) = Recorded(disk, u)
    BY <1>1, <1>2, <1>5
  <1>6. CASE Shared!Becomes(Recorded(disk, u), Recorded(disk', u))
    BY <1>3, <1>4, <1>6 DEF Shared!Work
  <1> QED
    BY <1>1, <1>5, <1>6 DEF Changed

LEMMA ViewOfDefault ==
  ASSUME NEW now
  PROVE  [u \in Units |-> Recorded(DefaultProgress(now), u)] = [u \in Units |-> Shared!Untouched]
  <1>1. ASSUME NEW u \in Units
        PROVE  Recorded(DefaultProgress(now), u) = Shared!Untouched
    BY DEF Recorded, DefaultProgress, Shared!Untouched, CompletionPath
  <1> QED
    BY <1>1

LEMMA ViewType == IInv => View \in [Units -> Shared!UnitProgress]
  <1> SUFFICES ASSUME IInv
               PROVE  View \in [Units -> Shared!UnitProgress]
    OBVIOUS
  <1> DEFINE d == IF disk = None THEN DefaultProgress(0) ELSE disk
  <1>1. d \in Snapshot
    BY DefaultType DEF IInv, TypeOK
  <1> HIDE DEF d
  <1>2. ASSUME NEW u \in Units
        PROVE  Recorded(d, u) \in Shared!UnitProgress
    BY <1>1 DEF Recorded, Snapshot, Shared!UnitProgress, CompletionPath
  <1> QED
    BY <1>2 DEF View, d

LEMMA EditsStore ==
  ASSUME IInv, NEW t \in Tabs, Edits(t)
  PROVE  /\ UNCHANGED disk \/ disk' # None
         /\ corrupted => corrupted'
  <1>1. ASSUME NEW p \in Snapshot, NEW keep \in BOOLEAN, NEW reset \in SUBSET Units,
               Stores(t, p, keep, reset)
        PROVE  disk' # None /\ (corrupted => corrupted')
    <2>1. PICK now \in Clock : Store(t, ToStore(p, keep, reset, now))
      BY <1>1 DEF Stores, Persist
    <2>2. ToStore(p, keep, reset, now) \in Snapshot
      BY ToStoreType DEF IInv
    <2> QED
      BY <2>1, <2>2 DEF Store
  <1> QED
    BY <1>1 DEF Edits, OnlySync

LEMMA DamageStays ==
  ASSUME IInv, corrupted, Next
  PROVE  corrupted'
  <1>1. PICK t \in Tabs : \/ LoadProgress(t)
                          \/ CloseTab(t)
                          \/ SyncExternalProgress(t)
                          \/ Edits(t)
                          \/ ResetAllProgress(t)
    BY StepCases
  <1>2. CASE Edits(t)
    BY <1>2, EditsStore
  <1> QED
    BY <1>1, <1>2
       DEF LoadProgress, CloseTab, SyncExternalProgress, ResetAllProgress, Store

\* A write while everything stored was valid.
LEMMA WriteIsEdit ==
  ASSUME JInv, JInv', ~corrupted, Next
  PROVE  (\E u \in Units : Shared!Work(u)) \/ Shared!StartOver \/ View' = View
  <1>1. IInv /\ IInv' /\ (disk # None => Readable)
    BY DEF JInv, Readable
  <1>2. PICK t \in Tabs : \/ LoadProgress(t)
                          \/ CloseTab(t)
                          \/ SyncExternalProgress(t)
                          \/ Edits(t)
                          \/ ResetAllProgress(t)
    BY <1>1, StepCases
  <1>3. disk' = disk => View' = View
    BY DEF View
  <1>4. ASSUME NEW now, disk' = DefaultProgress(now), disk' # None
        PROVE  Shared!StartOver
    BY <1>4, ViewOfDefault DEF View, Shared!StartOver
  <1>5. CASE LoadProgress(t)
    <2>1. ASSUME NEW now \in Clock, Store(t, DefaultProgress(now))
          PROVE  Shared!StartOver
      BY <1>4, <2>1, DefaultType DEF Store
    <2> QED
      BY <1>3, <1>5, <2>1 DEF LoadProgress
  <1>6. CASE CloseTab(t) \/ SyncExternalProgress(t)
    BY <1>3, <1>6 DEF CloseTab, SyncExternalProgress
  <1>7. CASE Edits(t)
    <2>1. disk # None
      BY <1>7, ReadableUnlessCorrupted DEF Edits, Readable
    <2>2. UNCHANGED disk \/ disk' # None
      BY <1>1, <1>7, EditsStore
    <2> QED
      BY <1>1, <1>3, <1>7, <2>1, <2>2, EditsAreOfOneUnit, OneUnitIsWork
  <1>8. CASE ResetAllProgress(t)
    <2>1. PICK now \in Clock :
            disk' = [DefaultProgress(ResetTime(now)) EXCEPT !.updatedAt = ResetTime(now) + 1]
      BY <1>8 DEF ResetAllProgress, Store
    <2>2. disk' \in Snapshot
      BY <1>1, <1>8, ResetWrites DEF Store
    <2>3. \A u \in Units : Recorded(disk', u) = Recorded(DefaultProgress(ResetTime(now)), u)
      BY <2>1 DEF Recorded, DefaultProgress
    <2> QED
      BY <2>2, <2>3, ViewOfDefault DEF View, Shared!StartOver
  <1> QED
    BY <1>2, <1>5, <1>6, <1>7, <1>8

\* However many tabs there are, and however stale each of them is, together they
\* are one record of the learner's progress that is edited one operation at a
\* time, until something unreadable has been stored.
THEOREM TabsShareOneRecord == Spec => SharedRecord
  <1>1. Init => Shared!Init
    BY InitIInv, ViewType DEF Init, Shared!Init
  <1>2. JInv /\ JInv' /\ [Next]_vars => [Shared!Next]_<<View, corrupted>>
    <2> SUFFICES ASSUME JInv, JInv', [Next]_vars
                 PROVE  Shared!Next \/ UNCHANGED <<View, corrupted>>
      OBVIOUS
    <2>1. IInv /\ IInv' /\ corrupted \in BOOLEAN /\ corrupted' \in BOOLEAN
      BY DEF JInv, IInv, TypeOK
    <2>2. CASE UNCHANGED vars
      BY <2>2 DEF vars, View
    <2>3. CASE Next /\ ~corrupted
      BY <2>1, <2>3, WriteIsEdit DEF Shared!Next, Shared!Edit
    <2>4. CASE Next /\ corrupted
      <3>1. corrupted'
        BY <2>1, <2>4, DamageStays
      <3>2. View' \in [Units -> Shared!UnitProgress]
        <4>1. (IInv => View \in [Units -> Shared!UnitProgress])'
          BY ViewType, PTL
        <4> QED
          BY <2>1, <4>1
      <3> QED
        BY <2>4, <3>1, <3>2 DEF Shared!Next, Shared!Rewrite
    <2> QED
      BY <2>1, <2>2, <2>3, <2>4
  <1>3. Spec => []JInv
    BY InitIsJ, NextKeepsJInv, PTL DEF Spec
  <1> QED
    BY <1>1, <1>2, <1>3, PTL DEF Spec, SharedRecord, Shared!Spec
-----------------------------------------------------------------------------
(***************************************************************************)
(* Lists of anomalies.                                                     *)
(***************************************************************************)
\* The function that Kept is read from.
IsKept(list, wanted, kept) ==
    kept = [n \in 0..Len(list) |->
              IF n = 0 THEN <<>>
              ELSE IF list[n] \in wanted THEN Append(kept[n - 1], list[n]) ELSE kept[n - 1]]

LEMMA KeptExists ==
  ASSUME NEW A, NEW list \in Seq(A), NEW wanted
  PROVE  \E kept : IsKept(list, wanted, kept)
  <1> DEFINE next(k, n) == IF list[n] \in wanted THEN Append(k, list[n]) ELSE k
             UpTo(n, f) == f = [i \in 0..n |-> IF i = 0 THEN <<>> ELSE next(f[i - 1], i)]
             T == {n \in 0..Len(list) : ~ \E f : UpTo(n, f)}
  <1>1. SUFFICES ASSUME T # {} PROVE FALSE
    BY DEF IsKept
  <1>2. PICK n \in T : n - 1 \notin T
    <2>1. T \subseteq 0..Len(list) /\ Len(list) \in Nat
      OBVIOUS
    <2> HIDE DEF T
    <2> QED
      BY <1>1, <2>1, NatSteps
  <1>3. CASE n = 0
    <2>1. UpTo(0, [i \in 0..0 |-> <<>>])
      OBVIOUS
    <2> QED
      BY <1>3, <2>1
  <1>4. CASE n # 0
    <2>1. n - 1 \in 0..Len(list)
      BY <1>4
    <2>2. PICK f : UpTo(n - 1, f)
      BY <1>2, <2>1
    <2> HIDE DEF next
    <2> DEFINE g == [i \in 0..n |-> IF i = n THEN next(f[n - 1], n) ELSE f[i]]
    <2>3. ASSUME NEW i \in 0..n
          PROVE  g[i] = IF i = 0 THEN <<>> ELSE next(g[i - 1], i)
      BY <1>4, <2>2
    <2>4. g = [i \in 0..n |-> IF i = 0 THEN <<>> ELSE next(g[i - 1], i)]
      <3> HIDE DEF g
      <3>1. g = [i \in 0..n |-> g[i]]
        BY DEF g
      <3> QED
        BY <2>3, <3>1
    <2>5. \E h : UpTo(n, h)
      BY <2>4
    <2> QED
      BY <2>5
  <1> QED
    BY <1>3, <1>4

LEMMA KeptElements ==
  ASSUME NEW A, NEW list \in Seq(A), NEW wanted
  PROVE  /\ Kept(list, wanted) \in Seq(A)
         /\ \A i \in DOMAIN Kept(list, wanted) :
              /\ Kept(list, wanted)[i] \in wanted
              /\ \E j \in DOMAIN list : list[j] = Kept(list, wanted)[i]
  <1> DEFINE B == {a \in A : a \in wanted /\ \E j \in DOMAIN list : list[j] = a}
             kept == CHOOSE f : IsKept(list, wanted, f)
  <1>1. IsKept(list, wanted, kept)
    BY KeptExists
  <1>2. Kept(list, wanted) = kept[Len(list)]
    BY DEF Kept, IsKept
  <1> HIDE DEF kept
  <1> DEFINE T == {n \in 0..Len(list) : kept[n] \notin Seq(B)}
  <1>3. T = {}
    <2> SUFFICES ASSUME T # {} PROVE FALSE
      OBVIOUS
    <2>1. PICK n \in T : n - 1 \notin T
      <3>1. T \subseteq 0..Len(list) /\ Len(list) \in Nat
        OBVIOUS
      <3> HIDE DEF T
      <3> QED
        BY <3>1, NatSteps
    <2>2. kept[n] = IF n = 0 THEN <<>>
                    ELSE IF list[n] \in wanted THEN Append(kept[n - 1], list[n])
                    ELSE kept[n - 1]
      BY <1>1 DEF IsKept
    <2>3. n # 0 => kept[n - 1] \in Seq(B)
      BY <2>1
    <2>4. n # 0 /\ list[n] \in wanted => list[n] \in B
      OBVIOUS
    <2> HIDE DEF B
    <2>5. kept[n] \in Seq(B)
      BY <2>2, <2>3, <2>4
    <2> QED
      BY <2>5
  <1>4. Kept(list, wanted) \in Seq(B)
    BY <1>2, <1>3
  <1> QED
    BY <1>4

LEMMA ListOfSet ==
  ASSUME NEW S, IsFiniteSet(S)
  PROVE  SetToSeq(S) \in Seq(S)
  <1>1. ExistsBijection(1..Cardinality(S), S) /\ Cardinality(S) \in Nat
    BY FS_CardinalityType
  <1>2. PICK f \in [1..Cardinality(S) -> S] : IsInjective(f)
    BY <1>1 DEF ExistsBijection, Bijection, Injection, IsInjective
  <1>3. SetToSeq(S) \in [1..Cardinality(S) -> S]
    BY <1>2 DEF SetToSeq
  <1> QED
    BY <1>1, <1>3

-----------------------------------------------------------------------------
(***************************************************************************)
(* A popup is about the unit its primary action would reset.               *)
(***************************************************************************)

\* Nothing but anomalies without a unit, and of the module m about unit u.
AboutUnits(s, q) == \A i \in DOMAIN q : q[i][2] # None => q[i][2] = UnitOn(s, q[i][1])

\* The anomalies about guides that the list q shows are those of p.
NoNewGuides(p, q) ==
    \A i \in DOMAIN q : q[i][2] # None => \E j \in DOMAIN p : p[j] = q[i]

LEMMA BlockingIsFinite ==
  ASSUME NEW s, NEW mode, NEW m \in Modules
  PROVE  /\ Blocking(s, mode, m) \subseteq Anomalies
         /\ IsFiniteSet(Blocking(s, mode, m))
         /\ \A a \in Blocking(s, mode, m) : a[1] = m /\ a[2] = UnitOn(s, m)
  <1>1. UnitsOf(m) \subseteq Units
    BY UnitFacts DEF UnitsOf, Units
  <1>2. Blocking(s, mode, m) \subseteq {<<m, UnitOn(s, m)>>}
    BY DEF Blocking
  <1>3. IsFiniteSet(Blocking(s, mode, m))
    BY <1>2, FS_Singleton, FS_Subset
  <1>4. Blocking(s, mode, m) \subseteq Anomalies
    BY <1>1 DEF Blocking, Anomalies
  <1> QED
    BY <1>2, <1>3, <1>4

LEMMA ReportElements ==
  ASSUME NEW detected \in Seq(Anomalies), NEW dismissed, NEW found,
         IsFiniteSet(found), found \subseteq Anomalies
  PROVE  /\ Report(detected, dismissed, found) \in Seq(Anomalies)
         /\ \A i \in DOMAIN Report(detected, dismissed, found) :
              \/ Report(detected, dismissed, found)[i] \in found
              \/ \E j \in DOMAIN detected : detected[j] = Report(detected, dismissed, found)[i]
  <1> DEFINE new == found \ (dismissed \cup ToSet(detected))
  <1>1. IsFiniteSet(new) /\ new \subseteq found
    BY FS_Subset
  <1> HIDE DEF new
  <1>2. SetToSeq(new) \in Seq(new)
    BY <1>1, ListOfSet
  <1> DEFINE list == SetToSeq(new)
  <1> HIDE DEF list
  <1>3. list \in Seq(new) /\ list \in Seq(Anomalies)
    BY <1>1, <1>2 DEF list
  <1>4. Report(detected, dismissed, found) = detected \o list
    BY DEF Report, new, list
  <1>5. detected \o list \in Seq(Anomalies)
    BY <1>3
  <1>6. ASSUME NEW i \in DOMAIN (detected \o list)
        PROVE  \/ (detected \o list)[i] \in found
               \/ \E j \in DOMAIN detected : detected[j] = (detected \o list)[i]
    BY <1>1, <1>3
  <1> QED
    BY <1>4, <1>5, <1>6

\* What one check of a module leaves: of that module, what holds now.
LEMMA CheckElements ==
  ASSUME NEW d \in Seq(Anomalies), NEW dismissed, NEW s, NEW mode, NEW m \in Modules
  PROVE  LET new == Reconcile(Report(d, dismissed, Blocking(s, mode, m)), m,
                              Blocking(s, mode, m))
         IN  /\ new \in Seq(Anomalies)
             /\ \A i \in DOMAIN new : new[i][2] # None =>
                  \/ new[i][1] = m /\ new[i][2] = UnitOn(s, m)
                  \/ new[i][1] # m /\ \E j \in DOMAIN d : d[j] = new[i]
  <1> DEFINE found == Blocking(s, mode, m)
             told == Report(d, dismissed, found)
             wanted == {a \in Anomalies : a[1] # m \/ a[2] = None \/ a \in found}
             new == Kept(told, wanted)
  <1>1. /\ found \subseteq Anomalies /\ IsFiniteSet(found)
        /\ \A a \in found : a[1] = m /\ a[2] = UnitOn(s, m)
    BY BlockingIsFinite
  <1> HIDE DEF found
  <1>2. /\ told \in Seq(Anomalies)
        /\ \A i \in DOMAIN told : told[i] \in found \/ \E j \in DOMAIN d : d[j] = told[i]
    BY <1>1, ReportElements
  <1> HIDE DEF told
  <1>3. /\ new \in Seq(Anomalies)
        /\ \A i \in DOMAIN new : new[i] \in wanted /\ \E j \in DOMAIN told : told[j] = new[i]
    <2> HIDE DEF wanted
    <2> QED
      BY <1>2, KeptElements
  <1>4. Reconcile(Report(d, dismissed, Blocking(s, mode, m)), m, Blocking(s, mode, m)) = new
    BY DEF Reconcile, found, told
  <1> HIDE DEF new
  <1>5. ASSUME NEW i \in DOMAIN new, new[i][2] # None
        PROVE  \/ new[i][1] = m /\ new[i][2] = UnitOn(s, m)
               \/ new[i][1] # m /\ \E j \in DOMAIN d : d[j] = new[i]
    <2>1. new[i] \in found \/ \E j \in DOMAIN d : d[j] = new[i]
      BY <1>2, <1>3
    <2>2. new[i][1] # m \/ new[i] \in found
      BY <1>3, <1>5
    <2> QED
      BY <1>1, <2>1, <2>2
  <1> QED
    BY <1>3, <1>4, <1>5

LEMMA CheckedIsAboutUnits ==
  ASSUME NEW d \in Seq(Anomalies), NEW dismissed, NEW s, NEW mode
  PROVE  /\ CheckBlockingAnomalies(d, dismissed, s, mode) \in Seq(Anomalies)
         /\ AboutUnits(s, CheckBlockingAnomalies(d, dismissed, s, mode))
  <1> DEFINE check(e, m) == Reconcile(Report(e, dismissed, Blocking(s, mode, m)), m,
                                      Blocking(s, mode, m))
             one == check(d, "seclab")
             two == check(one, "pwnhub")
  <1>1. /\ one \in Seq(Anomalies)
        /\ \A i \in DOMAIN one : one[i][2] # None =>
             \/ one[i][1] = "seclab" /\ one[i][2] = UnitOn(s, "seclab")
             \/ one[i][1] # "seclab"
    BY CheckElements DEF Modules
  <1> HIDE DEF one
  <1>2. /\ two \in Seq(Anomalies)
        /\ \A i \in DOMAIN two : two[i][2] # None =>
             \/ two[i][1] = "pwnhub" /\ two[i][2] = UnitOn(s, "pwnhub")
             \/ two[i][1] # "pwnhub" /\ \E j \in DOMAIN one : one[j] = two[i]
    BY <1>1, CheckElements DEF Modules
  <1>3. CheckBlockingAnomalies(d, dismissed, s, mode) = two
    BY DEF CheckBlockingAnomalies, one
  <1> HIDE DEF two
  <1>4. ASSUME NEW i \in DOMAIN two, two[i][2] # None
        PROVE  two[i][2] = UnitOn(s, two[i][1])
    <2>1. two[i] \in Anomalies
      BY <1>2
    <2>2. two[i][1] \in {"seclab", "pwnhub"}
      BY <2>1 DEF Anomalies, Modules
    <2> QED
      BY <1>1, <1>2, <1>4, <2>2
  <1> QED
    BY <1>2, <1>3, <1>4 DEF AboutUnits

-----------------------------------------------------------------------------
(***************************************************************************)
(* A step of the page is a page load, a page that closes, or a handler of  *)
(* an open tab, which ends with the watchers.                              *)
(***************************************************************************)

\* What a handler does to the progress.
Progresses(t) ==
    SyncExternalProgress(t) \/ Edits(t) \/ ResetAllProgress(t) \/ UNCHANGED vars

Handler(t) ==
    /\ t \in Open
    /\ Progresses(t)
    /\ \E p \in Page : NoNewGuides(page[t].detected, p.detected) /\ Handled(t, p)

PathTypeOK == page \in [Tabs -> Page \cup {None}]
PagesAreOpen == \A t \in Tabs : page[t] = None <=> mem[t] = None

\* What the panel remembers is recorded for the unit on screen.
LocalIsPersisted == \A t \in Open : page[t].local \subseteq mem[t].completedSteps[Unit(t)]

PathInv == IInv /\ PathTypeOK /\ PagesAreOpen /\ LocalIsPersisted /\ PopupIsForThisUnit

LEMMA OpenPage ==
  ASSUME PathInv, NEW t \in Open
  PROVE  /\ t \in Tabs /\ mem[t] \in Snapshot /\ page[t] \in Page
         /\ Unit(t) \in Units
  <1>1. t \in Tabs /\ mem[t] \in Snapshot /\ page[t] \in Page
    BY DEF PathInv, IInv, TypeOK, PathTypeOK, PagesAreOpen, Open
  <1> QED
    BY <1>1, UnitFacts DEF Unit, UnitOn, Snapshot

\* The fields a handler changes keep their types.
LEMMA PageFields ==
  ASSUME NEW p \in Page
  PROVE  /\ p.shown \in Modules /\ p.mode \in Modes \cup {None} /\ p.local \in SUBSET Steps
         /\ p.visible \in Nat /\ p.detected \in Seq(Anomalies)
         /\ \A m \in Modules : [p EXCEPT !.shown = m] \in Page
         /\ \A mode \in Modes : [p EXCEPT !.mode = mode] \in Page
         /\ \A x \in Steps : [p EXCEPT !.local = @ \cup {x}] \in Page
         /\ \A n \in Nat : [p EXCEPT !.visible = n] \in Page
         /\ \A d \in Seq(Anomalies) : [p EXCEPT !.detected = d] \in Page
         /\ \A d \in Seq(Anomalies), a \in Anomalies :
              /\ [p EXCEPT !.detected = d, !.dismissed = @ \cup {a}] \in Page
              /\ [p EXCEPT !.detected = d, !.dismissed = @ \ {a}] \in Page
         /\ \A todo \in {"none", "mark", "reload"} : [p EXCEPT !.todo = todo] \in Page
  BY DEF Page

LEMMA SameGuides ==
  ASSUME NEW p
  PROVE  NoNewGuides(p, p)
  BY DEF NoNewGuides

LEMMA StepOnScreen ==
  ASSUME PathInv, NEW t \in Open
  PROVE  CurrentStep(t) \in Steps
  <1>1. mem[t] \in Snapshot /\ page[t] \in Page /\ Unit(t) \in Units
    BY OpenPage
  <1>2. mem[t].guideSteps[Unit(t)] \in Nat /\ page[t].visible \in Nat
    BY <1>1 DEF Snapshot, Page
  <1>3. Furthest(mem[t], Unit(t)) \in 0..GuideLength - 1
    BY <1>2, PathAssumption, ConstantsAssumption DEF Furthest, Smaller
  <1> DEFINE furthest == Furthest(mem[t], Unit(t))
  <1>4. CurrentStep(t) = 1 + IF page[t].shown = "seclab" THEN furthest
                             ELSE Smaller(page[t].visible, furthest)
    BY DEF CurrentStep
  <1> HIDE DEF furthest
  <1>5. furthest \in 0..GuideLength - 1
    BY <1>3 DEF furthest
  <1>6. CurrentStep(t) \in 1..GuideLength
    BY <1>2, <1>4, <1>5, ConstantsAssumption DEF Smaller
  <1> QED
    BY <1>6, PathAssumption

LEMMA HeadOfPopup ==
  ASSUME PathInv, NEW t \in Open, Popup(t) # <<>>
  PROVE  Head(Popup(t)) \in Anomalies
  <1>1. page[t].detected \in Seq(Anomalies)
    BY OpenPage DEF Page
  <1>2. Popup(t) \in Seq(Anomalies)
    BY <1>1, KeptElements DEF Popup, PendingFor
  <1> QED
    BY <1>2

LEMMA WithoutElements ==
  ASSUME NEW d \in Seq(Anomalies), NEW a
  PROVE  Without(d, a) \in Seq(Anomalies) /\ NoNewGuides(d, Without(d, a))
  <1> DEFINE others == Anomalies \ {a}
             kept == Kept(d, others)
  <1>1. Without(d, a) = kept
    BY DEF Without
  <1> HIDE DEF others
  <1>2. /\ kept \in Seq(Anomalies)
        /\ \A i \in DOMAIN kept : \E j \in DOMAIN d : d[j] = kept[i]
    BY KeptElements
  <1> HIDE DEF kept
  <1> QED
    BY <1>1, <1>2 DEF NoNewGuides

LEMMA EventHandler ==
  ASSUME PathInv, NEW t \in Tabs, ProgressEvent(t)
  PROVE  Handler(t)
  <1>1. t \in Open
    BY DEF ProgressEvent, Idle
  <1> QED
    BY <1>1, OpenPage, SameGuides DEF ProgressEvent, Handler, Progresses

LEMMA ShowHandler ==
  ASSUME PathInv, NEW t \in Tabs, NEW m \in Modules, ShowModule(t, m)
  PROVE  Handler(t)
  <1>1. t \in Open /\ page[t] \in Page
    BY OpenPage DEF ShowModule, InWorkspace, Idle
  <1> DEFINE p == [page[t] EXCEPT !.shown = m]
  <1>2. p \in Page /\ p.detected = page[t].detected
    BY <1>1, PageFields DEF Page
  <1>3. Handled(t, p) /\ UNCHANGED vars
    BY DEF ShowModule
  <1> HIDE DEF p
  <1> QED
    BY <1>1, <1>2, <1>3, SameGuides DEF Handler, Progresses

LEMMA NavigatedHandler ==
  ASSUME PathInv, NEW t \in Tabs, Navigated(t)
  PROVE  Handler(t)
  <1>1. t \in Open
    BY DEF Navigated, Idle
  <1>2. Edits(t)
    BY NavigateEdits DEF Navigated, Navigate, PathInv
  <1> QED
    BY <1>1, <1>2, OpenPage, SameGuides DEF Navigated, Handler, Progresses

LEMMA PassedHandler ==
  ASSUME PathInv, NEW t \in Tabs, Passed(t)
  PROVE  Handler(t)
  <1>1. t \in Open
    BY DEF Passed, Idle
  <1>2. page[t] \in Page /\ Unit(t) \in Units
    BY <1>1, OpenPage
  <1>3. page[t].mode \in Modes /\ Complete(t, Unit(t), page[t].mode)
    BY <1>2 DEF Passed, Page
  <1>4. Edits(t)
    BY <1>2, <1>3, CompleteEdits DEF PathInv
  <1> QED
    BY <1>1, <1>2, <1>4, SameGuides DEF Passed, Handler, Progresses

LEMMA ChangeModeHandler ==
  ASSUME PathInv, NEW t \in Open, NEW mode \in Modes, ChangeMode(t, mode, page[t])
  PROVE  Handler(t)
  <1>1. t \in Tabs /\ page[t] \in Page /\ Unit(t) \in Units
    BY OpenPage
  <1>2. Progresses(t)
    BY <1>1, MarkGuidedAssistanceEdits DEF ChangeMode, Progresses, PathInv
  <1> DEFINE p == [page[t] EXCEPT !.mode = mode]
  <1>3. p \in Page /\ p.detected = page[t].detected
    BY <1>1, PageFields DEF Page
  <1>4. Handled(t, p)
    BY DEF ChangeMode
  <1> HIDE DEF p
  <1> QED
    BY <1>2, <1>3, <1>4, SameGuides DEF Handler

LEMMA LearnHandler ==
  ASSUME PathInv, NEW t \in Tabs, Learn(t)
  PROVE  Handler(t)
  <1>1. t \in Open
    BY DEF Learn, RememberStepCompletion, AdvanceStep, TurnPage, Guided, InWorkspace, Idle
  <1>2. page[t] \in Page /\ Unit(t) \in Units /\ mem[t] \in Snapshot
    BY <1>1, OpenPage
  <1>3. CASE RememberStepCompletion(t)
    <2>1. CurrentStep(t) \in Steps
      BY <1>1, StepOnScreen
    <2>2. Edits(t)
      BY <1>2, <1>3, <2>1, CompleteLearningStepEdits DEF RememberStepCompletion, PathInv
    <2> DEFINE p == [page[t] EXCEPT !.local = @ \cup {CurrentStep(t)}]
    <2>3. p \in Page
      BY <1>2, <2>1, PageFields
    <2>4. p.detected = page[t].detected
      BY <1>2 DEF Page
    <2>5. Handled(t, p)
      BY <1>3 DEF RememberStepCompletion
    <2> HIDE DEF p
    <2> QED
      BY <1>1, <2>2, <2>3, <2>4, <2>5, SameGuides DEF Handler, Progresses
  <1>4. CASE AdvanceStep(t)
    <2>1. Edits(t)
      BY <1>2, <1>4, AdvanceGuideStepEdits DEF AdvanceStep, PathInv
    <2> QED
      BY <1>1, <1>2, <1>4, <2>1, SameGuides DEF AdvanceStep, Handler, Progresses
  <1>5. CASE TurnPage(t)
    <2>1. PICK i \in Nat : Handled(t, [page[t] EXCEPT !.visible = i])
      BY <1>5 DEF TurnPage
    <2> DEFINE p == [page[t] EXCEPT !.visible = i]
    <2>2. p \in Page /\ p.detected = page[t].detected
      BY <1>2, PageFields DEF Page
    <2>3. Handled(t, p) /\ UNCHANGED vars
      BY <1>5, <2>1 DEF TurnPage
    <2> HIDE DEF p
    <2> QED
      BY <1>1, <2>2, <2>3, SameGuides DEF Handler, Progresses
  <1> QED
    BY <1>3, <1>4, <1>5 DEF Learn

LEMMA ResetHandler ==
  ASSUME PathInv, NEW t \in Open, NEW p \in Page, p.mode = page[t].mode,
         NoNewGuides(page[t].detected, p.detected), ResetUnit(t, p)
  PROVE  Handler(t)
  <1>1. t \in Tabs /\ Unit(t) \in Units
    BY OpenPage
  <1>2. Edits(t)
    BY <1>1, ResetAttemptEdits DEF ResetUnit, PathInv
  <1> DEFINE q == [p EXCEPT !.todo = IF p.mode = "guided" THEN "mark" ELSE "none"]
  <1>3. q \in Page
    BY PageFields
  <1>4. q.detected = p.detected
    BY DEF Page
  <1>5. Handled(t, q)
    BY DEF ResetUnit
  <1> HIDE DEF q
  <1> QED
    BY <1>2, <1>3, <1>4, <1>5 DEF Handler, Progresses

LEMMA ResetsHandler ==
  ASSUME PathInv, NEW t \in Tabs, HandleResetLevel(t) \/ MarkGuided(t) \/ HandleResetAll(t)
  PROVE  Handler(t)
  <1>1. t \in Open
    BY DEF HandleResetLevel, MarkGuided, HandleResetAll, InWorkspace, Idle
  <1>2. page[t] \in Page /\ Unit(t) \in Units
    BY <1>1, OpenPage
  <1>3. CASE HandleResetLevel(t)
    BY <1>1, <1>2, <1>3, ResetHandler, SameGuides DEF HandleResetLevel
  <1>4. CASE MarkGuided(t) \/ HandleResetAll(t)
    <2>1. Progresses(t)
      BY <1>2, <1>4, MarkGuidedAssistanceEdits
         DEF MarkGuided, HandleResetAll, Progresses, PathInv
    <2>2. PICK todo \in {"none", "mark", "reload"} :
             Handled(t, [page[t] EXCEPT !.todo = todo])
      BY <1>4 DEF MarkGuided, HandleResetAll
    <2> DEFINE p == [page[t] EXCEPT !.todo = todo]
    <2>3. p \in Page /\ p.detected = page[t].detected
      BY <1>2, PageFields DEF Page
    <2>4. Handled(t, p)
      BY <2>2
    <2> HIDE DEF p
    <2> QED
      BY <1>1, <2>1, <2>3, <2>4, SameGuides DEF Handler
  <1> QED
    BY <1>3, <1>4

LEMMA KeyMissingHandler ==
  ASSUME PathInv, NEW t \in Tabs, KeyMissing(t)
  PROVE  Handler(t)
  <1>1. t \in Open
    BY DEF KeyMissing, Idle
  <1>2. page[t] \in Page
    BY <1>1, OpenPage
  <1> DEFINE found == {<<page[t].shown, None>>}
             d == Report(page[t].detected, page[t].dismissed, found)
             p == [page[t] EXCEPT !.detected = d]
  <1>3. found \subseteq Anomalies /\ IsFiniteSet(found)
    <2>1. page[t].shown \in Modules
      BY <1>2, PageFields
    <2>2. found \subseteq Anomalies
      BY <2>1 DEF Anomalies
    <2> QED
      BY <2>2, FS_Singleton
  <1>4. page[t].detected \in Seq(Anomalies)
    BY <1>2 DEF Page
  <1>5. /\ d \in Seq(Anomalies)
        /\ \A i \in DOMAIN d :
             d[i] \in found \/ \E j \in DOMAIN page[t].detected : page[t].detected[j] = d[i]
    <2> HIDE DEF found
    <2> QED
      BY <1>3, <1>4, ReportElements
  <1>6. Handled(t, p) /\ UNCHANGED vars
    BY DEF KeyMissing
  <1>7. NoNewGuides(page[t].detected, d)
    <2> HIDE DEF d
    <2> QED
      BY <1>5 DEF NoNewGuides
  <1> HIDE DEF d
  <1>8. p \in Page /\ p.detected = d
    BY <1>2, <1>5, PageFields DEF Page
  <1> HIDE DEF p
  <1> QED
    BY <1>1, <1>6, <1>7, <1>8 DEF Handler, Progresses

LEMMA AnswerHandler ==
  ASSUME PathInv, NEW t \in Tabs, Answer(t)
  PROVE  Handler(t)
  <1>1. t \in Open /\ Popup(t) # <<>>
    BY DEF Answer, BugReportDismiss, BugReportPrimaryAction, BugReportSecondaryAction, Idle
  <1>2. page[t] \in Page
    BY <1>1, OpenPage
  <1> DEFINE a == Head(Popup(t))
             d == Without(page[t].detected, a)
  <1>3. a \in Anomalies
    BY <1>1, HeadOfPopup
  <1> HIDE DEF a
  <1>4. d \in Seq(Anomalies) /\ NoNewGuides(page[t].detected, d)
    BY <1>2, WithoutElements DEF Page
  <1> HIDE DEF d
  <1>5. CASE BugReportDismiss(t)
    <2> DEFINE p == [page[t] EXCEPT !.detected = d, !.dismissed = @ \cup {a}]
    <2>1. p \in Page
      BY <1>2, <1>3, <1>4, PageFields
    <2>2. p.detected = d
      BY <1>2 DEF Page
    <2>3. Handled(t, p) /\ UNCHANGED vars
      BY <1>5 DEF BugReportDismiss, a, d
    <2> HIDE DEF p
    <2> QED
      BY <1>1, <1>4, <2>1, <2>2, <2>3 DEF Handler, Progresses
  <1>6. CASE BugReportPrimaryAction(t)
    <2> DEFINE p == [page[t] EXCEPT !.detected = d, !.dismissed = @ \ {a}]
    <2>1. p \in Page
      BY <1>2, <1>3, <1>4, PageFields
    <2>2. p.detected = d /\ p.mode = page[t].mode
      BY <1>2 DEF Page
    <2>3. ResetUnit(t, p) \/ (UNCHANGED vars /\ Handled(t, p))
      BY <1>6 DEF BugReportPrimaryAction, a, d
    <2> HIDE DEF p
    <2> QED
      BY <1>1, <1>4, <2>1, <2>2, <2>3, ResetHandler DEF Handler, Progresses
  <1>7. CASE BugReportSecondaryAction(t)
    BY <1>1, <1>7, ChangeModeHandler DEF BugReportSecondaryAction, Modes
  <1> QED
    BY <1>5, <1>6, <1>7 DEF Answer

LEMMA PathCases ==
  ASSUME PathInv, PathNext
  PROVE  \E t \in Tabs : LoadPage(t) \/ ClosePage(t) \/ Handler(t)
  <1>1. PICK t \in Tabs :
        \/ LoadPage(t) \/ ClosePage(t) \/ ProgressEvent(t) \/ KeyMissing(t)
        \/ \E m \in Modules : ShowModule(t, m)
        \/ Navigated(t) \/ Passed(t) \/ HandleChangeMode(t)
        \/ Learn(t) \/ Answer(t)
        \/ HandleResetLevel(t) \/ MarkGuided(t) \/ HandleResetAll(t)
    BY DEF PathNext
  <1>2. CASE HandleChangeMode(t)
    BY <1>2, ChangeModeHandler DEF HandleChangeMode, InWorkspace, Idle
  <1> QED
    BY <1>1, <1>2, EventHandler, KeyMissingHandler, ShowHandler, NavigatedHandler,
       PassedHandler, LearnHandler, AnswerHandler, ResetsHandler

LEMMA ProgressesKeepsIInv ==
  ASSUME IInv, NEW t \in Tabs, Progresses(t)
  PROVE  IInv'
  <1>1. CASE UNCHANGED vars
    BY <1>1 DEF vars, IInv, TypeOK, CompletionHasRecord, Open
  <1>2. CASE ResetAllProgress(t)
    BY <1>2, ResetWrites, StoreKeepsIInv DEF Sound
  <1> QED
    BY <1>1, <1>2, EditsKeepIInv, TabLifeKeepsIInv DEF Progresses

\* The handlers of a tab change its copy of the progress only.
LEMMA ProgressesOfTab ==
  ASSUME IInv, NEW t \in Open, Progresses(t)
  PROVE  \E copy \in Snapshot : mem' = [mem EXCEPT ![t] = copy]
  <1>1. t \in Tabs /\ mem[t] \in Snapshot /\ Sound(Synced(mem[t]))
    BY OpenIsSound DEF Sound
  <1>2. mem = [mem EXCEPT ![t] = mem[t]]
    BY DEF IInv, TypeOK
  <1>3. CASE SyncExternalProgress(t)
    <2>1. Readable => ApplySynced(mem[t], disk) \in Snapshot
      BY SyncedCopyIsSound DEF Sound
    <2> QED
      BY <1>1, <1>2, <1>3, <2>1 DEF SyncExternalProgress
  <1>4. CASE Edits(t)
    <2>1. CASE OnlySync(t, Synced(mem[t]))
      BY <1>1, <2>1 DEF OnlySync, Sound
    <2>2. ASSUME NEW p \in Snapshot, NEW keep \in BOOLEAN, NEW reset \in SUBSET Units,
                 Stores(t, p, keep, reset)
          PROVE  \E copy \in Snapshot : mem' = [mem EXCEPT ![t] = copy]
      <3>1. PICK now \in Clock :
              mem' = [mem EXCEPT ![t] = ApplySynced(p, ToStore(p, keep, reset, now))]
        BY <2>2 DEF Stores, Persist
      <3>2. ToStore(p, keep, reset, now) \in Snapshot
        BY ToStoreType, ConstantsAssumption DEF IInv
      <3> QED
        BY <3>1, <3>2, ApplySyncedType
    <2> QED
      BY <1>4, <2>1, <2>2 DEF Edits
  <1>5. CASE ResetAllProgress(t)
    BY <1>1, <1>5, ResetWrites
  <1>6. CASE UNCHANGED vars
    BY <1>1, <1>2, <1>6 DEF vars
  <1> QED
    BY <1>3, <1>4, <1>5, <1>6 DEF Progresses

LEMMA WatchedType ==
  ASSUME PathInv, NEW t \in Open, NEW p \in Page, NEW s \in Snapshot,
         NoNewGuides(page[t].detected, p.detected)
  PROVE  /\ Watched(t, p, s) \in Page
         /\ Watched(t, p, s).local \subseteq s.completedSteps[UnitOn(s, p.shown)]
         /\ Watched(t, p, s).shown = p.shown
         /\ AboutUnits(s, Watched(t, p, s).detected)
  <1> DEFINE was == UnitOn(mem[t], page[t].shown)
             now == UnitOn(s, p.shown)
             remounted == was # now \/ p.shown # page[t].shown
             checked == \/ s.currentLevel # mem[t].currentLevel
                        \/ s.currentLabId # mem[t].currentLabId
                        \/ p.mode # page[t].mode
             local == IF remounted THEN {} ELSE StillPersisted(p.local, s.completedSteps[now])
             visible == IF remounted \/ Furthest(s, now) > Furthest(mem[t], was)
                        THEN Furthest(s, now) ELSE Smaller(p.visible, Furthest(s, now))
             detected == IF checked
                         THEN CheckBlockingAnomalies(p.detected, p.dismissed, s, p.mode)
                         ELSE p.detected
             assisted == remounted \/ p.mode # page[t].mode \/ was \in mem[t].completed
             todo == IF p.todo = "none" /\ assisted /\ IsGuided(p, s) THEN "mark"
                     ELSE p.todo
  <1>1. t \in Tabs /\ mem[t] \in Snapshot /\ page[t] \in Page
    BY OpenPage
  <1>2. now \in Units /\ was \in Units
    BY <1>1, UnitFacts DEF UnitOn, Snapshot
  <1>3. /\ local \in SUBSET Steps
        /\ local \subseteq s.completedSteps[now]
    BY <1>2, PageFields DEF StillPersisted, Snapshot
  <1>4. visible \in Nat
    <2>1. s.guideSteps[now] \in Nat /\ p.visible \in Nat
      BY <1>2, PageFields DEF Snapshot
    <2>2. Furthest(s, now) \in Nat
      BY <2>1, PathAssumption, ConstantsAssumption DEF Furthest, Smaller
    <2> HIDE DEF was, now, remounted
    <2> QED
      BY <2>1, <2>2 DEF Smaller
  <1>5. p.detected \in Seq(Anomalies)
    BY PageFields
  <1>6. detected \in Seq(Anomalies)
    BY <1>5, CheckedIsAboutUnits
  <1>7. AboutUnits(s, detected)
    <2>1. CASE checked
      BY <1>5, <2>1, CheckedIsAboutUnits
    <2>2. CASE ~checked
      <3>1. \A m : UnitOn(s, m) = UnitOn(mem[t], m)
        BY <2>2 DEF UnitOn
      <3>2. AboutUnits(mem[t], page[t].detected)
        BY <1>1, PathAssumption DEF PathInv, PopupIsForThisUnit, AboutUnits
      <3>3. AboutUnits(s, p.detected)
        BY <3>1, <3>2 DEF AboutUnits, NoNewGuides
      <3> QED
        BY <2>2, <3>3
    <2> QED
      BY <2>1, <2>2
  <1> DEFINE w == [p EXCEPT !.local = local, !.visible = visible, !.detected = detected,
                         !.todo = todo]
  <1>8. Watched(t, p, s) = w
    BY DEF Watched, Page
  <1>9. todo \in {"none", "mark", "reload"}
    BY DEF Page
  <1> HIDE DEF local, visible, detected, todo
  <1>10. /\ w \in Page /\ w.local = local /\ w.shown = p.shown /\ w.detected = detected
    BY <1>3, <1>4, <1>6, <1>9 DEF Page
  <1> QED
    BY <1>3, <1>7, <1>8, <1>10

LEMMA HandlerKeepsPathInv ==
  ASSUME PathInv, NEW t \in Tabs, Handler(t)
  PROVE  PathInv'
  <1>1. t \in Open /\ IInv /\ Progresses(t)
    BY DEF Handler, PathInv
  <1>2. IInv'
    BY <1>1, ProgressesKeepsIInv
  <1>3. PICK copy \in Snapshot : mem' = [mem EXCEPT ![t] = copy]
    BY <1>1, ProgressesOfTab
  <1>4. mem'[t] = copy
    BY <1>1, <1>3 DEF IInv, TypeOK
  <1>5. PICK p \in Page : NoNewGuides(page[t].detected, p.detected) /\ Handled(t, p)
    BY DEF Handler
  <1> DEFINE w == Watched(t, p, copy)
  <1>6. page' = [page EXCEPT ![t] = w]
    BY <1>4, <1>5 DEF Handled
  <1>7. /\ w \in Page
        /\ w.local \subseteq copy.completedSteps[UnitOn(copy, p.shown)]
        /\ w.shown = p.shown
        /\ AboutUnits(copy, w.detected)
    BY <1>1, <1>5, WatchedType
  <1> HIDE DEF w
  <1>8. page'[t] = w /\ \A x \in Tabs \ {t} : page'[x] = page[x] /\ mem'[x] = mem[x]
    BY <1>1, <1>3, <1>6 DEF PathInv, PathTypeOK, IInv, TypeOK
  <1>9. PathTypeOK'
    BY <1>6, <1>7 DEF PathInv, PathTypeOK
  <1>10. PagesAreOpen'
    BY <1>4, <1>7, <1>8, PathAssumption, ConstantsAssumption DEF PathInv, PagesAreOpen
  <1>11. LocalIsPersisted'
    BY <1>4, <1>7, <1>8 DEF PathInv, LocalIsPersisted, Open, Unit
  <1>12. PopupIsForThisUnit'
    BY <1>4, <1>7, <1>8 DEF PathInv, PopupIsForThisUnit, AboutUnits
  <1> QED
    BY <1>2, <1>9, <1>10, <1>11, <1>12 DEF PathInv

LEMMA NewPageType ==
  ASSUME NEW s \in Snapshot, NEW m \in Modules, NEW mode \in Modes \cup {None}
  PROVE  /\ NewPage(s, m, mode) \in Page
         /\ NewPage(s, m, mode).local = {}
         /\ AboutUnits(s, NewPage(s, m, mode).detected)
  <1> DEFINE d == CheckBlockingAnomalies(<<>>, {}, s, mode)
             visible == Furthest(s, UnitOn(s, m))
  <1>1. d \in Seq(Anomalies) /\ AboutUnits(s, d)
    <2>1. <<>> \in Seq(Anomalies)
      OBVIOUS
    <2> QED
      BY <2>1, CheckedIsAboutUnits
  <1>2. UnitOn(s, m) \in Units
    BY UnitFacts DEF UnitOn, Snapshot
  <1>3. visible \in Nat
    BY <1>2, PathAssumption, ConstantsAssumption DEF Furthest, Smaller, Snapshot
  <1>4. PICK todo \in {"none", "mark"} : NewPage(s, m, mode) =
          [shown |-> m, mode |-> mode, local |-> {}, visible |-> visible, detected |-> d,
           dismissed |-> {}, todo |-> todo]
    BY DEF NewPage
  <1> HIDE DEF d, visible
  <1> QED
    BY <1>1, <1>3, <1>4 DEF Page

LEMMA LoadKeepsPathInv ==
  ASSUME PathInv, savedMode \in Modes \cup {None}, NEW t \in Tabs, LoadPage(t)
  PROVE  PathInv'
  <1>1. IInv' /\ t \notin Open
    BY TabLifeKeepsIInv DEF LoadPage, LoadProgress, PathInv
  <1>2. PICK copy \in Snapshot : mem' = [mem EXCEPT ![t] = copy]
    <2>1. Readable => disk \in Snapshot
      BY DEF Readable, PathInv, IInv, TypeOK
    <2>2. \A now \in Clock : DefaultProgress(now) \in Snapshot
      BY DefaultType, ConstantsAssumption
    <2> QED
      BY <2>1, <2>2 DEF LoadPage, LoadProgress
  <1>3. mem'[t] = copy
    BY <1>2 DEF PathInv, IInv, TypeOK
  <1>4. PICK m \in Modules : page' = [page EXCEPT ![t] = NewPage(copy, m, savedMode)]
    BY <1>3 DEF LoadPage
  <1> DEFINE w == NewPage(copy, m, savedMode)
  <1>5. w \in Page /\ w.local = {} /\ AboutUnits(copy, w.detected)
    BY NewPageType
  <1>6. page' = [page EXCEPT ![t] = w]
    BY <1>4
  <1> HIDE DEF w
  <1>7. page'[t] = w /\ \A x \in Tabs \ {t} : page'[x] = page[x] /\ mem'[x] = mem[x]
    BY <1>2, <1>6 DEF PathInv, PathTypeOK, IInv, TypeOK
  <1>8. PathTypeOK'
    BY <1>5, <1>6 DEF PathInv, PathTypeOK
  <1>9. PagesAreOpen'
    BY <1>3, <1>5, <1>7, PathAssumption, ConstantsAssumption DEF PathInv, PagesAreOpen
  <1>10. LocalIsPersisted'
    BY <1>3, <1>5, <1>7 DEF PathInv, LocalIsPersisted, Open, Unit
  <1>11. PopupIsForThisUnit'
    BY <1>3, <1>5, <1>7 DEF PathInv, PopupIsForThisUnit, AboutUnits
  <1> QED
    BY <1>1, <1>8, <1>9, <1>10, <1>11 DEF PathInv

LEMMA CloseKeepsPathInv ==
  ASSUME PathInv, NEW t \in Tabs, ClosePage(t)
  PROVE  PathInv'
  <1>1. IInv'
    BY TabLifeKeepsIInv DEF ClosePage, PathInv
  <1>2. mem' = [mem EXCEPT ![t] = None] /\ page' = [page EXCEPT ![t] = None]
    BY DEF ClosePage, CloseTab
  <1>3. /\ page'[t] = None /\ mem'[t] = None
        /\ \A x \in Tabs \ {t} : page'[x] = page[x] /\ mem'[x] = mem[x]
    BY <1>2 DEF PathInv, PathTypeOK, IInv, TypeOK
  <1> QED
    BY <1>1, <1>2, <1>3 DEF PathInv, PathTypeOK, PagesAreOpen, LocalIsPersisted,
       PopupIsForThisUnit, Open, Unit

LEMMA ModeIsSaved ==
  ASSUME savedMode \in Modes \cup {None}, [PathNext]_<<vars, pathVars>>
  PROVE  savedMode' \in Modes \cup {None}
  BY DEF PathNext, pathVars, LoadPage, ClosePage, ProgressEvent, KeyMissing, ShowModule,
     Navigated, Passed, HandleChangeMode, ChangeMode, Learn, RememberStepCompletion,
     AdvanceStep, TurnPage, Answer, BugReportDismiss, BugReportPrimaryAction,
     BugReportSecondaryAction, HandleResetLevel, MarkGuided, HandleResetAll, Modes

PathSafe == PathInv /\ savedMode \in Modes \cup {None}

LEMMA PathInvariance == PathSpec => []PathSafe
  <1>1. PathInit => PathSafe
    BY InitIInv DEF PathInit, Init, PathInv, PathTypeOK, PagesAreOpen, LocalIsPersisted,
       PopupIsForThisUnit, Open, PathSafe
  <1>2. PathSafe /\ [PathNext]_<<vars, pathVars>> => PathSafe'
    <2> SUFFICES ASSUME PathSafe, [PathNext]_<<vars, pathVars>>
                 PROVE  PathSafe'
      OBVIOUS
    <2>0. PathInv /\ savedMode \in Modes \cup {None}
      BY DEF PathSafe
    <2>1. CASE UNCHANGED <<vars, pathVars>>
      <3>1. IInv'
        BY <2>0, <2>1 DEF PathInv, vars, IInv, TypeOK, CompletionHasRecord, Open
      <3> QED
        BY <2>0, <2>1, <3>1 DEF PathSafe, PathInv, PathTypeOK, PagesAreOpen,
           LocalIsPersisted, PopupIsForThisUnit, Open, Unit, vars, pathVars
    <2>2. CASE PathNext
      BY <2>0, <2>2, PathCases, HandlerKeepsPathInv, LoadKeepsPathInv, CloseKeepsPathInv,
         ModeIsSaved DEF PathSafe
    <2> QED
      BY <2>1, <2>2
  <1> QED
    BY <1>1, <1>2, PTL DEF PathSpec

\* A popup about a guide is about the unit that its primary action would reset,
\* although the selection also changes when a late confirmation of the guest, a
\* clamp or another module's navigation moves it.
THEOREM PopupsAreForThisUnit == PathSpec => []PopupIsForThisUnit
  <1>1. PathSafe => PopupIsForThisUnit
    BY DEF PathSafe, PathInv
  <1> QED
    BY <1>1, PathInvariance, PTL

-----------------------------------------------------------------------------
(***************************************************************************)
(* No guide is ahead of its evidence: every step a guide has passed is     *)
(* recorded as done, in every copy.                                        *)
(***************************************************************************)
BackedUnit(s, u) == 1..s.guideSteps[u] \subseteq s.completedSteps[u]
Backed(s) == \A u \in Units : BackedUnit(s, u)

AllBacked == (disk # None => Backed(disk)) /\ \A t \in Open : Backed(mem[t])

\* The steps counted without a gap are the first ones.
LEMMA PrefixIsFirstSteps ==
  ASSUME NEW done \in SUBSET Steps, NEW g \in Nat
  PROVE  g <= Prefix(done) <=> 1..g \subseteq done
  <1> DEFINE firsts == {n \in Steps : 1..n \subseteq done}
  <1>1. Prefix(done) = Cardinality(firsts) /\ GuideLength \in Nat /\ Steps = 1..GuideLength
    BY PathAssumption, ConstantsAssumption DEF Prefix
  <1>2. IsFiniteSet(firsts) /\ Cardinality(firsts) \in Nat
    <2>1. IsFiniteSet(Steps) /\ firsts \subseteq Steps
      BY <1>1, FS_Interval
    <2> HIDE DEF firsts
    <2> QED
      BY <2>1, FS_Subset, FS_CardinalityType
  <1>3. ASSUME 1..g \subseteq done
        PROVE  g <= Prefix(done)
    <2>1. 1..g \subseteq firsts
      <3> SUFFICES ASSUME NEW n \in 1..g PROVE n \in firsts
        OBVIOUS
      <3>1. n \in Steps /\ 1..n \subseteq 1..g
        BY <1>3
      <3> QED
        BY <1>3, <3>1
    <2>2. Cardinality(1..g) = g
      BY FS_Interval
    <2> HIDE DEF firsts
    <2> QED
      BY <1>1, <1>2, <2>1, <2>2, FS_Subset
  <1>4. ASSUME ~(1..g \subseteq done)
        PROVE  ~(g <= Prefix(done))
    <2>1. g \in Nat \ {0}
      BY <1>4
    <2>2. firsts \subseteq 1..(g - 1)
      <3> SUFFICES ASSUME NEW n \in firsts PROVE n < g /\ n \in Nat \ {0}
        BY <2>1
      <3>1. n \in 1..GuideLength /\ 1..n \subseteq done
        BY <1>1
      <3>2. ~(1..g \subseteq 1..n)
        BY <1>4, <3>1
      <3> QED
        BY <1>1, <3>1, <3>2
    <2>3. Cardinality(1..(g - 1)) = g - 1 /\ IsFiniteSet(1..(g - 1))
      BY <2>1, FS_Interval
    <2> HIDE DEF firsts
    <2> DEFINE before == 1..(g - 1)
    <2> HIDE DEF before
    <2>4. firsts \in SUBSET before /\ IsFiniteSet(before) /\ Cardinality(before) = g - 1
      BY <2>2, <2>3 DEF before
    <2>5. Cardinality(firsts) <= g - 1
      BY <2>4, FS_Subset
    <2> QED
      BY <1>1, <1>2, <2>1, <2>5
  <1> QED
    BY <1>3, <1>4

LEMMA BehindIsBacked ==
  ASSUME NEW s \in Snapshot, NEW u \in Units
  PROVE  ~GuideAhead(s, u) <=> BackedUnit(s, u)
  <1>1. s.guideSteps[u] \in Nat /\ s.completedSteps[u] \in SUBSET Steps
    BY DEF Snapshot
  <1>2. s.guideSteps[u] <= Prefix(s.completedSteps[u])
          <=> 1..s.guideSteps[u] \subseteq s.completedSteps[u]
    BY <1>1, PrefixIsFirstSteps
  <1>3. Prefix(s.completedSteps[u]) \in Nat
    <2>1. IsFiniteSet(Steps)
      BY PathAssumption, ConstantsAssumption, FS_Interval
    <2>2. IsFiniteSet({n \in Steps : 1..n \subseteq s.completedSteps[u]})
      BY <2>1, FS_Subset
    <2> QED
      BY <2>2, FS_CardinalityType DEF Prefix
  <1> QED
    BY <1>1, <1>2, <1>3 DEF GuideAhead, BackedUnit

LEMMA SameDataIsBacked ==
  ASSUME NEW a, NEW b, SameData(a, b), Backed(b)
  PROVE  Backed(a)
  BY DEF SameData, Backed, BackedUnit

LEMMA MergeIsBacked ==
  ASSUME NEW local \in Snapshot, NEW stored \in Snapshot, NEW chosen, NEW reset,
         Backed(local), Backed(stored)
  PROVE  Backed(Merge(local, stored, chosen, reset))
  <1> DEFINE m == Merge(local, stored, chosen, reset)
  <1> SUFFICES ASSUME NEW u \in Units PROVE 1..m.guideSteps[u] \subseteq m.completedSteps[u]
    BY DEF Backed, BackedUnit
  <1>1. /\ m.guideSteps[u] = IF u \in reset THEN 0
                             ELSE Larger(local.guideSteps[u], stored.guideSteps[u])
        /\ m.completedSteps[u] = IF u \in reset THEN {}
                                 ELSE stored.completedSteps[u] \cup local.completedSteps[u]
    BY DEF Merge
  <1>2. /\ local.guideSteps[u] \in Nat /\ stored.guideSteps[u] \in Nat
        /\ 1..local.guideSteps[u] \subseteq local.completedSteps[u]
        /\ 1..stored.guideSteps[u] \subseteq stored.completedSteps[u]
    BY DEF Snapshot, Backed, BackedUnit
  <1> HIDE DEF m
  <1> QED
    BY <1>1, <1>2 DEF Larger

LEMMA ApplySyncedIsBacked ==
  ASSUME NEW target \in Snapshot, NEW source \in Snapshot, Backed(source)
  PROVE  Backed(ApplySynced(target, source))
  BY ApplySyncedKeepsData, SameDataIsBacked

LEMMA SyncedIsBacked ==
  ASSUME IInv, AllBacked, NEW t \in Open
  PROVE  Backed(Synced(mem[t]))
  <1>1. mem[t] \in Snapshot /\ Backed(mem[t])
    BY OpenIsSound DEF AllBacked, Sound
  <1>2. CASE ~Readable
    BY <1>1, <1>2 DEF Synced
  <1>3. CASE Readable
    <2>1. disk \in Snapshot /\ Backed(disk)
      BY <1>3 DEF Readable, IInv, TypeOK, AllBacked
    <2>2. /\ Merge(mem[t], disk, disk, {}) \in Snapshot
          /\ Backed(Merge(mem[t], disk, disk, {}))
      BY <1>1, <2>1, MergeType, MergeIsBacked
    <2> QED
      BY <1>1, <1>3, <2>1, <2>2, ApplySyncedIsBacked DEF Synced
  <1> QED
    BY <1>2, <1>3

LEMMA ToStoreIsBacked ==
  ASSUME IInv, AllBacked, NEW p \in Snapshot, Backed(p), NEW keep \in BOOLEAN, NEW reset,
         NEW now \in Clock
  PROVE  Backed(ToStore(p, keep, reset, now))
  <1> DEFINE next == IF ~Readable THEN p
                     ELSE IF disk.startedAt > p.startedAt THEN disk
                     ELSE Merge(p, disk, IF keep THEN p ELSE disk, reset)
             seen == IF Readable THEN disk.updatedAt ELSE 0
  <1>1. next \in Snapshot /\ Backed(next)
    <2>1. Readable => disk \in Snapshot /\ Backed(disk)
      BY DEF Readable, IInv, TypeOK, AllBacked
    <2>2. (IF keep THEN p ELSE disk) \in {p, disk}
      OBVIOUS
    <2> DEFINE chosen == IF keep THEN p ELSE disk
    <2> HIDE DEF chosen
    <2>3. Readable => /\ Merge(p, disk, chosen, reset) \in Snapshot
                      /\ Backed(Merge(p, disk, chosen, reset))
      BY <2>1, <2>2, MergeType, MergeIsBacked DEF chosen
    <2> QED
      BY <2>1, <2>3 DEF chosen
  <1>2. ToStore(p, keep, reset, now) = [next EXCEPT !.updatedAt = UpdateTime(now, @, seen)]
    BY DEF ToStore
  <1> HIDE DEF next, seen
  <1> QED
    BY <1>1, <1>2 DEF Backed, BackedUnit, Snapshot

LEMMA StoreIsBacked ==
  ASSUME IInv, AllBacked, NEW t \in Tabs, NEW next \in Snapshot, NEW copy \in Snapshot,
         Backed(next), Backed(copy), Store(t, next), mem' = [mem EXCEPT ![t] = copy]
  PROVE  AllBacked'
  <1>1. disk' = next
    BY DEF Store
  <1>2. mem'[t] = copy /\ \A x \in Tabs \ {t} : mem'[x] = mem[x]
    BY DEF IInv, TypeOK
  <1> QED
    BY <1>1, <1>2 DEF AllBacked, Open, Backed, BackedUnit

LEMMA PersistIsBacked ==
  ASSUME IInv, AllBacked, NEW t \in Open, NEW p \in Snapshot, Backed(p),
         NEW keep \in BOOLEAN, NEW reset, Persist(t, p, keep, reset)
  PROVE  AllBacked'
  <1>1. PICK now \in Clock :
           /\ Store(t, ToStore(p, keep, reset, now))
           /\ mem' = [mem EXCEPT ![t] = ApplySynced(p, ToStore(p, keep, reset, now))]
    BY DEF Persist
  <1> DEFINE next == ToStore(p, keep, reset, now)
  <1>2. next \in Snapshot /\ Backed(next)
    <2>1. next \in Snapshot
      BY ToStoreType, ConstantsAssumption DEF IInv
    <2> QED
      BY <2>1, ToStoreIsBacked
  <1> HIDE DEF next
  <1>3. ApplySynced(p, next) \in Snapshot /\ Backed(ApplySynced(p, next))
    BY <1>2, ApplySyncedType, ApplySyncedIsBacked
  <1>4. Store(t, next) /\ mem' = [mem EXCEPT ![t] = ApplySynced(p, next)]
    BY <1>1 DEF next
  <1>5. t \in Tabs
    BY DEF Open
  <1> QED
    BY <1>2, <1>3, <1>4, <1>5, StoreIsBacked

\* An edit that reveals no step, and forgets evidence only with its guide.
Modest(s, e) ==
    \A u \in Units : \/ e.guideSteps[u] = 0
                     \/ /\ e.guideSteps[u] = s.guideSteps[u]
                        /\ s.completedSteps[u] \subseteq e.completedSteps[u]

StoresModest(t) ==
    \E p \in Snapshot, keep \in BOOLEAN, reset \in SUBSET Units :
       Modest(Synced(mem[t]), p) /\ Persist(t, p, keep, reset)

LEMMA EditsAreModest ==
  ASSUME NEW s \in Snapshot, NEW u \in Units
  PROVE  /\ \A r \in Record : Modest(s, [s EXCEPT !.completed = @ \cup {u},
                                           !.completionRecords[u] = r])
         /\ \A x \in Steps : Modest(s, [s EXCEPT !.completedSteps[u] = @ \cup {x}])
         /\ Modest(s, [s EXCEPT !.guidedAssistance = @ \cup {u}])
         /\ Modest(s, [s EXCEPT !.hintsUsed[u] = 0,
                         !.guideSteps[u] = 0,
                         !.completedSteps[u] = {},
                         !.guidedAssistance = @ \ {u}])
         /\ \A l \in Levels : Modest(s, [s EXCEPT !.currentLevel = l, !.currentLabId = l])
         /\ Modest(s, [s EXCEPT !.currentLabId = u])
  <1>1. s.guideSteps \in [Units -> Nat] /\ s.completedSteps \in [Units -> SUBSET Steps]
    BY DEF Snapshot
  <1>2. ASSUME NEW r \in Record
        PROVE  Modest(s, [s EXCEPT !.completed = @ \cup {u}, !.completionRecords[u] = r])
    BY <1>1 DEF Modest, Snapshot
  <1>3. ASSUME NEW x \in Steps
        PROVE  Modest(s, [s EXCEPT !.completedSteps[u] = @ \cup {x}])
    BY <1>1 DEF Modest, Snapshot
  <1>4. Modest(s, [s EXCEPT !.guidedAssistance = @ \cup {u}])
    BY <1>1 DEF Modest, Snapshot
  <1>5. Modest(s, [s EXCEPT !.hintsUsed[u] = 0, !.guideSteps[u] = 0,
                     !.completedSteps[u] = {}, !.guidedAssistance = @ \ {u}])
    <2> DEFINE e == [s EXCEPT !.hintsUsed[u] = 0, !.guideSteps[u] = 0,
                              !.completedSteps[u] = {}, !.guidedAssistance = @ \ {u}]
    <2>1. e.guideSteps = [s.guideSteps EXCEPT ![u] = 0]
      BY DEF Snapshot
    <2>2. e.completedSteps = [s.completedSteps EXCEPT ![u] = {}]
      BY DEF Snapshot
    <2> HIDE DEF e
    <2>3. Modest(s, e)
      BY <1>1, <2>1, <2>2 DEF Modest
    <2> QED
      BY <2>3 DEF e
  <1>6. ASSUME NEW l \in Levels
        PROVE  Modest(s, [s EXCEPT !.currentLevel = l, !.currentLabId = l])
    BY <1>1 DEF Modest, Snapshot
  <1>7. Modest(s, [s EXCEPT !.currentLabId = u])
    BY <1>1 DEF Modest, Snapshot
  <1> QED
    BY <1>2, <1>3, <1>4, <1>5, <1>6, <1>7

\* Every operation but advanceGuideStep.
LEMMA OperationsAreModest ==
  ASSUME IInv, NEW t \in Tabs, NEW u \in Units,
         \/ \E mode \in Modes : Complete(t, u, mode)
         \/ \E x \in Steps : CompleteLearningStep(t, u, x)
         \/ MarkGuidedAssistance(t, u)
         \/ ResetAttempt(t, u)
         \/ Navigate(t)
  PROVE  t \in Open /\ (OnlySync(t, Synced(mem[t])) \/ StoresModest(t))
  <1> DEFINE p == Synced(mem[t])
  <1>1. t \in Open
    BY DEF Complete, CompleteLearningStep, MarkGuidedAssistance, ResetAttempt, Navigate,
       SetCurrentLevel, SetCurrentLab, MayWrite
  <1>2. Sound(p) /\ p \in Snapshot /\ Sound(mem[t])
    BY <1>1, OpenIsSound DEF Sound
  <1>3. ASSUME NEW e, SoundEdit(p, e), Modest(p, e), NEW keep \in BOOLEAN,
               NEW reset \in {{}, {u}}, Persist(t, e, keep, reset)
        PROVE  StoresModest(t)
    BY <1>3 DEF StoresModest, SoundEdit, Sound
  <1> HIDE DEF p
  <1>4. ASSUME NEW mode \in Modes, Complete(t, u, mode)
        PROVE  OnlySync(t, p) \/ StoresModest(t)
    <2> DEFINE record == [path |-> CompletionPath(mode, u \in mem[t].guidedAssistance),
                          hintsUsed |-> mem[t].hintsUsed[u]]
               e == [p EXCEPT !.completed = @ \cup {u}, !.completionRecords[u] = record]
    <2>1. record \in Record
      BY <1>2 DEF Record, CompletionPath, Sound, Snapshot
    <2>2. OnlySync(t, p) \/ Persist(t, e, FALSE, {})
      BY <1>4 DEF Complete, p
    <2> HIDE DEF record
    <2>3. SoundEdit(p, e) /\ Modest(p, e)
      BY <1>2, <2>1, EditsAreSound, EditsAreModest
    <2> HIDE DEF e
    <2> QED
      BY <1>3, <2>2, <2>3
  <1>5. ASSUME NEW x \in Steps, CompleteLearningStep(t, u, x)
        PROVE  StoresModest(t)
    <2> DEFINE e == [p EXCEPT !.completedSteps[u] = @ \cup {x}]
    <2>1. SoundEdit(p, e) /\ Modest(p, e) /\ Persist(t, e, FALSE, {})
      BY <1>2, <1>5, EditsAreSound, EditsAreModest DEF CompleteLearningStep, p
    <2> HIDE DEF e
    <2> QED
      BY <1>3, <2>1
  <1>6. ASSUME MarkGuidedAssistance(t, u)
        PROVE  OnlySync(t, p) \/ StoresModest(t)
    <2> DEFINE e == [p EXCEPT !.guidedAssistance = @ \cup {u}]
    <2>1. SoundEdit(p, e) /\ Modest(p, e)
      BY <1>2, EditsAreSound, EditsAreModest
    <2>2. OnlySync(t, p) \/ Persist(t, e, FALSE, {})
      BY <1>6 DEF MarkGuidedAssistance, p
    <2> HIDE DEF e
    <2> QED
      BY <1>3, <2>1, <2>2
  <1>7. ASSUME ResetAttempt(t, u)
        PROVE  StoresModest(t)
    <2> DEFINE e == [p EXCEPT !.hintsUsed[u] = 0, !.guideSteps[u] = 0,
                              !.completedSteps[u] = {}, !.guidedAssistance = @ \ {u}]
    <2>1. SoundEdit(p, e) /\ Modest(p, e)
      BY <1>2, EditsAreSound, EditsAreModest
    <2>2. Persist(t, e, FALSE, {u})
      BY <1>7 DEF ResetAttempt, p
    <2> HIDE DEF e
    <2> QED
      BY <1>3, <2>1, <2>2
  <1>8. ASSUME NEW l \in Levels, SetCurrentLevel(t, l)
        PROVE  StoresModest(t)
    <2> DEFINE e == [p EXCEPT !.currentLevel = l, !.currentLabId = l]
    <2>1. SoundEdit(p, e) /\ Modest(p, e) /\ Persist(t, e, TRUE, {})
      BY <1>2, <1>8, EditsAreSound, EditsAreModest DEF SetCurrentLevel, p
    <2> HIDE DEF e
    <2> QED
      BY <1>3, <2>1
  <1>9. ASSUME NEW lab \in Labs, SetCurrentLab(t, lab)
        PROVE  StoresModest(t)
    <2> DEFINE e == [p EXCEPT !.currentLabId = lab]
    <2>1. lab \in Units
      BY DEF Units
    <2>2. SoundEdit(p, e) /\ Modest(p, e) /\ Persist(t, e, TRUE, {})
      BY <1>2, <1>9, <2>1, EditsAreSound, EditsAreModest DEF SetCurrentLab, p
    <2> HIDE DEF e
    <2> QED
      BY <1>3, <2>2
  <1> QED
    BY <1>1, <1>4, <1>5, <1>6, <1>7, <1>8, <1>9 DEF Navigate, p

LEMMA ModestIsBacked ==
  ASSUME NEW s, NEW e, Backed(s), Modest(s, e)
  PROVE  Backed(e)
  <1> SUFFICES ASSUME NEW u \in Units PROVE 1..e.guideSteps[u] \subseteq e.completedSteps[u]
    BY DEF Backed, BackedUnit
  <1>1. CASE e.guideSteps[u] = 0
    BY <1>1
  <1>2. CASE e.guideSteps[u] = s.guideSteps[u] /\ s.completedSteps[u] \subseteq e.completedSteps[u]
    BY <1>2 DEF Backed, BackedUnit
  <1> QED
    BY <1>1, <1>2 DEF Modest

\* What a handler does to the progress unless it reveals a step.
KeepsGuides(t) ==
    /\ t \in Open
    /\ \/ SyncExternalProgress(t) \/ OnlySync(t, Synced(mem[t])) \/ StoresModest(t)
       \/ ResetAllProgress(t) \/ UNCHANGED vars

LEMMA KeepsGuidesIsBacked ==
  ASSUME IInv, AllBacked, NEW t \in Tabs, KeepsGuides(t)
  PROVE  AllBacked'
  <1>1. t \in Open /\ mem[t] \in Snapshot /\ Backed(Synced(mem[t]))
    BY OpenIsSound, SyncedIsBacked DEF KeepsGuides, Sound
  <1>2. CASE SyncExternalProgress(t)
    <2>1. Readable => Backed(ApplySynced(mem[t], disk))
      BY <1>1, ApplySyncedIsBacked DEF Readable, IInv, TypeOK, AllBacked
    <2>2. /\ disk' = disk
          /\ \A x \in Tabs \ {t} : mem'[x] = mem[x]
          /\ mem'[t] = mem[t] \/ (Readable /\ mem'[t] = ApplySynced(mem[t], disk))
      BY <1>2 DEF SyncExternalProgress, IInv, TypeOK
    <2> QED
      BY <1>1, <2>1, <2>2 DEF AllBacked, Open, Backed, BackedUnit
  <1>3. CASE OnlySync(t, Synced(mem[t]))
    <2>1. /\ disk' = disk /\ mem'[t] = Synced(mem[t])
          /\ \A x \in Tabs \ {t} : mem'[x] = mem[x]
      BY <1>3 DEF OnlySync, IInv, TypeOK
    <2> QED
      BY <1>1, <2>1 DEF AllBacked, Open, Backed, BackedUnit
  <1>4. CASE StoresModest(t)
    BY <1>1, <1>4, ModestIsBacked, PersistIsBacked DEF StoresModest
  <1>5. CASE ResetAllProgress(t)
    <2>1. PICK now \in Clock :
            LET fresh == [DefaultProgress(ResetTime(now)) EXCEPT !.updatedAt = ResetTime(now) + 1]
            IN  Store(t, fresh) /\ mem' = [mem EXCEPT ![t] = fresh]
      BY <1>5 DEF ResetAllProgress
    <2> DEFINE fresh == [DefaultProgress(ResetTime(now)) EXCEPT !.updatedAt = ResetTime(now) + 1]
    <2>2. Backed(fresh)
      BY DEF Backed, BackedUnit, DefaultProgress
    <2>3. disk' = fresh /\ mem'[t] = fresh /\ \A x \in Tabs \ {t} : mem'[x] = mem[x]
      BY <2>1 DEF Store, IInv, TypeOK
    <2> HIDE DEF fresh
    <2> QED
      BY <2>2, <2>3 DEF AllBacked, Open, Backed, BackedUnit
  <1>6. CASE UNCHANGED vars
    BY <1>6 DEF vars, AllBacked, Open, Backed, BackedUnit
  <1> QED
    BY <1>2, <1>3, <1>4, <1>5, <1>6 DEF KeepsGuides

\* A copy that agrees with the store on a unit still does after synchronising.
LEMMA CopyOfSameUnit ==
  ASSUME IInv, NEW t \in Open, NEW u \in Units, ~Readable \/ SameUnit(disk, mem[t], u)
  PROVE  /\ Synced(mem[t]).guideSteps[u] = mem[t].guideSteps[u]
         /\ Synced(mem[t]).completedSteps[u] = mem[t].completedSteps[u]
  <1>1. mem[t] \in Snapshot
    BY OpenIsSound DEF Sound
  <1>2. CASE ~Readable
    BY <1>2 DEF Synced
  <1>3. CASE Readable
    <2> DEFINE m == Merge(mem[t], disk, disk, {})
    <2>1. /\ disk \in Snapshot
          /\ disk.guideSteps[u] = mem[t].guideSteps[u]
          /\ disk.completedSteps[u] = mem[t].completedSteps[u]
      BY <1>3 DEF Readable, IInv, TypeOK, SameUnit
    <2>2. m \in Snapshot
      BY <1>1, <2>1, MergeType
    <2>3. /\ m.guideSteps[u] = Larger(mem[t].guideSteps[u], disk.guideSteps[u])
          /\ m.completedSteps[u] = disk.completedSteps[u] \cup mem[t].completedSteps[u]
      BY DEF Merge
    <2>4. /\ m.guideSteps[u] = mem[t].guideSteps[u]
          /\ m.completedSteps[u] = mem[t].completedSteps[u]
      <3> HIDE DEF m
      <3> QED
        BY <2>1, <2>3 DEF Larger
    <2>5. /\ SameData(ApplySynced(mem[t], disk), disk)
          /\ SameData(ApplySynced(mem[t], m), m)
      <3> HIDE DEF m
      <3> QED
        BY <1>1, <2>1, <2>2, ApplySyncedKeepsData
    <2>6. Synced(mem[t]) = ApplySynced(mem[t], disk) \/ Synced(mem[t]) = ApplySynced(mem[t], m)
      BY <1>3 DEF Synced
    <2> HIDE DEF m
    <2> QED
      BY <2>1, <2>4, <2>5, <2>6 DEF SameData
  <1> QED
    BY <1>2, <1>3

\* What advanceGuideStep reveals is the step after the one resolved on screen,
\* which is the first that the stored guide has not passed, unless it was
\* overtaken.
LEMMA AdvanceIsBacked ==
  ASSUME PathInv, AllBacked, NEW t \in Tabs, AdvanceStep(t), ~overtaken'
  PROVE  AllBacked'
  <1> DEFINE u == Unit(t)
             p == Synced(mem[t])
             g == Smaller(p.guideSteps[u], GuideLength - 1)
             n == Smaller(g + 1, GuideLength - 1)
             e == [p EXCEPT !.guideSteps[u] = n]
  <1>1. t \in Open /\ IInv
    BY DEF AdvanceStep, Guided, InWorkspace, Idle, PathInv
  <1>2. /\ mem[t] \in Snapshot /\ Sound(p) /\ p \in Snapshot
        /\ Backed(p) /\ Backed(mem[t]) /\ u \in Units
    BY <1>1, OpenPage, OpenIsSound, SyncedIsBacked DEF Sound, AllBacked
  <1>3. Persist(t, e, FALSE, {})
    BY DEF AdvanceStep, AdvanceGuideStep
  <1>4. CurrentStep(t) \in mem[t].completedSteps[u]
    <2>1. page[t].local \subseteq mem[t].completedSteps[u]
      BY <1>1 DEF PathInv, LocalIsPersisted
    <2> QED
      BY <2>1 DEF AdvanceStep, Resolved
  <1>5. /\ p.guideSteps[u] = mem[t].guideSteps[u]
        /\ p.completedSteps[u] = mem[t].completedSteps[u]
    BY <1>1, <1>2, CopyOfSameUnit DEF AdvanceStep
  <1>6. CurrentStep(t) = g + 1 /\ g + 1 < GuideLength
    BY <1>5 DEF AdvanceStep, Furthest
  <1> HIDE DEF p, u
  <1>7. p.guideSteps[u] \in Nat /\ GuideLength \in Nat
    BY <1>2, ConstantsAssumption DEF Snapshot
  <1>8. g \in Nat /\ g <= p.guideSteps[u] /\ n = g + 1
    BY <1>6, <1>7, ConstantsAssumption DEF Smaller
  <1> HIDE DEF g
  <1>9. 1..n \subseteq p.completedSteps[u]
    <2>1. 1..g \subseteq p.completedSteps[u]
      BY <1>2, <1>7, <1>8 DEF Backed, BackedUnit
    <2>2. g + 1 \in p.completedSteps[u]
      BY <1>4, <1>5, <1>6
    <2> QED
      BY <1>8, <2>1, <2>2
  <1> HIDE DEF n
  <1>10. n \in Nat
    BY <1>8
  <1>11. e \in Snapshot /\ Backed(e)
    <2>1. e \in Snapshot
      BY <1>2, <1>10 DEF Snapshot
    <2>2. /\ e.guideSteps = [p.guideSteps EXCEPT ![u] = n]
          /\ e.completedSteps = p.completedSteps
          /\ p.guideSteps \in [Units -> Nat]
      BY <1>2 DEF Snapshot
    <2> HIDE DEF e
    <2> QED
      BY <1>2, <1>9, <2>1, <2>2 DEF Backed, BackedUnit
  <1>12. Persist(t, e, FALSE, {})
    BY <1>3 DEF p, u, g, n
  <1> HIDE DEF e
  <1> QED
    BY <1>1, <1>11, <1>12, PersistIsBacked

\* A handler other than AdvanceStep reveals nothing.
LEMMA GuideCases ==
  ASSUME PathInv, PathNext
  PROVE  \E t \in Tabs : \/ LoadPage(t) \/ ClosePage(t) \/ AdvanceStep(t)
                         \/ KeepsGuides(t) /\ overtaken' = overtaken
  <1>1. PICK t \in Tabs :
        \/ LoadPage(t) \/ ClosePage(t) \/ ProgressEvent(t) \/ KeyMissing(t)
        \/ \E m \in Modules : ShowModule(t, m)
        \/ Navigated(t) \/ Passed(t) \/ HandleChangeMode(t)
        \/ Learn(t) \/ Answer(t)
        \/ HandleResetLevel(t) \/ MarkGuided(t) \/ HandleResetAll(t)
    BY DEF PathNext
  <1> DEFINE Keeps1 == KeepsGuides(t) /\ overtaken' = overtaken
             Operates ==
               \/ \E mode \in Modes : Complete(t, Unit(t), mode)
               \/ \E x \in Steps : CompleteLearningStep(t, Unit(t), x)
               \/ MarkGuidedAssistance(t, Unit(t))
               \/ ResetAttempt(t, Unit(t))
               \/ Navigate(t)
  <1>2. ASSUME t \in Open, Operates
        PROVE  KeepsGuides(t)
    <2>1. Unit(t) \in Units /\ IInv
      BY <1>2, OpenPage DEF PathInv
    <2>2. t \in Open /\ (OnlySync(t, Synced(mem[t])) \/ StoresModest(t))
      BY <1>2, <2>1, OperationsAreModest
    <2> QED
      BY <2>2 DEF KeepsGuides
  <1>3. CASE ProgressEvent(t)
    BY <1>3 DEF ProgressEvent, Idle, KeepsGuides
  <1>4. CASE KeyMissing(t) \/ (\E m \in Modules : ShowModule(t, m)) \/ BugReportDismiss(t)
             \/ TurnPage(t)
    BY <1>4 DEF KeyMissing, ShowModule, BugReportDismiss, TurnPage, Guided, InWorkspace, Idle,
       KeepsGuides
  <1>5. CASE HandleResetAll(t)
    BY <1>5 DEF HandleResetAll, InWorkspace, Idle, KeepsGuides
  <1>6. CASE Navigated(t)
    BY <1>2, <1>6 DEF Navigated, Idle, Navigate
  <1>7. CASE Passed(t)
    <2>1. t \in Open
      BY <1>7 DEF Passed, Idle
    <2>2. page[t].mode \in Modes
      BY <1>7, <2>1, OpenPage DEF Passed, Page
    <2> QED
      BY <1>2, <1>7, <2>1, <2>2 DEF Passed
  <1>8. ASSUME NEW mode \in Modes, t \in Open, ChangeMode(t, mode, page[t])
        PROVE  Keeps1
    BY <1>2, <1>8 DEF ChangeMode, KeepsGuides
  <1>9. CASE HandleChangeMode(t)
    BY <1>8, <1>9 DEF HandleChangeMode, InWorkspace, Idle
  <1>10. CASE RememberStepCompletion(t)
    <2>1. t \in Open
      BY <1>10 DEF RememberStepCompletion, Guided, InWorkspace, Idle
    <2>2. CurrentStep(t) \in Steps
      BY <2>1, StepOnScreen
    <2> QED
      BY <1>2, <1>10, <2>1, <2>2 DEF RememberStepCompletion
  <1>11. ASSUME NEW p, t \in Open, ResetUnit(t, p)
         PROVE  KeepsGuides(t)
    BY <1>2, <1>11 DEF ResetUnit
  <1>12. CASE HandleResetLevel(t)
    BY <1>11, <1>12 DEF HandleResetLevel, InWorkspace, Idle
  <1>13. CASE MarkGuided(t)
    BY <1>2, <1>13 DEF MarkGuided
  <1>14. CASE BugReportPrimaryAction(t)
    <2>1. t \in Open /\ overtaken' = overtaken
      BY <1>14 DEF BugReportPrimaryAction, Idle
    <2>2. (\E p : ResetUnit(t, p)) \/ UNCHANGED vars
      BY <1>14 DEF BugReportPrimaryAction
    <2> QED
      BY <1>11, <2>1, <2>2 DEF KeepsGuides
  <1>15. CASE BugReportSecondaryAction(t)
    BY <1>8, <1>15 DEF BugReportSecondaryAction, Modes, Idle
  <1> QED
    BY <1>1, <1>3, <1>4, <1>5, <1>6, <1>7, <1>9, <1>10, <1>12, <1>13, <1>14, <1>15
       DEF Learn, Answer

LEMMA LoadIsBacked ==
  ASSUME IInv, AllBacked, NEW t \in Tabs, LoadProgress(t)
  PROVE  AllBacked'
  <1>1. CASE Readable /\ mem' = [mem EXCEPT ![t] = disk] /\ disk' = disk
    <2>1. mem'[t] = disk /\ \A x \in Tabs \ {t} : mem'[x] = mem[x]
      BY <1>1 DEF IInv, TypeOK
    <2> QED
      BY <1>1, <2>1 DEF Readable, AllBacked, Open, Backed, BackedUnit
  <1>2. ASSUME NEW now \in Clock, mem' = [mem EXCEPT ![t] = DefaultProgress(now)],
               Store(t, DefaultProgress(now))
        PROVE  AllBacked'
    <2>1. DefaultProgress(now) \in Snapshot
      BY DefaultType, ConstantsAssumption
    <2>2. Backed(DefaultProgress(now))
      BY DEF Backed, BackedUnit, DefaultProgress
    <2> QED
      BY <1>2, <2>1, <2>2, StoreIsBacked
  <1> QED
    BY <1>1, <1>2 DEF LoadProgress

LEMMA CloseIsBacked ==
  ASSUME IInv, AllBacked, NEW t \in Tabs, CloseTab(t)
  PROVE  AllBacked'
  <1>1. disk' = disk /\ mem' = [mem EXCEPT ![t] = None] /\ mem \in [Tabs -> Snapshot \cup {None}]
    BY DEF CloseTab, IInv, TypeOK
  <1>2. mem'[t] = None /\ \A x \in Tabs \ {t} : mem'[x] = mem[x]
    BY <1>1
  <1> QED
    BY <1>1, <1>2 DEF AllBacked, Open, Backed, BackedUnit

GuideInv == overtaken \in BOOLEAN /\ (overtaken = FALSE => AllBacked)

\* No guide is ahead of its evidence in any copy, whatever the tabs reset, merge
\* and adopt, unless a screen older than the store revealed a step.
THEOREM GuidesStayBehindEvidence == PathSpec => []GuideBehindEvidence
  <1>1. PathInit => GuideInv
    BY DEF PathInit, Init, AllBacked, Open, GuideInv
  <1>2. PathSafe /\ GuideInv /\ [PathNext]_<<vars, pathVars>> => GuideInv'
    <2> SUFFICES ASSUME PathSafe, GuideInv, [PathNext]_<<vars, pathVars>>
                 PROVE  overtaken' \in BOOLEAN /\ (overtaken' = FALSE => AllBacked')
      BY DEF GuideInv
    <2>1. /\ PathInv /\ IInv
          /\ overtaken \in BOOLEAN /\ (overtaken = FALSE => AllBacked)
      BY DEF PathSafe, PathInv, GuideInv
    <2>2. CASE UNCHANGED <<vars, pathVars>>
      BY <2>1, <2>2 DEF vars, pathVars, AllBacked, Open, Backed, BackedUnit
    <2>3. CASE PathNext
      <3>1. PICK t \in Tabs : \/ LoadPage(t) \/ ClosePage(t) \/ AdvanceStep(t)
                              \/ KeepsGuides(t) /\ overtaken' = overtaken
        BY <2>1, <2>3, GuideCases
      <3>2. CASE LoadPage(t)
        BY <2>1, <3>2, LoadIsBacked DEF LoadPage
      <3>3. CASE ClosePage(t)
        BY <2>1, <3>3, CloseIsBacked DEF ClosePage
      <3>4. CASE AdvanceStep(t)
        <4>1. overtaken' = (overtaken \/ (Readable /\ ~SameUnit(disk, mem[t], Unit(t))))
          BY <3>4 DEF AdvanceStep
        <4>2. overtaken' \in BOOLEAN /\ (overtaken' = FALSE => overtaken = FALSE /\ ~overtaken')
          BY <2>1, <4>1, Zenon
        <4> QED
          BY <2>1, <3>4, <4>2, AdvanceIsBacked
      <3>5. CASE KeepsGuides(t) /\ overtaken' = overtaken
        BY <2>1, <3>5, KeepsGuidesIsBacked
      <3> QED
        BY <3>1, <3>2, <3>3, <3>4, <3>5
    <2> QED
      BY <2>2, <2>3
  <1>3. PathSafe /\ GuideInv => GuideBehindEvidence
    <2> SUFFICES ASSUME PathSafe, GuideInv, overtaken = FALSE,
                        NEW s \in {disk} \cup {mem[t] : t \in Tabs}, s # None,
                        NEW u \in Units
                 PROVE  ~GuideAhead(s, u)
      BY DEF GuideBehindEvidence, GuideInv
    <2>1. s \in Snapshot /\ Backed(s)
      BY DEF PathSafe, PathInv, IInv, TypeOK, AllBacked, Open, GuideInv
    <2> QED
      BY <2>1, BehindIsBacked DEF Backed
  <1> QED
    BY <1>1, <1>2, <1>3, PathInvariance, PTL DEF PathSpec
-----------------------------------------------------------------------------
(***************************************************************************)
(* Guided learning uses the store as any page would: each of its handlers  *)
(* is one operation of a tab, or none.                                     *)
(***************************************************************************)
LEMMA HandlersAreOperations ==
  ASSUME PathInv, PathNext
  PROVE  [Next]_vars
  <1>1. PICK t \in Tabs :
        \/ LoadPage(t) \/ ClosePage(t) \/ ProgressEvent(t) \/ KeyMissing(t)
        \/ \E m \in Modules : ShowModule(t, m)
        \/ Navigated(t) \/ Passed(t) \/ HandleChangeMode(t)
        \/ Learn(t) \/ Answer(t)
        \/ HandleResetLevel(t) \/ MarkGuided(t) \/ HandleResetAll(t)
    BY DEF PathNext
  <1>2. ASSUME LoadProgress(t) \/ CloseTab(t) \/ SyncExternalProgress(t) \/ Navigate(t)
                 \/ ResetAllProgress(t) \/ UNCHANGED vars
        PROVE  [Next]_vars
    BY <1>2 DEF Next
  <1>3. ASSUME t \in Open, WorkOnUnit(t, Unit(t))
        PROVE  [Next]_vars
    <2>1. Unit(t) \in Units
      BY <1>3, OpenPage
    <2> QED
      BY <1>3, <2>1 DEF Next
  <1>4. CASE LoadPage(t) \/ ClosePage(t) \/ ProgressEvent(t) \/ HandleResetAll(t)
    BY <1>2, <1>4 DEF LoadPage, ClosePage, ProgressEvent, HandleResetAll
  <1>5. CASE KeyMissing(t) \/ (\E m \in Modules : ShowModule(t, m)) \/ BugReportDismiss(t)
             \/ TurnPage(t)
    BY <1>2, <1>5 DEF KeyMissing, ShowModule, BugReportDismiss, TurnPage
  <1>6. CASE Navigated(t)
    BY <1>2, <1>6 DEF Navigated, Navigate
  <1>7. CASE Passed(t)
    <2>1. t \in Open /\ page[t].mode # None
      BY <1>7 DEF Passed, Idle
    <2>2. page[t].mode \in Modes
      BY <2>1, OpenPage DEF Page
    <2> QED
      BY <1>3, <1>7, <2>1, <2>2 DEF Passed, WorkOnUnit
  <1>8. ASSUME NEW mode, t \in Open, ChangeMode(t, mode, page[t])
        PROVE  [Next]_vars
    BY <1>2, <1>3, <1>8 DEF ChangeMode, WorkOnUnit
  <1>9. CASE HandleChangeMode(t)
    BY <1>8, <1>9 DEF HandleChangeMode, InWorkspace, Idle
  <1>10. CASE RememberStepCompletion(t)
    <2>1. t \in Open
      BY <1>10 DEF RememberStepCompletion, Guided, InWorkspace, Idle
    <2>2. CurrentStep(t) \in Steps
      BY <2>1, StepOnScreen
    <2> QED
      BY <1>3, <1>10, <2>1, <2>2 DEF RememberStepCompletion, WorkOnUnit
  <1>11. CASE AdvanceStep(t)
    BY <1>3, <1>11 DEF AdvanceStep, Guided, InWorkspace, Idle, WorkOnUnit
  <1>12. ASSUME NEW p, t \in Open, ResetUnit(t, p)
         PROVE  [Next]_vars
    BY <1>3, <1>12 DEF ResetUnit, WorkOnUnit
  <1>13. CASE HandleResetLevel(t)
    BY <1>12, <1>13 DEF HandleResetLevel, InWorkspace, Idle
  <1>14. CASE MarkGuided(t)
    BY <1>3, <1>14 DEF MarkGuided, WorkOnUnit
  <1>15. CASE BugReportPrimaryAction(t)
    <2>1. t \in Open
      BY <1>15 DEF BugReportPrimaryAction, Idle
    <2>2. (\E p : ResetUnit(t, p)) \/ UNCHANGED vars
      BY <1>15 DEF BugReportPrimaryAction
    <2> QED
      BY <1>2, <1>12, <2>1, <2>2
  <1>16. CASE BugReportSecondaryAction(t)
    BY <1>8, <1>16 DEF BugReportSecondaryAction, Idle
  <1> QED
    BY <1>1, <1>4, <1>5, <1>6, <1>7, <1>9, <1>10, <1>11, <1>13, <1>14, <1>15, <1>16
       DEF Learn, Answer

\* What the pages of all tabs do to the progress, with guided learning, resets and
\* repairs on top of it, is a behaviour of the store.
THEOREM PagesUseTheStore == PathSpec => Spec
  <1>1. PathInit => Init
    BY DEF PathInit
  <1>2. PathSafe /\ [PathNext]_<<vars, pathVars>> => [Next]_vars
    BY HandlersAreOperations DEF PathSafe
  <1> QED
    BY <1>1, <1>2, PathInvariance, PTL DEF PathSpec, Spec

\* So the pages, too, share one record, and find what TabsAreStaleOrCurrent and the
\* other theorems about the store say of it.
THEOREM PagesShareOneRecord == PathSpec => SharedRecord
  BY PagesUseTheStore, TabsShareOneRecord
=============================================================================
