-------------------------- MODULE DeployReleaseProofs --------------------------
(***************************************************************************)
(* Proofs about DeployRelease, for any number of deployments and any stale  *)
(* and waiting times, whatever runners are lost or sent a signal and        *)
(* whatever heartbeats fail: the link "current" moves under the lease only, *)
(* a lease whose heartbeat is alive is not reclaimed, no deployment comes   *)
(* between another and the release it remembers, and a failed release is    *)
(* withdrawn, each but for the late commands that its property names.       *)
(*                                                                         *)
(* None is inductive by itself.  A lock can be moved away by a run that  *)
(* read an older one, so what protects a deployment is that time has passed *)
(* since it got its lock: at a tick nothing is under way on the host, and   *)
(* from then on whoever reads the lock finds it alive.  The strengthening   *)
(* therefore speaks of locks younger and older than the last tick.          *)
(***************************************************************************)
EXTENDS DeployRelease, TLAPS

USE LockAssumption, WaitAssumption, NoDirectory

-----------------------------------------------------------------------------
(* Types. *)

LEMMA NewLockType ==
    ASSUME NEW d \in Deployers
    PROVE  FreshLock(d) \in Directory
  BY DEF FreshLock, Directory, Owners, Ages

LEMMA DirectoryChanges ==
    ASSUME NEW dir \in Directory
    PROVE  /\ [dir EXCEPT !.junk = TRUE] \in Directory
           /\ [dir EXCEPT !.next = TRUE] \in Directory
           /\ [dir EXCEPT !.next = FALSE, !.beat = 0] \in Directory
           /\ [dir EXCEPT !.next = FALSE] \in Directory
           /\ [dir EXCEPT !.beat = None] \in Directory
           /\ [dir EXCEPT !.owner = None] \in Directory
           /\ dir.owner \in Owners \cup {None}
           /\ Older(dir) \in Directory
  <1>1. [dir EXCEPT !.junk = TRUE] \in Directory /\ [dir EXCEPT !.next = TRUE] \in Directory
    BY DEF Directory
  <1>2. [dir EXCEPT !.next = FALSE, !.beat = 0] \in Directory
    <2>1. 0 \in Ages
      BY DEF Ages
    <2>. QED  BY <2>1 DEF Directory
  <1>3. [dir EXCEPT !.next = FALSE] \in Directory /\ [dir EXCEPT !.beat = None] \in Directory
    BY DEF Directory
  <1>4. [dir EXCEPT !.owner = None] \in Directory /\ dir.owner \in Owners \cup {None}
    BY DEF Directory
  <1>5. Older(dir) \in Directory
    <2>1. dir.beat \in Ages \cup {None} /\ dir.since \in Ages
      BY DEF Directory
    <2>. DEFINE b == IF dir.beat = None \/ dir.beat = Stale THEN dir.beat ELSE dir.beat + 1
                s == IF dir.since = Stale THEN dir.since ELSE dir.since + 1
    <2>2. b \in Ages \cup {None} /\ s \in Ages
      BY <2>1 DEF Ages
    <2>3. Older(dir) = [dir EXCEPT !.beat = b, !.since = s]
      BY DEF Older
    <2>. HIDE DEF b, s
    <2>. QED  BY <2>2, <2>3 DEF Directory
  <1>. QED  BY <1>1, <1>2, <1>3, <1>4, <1>5

LEMMA AcquireType ==
    ASSUME LockTypeOK, NEW d \in Deployers, Acquire(d)
    PROVE  LockTypeOK'
  <1>. USE DEF LockTypeOK, Goto, Acquiring, Results
  <1>1. CASE CheckAbsent(d) \/ CheckExists(d) \/ ReadHeartbeat(d) \/ VerifyQuarantined(d)
    BY <1>1 DEF CheckAbsent, CheckExists, ReadHeartbeat, VerifyQuarantined
  <1>2. CASE CreateLock(d)
    BY <1>2, NewLockType DEF CreateLock
  <1>3. CASE ReadOwner(d)
    <2>1. lock # None /\ lock.owner # None => lock.owner \in Owners
      BY DirectoryChanges
    <2>2. seen' \in [Deployers -> Owners \cup {None}]
      BY <1>3, <2>1 DEF ReadOwner, HasOwner
    <2>. QED  BY <1>3, <2>2 DEF ReadOwner
  <1>4. CASE MoveToQuarantine(d)
    BY <1>4 DEF MoveToQuarantine
  <1>5. CASE RemoveQuarantined(d)
    BY <1>5 DEF RemoveQuarantined
  <1>6. CASE RestoreQuarantined(d)
    BY <1>6, DirectoryChanges DEF RestoreQuarantined
  <1>. QED  BY <1>1, <1>2, <1>3, <1>4, <1>5, <1>6 DEF Acquire

LEMMA RefreshType ==
    ASSUME LockTypeOK, NEW d \in Deployers, Refresh(d)
    PROVE  LockTypeOK'
  <1>. USE DEF LockTypeOK, RefreshGoto, Refreshing
  <1>1. CASE RefreshChecksToken(d)
    BY <1>1 DEF RefreshChecksToken
  <1>2. CASE WriteHeartbeat(d)
    <2>1. lock' \in Directory \cup {None}
      <3>1. CASE lock = None
        BY <1>2, <3>1 DEF WriteHeartbeat
      <3>2. CASE lock # None
        <4>1. [lock EXCEPT !.next = TRUE] \in Directory
          BY <3>2, DirectoryChanges
        <4>. QED  BY <1>2, <3>2, <4>1 DEF WriteHeartbeat
      <3>. QED  BY <3>1, <3>2
    <2>2. refresh' \in [Deployers -> Refreshing \cup {"idle", "failed"}]
      BY <1>2 DEF WriteHeartbeat
    <2>. QED  BY <1>2, <2>1, <2>2 DEF WriteHeartbeat
  <1>3. CASE ConfirmOwner(d)
    BY <1>3 DEF ConfirmOwner
  <1>4. CASE RenameHeartbeat(d)
    <2>1. lock' \in Directory \cup {None}
      <3>1. CASE lock = None \/ ~lock.next
        BY <1>4, <3>1 DEF RenameHeartbeat
      <3>2. CASE lock # None /\ lock.next
        <4>1. [lock EXCEPT !.next = FALSE, !.beat = 0] \in Directory
          BY <3>2, DirectoryChanges
        <4>. QED  BY <1>4, <3>2, <4>1 DEF RenameHeartbeat
      <3>. QED  BY <3>1, <3>2
    <2>2. refresh' \in [Deployers -> Refreshing \cup {"idle", "failed"}]
      BY <1>4 DEF RenameHeartbeat
    <2>. QED  BY <1>4, <2>1, <2>2 DEF RenameHeartbeat
  <1>. QED  BY <1>1, <1>2, <1>3, <1>4 DEF Refresh

LEMMA ReleaseType ==
    ASSUME LockTypeOK, NEW d \in Deployers, Release(d)
    PROVE  LockTypeOK'
  <1>. USE DEF LockTypeOK, Goto, Releasing, Results
  <1>1. CASE ReleaseChecksToken(d)
    BY <1>1 DEF ReleaseChecksToken
  <1>2. CASE UnlinkHeartbeat(d)
    BY <1>2, DirectoryChanges DEF UnlinkHeartbeat
  <1>3. CASE UnlinkOwner(d)
    BY <1>3, DirectoryChanges DEF UnlinkOwner
  <1>4. CASE RemoveDirectory(d)
    BY <1>4 DEF RemoveDirectory
  <1>5. CASE UnlinkNext(d)
    BY <1>5, DirectoryChanges DEF UnlinkNext
  <1>. QED  BY <1>1, <1>2, <1>3, <1>4, <1>5 DEF Release

LEMMA TypeInit == Init => TypeOK
  <1>. SUFFICES ASSUME Init PROVE TypeOK
    OBVIOUS
  <1>1. LeftBehind \subseteq Directory
    <2>1. SUFFICES ASSUME NEW b \in Ages \cup {None}
                   PROVE  [owner |-> Dead, beat |-> b, since |-> Stale, next |-> FALSE,
                           junk |-> FALSE] \in Directory
      BY DEF LeftBehind
    <2>. QED  BY DEF Directory, Owners, Ages
  <1>2. LockTypeOK
    BY <1>1 DEF Init, LockInit, LockTypeOK, Results
  <1>. QED  BY <1>2 DEF Init, TypeOK, Stages, Scripts, Owners

DeployTypeOK ==
    /\ stage \in [Deployers -> Stages]
    /\ timer \in [Deployers -> 0..Wait]
    /\ script \in [Deployers -> Scripts]
    /\ previous \in [Deployers -> Owners \cup {None}]
    /\ current \in Owners \cup {None}
    /\ unhealthy \subseteq Deployers

LEMMA TypeParts == TypeOK <=> LockTypeOK /\ DeployTypeOK
  BY DEF TypeOK, DeployTypeOK

LEMMA TimerStopped ==
    ASSUME DeployTypeOK, NEW d \in Deployers, StopTimer(d)
    PROVE  timer' \in [Deployers -> 0..Wait]
  BY DEF DeployTypeOK, StopTimer

LEMMA StageEntered ==
    ASSUME DeployTypeOK, NEW d \in Deployers, NEW s \in Stages, EnterStage(d, s)
    PROVE  stage' \in [Deployers -> Stages]
  BY DEF DeployTypeOK, EnterStage

LEMMA ScriptStarted ==
    ASSUME DeployTypeOK, NEW d \in Deployers, NEW s \in Scripts, StartScript(d, s)
    PROVE  script' \in [Deployers -> Scripts]
  BY DEF DeployTypeOK, StartScript

LEMMA TypeStep == TypeOK /\ [Next]_vars => TypeOK'
  <1>. SUFFICES ASSUME TypeOK, [Next]_vars PROVE TypeOK'
    OBVIOUS
  <1>1. LockTypeOK /\ DeployTypeOK
    BY TypeParts
  <1>2. SUFFICES LockTypeOK' /\ DeployTypeOK'
    BY DEF TypeOK, DeployTypeOK
  <1>. USE DEF lockVars, deployVars
  <1>3. CASE Tick
    <2>1. LockTypeOK'
      <3>1. lock' \in Directory \cup {None} /\ quarantine' \in [Deployers -> Directory \cup {None}]
        BY <1>1, <1>3, DirectoryChanges DEF Tick, Older, LockTypeOK
      <3>. QED  BY <1>1, <1>3, <3>1 DEF Tick, LockTypeOK
    <2>2. DeployTypeOK'
      BY <1>1, <1>3 DEF Tick, DeployTypeOK
    <2>. QED  BY <2>1, <2>2
  <1>4. ASSUME NEW d \in Deployers, Contend(d) PROVE LockTypeOK' /\ DeployTypeOK'
    <2>. USE <1>1 DEF Goto, EnterStage, StopTimer, Acquiring, Results, Stages, Holding
    <2>1. CASE BeginWaiting(d)
      BY <2>1 DEF BeginWaiting, LockTypeOK, DeployTypeOK
    <2>2. CASE TryAcquire(d)
      BY <2>2 DEF TryAcquire, LockTypeOK, DeployTypeOK
    <2>3. CASE AcquireReturns(d)
      <3>1. LockTypeOK'
        BY <2>3 DEF AcquireReturns, LockTypeOK
      <3>2. stage' \in [Deployers -> Stages] /\ timer' \in [Deployers -> 0..Wait]
        <4>1. {"acquired", "ended", "waiting"} \subseteq Stages
          BY DEF Stages, Holding
        <4>2. stage' \in [Deployers -> Stages]
          <5>. HIDE DEF EnterStage, StopTimer, Stages
          <5>. QED  BY <2>3, <4>1, StageEntered DEF AcquireReturns
        <4>3. timer' \in [Deployers -> 0..Wait]
          <5>. HIDE DEF EnterStage, StopTimer
          <5>. QED  BY <2>3, TimerStopped DEF AcquireReturns, DeployTypeOK
        <4>. QED  BY <4>2, <4>3
      <3>. QED  BY <2>3, <3>1, <3>2 DEF AcquireReturns, DeployTypeOK
    <2>. QED  BY <1>4, <2>1, <2>2, <2>3 DEF Contend
  <1>5. ASSUME NEW d \in Deployers, Deploy(d) PROVE LockTypeOK' /\ DeployTypeOK'
    <2>. USE <1>1 DEF Goto, EnterStage, StopTimer, StartScript, Releasing, Results, Stages,
             Holding, Scripts
    <2>1. CASE ReadPrevious(d) \/ FinishUpload(d) \/ PublishReturns(d) \/ SiteIsHealthy(d)
               \/ SiteIsUnhealthy(d) \/ RollbackReturns(d)
      <3>1. LockTypeOK'
        BY <2>1 DEF ReadPrevious, FinishUpload, PublishReturns, SiteIsHealthy, SiteIsUnhealthy,
                    RollbackReturns, LockTypeOK
      <3>2. DeployTypeOK'
        <4>. HIDE DEF EnterStage, StopTimer, StartScript, Stages, Scripts
        <4>. USE StageEntered, TimerStopped, ScriptStarted
        <4>0. /\ {"uploading", "publishing", "checking", "rolling back", "cleanup"} \subseteq Stages
              /\ {"assemble", "idle", "undo"} \subseteq Scripts
          BY DEF Stages, Scripts, Holding
        <4>1. CASE ReadPrevious(d)
          <5>1. stage' \in [Deployers -> Stages]
            BY <4>0, <4>1 DEF ReadPrevious, DeployTypeOK
          <5>2. previous' \in [Deployers -> Owners \cup {None}]
            BY <4>0, <4>1 DEF ReadPrevious, DeployTypeOK
          <5>. QED  BY <4>1, <5>1, <5>2 DEF ReadPrevious, DeployTypeOK
        <4>2. CASE FinishUpload(d)
          <5>1. stage' \in [Deployers -> Stages]
            BY <4>0, <4>2 DEF FinishUpload, DeployTypeOK
          <5>2. timer' \in [Deployers -> 0..Wait]
            BY <4>0, <4>2 DEF FinishUpload, DeployTypeOK
          <5>3. script' \in [Deployers -> Scripts]
            BY <4>0, <4>2 DEF FinishUpload, DeployTypeOK
          <5>. QED  BY <4>2, <5>1, <5>2, <5>3 DEF FinishUpload, DeployTypeOK
        <4>3. CASE PublishReturns(d)
          <5>1. stage' \in [Deployers -> Stages]
            BY <4>0, <4>3 DEF PublishReturns, DeployTypeOK
          <5>2. script' \in [Deployers -> Scripts]
            BY <4>0, <4>3 DEF PublishReturns, DeployTypeOK
          <5>. QED  BY <4>3, <5>1, <5>2 DEF PublishReturns, DeployTypeOK
        <4>4. CASE SiteIsHealthy(d)
          <5>1. stage' \in [Deployers -> Stages]
            BY <4>0, <4>4 DEF SiteIsHealthy, DeployTypeOK
          <5>. QED  BY <4>4, <5>1 DEF SiteIsHealthy, DeployTypeOK
        <4>5. CASE SiteIsUnhealthy(d)
          <5>1. stage' \in [Deployers -> Stages]
            BY <4>0, <4>5 DEF SiteIsUnhealthy, DeployTypeOK
          <5>2. script' \in [Deployers -> Scripts]
            BY <4>0, <4>5 DEF SiteIsUnhealthy, DeployTypeOK
          <5>3. unhealthy' \subseteq Deployers
            BY <4>0, <4>5 DEF SiteIsUnhealthy, DeployTypeOK
          <5>. QED  BY <4>5, <5>1, <5>2, <5>3 DEF SiteIsUnhealthy, DeployTypeOK
        <4>6. CASE RollbackReturns(d)
          <5>1. stage' \in [Deployers -> Stages]
            BY <4>0, <4>6 DEF RollbackReturns, DeployTypeOK
          <5>2. script' \in [Deployers -> Scripts]
            BY <4>0, <4>6 DEF RollbackReturns, DeployTypeOK
          <5>. QED  BY <4>6, <5>1, <5>2 DEF RollbackReturns, DeployTypeOK
        <4>. QED  BY <2>1, <4>1, <4>2, <4>3, <4>4, <4>5, <4>6
      <3>. QED  BY <3>1, <3>2
    <2>2. CASE BeginRelease(d)
      BY <2>2 DEF BeginRelease, LockTypeOK, DeployTypeOK
    <2>3. CASE ReleaseReturns(d)
      BY <2>3 DEF ReleaseReturns, LockTypeOK, DeployTypeOK
    <2>. QED  BY <1>5, <2>1, <2>2, <2>3 DEF Deploy
  <1>6. ASSUME NEW d \in Deployers, RunScript(d) PROVE LockTypeOK' /\ DeployTypeOK'
    <2>. USE <1>1, <1>6 DEF RunScript, Assemble, Switch, RollbackChecksOwner, Rollback, StartScript
    <2>1. LockTypeOK'
      BY DEF LockTypeOK
    <2>2. DeployTypeOK'
      BY DEF DeployTypeOK, Scripts, Owners
    <2>. QED  BY <2>1, <2>2
  <1>7. ASSUME NEW d \in Deployers, Heartbeat(d) \/ HeartbeatFails(d) PROVE LockTypeOK' /\ DeployTypeOK'
    BY <1>1, <1>7 DEF Heartbeat, HeartbeatFails, RefreshGoto, LockTypeOK, DeployTypeOK, Refreshing
  <1>8. ASSUME NEW d \in Deployers, RunHelper(d) PROVE LockTypeOK' /\ DeployTypeOK'
    BY <1>1, <1>8, AcquireType, RefreshType, ReleaseType DEF RunHelper, HelperStep, DeployTypeOK
  <1>9. ASSUME NEW d \in Deployers, Interrupt(d) \/ LoseRunner(d) PROVE LockTypeOK' /\ DeployTypeOK'
    <2>. USE <1>1, <1>9 DEF Interrupt, LoseRunner, EnterStage, StopTimer
    <2>1. LockTypeOK'
      BY DEF LockTypeOK
    <2>2. DeployTypeOK'
      BY DEF DeployTypeOK, Stages
    <2>. QED  BY <2>1, <2>2
  <1>10. CASE UNCHANGED vars
    BY <1>1, <1>10 DEF vars, LockTypeOK, DeployTypeOK
  <1>. QED
    BY <1>3, <1>4, <1>5, <1>6, <1>7, <1>8, <1>9, <1>10 DEF Next

\* The lock, the quarantines, every run of the helper and every deployment's state are
\* of their types.
THEOREM DeploymentIsTyped == Spec => []TypeOK
  BY TypeInit, TypeStep, PTL DEF Spec

-----------------------------------------------------------------------------
(* The inductive invariant. *)

\* Every lock directory there is, in place or in somebody's quarantine.
Dirs == ({lock} \cup {quarantine[q] : q \in Deployers}) \ {None}

\* Where a deployment's script, its script on the host and its helper run are.
Control(d) ==
    /\ script[d] # "idle" =>
          stage[d] \in {"publishing", "rolling back", "cleanup", "releasing", "ended", "lost"}
    /\ stage[d] = "publishing" => script[d] \in {"assemble", "switch", "published", "refused"}
    /\ stage[d] = "rolling back" => script[d] \in {"undo", "restore", "undone", "refused"}
    /\ stage[d] \in Holding \cup {"start", "waiting", "cleanup"} => run[d] = "idle"
    /\ stage[d] = "acquired" => timer[d] = 0
    /\ run[d] \in Releasing => stage[d] \in {"releasing", "lost"}
    /\ quarantine[d] # None <=> run[d] \in {"verify", "remove", "restore"}

OnHost(d) == script[d] \in {"assemble", "switch", "undo", "restore"}

\* A deployment whose lease has to hold: its loop is alive, or was when its script
\* on the host was started.
Alive(d) ==
    \/ HeartbeatAlive(d)
    \/ script[d] \in {"assemble", "switch"} /\ ~Orphaned(d)
    \/ script[d] \in {"undo", "restore"} /\ ~Orphaned(d) /\ refresh[d] # "failed"

\* A deployment has no lock before it has created one ...
BeforeLock(d) ==
    stage[d] \in {"start", "waiting"} \/ (stage[d] = "acquiring" /\ run[d] # "acquired")

\* ... and a tick has passed since then when its upload has ended.
AfterUpload(d) ==
    \/ stage[d] = "uploading" /\ timer[d] > 0
    \/ stage[d] \in {"publishing", "checking", "rolling back"}
    \/ OnHost(d) /\ ~Orphaned(d)

\* How old the locks of a deployment are.
LockAges(d) ==
    \A dir \in Dirs : dir.owner = d =>
        /\ ~BeforeLock(d)
        /\ stage[d] = "acquiring" => dir.since = 0
        /\ AfterUpload(d) => dir.since > 0

YoungIsFresh(dir) == dir.since = 0 => dir.beat \in {0, None}

\* The lease of a live deployment has not expired.  Its lock may have been moved
\* away while it was younger than the last tick only; an older one is touched by no
\* run that has read, or tested the owner of, another lock.
LeaseHolds(d) ==
    Alive(d) =>
        /\ HasOwner(lock, d) => Age(lock) < Stale
        /\ \A q \in Deployers : HasOwner(quarantine[q], d) => quarantine[q].since = 0
        /\ HasOwner(lock, d) /\ lock.since > 0 =>
              \A o \in Deployers :
                  /\ run[o] # "move"
                  /\ o # d => run[o] \notin {"unlink next", "unlink beat", "unlink owner"}

RemovesExpired(d) == run[d] = "remove" => Age(quarantine[d]) >= Stale

LeaseInv ==
    /\ TypeOK
    /\ \A d \in Deployers : Control(d)
    /\ \A d \in Deployers : LockAges(d)
    /\ \A dir \in Dirs : YoungIsFresh(dir)
    /\ \A d \in Deployers : LeaseHolds(d)
    /\ \A d \in Deployers : RemovesExpired(d)
    /\ LinkMovesUnderLease

-----------------------------------------------------------------------------
(* Where the lock directories of the next state come from. *)

LEMMA InDirs ==
    ASSUME LockTypeOK
    PROVE  /\ Dirs \subseteq Directory
           /\ lock # None => lock \in Dirs
           /\ \A q \in Deployers : quarantine[q] # None => quarantine[q] \in Dirs
  BY DEF LockTypeOK, Dirs

LEMMA DirsAfter ==
    ASSUME NEW new \in Dirs'
    PROVE  new # None /\ (new = lock' \/ \E q \in Deployers : new = quarantine'[q])
  BY DEF Dirs

LEMMA SameDirs ==
    ASSUME UNCHANGED <<lock, quarantine>>
    PROVE  Dirs' = Dirs
  BY DEF Dirs

\* A directory that was moved, or whose files were refreshed or unlinked.
ComesFrom(new, old) ==
    /\ new.since = old.since
    /\ new.owner \in {old.owner, None}
    /\ new.beat \in {old.beat, 0, None}

IsCreated(d, dir) ==
    /\ dir = FreshLock(d)
    /\ run[d] \in {"create", "recreate"} /\ run'[d] = "acquired"

Accounted(d, dir) ==
    dir = None \/ IsCreated(d, dir) \/ \E old \in Dirs : ComesFrom(dir, old)

LEMMA KeptIsAccounted ==
    ASSUME NEW d, NEW dir \in Dirs \cup {None}
    PROVE  Accounted(d, dir)
  BY DEF Accounted, ComesFrom

LEMMA ChangedIsAccounted ==
    ASSUME LockTypeOK, NEW d, NEW dir \in Dirs
    PROVE  /\ Accounted(d, [dir EXCEPT !.junk = TRUE])
           /\ Accounted(d, [dir EXCEPT !.next = TRUE])
           /\ Accounted(d, [dir EXCEPT !.next = FALSE, !.beat = 0])
           /\ Accounted(d, [dir EXCEPT !.next = FALSE])
           /\ Accounted(d, [dir EXCEPT !.beat = None])
           /\ Accounted(d, [dir EXCEPT !.owner = None])
  <1>1. dir \in Directory
    BY InDirs
  <1>2. ComesFrom([dir EXCEPT !.junk = TRUE], dir)
    BY <1>1 DEF Directory, ComesFrom
  <1>3. ComesFrom([dir EXCEPT !.next = TRUE], dir)
    BY <1>1 DEF Directory, ComesFrom
  <1>4. ComesFrom([dir EXCEPT !.next = FALSE, !.beat = 0], dir)
    BY <1>1 DEF Directory, ComesFrom
  <1>5. ComesFrom([dir EXCEPT !.next = FALSE], dir) /\ ComesFrom([dir EXCEPT !.beat = None], dir)
    BY <1>1 DEF Directory, ComesFrom
  <1>6. ComesFrom([dir EXCEPT !.owner = None], dir)
    BY <1>1 DEF Directory, ComesFrom
  <1>. QED  BY <1>2, <1>3, <1>4, <1>5, <1>6 DEF Accounted

\* A helper's step creates at most the caller's own lock, and otherwise moves a
\* directory, refreshes it or empties it.
LEMMA HelperMovesDirs ==
    ASSUME LockTypeOK, NEW d \in Deployers, HelperStep(d)
    PROVE  \A new \in Dirs' : Accounted(d, new)
  <1>. USE InDirs, KeptIsAccounted DEF LockTypeOK
  <1>1. SUFFICES /\ Accounted(d, lock')
                 /\ \A q \in Deployers : quarantine'[q] \in Dirs \cup {None}
    BY DirsAfter
  <1>2. lock \in Dirs \cup {None} /\ \A q \in Deployers : quarantine[q] \in Dirs \cup {None}
    OBVIOUS
  <1>3. UNCHANGED quarantine => \A q \in Deployers : quarantine'[q] \in Dirs \cup {None}
    BY <1>2
  <1>4. UNCHANGED lock => Accounted(d, lock')
    BY <1>2
  <1>5. CASE Acquire(d)
    <2>1. CASE CheckAbsent(d) \/ CheckExists(d) \/ ReadOwner(d) \/ ReadHeartbeat(d) \/ VerifyQuarantined(d)
      BY <2>1, <1>3, <1>4 DEF CheckAbsent, CheckExists, ReadOwner, ReadHeartbeat, VerifyQuarantined
    <2>2. CASE CreateLock(d)
      <3>1. CASE MayPublish
        <4>1. IsCreated(d, lock')
          BY <2>2, <3>1 DEF CreateLock, IsCreated, Goto
        <4>. QED  BY <2>2, <4>1, <1>3 DEF CreateLock, Accounted
      <3>2. CASE ~MayPublish
        BY <2>2, <3>2, <1>3, <1>4 DEF CreateLock
      <3>. QED  BY <3>1, <3>2
    <2>3. CASE MoveToQuarantine(d)
      <3>1. Accounted(d, lock')
        BY <2>3 DEF MoveToQuarantine, Accounted
      <3>. QED  BY <2>3, <3>1, <1>2 DEF MoveToQuarantine
    <2>4. CASE RemoveQuarantined(d)
      BY <2>4, <1>2, <1>4 DEF RemoveQuarantined
    <2>5. CASE RestoreQuarantined(d)
      <3>1. CASE lock = None
        BY <2>5, <3>1, <1>2 DEF RestoreQuarantined
      <3>2. CASE lock # None
        <4>1. Accounted(d, lock')
          BY <2>5, <3>2, ChangedIsAccounted DEF RestoreQuarantined
        <4>. QED  BY <2>5, <4>1, <1>2 DEF RestoreQuarantined
      <3>. QED  BY <3>1, <3>2
    <2>. QED  BY <1>5, <2>1, <2>2, <2>3, <2>4, <2>5 DEF Acquire
  <1>6. CASE Refresh(d)
    <2>1. CASE RefreshChecksToken(d) \/ ConfirmOwner(d)
      BY <2>1, <1>3, <1>4 DEF RefreshChecksToken, ConfirmOwner
    <2>2. CASE WriteHeartbeat(d)
      <3>1. CASE lock = None
        BY <2>2, <3>1, <1>3, <1>4 DEF WriteHeartbeat
      <3>2. CASE lock # None
        <4>1. lock' = [lock EXCEPT !.next = TRUE] /\ UNCHANGED quarantine
          BY <2>2, <3>2 DEF WriteHeartbeat
        <4>2. Accounted(d, [lock EXCEPT !.next = TRUE])
          BY <3>2, ChangedIsAccounted
        <4>. QED  BY <4>1, <4>2, <1>3
      <3>. QED  BY <3>1, <3>2
    <2>3. CASE RenameHeartbeat(d)
      <3>1. CASE lock = None \/ ~lock.next
        BY <2>3, <3>1, <1>3, <1>4 DEF RenameHeartbeat
      <3>2. CASE lock # None /\ lock.next
        <4>1. lock' = [lock EXCEPT !.next = FALSE, !.beat = 0] /\ UNCHANGED quarantine
          BY <2>3, <3>2 DEF RenameHeartbeat
        <4>2. Accounted(d, [lock EXCEPT !.next = FALSE, !.beat = 0])
          BY <3>2, ChangedIsAccounted
        <4>. QED  BY <4>1, <4>2, <1>3
      <3>. QED  BY <3>1, <3>2
    <2>. QED  BY <1>6, <2>1, <2>2, <2>3 DEF Refresh
  <1>7. CASE Release(d)
    <2>1. CASE ReleaseChecksToken(d)
      BY <2>1, <1>3, <1>4 DEF ReleaseChecksToken
    <2>2. CASE UnlinkHeartbeat(d)
      BY <2>2, <1>2, <1>3, ChangedIsAccounted DEF UnlinkHeartbeat
    <2>3. CASE UnlinkOwner(d)
      BY <2>3, <1>2, <1>3, ChangedIsAccounted DEF UnlinkOwner
    <2>4. CASE RemoveDirectory(d)
      <3>1. Accounted(d, lock')
        BY <2>4, <1>2 DEF RemoveDirectory, Accounted
      <3>. QED  BY <2>4, <3>1, <1>3 DEF RemoveDirectory
    <2>5. CASE UnlinkNext(d)
      BY <2>5, <1>2, <1>3, ChangedIsAccounted DEF UnlinkNext
    <2>. QED  BY <1>7, <2>1, <2>2, <2>3, <2>4, <2>5 DEF Release
  <1>. QED  BY <1>5, <1>6, <1>7 DEF HelperStep

-----------------------------------------------------------------------------
(* Where scripts and runs are. *)

LEMMA HelperIsLocal ==
    ASSUME LockTypeOK, NEW d \in Deployers, HelperStep(d), NEW e \in Deployers, e # d
    PROVE  run'[e] = run[e] /\ quarantine'[e] = quarantine[e] /\ refresh'[e] = refresh[e]
  <1>. USE DEF LockTypeOK, Goto, RefreshGoto
  <1>1. CASE Acquire(d)
    BY <1>1 DEF Acquire, CheckAbsent, CreateLock, CheckExists, ReadOwner, ReadHeartbeat,
                MoveToQuarantine, VerifyQuarantined, RemoveQuarantined, RestoreQuarantined
  <1>2. CASE Refresh(d)
    BY <1>2 DEF Refresh, RefreshChecksToken, WriteHeartbeat, ConfirmOwner, RenameHeartbeat
  <1>3. CASE Release(d)
    BY <1>3 DEF Release, ReleaseChecksToken, UnlinkNext, UnlinkHeartbeat, UnlinkOwner, RemoveDirectory
  <1>. QED  BY <1>1, <1>2, <1>3 DEF HelperStep

Quarantines(d) == quarantine[d] # None <=> run[d] \in {"verify", "remove", "restore"}

LEMMA AcquireRun ==
    ASSUME LockTypeOK, NEW d \in Deployers, Acquire(d), Quarantines(d)
    PROVE  /\ run[d] \in Acquiring \cup {"exists"}
           /\ run'[d] \in Acquiring \cup {"exists", "acquired", "busy", "failed"}
           /\ Quarantines(d)'
           /\ UNCHANGED refresh
  <1>. USE DEF LockTypeOK, Goto, Acquiring, Quarantines
  <1>1. CASE CheckAbsent(d) \/ CheckExists(d) \/ ReadOwner(d) \/ ReadHeartbeat(d)
    BY <1>1 DEF CheckAbsent, CheckExists, ReadOwner, ReadHeartbeat
  <1>2. CASE CreateLock(d)
    BY <1>2 DEF CreateLock
  <1>3. CASE MoveToQuarantine(d)
    BY <1>3 DEF MoveToQuarantine
  <1>4. CASE VerifyQuarantined(d)
    BY <1>4 DEF VerifyQuarantined
  <1>5. CASE RemoveQuarantined(d)
    BY <1>5 DEF RemoveQuarantined
  <1>6. CASE RestoreQuarantined(d)
    BY <1>6 DEF RestoreQuarantined
  <1>. QED  BY <1>1, <1>2, <1>3, <1>4, <1>5, <1>6 DEF Acquire

LEMMA RefreshRun ==
    ASSUME LockTypeOK, NEW d \in Deployers, Refresh(d)
    PROVE  UNCHANGED <<run, quarantine>> /\ refresh[d] \notin {"idle", "failed"}
  BY DEF Refresh, RefreshChecksToken, WriteHeartbeat, ConfirmOwner, RenameHeartbeat

LEMMA ReleaseRun ==
    ASSUME LockTypeOK, NEW d \in Deployers, Release(d)
    PROVE  /\ run[d] \in Releasing
           /\ run'[d] \in Releasing \cup {"released", "failed"}
           /\ UNCHANGED <<quarantine, refresh>>
  BY DEF Release, ReleaseChecksToken, UnlinkNext, UnlinkHeartbeat, UnlinkOwner, RemoveDirectory, Goto,
         LockTypeOK, Releasing

LEMMA HelperControl ==
    ASSUME TypeOK, NEW d \in Deployers, HelperStep(d), UNCHANGED deployVars,
           NEW e \in Deployers, Control(e)
    PROVE  Control(e)'
  <1>. USE DEF deployVars
  <1>0. LockTypeOK
    BY DEF TypeOK
  <1>1. CASE e # d
    BY <1>0, <1>1, HelperIsLocal DEF Control
  <1>2. CASE e = d /\ Acquire(d)
    <2>1. Quarantines(d)
      BY <1>2 DEF Control, Quarantines
    <2>2. /\ run[d] \in Acquiring \cup {"exists"}
          /\ run'[d] \in Acquiring \cup {"exists", "acquired", "busy", "failed"}
          /\ Quarantines(d)'
      BY <1>0, <1>2, <2>1, AcquireRun
    <2>3. run[d] # "idle" /\ run'[d] \notin Releasing
      BY <2>2 DEF Acquiring, Releasing
    <2>. QED  BY <1>2, <2>2, <2>3 DEF Control, Quarantines
  <1>3. CASE e = d /\ Refresh(d)
    BY <1>0, <1>3, RefreshRun DEF Control
  <1>4. CASE e = d /\ Release(d)
    <2>1. /\ run[d] \in Releasing
          /\ run'[d] \in Releasing \cup {"released", "failed"}
          /\ UNCHANGED <<quarantine, refresh>>
      BY <1>0, <1>4, ReleaseRun
    <2>2. /\ run[d] # "idle" /\ stage[d] \in {"releasing", "lost"}
          /\ {run[d], run'[d]} \cap {"verify", "remove", "restore"} = {}
      BY <1>4, <2>1 DEF Control, Releasing
    <2>. QED  BY <1>4, <2>1, <2>2 DEF Control
  <1>. QED  BY <1>1, <1>2, <1>3, <1>4 DEF HelperStep

\* A run that has been started is not over before its script takes note of it.
LEMMA HelperStaysBusy ==
    ASSUME LockTypeOK, NEW d \in Deployers, HelperStep(d), NEW e \in Deployers
    PROVE  run'[e] = "idle" <=> run[e] = "idle"
  <1>1. CASE e # d
    BY <1>1, HelperIsLocal
  <1>2. CASE e = d /\ Acquire(d)
    BY <1>2 DEF Acquire, CheckAbsent, CreateLock, CheckExists, ReadOwner, ReadHeartbeat,
                MoveToQuarantine, VerifyQuarantined, RemoveQuarantined, RestoreQuarantined,
                Goto, LockTypeOK
  <1>3. CASE e = d /\ Refresh(d)
    BY <1>3, RefreshRun
  <1>4. CASE e = d /\ Release(d)
    BY <1>4, ReleaseRun DEF Releasing
  <1>. QED  BY <1>1, <1>2, <1>3, <1>4 DEF HelperStep

\* The steps of the deployments' own scripts: no lock directory changes.
ScriptStep(d) ==
    \/ Contend(d)
    \/ Deploy(d)
    \/ RunScript(d)
    \/ Heartbeat(d)
    \/ HeartbeatFails(d)
    \/ Interrupt(d)
    \/ LoseRunner(d)

LEMMA ScriptKeepsDirs ==
    ASSUME NEW d \in Deployers, ScriptStep(d)
    PROVE  UNCHANGED <<lock, quarantine>>
  BY DEF ScriptStep, Contend, BeginWaiting, TryAcquire, AcquireReturns, Deploy, ReadPrevious,
         FinishUpload, PublishReturns, SiteIsHealthy, SiteIsUnhealthy, RollbackReturns,
         BeginRelease, ReleaseReturns, RunScript, Assemble, Switch, RollbackChecksOwner,
         Rollback, Heartbeat, HeartbeatFails, Interrupt, LoseRunner, lockVars, deployVars

LEMMA ScriptIsLocal ==
    ASSUME TypeOK, NEW d \in Deployers, ScriptStep(d), NEW e \in Deployers, e # d
    PROVE  /\ stage'[e] = stage[e] /\ timer'[e] = timer[e] /\ script'[e] = script[e]
           /\ run'[e] = run[e] /\ refresh'[e] = refresh[e]
  <1>. USE DEF TypeOK, LockTypeOK, Goto, RefreshGoto, EnterStage, StopTimer, StartScript,
               lockVars, deployVars
  <1>1. CASE Contend(d)
    BY <1>1 DEF Contend, BeginWaiting, TryAcquire, AcquireReturns
  <1>2. CASE Deploy(d)
    BY <1>2 DEF Deploy, ReadPrevious, FinishUpload, PublishReturns, SiteIsHealthy,
                SiteIsUnhealthy, RollbackReturns, BeginRelease, ReleaseReturns
  <1>3. CASE RunScript(d)
    BY <1>3 DEF RunScript, Assemble, Switch, RollbackChecksOwner, Rollback
  <1>4. CASE Heartbeat(d) \/ HeartbeatFails(d) \/ Interrupt(d) \/ LoseRunner(d)
    BY <1>4 DEF Heartbeat, HeartbeatFails, Interrupt, LoseRunner
  <1>. QED  BY <1>1, <1>2, <1>3, <1>4 DEF ScriptStep

LEMMA ScriptControl ==
    ASSUME TypeOK, NEW d \in Deployers, ScriptStep(d), Control(d)
    PROVE  Control(d)'
  <1>0. UNCHANGED quarantine
    BY ScriptKeepsDirs
  <1>. USE <1>0 DEF TypeOK, LockTypeOK, Goto, RefreshGoto, EnterStage, StopTimer, StartScript,
               lockVars, deployVars, Control, Holding, Releasing
  <1>1. CASE BeginWaiting(d)
    BY <1>1 DEF BeginWaiting
  <1>2. CASE TryAcquire(d)
    BY <1>2 DEF TryAcquire
  <1>3. CASE AcquireReturns(d)
    BY <1>3 DEF AcquireReturns
  <1>4. CASE ReadPrevious(d)
    BY <1>4 DEF ReadPrevious
  <1>5. CASE FinishUpload(d)
    BY <1>5 DEF FinishUpload
  <1>6. CASE PublishReturns(d)
    BY <1>6 DEF PublishReturns
  <1>7. CASE SiteIsHealthy(d)
    BY <1>7 DEF SiteIsHealthy
  <1>8. CASE SiteIsUnhealthy(d)
    BY <1>8 DEF SiteIsUnhealthy
  <1>9. CASE RollbackReturns(d)
    BY <1>9 DEF RollbackReturns
  <1>10. CASE BeginRelease(d)
    BY <1>10 DEF BeginRelease
  <1>11. CASE ReleaseReturns(d)
    BY <1>11 DEF ReleaseReturns
  <1>12. CASE Assemble(d)
    BY <1>12 DEF Assemble
  <1>13. CASE Switch(d)
    BY <1>13 DEF Switch
  <1>14. CASE RollbackChecksOwner(d)
    BY <1>14 DEF RollbackChecksOwner
  <1>15. CASE Rollback(d)
    BY <1>15 DEF Rollback
  <1>16. CASE Heartbeat(d) \/ HeartbeatFails(d)
    BY <1>16 DEF Heartbeat, HeartbeatFails
  <1>17. CASE LoseRunner(d)
    BY <1>17 DEF LoseRunner
  <1>18. CASE Interrupt(d)
    BY <1>18 DEF Interrupt
  <1>. QED
    BY <1>1, <1>2, <1>3, <1>4, <1>5, <1>6, <1>7, <1>8, <1>9, <1>10, <1>11, <1>12, <1>13, <1>14,
       <1>15, <1>16, <1>17, <1>18 DEF ScriptStep, Contend, Deploy, RunScript

LEMMA TickControl ==
    ASSUME TypeOK, Tick, NEW d \in Deployers, Control(d)
    PROVE  Control(d)' /\ quarantine[d] = None /\ quarantine'[d] = None
  <1>1. quarantine[d] = None
    BY DEF Tick, MayTick, Settled, Results, Control
  <1>2. quarantine'[d] = None
    BY <1>1 DEF Tick, Older
  <1>3. stage[d] = "acquired" => timer'[d] = timer[d]
    BY DEF Tick, Timed, TypeOK
  <1>. QED  BY <1>1, <1>2, <1>3 DEF Tick, Control

-----------------------------------------------------------------------------
(* How old locks are. *)

\* A deployment is live after a step only if it was before, except when it has just
\* got its lease; the same holds for the claim that a tick has passed.
LEMMA HelperKeepsClaims ==
    ASSUME TypeOK, NEW d \in Deployers, HelperStep(d), UNCHANGED deployVars,
           NEW e \in Deployers
    PROVE  /\ Alive(e)' => Alive(e)
           /\ AfterUpload(e)' <=> AfterUpload(e)
           /\ stage'[e] = stage[e]
           /\ script'[e] = script[e]
           /\ Orphaned(e)' <=> Orphaned(e)
           /\ refresh[e] = "failed" => refresh'[e] = "failed"
  <1>0. LockTypeOK
    BY DEF TypeOK
  <1>1. refresh[e] = "failed" => refresh'[e] = "failed"
    <2>1. CASE e # d
      BY <1>0, <2>1, HelperIsLocal
    <2>2. CASE e = d /\ (Acquire(d) \/ Release(d))
      BY <2>2 DEF Acquire, CheckAbsent, CreateLock, CheckExists, ReadOwner, ReadHeartbeat,
                MoveToQuarantine, VerifyQuarantined, RemoveQuarantined, RestoreQuarantined,
                Release, ReleaseChecksToken, UnlinkNext, UnlinkHeartbeat, UnlinkOwner, RemoveDirectory
    <2>3. CASE e = d /\ Refresh(d)
      BY <1>0, <2>3, RefreshRun
    <2>. QED  BY <2>1, <2>2, <2>3 DEF HelperStep
  <1>2. stage'[e] = stage[e] /\ script'[e] = script[e] /\ timer'[e] = timer[e]
    BY DEF deployVars
  <1>3. Orphaned(e)' <=> Orphaned(e)
    BY <1>0, <1>2, HelperStaysBusy DEF Orphaned
  <1>. QED  BY <1>1, <1>2, <1>3 DEF Alive, HeartbeatAlive, AfterUpload, OnHost

LEMMA ScriptKeepsClaims ==
    ASSUME TypeOK, NEW d \in Deployers, ScriptStep(d), Control(d), NEW e \in Deployers
    PROVE  /\ Alive(e)' => Alive(e) \/ (stage[e] = "acquiring" /\ run[e] = "acquired")
           /\ AfterUpload(e)' => AfterUpload(e)
           /\ BeforeLock(e)' => BeforeLock(e)
           /\ stage'[e] = "acquiring" => stage[e] = "acquiring" \/ BeforeLock(e)
           /\ Orphaned(e) => Orphaned(e)'
           /\ PublishedLate(e) => PublishedLate(e)'
           /\ refresh[e] = "failed" => refresh'[e] = "failed"
  <1>. USE DEF Alive, AfterUpload, BeforeLock, OnHost, HeartbeatAlive, Orphaned, PublishedLate
  <1>1. CASE e # d
    BY <1>1, ScriptIsLocal
  <1>2. CASE e = d
    <2>. USE <1>2 DEF TypeOK, LockTypeOK, DeployTypeOK, Goto, RefreshGoto, EnterStage, StopTimer,
                 StartScript, lockVars, deployVars, Control, Holding
    <2>1. CASE BeginWaiting(d)
      BY <2>1 DEF BeginWaiting
    <2>2. CASE TryAcquire(d)
      BY <2>2 DEF TryAcquire
    <2>3. CASE AcquireReturns(d)
      BY <2>3 DEF AcquireReturns
    <2>4. CASE ReadPrevious(d)
      <3>1. /\ stage'[d] \in {"uploading", "cleanup"} /\ timer'[d] = 0
            /\ UNCHANGED <<script, refresh, run>> /\ stage[d] = "acquired"
        BY <2>4 DEF ReadPrevious
      <3>2. ~(timer'[d] > 0)
        BY <3>1
      <3>. QED  BY <3>1, <3>2
    <2>5. CASE FinishUpload(d)
      <3>1. timer[d] > 0
        BY <2>5 DEF FinishUpload
      <3>2. /\ stage[d] = "uploading" /\ stage'[d] \in {"publishing", "cleanup"}
            /\ UNCHANGED <<refresh, run>>
            /\ script'[d] = script[d] \/ HeartbeatAlive(d)
        BY <2>5 DEF FinishUpload
      <3>. QED  BY <3>1, <3>2
    <2>6. CASE PublishReturns(d)
      BY <2>6 DEF PublishReturns
    <2>7. CASE SiteIsHealthy(d)
      BY <2>7 DEF SiteIsHealthy
    <2>8. CASE SiteIsUnhealthy(d)
      BY <2>8 DEF SiteIsUnhealthy
    <2>9. CASE RollbackReturns(d)
      BY <2>9 DEF RollbackReturns
    <2>10. CASE BeginRelease(d)
      BY <2>10 DEF BeginRelease
    <2>11. CASE ReleaseReturns(d)
      BY <2>11 DEF ReleaseReturns
    <2>12. CASE Assemble(d)
      BY <2>12 DEF Assemble
    <2>13. CASE Switch(d)
      BY <2>13 DEF Switch
    <2>14. CASE RollbackChecksOwner(d)
      BY <2>14 DEF RollbackChecksOwner
    <2>15. CASE Rollback(d)
      BY <2>15 DEF Rollback
    <2>16. CASE Heartbeat(d) \/ HeartbeatFails(d)
      BY <2>16 DEF Heartbeat, HeartbeatFails
    <2>17. CASE LoseRunner(d)
      BY <2>17 DEF LoseRunner
    <2>18. CASE Interrupt(d)
      BY <2>18 DEF Interrupt
    <2>. QED
      BY <2>1, <2>2, <2>3, <2>4, <2>5, <2>6, <2>7, <2>8, <2>9, <2>10, <2>11, <2>12, <2>13, <2>14,
         <2>15, <2>16, <2>17, <2>18 DEF ScriptStep, Contend, Deploy, RunScript
  <1>. QED  BY <1>1, <1>2

\* What a helper's step can do to the lock in place ...
LockFate(d) ==
    \/ lock' = None /\ (lock = None \/ lock.owner = None \/ run[d] = "move")
    \/ IsCreated(d, lock') /\ (lock = None \/ lock.owner = None)
    \/ lock = None /\ quarantine[d] # None /\ lock' = quarantine[d]
    \/ /\ lock # None /\ lock' # None /\ lock'.since = lock.since
       /\ lock'.owner = lock.owner \/ (lock'.owner = None /\ run[d] = "unlink owner")
       /\ lock'.beat \in {lock.beat, 0} \/ (lock'.beat = None /\ run[d] = "unlink beat")

LEMMA KeptLockFate ==
    ASSUME LockTypeOK, NEW d, UNCHANGED lock
    PROVE  LockFate(d)
  BY DEF LockFate

LEMMA HelperMovesLock ==
    ASSUME LockTypeOK, NEW d \in Deployers, HelperStep(d), Quarantines(d)
    PROVE  LockFate(d)
  <1>0. lock # None => lock \in Directory
    BY DEF LockTypeOK
  <1>1. CASE UNCHANGED lock
    BY <1>1, KeptLockFate
  <1>2. CASE CreateLock(d) /\ MayPublish
    BY <1>2 DEF CreateLock, LockFate, IsCreated, Goto, MayPublish, Empty, LockTypeOK
  <1>3. CASE MoveToQuarantine(d)
    BY <1>3 DEF MoveToQuarantine, LockFate
  <1>4. CASE RestoreQuarantined(d)
    <2>1. CASE lock = None
      BY <1>4, <2>1 DEF RestoreQuarantined, LockFate, Quarantines
    <2>2. CASE lock # None
      <3>1. lock' = [lock EXCEPT !.junk = TRUE]
        BY <1>4, <2>2 DEF RestoreQuarantined
      <3>2. /\ lock'.since = lock.since /\ lock'.owner = lock.owner /\ lock'.beat = lock.beat
            /\ lock' \in Directory
        BY <1>0, <2>2, <3>1 DEF Directory
      <3>. QED  BY <2>2, <3>2, NoDirectory DEF LockFate
    <2>. QED  BY <2>1, <2>2
  <1>5. CASE WriteHeartbeat(d) /\ lock # None
    <2>1. lock' = [lock EXCEPT !.next = TRUE]
      BY <1>5 DEF WriteHeartbeat
    <2>2. /\ lock'.since = lock.since /\ lock'.owner = lock.owner /\ lock'.beat = lock.beat
          /\ lock' \in Directory
      BY <1>0, <1>5, <2>1 DEF Directory
    <2>. QED  BY <1>5, <2>2, NoDirectory DEF LockFate
  <1>6. CASE RenameHeartbeat(d) /\ lock # None /\ lock.next
    <2>1. lock' = [lock EXCEPT !.next = FALSE, !.beat = 0]
      BY <1>6 DEF RenameHeartbeat
    <2>2. /\ lock'.since = lock.since /\ lock'.owner = lock.owner /\ lock'.beat = 0
      BY <1>0, <1>6, <2>1 DEF Directory
    <2>3. lock' \in Directory
      BY <1>0, <1>6, <2>1, DirectoryChanges
    <2>. QED  BY <1>6, <2>2, <2>3, NoDirectory DEF LockFate
  <1>7. CASE UnlinkHeartbeat(d) /\ lock # None
    <2>1. lock' = [lock EXCEPT !.beat = None] /\ run[d] = "unlink beat"
      BY <1>7 DEF UnlinkHeartbeat
    <2>2. /\ lock'.since = lock.since /\ lock'.owner = lock.owner /\ lock'.beat = None
      BY <1>0, <1>7, <2>1 DEF Directory
    <2>3. lock' \in Directory
      BY <1>0, <1>7, <2>1, DirectoryChanges
    <2>. QED  BY <1>7, <2>1, <2>2, <2>3, NoDirectory DEF LockFate
  <1>8. CASE UnlinkOwner(d) /\ lock # None
    <2>1. lock' = [lock EXCEPT !.owner = None] /\ run[d] = "unlink owner"
      BY <1>8 DEF UnlinkOwner
    <2>2. /\ lock'.since = lock.since /\ lock'.owner = None /\ lock'.beat = lock.beat
      BY <1>0, <1>8, <2>1 DEF Directory
    <2>3. lock' \in Directory
      BY <1>0, <1>8, <2>1, DirectoryChanges
    <2>. QED  BY <1>8, <2>1, <2>2, <2>3, NoDirectory DEF LockFate
  <1>9. CASE RemoveDirectory(d)
    BY <1>9, <1>1 DEF RemoveDirectory, LockFate, Empty
  <1>10. CASE \/ CheckAbsent(d) \/ CheckExists(d) \/ ReadOwner(d) \/ ReadHeartbeat(d)
              \/ VerifyQuarantined(d) \/ RemoveQuarantined(d)
              \/ CreateLock(d) /\ ~MayPublish
    BY <1>1, <1>10 DEF CheckAbsent, CheckExists, ReadOwner, ReadHeartbeat, VerifyQuarantined,
                       RemoveQuarantined, CreateLock
  <1>11. CASE \/ RefreshChecksToken(d) \/ ConfirmOwner(d) \/ ReleaseChecksToken(d)
              \/ WriteHeartbeat(d) /\ lock = None
              \/ UnlinkNext(d) /\ lock = None
              \/ UnlinkHeartbeat(d) /\ lock = None
              \/ UnlinkOwner(d) /\ lock = None
    BY <1>1, <1>11 DEF RefreshChecksToken, ConfirmOwner, ReleaseChecksToken, WriteHeartbeat,
                       UnlinkNext, UnlinkHeartbeat, UnlinkOwner
  <1>12. CASE RenameHeartbeat(d) /\ (lock = None \/ ~lock.next)
    BY <1>1, <1>12 DEF RenameHeartbeat
  <1>13. CASE UnlinkNext(d) /\ lock # None
    <2>1. lock' = [lock EXCEPT !.next = FALSE]
      BY <1>13 DEF UnlinkNext
    <2>2. /\ lock'.since = lock.since /\ lock'.owner = lock.owner /\ lock'.beat = lock.beat
          /\ lock' \in Directory
      BY <1>0, <1>13, <2>1 DEF Directory
    <2>. QED  BY <1>13, <2>2, NoDirectory DEF LockFate
  <1>. QED
    BY <1>2, <1>3, <1>4, <1>5, <1>6, <1>7, <1>8, <1>9, <1>10, <1>11, <1>12, <1>13
    DEF HelperStep, Acquire, Refresh, Release

\* ... to the quarantines ...
LEMMA HelperMovesQuarantine ==
    ASSUME LockTypeOK, NEW d \in Deployers, HelperStep(d), NEW q \in Deployers
    PROVE  \/ quarantine'[q] \in {quarantine[q], None}
           \/ quarantine'[q] = lock /\ run[d] = "move"
  <1>1. CASE Acquire(d)
    BY <1>1 DEF Acquire, CheckAbsent, CreateLock, CheckExists, ReadOwner, ReadHeartbeat,
                MoveToQuarantine, VerifyQuarantined, RemoveQuarantined, RestoreQuarantined, LockTypeOK
  <1>2. CASE Refresh(d) \/ Release(d)
    BY <1>2, RefreshRun, ReleaseRun
  <1>. QED  BY <1>1, <1>2 DEF HelperStep

\* ... and when it may get to the commands that touch another's lock.
LEMMA HelperMayMove ==
    ASSUME LockTypeOK, NEW d \in Deployers, HelperStep(d)
    PROVE  /\ run'[d] = "move" => run[d] = "move" \/ (lock # None /\ Age(lock) >= Stale)
           /\ run'[d] \in {"unlink next", "unlink beat", "unlink owner"} =>
                 run[d] \in {"unlink next", "unlink beat", "unlink owner"} \/ HasOwner(lock, d)
           /\ run'[d] = "remove" =>
                 \/ run[d] = "remove" /\ quarantine'[d] = quarantine[d]
                 \/ quarantine'[d] = quarantine[d] /\ Age(quarantine[d]) >= Stale
           /\ run[d] = "acquired" => run'[d] = "acquired"
  <1>0. lock # None => lock \in Directory /\ Age(lock) \in Ages
    BY DEF LockTypeOK, Directory, Age, Ages
  <1>1. CASE Acquire(d)
    <2>. USE DEF LockTypeOK, Goto
    <2>1. CASE CheckAbsent(d) \/ CheckExists(d) \/ ReadOwner(d) \/ VerifyQuarantined(d)
      BY <2>1 DEF CheckAbsent, CheckExists, ReadOwner, VerifyQuarantined, Expired
    <2>2. CASE CreateLock(d)
      BY <2>2 DEF CreateLock
    <2>3. CASE ReadHeartbeat(d)
      <3>1. run'[d] = "move" => lock # None /\ ~(Age(lock) < Stale)
        BY <2>3 DEF ReadHeartbeat
      <3>2. run'[d] = "move" => lock # None /\ Age(lock) >= Stale
        BY <1>0, <3>1 DEF Ages
      <3>. QED  BY <2>3, <3>2 DEF ReadHeartbeat
    <2>4. CASE MoveToQuarantine(d)
      BY <2>4 DEF MoveToQuarantine
    <2>5. CASE RemoveQuarantined(d)
      BY <2>5 DEF RemoveQuarantined
    <2>6. CASE RestoreQuarantined(d)
      BY <2>6 DEF RestoreQuarantined
    <2>. QED  BY <1>1, <2>1, <2>2, <2>3, <2>4, <2>5, <2>6 DEF Acquire
  <1>2. CASE Refresh(d)
    BY <1>2, RefreshRun
  <1>3. CASE Release(d)
    BY <1>3 DEF Release, ReleaseChecksToken, UnlinkNext, UnlinkHeartbeat, UnlinkOwner, RemoveDirectory, Goto,
                LockTypeOK
  <1>. QED  BY <1>1, <1>2, <1>3 DEF HelperStep

-----------------------------------------------------------------------------
(* Steps of the helper preserve the invariant. *)

LEMMA CreatorHoldsNothing ==
    ASSUME NEW d \in Deployers, Control(d), run[d] # "idle"
    PROVE  ~Alive(d) /\ ~AfterUpload(d)
  BY DEF Control, Alive, HeartbeatAlive, AfterUpload, OnHost, Orphaned, Holding

LEMMA HelperAges ==
    ASSUME TypeOK, NEW d \in Deployers, Control(d), HelperStep(d), UNCHANGED deployVars,
           NEW e \in Deployers, LockAges(e)
    PROVE  LockAges(e)'
  <1>0. LockTypeOK
    BY DEF TypeOK
  <1>1. SUFFICES ASSUME NEW new \in Dirs', new.owner = e
                 PROVE  /\ ~BeforeLock(e)'
                        /\ stage'[e] = "acquiring" => new.since = 0
                        /\ AfterUpload(e)' => new.since > 0
    BY DEF LockAges
  <1>2. Accounted(d, new) /\ new # None
    BY <1>0, HelperMovesDirs, DirsAfter
  <1>3. /\ AfterUpload(e)' <=> AfterUpload(e)
        /\ stage'[e] = stage[e]
    BY HelperKeepsClaims
  <1>4. CASE IsCreated(d, new)
    <2>1. new = FreshLock(d) /\ run[d] \in {"create", "recreate"} /\ run'[d] = "acquired"
      BY <1>4 DEF IsCreated
    <2>2. e = d /\ new.since = 0
      BY <1>1, <2>1 DEF FreshLock
    <2>3. ~AfterUpload(e)
      BY <2>1, <2>2, CreatorHoldsNothing
    <2>4. stage[d] \notin {"start", "waiting"}
      BY <2>1 DEF Control
    <2>. QED  BY <1>3, <2>1, <2>2, <2>3, <2>4 DEF BeforeLock
  <1>5. ASSUME NEW old \in Dirs, ComesFrom(new, old)
        PROVE  /\ ~BeforeLock(e)'
               /\ stage'[e] = "acquiring" => new.since = 0
               /\ AfterUpload(e)' => new.since > 0
    <2>1. old.owner = e /\ new.since = old.since
      BY <1>1, <1>5 DEF ComesFrom
    <2>2. /\ ~BeforeLock(e)
          /\ stage[e] = "acquiring" => old.since = 0
          /\ AfterUpload(e) => old.since > 0
      BY <2>1 DEF LockAges
    <2>3. run[e] = "acquired" => run'[e] = "acquired"
      BY <1>0, HelperMayMove, HelperIsLocal
    <2>. QED  BY <1>3, <2>1, <2>2, <2>3 DEF BeforeLock
  <1>. QED  BY <1>2, <1>4, <1>5 DEF Accounted

LEMMA HelperYoung ==
    ASSUME LockTypeOK, NEW d \in Deployers, HelperStep(d), \A dir \in Dirs : YoungIsFresh(dir),
           NEW new \in Dirs'
    PROVE  YoungIsFresh(new)
  <1>1. Accounted(d, new) /\ new # None
    BY HelperMovesDirs, DirsAfter
  <1>2. CASE IsCreated(d, new)
    BY <1>2 DEF IsCreated, FreshLock, YoungIsFresh
  <1>3. CASE \E old \in Dirs : ComesFrom(new, old)
    BY <1>3 DEF ComesFrom, YoungIsFresh
  <1>. QED  BY <1>1, <1>2, <1>3 DEF Accounted

\* A young lock with an owner is of age 0.
LEMMA YoungIsAlive ==
    ASSUME NEW dir, dir \in Dirs, YoungIsFresh(dir), dir.since = 0, dir.owner # None
    PROVE  Age(dir) = 0
  BY DEF YoungIsFresh, Age

\* A live deployment's lock was there before, or comes back young from a quarantine.
LEMMA HelperLockSource ==
    ASSUME LeaseInv, NEW d \in Deployers, HelperStep(d), NEW e \in Deployers,
           Alive(e), HasOwner(lock', e)
    PROVE  \/ HasOwner(lock, e) /\ lock'.since = lock.since
              /\ (lock'.beat \in {lock.beat, 0} \/ (lock'.beat = None /\ run[d] = "unlink beat"))
           \/ Age(lock') = 0 /\ lock'.since = 0
  <1>0. LockTypeOK
    BY DEF TypeOK, LeaseInv
  <1>1. \A q \in Deployers : HasOwner(quarantine[q], e) => quarantine[q].since = 0
    BY DEF LeaseInv, LeaseHolds
  <1>2. run[e] = "idle"
    BY CreatorHoldsNothing DEF LeaseInv
  <1>3. LockFate(d)
    BY <1>0, HelperMovesLock DEF LeaseInv, Control, Quarantines
  <1>4. e # None
    BY LockAssumption
  <1>5. CASE IsCreated(d, lock')
    <2>1. d = e
      BY <1>5 DEF IsCreated, FreshLock, HasOwner
    <2>. QED  BY <1>2, <1>5, <2>1 DEF IsCreated
  <1>6. CASE lock = None /\ quarantine[d] # None /\ lock' = quarantine[d]
    <2>1. quarantine[d].since = 0 /\ quarantine[d].owner # None /\ quarantine[d] \in Dirs
      BY <1>0, <1>1, <1>4, <1>6, InDirs DEF HasOwner
    <2>2. Age(quarantine[d]) = 0
      BY <2>1, YoungIsAlive DEF LeaseInv
    <2>. QED  BY <1>6, <2>1, <2>2
  <1>7. CASE /\ lock # None /\ lock' # None /\ lock'.since = lock.since
             /\ lock'.owner = lock.owner \/ (lock'.owner = None /\ run[d] = "unlink owner")
             /\ lock'.beat \in {lock.beat, 0} \/ (lock'.beat = None /\ run[d] = "unlink beat")
    <2>1. lock'.owner = e
      BY DEF HasOwner
    <2>2. lock.owner = e
      BY <1>4, <1>7, <2>1
    <2>3. HasOwner(lock, e)
      BY <1>7, <2>2 DEF HasOwner
    <2>. QED  BY <1>7, <2>3
  <1>8. CASE lock' = None
    BY <1>8 DEF HasOwner
  <1>. QED  BY <1>3, <1>5, <1>6, <1>7, <1>8 DEF LockFate

LEMMA HelperLease ==
    ASSUME LeaseInv, NEW d \in Deployers, HelperStep(d), UNCHANGED deployVars,
           NEW e \in Deployers
    PROVE  LeaseHolds(e)'
  <1>0. LockTypeOK /\ TypeOK
    BY DEF TypeOK, LeaseInv
  <1>1. SUFFICES ASSUME Alive(e)'
                 PROVE  /\ HasOwner(lock', e) => Age(lock') < Stale
                        /\ \A q \in Deployers : HasOwner(quarantine'[q], e) => quarantine'[q].since = 0
                        /\ HasOwner(lock', e) /\ lock'.since > 0 =>
                              \A o \in Deployers :
                                  /\ run'[o] # "move"
                                  /\ o # e => run'[o] \notin {"unlink next", "unlink beat", "unlink owner"}
    BY DEF LeaseHolds, HasOwner, Age
  <1>2. Alive(e)
    BY <1>0, <1>1, HelperKeepsClaims
  <1>3. /\ HasOwner(lock, e) => Age(lock) < Stale
        /\ \A q \in Deployers : HasOwner(quarantine[q], e) => quarantine[q].since = 0
        /\ HasOwner(lock, e) /\ lock.since > 0 =>
              \A o \in Deployers :
                  /\ run[o] # "move"
                  /\ o # e => run[o] \notin {"unlink next", "unlink beat", "unlink owner"}
    BY <1>2 DEF LeaseInv, LeaseHolds
  <1>4. run[e] = "idle"
    BY <1>2, CreatorHoldsNothing DEF LeaseInv
  <1>5. LockFate(d)
    BY <1>0, HelperMovesLock DEF LeaseInv, Control, Quarantines
  <1>6. e # None
    BY LockAssumption
  <1>7. lock # None => lock.since \in Nat /\ lock.since >= 0
    BY <1>0 DEF LockTypeOK, Directory, Ages
  <1>8. HasOwner(lock', e) =>
          \/ HasOwner(lock, e) /\ lock'.since = lock.since
             /\ (lock'.beat \in {lock.beat, 0} \/ (lock'.beat = None /\ run[d] = "unlink beat"))
          \/ Age(lock') = 0 /\ lock'.since = 0
    BY <1>2, HelperLockSource
  <1>9. HasOwner(lock', e) => Age(lock') < Stale
    <2>1. SUFFICES ASSUME HasOwner(lock', e) PROVE Age(lock') < Stale
      OBVIOUS
    <2>2. CASE Age(lock') = 0
      BY <2>2, LockAssumption
    <2>3. CASE HasOwner(lock, e) /\ lock'.since = lock.since /\ lock'.beat \in {lock.beat, 0}
      <3>1. CASE lock'.beat = 0
        <4>1. 0 # None
          BY NoDirectory, LockAssumption DEF Ages
        <4>. QED  BY <3>1, <4>1, LockAssumption DEF Age
      <3>2. CASE lock'.beat = lock.beat
        <4>1. Age(lock') = Age(lock)
          BY <2>1, <2>3, <3>2 DEF Age, HasOwner
        <4>. QED  BY <1>3, <2>3, <4>1
      <3>. QED  BY <2>3, <3>1, <3>2
    <2>4. CASE /\ HasOwner(lock, e) /\ lock'.since = lock.since
               /\ lock'.beat = None /\ run[d] = "unlink beat"
      <3>1. d # e
        BY <1>4, <2>4
      <3>2. lock'.since = 0
        <4>1. ~(lock.since > 0)
          BY <1>3, <2>4, <3>1
        <4>2. lock # None
          BY <2>4 DEF HasOwner
        <4>3. lock.since = 0
          BY <1>7, <4>1, <4>2
        <4>. QED  BY <2>4, <4>3
      <3>3. Age(lock') = 0
        BY <2>4, <3>2 DEF Age
      <3>. QED  BY <2>2, <3>3
    <2>. QED  BY <1>8, <2>1, <2>2, <2>3, <2>4
  <1>10. ASSUME NEW q \in Deployers, HasOwner(quarantine'[q], e)
         PROVE  quarantine'[q].since = 0
    <2>1. CASE quarantine'[q] \in {quarantine[q], None}
      BY <1>3, <1>10, <2>1 DEF HasOwner
    <2>2. CASE quarantine'[q] = lock /\ run[d] = "move"
      <3>1. HasOwner(lock, e)
        BY <1>10, <2>2
      <3>2. ~(lock.since > 0)
        BY <1>3, <2>2, <3>1
      <3>. QED  BY <1>7, <2>2, <3>1, <3>2 DEF HasOwner
    <2>. QED  BY <1>0, <2>1, <2>2, HelperMovesQuarantine
  <1>11. ASSUME HasOwner(lock', e), lock'.since > 0, NEW o \in Deployers
         PROVE  /\ run'[o] # "move"
                /\ o # e => run'[o] \notin {"unlink next", "unlink beat", "unlink owner"}
    <2>1. HasOwner(lock, e) /\ lock.since > 0
      <3>1. lock'.since # 0
        BY <1>11
      <3>2. HasOwner(lock, e) /\ lock'.since = lock.since
        BY <1>8, <1>11, <3>1
      <3>. QED  BY <1>11, <3>2
    <2>2. CASE o # d
      BY <1>0, <1>3, <2>1, <2>2, HelperIsLocal
    <2>3. CASE o = d
      <3>1. lock.owner = e /\ ~(Age(lock) >= Stale)
        <4>1. lock # None /\ lock.owner = e /\ Age(lock) < Stale
          BY <1>3, <2>1 DEF HasOwner
        <4>2. Age(lock) \in Nat
          BY <1>0, <4>1 DEF LockTypeOK, Directory, Age, Ages
        <4>. QED  BY <4>1, <4>2, LockAssumption
      <3>. QED  BY <1>0, <1>3, <2>1, <2>3, <3>1, HelperMayMove DEF HasOwner
    <2>. QED  BY <2>2, <2>3
  <1>. QED  BY <1>9, <1>10, <1>11

LEMMA HelperRemoval ==
    ASSUME LeaseInv, NEW d \in Deployers, HelperStep(d), NEW e \in Deployers
    PROVE  RemovesExpired(e)'
  <1>0. LockTypeOK /\ RemovesExpired(e)
    BY DEF TypeOK, LeaseInv
  <1>1. CASE e # d
    BY <1>0, <1>1, HelperIsLocal DEF RemovesExpired, Age
  <1>2. CASE e = d
    BY <1>0, <1>2, HelperMayMove DEF RemovesExpired, Age
  <1>. QED  BY <1>1, <1>2

LEMMA InChargeIsAlive ==
    ASSUME NEW d \in Deployers, InCharge(d)
    PROVE  Alive(d) /\ AfterUpload(d)
  BY DEF InCharge, Alive, AfterUpload, OnHost

LEMMA OlderLeaseStays ==
    ASSUME LeaseInv, NEW d \in Deployers, HelperStep(d), NEW e \in Deployers,
           Alive(e), AfterUpload(e), OwnsLease(e)
    PROVE  HasOwner(lock', e)
  <1>0. LockTypeOK
    BY DEF TypeOK, LeaseInv
  <1>1. lock # None /\ lock.owner = e /\ lock \in Dirs
    BY <1>0, InDirs DEF OwnsLease, HasOwner
  <1>2. lock.since > 0
    BY <1>1 DEF LeaseInv, LockAges
  <1>3. run[d] # "move" /\ (d # e => run[d] \notin {"unlink next", "unlink beat", "unlink owner"})
    BY <1>1, <1>2 DEF LeaseInv, LeaseHolds, HasOwner
  <1>4. run[e] = "idle"
    BY CreatorHoldsNothing DEF LeaseInv
  <1>5. LockFate(d)
    BY <1>0, HelperMovesLock DEF LeaseInv, Control, Quarantines
  <1>6. e # None
    BY LockAssumption
  <1>. QED  BY <1>1, <1>3, <1>4, <1>5, <1>6 DEF LockFate, HasOwner

LEMMA HelperLink ==
    ASSUME LeaseInv, NEW d \in Deployers, HelperStep(d), UNCHANGED deployVars
    PROVE  LinkMovesUnderLease'
  <1>1. SUFFICES ASSUME NEW e \in Deployers, InCharge(e)'
                 PROVE  HasOwner(lock', e)
    BY DEF LinkMovesUnderLease, OwnsLease, HasOwner
  <1>2. InCharge(e)
    BY <1>1, HelperKeepsClaims DEF InCharge, LeaseInv
  <1>3. OwnsLease(e)
    BY <1>2 DEF LeaseInv, LinkMovesUnderLease
  <1>. QED  BY <1>2, <1>3, InChargeIsAlive, OlderLeaseStays

LEMMA HelperStepInv ==
    ASSUME LeaseInv, NEW d \in Deployers, RunHelper(d), TypeOK'
    PROVE  LeaseInv'
  <1>1. HelperStep(d) /\ UNCHANGED deployVars /\ TypeOK /\ LockTypeOK
    BY DEF RunHelper, LeaseInv, TypeOK
  <1>2. \A e \in Deployers : Control(e)'
    BY <1>1, HelperControl DEF LeaseInv
  <1>3. \A e \in Deployers : LockAges(e)'
    BY <1>1, HelperAges DEF LeaseInv
  <1>4. \A new \in Dirs' : YoungIsFresh(new)
    BY <1>1, HelperYoung DEF LeaseInv
  <1>5. \A e \in Deployers : LeaseHolds(e)'
    BY <1>1, HelperLease
  <1>6. \A e \in Deployers : RemovesExpired(e)'
    BY <1>1, HelperRemoval
  <1>7. LinkMovesUnderLease'
    BY <1>1, HelperLink
  <1>. QED  BY <1>2, <1>3, <1>4, <1>5, <1>6, <1>7 DEF LeaseInv, YoungIsFresh

-----------------------------------------------------------------------------
(* Steps of the scripts preserve the invariant. *)

LEMMA ScriptRuns ==
    ASSUME TypeOK, NEW d \in Deployers, ScriptStep(d), NEW e \in Deployers
    PROVE  run'[e] \in {run[e], "idle", "check", "token"}
  <1>1. CASE e # d
    BY <1>1, ScriptIsLocal
  <1>2. CASE e = d
    <2>. USE <1>2 DEF TypeOK, LockTypeOK, Goto, lockVars, deployVars
    <2>1. CASE Contend(d)
      BY <2>1 DEF Contend, BeginWaiting, TryAcquire, AcquireReturns
    <2>2. CASE Deploy(d)
      BY <2>2 DEF Deploy, ReadPrevious, FinishUpload, PublishReturns, SiteIsHealthy,
                  SiteIsUnhealthy, RollbackReturns, BeginRelease, ReleaseReturns
    <2>3. CASE RunScript(d)
      BY <2>3 DEF RunScript, Assemble, Switch, RollbackChecksOwner, Rollback
    <2>4. CASE Heartbeat(d) \/ HeartbeatFails(d) \/ Interrupt(d) \/ LoseRunner(d)
      BY <2>4 DEF Heartbeat, HeartbeatFails, Interrupt, LoseRunner
    <2>. QED  BY <2>1, <2>2, <2>3, <2>4 DEF ScriptStep
  <1>. QED  BY <1>1, <1>2

LEMMA ScriptCharge ==
    ASSUME TypeOK, NEW d \in Deployers, ScriptStep(d), Control(d), NEW e \in Deployers,
           InCharge(e)'
    PROVE  InCharge(e) \/ OwnsLease(e)
  <1>1. CASE e # d
    BY <1>1, ScriptIsLocal DEF InCharge, Orphaned
  <1>2. CASE e = d
    <2>. USE <1>2 DEF TypeOK, LockTypeOK, Goto, RefreshGoto, StartScript, EnterStage, lockVars,
                 deployVars, InCharge, Orphaned, Control, Holding
    <2>1. CASE Contend(d)
      BY <2>1 DEF Contend, BeginWaiting, TryAcquire, AcquireReturns
    <2>2. CASE Deploy(d)
      BY <2>2 DEF Deploy, ReadPrevious, FinishUpload, PublishReturns, SiteIsHealthy,
                  SiteIsUnhealthy, RollbackReturns, BeginRelease, ReleaseReturns
    <2>3. CASE RunScript(d)
      BY <2>3 DEF RunScript, Assemble, Switch, RollbackChecksOwner, Rollback
    <2>4. CASE Heartbeat(d) \/ HeartbeatFails(d) \/ Interrupt(d) \/ LoseRunner(d)
      BY <2>4 DEF Heartbeat, HeartbeatFails, HeartbeatAlive, Interrupt, LoseRunner
    <2>. QED  BY <2>1, <2>2, <2>3, <2>4 DEF ScriptStep
  <1>. QED  BY <1>1, <1>2

LEMMA ScriptLease ==
    ASSUME LeaseInv, NEW d \in Deployers, ScriptStep(d), NEW e \in Deployers
    PROVE  LeaseHolds(e)'
  <1>0. TypeOK /\ LockTypeOK /\ Control(d) /\ UNCHANGED <<lock, quarantine>>
    BY ScriptKeepsDirs DEF LeaseInv, TypeOK
  <1>1. SUFFICES ASSUME Alive(e)'
                 PROVE  /\ HasOwner(lock, e) => Age(lock) < Stale
                        /\ \A q \in Deployers : HasOwner(quarantine[q], e) => quarantine[q].since = 0
                        /\ HasOwner(lock, e) /\ lock.since > 0 =>
                              \A o \in Deployers :
                                  /\ run'[o] # "move"
                                  /\ o # e => run'[o] \notin {"unlink next", "unlink beat", "unlink owner"}
    BY <1>0 DEF LeaseHolds, HasOwner, Age
  <1>2. \A o \in Deployers : run'[o] \in {run[o], "idle", "check", "token"}
    BY <1>0, ScriptRuns
  <1>3. CASE Alive(e)
    BY <1>2, <1>3 DEF LeaseInv, LeaseHolds
  <1>4. CASE stage[e] = "acquiring" /\ run[e] = "acquired"
    <2>1. \A dir \in Dirs : dir.owner = e => dir.since = 0
      BY <1>4 DEF LeaseInv, LockAges
    <2>2. e # None /\ ~(0 > 0) /\ 0 < Stale
      BY LockAssumption
    <2>3. HasOwner(lock, e) => lock.since = 0 /\ Age(lock) = 0
      BY <1>0, <2>1, <2>2, InDirs, YoungIsAlive DEF LeaseInv, HasOwner
    <2>4. \A q \in Deployers : HasOwner(quarantine[q], e) => quarantine[q].since = 0
      BY <1>0, <2>1, InDirs DEF HasOwner
    <2>. QED  BY <2>2, <2>3, <2>4
  <1>. QED  BY <1>0, <1>1, <1>3, <1>4, ScriptKeepsClaims

LEMMA ScriptStepInv ==
    ASSUME LeaseInv, NEW d \in Deployers, ScriptStep(d), TypeOK'
    PROVE  LeaseInv'
  <1>0. TypeOK /\ LockTypeOK /\ UNCHANGED <<lock, quarantine>> /\ Dirs' = Dirs
    BY ScriptKeepsDirs, SameDirs DEF LeaseInv, TypeOK
  <1>1. ASSUME NEW e \in Deployers PROVE Control(e)'
    <2>1. CASE e = d
      BY <1>0, <2>1, ScriptControl DEF LeaseInv
    <2>2. CASE e # d
      BY <1>0, <2>2, ScriptIsLocal DEF LeaseInv, Control
    <2>. QED  BY <2>1, <2>2
  <1>2. ASSUME NEW e \in Deployers PROVE LockAges(e)'
    <2>1. /\ AfterUpload(e)' => AfterUpload(e)
          /\ BeforeLock(e)' => BeforeLock(e)
          /\ stage'[e] = "acquiring" => stage[e] = "acquiring" \/ BeforeLock(e)
      BY <1>0, ScriptKeepsClaims DEF LeaseInv
    <2>2. LockAges(e)
      BY DEF LeaseInv
    <2>. QED  BY <1>0, <2>1, <2>2 DEF LockAges
  <1>3. \A new \in Dirs' : YoungIsFresh(new)
    BY <1>0 DEF LeaseInv
  <1>4. \A e \in Deployers : LeaseHolds(e)'
    BY ScriptLease
  <1>5. \A e \in Deployers : RemovesExpired(e)'
    BY <1>0, ScriptRuns DEF LeaseInv, RemovesExpired, Age
  <1>6. LinkMovesUnderLease'
    BY <1>0, ScriptCharge DEF LeaseInv, LinkMovesUnderLease, OwnsLease, HasOwner
  <1>. QED  BY <1>1, <1>2, <1>3, <1>4, <1>5, <1>6 DEF LeaseInv, YoungIsFresh

-----------------------------------------------------------------------------
(* The passing of time preserves the invariant. *)

LEMMA OlderDirectory ==
    ASSUME NEW dir \in Directory
    PROVE  /\ Older(dir).owner = dir.owner
           /\ Older(dir).since > 0
           /\ Age(dir) + 1 < Stale => Age(Older(dir)) < Stale
  <1>. DEFINE b == IF dir.beat = None \/ dir.beat = Stale THEN dir.beat ELSE dir.beat + 1
              s == IF dir.since = Stale THEN dir.since ELSE dir.since + 1
  <1>1. dir.beat \in Ages \cup {None} /\ dir.since \in Ages
    BY DEF Directory
  <1>2. dir # None
    BY NoDirectory
  <1>3. Older(dir) = [dir EXCEPT !.beat = b, !.since = s]
    BY <1>2 DEF Older
  <1>4. /\ Older(dir).owner = dir.owner
        /\ Older(dir).since = s
        /\ Older(dir).beat = b
    <2>. HIDE DEF b, s
    <2>. QED  BY <1>3 DEF Directory
  <1>5. s \in Nat /\ s > 0 /\ s <= dir.since + 1
    BY <1>1, LockAssumption DEF Ages
  <1>6. dir.beat = None => b = None
    OBVIOUS
  <1>7. dir.beat # None => b \in Ages /\ b <= dir.beat + 1 /\ b # None
    BY <1>1, LockAssumption, NoDirectory DEF Ages
  <1>8. Age(dir) + 1 < Stale => Age(Older(dir)) < Stale
    <2>. HIDE DEF b, s
    <2>. SUFFICES ASSUME Age(dir) + 1 < Stale PROVE Age(Older(dir)) < Stale
      OBVIOUS
    <2>1. CASE dir.beat # None
      BY <1>1, <1>4, <1>7, <2>1, LockAssumption DEF Age, Ages
    <2>2. CASE dir.beat = None
      BY <1>1, <1>4, <1>5, <1>6, <2>2, LockAssumption DEF Age, Ages
    <2>. QED  BY <2>1, <2>2
  <1>. QED  BY <1>4, <1>5, <1>8

LEMMA TickSettles ==
    ASSUME Tick, NEW e \in Deployers
    PROVE  /\ run[e] \in Results /\ run'[e] = run[e]
           /\ stage[e] # "acquiring" /\ stage'[e] = stage[e]
           /\ ~OnHost(e) /\ script'[e] = script[e] /\ refresh'[e] = refresh[e]
           /\ HeartbeatAlive(e) /\ HasOwner(lock, e) => Age(lock) + 1 < Stale
  BY DEF Tick, MayTick, Settled, OnHost

LEMMA TickInv ==
    ASSUME LeaseInv, Tick, TypeOK'
    PROVE  LeaseInv'
  <1>0. TypeOK /\ LockTypeOK /\ (lock # None => lock \in Directory)
    BY DEF LeaseInv, TypeOK, LockTypeOK
  <1>1. \A e \in Deployers : Control(e)' /\ quarantine'[e] = None
    BY <1>0, TickControl DEF LeaseInv
  <1>2. \A new \in Dirs' : lock # None /\ new = Older(lock)
    BY <1>1, DirsAfter DEF Tick, Older
  <1>3. lock' = Older(lock) /\ (lock = None => lock' = None)
    BY DEF Tick, Older
  <1>4. ASSUME NEW new \in Dirs'
        PROVE  lock \in Dirs /\ new.owner = lock.owner /\ new.since > 0
    BY <1>0, <1>2, InDirs, OlderDirectory
  <1>5. ASSUME NEW e \in Deployers PROVE LockAges(e)'
    <2>1. SUFFICES ASSUME NEW new \in Dirs', new.owner = e
                   PROVE  ~BeforeLock(e)' /\ stage'[e] # "acquiring"
      BY <1>4 DEF LockAges
    <2>2. ~BeforeLock(e)
      BY <1>4, <2>1 DEF LeaseInv, LockAges
    <2>. QED  BY <2>2, TickSettles DEF BeforeLock
  <1>6. ASSUME NEW new \in Dirs' PROVE YoungIsFresh(new)
    BY <1>4 DEF YoungIsFresh
  <1>7. ASSUME NEW e \in Deployers PROVE LeaseHolds(e)'
    <2>1. SUFFICES ASSUME Alive(e)', HasOwner(lock', e) PROVE Age(lock') < Stale
      <3>1. \A o \in Deployers : run'[o] \notin {"move", "unlink next", "unlink beat", "unlink owner"}
        BY TickSettles DEF Results
      <3>2. \A q \in Deployers : ~HasOwner(quarantine'[q], e)
        BY <1>1 DEF HasOwner
      <3>. QED  BY <3>1, <3>2 DEF LeaseHolds, HasOwner, Age
    <2>2. HeartbeatAlive(e)
      BY <2>1, TickSettles DEF Alive, HeartbeatAlive, OnHost
    <2>3. lock # None
      BY <1>3, <2>1 DEF HasOwner
    <2>4. HasOwner(lock, e)
      BY <1>0, <1>3, <2>1, <2>3, OlderDirectory DEF HasOwner
    <2>5. Age(lock) + 1 < Stale
      BY <2>2, <2>4, TickSettles
    <2>. QED  BY <1>0, <1>3, <2>3, <2>5, OlderDirectory
  <1>8. ASSUME NEW e \in Deployers PROVE RemovesExpired(e)'
    BY TickSettles DEF RemovesExpired, Results
  <1>9. LinkMovesUnderLease'
    <2>1. ASSUME NEW e \in Deployers PROVE ~InCharge(e)'
      BY TickSettles DEF InCharge, OnHost
    <2>. QED  BY <2>1 DEF LinkMovesUnderLease
  <1>. QED  BY <1>1, <1>5, <1>6, <1>7, <1>8, <1>9 DEF LeaseInv, YoungIsFresh

-----------------------------------------------------------------------------
(* The theorems. *)

LEMMA LeaseInit == Init => LeaseInv
  <1>. SUFFICES ASSUME Init PROVE LeaseInv
    OBVIOUS
  <1>1. TypeOK
    BY TypeInit
  <1>. USE DEF Init, LockInit
  <1>2. \A dir \in Dirs : dir.owner = Dead /\ dir.since = Stale
    BY DEF Dirs, LeftBehind
  <1>3. \A d \in Deployers : Control(d)
    BY DEF Control, Holding, Releasing
  <1>4. \A d \in Deployers : LockAges(d)
    BY <1>2, LockAssumption DEF LockAges
  <1>5. \A dir \in Dirs : YoungIsFresh(dir)
    BY <1>2, LockAssumption DEF YoungIsFresh
  <1>6. \A d \in Deployers : ~Alive(d)
    BY DEF Alive, HeartbeatAlive, Holding
  <1>7. LinkMovesUnderLease
    BY DEF LinkMovesUnderLease, InCharge
  <1>. QED  BY <1>1, <1>3, <1>4, <1>5, <1>6, <1>7 DEF LeaseInv, LeaseHolds, RemovesExpired

LEMMA LeaseStutter ==
    ASSUME LeaseInv, UNCHANGED vars
    PROVE  LeaseInv'
  <1>1. Dirs' = Dirs
    BY SameDirs DEF vars
  <1>2. TypeOK'
    BY TypeStep DEF LeaseInv
  <1>. USE DEF vars
  <1>3. \A d \in Deployers : Control(d)'
    BY DEF LeaseInv, Control
  <1>4. \A d \in Deployers : LockAges(d)'
    BY <1>1 DEF LeaseInv, LockAges, BeforeLock, AfterUpload, OnHost, Orphaned
  <1>5. \A d \in Deployers : LeaseHolds(d)' /\ RemovesExpired(d)'
    BY DEF LeaseInv, LeaseHolds, RemovesExpired, Alive, HeartbeatAlive, Orphaned, HasOwner, Age
  <1>6. LinkMovesUnderLease'
    BY DEF LeaseInv, LinkMovesUnderLease, InCharge, Orphaned, OwnsLease, HasOwner
  <1>. QED  BY <1>1, <1>2, <1>3, <1>4, <1>5, <1>6 DEF LeaseInv, YoungIsFresh

LEMMA LeaseStep ==
    ASSUME LeaseInv, [Next]_vars
    PROVE  LeaseInv'
  <1>1. TypeOK'
    BY TypeStep DEF LeaseInv
  <1>2. CASE Tick
    BY <1>1, <1>2, TickInv
  <1>3. ASSUME NEW d \in Deployers, RunHelper(d) PROVE LeaseInv'
    BY <1>1, <1>3, HelperStepInv
  <1>4. ASSUME NEW d \in Deployers, ScriptStep(d) PROVE LeaseInv'
    BY <1>1, <1>4, ScriptStepInv
  <1>5. CASE UNCHANGED vars
    BY <1>5, LeaseStutter
  <1>. QED  BY <1>2, <1>3, <1>4, <1>5 DEF Next, ScriptStep

\* Whoever is about to move the link "current" owns the lease, whatever the number of
\* deployments, and whatever locks, lost runners, signals and failed heartbeats there
\* were before, unless a signal has orphaned its script.
THEOREM LinkMovesUnderTheLease == Spec => []LinkMovesUnderLease
  <1>1. LeaseInv => LinkMovesUnderLease
    BY DEF LeaseInv
  <1>2. LeaseInv /\ [Next]_vars => LeaseInv'
    BY LeaseStep
  <1>. QED  BY <1>1, <1>2, LeaseInit, PTL DEF Spec

\* A lock that is removed as expired is not that of a deployment whose heartbeat is
\* alive, whatever happens to the others.
THEOREM LiveLeasesAreKept == Spec => LiveLeaseIsNotReclaimed
  <1>1. ASSUME LeaseInv, NEW d \in Deployers, RemoveQuarantined(d),
               quarantine[d].owner \in Deployers
        PROVE  ~HeartbeatAlive(quarantine[d].owner)
    <2>. DEFINE o == quarantine[d].owner
    <2>1. run[d] = "remove" /\ quarantine[d] # None
      BY <1>1 DEF RemoveQuarantined, LeaseInv, Control
    <2>2. Age(quarantine[d]) >= Stale
      BY <1>1, <2>1 DEF LeaseInv, RemovesExpired
    <2>3. quarantine[d] \in Dirs
      BY <1>1, <2>1, InDirs DEF LeaseInv, TypeOK
    <2>4. SUFFICES ASSUME HeartbeatAlive(o) PROVE FALSE
      OBVIOUS
    <2>5. quarantine[d].since = 0
      BY <1>1, <2>1, <2>4 DEF LeaseInv, LeaseHolds, Alive, HasOwner
    <2>6. Age(quarantine[d]) = 0
      BY <1>1, <2>3, <2>5, YoungIsAlive, LockAssumption DEF LeaseInv
    <2>. QED  BY <2>2, <2>6, LockAssumption
  <1>2. LeaseInv => \A d \in Deployers :
          RemoveQuarantined(d) /\ quarantine'[d] = None /\ quarantine[d].owner \in Deployers =>
            ~HeartbeatAlive(quarantine[d].owner)
    BY <1>1
  <1>3. LeaseInv /\ [Next]_vars => LeaseInv'
    BY LeaseStep
  <1>. QED  BY <1>2, <1>3, LeaseInit, PTL DEF Spec, LiveLeaseIsNotReclaimed

-----------------------------------------------------------------------------
(* The releases: what is current, and what is remembered for a rollback.     *)

Published(d) ==
    \/ script[d] \in {"published", "undo", "restore"}
    \/ stage[d] \in {"checking", "rolling back"}

Unpublished(d) ==
    \/ stage[d] \in {"start", "waiting", "acquiring", "acquired", "uploading"}
    \/ script[d] \in {"assemble", "switch"}
    \/ stage[d] = "publishing" /\ script[d] = "refused"

\* Nothing is moved away while a live deployment's lock from before the last tick is
\* in place.
Undisturbed(d) ==
    Alive(d) /\ HasOwner(lock, d) /\ lock.since > 0 => \A q \in Deployers : quarantine[q] = None

\* A live deployment has kept its lease since it moved the link.
KeepsLease(d) == Alive(d) /\ Published(d) => OwnsLease(d)

HasDirectory(d) == \E dir \in Dirs : dir.owner = d

\* What a deployment has remembered is still current, for as long as it has a lock.
Remembers(d) ==
    /\ Alive(d) /\ HasDirectory(d)
    /\ stage[d] = "uploading" \/ script[d] \in {"assemble", "switch"}
    => previous[d] = current \/ RolledBackLate(previous[d]) \/ PublishedLate(current)

Verdicts(d) ==
    /\ d \in unhealthy => stage[d] \in {"rolling back", "cleanup", "releasing", "ended", "lost"}
    /\ script[d] \in {"undo", "restore"} \/ stage[d] = "rolling back" => d \in unhealthy

\* A deployment that has failed and whose rollback has returned.
HasRolledBack(d) ==
    d \in unhealthy /\ stage[d] \in {"cleanup", "releasing", "ended"} /\ script[d] = "idle"

\* Nobody remembers a release before it is published, and nobody but a deployment that
\* found it healthy, lost its heartbeat or runner, or was interrupted lets it be
\* remembered afterwards.
Unremembered(d) ==
    /\ Unpublished(d) => current # d /\ \A e \in Deployers : previous[e] # d
    /\ /\ refresh[d] # "failed"
       /\ \/ stage[d] \in {"publishing", "checking", "rolling back"}
          \/ HasRolledBack(d)
       => \A e \in Deployers : previous[e] # d

Withdraws(d) ==
    stage[d] = "rolling back" /\ refresh[d] # "failed" =>
        script[d] # "refused" /\ (script[d] = "undone" => current # d)

ReleaseInv ==
    /\ LeaseInv
    /\ \A d \in Deployers : Undisturbed(d)
    /\ \A d \in Deployers : KeepsLease(d)
    /\ \A d \in Deployers : Remembers(d)
    /\ \A d \in Deployers : Verdicts(d)
    /\ \A d \in Deployers : Unremembered(d)
    /\ \A d \in Deployers : Withdraws(d)
    /\ FailedReleaseIsWithdrawn

LEMMA PublishedAfterUpload ==
    ASSUME NEW d \in Deployers, Control(d), Alive(d), Published(d)
    PROVE  AfterUpload(d)
  BY DEF Control, Alive, HeartbeatAlive, Published, AfterUpload, OnHost, Holding

\* Once its lock is older than the last tick, no other deployment has a lock anywhere.
LEMMA OnlyDirectory ==
    ASSUME LockTypeOK, NEW d \in Deployers, OwnsLease(d), \A q \in Deployers : quarantine[q] = None,
           NEW e \in Deployers, HasDirectory(e)
    PROVE  e = d
  BY DEF OwnsLease, HasOwner, HasDirectory, Dirs

LEMMA InChargeIsAlone ==
    ASSUME ReleaseInv, NEW d \in Deployers, InCharge(d), NEW e \in Deployers, HasDirectory(e)
    PROVE  e = d
  <1>0. LockTypeOK
    BY DEF ReleaseInv, LeaseInv, TypeOK
  <1>1. OwnsLease(d)
    BY DEF ReleaseInv, LeaseInv, LinkMovesUnderLease
  <1>2. Alive(d) /\ AfterUpload(d)
    BY InChargeIsAlive
  <1>3. lock \in Dirs /\ lock.owner = d /\ HasOwner(lock, d)
    BY <1>0, <1>1, InDirs DEF OwnsLease, HasOwner
  <1>4. lock.since > 0
    BY <1>2, <1>3 DEF ReleaseInv, LeaseInv, LockAges
  <1>5. \A q \in Deployers : quarantine[q] = None
    BY <1>2, <1>3, <1>4 DEF ReleaseInv, Undisturbed
  <1>. QED  BY <1>0, <1>1, <1>5, OnlyDirectory

LEMMA HelperRelease ==
    ASSUME ReleaseInv, NEW d \in Deployers, RunHelper(d), LeaseInv'
    PROVE  ReleaseInv'
  <1>0. /\ LeaseInv /\ TypeOK /\ LockTypeOK
        /\ HelperStep(d) /\ UNCHANGED deployVars
    BY DEF RunHelper, ReleaseInv, LeaseInv, TypeOK
  <1>1. UNCHANGED <<stage, script, previous, current, unhealthy>>
    BY <1>0 DEF deployVars
  <1>2. \A e \in Deployers : /\ Alive(e)' => Alive(e)
                             /\ Orphaned(e)' <=> Orphaned(e)
                             /\ refresh[e] = "failed" => refresh'[e] = "failed"
    BY <1>0, HelperKeepsClaims
  <1>3. ASSUME NEW e \in Deployers PROVE Undisturbed(e)'
    <2>1. SUFFICES ASSUME Alive(e), HasOwner(lock', e), lock'.since > 0, NEW q \in Deployers
                   PROVE  quarantine'[q] = None
      BY <1>2 DEF Undisturbed, HasOwner
    <2>2. HasOwner(lock, e) /\ lock.since > 0
      <3>1. lock'.since # 0
        BY <2>1
      <3>2. HasOwner(lock, e) /\ lock'.since = lock.since
        BY <1>0, <2>1, <3>1, HelperLockSource
      <3>. QED  BY <2>1, <3>2
    <2>3. quarantine[q] = None
      BY <2>1, <2>2 DEF ReleaseInv, Undisturbed
    <2>4. run[d] # "move"
      BY <1>0, <2>1, <2>2 DEF LeaseInv, LeaseHolds
    <2>. QED  BY <1>0, <2>3, <2>4, HelperMovesQuarantine
  <1>4. ASSUME NEW e \in Deployers PROVE KeepsLease(e)'
    <2>1. SUFFICES ASSUME Alive(e), Published(e) PROVE HasOwner(lock', e)
      BY <1>1, <1>2 DEF KeepsLease, Published, OwnsLease, HasOwner
    <2>2. OwnsLease(e) /\ AfterUpload(e)
      BY <1>0, <2>1, PublishedAfterUpload DEF ReleaseInv, KeepsLease, LeaseInv
    <2>. QED  BY <1>0, <2>1, <2>2, OlderLeaseStays
  <1>5. ASSUME NEW e \in Deployers PROVE Remembers(e)'
    <2>1. SUFFICES ASSUME Alive(e), HasDirectory(e)',
                          stage[e] = "uploading" \/ script[e] \in {"assemble", "switch"}
                   PROVE  \/ previous[e] = current
                          \/ RolledBackLate(previous[e])'
                          \/ PublishedLate(current)'
      BY <1>1, <1>2 DEF Remembers
    <2>2. HasDirectory(e)
      <3>1. PICK new \in Dirs' : new.owner = e
        BY <2>1 DEF HasDirectory
      <3>2. Accounted(d, new) /\ new # None
        BY <1>0, HelperMovesDirs, DirsAfter
      <3>3. ~IsCreated(d, new)
        <4>1. IsCreated(d, new) => e = d /\ run[d] # "idle"
          BY <3>1 DEF IsCreated, FreshLock
        <4>. QED  BY <1>0, <2>1, <4>1, CreatorHoldsNothing DEF LeaseInv
      <3>4. PICK old \in Dirs : ComesFrom(new, old)
        BY <3>2, <3>3 DEF Accounted
      <3>5. e # None
        BY LockAssumption
      <3>. QED  BY <3>1, <3>4, <3>5 DEF ComesFrom, HasDirectory
    <2>3. previous[e] = current \/ RolledBackLate(previous[e]) \/ PublishedLate(current)
      BY <2>1, <2>2 DEF ReleaseInv, Remembers
    <2>4. RolledBackLate(previous[e]) => RolledBackLate(previous[e])'
      BY <1>0, <1>1, <1>2 DEF RolledBackLate, TypeOK
    <2>5. PublishedLate(current) => PublishedLate(current)'
      BY <1>1, <1>2 DEF PublishedLate
    <2>. QED  BY <1>1, <2>3, <2>4, <2>5
  <1>6. ASSUME NEW e \in Deployers PROVE Verdicts(e)' /\ Unremembered(e)' /\ Withdraws(e)'
    <2>1. Verdicts(e) /\ Unremembered(e) /\ Withdraws(e)
      BY DEF ReleaseInv
    <2>2. Verdicts(e)'
      BY <1>1, <2>1 DEF Verdicts
    <2>3. Unremembered(e)'
      BY <1>1, <1>2, <2>1 DEF Unremembered, Unpublished, HasRolledBack
    <2>4. Withdraws(e)'
      BY <1>1, <1>2, <2>1 DEF Withdraws
    <2>. QED  BY <2>2, <2>3, <2>4
  <1>7. FailedReleaseIsWithdrawn'
    BY <1>0, <1>1, <1>2 DEF ReleaseInv, FailedReleaseIsWithdrawn, TypeOK
  <1>. QED  BY <1>3, <1>4, <1>5, <1>6, <1>7 DEF ReleaseInv

LEMMA TickRelease ==
    ASSUME ReleaseInv, Tick, LeaseInv'
    PROVE  ReleaseInv'
  <1>0. LeaseInv /\ TypeOK /\ LockTypeOK /\ (lock # None => lock \in Directory)
    BY DEF ReleaseInv, LeaseInv, TypeOK, LockTypeOK
  <1>1. UNCHANGED <<stage, script, refresh, previous, current, unhealthy>>
    BY DEF Tick
  <1>2. \A e \in Deployers : quarantine'[e] = None
    BY <1>0, TickControl DEF LeaseInv
  <1>3. \A e \in Deployers : (Alive(e)' => Alive(e)) /\ (Orphaned(e)' <=> Orphaned(e))
    BY <1>1, TickSettles DEF Alive, HeartbeatAlive, Orphaned
  <1>4. lock' = Older(lock) /\ (lock = None => lock' = None)
    BY DEF Tick, Older
  <1>5. ASSUME NEW e \in Deployers PROVE Undisturbed(e)'
    BY <1>2 DEF Undisturbed
  <1>6. ASSUME NEW e \in Deployers PROVE KeepsLease(e)'
    <2>1. OwnsLease(e) => HasOwner(lock', e)
      <3>1. SUFFICES ASSUME lock # None, lock.owner = e PROVE HasOwner(lock', e)
        BY DEF OwnsLease, HasOwner
      <3>2. lock'.owner = e /\ lock' \in Directory
        BY <1>0, <1>4, <3>1, OlderDirectory, DirectoryChanges
      <3>. QED  BY <3>2, NoDirectory DEF HasOwner
    <2>2. KeepsLease(e)
      BY DEF ReleaseInv
    <2>. QED  BY <1>1, <1>3, <2>1, <2>2 DEF KeepsLease, Published, OwnsLease, HasOwner
  <1>7. ASSUME NEW e \in Deployers PROVE Remembers(e)'
    <2>1. HasDirectory(e)' => HasDirectory(e)
      <3>1. SUFFICES ASSUME NEW new \in Dirs', new.owner = e PROVE HasDirectory(e)
        BY DEF HasDirectory
      <3>2. lock # None /\ new = Older(lock)
        BY <1>2, DirsAfter DEF Tick, Older
      <3>3. lock \in Dirs /\ lock.owner = e
        BY <1>0, <3>1, <3>2, InDirs, OlderDirectory
      <3>. QED  BY <3>3 DEF HasDirectory
    <2>2. Remembers(e)
      BY DEF ReleaseInv
    <2>3. RolledBackLate(previous[e]) => RolledBackLate(previous[e])'
      <3>1. previous'[e] = previous[e] /\ (previous[e] \in unhealthy => previous[e] \in Deployers)
        BY <1>0, <1>1 DEF TypeOK
      <3>. QED  BY <1>1, <1>3, <3>1 DEF RolledBackLate
    <2>4. PublishedLate(current) => PublishedLate(current)'
      BY <1>1, <1>3 DEF PublishedLate
    <2>. QED  BY <1>1, <1>3, <2>1, <2>2, <2>3, <2>4 DEF Remembers
  <1>8. ASSUME NEW e \in Deployers PROVE Verdicts(e)' /\ Unremembered(e)' /\ Withdraws(e)'
    <2>1. Verdicts(e) /\ Unremembered(e) /\ Withdraws(e)
      BY DEF ReleaseInv
    <2>2. Verdicts(e)'
      BY <1>1, <2>1 DEF Verdicts
    <2>3. Unremembered(e)'
      BY <1>1, <2>1 DEF Unremembered, Unpublished, HasRolledBack
    <2>4. Withdraws(e)'
      BY <1>1, <2>1 DEF Withdraws
    <2>. QED  BY <2>2, <2>3, <2>4
  <1>9. FailedReleaseIsWithdrawn'
    BY <1>1 DEF ReleaseInv, FailedReleaseIsWithdrawn
  <1>. QED  BY <1>5, <1>6, <1>7, <1>8, <1>9 DEF ReleaseInv

LEMMA ScriptMovesReleases ==
    ASSUME TypeOK, NEW d \in Deployers, ScriptStep(d)
    PROVE  /\ \A e \in Deployers : e # d => previous'[e] = previous[e]
           /\ \/ previous'[d] = previous[d]
              \/ stage[d] = "acquired" /\ OwnsLease(d) /\ previous'[d] = current
           /\ \/ current' = current
              \/ script[d] = "switch" /\ script'[d] = "published" /\ current' = d
              \/ script[d] = "restore" /\ current = d /\ current' = previous[d]
           /\ unhealthy' \in {unhealthy, unhealthy \cup {d}}
  <1>. USE DEF TypeOK, StartScript, EnterStage, lockVars, deployVars
  <1>1. CASE Contend(d)
    BY <1>1 DEF Contend, BeginWaiting, TryAcquire, AcquireReturns
  <1>2. CASE Deploy(d)
    BY <1>2 DEF Deploy, ReadPrevious, FinishUpload, PublishReturns, SiteIsHealthy,
                SiteIsUnhealthy, RollbackReturns, BeginRelease, ReleaseReturns
  <1>3. CASE RunScript(d)
    BY <1>3 DEF RunScript, Assemble, Switch, RollbackChecksOwner, Rollback
  <1>4. CASE Heartbeat(d) \/ HeartbeatFails(d) \/ Interrupt(d) \/ LoseRunner(d)
    BY <1>4 DEF Heartbeat, HeartbeatFails, Interrupt, LoseRunner
  <1>. QED  BY <1>1, <1>2, <1>3, <1>4 DEF ScriptStep

Uploads(d) == stage[d] = "uploading" \/ script[d] \in {"assemble", "switch"}

\* Whether somebody has to be remembered, or forgotten, after a step follows from
\* where its scripts were before.
LEMMA ScriptPhases ==
    ASSUME TypeOK, NEW d \in Deployers, ScriptStep(d), Control(d), Verdicts(d)
    PROVE  /\ Unpublished(d)' => Unpublished(d)
           /\ Published(d)' => Published(d) \/ script[d] = "switch"
           /\ script'[d] = "published" => Published(d)' /\ ~Unpublished(d)'
           /\ Uploads(d)' =>
                 \/ Uploads(d) /\ previous'[d] = previous[d] /\ current' = current
                 \/ OwnsLease(d) /\ previous'[d] = current /\ current' = current
           /\ stage'[d] \in {"publishing", "checking", "rolling back"} =>
                 stage[d] \in {"publishing", "checking", "rolling back"} \/ Unpublished(d)
           /\ HasRolledBack(d)' =>
                 /\ d \in unhealthy /\ current' = current
                 /\ \/ HasRolledBack(d)
                    \/ stage[d] = "rolling back" /\ script[d] \in {"undone", "refused"}
           /\ Verdicts(d)'
  <1>. USE DEF TypeOK, DeployTypeOK, LockTypeOK, Goto, RefreshGoto, EnterStage, StopTimer,
               StartScript, lockVars, deployVars, Control, Verdicts, Unpublished, Published,
               Uploads, HasRolledBack, Holding
  <1>1. CASE BeginWaiting(d)
    BY <1>1 DEF BeginWaiting
  <1>2. CASE TryAcquire(d)
    BY <1>2 DEF TryAcquire
  <1>3. CASE AcquireReturns(d)
    BY <1>3 DEF AcquireReturns
  <1>4. CASE ReadPrevious(d)
    BY <1>4 DEF ReadPrevious
  <1>5. CASE FinishUpload(d)
    BY <1>5 DEF FinishUpload
  <1>6. CASE PublishReturns(d)
    BY <1>6 DEF PublishReturns
  <1>7. CASE SiteIsHealthy(d)
    BY <1>7 DEF SiteIsHealthy
  <1>8. CASE SiteIsUnhealthy(d)
    BY <1>8 DEF SiteIsUnhealthy
  <1>9. CASE RollbackReturns(d)
    BY <1>9 DEF RollbackReturns
  <1>10. CASE BeginRelease(d)
    BY <1>10 DEF BeginRelease
  <1>11. CASE ReleaseReturns(d)
    BY <1>11 DEF ReleaseReturns
  <1>12. CASE Assemble(d)
    BY <1>12 DEF Assemble
  <1>13. CASE Switch(d)
    BY <1>13 DEF Switch
  <1>14. CASE RollbackChecksOwner(d)
    BY <1>14 DEF RollbackChecksOwner
  <1>15. CASE Rollback(d)
    BY <1>15 DEF Rollback
  <1>16. CASE Heartbeat(d) \/ HeartbeatFails(d)
    BY <1>16 DEF Heartbeat, HeartbeatFails, HeartbeatAlive
  <1>17. CASE LoseRunner(d)
    BY <1>17 DEF LoseRunner
  <1>18. CASE Interrupt(d)
    BY <1>18 DEF Interrupt
  <1>. QED
    BY <1>1, <1>2, <1>3, <1>4, <1>5, <1>6, <1>7, <1>8, <1>9, <1>10, <1>11, <1>12, <1>13, <1>14,
       <1>15, <1>16, <1>17, <1>18 DEF ScriptStep, Contend, Deploy, RunScript

LEMMA ScriptRelease ==
    ASSUME ReleaseInv, NEW d \in Deployers, ScriptStep(d), LeaseInv'
    PROVE  ReleaseInv'
  <1>0. /\ LeaseInv /\ TypeOK /\ LockTypeOK /\ Control(d) /\ Verdicts(d)
        /\ UNCHANGED <<lock, quarantine>> /\ Dirs' = Dirs
    BY ScriptKeepsDirs, SameDirs DEF ReleaseInv, LeaseInv, TypeOK
  <1>1. \A e \in Deployers :
          /\ Alive(e)' => Alive(e) \/ (stage[e] = "acquiring" /\ run[e] = "acquired")
          /\ Orphaned(e) => Orphaned(e)'
          /\ PublishedLate(e) => PublishedLate(e)'
          /\ refresh[e] = "failed" => refresh'[e] = "failed"
    BY <1>0, ScriptKeepsClaims
  <1>2. \A e \in Deployers : e # d => stage'[e] = stage[e] /\ script'[e] = script[e]
                                      /\ refresh'[e] = refresh[e]
    BY <1>0, ScriptIsLocal
  <1>3. /\ \A e \in Deployers : e # d => previous'[e] = previous[e]
        /\ \/ previous'[d] = previous[d]
           \/ stage[d] = "acquired" /\ OwnsLease(d) /\ previous'[d] = current
        /\ \/ current' = current
           \/ script[d] = "switch" /\ script'[d] = "published" /\ current' = d
           \/ script[d] = "restore" /\ current = d /\ current' = previous[d]
        /\ unhealthy' \in {unhealthy, unhealthy \cup {d}}
    BY <1>0, ScriptMovesReleases
  <1>4. /\ Unpublished(d)' => Unpublished(d)
        /\ Published(d)' => Published(d) \/ script[d] = "switch"
        /\ script'[d] = "published" => Published(d)' /\ ~Unpublished(d)'
        /\ Uploads(d)' =>
              \/ Uploads(d) /\ previous'[d] = previous[d] /\ current' = current
              \/ OwnsLease(d) /\ previous'[d] = current /\ current' = current
        /\ stage'[d] \in {"publishing", "checking", "rolling back"} =>
              stage[d] \in {"publishing", "checking", "rolling back"} \/ Unpublished(d)
        /\ HasRolledBack(d)' =>
              /\ d \in unhealthy /\ current' = current
              /\ \/ HasRolledBack(d)
                 \/ stage[d] = "rolling back" /\ script[d] \in {"undone", "refused"}
        /\ Verdicts(d)'
    BY <1>0, ScriptPhases
  <1>5. ASSUME NEW e \in Deployers, Unpublished(e)' PROVE Unpublished(e)
    BY <1>2, <1>4, <1>5 DEF Unpublished
  <1>6. ASSUME NEW e \in Deployers, Published(e)' \/ Uploads(e)'
        PROVE  Alive(e)' => Alive(e)
    <2>1. CASE stage[e] = "acquiring" /\ run[e] = "acquired"
      <3>1. script[e] = "idle"
        BY <2>1 DEF LeaseInv, ReleaseInv, Control
      <3>2. ~Published(e) /\ ~Uploads(e) /\ script[e] # "switch"
        BY <2>1, <3>1 DEF Published, Uploads
      <3>3. e = d
        BY <1>2, <1>6, <3>2 DEF Published, Uploads
      <3>4. OwnsLease(d)
        BY <1>4, <1>6, <3>2, <3>3
      <3>5. ~Uploads(d)'
        BY <1>0, <2>1, <3>1, <3>3 DEF ScriptStep, Contend, Deploy, RunScript, BeginWaiting,
           TryAcquire, AcquireReturns, ReadPrevious, FinishUpload, PublishReturns, SiteIsHealthy,
           SiteIsUnhealthy, RollbackReturns, BeginRelease, ReleaseReturns, Assemble, Switch,
           RollbackChecksOwner, Rollback, Heartbeat, HeartbeatFails, HeartbeatAlive, Holding,
           Interrupt, LoseRunner, Uploads, EnterStage, TypeOK, deployVars
      <3>. QED  BY <1>4, <1>6, <3>2, <3>3, <3>5
    <2>. QED  BY <1>1, <2>1
  <1>7. ASSUME NEW e \in Deployers PROVE Undisturbed(e)'
    <2>1. Undisturbed(e)
      BY DEF ReleaseInv
    <2>2. CASE stage[e] = "acquiring" /\ run[e] = "acquired"
      <3>1. HasOwner(lock, e) => lock.since = 0
        BY <1>0, <2>2, InDirs DEF LeaseInv, LockAges, HasOwner
      <3>2. ~(HasOwner(lock, e) /\ lock.since > 0)
        BY <3>1
      <3>. QED  BY <1>0, <3>2 DEF Undisturbed, HasOwner
    <2>. QED  BY <1>0, <1>1, <2>1, <2>2 DEF Undisturbed, HasOwner
  <1>8. ASSUME NEW e \in Deployers PROVE KeepsLease(e)'
    <2>1. SUFFICES ASSUME Alive(e), Published(e)' PROVE OwnsLease(e)
      BY <1>0, <1>6 DEF KeepsLease, OwnsLease, HasOwner
    <2>2. CASE Published(e)
      BY <2>1, <2>2 DEF ReleaseInv, KeepsLease
    <2>3. CASE e = d /\ script[d] = "switch"
      <3>1. ~Orphaned(d)
        BY <1>0, <2>1, <2>3 DEF Alive, HeartbeatAlive, Orphaned, Control, Holding
      <3>. QED  BY <1>0, <2>3, <3>1 DEF LeaseInv, LinkMovesUnderLease, InCharge
    <2>. QED  BY <1>2, <1>4, <2>1, <2>2, <2>3 DEF Published
  <1>9. /\ \A r : RolledBackLate(r) => RolledBackLate(r)'
        /\ \A r : PublishedLate(r) => PublishedLate(r)'
    <2>1. \A r : RolledBackLate(r) => r \in Deployers
      BY <1>0 DEF RolledBackLate, TypeOK
    <2>2. \A r \in Deployers : RolledBackLate(r) => RolledBackLate(r)'
      BY <1>1, <1>3 DEF RolledBackLate
    <2>3. \A r : PublishedLate(r) => r \in Deployers
      BY DEF PublishedLate
    <2>. QED  BY <1>1, <2>1, <2>2, <2>3
  <1>10. ASSUME NEW e \in Deployers PROVE Remembers(e)'
    <2>1. SUFFICES ASSUME Alive(e), HasDirectory(e), Uploads(e)'
                   PROVE  \/ previous'[e] = current'
                          \/ RolledBackLate(previous[e])'
                          \/ PublishedLate(current)'
      BY <1>0, <1>6 DEF Remembers, Uploads, HasDirectory
    <2>2. Uploads(e) => previous[e] = current \/ RolledBackLate(previous[e]) \/ PublishedLate(current)
      BY <2>1 DEF ReleaseInv, Remembers, Uploads
    <2>3. previous'[e] = previous[e] => (RolledBackLate(previous[e]) => RolledBackLate(previous[e])')
      BY <1>9 DEF RolledBackLate
    <2>4. current' = current => (PublishedLate(current) => PublishedLate(current)')
      BY <1>9 DEF PublishedLate
    <2>5. CASE e = d
      BY <1>4, <2>1, <2>2, <2>3, <2>4, <2>5
    <2>6. CASE e # d
      <3>1. previous'[e] = previous[e] /\ Uploads(e)
        BY <1>2, <1>3, <2>1, <2>6 DEF Uploads
      <3>2. ~InCharge(d)
        BY <2>1, <2>6, InChargeIsAlone
      <3>3. CASE script[d] = "restore" /\ current = d /\ current' = previous[d]
        <4>1. RolledBackLate(d) /\ ~PublishedLate(d)
          BY <1>0, <3>2, <3>3 DEF InCharge, Verdicts, RolledBackLate, PublishedLate
        <4>. QED  BY <2>2, <2>3, <3>1, <3>3, <4>1
      <3>4. CASE script[d] = "switch" /\ script'[d] = "published" /\ current' = d
        <4>1. Orphaned(d)'
          BY <1>1, <3>2, <3>4 DEF InCharge
        <4>. QED  BY <3>4, <4>1 DEF PublishedLate
      <3>5. CASE current' = current
        BY <2>2, <2>3, <2>4, <3>1, <3>5
      <3>. QED  BY <1>3, <3>3, <3>4, <3>5
    <2>. QED  BY <2>5, <2>6
  <1>11. ASSUME NEW e \in Deployers PROVE Verdicts(e)'
    <2>1. CASE e # d
      BY <1>2, <1>3, <2>1 DEF ReleaseInv, Verdicts
    <2>. QED  BY <1>4, <2>1
  <1>12. d # None /\ d # Dead
    BY LockAssumption
  <1>. DEFINE Settling(e) ==
                stage[e] \in {"publishing", "checking", "rolling back"} \/ HasRolledBack(e)
  \* A release that nobody may remember is not current when somebody else remembers.
  <1>13. ASSUME NEW e \in Deployers, refresh[e] # "failed", Settling(e) \/ Unpublished(e),
                stage[d] = "acquired", OwnsLease(d)
         PROVE  current # e
    <2>1. CASE Unpublished(e)
      BY <2>1 DEF ReleaseInv, Unremembered
    <2>2. CASE HasRolledBack(e)
      BY <1>13, <2>2 DEF ReleaseInv, FailedReleaseIsWithdrawn, HasRolledBack
    <2>3. CASE stage[e] \in {"publishing", "checking", "rolling back"} /\ ~Unpublished(e)
      <3>1. Alive(e) /\ Published(e)
        BY <1>13, <2>3 DEF ReleaseInv, LeaseInv, Control, Alive, HeartbeatAlive, Holding,
                           Published, Unpublished
      <3>2. OwnsLease(e)
        BY <3>1 DEF ReleaseInv, KeepsLease
      <3>3. e = d
        BY <1>13, <3>2 DEF OwnsLease, HasOwner
      <3>. QED  BY <1>13, <2>3, <3>3
    <2>. QED  BY <1>13, <2>1, <2>2, <2>3
  <1>14. ASSUME NEW e \in Deployers PROVE Unremembered(e)'
    <2>1. Unremembered(e)
      BY DEF ReleaseInv
    <2>2. ASSUME Unpublished(e)' PROVE current' # e /\ \A x \in Deployers : previous'[x] # e
      <3>1. current # e /\ \A x \in Deployers : previous[x] # e
        BY <1>5, <2>1, <2>2 DEF Unremembered
      <3>2. ~(script'[d] = "published" /\ e = d)
        BY <1>4, <2>2
      <3>. QED  BY <1>3, <3>1, <3>2
    <2>3. ASSUME refresh'[e] # "failed", Settling(e)'
          PROVE  \A x \in Deployers : previous'[x] # e
      <3>1. Settling(e) \/ Unpublished(e)
        <4>1. CASE e = d
          BY <1>4, <2>3, <4>1
        <4>2. CASE e # d
          <5>1. e \in unhealthy' <=> e \in unhealthy
            BY <1>3, <4>2
          <5>2. stage'[e] = stage[e] /\ script'[e] = script[e]
            BY <1>2, <4>2
          <5>. QED  BY <2>3, <5>1, <5>2 DEF HasRolledBack
        <4>. QED  BY <4>1, <4>2
      <3>2. \A x \in Deployers : previous[x] # e
        BY <1>1, <2>1, <2>3, <3>1 DEF Unremembered
      <3>3. stage[d] = "acquired" /\ OwnsLease(d) => current # e
        BY <1>1, <1>13, <2>3, <3>1
      <3>. QED  BY <1>3, <3>2, <3>3
    <2>. QED  BY <2>2, <2>3 DEF Unremembered
  <1>15. ASSUME NEW e \in Deployers, refresh[e] # "failed", Settling(e), current # e, e # d
         PROVE  current' # e
    <2>1. previous[d] # e
      BY <1>15 DEF ReleaseInv, Unremembered
    <2>. QED  BY <1>3, <1>15, <2>1
  <1>16. ASSUME NEW e \in Deployers PROVE Withdraws(e)'
    <2>1. CASE e # d
      BY <1>2, <1>15, <2>1 DEF ReleaseInv, Withdraws
    <2>2. CASE e = d
      <3>1. SUFFICES ASSUME stage'[d] = "rolling back", refresh'[d] # "failed"
                     PROVE  script'[d] # "refused" /\ (script'[d] = "undone" => current' # d)
        BY <2>2 DEF Withdraws
      <3>2. refresh[d] # "failed"
        BY <1>1, <3>1
      <3>3. Withdraws(d) /\ Unremembered(d) /\ KeepsLease(d)
        BY DEF ReleaseInv
      <3>. USE <3>1, <3>2, <3>3
      <3>. USE DEF TypeOK, StartScript, EnterStage, deployVars
      <3>4. CASE SiteIsUnhealthy(d)
        BY <1>0, <3>4 DEF SiteIsUnhealthy
      <3>5. CASE RollbackChecksOwner(d)
        <4>1. stage[d] = "rolling back" /\ script[d] = "undo"
          BY <3>5 DEF RollbackChecksOwner
        <4>2. OwnsLease(d)
          BY <1>0, <3>2, <3>3, <4>1
          DEF KeepsLease, Published, Alive, HeartbeatAlive, Holding
        <4>. QED  BY <1>0, <3>5, <4>2 DEF RollbackChecksOwner
      <3>6. CASE Rollback(d)
        <4>1. stage[d] = "rolling back"
          BY <3>1, <3>6 DEF Rollback
        <4>2. previous[d] # d
          BY <3>2, <3>3, <4>1 DEF Unremembered
        <4>3. current' # d /\ script'[d] = "undone"
          BY <1>0, <3>6, <4>2 DEF Rollback
        <4>. QED  BY <4>3
      <3>7. CASE Assemble(d) \/ Switch(d)
        BY <1>0, <3>7 DEF Assemble, Switch, Control
      <3>8. CASE Contend(d) \/ Interrupt(d) \/ LoseRunner(d)
        BY <1>0, <3>8 DEF Contend, BeginWaiting, TryAcquire, AcquireReturns, Interrupt,
                           LoseRunner
      <3>9. CASE Heartbeat(d) \/ HeartbeatFails(d)
        <4>1. UNCHANGED <<stage, script, current>>
          BY <3>9 DEF Heartbeat, HeartbeatFails
        <4>. QED  BY <4>1 DEF Withdraws
      <3>10. CASE Deploy(d) /\ ~SiteIsUnhealthy(d)
        BY <1>0, <3>10 DEF Deploy, ReadPrevious, FinishUpload, PublishReturns, SiteIsHealthy,
                           RollbackReturns, BeginRelease, ReleaseReturns
      <3>. QED  BY <3>4, <3>5, <3>6, <3>7, <3>8, <3>9, <3>10 DEF ScriptStep, RunScript
    <2>. QED  BY <2>1, <2>2
  <1>17. FailedReleaseIsWithdrawn'
    <2>1. SUFFICES ASSUME NEW e \in unhealthy', HasRolledBack(e)', refresh'[e] # "failed"
                   PROVE  current' # e
      BY DEF FailedReleaseIsWithdrawn, HasRolledBack
    <2>2. e \in Deployers
      BY <1>0, <1>3, <2>1 DEF TypeOK, HasRolledBack
    <2>3. refresh[e] # "failed"
      BY <1>1, <2>1, <2>2
    <2>4. CASE e # d
      <3>1. HasRolledBack(e)
        BY <1>2, <1>3, <2>1, <2>2, <2>4 DEF HasRolledBack
      <3>2. current # e
        BY <2>3, <3>1 DEF ReleaseInv, FailedReleaseIsWithdrawn, HasRolledBack
      <3>. QED  BY <1>15, <2>2, <2>3, <2>4, <3>1, <3>2
    <2>5. CASE e = d
      <3>1. /\ d \in unhealthy /\ current' = current
            /\ \/ HasRolledBack(d)
               \/ stage[d] = "rolling back" /\ script[d] \in {"undone", "refused"}
        BY <1>4, <2>1, <2>5
      <3>. QED  BY <2>3, <2>5, <3>1 DEF ReleaseInv, FailedReleaseIsWithdrawn, HasRolledBack, Withdraws
    <2>. QED  BY <2>4, <2>5
  <1>. QED  BY <1>7, <1>8, <1>10, <1>11, <1>14, <1>16, <1>17 DEF ReleaseInv

LEMMA ReleaseInit == Init => ReleaseInv
  <1>. SUFFICES ASSUME Init PROVE ReleaseInv
    OBVIOUS
  <1>1. LeaseInv
    BY LeaseInit
  <1>. USE DEF Init, LockInit
  <1>2. \A d \in Deployers : ~Alive(d)
    BY DEF Alive, HeartbeatAlive, Holding
  <1>3. \A d \in Deployers : d # None /\ d # Dead
    BY LockAssumption
  <1>4. \A d \in Deployers : Unremembered(d)
    BY <1>3 DEF Unremembered
  <1>5. \A d \in Deployers : Verdicts(d) /\ Withdraws(d)
    BY DEF Verdicts, Withdraws
  <1>. QED  BY <1>1, <1>2, <1>4, <1>5 DEF ReleaseInv, Undisturbed, KeepsLease, Remembers,
                                          FailedReleaseIsWithdrawn

LEMMA ReleaseStutter ==
    ASSUME ReleaseInv, UNCHANGED vars
    PROVE  ReleaseInv'
  <1>1. LeaseInv' /\ Dirs' = Dirs
    BY LeaseStutter, SameDirs DEF ReleaseInv, vars
  <1>. USE DEF vars
  <1>2. \A d \in Deployers : Undisturbed(d)' /\ KeepsLease(d)'
    BY DEF ReleaseInv, Undisturbed, KeepsLease, Alive, HeartbeatAlive, Orphaned, HasOwner,
           Published, OwnsLease
  <1>3. \A d \in Deployers : Remembers(d)'
    BY <1>1 DEF ReleaseInv, Remembers, Alive, HeartbeatAlive, Orphaned, HasDirectory,
                  RolledBackLate, PublishedLate
  <1>4. \A d \in Deployers : Verdicts(d)' /\ Unremembered(d)' /\ Withdraws(d)'
    BY DEF ReleaseInv, Verdicts, Unremembered, Unpublished, HasRolledBack, Withdraws
  <1>5. FailedReleaseIsWithdrawn'
    BY DEF ReleaseInv, FailedReleaseIsWithdrawn
  <1>. QED  BY <1>1, <1>2, <1>3, <1>4, <1>5 DEF ReleaseInv

LEMMA ReleaseStep ==
    ASSUME ReleaseInv, [Next]_vars
    PROVE  ReleaseInv'
  <1>1. LeaseInv'
    BY LeaseStep DEF ReleaseInv
  <1>2. CASE Tick
    BY <1>1, <1>2, TickRelease
  <1>3. ASSUME NEW d \in Deployers, RunHelper(d) PROVE ReleaseInv'
    BY <1>1, <1>3, HelperRelease
  <1>4. ASSUME NEW d \in Deployers, ScriptStep(d) PROVE ReleaseInv'
    BY <1>1, <1>4, ScriptRelease
  <1>5. CASE UNCHANGED vars
    BY <1>5, ReleaseStutter
  <1>. QED  BY <1>2, <1>3, <1>4, <1>5 DEF Next, ScriptStep

\* A deployment replaces the release that it remembered for its rollback, unless that
\* one was rolled back late or a signal left a script behind that published another.
THEOREM NoDeploymentComesInBetween == Spec => []NoDeploymentInBetween
  <1>1. ReleaseInv => NoDeploymentInBetween
    <2>1. SUFFICES ASSUME ReleaseInv, NEW d \in Deployers, script[d] = "switch", InCharge(d)
                   PROVE  \/ previous[d] = current
                          \/ RolledBackLate(previous[d])
                          \/ PublishedLate(current)
      BY DEF NoDeploymentInBetween
    <2>2. OwnsLease(d) /\ Alive(d)
      BY <2>1, InChargeIsAlive DEF ReleaseInv, LeaseInv, LinkMovesUnderLease
    <2>3. HasDirectory(d)
      BY <2>1, <2>2, InDirs DEF ReleaseInv, LeaseInv, TypeOK, OwnsLease, HasOwner, HasDirectory
    <2>. QED  BY <2>1, <2>2, <2>3 DEF ReleaseInv, Remembers
  <1>2. ReleaseInv /\ [Next]_vars => ReleaseInv'
    BY ReleaseStep
  <1>. QED  BY <1>1, <1>2, ReleaseInit, PTL DEF Spec

\* A release that failed its health check is not served once its deployment has ended,
\* unless the heartbeat had failed before or a signal interrupted the rollback.
THEOREM FailedReleasesAreWithdrawn == Spec => []FailedReleaseIsWithdrawn
  <1>1. ReleaseInv => FailedReleaseIsWithdrawn
    BY DEF ReleaseInv
  <1>2. ReleaseInv /\ [Next]_vars => ReleaseInv'
    BY ReleaseStep
  <1>. QED  BY <1>1, <1>2, ReleaseInit, PTL DEF Spec
===============================================================================
