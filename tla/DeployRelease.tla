----------------------------- MODULE DeployRelease -----------------------------
(***************************************************************************)
(* deploy-release.sh: concurrent deployments to the staging host, under    *)
(* the lease of RemoteLock.  A deployment waits for the lease, keeps it    *)
(* alive from a background loop, remembers which release is current,       *)
(* uploads, switches the link "current", checks the site and rolls back    *)
(* when the check fails.  The runner may be lost or be sent a signal at    *)
(* any point; what it has started on the host, helper runs and scripts,    *)
(* goes on without it.                                                     *)
(*                                                                         *)
(* Time: one tick is longer than what runs on the host and no longer than  *)
(* an upload, and a heartbeat loop that is alive refreshes before its      *)
(* lease expires (the script wants three heartbeats in the stale time).    *)
(***************************************************************************)
EXTENDS RemoteLock, FiniteSets

CONSTANTS
    Wait,       \* ticks a deployment waits for the lease
    Signalled,  \* deployments that may be sent HUP, INT or TERM, or lose an ssh
    Fragile     \* deployments whose runner or heartbeat may fail

ASSUME WaitAssumption ==
    /\ Wait \in Nat /\ Wait >= Stale
    /\ Signalled \subseteq Deployers /\ Fragile \subseteq Deployers

VARIABLES
    stage,     \* stage[d]: where the script of d is
    timer,     \* timer[d]: ticks d has been waiting or uploading
    script,    \* script[d]: next command of d's script on the host, or its result
    previous,  \* previous[d]: PREVIOUS_TARGET
    current,   \* the release that the link "current" names
    unhealthy  \* deployments whose health check has failed

deployVars == <<stage, timer, script, previous, current, unhealthy>>
vars == <<lock, quarantine, run, seen, refresh,
          stage, timer, script, previous, current, unhealthy>>

\* Stages in which the heartbeat loop has been started.
Holding == {"acquired", "uploading", "publishing", "checking", "rolling back"}
Stages == Holding \cup {"start", "waiting", "acquiring", "cleanup", "releasing",
                        "ended", "lost"}
Scripts == {"idle", "assemble", "switch", "published", "undo", "restore", "undone",
            "refused"}

\* kill -0 on the heartbeat loop, and no failure file.
HeartbeatAlive(d) == stage[d] \in Holding /\ refresh[d] # "failed"

EnterStage(d, s) == stage' = [stage EXCEPT ![d] = s]

StopTimer(d) == timer' = [timer EXCEPT ![d] = 0]

Timed(d) == stage[d] \in {"waiting", "uploading"}

OwnsLease(d) == HasOwner(lock, d)

-----------------------------------------------------------------------------
BeginWaiting(d) ==
    /\ stage[d] = "start"
    /\ EnterStage(d, "waiting")
    /\ UNCHANGED <<timer, script, previous, current, unhealthy, lockVars>>

TryAcquire(d) ==
    /\ stage[d] = "waiting"
    /\ EnterStage(d, "acquiring")
    /\ Goto(d, "check")
    /\ UNCHANGED <<timer, script, previous, current, unhealthy, lock, quarantine, seen, refresh>>

\* Variant: the wait ends before a lease can have expired.
DeadlineBeforeExpiry(d) == timer[d] + 1 >= Stale

DeadlinePassed(d) == timer[d] >= Wait

AcquireReturns(d) ==
    /\ stage[d] = "acquiring"
    /\ \/ run[d] = "acquired" /\ EnterStage(d, "acquired") /\ StopTimer(d)
       \/ run[d] = "busy" /\ DeadlinePassed(d) /\ EnterStage(d, "ended") /\ StopTimer(d)
       \/ run[d] = "busy" /\ ~DeadlinePassed(d) /\ EnterStage(d, "waiting") /\ UNCHANGED timer
       \/ run[d] = "failed" /\ EnterStage(d, "ended") /\ StopTimer(d)
    /\ Goto(d, "idle")
    /\ seen' = [seen EXCEPT ![d] = None]
    /\ UNCHANGED <<script, previous, current, unhealthy, lock, quarantine, refresh>>

\* The background loop starts another refresh.
Heartbeat(d) ==
    /\ HeartbeatAlive(d)
    /\ refresh[d] = "idle"
    /\ RefreshGoto(d, "token")
    /\ UNCHANGED <<deployVars, lock, quarantine, run, seen>>

\* Any command over ssh may also fail, which ends the deployment.
ReadPrevious(d) ==
    /\ stage[d] = "acquired"
    /\ \/ /\ OwnsLease(d)
          /\ EnterStage(d, "uploading")
          /\ previous' = [previous EXCEPT ![d] = current]
       \/ EnterStage(d, "cleanup") /\ UNCHANGED previous
    /\ UNCHANGED <<timer, script, current, unhealthy, lockVars>>

StartScript(d, s) == script' = [script EXCEPT ![d] = s]

FinishUpload(d) ==
    /\ stage[d] = "uploading"
    /\ timer[d] >= 1
    /\ \/ HeartbeatAlive(d) /\ EnterStage(d, "publishing") /\ StartScript(d, "assemble")
       \/ EnterStage(d, "cleanup") /\ UNCHANGED script
    /\ StopTimer(d)
    /\ UNCHANGED <<previous, current, unhealthy, lockVars>>

\* Variant: the script relies on the heartbeat alone.
AssembleUnchecked(d) ==
    /\ script[d] = "assemble"
    /\ StartScript(d, "switch") \/ StartScript(d, "refused")
    /\ UNCHANGED <<stage, timer, previous, current, unhealthy, lockVars>>

\* The script on the host tests the owner, assembles the release (which may fail) ...
Assemble(d) ==
    /\ script[d] = "assemble"
    /\ \/ OwnsLease(d) /\ StartScript(d, "switch")
       \/ StartScript(d, "refused")
    /\ UNCHANGED <<stage, timer, previous, current, unhealthy, lockVars>>

\* ... and replaces the link.
Switch(d) ==
    /\ script[d] = "switch"
    /\ current' = d
    /\ StartScript(d, "published")
    /\ UNCHANGED <<stage, timer, previous, unhealthy, lockVars>>

PublishReturns(d) ==
    /\ stage[d] = "publishing"
    /\ \/ script[d] = "published" /\ EnterStage(d, "checking")
       \/ script[d] = "refused" /\ EnterStage(d, "cleanup")
    /\ StartScript(d, "idle")
    /\ UNCHANGED <<timer, previous, current, unhealthy, lockVars>>

\* The last assertion on the heartbeat decides the exit status only.
SiteIsHealthy(d) ==
    /\ stage[d] = "checking"
    /\ EnterStage(d, "cleanup")
    /\ UNCHANGED <<timer, script, previous, current, unhealthy, lockVars>>

SiteIsUnhealthy(d) ==
    /\ stage[d] = "checking"
    /\ EnterStage(d, "rolling back")
    /\ StartScript(d, "undo")
    /\ unhealthy' = unhealthy \cup {d}
    /\ UNCHANGED <<timer, previous, current, lockVars>>

RollbackChecksOwner(d) ==
    /\ script[d] = "undo"
    /\ StartScript(d, IF OwnsLease(d) THEN "restore" ELSE "refused")
    /\ UNCHANGED <<stage, timer, previous, current, unhealthy, lockVars>>

\* Back to the remembered release, or to no release after a first deployment.
Rollback(d) ==
    /\ script[d] = "restore"
    /\ current' = IF current = d THEN previous[d] ELSE current
    /\ StartScript(d, "undone")
    /\ UNCHANGED <<stage, timer, previous, unhealthy, lockVars>>

RollbackReturns(d) ==
    /\ stage[d] = "rolling back"
    /\ script[d] \in {"undone", "refused"}
    /\ EnterStage(d, "cleanup")
    /\ StartScript(d, "idle")
    /\ UNCHANGED <<timer, previous, current, unhealthy, lockVars>>

\* The trap kills the heartbeat loop, not a refresh it has under way.
BeginRelease(d) ==
    /\ stage[d] = "cleanup"
    /\ EnterStage(d, "releasing")
    /\ Goto(d, "token")
    /\ UNCHANGED <<timer, script, previous, current, unhealthy, lock, quarantine, seen, refresh>>

ReleaseReturns(d) ==
    /\ stage[d] = "releasing"
    /\ run[d] \in {"released", "failed"}
    /\ EnterStage(d, "ended")
    /\ Goto(d, "idle")
    /\ UNCHANGED <<timer, script, previous, current, unhealthy, lock, quarantine, seen, refresh>>

\* The signal ends the process group, ssh included, and runs the trap; a broken
\* ssh connection fails the script, which runs it too.
Interrupt(d) ==
    /\ d \in Signalled
    /\ \/ stage[d] \in Holding /\ EnterStage(d, "cleanup")
       \/ stage[d] \in {"waiting", "acquiring"} /\ EnterStage(d, "ended")
    /\ StopTimer(d)
    /\ UNCHANGED <<script, previous, current, unhealthy, lockVars>>

\* The background loop's ssh fails, whatever the state of the lock.
HeartbeatFails(d) ==
    /\ d \in Fragile
    /\ HeartbeatAlive(d)
    /\ refresh[d] = "idle"
    /\ RefreshGoto(d, "failed")
    /\ UNCHANGED <<deployVars, lock, quarantine, run, seen>>

LoseRunner(d) ==
    /\ d \in Fragile
    /\ stage[d] \notin {"start", "ended", "lost"}
    /\ EnterStage(d, "lost")
    /\ StopTimer(d)
    /\ UNCHANGED <<script, previous, current, unhealthy, lockVars>>

\* A command of a helper run on the host.
RunHelper(d) == HelperStep(d) /\ UNCHANGED deployVars

Settled(d) ==
    /\ run[d] \in Results
    /\ stage[d] # "acquiring"
    /\ refresh[d] \in {"idle", "failed"}
    /\ script[d] \notin {"assemble", "switch", "undo", "restore"}

\* Runs are shorter than a tick and live loops keep their lease.
MayTick ==
    /\ \A d \in Deployers : Settled(d)
    /\ \A d \in Deployers : HeartbeatAlive(d) /\ HasOwner(lock, d) => Age(lock) + 1 < Stale

Tick ==
    /\ MayTick
    /\ lock' = Older(lock)
    /\ quarantine' = [d \in Deployers |-> Older(quarantine[d])]
    /\ timer' = [d \in Deployers |-> IF Timed(d) /\ timer[d] < Wait THEN timer[d] + 1 ELSE timer[d]]
    /\ UNCHANGED <<run, seen, refresh, stage, script, previous, current, unhealthy>>

-----------------------------------------------------------------------------
Init ==
    /\ LockInit
    /\ stage = [d \in Deployers |-> "start"]
    /\ timer = [d \in Deployers |-> 0]
    /\ script = [d \in Deployers |-> "idle"]
    /\ previous = [d \in Deployers |-> None]
    /\ current \in {None, Dead}
    /\ unhealthy = {}

Contend(d) == BeginWaiting(d) \/ TryAcquire(d) \/ AcquireReturns(d)

Deploy(d) ==
    \/ ReadPrevious(d)
    \/ FinishUpload(d)
    \/ PublishReturns(d)
    \/ SiteIsHealthy(d)
    \/ SiteIsUnhealthy(d)
    \/ RollbackReturns(d)
    \/ BeginRelease(d)
    \/ ReleaseReturns(d)

RunScript(d) ==
    \/ Assemble(d)
    \/ Switch(d)
    \/ RollbackChecksOwner(d)
    \/ Rollback(d)

Next ==
    \/ Tick
    \/ \E d \in Deployers :
          \/ Contend(d)
          \/ Deploy(d)
          \/ RunScript(d)
          \/ Heartbeat(d)
          \/ HeartbeatFails(d)
          \/ RunHelper(d)
          \/ Interrupt(d)
          \/ LoseRunner(d)

Spec == Init /\ [][Next]_vars

\* What was started on the host runs on, scripts that are alive proceed, and time
\* passes although commands keep running: the script sleeps between its attempts.
Fairness ==
    /\ \A d \in Deployers : WF_vars(Contend(d))
    /\ \A d \in Deployers : WF_vars(RunHelper(d)) /\ WF_vars(RunScript(d))
    /\ SF_vars(Tick)

FairSpec == Spec /\ Fairness
-----------------------------------------------------------------------------
(* Properties. *)

TypeOK ==
    /\ LockTypeOK
    /\ stage \in [Deployers -> Stages]
    /\ timer \in [Deployers -> 0..Wait]
    /\ script \in [Deployers -> Scripts]
    /\ previous \in [Deployers -> Owners \cup {None}]
    /\ current \in Owners \cup {None}
    /\ unhealthy \subseteq Deployers

\* The script on the host goes on after a signal, while the trap on the runner gives
\* the lease back.
Orphaned(d) == script[d] # "idle" /\ (run[d] # "idle" \/ stage[d] = "ended")

InCharge(d) ==
    /\ ~Orphaned(d)
    /\ \/ script[d] = "switch"
       \/ script[d] = "restore" /\ refresh[d] # "failed"

\* Whoever is about to move the link "current" owns the lease at that moment, so
\* no two deployments do, although the owner was tested some commands earlier.  A
\* rollback may find its lease expired when the heartbeat has failed before, and a
\* script that was orphaned by a signal finds it given back.
LinkMovesUnderLease == \A d \in Deployers : InCharge(d) => OwnsLease(d)

RolledBackLate(d) == d \in unhealthy /\ (refresh[d] = "failed" \/ Orphaned(d))

PublishedLate(d) == d \in Deployers /\ script[d] = "published" /\ Orphaned(d)

\* The release a deployment replaces is the one it remembered for its rollback
\* before the upload, unless that one was rolled back late, by a deployment whose
\* heartbeat had failed or that was sent a signal, or such a signal has left a
\* script behind that published another since.
NoDeploymentInBetween ==
    \A d \in Deployers : script[d] = "switch" /\ InCharge(d) =>
        \/ previous[d] = current
        \/ RolledBackLate(previous[d])
        \/ PublishedLate(current)

\* A release that failed its health check is not served once its deployment has
\* ended, unless the heartbeat had failed, the runner was lost, or a signal
\* interrupted the rollback.
FailedReleaseIsWithdrawn ==
    \A d \in unhealthy :
        /\ stage[d] \in {"cleanup", "releasing", "ended"} /\ script[d] = "idle"
        /\ refresh[d] # "failed"
        => current # d

\* Reclaiming never removes the lock of a deployment whose heartbeat is alive.
LiveLeaseIsNotReclaimed ==
    [][\A d \in Deployers :
         RemoveQuarantined(d) /\ quarantine'[d] = None /\ quarantine[d].owner \in Deployers =>
            ~HeartbeatAlive(quarantine[d].owner)]_vars

Reclaimable == lock # None => lock.owner # None /\ ~lock.junk

HostIsQuiet == \A d \in Deployers : run[d] \in Results /\ refresh[d] \in {"idle", "failed"}

\* Whatever lock is left behind when nothing runs on the host, the next deployment
\* can reclaim it once its lease has expired.
LeftLockIsReclaimable == HostIsQuiet => Reclaimable

Gone(d) ==
    /\ stage[d] \in {"ended", "lost"}
    /\ run[d] \in Results /\ refresh[d] \in {"idle", "failed"}

\* A deployment that starts when the others have ended or lost their runner gets
\* the lease, unless it is interrupted itself: it waits for longer than a lease
\* left behind can still run.
FirstAfterLoss(d) ==
    /\ stage[d] = "start"
    /\ \A o \in Deployers \ {d} : Gone(o)
    /\ Reclaimable
NextDeploymentGetsLease ==
    \A d \in Deployers \ (Signalled \cup Fragile) :
        FirstAfterLoss(d) ~> stage[d] \in Holding
=============================================================================
