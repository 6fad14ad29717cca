------------------------------ MODULE RemoteLock ------------------------------
(***************************************************************************)
(* The lease that serialises staging deployments: the directory            *)
(* .deploy-lock on the deployment host, and the runs of                    *)
(* remote-deploy-lock.sh that create, refresh, reclaim and remove it.      *)
(* Every deployer has its own token; a run is a sequence of file-system    *)
(* commands, and the runs of different deployers, and the refresh and the  *)
(* release of one deployer, interleave between any two of them.            *)
(*                                                                         *)
(* Times are kept as ages, capped at Stale: only whether a lease is older  *)
(* than Stale matters.  The candidate directory is private to its run      *)
(* until the rename that publishes it, so creating a lock is that rename.  *)
(***************************************************************************)
EXTENDS Integers

CONSTANTS
    Deployers,  \* deployments, each with its own token
    Dead,       \* owner of a lock left behind by an earlier deployment
    Stale,      \* age, in ticks, at which a lease has expired
    None        \* no directory, no file, nothing read

ASSUME LockAssumption ==
    /\ Stale \in Nat \ {0}
    /\ Dead \notin Deployers
    /\ None \notin Deployers \cup {Dead}

VARIABLES
    lock,        \* the directory .deploy-lock
    quarantine,  \* quarantine[d]: the directory .deploy-lock.reclaim-<token of d>
    run,         \* run[d]: next command of d's acquire or release, or its result
    seen,        \* seen[d]: owner that d's acquire has read
    refresh      \* refresh[d]: next command of d's refresh, or its result

lockVars == <<lock, quarantine, run, seen, refresh>>

Owners == Deployers \cup {Dead}
Ages == 0..Stale

\* A lock directory: its files, the age of its owner file, and whether it also
\* holds an entry the scripts do not know.
Directory ==
    [owner : Owners \cup {None}, beat : Ages \cup {None}, since : Ages,
     next : BOOLEAN, junk : BOOLEAN]

ASSUME NoDirectory == None \notin Directory \cup Ages

Acquiring == {"check", "create", "owner", "beat", "move", "verify", "remove",
              "restore", "recreate"}
Releasing == {"token", "unlink next", "unlink beat", "unlink owner", "rmdir"}
Results == {"idle", "acquired", "busy", "released", "failed"}
Refreshing == {"token", "write", "confirm", "rename"}

Empty(dir) == dir.owner = None /\ dir.beat = None /\ ~dir.next /\ ~dir.junk

FreshLock(d) == [owner |-> d, beat |-> 0, since |-> 0, next |-> FALSE, junk |-> FALSE]

HasOwner(dir, d) == dir # None /\ dir.owner = d

\* Without a heartbeat the owner file's modification time is the lease; without
\* an owner the directory's, which removing the files has just renewed.
Age(dir) ==
    IF dir.beat # None THEN dir.beat ELSE IF dir.owner # None THEN dir.since ELSE 0

Goto(d, step) == run' = [run EXCEPT ![d] = step]

-----------------------------------------------------------------------------
(* acquire *)

CheckAbsent(d) ==
    /\ run[d] = "check"
    /\ Goto(d, IF lock = None THEN "create" ELSE "owner")
    /\ UNCHANGED <<lock, quarantine, seen, refresh>>

\* rename(2) of the candidate replaces an empty directory, not a filled one.
MayPublish == lock = None \/ Empty(lock)

\* A failed first attempt falls through to the existing lock.
CreateLock(d) ==
    /\ run[d] \in {"create", "recreate"}
    /\ IF MayPublish
       THEN Goto(d, "acquired") /\ lock' = FreshLock(d)
       ELSE Goto(d, IF run[d] = "create" THEN "exists" ELSE "busy") /\ UNCHANGED lock
    /\ UNCHANGED <<quarantine, seen, refresh>>

\* The lock that was in the way may be gone again: not a retryable status.
CheckExists(d) ==
    /\ run[d] = "exists"
    /\ Goto(d, IF lock = None THEN "failed" ELSE "owner")
    /\ UNCHANGED <<lock, quarantine, seen, refresh>>

ReadOwner(d) ==
    /\ run[d] = "owner"
    /\ IF lock = None \/ HasOwner(lock, None)
       THEN Goto(d, "busy") /\ UNCHANGED seen
       ELSE Goto(d, "beat") /\ seen' = [seen EXCEPT ![d] = lock.owner]
    /\ UNCHANGED <<lock, quarantine, refresh>>

ReadHeartbeat(d) ==
    /\ run[d] = "beat"
    /\ Goto(d, IF lock = None \/ Age(lock) < Stale THEN "busy" ELSE "move")
    /\ UNCHANGED <<lock, quarantine, seen, refresh>>

MoveToQuarantine(d) ==
    /\ run[d] = "move"
    /\ IF lock = None
       THEN Goto(d, "busy") /\ UNCHANGED quarantine
       ELSE Goto(d, "verify") /\ quarantine' = [quarantine EXCEPT ![d] = lock]
    /\ lock' = None
    /\ UNCHANGED <<seen, refresh>>

Expired(dir, owner) == dir.owner = owner /\ Age(dir) >= Stale

\* Variant: what was moved is taken for what was read.
VerifyNothing(d) ==
    /\ run[d] = "verify"
    /\ Goto(d, "remove")
    /\ UNCHANGED <<lock, quarantine, seen, refresh>>

\* What was moved may not be what was read.
VerifyQuarantined(d) ==
    /\ run[d] = "verify"
    /\ Goto(d, IF Expired(quarantine[d], seen[d]) THEN "remove" ELSE "restore")
    /\ UNCHANGED <<lock, quarantine, seen, refresh>>

RemoveQuarantined(d) ==
    /\ run[d] = "remove"
    /\ IF quarantine[d].junk
       THEN Goto(d, "restore") /\ UNCHANGED quarantine
       ELSE Goto(d, "recreate") /\ quarantine' = [quarantine EXCEPT ![d] = None]
    /\ UNCHANGED <<lock, seen, refresh>>

\* A plain mv: into the place of the lock, or inside a lock made meanwhile.
RestoreQuarantined(d) ==
    /\ run[d] = "restore"
    /\ lock' = IF lock = None THEN quarantine[d] ELSE [lock EXCEPT !.junk = TRUE]
    /\ quarantine' = [quarantine EXCEPT ![d] = None]
    /\ Goto(d, "busy")
    /\ UNCHANGED <<seen, refresh>>

Acquire(d) ==
    \/ CheckAbsent(d)
    \/ CreateLock(d)
    \/ CheckExists(d)
    \/ ReadOwner(d)
    \/ ReadHeartbeat(d)
    \/ MoveToQuarantine(d)
    \/ VerifyQuarantined(d)
    \/ RemoveQuarantined(d)
    \/ RestoreQuarantined(d)

-----------------------------------------------------------------------------
(* refresh *)

RefreshGoto(d, step) == refresh' = [refresh EXCEPT ![d] = step]

RefreshChecksToken(d) ==
    /\ refresh[d] = "token"
    /\ RefreshGoto(d, IF HasOwner(lock, d) THEN "write" ELSE "failed")
    /\ UNCHANGED <<lock, quarantine, run, seen>>

WriteHeartbeat(d) ==
    /\ refresh[d] = "write"
    /\ IF lock = None
       THEN RefreshGoto(d, "failed") /\ UNCHANGED lock
       ELSE RefreshGoto(d, "confirm") /\ lock' = [lock EXCEPT !.next = TRUE]
    /\ UNCHANGED <<quarantine, run, seen>>

ConfirmOwner(d) ==
    /\ refresh[d] = "confirm"
    /\ RefreshGoto(d, IF HasOwner(lock, d) THEN "rename" ELSE "failed")
    /\ UNCHANGED <<lock, quarantine, run, seen>>

RenameHeartbeat(d) ==
    /\ refresh[d] = "rename"
    /\ IF lock = None \/ ~lock.next
       THEN RefreshGoto(d, "failed") /\ UNCHANGED lock
       ELSE RefreshGoto(d, "idle") /\ lock' = [lock EXCEPT !.next = FALSE, !.beat = 0]
    /\ UNCHANGED <<quarantine, run, seen>>

Refresh(d) ==
    \/ RefreshChecksToken(d)
    \/ WriteHeartbeat(d)
    \/ ConfirmOwner(d)
    \/ RenameHeartbeat(d)

-----------------------------------------------------------------------------
(* release: every file is unlinked by its path under .deploy-lock *)

ReleaseChecksToken(d) ==
    /\ run[d] = "token"
    /\ Goto(d, IF HasOwner(lock, d) /\ ~lock.junk THEN "unlink next" ELSE "failed")
    /\ UNCHANGED <<lock, quarantine, seen, refresh>>

UnlinkNext(d) ==
    /\ run[d] = "unlink next"
    /\ lock' = IF lock = None THEN None ELSE [lock EXCEPT !.next = FALSE]
    /\ Goto(d, "unlink beat")
    /\ UNCHANGED <<quarantine, seen, refresh>>

UnlinkHeartbeat(d) ==
    /\ run[d] = "unlink beat"
    /\ lock' = IF lock = None THEN None ELSE [lock EXCEPT !.beat = None]
    /\ Goto(d, "unlink owner")
    /\ UNCHANGED <<quarantine, seen, refresh>>

UnlinkOwner(d) ==
    /\ run[d] = "unlink owner"
    /\ lock' = IF lock = None THEN None ELSE [lock EXCEPT !.owner = None]
    /\ Goto(d, "rmdir")
    /\ UNCHANGED <<quarantine, seen, refresh>>

RemoveDirectory(d) ==
    /\ run[d] = "rmdir"
    /\ IF lock # None /\ Empty(lock)
       THEN Goto(d, "released") /\ lock' = None
       ELSE Goto(d, "failed") /\ UNCHANGED lock
    /\ UNCHANGED <<quarantine, seen, refresh>>

Release(d) ==
    \/ ReleaseChecksToken(d)
    \/ UnlinkNext(d)
    \/ UnlinkHeartbeat(d)
    \/ UnlinkOwner(d)
    \/ RemoveDirectory(d)

-----------------------------------------------------------------------------
\* A lock may have been left behind, in the old format without a heartbeat or in
\* the current one; its lease may still run.
LeftBehind ==
    {[owner |-> Dead, beat |-> b, since |-> s, next |-> FALSE, junk |-> FALSE] :
        b \in Ages \cup {None}, s \in {Stale}}

LockInit ==
    /\ lock \in LeftBehind \cup {None}
    /\ quarantine = [d \in Deployers |-> None]
    /\ run = [d \in Deployers |-> "idle"]
    /\ seen = [d \in Deployers |-> None]
    /\ refresh = [d \in Deployers |-> "idle"]

HelperStep(d) == Acquire(d) \/ Refresh(d) \/ Release(d)

Older(dir) ==
    IF dir = None THEN None
    ELSE [dir EXCEPT !.beat = IF @ = None \/ @ = Stale THEN @ ELSE @ + 1,
                     !.since = IF @ = Stale THEN @ ELSE @ + 1]

LockTypeOK ==
    /\ lock \in Directory \cup {None}
    /\ quarantine \in [Deployers -> Directory \cup {None}]
    /\ run \in [Deployers -> Acquiring \cup {"exists"} \cup Releasing \cup Results]
    /\ seen \in [Deployers -> Owners \cup {None}]
    /\ refresh \in [Deployers -> Refreshing \cup {"idle", "failed"}]
=============================================================================
