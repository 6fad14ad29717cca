------------------------------- MODULE VmSession -------------------------------
(***************************************************************************)
(* The lifetime of the virtual machine behind the two workspaces           *)
(* (useVirtualMachine.ts with vm-controller.ts): one page-wide instance,   *)
(* handed from one visit of a workspace to the next, booted, restarted,    *)
(* failed and disposed by asynchronous functions that overlap.             *)
(*                                                                         *)
(* An asynchronous function is an action up to its first await; the rest   *)
(* is a record in `waiting' (or in `starting', for the await of start())   *)
(* and an action of its own.  Every function compares the generation it    *)
(* remembers with the current one when it goes on.  A machine is named by  *)
(* the generation that created it.  Messages of a machine are handled one  *)
(* by one, and checking a signature or importing a key is an await too.    *)
(***************************************************************************)
EXTENDS Naturals, Sequences, FiniteSets

CONSTANTS
    Visits,        \* visits of a workspace, each an owner symbol of its own
    DefaultOwner,  \* owner of a boot() or restart() without an argument
    NoOwner,       \* activeOwner = null
    Forged,        \* key or signature that does not come from the guest's init
    MaxRestarts,   \* bound: restarts and retries asked for
    MaxMessages    \* bound: messages waiting in one chain

ASSUME SessionAssumption ==
    /\ IsFiniteSet(Visits)
    /\ DefaultOwner \notin Visits
    /\ NoOwner \notin Visits \cup {DefaultOwner}
    /\ Forged \notin Nat
    /\ MaxRestarts \in Nat
    /\ MaxMessages \in Nat \ {0}

VARIABLES
    visit,            \* visit[o]: how far the workspace visit o has come
    activeOwner, ownerGeneration, generation,
    stage,            \* what the page shows of the machine
    controller,       \* the current machine, or 0
    machine,          \* machine[g]: state of the machine created by generation g
    releases,         \* releaseBarrier: releases that have not settled, oldest first
    waiting,          \* asynchronous functions that await a release
    starting,         \* boots that await start() or the timeout
    readyTimer,       \* the boot whose ready timer runs, or 0
    chain,            \* messageChain: messages of each machine, oldest first
    readySeen, sessionKey,
    credited,         \* history: signers whose results counted in this generation
    restarts          \* restarts and retries asked for so far

ownerVars == <<visit, activeOwner, ownerGeneration>>
keyVars == <<readySeen, sessionKey>>
\* What releasing the machine changes, and what creating one changes.
releaseVars == <<generation, readyTimer, keyVars, credited, controller, releases, waiting>>
createVars == <<generation, controller, machine, starting, stage, credited>>
vars == <<ownerVars, generation, stage, controller, machine, releases, waiting,
          starting, readyTimer, chain, keyVars, credited, restarts>>

Owners == Visits \cup {DefaultOwner}

\* A visit hands off, boots, fails and disposes; a restart releases, boots, fails.
MaxGeneration == 4 * Cardinality(Visits) + 3 * MaxRestarts
Generations == 1..MaxGeneration

Booting == {"loading-assets", "preparing-env"}
Stages == Booting \cup {"idle", "ready", "error"}

NoKey == 0
Keys == Generations \cup {Forged, NoKey}

\* The guest's init signs with the key of its own ready; 0 is no key, or one
\* that cannot be imported.
Messages == [type : {"ready", "result", "checking", "importing"}, key : Keys]

Waiting ==
    [task : {"boot", "fail", "restart", "dispose"},
     release : Nat,                   \* release it awaits
     owner : Owners \cup {NoOwner}, ownerGeneration : Nat]

-----------------------------------------------------------------------------
(* Releasing the current machine: everything before the first await of        *)
(* releaseCurrentVm, with the functions that go on once it has settled.       *)

ReleaseCurrentVm(callers) ==
    /\ generation' = generation + 1
    /\ readyTimer' = 0
    /\ sessionKey' = NoKey
    /\ readySeen' = FALSE
    /\ credited' = {}
    /\ controller' = 0
    /\ releases' = Append(releases, [machine |-> controller, id |-> generation + 1])
    /\ waiting' = waiting \cup callers

Settled(w) == \A i \in DOMAIN releases : releases[i].id # w.release

\* The head of the barrier stops its machine: an aborted start leaves nothing
\* behind, and one whose emulator is not ready within the limit is doomed: it is
\* destroyed when it becomes ready.
StopMachine ==
    /\ releases # <<>>
    /\ LET m == Head(releases).machine IN
         /\ m # 0
         /\ \/ machine[m] = "loading" /\ machine' = [machine EXCEPT ![m] = "gone"]
            \/ machine[m] = "initialising" /\ machine' = [machine EXCEPT ![m] = "doomed"]
            \/ machine[m] = "running" /\ machine' = [machine EXCEPT ![m] = "gone"]
    /\ UNCHANGED <<ownerVars, generation, stage, controller, releases, waiting,
                   starting, readyTimer, chain, keyVars, credited, restarts>>

\* After the stop, the messages already received are drained.
ReleaseSettles ==
    /\ releases # <<>>
    /\ LET m == Head(releases).machine IN
         m # 0 => machine[m] \in {"gone", "doomed", "failed"} /\ chain[m] = <<>>
    /\ releases' = Tail(releases)
    /\ UNCHANGED <<ownerVars, generation, stage, controller, machine, waiting,
                   starting, readyTimer, chain, keyVars, credited, restarts>>

-----------------------------------------------------------------------------
(* boot *)

\* activateDefaultOwner and the guards of boot() and bootInternal().
MayBoot(o) == activeOwner = o /\ controller = 0

\* Up to the await of start().
CreateController ==
    /\ generation' = generation + 1
    /\ controller' = generation + 1
    /\ machine' = [machine EXCEPT ![generation + 1] = "loading"]
    /\ starting' = starting \cup {generation + 1}
    /\ stage' = "loading-assets"
    /\ credited' = {}

\* Variant: a boot does not wait for the releases before it.
EagerBoot(o) ==
    IF ~MayBoot(o) THEN UNCHANGED <<createVars, waiting>>
    ELSE CreateController /\ UNCHANGED waiting

\* Without a pending release, bootInternal runs on at once; a second call in the
\* same generation shares the task of the first.
Boot(o) ==
    IF ~MayBoot(o) THEN UNCHANGED <<createVars, waiting>>
    ELSE IF releases = <<>> THEN CreateController /\ UNCHANGED waiting
    ELSE /\ waiting' = waiting \cup
              {[task |-> "boot", release |-> generation, owner |-> o,
                ownerGeneration |-> ownerGeneration]}
         /\ UNCHANGED createVars

\* Variant: whoever owns the machine by now.
WantedByAnyone(w) == controller = 0

StillWanted(w) ==
    /\ generation = w.release
    /\ activeOwner = w.owner
    /\ ownerGeneration = w.ownerGeneration
    /\ controller = 0

BootGoesOn(w) ==
    /\ w.task = "boot"
    /\ Settled(w)
    /\ waiting' = waiting \ {w}
    /\ IF StillWanted(w) THEN CreateController
       ELSE UNCHANGED createVars
    /\ UNCHANGED <<ownerVars, releases, readyTimer, chain, keyVars, restarts>>

\* failCurrentBoot, up to the await of the release.
FailCurrentBoot(g) ==
    IF g = generation
    THEN ReleaseCurrentVm({[task |-> "fail", release |-> generation + 1,
                            owner |-> NoOwner, ownerGeneration |-> 0]})
    ELSE UNCHANGED releaseVars

\* Variant: the outcome is shown whatever has been started meanwhile.
FailAnyway(w) ==
    /\ w.task = "fail"
    /\ Settled(w)
    /\ waiting' = waiting \ {w}
    /\ stage' = "error"
    /\ UNCHANGED <<ownerVars, generation, controller, machine, releases, starting,
                   readyTimer, chain, keyVars, credited, restarts>>

FailGoesOn(w) ==
    /\ w.task = "fail"
    /\ Settled(w)
    /\ waiting' = waiting \ {w}
    /\ stage' = IF generation = w.release THEN "error" ELSE stage
    /\ UNCHANGED <<ownerVars, generation, controller, machine, releases, starting,
                   readyTimer, chain, keyVars, credited, restarts>>

\* start() resolves once the emulator is constructed; the guest boots on its own.
StartResolves(g) ==
    /\ machine[g] = "loading"
    /\ machine' = [machine EXCEPT ![g] = "initialising"]
    /\ stage' = IF generation = g THEN "preparing-env" ELSE stage
    /\ UNCHANGED <<ownerVars, generation, controller, releases, waiting, starting,
                   readyTimer, chain, keyVars, credited, restarts>>

\* An asset cannot be fetched, or the browser cannot run the emulator.
StartFails(g) ==
    /\ machine[g] = "loading"
    /\ machine' = [machine EXCEPT ![g] = "failed"]
    /\ UNCHANGED <<ownerVars, generation, stage, controller, releases, waiting,
                   starting, readyTimer, chain, keyVars, credited, restarts>>

\* Variant: the ready timer is not armed.
NoReadyTimer(g) ==
    /\ g \in starting
    /\ machine[g] \notin {"loading", "failed"}
    /\ starting' = starting \ {g}
    /\ UNCHANGED <<ownerVars, generation, stage, controller, machine, releases,
                   waiting, readyTimer, chain, keyVars, credited, restarts>>

\* Machines that are stopped while they load have their start rejected.
BootStarted(g) ==
    /\ g \in starting
    /\ machine[g] \notin {"loading", "failed"}
    /\ starting' = starting \ {g}
    /\ readyTimer' = IF g = generation /\ stage # "ready" THEN g ELSE readyTimer
    /\ UNCHANGED <<ownerVars, generation, stage, controller, machine, releases,
                   waiting, chain, keyVars, credited, restarts>>

\* start() was rejected, or did not return in time.
BootFails(g) ==
    /\ g \in starting
    /\ starting' = starting \ {g}
    /\ FailCurrentBoot(g)
    /\ UNCHANGED <<ownerVars, stage, machine, chain, restarts>>

ReadyTimerFires ==
    /\ readyTimer # 0
    /\ FailCurrentBoot(readyTimer)
    /\ UNCHANGED <<ownerVars, stage, machine, starting, chain, restarts>>

\* External: libv86 finishes its own initialisation; a doomed one is destroyed.
EmulatorReady(g) ==
    /\ \/ machine[g] = "initialising" /\ machine' = [machine EXCEPT ![g] = "running"]
       \/ machine[g] = "doomed" /\ machine' = [machine EXCEPT ![g] = "gone"]
    /\ UNCHANGED <<ownerVars, generation, stage, controller, releases, waiting,
                   starting, readyTimer, chain, keyVars, credited, restarts>>

-----------------------------------------------------------------------------
(* Messages of the guest *)

\* External: a running guest says something.  Its init speaks first; later lines
\* may be anybody's.  Only the current machine has a listener.
Says(g) ==
    IF ~readySeen /\ chain[g] = <<>> THEN [type : {"ready"}, key : {g, NoKey}]
    ELSE [type : {"ready"}, key : {Forged, NoKey}] \cup [type : {"result"}, key : {g, Forged}]

GuestSpeaks(g) ==
    /\ controller = g
    /\ machine[g] = "running"
    /\ Len(chain[g]) < MaxMessages
    /\ \E m \in Says(g) : chain' = [chain EXCEPT ![g] = Append(@, m)]
    /\ UNCHANGED <<ownerVars, generation, stage, controller, machine, releases,
                   waiting, starting, readyTimer, keyVars, credited, restarts>>

NextMessage(g, type) == chain[g] # <<>> /\ Head(chain[g]).type = type

Handled(g) == chain' = [chain EXCEPT ![g] = Tail(@)]
Suspended(g, m) == chain' = [chain EXCEPT ![g] = <<m>> \o Tail(@)]

\* Variant: only a ready that carried a key is pinned.
UnpinnedReady(g) ==
    /\ generation = g
    /\ NextMessage(g, "ready")
    /\ IF sessionKey # NoKey THEN Handled(g) /\ UNCHANGED <<readySeen, stage, readyTimer>>
       ELSE /\ readySeen' = TRUE
            /\ IF Head(chain[g]).key = NoKey
               THEN stage' = "ready" /\ readyTimer' = 0 /\ Handled(g)
               ELSE /\ Suspended(g, [type |-> "importing", key |-> Head(chain[g]).key])
                    /\ UNCHANGED <<stage, readyTimer>>
    /\ UNCHANGED <<ownerVars, generation, controller, machine, releases, waiting,
                   starting, credited, sessionKey, restarts>>

\* The first ready is pinned before anything else, with or without a key.
HandleReady(g) ==
    /\ generation = g
    /\ NextMessage(g, "ready")
    /\ IF readySeen THEN Handled(g) /\ UNCHANGED <<readySeen, stage, readyTimer>>
       ELSE /\ readySeen' = TRUE
            /\ IF Head(chain[g]).key = NoKey
               THEN stage' = "ready" /\ readyTimer' = 0 /\ Handled(g)
               ELSE /\ Suspended(g, [type |-> "importing", key |-> Head(chain[g]).key])
                    /\ UNCHANGED <<stage, readyTimer>>
    /\ UNCHANGED <<ownerVars, generation, controller, machine, releases, waiting,
                   starting, credited, sessionKey, restarts>>

KeyImported(g) ==
    /\ generation = g
    /\ NextMessage(g, "importing")
    /\ sessionKey' = Head(chain[g]).key
    /\ stage' = "ready"
    /\ readyTimer' = 0
    /\ Handled(g)
    /\ UNCHANGED <<ownerVars, generation, controller, machine, releases, waiting,
                   starting, credited, readySeen, restarts>>

\* Without a session key nothing is verified; otherwise verifying is an await.
\* Only a signature that will verify needs to be followed further.
HandleResult(g) ==
    /\ generation = g
    /\ NextMessage(g, "result")
    /\ IF sessionKey # NoKey /\ Head(chain[g]).key = sessionKey
       THEN Suspended(g, [type |-> "checking", key |-> sessionKey])
       ELSE Handled(g)
    /\ UNCHANGED <<ownerVars, generation, stage, controller, machine, releases,
                   waiting, starting, readyTimer, keyVars, credited, restarts>>

\* Variant: the session may have changed while the signature was checked.
CreditAnySession(g) ==
    /\ NextMessage(g, "checking")
    /\ credited' = credited \cup {Head(chain[g]).key}
    /\ Handled(g)
    /\ UNCHANGED <<ownerVars, generation, stage, controller, machine, releases,
                   waiting, starting, readyTimer, keyVars, restarts>>

CreditResult(g) ==
    /\ generation = g
    /\ NextMessage(g, "checking")
    /\ credited' = credited \cup {Head(chain[g]).key}
    /\ Handled(g)
    /\ UNCHANGED <<ownerVars, generation, stage, controller, machine, releases,
                   waiting, starting, readyTimer, keyVars, restarts>>

\* The generation no longer matches, before or after an await.
DropStale(g) ==
    /\ generation # g
    /\ chain[g] # <<>>
    /\ Handled(g)
    /\ UNCHANGED <<ownerVars, generation, stage, controller, machine, releases,
                   waiting, starting, readyTimer, keyVars, credited, restarts>>

-----------------------------------------------------------------------------
(* The workspaces *)

\* The workspace's setup hands the machine over to the new visit.
Handoff(o) ==
    /\ visit[o] = "unborn"
    /\ visit' = [visit EXCEPT ![o] = "setup"]
    /\ activeOwner' = o
    /\ ownerGeneration' = ownerGeneration + 1
    /\ IF controller # 0 THEN ReleaseCurrentVm({})
       ELSE UNCHANGED releaseVars
    /\ UNCHANGED <<stage, machine, starting, chain, restarts>>

Mount(o) ==
    /\ visit[o] = "setup"
    /\ visit' = [visit EXCEPT ![o] = "mounted"]
    /\ Boot(o)
    /\ UNCHANGED <<activeOwner, ownerGeneration, releases, readyTimer, chain, keyVars, restarts>>

\* A visit that opens on the summary page boots nothing.
MountSummary(o) ==
    /\ visit[o] = "setup"
    /\ visit' = [visit EXCEPT ![o] = "summary"]
    /\ UNCHANGED <<activeOwner, ownerGeneration, createVars, releases, waiting,
                   readyTimer, chain, keyVars, restarts>>

Dispose(o) ==
    IF activeOwner = o
    THEN /\ activeOwner' = NoOwner
         /\ ownerGeneration' = ownerGeneration + 1
         /\ ReleaseCurrentVm({[task |-> "dispose", release |-> generation + 1,
                               owner |-> NoOwner, ownerGeneration |-> ownerGeneration + 1]})
    ELSE UNCHANGED <<activeOwner, ownerGeneration, releaseVars>>

\* The last level is done and the summary takes the workspace's place.
Finish(o) ==
    /\ visit[o] = "mounted"
    /\ stage = "ready"
    /\ visit' = [visit EXCEPT ![o] = "summary"]
    /\ Dispose(o)
    /\ UNCHANGED <<stage, machine, starting, chain, restarts>>

\* The route changes; the next visit's handoff may come before or after.
Leave(o) ==
    /\ visit[o] \in {"mounted", "summary"}
    /\ visit' = [visit EXCEPT ![o] = "left"]
    /\ Dispose(o)
    /\ UNCHANGED <<stage, machine, starting, chain, restarts>>

DisposeGoesOn(w) ==
    /\ w.task = "dispose"
    /\ Settled(w)
    /\ waiting' = waiting \ {w}
    /\ stage' = IF /\ activeOwner = NoOwner
                   /\ ownerGeneration = w.ownerGeneration
                   /\ generation = w.release
                THEN "idle" ELSE stage
    /\ UNCHANGED <<ownerVars, generation, controller, machine, releases, starting,
                   readyTimer, chain, keyVars, credited, restarts>>

\* The dialog of a blocking anomaly restarts the machine of its workspace.
Restart(o) ==
    /\ visit[o] = "mounted"
    /\ restarts < MaxRestarts
    /\ restarts' = restarts + 1
    /\ IF activeOwner = o
       THEN ReleaseCurrentVm({[task |-> "restart", release |-> generation + 1,
                               owner |-> o, ownerGeneration |-> ownerGeneration]})
       ELSE UNCHANGED releaseVars
    /\ UNCHANGED <<ownerVars, stage, machine, starting, chain>>

\* After its release a restart boots again, unless the workspace was left.
RestartGoesOn(w) ==
    /\ w.task = "restart"
    /\ Settled(w)
    /\ IF /\ activeOwner = w.owner
          /\ ownerGeneration = w.ownerGeneration
          /\ controller = 0
       THEN IF releases = <<>>
            THEN CreateController /\ waiting' = waiting \ {w}
            ELSE /\ waiting' = (waiting \ {w}) \cup
                       {[w EXCEPT !.task = "boot", !.release = generation]}
                 /\ UNCHANGED createVars
       ELSE /\ waiting' = waiting \ {w}
            /\ UNCHANGED createVars
    /\ UNCHANGED <<ownerVars, releases, readyTimer, chain, keyVars, restarts>>

\* The retry button of the loading screen is bound to boot itself, so that it
\* boots for the default owner.
Retry(o) ==
    /\ visit[o] = "mounted"
    /\ activeOwner = o
    /\ stage = "error"
    /\ restarts < MaxRestarts
    /\ restarts' = restarts + 1
    /\ Boot(DefaultOwner)
    /\ UNCHANGED <<ownerVars, releases, readyTimer, chain, keyVars>>

-----------------------------------------------------------------------------
Init ==
    /\ visit = [o \in Visits |-> "unborn"]
    /\ activeOwner = DefaultOwner
    /\ ownerGeneration = 0
    /\ generation = 0
    /\ stage = "idle"
    /\ controller = 0
    /\ machine = [g \in Generations |-> "none"]
    /\ releases = <<>>
    /\ waiting = {}
    /\ starting = {}
    /\ readyTimer = 0
    /\ chain = [g \in Generations |-> <<>>]
    /\ readySeen = FALSE
    /\ sessionKey = NoKey
    /\ credited = {}
    /\ restarts = 0

GoesOn(w) == BootGoesOn(w) \/ FailGoesOn(w) \/ DisposeGoesOn(w) \/ RestartGoesOn(w)

BootStep(g) == StartResolves(g) \/ StartFails(g) \/ BootStarted(g) \/ BootFails(g)

HandleMessage(g) ==
    HandleReady(g) \/ KeyImported(g) \/ HandleResult(g) \/ CreditResult(g) \/ DropStale(g)

WorkspaceStep(o) ==
    \/ Handoff(o)
    \/ Mount(o)
    \/ MountSummary(o)
    \/ Finish(o)
    \/ Leave(o)
    \/ Restart(o)
    \/ Retry(o)

\* What the page's event loop runs by itself.
PageStep ==
    \/ \E w \in waiting : GoesOn(w)
    \/ \E g \in Generations : BootStep(g) \/ HandleMessage(g)
    \/ StopMachine
    \/ ReleaseSettles
    \/ ReadyTimerFires

Next ==
    \/ \E o \in Visits : WorkspaceStep(o)
    \/ \E g \in Generations : EmulatorReady(g) \/ GuestSpeaks(g)
    \/ PageStep

Spec == Init /\ [][Next]_vars

\* Promises settle and timers fire: the event loop does not stop while it has
\* something to run.  Neither the emulator, nor the guest, nor the user owes
\* anything.
Fairness == WF_vars(PageStep)

FairSpec == Spec /\ Fairness

-----------------------------------------------------------------------------
TypeOK ==
    /\ visit \in [Visits -> {"unborn", "setup", "mounted", "summary", "left"}]
    /\ activeOwner \in Owners \cup {NoOwner}
    /\ ownerGeneration \in Nat
    /\ generation \in Nat
    /\ stage \in Stages
    /\ controller \in Nat
    /\ machine \in [Generations ->
         {"none", "loading", "initialising", "running", "failed", "doomed", "gone"}]
    /\ releases \in Seq([machine : Nat, id : Nat])
    /\ waiting \subseteq Waiting
    /\ starting \subseteq Nat
    /\ readyTimer \in Nat
    /\ chain \in [Generations -> Seq(Messages)]
    /\ readySeen \in BOOLEAN
    /\ sessionKey \in Keys
    /\ credited \subseteq Keys
    /\ restarts \in 0..MaxRestarts

\* However restarts, failures and changes of workspace overlap, a machine is only
\* created when every earlier one has been destroyed or is doomed to be: two
\* emulators never run side by side.
OneMachine ==
    Cardinality({g \in Generations : machine[g] \in {"loading", "initialising", "running"}}) <= 1

\* Releases that overlap, and functions that go on after them, leave no stage
\* behind that is not true of the current machine: an error or an idle page has
\* released it, and a machine shown as ready has sent its ready message.
StageIsTrue ==
    /\ stage \in {"error", "idle"} => controller = 0
    /\ stage = "ready" /\ controller # 0 => readySeen /\ machine[controller] = "running"

\* A result counts only for the session whose own init signed it, although the
\* key is imported, and the signature checked, while the machine may be
\* exchanged, and the guest may send a second key.
CreditedBySession == credited \subseteq {generation}

\* A workspace that was left neither keeps a machine nor gets a new one from a
\* boot, restart or failure it still had under way.
MachineHasOwner ==
    controller # 0 => activeOwner \in Visits /\ visit[activeOwner] \in {"mounted", "setup"}

\* A mounted workspace does not wait for ever: its machine becomes ready, or the
\* page shows an error, or the workspace hands over, even if the emulator never
\* starts or an asset never arrives.
VisitIsServed ==
    \A o \in Visits :
        (visit[o] = "mounted" /\ activeOwner = o) ~>
            (\/ activeOwner # o
             \/ stage = "error"
             \/ controller # 0 /\ stage = "ready")

\* The retry button boots again.
RetryBoots == [][\A o \in Visits : Retry(o) => stage' = "loading-assets"]_vars
=============================================================================
