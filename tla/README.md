# Specifications of HASHTEAM SecLab

TLA+ models of the parts of SecLab in which the order of events matters, the
TLC runs that check them and the TLAPS proofs about them. Paths are relative to
the repository. The lines that each definition models are in `PROJECT.json`
under `map`; what is hard to test in this code, and which property is about it, is
under `hazards`.

SecLab is a teaching application. A web page runs a Linux guest in the browser
(v86), shows its serial terminal, follows the learner's progress through levels
("SecLab" workspace) and labs ("PwnHub" workspace), keeps that progress in
`localStorage`, and sends anonymous counts to a small telemetry backend. In the
guest, a set-user-id checker grades the learner's work and a ptrace debugger runs
some of the labs. A deployment script publishes the site to a staging host, another
installs the backend on its server.

## 1. Inventory

| Part | State it keeps | Operations | What is hard about it | What makes it correct |
|---|---|---|---|---|
| Progress store (`progress-store.ts`, `useLabProgress.ts`) | one `localStorage` item; one reactive copy per tab | complete, hint, guide, step, assistance, attempt reset, navigate, reset all, load, storage event | several tabs, each a synchronous read-merge-write over a copy that may be old; events delivered late or never; clock not monotone | a write loses nothing another tab did and revives nothing it reset; a copy is recognisably older or equal; a reload shows what was stored |
| Mission panels (`MissionPanel.vue`, `PwnHubMissionPanel.vue`) | evidence kept in the panel, step shown | give evidence, reveal the next step, go back, change the learning mode | local evidence outlives resets; two tabs reveal the same step | no guide ahead of its evidence |
| Blocking anomalies (`anomaly-center.ts`, `progress-anomaly.ts`) | detected list, dismissed keys | report, dismiss, resolve, reconcile, repair | detection re-run on every change; the answer comes later than the detection | a popup is about the unit its repair resets |
| Resilient storage (`progress-store.ts`) | in-memory copy, whether the browser's store still works | get, set, remove | the store failing between any two operations | an instance never loses what it knew |
| External tool companion (`companion.ts`, `ExternalToolCompanion.vue`) | a session per window, ids of messages seen, one stored session | change, send, receive on two paths, save, open, close | each message arrives twice, on paths of different speed; the session is saved whole | each change is acted on once and in order; the windows come to agree |
| Virtual machine lifetime (`useVirtualMachine.ts`, `vm-controller.ts`) | generation, owner, controller, release barrier, ready timer, message chain, session key | boot, restart, fail, time out, dispose, hand off, handle a message | asynchronous functions that overlap at every `await`; machines that cannot be stopped while they initialise | one machine at a time; the stage shown is true; results count for their own session; somebody owns the machine; the user is served |
| Navigation (`useVirtualMachine.ts`, guest's `hashteamctl`) | selection, completed labs, pending navigation, guest's lab and completed labs | select, temporary unlock, restore at first prompt, reset, guest's goto/mark/reset/check | commands are typed into a terminal the learner is using; no acknowledgement but a signed message; other tabs change the progress | page and guest agree or the learner is told |
| Serial parser (`protocol-parser.ts`, `useSerialProtocol.ts`) | line buffer | feed, flush | arbitrary chunks, unterminated output before a marker | messages and display do not depend on the chunks |
| Guest grading (`htcheck.c`, `hashteamctl`) | current level and lab, record of completions, key | goto, goto-lab, mark, factory-reset, run a check | a command cut off between two of its writes | the place that is graded is unlocked; what is signed is on record |
| Guest debugger (`debugger.c`) | child, breakpoint table, addresses reached, one-time key | run, step, continue, break, delete, set, jump, restart, complete | patched bytes, stops told from hits by an address, bounded tables, keys of earlier sessions | no stray traps, no lost breakpoints; only this child's stops solve the lab |
| Deployment lock (`remote-deploy-lock.sh`) | a directory with `owner` and `heartbeat` | acquire with stale recovery, refresh, release | sequences of file-system commands interleaved on the host | a live lease is not taken away; a dead one can be reclaimed |
| Deployment (`deploy-release.sh`) | stage of the script, heartbeat loop, remembered release, link `current` | wait, upload, publish, health test, roll back, clean up | lost runners, signals, orphaned ssh commands | the link moves under the lease; rollback goes to the right release |
| Telemetry client (`telemetry/client.ts`) | queue, session, sequence number, timer | track, flush, drain, bootstrap | lost and late answers, session expiry, budgets | no event counted twice; no event stuck; loss bounded |
| Telemetry edge functions | none | validate, sign, forward | timeout after the backend has acted | status passed on faithfully |
| Telemetry backend (`backend/server.js`) | sessions, aggregates, completions, event log, limiter windows, logins | batch, session, stats, expiry, admin login, purge | replays, duplicated completions, budgets, sweep against use, restarts | each event counted at most once; the figures agree; logins limited, and lasting |
| Backend deployment (`backend/deploy.sh`, `set-admin-password.sh`) | releases, links, unit, environment file, service | install, roll back, rotate the password | any command may fail, be interrupted or killed; the two scripts overlap | a failure is undone, but for two links; what is linked is complete; secrets stay known |
| Everything else (migration, signing, preferences, manifests, payload tools, views, terminal, logs, crypto lab, snapshots, build scripts, assets) | settings or none | - | sequential, pure or presentational | unit tests; see section 6 |

How they interact: a workspace hands the virtual machine to itself, boots it and
subscribes to its output. The parser splits the machine's serial output into display text
and messages; messages are verified and then change the progress store (complete,
navigate, hint) and are counted by telemetry. In the guest, `hashteamctl` moves the learner,
`htcheck` grades and signs, and the debugger asks it to grade the labs it runs. The
progress store is shared with other tabs through `localStorage`; the mission panels write to it,
the anomaly centre watches it, the virtual machine reads it to restore the guest and to
decide what may be entered. The two deployments are independent of all this.

## 2. Modules

```
ProgressStore <- LearningPath <- MCPage               (ProgressStore has an instance of SharedProgress,
                                                       MCPage one of VmSession)
              <- MCProgressStore
LearningPath, DataLemmas <- ProgressStoreProofs
VmSession, SafeStorage, CompanionSync <- MCVmSession
VmSession <- VmSessionProofs
SafeStorage, CompanionSync <- StorageProofs
HtCheck <- Debugger
VmNavigation <- MCVmNavigation
VmNavigation, Debugger, SerialParser <- MCGuest
VmNavigation, Debugger, SerialParser, DataLemmas <- GuestProofs
RemoteLock <- DeployRelease <- MCDeployRelease, DeployReleaseProofs
TelemetryBackend <- Telemetry <- MCTelemetry          (Telemetry has an instance of AtMostOnce)
Telemetry, DataLemmas <- TelemetryProofs
AdminAccess, EventCharts, BackendDeploy <- MCBackend
AdminAccess, EventCharts, BackendDeploy, DataLemmas <- BackendProofs
```

`MC*` modules give constants their values and compose modules. Where
components share a run but no state that either would test, a variable `scene` (or
`part`) is chosen at first, only that scene's part moves, and the others rest in an initial
state. A definition whose comment starts with "Variant:" is a wrong version of the
one that follows it; no next-state relation uses it, and the runs are repeated with it in
place of the right one to see that the properties depend on the code
(`PROJECT.json`, `mutants`). No module uses RECURSIVE operators.

### ProgressStore and SharedProgress

State: `disk` (the item), `mem[t]` (the copy of each open tab), `unseen` (tabs with
a storage event under way), `corrupted` (history: an invalid snapshot was
written). An operation is one action, because the code is synchronous between
reading the item and writing it: `syncBeforeMutation`, the change, the merge in
`persistProgress`, the write and the events for the other tabs are one step. Guards come from the
callers in `useLabProgress.ts` and `useVirtualMachine.ts`, because only states the
page can be in are of interest. A numeric level and the lab id that mirrors it are written
together by the code and are one unit here. `chapterProgress`, which only regroups the
completed labs, and the older keys are left out. Wall clocks may repeat and go back (`Clock` is a set).

The protection is double: an operation first adopts a newer stored snapshot as a whole
(which is right because of `StaleOrCurrent`), and the write merges once more. What this achieves is `SharedProgress`: one
record that knows no tabs, with what is recorded of each unit and the operations on it (first result, hint, guide entry,
step, help, new attempt, start over), each applied to what the record holds at that moment. `SharedRecord` is its specification
under the mapping `View`, which forgets copies, events, times and the selection; an item that does not exist records
nothing. The abstract record may change in any way once an invalid snapshot was stored, which `store_unreadable` shows to happen. A
step of the abstract record may also be left out: an operation of the page that finds the unit done or the hints used up records nothing.

### LearningPath

Extends `ProgressStore` with what the components of a tab keep (`page[t]`: workspace, mode,
local evidence, visible step, detected and dismissed anomalies) and the stored
learning mode. A handler runs to its end and Vue's watchers run before the next one, so every
action ends with them (`Watched`); a handler that writes twice is two
actions with the rest of it in `todo`, because another tab may write between. So is the mark of help that a watch
writes for a guided unit (`MarkGuided`); when handler and watch both mark, the two marks are one. `overtaken` is
history: a guide was advanced on a screen that was older than the store.

### SafeStorage and CompanionSync

`SafeStorage` is the wrapper around the browser's store: `primary` is shared, each instance
has a copy in memory and uses nothing else from the first time the browser refuses an operation,
which may be any. `CompanionSync` is the windows of one lab. A change is told on a broadcast
channel (`channel`) and as a storage event (`events`); a window tells the second copy by a
bounded list of ids (`seen`) and saves its whole session whenever it acts. A change is one step: the
handlers are synchronous. `crossed` is history: a window was changed, opened or closed
while a message was under way.

### VmSession

Each asynchronous function is an action up to its first `await`; what remains is a record
in `waiting` (it awaits a release) or an element of `starting` (it awaits `start()`), and an
action of its own that repeats the code's tests. `releases` is the chain of promises
`releaseBarrier`. A machine is named by the generation that created it and goes
through `loading`, `initialising`, `running`, `gone`; `doomed` is the machine whose
emulator was not ready within the limit and is destroyed when it becomes ready. `chain[g]`
is the message queue of a session; its head may be suspended in a key import or signature check.
`visit[o]` is one visit of a workspace with its own owner symbol; the setup of the next
visit may come before or after the unmounting of the last.

### VmNavigation

One session of one machine. `input` is what the page has typed and the guest has not
read, `output` the signed messages the page has not handled. The shell reads a line
and acts; a program in the foreground reads it instead, and a plain one leaves on
^C/quit. Levels and labs have the same life here. `told` and `strayed` are history:
a notice was shown since page and guest last agreed, and moves the other side
is not told of by design or limitation. What the terminal's line discipline may discard on
^C is not modelled; it could only lose more lines, which the model loses to programs already.

### HtCheck, Debugger and SerialParser

`HtCheck` is the guest's shell as far as it touches the places and the record: one write per
action, so that ^C or the end of the machine (`Interrupt`, `Restarted`) may come between any
two. `Debugger` extends it, because a completed debugger session grades the lab through
`htcheck` with a one-time key. Of the child only the instruction pointer and, for each byte
of its code, whether it is as linked are kept; a step of the child is the processor's:
an intact instruction goes to one of its successors, a planted byte traps behind itself,
anything else may do anything (external definitions). `stops`, `due` and `left` are history.

`SerialParser` reads text character by character (`Reading`, a recursive function), where a character is a
piece the parser can tell from others: text, a newline, the two halves of the marker, the JSON of a telemetry
command or of another message. `Feed(n)` receives the next `n` of them, whatever `n`.

### RemoteLock and DeployRelease

`RemoteLock` runs the helper one file-system command per action; `run[d]` is the
program counter of an acquire or release, `refresh[d]` that of a refresh, and both of one
deployment may be active at once. Times are ages capped at `Stale`. The candidate
directory is private until its rename and is not a variable. `DeployRelease` is
the script on the runner: `stage[d]`, the heartbeat loop (alive while the
stage is in `Holding` and no failure file exists), the scripts it runs on the host
(`script[d]`), the remembered release and the link. A lost runner or a signal
stops the script, not what it has started on the host.

### TelemetryBackend, Telemetry and AtMostOnce

`TelemetryBackend` has the tables; a handler and its transaction are one action.
`Telemetry` is the client with `phase` for what `drain` awaits, and `requests` for what is on
the network: a request may fail, be delivered late or repeatedly, and outlive the client's timeout.
The edge functions are stateless and part of the way. Events have identities, so that it can be said
how often one was counted. `AtMostOnce` is what anonymous counting promises, in a short specification;
`CountsAtMostOnce` is its specification under the mapping of `Telemetry`.

### AdminAccess, EventCharts and BackendDeploy

`AdminAccess` has the two login limiters (in memory, lost on restart), the logins (in the
database) and the clean-up; the handler awaits the request's body after the limiters. `EventCharts` is the
event log with its purge and the daily chart; times are parts of a day. `BackendDeploy` is
`deploy.sh` and `set-admin-password.sh`, one command that touches links, files, unit or service per
action. The server starts without an installation, with a release, or with an installation from before there were
releases (`Unversioned`: `server.js` in the directory above, `deploy.sh:179-182`), which the first
deployment migrates. What the older unit starts is not in the repository; it is taken to be that `server.js` (`Launches`). `enabled` is
the link that starts the unit at boot. Every command may fail, a signal may come at any of them (bash then runs the EXIT trap with
whatever status it has at hand), and so may a kill without a trap.

## 3. Runs

| Run | Instance | Shows |
|---|---|---|
| `page` | five scenes: two tabs on two levels; two tabs on a level and a lab with every operation; two tabs learning a level by the guide; a tab that finds guides ahead of their evidence; two overlapping visits of the machine | the tabs implement `SharedProgress`: nothing stored is lost or revived; every write reaches every open tab, no guide runs ahead of its evidence, a popup is about the unit it would reset, each visit gets a ready machine or an error |
| `vm_sessions` | three scenes: two visits with a restart or retry; two windows of a companion; two users of a failing store | one machine at a time, a true stage, results credited to their own session, an owner for every machine; messages acted on once and in order, windows that agree; nothing known is lost |
| `guest` | four scenes: navigation over three labs; grading with commands cut off; the debugger over a looping program; two pieces of output in any chunks | page and guest never part in silence; graded places are unlocked, signed ones recorded; traps and table agree, stops are reported where they are due, only this child's stops and this session's key count; chunks are invisible |
| `telemetry` | four events, two sessions, requests that fail, repeat, overtake or time out | the exchange implements `AtMostOnce`; the service stays behind the client, its two figures agree; every drain ends |
| `backend` | three parts: two addresses at the login, a restart; the charts over purges; deployments and rotations that fail, are cut off and overlap | limits hold and logins last; charts count every row; a failed deployment is undone but for two links, links name complete releases, the service runs the current one, secrets stay known |
| `deploy_lease` | two scenes: a pair over every kind of lock left behind, either may be lost or sent a signal; a crowd of three over an expired lease | no live lease reclaimed, no failed release stays current, the link moves under the lease, the remembered release stays right |
| `deploy_recovery` | a deployment after a lost or interrupted one | it gets the lease before its own wait ends |

Runs that end in a violation show a disagreement between the code and what the
repository says of it:

| Run | What happens | What is said |
|---|---|---|
| `store_unreadable` | a tab validates a level against its own copy, then adopts another tab's reset, then completes that level: the stored item fails `isValidProgress` and the next load starts from nothing | `useLabProgress.ts:41`, completed levels survive a refresh |
| `deploy_leftover` | the trap kills the heartbeat's shell, not its ssh; the refresh writes into the directory being removed, which then stays without an owner and is never reclaimed | `deploy-release.sh:226`, `deployment.md:212` |
| `vm_retry` | the loading screen's retry calls `boot` without the workspace's owner and does nothing | `virtual-machine.test.ts:282`, `vm-controller.ts:92` |
| `nav_refusal` | completions are replayed before the foreground program is told to leave; it reads them, and the goto is refused | `useVirtualMachine.ts:797-799` |
| `debugger_step` | after a step of a one-byte instruction under a breakpoint, the address behind the stop is that breakpoint: it is read as another hit, the child is set back and executes the instruction again | `README.md:71-73`, the debugger supports single steps |

### Bounds, and why they are enough

- Store: two tabs are enough for one stale and one current copy. Two levels give a
  prefix that can be broken, one level and one lab give two units that could be
  mixed up. `MaxUpdates = 4` stops writes once a timestamp reaches it: four writes are
  a write by each tab on either side of a reset. The scenes with more operations stop one write
  earlier (`AWriteLess`), which leaves a stale write after another tab's, and let the clock run by at most two from
  write to write (`Soon`). The `repair` scene has one tab, because what the others may do to a guide is
  in `learn`; it starts from progress whose guides are ahead.
- Sessions: two visits are one handover, with both orders of setup and unmounting.
  `MaxRestarts = 1` counts restarts and retries (none in `page`, whose liveness would not fit
  otherwise), `MaxMessages = 2` what waits in one session's chain.
- Companion and storage: two windows, five messages and a list of three ids force the list to forget;
  two instances, two names and three writes let an instance know more than the other on one of them.
  `NoneIsOld` bounds the environment: a copy is delivered before `SeenCapacity` further messages are sent. A window that is suspended
  for longer than that could take an old copy for a new message; this is not examined. The theorems about messages have the same bound.
- Navigation: `MaxUserSteps = 3` counts what the learner or another tab does, `MaxInput = 4` limits the lines
  that may be unread when the page types more: a change of progress, a program and a
  click in any order; three labs allow a skipped one.
- Grading and debugger: one lab behind a level, one behind a lab, one with a debugger; a
  one-byte instruction before a two-byte checkpoint in a loop; two breakpoints and two reached addresses, so that both tables
  fill up.
- Parser: up to two pieces of output out of seven, every cut into chunks, and a buffer of one whole control line.
- Telemetry: two completions, one plain and one unlisted event; queue, batch and budgets of two make every limit bite.
- Backend: limits of one and a horizon of three ticks over windows of two put two windows into one stretch; two days
  and three rows put rows on both sides of each edge. Between two complete deployments at most one is cut off, and only the
  installed release's id is used again (`ServerStep`); a migration is one of the three starts; three secrets are minted. The theorems about it need none of this.
- Lock: `Stale = 2` gives a fresh, an ageing and an expired lease. Three deployments
  are a holder, a reclaimer and one that was overtaken.

`CHECK_DEADLOCK FALSE` is used where the system ends: deployments are over, visits have
been left, or the bounded steps are used up.

### Fairness

- `ProgressStore`: weak fairness of delivering a storage event to an open tab: the
  browser runs the event loop of a tab that stays open. No operation of the user is fair.
- `VmSession` (in `page`): weak fairness of `PageStep`, what the page's event loop does by itself:
  settled promises go on, timers fire. The emulator, the guest, the network and
  the user owe nothing; the start timeout and the ready timer do the rest.
- `Telemetry`: weak fairness of `ClientStep`, the same for the client: its timer fires, an answer or the
  timeout of a request resumes it. The network owes nothing.
- `DeployRelease`: weak fairness of commands on the host and of scripts whose runner is
  alive; strong fairness of `Tick`, because the script sleeps between attempts and so
  always lets time pass. A tick is assumed longer than any helper run and no longer than
  an upload, and a heartbeat loop that is alive refreshes before its lease expires (the
  script demands three heartbeats in a stale time). Without this punctuality nothing fences a
  sleeping script. `Wait >= Stale` is the script's own test; the
  recovery run uses `Wait = Stale + 1`, since a wait of exactly the stale time can end a hair
  before the lease does.

### Limits that the models made visible

Progress and guided learning
- While a stored item is unreadable (`store_unreadable`), `persistProgress` writes its own copy
  unmerged (`progress-store.ts:545`); a third tab that has not seen a reset can then bring the
  old generation back, against `lab-progress.test.ts:335`. `StoredProgressOnlyGrows`
  therefore speaks of writes over readable progress, `StaleOrCurrent` of histories without a
  corrupted write.
- Two tabs that show the same step each reveal the next one; the second adds to a guide its learner
  did not see, which is then ahead of its evidence (`overtaken` excuses it).
- A popup stays when another tab has repaired the progress, and a dismissed anomaly stays silent for the life
  of the page (`anomaly-center.ts:47`).
- Path and hints of a lab are computed from the copy before synchronisation (`useVirtualMachine.ts:442`).

Companion and storage
- Changes in two windows that cross leave the windows with each other's item; `updatedAt` is written and never compared, and even
  "companion-ready" makes a window save its whole, possibly stale session (`crossed` excuses it).
- After a failure an instance of the store answers from memory, an item another tab removed included, and the instances of one
  page degrade one by one.

Machine and navigation
- A failed asset promise is kept (`vm-controller.ts:91`). The stage shown by a workspace that opened on its
  summary page may be that of the machine released before; it is not displayed there.
- A change of lab that is answered after its timeout still moves the page, after the
  notice that it keeps its level (`useVirtualMachine.ts:227-241`); `told` is any notice, so `NeverSilentlyApart` allows it.
- `NeverSilentlyApart` excepts what `strayed` records: the learner's own `goto` to a lab
  the page counts as locked; a level clamped by another tab's reset (the code shows a notice
  only at the next result, `useVirtualMachine.ts:408-411`); and a confirmation taken from
  an older message of the same lab, since `confirmNavigation` (`:220-223`) compares the
  target only, so a command lost after that is not noticed.
- A control line behind unfinished output is shown raw when a chunk ends inside its marker
  (`protocol-parser.ts:63-69`): `ChunksAreInvisible` supposes that control lines start a line and fit into the buffer.

Deployments
- The owner is tested once, at the start of the publish script (`deploy-release.sh:388`). A signal
  meanwhile makes the runner give the lease back while the script on the host goes on and moves the link at
  `:431`: such a script is `Orphaned`, and `LinkMovesUnderLease` is about the others. What it does late may be
  remembered by, or come between the publication and the rollback of, the next deployment; `NoDeploymentInBetween` names both cases.
- `FailedReleaseIsWithdrawn`, `LinkMovesUnderLease` and `NoDeploymentInBetween` except
  deployments whose heartbeat has failed: their late rollback may find the lease taken over.
- A deployment that loses the race for an expired lock exits with status 1 and is not retried (`remote-deploy-lock.sh:131`).
- On a signal bash runs the EXIT trap with the status of the last command, which may be 0: `deploy.sh` then does not roll back
  (`trouble` records it). A release id may be given twice, and the second deployment replaces the first one's directory
  (`deploy.sh:185-188`). A rotation of the password takes no deployment lock.

- A failed deployment leaves up to two links behind, which `FailureIsUndone` excepts and the run reaches. In the migration of an unversioned
  installation `PREVIOUS_TARGET` is the directory above (`deploy.sh:179-182`), so that `cleanup` (`:96-98`) makes `current` name it where no link was; the
  comment at `:180` says so, `docs/telemetry.md:372` says that the original `current` is kept or restored. And `systemctl enable` (`:290`)
  makes a link for the boot that `cleanup` (`:84-137`) does not remove, though it removes the unit of a failed first installation.
- The test and the unlink of a file of the lock are one step (`remote-deploy-lock.sh:88-91`). Where the lock, or a refresh's
  `heartbeat.next`, is renamed between the two, `unlink` fails and the release ends there: it removes less than in the model, and leaves a lock with its owner, which expires.

Telemetry and backend
- A failed batch is lost, and leaves the rest of the queue to the next event. The PwnHub workspace never flushes on
  unload. The backend's list of events has `debugger`, which the client lacks.
- The comment at the limiter speaks of a sliding window; its windows are fixed, so that two of them admit twice the maximum within
  one window's length, which is what `LoginsAreLimited` states.

## 4. Proofs

All theorems hold for any values of the constants that satisfy the assumptions named in
the modules (`ConstantsAssumption`, `PathAssumption`, `SessionAssumption`, ...). The assumptions give types, say that a
default is no value of a type (`None \notin Units`), that sets the code enumerates are finite, and repeat what the
code tests itself (`Wait >= Stale`) or ships (`Days <= Retention`: 30 daily bars of 90 days kept). TLC evaluates them in the runs.
Every safety property of a passing run is a theorem.

| Module | Theorem | Property |
|---|---|---|
| `BackendProofs` | `AdminIsTyped` | - (The limiters' counters and the table of logins have their types, for any addresses and limits) |
| `BackendProofs` | `LoginsLastTheirTime` | `LoginLasts` |
| `BackendProofs` | `LoginsStayLimited` | `LoginsAreLimited` |
| `BackendProofs` | `ChartsCountEverything` | `ChartsAreComplete` |
| `BackendProofs` | `ServerIsTyped` | - (Files, links, the scripts' variables and the ghosts have their types, for any releases and any number of secrets and passwords) |
| `BackendProofs` | `LinksNameCompleteReleases` | `LinkedIsComplete` |
| `BackendProofs` | `FailedDeploymentsAreUndone` | `FailureIsUndone` |
| `BackendProofs` | `ServiceRunsCurrent` | `ServesCurrent` |
| `BackendProofs` | `SecretsStayKnown` | `SecretsAreKnown` |
| `DeployReleaseProofs` | `DeploymentIsTyped` | - (The lock directory, the quarantined locks, every run of the helper and every deployment's state have their types, for any number of deployments) |
| `DeployReleaseProofs` | `LinkMovesUnderTheLease` | `LinkMovesUnderLease` |
| `DeployReleaseProofs` | `LiveLeasesAreKept` | `LiveLeaseIsNotReclaimed` |
| `DeployReleaseProofs` | `NoDeploymentComesInBetween` | `NoDeploymentInBetween` |
| `DeployReleaseProofs` | `FailedReleasesAreWithdrawn` | `FailedReleaseIsWithdrawn` |
| `GuestProofs` | `NavigationIsTyped` | - (Page, guest, terminal and messages have their types, for any labs and any bounds on what is under way) |
| `GuestProofs` | `PageAndGuestAreNotSilentlyApart` | `NeverSilentlyApart` |
| `GuestProofs` | `GuestIsTyped` | - (The shell's files, the record, the debugger's tables and the child's code have their types, for any levels, labs and program; a command that moves or checks has read a real place) |
| `GuestProofs` | `StudentStandsUnlocked` | `CurrentIsUnlocked` |
| `GuestProofs` | `SignsOnlyRecorded` | `SignedIsRecorded` |
| `GuestProofs` | `CompletionsUseOwnKey` | `KeyIsOfThisSession` |
| `GuestProofs` | `TrapsAndTableAgree` | `TrapsAreBreakpoints` |
| `GuestProofs` | `StopsAreReportedWhereDue` | `StopsWhereDue` |
| `GuestProofs` | `OnlyStopsAreReached` | `OnlyReachedCounts` |
| `GuestProofs` | `TablesStayInBounds` | - (The debugger's breakpoint table and list of reached addresses are never written past their fixed sizes) |
| `GuestProofs` | `ChunksStayInvisible` | `ChunksAreInvisible` |
| `ProgressStoreProofs` | `TypeCorrect` | `TypeOK` |
| `ProgressStoreProofs` | `RecordsMatchCompletion` | `CompletionHasRecord` |
| `ProgressStoreProofs` | `ProgressOnlyGrows` | `StoredProgressOnlyGrows` |
| `ProgressStoreProofs` | `TabsAreStaleOrCurrent` | `StaleOrCurrent` |
| `ProgressStoreProofs` | `TabsShareOneRecord` | `SharedRecord` |
| `ProgressStoreProofs` | `PagesUseTheStore` | - (Guided learning implements the store: each handler of a page is one operation of its tab or none, so that the theorems about the store hold of the pages) |
| `ProgressStoreProofs` | `PagesShareOneRecord` | `SharedRecord` |
| `ProgressStoreProofs` | `PopupsAreForThisUnit` | `PopupIsForThisUnit` |
| `ProgressStoreProofs` | `GuidesStayBehindEvidence` | `GuideBehindEvidence` |
| `StorageProofs` | `NothingKnownIsLost` | `KeepsWhatItKnew` |
| `StorageProofs` | `EachMessageOnceInOrder` | `OnceAndInOrder` |
| `StorageProofs` | `WindowsComeToAgree` | `WindowsAgree` |
| `TelemetryProofs` | `ExchangeIsTyped` | - (Queue, batches, sessions, requests and the service's tables have their types, for any events, batches and sessions: nothing is sent without a session) |
| `TelemetryProofs` | `EventsCountAtMostOnce` | `CountsAtMostOnce` |
| `TelemetryProofs` | `ServiceStaysBehind` | `ServiceFollowsClient` |
| `TelemetryProofs` | `FiguresAgree` | `CompletionsAgree` |
| `VmSessionProofs` | `SessionIsTyped` | - (Owner, machines, functions under way and their messages have their types, for any number of visits, restarts and messages) |
| `VmSessionProofs` | `OneMachineAtATime` | `OneMachine` |
| `VmSessionProofs` | `OnlyItsOwnResultsCount` | `CreditedBySession` |
| `VmSessionProofs` | `LeftWorkspacesHaveNoMachine` | `MachineHasOwner` |
| `VmSessionProofs` | `TheStageIsTrue` | `StageIsTrue` |

### How the proofs go

**ProgressStore.** `IInv` is `TypeOK` with `CompletionHasRecord`; it is inductive because merging and adopting
snapshots keep both, which is stated as lemmas about `ClampSelection`, `ApplySynced`, `Merge`, `Synced` and `ToStore`, so that
each action only cites them. `ProgressOnlyGrows` follows: every write goes through `ToStore`, and `ToStore` over readable
progress keeps completed units and their first record or starts a later generation. `StaleOrCurrent` needs the stronger
`JInv`: without a corrupted write a stored item is valid (so nobody treats it as absent), and nobody is open while nothing is
stored; a store then sets `updatedAt` above both copies, which makes all other tabs recognisably stale. From there
`TabsShareOneRecord`, the refinement: the copy an operation edits holds the stored data, so merging its edit into the item is
the operation on the item. One lemma per operation (`HintIsUnitEdit`, `ResetIsUnitEdit`, ...) shows what the edit becomes
when merged, `ToStoreIsOneUnit` that nothing else changes. `PagesUseTheStore` maps each handler of `LearningPath` to one operation,
so that `Spec`'s theorems hold of the pages, too.

**LearningPath.** A popup is about a unit of its page because the watchers look again whenever the selection
changes (`PathInv`). `GuideInv` says that every guide is backed by evidence as long as no stale screen revealed a step:
every edit but `advanceGuideStep` only adds evidence or starts a unit over, a merge takes the maximum of guides and the union of evidence,
and a step is revealed when its evidence is in a copy that agrees with the store.

**Storage and companion.** `StorageInv` says of each place what it holds: the copy is what the instance knows, and the
browser's store has nothing older as long as the instance uses it. `WindowsInv` follows a message on its two paths: an id is
forgotten only when no copy of it is queued, by the pigeonhole principle, for behind a queued message only newer ones are
remembered, and fewer than `SeenCapacity` were sent since. `AgreementInv` names a session that all windows
come to be at when they act on what is pending.

**VmSession.** `MachineInv` counts what can still create a machine: a function that goes on with the current generation finds the
barrier empty, all others find another generation. `KeyInv` ties keys and queued messages to the session they came from, `TaskInv`
says for whom a suspended function works, `StageInv` what may be shown while it is suspended.

**Guest.** `NavInv` has three parts: before the first prompt nothing can diverge; while nothing was swallowed, page and guest
follow each other through what is typed and answered; and the last message decides. `ShellInv` is about the places between two writes of one
command; `TrapInv` about the byte that is taken out for one step. For the parser, `SerialInv` relates what has come out after some
chunks to one reading of the same text: the two differ only by the beginning of the open line, which is passed on as soon as
it cannot become a control line any more and so cannot later hide or turn into one. The recursive function of `Reading` is shown to exist and to be unique first.

**DeployRelease.** A lock can be moved away by a run that read an older one, so what protects a deployment is that time
has passed since it got its lock: at a tick nothing is under way on the host, and from then on whoever reads the lock finds it alive.
`LeaseInv` therefore speaks of locks younger and older than the last tick, of the deployments that are `Alive`: their heartbeat
is, or their script on the host was started under it and has not been orphaned since. `ReleaseInv` adds the remembered release, and follows
the two ways in which it can be overtaken. Runners, heartbeats and signals are as unreliable as they may be in the model.

**Telemetry.** `OnceInv` follows an event on its way: while it waits it is in no request and not counted; once sent, all
requests that carry it have one session and one number; once counted, that session has seen that number. The refinement is `Init` and one
step of `AtMostOnce` for each action, from this invariant. `FollowInv` adds that a session not yet used is fresh. `FiguresAgree` sums
`counted` over a finite set with lemmas of `DataLemmas`.

**Backend.** For the logins, a limiter is followed by what it let in: one open window and one before it; a stretch that reaches the present lies in
two such parts, and the holdings of the common limiter are summed per address (`LimitersInv`). For the charts, a purged row is older than every bar and groups share no row
(`ChartInv`). For the installation, `LinkInv`, `TraceInv`, `ServeInv`, `SecretInv` and `PasswordInv` say for each
command of the two scripts what has been done and what `undo` would restore.

**DataLemmas.** Induction over data is done by least counterexamples: a set of numbers has a least element, a set of subsets of a
finite set has a minimal one. With them sums over finite sets, and the recursive functions of the community modules' folds, are unfolded.

### What is only model-checked

The four liveness properties `WritesReachEveryTab`, `VisitIsServed`, `NextDeploymentGetsLease` and `QueueIsDrained`: fairness and
ENABLED are beyond the prover. The five runs that end in a violation are counterexamples and need no proof. The theorems are about the
component's own specification (`Spec`, `AdminSpec`, `ShellSpec`, ...); that the scenes of an `MC*` module are such behaviours, cut down by bounds, is seen from
its definition.

## 5. Not modelled

Parts of modelled components: migration of the v1-v5 records and the write-only v4 mirror (a one-time conversion at page load);
parsing of companion definitions and the commands built from observations; how an answer is compared; diagnostics that are only logged; HTTP parsing, static files and the
database's column migrations. Cryptography is abstracted to "signed with this session's key or not". Clocks of the
deployment host are not set back. Errors of `emulator.destroy()` are logged and dropped by the code and not told apart here.

Components left out:

| Component | Why |
|---|---|
| Message signing | Cryptography of the browser: a signature is by the session's key or not (VmSession). |
| Progress migration | One-time conversion of the v1-v5 records at page load; planned as an operator checked over bounded records. |
| Preferences | Independent settings, last writer wins, no protocol between tabs. |
| Labs and levels | Course content and its shell scripts, all of src/vm/labs, src/vm/rootfs-overlay and src/vm/binary-profile; no shared state beyond the guest's files that VmNavigation models. |
| Course and challenge manifests | Parsing of static data at build time. |
| Payload workbench | Pure conversions of what the student types, covered by unit tests; candidates for operators checked against a reference. |
| Workspaces and views | Presentation, with all of src/src/components. The calls into the virtual machine, with their order, are actions of VmSession and VmNavigation. |
| Terminal | Rendering, key bindings and measurements. |
| Logs and reports | Diagnostics; nothing reads them back. |
| Crypto lab | A vendored stand-alone application, all of src/crypto-lab; the main page only reads its progress item. |
| Artifact snapshots | Operator-run and sequential; a copy of a release for comparison that nothing else reads. |
| Build and verification scripts | Sequential build steps, the rest of src/scripts too, whose effects are files; the deployment's scripts are modelled apart. |
| Assets, talks and dashboard | Static files (all of src/public, src/talk and src/backend/public), vendored libraries and a read-only page. |

## 6. Plan

1. Migration of older records as an operator, with what it must keep of a valid record.
2. The conversions of the payload workbench and the build's verification scripts as operators against reference definitions, so far as they
   decide anything.
3. An abstract lease (at most one live holder) implemented by `RemoteLock`, and an abstract machine (owned, booting, ready, failed) implemented by
   `VmSession`, as refinements.
