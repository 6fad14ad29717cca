----------------------------- MODULE BackendDeploy -----------------------------
(* How the telemetry backend gets onto its server: deploy.sh installs a        *)
(* release, its unit and the environment file and undoes all of it when a      *)
(* command fails; set-admin-password.sh replaces the password's hash in the    *)
(* environment file and puts the old file back when the service does not come  *)
(* up with it.  Deployments exclude one another by a lock that dies with its   *)
(* holder; a rotation takes no lock.  Both may be sent a signal, for which     *)
(* bash runs the EXIT trap with whatever status it has at hand, or be killed   *)
(* without one.  Directories are complete or absent, files are known by the    *)
(* release or the number of the secret or password they were made with.  An    *)
(* older installation has no releases, only server.js in the directory above:  *)
(* its unit starts that, every later unit what "current" names.                *)
EXTENDS Integers

CONSTANTS
    Releases,       \* release ids
    Installed,      \* the one that is there at first, if any is
    Unversioned,    \* the directory above, where older installations are
    Missing,        \* no such file, link or process
    Keep,           \* nothing to restore
    MaxMinted       \* bound: secrets and passwords ever generated

Installations == Releases \cup {Unversioned}   \* what a link may name and a unit start
Env == [secret : Nat, hash : Nat \cup {Missing}]   \* what the environment file holds

ASSUME ServerAssumption ==
    /\ Installed \in Releases /\ MaxMinted \in Nat
    /\ Missing # Keep /\ Missing \notin Nat /\ Unversioned \notin Releases
    /\ {Missing, Keep} \cap Installations = {} /\ Missing \notin Env /\ Keep \notin Env

VARIABLES
    releases,       \* complete directories under releases/, or an older installation
    currentLink, previousLink,
    unit,           \* the release the unit file came with
    loaded,         \* the one systemd has loaded
    enabled,        \* systemd's link that starts the unit at boot
    env,            \* the environment file: [secret, hash], or Missing
    serving,        \* the release the service runs
    deployStep,     \* the next command of deploy.sh
    newRelease, previousTarget,
    adminPassword,  \* the hash of the password it has generated
    undo,           \* what cleanup restores: [current, unit, env -> old value or Keep]
    status,         \* cleanup's: the deployment has failed
    rotateStep,     \* the next command of set-admin-password.sh
    rotateBackup,   \* the environment file it has read
    rotateHash,     \* the hash it has made
    minted,         \* secrets and passwords generated so far
    shownHashes,    \* ghost: hashes of passwords an operator has been shown
    agreedSecret,   \* ghost: the secret of the first completed deployment
    before,         \* ghost: what the deployment under way found
    reused,         \* ghost: releases whose id was given to a later deployment
    trouble         \* ghost: what a signal, a kill or an overlap may have spoilt

filesOnDisk == <<releases, currentLink, previousLink, unit, enabled, env>>
targets == <<newRelease, previousTarget, adminPassword>>
deployment == <<deployStep, targets, undo, status, before>>
rotation == <<rotateStep, rotateBackup, rotateHash>>
known == <<minted, shownHashes, agreedSecret>>
serverVars == <<filesOnDisk, loaded, serving, deployment, rotation, known, reused, trouble>>

\* The commands before and after the environment file is written.
Early == {"build", "env"}
Late == {"unit", "reload", "enable", "move", "link", "restart", "health", "previous",
         "commit"}

Everything == {"deployment", "service", "password", "overlap"}
NothingToUndo == [current |-> Keep, unit |-> Keep, env |-> Keep]
OnDisk == [releases |-> releases, current |-> currentLink, previous |-> previousLink,
           unit |-> unit, enabled |-> enabled, env |-> env]

\* What the service runs when it starts; what a failed deployment goes back to.
Launches(file, link) == IF file = Unversioned THEN Unversioned ELSE link
Launched == Launches(loaded, currentLink)
OldTarget == IF currentLink = Missing /\ Unversioned \in releases THEN Unversioned
             ELSE currentLink

\* A first installation, a release, or an installation from before there were
\* any; the latter two without a password perhaps, or disabled.
ServerInit ==
    /\ \/ /\ serving = Missing /\ releases = {} /\ env = Missing
          /\ minted = 0 /\ shownHashes = {}
       \/ /\ serving \in {Installed, Unversioned} /\ releases = {serving}
          /\ env \in [secret : {1}, hash : {Missing, 2}]
          /\ minted = 2 /\ shownHashes = {2}
    /\ currentLink = (IF serving = Unversioned THEN Missing ELSE serving)
    /\ previousLink = Missing /\ unit = serving /\ loaded = serving
    /\ enabled \in BOOLEAN /\ (enabled => serving # Missing)
    /\ deployStep = "off" /\ newRelease = Missing /\ previousTarget = Missing
    /\ adminPassword = Missing
    /\ undo = NothingToUndo /\ status = 0
    /\ rotateStep = "off" /\ rotateBackup = Missing /\ rotateHash = Missing
    /\ agreedSecret = IF env = Missing THEN Missing ELSE env.secret
    /\ before = Missing /\ reused = {} /\ trouble = {}

-----------------------------------------------------------------------------
(* deploy.sh.  The lock is taken and the id tested: one that is there already  *)
(* ends the deployment with newRelease set.                                    *)
BeginDeploy(r) ==
    /\ deployStep = "off"
    /\ newRelease' = r /\ previousTarget' = OldTarget /\ adminPassword' = Missing
    /\ before' = OnDisk /\ undo' = NothingToUndo
    /\ trouble' = IF rotateStep = "off" THEN trouble \ {"deployment"} ELSE Everything
    /\ IF r \in releases
       THEN deployStep' = "restore" /\ status' = 1 /\ reused' = reused \cup {r}
       ELSE deployStep' = "build" /\ status' = 0 /\ UNCHANGED reused
    /\ UNCHANGED <<filesOnDisk, loaded, serving, rotation, known>>

\* A script that has ended is forgotten.
DeployForgotten ==
    /\ deployStep' = "off" /\ status' = 0 /\ undo' = NothingToUndo /\ before' = Missing
    /\ newRelease' = Missing /\ previousTarget' = Missing /\ adminPassword' = Missing
RotationForgotten == rotateStep' = "off" /\ rotateBackup' = Missing /\ rotateHash' = Missing

Proceed(from, to) == deployStep = from /\ deployStep' = to /\ UNCHANGED status

(* Copy, install and check in the staging directory; nothing else is touched.  *)
Build ==
    /\ Proceed("build", "env")
    /\ UNCHANGED <<filesOnDisk, loaded, serving, targets, undo, before, rotation,
                   known, reused, trouble>>

(* The environment file is made, or given a password if it has none.           *)
WriteEnv ==
    /\ Proceed("env", "unit")
    /\ IF env = Missing
       THEN /\ minted + 2 <= MaxMinted /\ minted' = minted + 2
            /\ env' = [secret |-> minted + 1, hash |-> minted + 2]
       ELSE IF env.hash = Missing
       THEN /\ minted < MaxMinted /\ minted' = minted + 1
            /\ env' = [env EXCEPT !.hash = minted + 1]
       ELSE UNCHANGED <<env, minted>>
    /\ undo' = [undo EXCEPT !.env = IF env' = env THEN Keep ELSE env]
    /\ adminPassword' = IF env' = env THEN Missing ELSE env'.hash
    /\ UNCHANGED <<releases, currentLink, previousLink, unit, enabled, loaded,
                   serving, newRelease, previousTarget, before, rotation,
                   shownHashes, agreedSecret, reused, trouble>>

InstallUnit ==
    /\ Proceed("unit", "reload")
    /\ unit' = newRelease /\ undo' = [undo EXCEPT !.unit = unit]
    /\ UNCHANGED <<releases, currentLink, previousLink, env, enabled, loaded,
                   serving, targets, before, rotation, known, reused, trouble>>

Reload ==
    /\ Proceed("reload", "enable")
    /\ loaded' = unit
    /\ UNCHANGED <<filesOnDisk, serving, targets, undo, before, rotation, known,
                   reused, trouble>>

(* Nothing takes this back, not even cleanup.                                  *)
Enable ==
    /\ Proceed("enable", "move")
    /\ enabled' = TRUE
    /\ UNCHANGED <<releases, currentLink, previousLink, unit, env, loaded,
                   serving, targets, undo, before, rotation, known, reused,
                   trouble>>

MoveIn ==
    /\ Proceed("move", "link")
    /\ releases' = releases \cup {newRelease}
    /\ UNCHANGED <<currentLink, previousLink, unit, env, enabled, loaded, serving,
                   targets, undo, before, rotation, known, reused, trouble>>

Link ==
    /\ Proceed("link", "restart")
    /\ currentLink' = newRelease /\ undo' = [undo EXCEPT !.current = previousTarget]
    /\ UNCHANGED <<releases, previousLink, unit, env, enabled, loaded, serving,
                   targets, before, rotation, known, reused, trouble>>

(* The service starts with what is there now.                                  *)
RestartService ==
    /\ Proceed("restart", "health")
    /\ serving' = Launched
    /\ UNCHANGED <<filesOnDisk, loaded, targets, undo, before, rotation, known,
                   reused, trouble>>

IsActive ==
    /\ Proceed("health", "previous")
    /\ UNCHANGED <<filesOnDisk, loaded, serving, targets, undo, before, rotation,
                   known, reused, trouble>>

KeepPrevious ==
    /\ Proceed("previous", "commit")
    /\ previousLink' = IF previousTarget \in {Missing, newRelease} THEN previousLink
                       ELSE previousTarget
    /\ UNCHANGED <<releases, currentLink, unit, env, enabled, loaded, serving,
                   targets, undo, before, rotation, known, reused, trouble>>

(* The backups go and a password that was generated is shown.                  *)
Commit ==
    /\ deployStep = "commit" /\ DeployForgotten
    /\ shownHashes' = shownHashes \cup ({adminPassword} \ {Missing})
    /\ agreedSecret' = IF agreedSecret = Missing THEN env.secret ELSE agreedSecret
    /\ trouble' = trouble \ {"service"}
    /\ UNCHANGED <<filesOnDisk, loaded, serving, rotation, minted, reused>>

(* Any of the commands may fail.  A service that does not start, or not for    *)
(* long, is not running then.                                                  *)
DeployFails ==
    /\ deployStep \notin {"off", "commit", "restore", "remove"}
    /\ deployStep = "previous" => previousTarget # Missing
    /\ deployStep' = "restore" /\ status' = 1
    /\ serving' = IF deployStep \in {"restart", "health"} THEN Missing ELSE serving
    /\ UNCHANGED <<filesOnDisk, loaded, targets, undo, before, rotation, known,
                   reused, trouble>>

DeployInterrupted ==
    /\ deployStep \notin {"off", "restore", "remove"}
    /\ deployStep' = "restore" /\ status' \in {0, 1}
    /\ trouble' = trouble \cup (Everything \ {"overlap"})
    /\ UNCHANGED <<filesOnDisk, loaded, serving, targets, undo, before, rotation,
                   known, reused>>

DeployKilled ==
    /\ deployStep # "off"
    /\ DeployForgotten
    /\ trouble' = trouble \cup (Everything \ {"overlap"})
    /\ UNCHANGED <<filesOnDisk, loaded, serving, rotation, known, reused>>

Undone(old, now) == IF old = Keep THEN now ELSE old

\* Variant: an environment file that was there before is kept as it is now.
RestoreKeepsEnv ==
    /\ deployStep = "restore" /\ status # 0
    /\ currentLink' = Undone(undo.current, currentLink)
    /\ unit' = Undone(undo.unit, unit)
    /\ env' = IF undo.env = Missing THEN Missing ELSE env
    /\ loaded' = IF undo.unit = Keep THEN loaded ELSE unit'
    /\ deployStep' = "remove"
    /\ UNCHANGED <<releases, previousLink, enabled, serving, targets, undo,
                   status, before, rotation, known, reused, trouble>>

(* cleanup, after a failure: links and files go back to what they were, and    *)
(* systemd is told so ...                                                      *)
Restore ==
    /\ deployStep = "restore" /\ status # 0
    /\ currentLink' = Undone(undo.current, currentLink)
    /\ unit' = Undone(undo.unit, unit)
    /\ env' = Undone(undo.env, env)
    /\ loaded' = IF undo.unit = Keep THEN loaded ELSE unit'
    /\ deployStep' = "remove"
    /\ UNCHANGED <<releases, previousLink, enabled, serving, targets, undo,
                   status, before, rotation, known, reused, trouble>>

\* Variant: the new release is removed whatever "current" names.
Rejected(r) == TRUE

\* Variant: the service is left alone.
NoRestart(serviceNow) == serviceNow = serving

Unwanted(r) == currentLink # r

(* ... the service runs the old release again, if there is one and it starts,  *)
(* and the new one is removed unless "current" names it.                       *)
RestartedWithOld(serviceNow) ==
    IF undo.current \in {Keep, Missing} THEN serviceNow = serving
    ELSE serviceNow \in {Launched, Missing}
RemoveRelease ==
    /\ deployStep = "remove"
    /\ RestartedWithOld(serving')
    /\ releases' = IF Unwanted(newRelease) THEN releases \ {newRelease} ELSE releases
    /\ DeployForgotten
    /\ UNCHANGED <<currentLink, previousLink, unit, env, enabled, loaded,
                   rotation, known, reused, trouble>>

(* Without a failing status cleanup only removes the backups.                  *)
LeaveAsIs ==
    /\ deployStep = "restore" /\ status = 0
    /\ DeployForgotten
    /\ UNCHANGED <<filesOnDisk, loaded, serving, rotation, known, reused,
                   trouble>>

-----------------------------------------------------------------------------
(* set-admin-password.sh.  A password is read or made and hashed, and the      *)
(* environment file read for its backup and its successor.                     *)
BeginRotation ==
    /\ rotateStep = "off" /\ env # Missing /\ minted < MaxMinted
    /\ minted' = minted + 1 /\ rotateHash' = minted + 1
    /\ rotateBackup' = env /\ rotateStep' = "replace"
    /\ trouble' = IF deployStep = "off" THEN trouble ELSE Everything
    /\ UNCHANGED <<filesOnDisk, loaded, serving, deployment, shownHashes,
                   agreedSecret, reused>>

ReplaceEnv ==
    /\ rotateStep = "replace" /\ rotateStep' = "restart"
    /\ env' = [rotateBackup EXCEPT !.hash = rotateHash]
    /\ UNCHANGED <<releases, currentLink, previousLink, unit, enabled, loaded,
                   serving, deployment, rotateBackup, rotateHash, known, reused,
                   trouble>>

(* The service restarts and stays up: the new password is shown, or was typed. *)
RotationEnds ==
    /\ rotateStep = "restart" /\ RotationForgotten
    /\ Launched # Missing /\ serving' = Launched
    /\ trouble' = IF deployStep = "off" /\ env.hash = rotateHash THEN trouble \ {"password"}
                  ELSE trouble
    /\ shownHashes' = shownHashes \cup {rotateHash}
    /\ UNCHANGED <<filesOnDisk, loaded, deployment, minted, agreedSecret, reused>>

\* Variant: the service is restarted, the old file forgotten.
RotationGivesUp ==
    /\ rotateStep = "restart" /\ RotationForgotten
    /\ serving' \in {Launched, Missing}
    /\ UNCHANGED <<filesOnDisk, loaded, deployment, known, reused, trouble>>

(* It does not: the old file goes back and the service is tried once more.     *)
RotationFails ==
    /\ rotateStep = "restart" /\ RotationForgotten
    /\ env' = rotateBackup /\ serving' \in {Launched, Missing}
    /\ UNCHANGED <<releases, currentLink, previousLink, unit, enabled, loaded,
                   deployment, known, reused, trouble>>

(* An earlier failure has changed nothing.  A signal or a kill later leaves    *)
(* the new file, or the old one if cleanup sees a failing status.              *)
RotationStops ==
    /\ rotateStep # "off" /\ RotationForgotten
    /\ \/ rotateStep = "replace" /\ UNCHANGED <<env, trouble>>
       \/ rotateStep = "restart" /\ env' \in {env, rotateBackup}
          /\ trouble' = trouble \cup {"password"}
    /\ UNCHANGED <<releases, currentLink, previousLink, unit, enabled, loaded,
                   serving, deployment, known, reused>>

ServerNext ==
    \/ \E r \in Releases : BeginDeploy(r)
    \/ Build \/ WriteEnv \/ InstallUnit \/ Reload \/ Enable \/ MoveIn \/ Link
    \/ RestartService \/ IsActive \/ KeepPrevious \/ Commit
    \/ DeployFails \/ DeployInterrupted \/ DeployKilled \/ Restore \/ RemoveRelease \/ LeaveAsIs
    \/ BeginRotation \/ ReplaceEnv \/ RotationEnds \/ RotationFails \/ RotationStops

ServerSpec == ServerInit /\ [][ServerNext]_serverVars

-----------------------------------------------------------------------------
ServerTypeOK ==
    /\ releases \subseteq Installations /\ reused \subseteq Releases
    /\ {currentLink, previousLink, unit, loaded, serving, previousTarget}
          \subseteq Installations \cup {Missing}
    /\ enabled \in BOOLEAN
    /\ newRelease \in IF deployStep = "off" THEN {Missing} ELSE Releases
    /\ env \in IF deployStep \in Early \cup {"off", "restore", "remove"}
               THEN Env \cup {Missing} ELSE Env
    /\ deployStep \in Early \cup Late \cup {"off", "restore", "remove"}
    /\ adminPassword \in Nat \cup {Missing} /\ status \in {0, 1}
    /\ undo \in [current : Installations \cup {Missing, Keep},
                 unit : Installations \cup {Missing, Keep}, env : Env \cup {Missing, Keep}]
    /\ rotateStep \in {"off", "replace", "restart"}
    /\ rotateStep # "off" => rotateBackup \in Env /\ rotateHash \in Nat
    /\ minted \in Nat /\ shownHashes \subseteq Nat /\ agreedSecret \in Nat \cup {Missing}
    /\ trouble \subseteq Everything

AtRest == deployStep = "off" /\ rotateStep = "off"

(* A deployment that failed, whichever of its commands it was, has put back    *)
(* everything on disk but two links.  "current" may name an installation from  *)
(* before there were releases, where the link did not exist; and the link that *)
(* starts the unit at boot stays, once the unit was installed, even where the  *)
(* unit itself is taken away again.                                            *)
FailureIsUndone ==
    [][RemoveRelease /\ "deployment" \notin trouble /\ newRelease \notin reused =>
          /\ releases' = before.releases /\ previousLink' = before.previous
          /\ unit' = before.unit /\ env' = before.env
          /\ currentLink' # before.current =>
                before.current = Missing /\ currentLink' = Unversioned
                /\ Unversioned \in before.releases
          /\ enabled' # before.enabled => enabled' /\ undo.unit # Keep]_serverVars

(* What "current" names is complete, and so is what "previous" keeps for a     *)
(* rollback, whatever was interrupted or killed; only a deployment given the   *)
(* id of a release that is there already may take that release away.           *)
LinkedIsComplete ==
    /\ currentLink # Missing => currentLink \in releases
    /\ previousLink # Missing => previousLink \in releases \cup reused

(* Between the scripts the service, where it runs, runs what the unit on disk  *)
(* would start, the current release or an installation from before there were  *)
(* any: after a rollback as well, and again from the first complete deployment *)
(* after one that was cut off.                                                 *)
ServesCurrent ==
    AtRest /\ "service" \notin trouble =>
        serving \in {Launched, Missing} /\ loaded = unit

(* The secret the edge functions were configured with stays the backend's, as  *)
(* long as the two scripts never ran at the same time; and the password in     *)
(* force has been shown to an operator, unless the script that made it was cut *)
(* off and none has been set since.                                            *)
SecretsAreKnown ==
    AtRest =>
        /\ "overlap" \notin trouble /\ agreedSecret # Missing => env.secret = agreedSecret
        /\ "password" \notin trouble /\ env # Missing =>
              env.hash \in shownHashes \cup {Missing}
=============================================================================
