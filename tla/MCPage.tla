-------------------------------- MODULE MCPage --------------------------------
(* What the page runs on its event loop, for TLC: tabs that share the stored   *)
(* progress, guided learning on top of it, and visits that share the machine.  *)
(* A scene is chosen at first.                                                 *)
EXTENDS LearningPath

CONSTANTS Visits, DefaultOwner, NoOwner, Forged, OtherTab
VARIABLES
    visit, activeOwner, ownerGeneration, generation, stage, controller, machine,
    releases, waiting, starting, readyTimer, chain, readySeen, sessionKey, credited,
    restarts,
    scene

Vm == INSTANCE VmSession WITH MaxRestarts <- 0, MaxMessages <- 1

vmVars == <<visit, activeOwner, ownerGeneration, generation, stage, controller, machine,
            releases, waiting, starting, readyTimer, chain, readySeen, sessionKey,
            credited, restarts>>
mcVars == <<vars, pathVars, vmVars, scene>>

\* Two levels, completed and selected at will.
LevelStep ==
    \E t \in Tabs :
        \/ LoadProgress(t) \/ CloseTab(t) \/ SyncExternalProgress(t) \/ ResetAllProgress(t)
        \/ \E u \in Levels :
              \/ Complete(t, u, "challenge")
              \/ MarkGuidedAssistance(t, u) \/ ResetAttempt(t, u)
        \/ \E l \in Levels : SetCurrentLevel(t, l)

AWriteLess == disk' # disk /\ disk # None => disk.updatedAt < MaxUpdates - 1

\* A level and a lab with everything there is to a unit but its second step, and
\* a write less.
UnitStep ==
    /\ \E t \in Tabs :
        \/ LoadProgress(t) \/ CloseTab(t) \/ SyncExternalProgress(t) \/ ResetAllProgress(t)
        \/ \E u \in {1} \cup Labs : WorkOnUnit(t, u)
        \/ SetCurrentLevel(t, 1) \/ \E lab \in Labs : SetCurrentLab(t, lab)
    /\ disk' # disk => \A u \in Units : 2 \notin disk'.completedSteps[u]
    /\ AWriteLess

\* Bound: the clock runs from write to write by at most two.
Soon == IF disk = None THEN TRUE ELSE disk'.updatedAt <= disk.updatedAt + 2

\* Guided learning of a level in both tabs.
LearnStep ==
    /\ \E t \in Tabs :
        \/ LoadPage(t) \/ ClosePage(t) \/ ProgressEvent(t)
        \/ HandleChangeMode(t) /\ page'[t].mode = "guided"
        \/ Learn(t) \/ Passed(t)
        \/ HandleResetLevel(t) \/ MarkGuided(t) \/ HandleResetAll(t)
    /\ \A t \in Tabs : page'[t] # None => page'[t].shown = "seclab" /\ page'[t].detected = <<>>
    /\ Soon

\* One tab with all there is to it, on progress whose guides are ahead.
RepairStep == PathNext /\ mem'[OtherTab] = None /\ Soon /\ AWriteLess
Damaged == [DefaultProgress(0) EXCEPT !.guideSteps = [u \in Units |-> IF u = 2 THEN 0 ELSE 1]]

MCInit ==
    /\ scene \in {"levels", "units", "learn", "repair", "visits"}
    /\ mem = [t \in Tabs |-> None] /\ unseen = {} /\ corrupted = FALSE
    /\ disk = IF scene = "repair" THEN Damaged ELSE None
    /\ page = [t \in Tabs |-> None]
    /\ savedMode = IF scene = "repair" THEN "guided" ELSE None
    /\ overtaken = (scene # "learn")  \* the others may put a guide ahead
    /\ Vm!Init
MCNext ==
    /\ \/ scene = "levels" /\ LevelStep /\ UNCHANGED <<pathVars, vmVars>>
       \/ scene = "units" /\ UnitStep /\ UNCHANGED <<pathVars, vmVars>>
       \/ scene = "learn" /\ LearnStep /\ UNCHANGED vmVars
       \/ scene = "repair" /\ RepairStep /\ UNCHANGED vmVars
       \/ scene = "visits" /\ Vm!Next /\ UNCHANGED <<vars, pathVars>>
    /\ UNCHANGED scene
MCSpec ==
    /\ MCInit /\ [][MCNext]_mcVars
    /\ Vm!Fairness
    /\ \A t \in Tabs : WF_vars(SyncExternalProgress(t))

\* The page serves every visit, see VmSession.
VisitIsServed == Vm!VisitIsServed
=============================================================================
