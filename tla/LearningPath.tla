----------------------------- MODULE LearningPath -----------------------------
(***************************************************************************)
(* Guided learning on top of the shared progress: the mission panel, which *)
(* asks for evidence of a step before it reveals the next, and the anomaly *)
(* center, which offers a repair when a guide is ahead of its evidence.    *)
(*                                                                         *)
(* A handler of the page runs to its end, and Vue's watchers run before    *)
(* the next one: every action ends with them (Watched).  Another tab may   *)
(* write between two writes of one handler or of a watcher, so that is two *)
(* actions, with the rest of it in todo.                                   *)
(*                                                                         *)
(* Steps are numbered from 1; guideSteps[u] = n shows step n + 1.          *)
(***************************************************************************)
EXTENDS ProgressStore, SequencesExt

VARIABLES
    page,       \* page[t]: what the components of tab t keep, see Page
    savedMode,  \* the learning mode in the stored preferences, None at first
    overtaken   \* history: a guide advanced on a screen older than the store

pathVars == <<page, savedMode, overtaken>>

Modules == {"seclab", "pwnhub"}

\* An anomaly of a module: its guide for a unit is ahead, or (None) the guest
\* sent no usable session key.
Anomalies == Modules \X (Units \cup {None})

Page ==
    [shown     : Modules,                \* the workspace that is mounted
     mode      : Modes \cup {None},
     local     : SUBSET Steps,           \* localCompletedIds of the panel
     visible   : Nat,                    \* visibleStepIndex of the PwnHub panel
     detected  : Seq(Anomalies),
     dismissed : SUBSET Anomalies,
     todo      : {"none", "mark", "reload"}]

ASSUME PathAssumption ==
    /\ GuideLength > 0 /\ Steps = 1..GuideLength
    /\ None \notin Page /\ None \notin Units

-----------------------------------------------------------------------------
(* Evidence and anomalies. *)

UnitsOf(m) == IF m = "seclab" THEN Levels ELSE Labs
UnitOn(s, m) == IF m = "seclab" THEN s.currentLevel ELSE s.currentLabId

\* The last step of a guide that is revealed, counted from 0.
Furthest(s, u) == Smaller(s.guideSteps[u], GuideLength - 1)

\* The number of steps done without a gap.
Prefix(done) == Cardinality({n \in Steps : 1..n \subseteq done})

GuideAhead(s, u) == s.guideSteps[u] > Prefix(s.completedSteps[u])

Blocking(s, mode, m) ==
    {<<m, u>> : u \in {u \in UnitsOf(m) : /\ u = UnitOn(s, m)
                                          /\ u \notin s.completed
                                          /\ mode = "guided"
                                          /\ GuideAhead(s, u)}}

Report(detected, dismissed, found) ==
    detected \o SetToSeq(found \ (dismissed \cup ToSet(detected)))

\* The anomalies of a list that are in the set wanted, in their order.
Kept(list, wanted) ==
    LET kept[n \in 0..Len(list)] ==
            IF n = 0 THEN <<>>
            ELSE IF list[n] \in wanted THEN Append(kept[n - 1], list[n]) ELSE kept[n - 1]
    IN  kept[Len(list)]

Without(detected, anomaly) == Kept(detected, Anomalies \ {anomaly})

\* Variant: what no longer holds is not withdrawn.
ReconcileNothing(detected, m, current) == detected

\* The progress anomalies of the module that no longer hold are withdrawn.
Reconcile(detected, m, current) ==
    Kept(detected, {a \in Anomalies : a[1] # m \/ a[2] = None \/ a \in current})

CheckBlockingAnomalies(detected, dismissed, s, mode) ==
    LET check(d, m) == Reconcile(Report(d, dismissed, Blocking(s, mode, m)), m,
                                 Blocking(s, mode, m))
    IN  check(check(detected, "seclab"), "pwnhub")

PendingFor(p, m) == Kept(p.detected, {a \in Anomalies : a[1] = m})
Popup(t) == PendingFor(page[t], page[t].shown)

-----------------------------------------------------------------------------
(* The watchers, which end every handler. *)

\* Variant: the panel keeps steps whose evidence a reset took away.
KeepLocal(local, done) == local

StillPersisted(local, done) == local \cap done

\* A guide that is on screen: the unit of page p counts as assisted.
IsGuided(p, s) ==
    LET u == UnitOn(s, p.shown)
    IN  p.mode = "guided" /\ u \in UnitsOf(p.shown) /\ u \notin s.completed

\* The page of tab t after a handler left it as p and the progress as s.
Watched(t, p, s) ==
    LET was == UnitOn(mem[t], page[t].shown)
        now == UnitOn(s, p.shown)
        remounted == was # now \/ p.shown # page[t].shown
        checked == \/ s.currentLevel # mem[t].currentLevel
                   \/ s.currentLabId # mem[t].currentLabId
                   \/ p.mode # page[t].mode
        assisted == remounted \/ p.mode # page[t].mode \/ was \in mem[t].completed
    IN  [p EXCEPT
           !.local = IF remounted THEN {} ELSE StillPersisted(@, s.completedSteps[now]),
           !.visible = IF remounted \/ Furthest(s, now) > Furthest(mem[t], was)
                       THEN Furthest(s, now) ELSE Smaller(@, Furthest(s, now)),
           !.detected = IF checked THEN CheckBlockingAnomalies(@, p.dismissed, s, p.mode)
                        ELSE @,
           !.todo = IF @ = "none" /\ assisted /\ IsGuided(p, s) THEN "mark" ELSE @]

Handled(t, p) == page' = [page EXCEPT ![t] = Watched(t, p, mem'[t])]
Idle(t) == t \in Open /\ page[t].todo = "none"

\* A popup takes the focus, and the workspace under it is inert.
InWorkspace(t) == Idle(t) /\ Popup(t) = <<>>
Unit(t) == UnitOn(mem[t], page[t].shown)

-----------------------------------------------------------------------------
(* The page. *)

NewPage(s, m, mode) ==
    LET p == [shown |-> m, mode |-> mode, local |-> {},
              visible |-> Furthest(s, UnitOn(s, m)),
              detected |-> CheckBlockingAnomalies(<<>>, {}, s, mode), dismissed |-> {},
              todo |-> "none"]
    IN  IF IsGuided(p, s) THEN [p EXCEPT !.todo = "mark"] ELSE p

LoadPage(t) ==
    /\ LoadProgress(t)
    /\ \E m \in Modules : page' = [page EXCEPT ![t] = NewPage(mem'[t], m, savedMode)]
    /\ UNCHANGED <<savedMode, overtaken>>

ClosePage(t) ==
    /\ CloseTab(t)
    /\ page' = [page EXCEPT ![t] = None]
    /\ UNCHANGED <<savedMode, overtaken>>

ProgressEvent(t) ==
    /\ Idle(t) /\ SyncExternalProgress(t)
    /\ Handled(t, page[t])
    /\ UNCHANGED <<savedMode, overtaken>>

\* The other workspace is mounted.
ShowModule(t, m) ==
    /\ InWorkspace(t) /\ m # page[t].shown
    /\ UNCHANGED <<vars, savedMode, overtaken>>
    /\ Handled(t, [page[t] EXCEPT !.shown = m])

\* The guest confirmed a lab, which may come late.
Navigated(t) ==
    /\ Idle(t)
    /\ \/ page[t].shown = "seclab" /\ \E l \in Levels : SetCurrentLevel(t, l)
       \/ page[t].shown = "pwnhub" /\ \E lab \in Labs : SetCurrentLab(t, lab)
    /\ Handled(t, page[t])
    /\ UNCHANGED <<savedMode, overtaken>>

\* The guest passed the lab on screen.
Passed(t) ==
    /\ Idle(t) /\ page[t].mode # None
    /\ Unit(t) \in UnitsOf(page[t].shown) /\ Complete(t, Unit(t), page[t].mode)
    /\ Handled(t, page[t])
    /\ UNCHANGED <<savedMode, overtaken>>

ChangeMode(t, mode, p) ==
    /\ savedMode' = mode
    /\ IF mode = "guided" /\ Unit(t) \notin mem[t].completed
       THEN MarkGuidedAssistance(t, Unit(t))
       ELSE UNCHANGED vars
    /\ Handled(t, [p EXCEPT !.mode = mode])
    /\ UNCHANGED overtaken

\* The badge of the panel, and the choice of a first visit.
HandleChangeMode(t) ==
    /\ InWorkspace(t) /\ Unit(t) \in UnitsOf(page[t].shown)
    /\ \E mode \in Modes \ {page[t].mode} : ChangeMode(t, mode, page[t])

-----------------------------------------------------------------------------
(* The mission panel in guided mode. *)

Guided(t) ==
    /\ InWorkspace(t) /\ page[t].mode = "guided"
    /\ Unit(t) \in UnitsOf(page[t].shown) /\ Unit(t) \notin mem[t].completed

\* SecLab shows the last revealed step, PwnHub lets the learner go back.
CurrentStep(t) ==
    1 + LET furthest == Furthest(mem[t], Unit(t))
        IN  IF page[t].shown = "seclab" THEN furthest ELSE Smaller(page[t].visible, furthest)

Resolved(t) == CurrentStep(t) \in mem[t].completedSteps[Unit(t)] \cup page[t].local

RememberStepCompletion(t) ==
    /\ Guided(t) /\ ~Resolved(t)
    /\ CompleteLearningStep(t, Unit(t), CurrentStep(t))
    /\ Handled(t, [page[t] EXCEPT !.local = @ \cup {CurrentStep(t)}])
    /\ UNCHANGED <<savedMode, overtaken>>

AdvanceStep(t) ==
    /\ Guided(t) /\ Resolved(t) /\ CurrentStep(t) < GuideLength
    /\ CurrentStep(t) = Furthest(mem[t], Unit(t)) + 1
    /\ AdvanceGuideStep(t, Unit(t))
    /\ overtaken' = (overtaken \/ (Readable /\ ~SameUnit(disk, mem[t], Unit(t))))
    /\ Handled(t, page[t])
    /\ UNCHANGED savedMode

\* Back to an earlier step, or forward to one already revealed.
TurnPage(t) ==
    /\ Guided(t) /\ page[t].shown = "pwnhub"
    /\ UNCHANGED <<vars, savedMode, overtaken>>
    /\ \E i \in {page[t].visible - 1, page[t].visible + 1} \cap 0..Furthest(mem[t], Unit(t)) :
          Handled(t, [page[t] EXCEPT !.visible = i])

-----------------------------------------------------------------------------
(* Resets, and the answers to a popup. *)

ResetUnit(t, p) ==
    /\ Unit(t) \in UnitsOf(p.shown) /\ ResetAttempt(t, Unit(t))
    /\ Handled(t, [p EXCEPT !.todo = IF p.mode = "guided" THEN "mark" ELSE "none"])

HandleResetLevel(t) ==
    /\ InWorkspace(t) /\ ResetUnit(t, page[t])
    /\ UNCHANGED <<savedMode, overtaken>>

\* The rest of a reset in guided mode, and of the watch of mode, unit and
\* completion.  Where both are due, the second finds the mark of the first.
MarkGuided(t) ==
    /\ t \in Open /\ page[t].todo = "mark"
    /\ MarkGuidedAssistance(t, Unit(t))
    /\ Handled(t, [page[t] EXCEPT !.todo = "none"])
    /\ UNCHANGED <<savedMode, overtaken>>

\* Everything is cleared and the page reloads itself.
HandleResetAll(t) ==
    /\ InWorkspace(t) /\ ResetAllProgress(t)
    /\ Handled(t, [page[t] EXCEPT !.todo = "reload"])
    /\ UNCHANGED <<savedMode, overtaken>>

\* The guest came up without a key that can be imported.
KeyMissing(t) ==
    /\ Idle(t)
    /\ UNCHANGED <<vars, savedMode, overtaken>>
    /\ Handled(t, [page[t] EXCEPT !.detected =
                     Report(@, page[t].dismissed, {<<page[t].shown, None>>})])

BugReportDismiss(t) ==
    /\ Idle(t) /\ Popup(t) # <<>>
    /\ UNCHANGED <<vars, savedMode, overtaken>>
    /\ LET a == Head(Popup(t))
       IN  Handled(t, [page[t] EXCEPT !.detected = Without(@, a), !.dismissed = @ \cup {a}])

\* Resolve, then reset the unit or restart the machine.
BugReportPrimaryAction(t) ==
    /\ Idle(t) /\ Popup(t) # <<>>
    /\ LET a == Head(Popup(t))
           p == [page[t] EXCEPT !.detected = Without(@, a), !.dismissed = @ \ {a}]
       IN  \/ a[2] # None /\ ResetUnit(t, p)
           \/ a[2] = None /\ UNCHANGED vars /\ Handled(t, p)
    /\ UNCHANGED <<savedMode, overtaken>>

BugReportSecondaryAction(t) ==
    /\ Idle(t) /\ Popup(t) # <<>> /\ Head(Popup(t))[2] # None
    /\ ChangeMode(t, "challenge", page[t])

-----------------------------------------------------------------------------
PathInit ==
    /\ Init
    /\ page = [t \in Tabs |-> None]
    /\ savedMode = None
    /\ overtaken = FALSE

Learn(t) == RememberStepCompletion(t) \/ AdvanceStep(t) \/ TurnPage(t)
Answer(t) ==
    BugReportDismiss(t) \/ BugReportPrimaryAction(t) \/ BugReportSecondaryAction(t)

PathNext ==
    \E t \in Tabs :
        \/ LoadPage(t) \/ ClosePage(t) \/ ProgressEvent(t) \/ KeyMissing(t)
        \/ \E m \in Modules : ShowModule(t, m)
        \/ Navigated(t) \/ Passed(t) \/ HandleChangeMode(t)
        \/ Learn(t) \/ Answer(t)
        \/ HandleResetLevel(t) \/ MarkGuided(t) \/ HandleResetAll(t)

PathSpec == PathInit /\ [][PathNext]_<<vars, pathVars>>

-----------------------------------------------------------------------------
(* Properties. *)

\* No guide is ahead of its evidence in any copy, whatever the tabs reset, merge
\* and adopt, unless a tab whose screen was older than the store revealed a step:
\* advanceGuideStep then adds to a guide the learner did not see.
GuideBehindEvidence ==
    ~overtaken =>
        \A s \in {disk} \cup {mem[t] : t \in Tabs} :
            s # None => \A u \in Units : ~GuideAhead(s, u)

\* A popup about a guide is about the unit its primary action would reset.
PopupIsForThisUnit ==
    \A t \in {t \in Tabs : page[t] # None} : \A i \in DOMAIN page[t].detected :
        LET a == page[t].detected[i]
        IN  a[2] # None => a[2] = UnitOn(mem[t], a[1])
=============================================================================
