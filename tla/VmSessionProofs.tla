---------------------------- MODULE VmSessionProofs ----------------------------
(***************************************************************************)
(* Proofs about VmSession, for any number of visits, restarts and waiting   *)
(* messages: what holds of the machine, its stage, its owner and its key    *)
(* however the asynchronous functions of the page overlap.                  *)
(*                                                                         *)
(* The bound MaxGeneration is not used: a machine that is created beyond it *)
(* is simply not looked at.                                                 *)
(***************************************************************************)
EXTENDS VmSession, FiniteSetTheorems, TLAPS

USE SessionAssumption

-----------------------------------------------------------------------------
(* Sequences, generations and keys. *)

LEMMA GenerationsArePositive == \A g \in Generations : g \in Nat /\ g # 0
  BY DEF Generations

LEMMA KeysDiffer == \A g \in Generations : g \in Keys /\ g # NoKey /\ g # Forged
  BY GenerationsArePositive DEF Keys, NoKey

LEMMA TailOf ==
    ASSUME NEW S, NEW q \in Seq(S), q # <<>>
    PROVE  /\ Head(q) \in S /\ Head(q) = q[1] /\ 1 \in 1..Len(q) /\ Tail(q) \in Seq(S)
           /\ Len(q) \in Nat /\ Len(Tail(q)) = Len(q) - 1
           /\ \A i \in 1..Len(Tail(q)) : i + 1 \in 1..Len(q) /\ Tail(q)[i] = q[i + 1]
           /\ \A i \in 1..Len(q) : i # 1 => i - 1 \in 1..Len(Tail(q)) /\ Tail(q)[i - 1] = q[i]
  <1>1. Head(q) \in S /\ Head(q) = q[1] /\ 1 \in 1..Len(q) /\ Tail(q) \in Seq(S)
    OBVIOUS
  <1>2. Len(q) \in Nat /\ Len(Tail(q)) = Len(q) - 1
    OBVIOUS
  <1>3. \A i \in 1..Len(Tail(q)) : Tail(q)[i] = q[i + 1]
    OBVIOUS
  <1>. QED  BY <1>1, <1>2, <1>3

LEMMA ElementOf == ASSUME NEW S, NEW q \in Seq(S), NEW i \in 1..Len(q) PROVE q[i] \in S
  OBVIOUS

LEMMA AppendOf ==
    ASSUME NEW S, NEW q \in Seq(S), NEW e \in S
    PROVE  /\ Append(q, e) \in Seq(S) /\ Append(q, e) # <<>>
           /\ Len(q) \in Nat /\ Len(Append(q, e)) = Len(q) + 1
           /\ Append(q, e)[Len(q) + 1] = e
           /\ \A i \in 1..Len(q) : Append(q, e)[i] = q[i]
  OBVIOUS

LEMMA ReplacedHead ==
    ASSUME NEW S, NEW q \in Seq(S), q # <<>>, NEW e \in S
    PROVE  /\ <<e>> \o Tail(q) \in Seq(S) /\ <<e>> \o Tail(q) # <<>>
           /\ Len(<<e>> \o Tail(q)) = Len(q)
           /\ (<<e>> \o Tail(q))[1] = e
           /\ \A i \in 1..Len(q) : i # 1 => (<<e>> \o Tail(q))[i] = q[i]
  <1>1. \A r \in Seq(S) : /\ <<e>> \o r \in Seq(S)
                          /\ Len(<<e>> \o r) = Len(r) + 1 /\ Len(r) \in Nat
                          /\ (<<e>> \o r)[1] = e
                          /\ \A i \in 2..(Len(r) + 1) : (<<e>> \o r)[i] = r[i - 1]
    OBVIOUS
  <1>2. /\ Tail(q) \in Seq(S) /\ Len(q) \in Nat /\ Len(Tail(q)) = Len(q) - 1
        /\ \A i \in 1..Len(q) : i # 1 => i - 1 \in 1..Len(Tail(q)) /\ Tail(q)[i - 1] = q[i]
    BY TailOf
  <1>3. Len(<<e>> \o Tail(q)) = Len(q)
    BY <1>1, <1>2
  <1>4. <<e>> \o Tail(q) # <<>>
    BY <1>1, <1>2
  <1>5. ASSUME NEW i \in 1..Len(q), i # 1 PROVE (<<e>> \o Tail(q))[i] = q[i]
    <2>1. i \in 2..(Len(Tail(q)) + 1)
      BY <1>2, <1>5
    <2>. QED  BY <1>1, <1>2, <1>5, <2>1
  <1>. QED  BY <1>1, <1>2, <1>3, <1>4, <1>5

-----------------------------------------------------------------------------
(* Types. *)

LEMMA SessionTypeInit == Init => TypeOK
  <1>. SUFFICES ASSUME Init PROVE TypeOK
    OBVIOUS
  <1>. USE DEF Init
  <1>1. visit \in [Visits -> {"unborn", "setup", "mounted", "summary", "left"}]
    OBVIOUS
  <1>2. activeOwner \in Owners \cup {NoOwner}
    BY DEF Owners
  <1>3. releases \in Seq([machine : Nat, id : Nat])
    OBVIOUS
  <1>4. chain \in [Generations -> Seq(Messages)]
    <2>1. <<>> \in Seq(Messages)
      OBVIOUS
    <2>. QED  BY <2>1
  <1>5. machine \in [Generations ->
          {"none", "loading", "initialising", "running", "failed", "doomed", "gone"}]
    OBVIOUS
  <1>6. sessionKey \in Keys /\ stage \in Stages
    BY DEF Keys, Stages
  <1>7. restarts \in 0..MaxRestarts
    OBVIOUS
  <1>. QED  BY <1>1, <1>2, <1>3, <1>4, <1>5, <1>6, <1>7 DEF TypeOK

LEMMA ReleaseType ==
    ASSUME TypeOK, NEW callers \in SUBSET Waiting, ReleaseCurrentVm(callers)
    PROVE  /\ generation' \in Nat /\ controller' \in Nat /\ readyTimer' \in Nat
           /\ sessionKey' \in Keys /\ readySeen' \in BOOLEAN /\ credited' \subseteq Keys
           /\ releases' \in Seq([machine : Nat, id : Nat])
           /\ waiting' \subseteq Waiting
  <1>1. [machine |-> controller, id |-> generation + 1] \in [machine : Nat, id : Nat]
    BY DEF TypeOK
  <1>2. releases' \in Seq([machine : Nat, id : Nat])
    BY <1>1 DEF ReleaseCurrentVm, TypeOK
  <1>3. /\ generation' = generation + 1 /\ controller' = 0 /\ readyTimer' = 0
        /\ sessionKey' = NoKey /\ readySeen' = FALSE /\ credited' = {}
        /\ waiting' = waiting \cup callers
    BY DEF ReleaseCurrentVm
  <1>4. NoKey \in Keys
    BY DEF Keys
  <1>5. generation \in Nat /\ waiting \subseteq Waiting
    BY DEF TypeOK
  <1>6. waiting' \subseteq Waiting
    BY <1>3, <1>5
  <1>7. generation' \in Nat /\ controller' \in Nat /\ readyTimer' \in Nat
    BY <1>3, <1>5
  <1>8. sessionKey' \in Keys /\ readySeen' \in BOOLEAN /\ credited' \subseteq Keys
    BY <1>3, <1>4
  <1>. QED  BY <1>2, <1>6, <1>7, <1>8

LEMMA NotReleasedType ==
    ASSUME TypeOK, UNCHANGED releaseVars
    PROVE  /\ generation' \in Nat /\ controller' \in Nat /\ readyTimer' \in Nat
           /\ sessionKey' \in Keys /\ readySeen' \in BOOLEAN /\ credited' \subseteq Keys
           /\ releases' \in Seq([machine : Nat, id : Nat])
           /\ waiting' \subseteq Waiting
  BY DEF releaseVars, keyVars, TypeOK

LEMMA CreateType ==
    ASSUME TypeOK, CreateController \/ UNCHANGED createVars
    PROVE  /\ generation' \in Nat /\ controller' \in Nat /\ starting' \subseteq Nat
           /\ machine' \in [Generations ->
                {"none", "loading", "initialising", "running", "failed", "doomed", "gone"}]
           /\ stage' \in Stages /\ credited' \subseteq Keys
  <1>1. CASE CreateController
    <2>1. generation \in Nat /\ starting \subseteq Nat
      BY DEF TypeOK
    <2>2. generation' \in Nat /\ controller' \in Nat /\ starting' \subseteq Nat
      BY <1>1, <2>1 DEF CreateController
    <2>3. machine' \in [Generations ->
            {"none", "loading", "initialising", "running", "failed", "doomed", "gone"}]
      BY <1>1 DEF CreateController, TypeOK
    <2>4. stage' \in Stages /\ credited' \subseteq Keys
      BY <1>1 DEF CreateController, Stages, Booting
    <2>. QED  BY <2>2, <2>3, <2>4
  <1>2. CASE UNCHANGED createVars
    BY <1>2 DEF createVars, TypeOK
  <1>. QED  BY <1>1, <1>2

LEMMA BootType ==
    ASSUME TypeOK, NEW o \in Owners, Boot(o)
    PROVE  (CreateController \/ UNCHANGED createVars) /\ waiting' \subseteq Waiting
  <1>1. [task |-> "boot", release |-> generation, owner |-> o,
         ownerGeneration |-> ownerGeneration] \in Waiting
    BY DEF Waiting, TypeOK
  <1>. QED  BY <1>1 DEF Boot, TypeOK

LEMMA FailType ==
    ASSUME TypeOK, NEW g, FailCurrentBoot(g)
    PROVE  /\ generation' \in Nat /\ controller' \in Nat /\ readyTimer' \in Nat
           /\ sessionKey' \in Keys /\ readySeen' \in BOOLEAN /\ credited' \subseteq Keys
           /\ releases' \in Seq([machine : Nat, id : Nat])
           /\ waiting' \subseteq Waiting
  <1>1. {[task |-> "fail", release |-> generation + 1, owner |-> NoOwner,
          ownerGeneration |-> 0]} \in SUBSET Waiting
    BY DEF Waiting, TypeOK
  <1>2. CASE g = generation
    BY <1>1, <1>2, ReleaseType DEF FailCurrentBoot
  <1>3. CASE g # generation
    BY <1>3, NotReleasedType DEF FailCurrentBoot
  <1>. QED  BY <1>2, <1>3

LEMMA DisposeType ==
    ASSUME TypeOK, NEW o \in Visits, Dispose(o)
    PROVE  /\ generation' \in Nat /\ controller' \in Nat /\ readyTimer' \in Nat
           /\ sessionKey' \in Keys /\ readySeen' \in BOOLEAN /\ credited' \subseteq Keys
           /\ releases' \in Seq([machine : Nat, id : Nat])
           /\ waiting' \subseteq Waiting
           /\ activeOwner' \in Owners \cup {NoOwner} /\ ownerGeneration' \in Nat
  <1>1. {[task |-> "dispose", release |-> generation + 1, owner |-> NoOwner,
          ownerGeneration |-> ownerGeneration + 1]} \in SUBSET Waiting
    BY DEF Waiting, TypeOK
  <1>2. CASE activeOwner = o
    BY <1>1, <1>2, ReleaseType DEF Dispose, TypeOK
  <1>3. CASE activeOwner # o
    BY <1>3, NotReleasedType DEF Dispose, TypeOK
  <1>. QED  BY <1>2, <1>3

LEMMA HandledType ==
    ASSUME TypeOK, NEW g \in Generations, chain[g] # <<>>
    PROVE  /\ Head(chain[g]) \in Messages /\ Head(chain[g]).key \in Keys
           /\ Handled(g) => chain' \in [Generations -> Seq(Messages)]
           /\ \A m \in Messages : Suspended(g, m) => chain' \in [Generations -> Seq(Messages)]
  <1>1. chain[g] \in Seq(Messages)
    BY DEF TypeOK
  <1>2. Head(chain[g]) \in Messages /\ Tail(chain[g]) \in Seq(Messages)
    BY <1>1, TailOf
  <1>3. Head(chain[g]).key \in Keys
    BY <1>2 DEF Messages
  <1>4. \A m \in Messages : <<m>> \o Tail(chain[g]) \in Seq(Messages)
    BY <1>1, ReplacedHead
  <1>5. ASSUME NEW q \in Seq(Messages), chain' = [chain EXCEPT ![g] = q]
        PROVE  chain' \in [Generations -> Seq(Messages)]
    BY <1>5 DEF TypeOK
  <1>6. Handled(g) => chain' = [chain EXCEPT ![g] = Tail(chain[g])]
    BY DEF Handled
  <1>7. ASSUME NEW m \in Messages, Suspended(g, m)
        PROVE  chain' = [chain EXCEPT ![g] = <<m>> \o Tail(chain[g])]
    BY <1>7 DEF Suspended
  <1>. QED  BY <1>2, <1>3, <1>4, <1>5, <1>6, <1>7

LEMMA WorkspaceType ==
    ASSUME TypeOK, NEW o \in Visits, WorkspaceStep(o)
    PROVE  TypeOK'
  <1>. USE DEF ownerVars, keyVars
  <1>1. ASSUME NEW to \in {"setup", "mounted", "summary", "left"}
        PROVE  [visit EXCEPT ![o] = to] \in [Visits -> {"unborn", "setup", "mounted", "summary", "left"}]
    BY DEF TypeOK
  <1>2. CASE Handoff(o)
    <2>1. /\ generation' \in Nat /\ controller' \in Nat /\ readyTimer' \in Nat
          /\ sessionKey' \in Keys /\ readySeen' \in BOOLEAN /\ credited' \subseteq Keys
          /\ releases' \in Seq([machine : Nat, id : Nat])
          /\ waiting' \subseteq Waiting
      <3>1. {} \in SUBSET Waiting
        OBVIOUS
      <3>2. CASE controller # 0
        BY <1>2, <3>1, <3>2, ReleaseType DEF Handoff
      <3>3. CASE controller = 0
        BY <1>2, <3>3, NotReleasedType DEF Handoff
      <3>. QED  BY <3>2, <3>3
    <2>2. activeOwner' \in Owners \cup {NoOwner} /\ ownerGeneration' \in Nat
      BY <1>2 DEF Handoff, Owners, TypeOK
    <2>. QED  BY <1>1, <1>2, <2>1, <2>2 DEF Handoff, TypeOK
  <1>3. CASE Mount(o)
    <2>1. (CreateController \/ UNCHANGED createVars) /\ waiting' \subseteq Waiting
      BY <1>3, BootType DEF Mount, Owners
    <2>2. /\ generation' \in Nat /\ controller' \in Nat /\ starting' \subseteq Nat
          /\ machine' \in [Generations ->
               {"none", "loading", "initialising", "running", "failed", "doomed", "gone"}]
          /\ stage' \in Stages /\ credited' \subseteq Keys
      BY <2>1, CreateType
    <2>. QED  BY <1>1, <1>3, <2>1, <2>2 DEF Mount, TypeOK
  <1>4. CASE MountSummary(o)
    BY <1>1, <1>4 DEF MountSummary, createVars, TypeOK
  <1>5. CASE Finish(o)
    <2>1. Dispose(o) /\ visit' = [visit EXCEPT ![o] = "summary"]
          /\ UNCHANGED <<stage, machine, starting, chain, restarts>>
      BY <1>5 DEF Finish
    <2>. QED  BY <1>1, <2>1, DisposeType DEF TypeOK
  <1>6. CASE Leave(o)
    <2>1. Dispose(o) /\ visit' = [visit EXCEPT ![o] = "left"]
          /\ UNCHANGED <<stage, machine, starting, chain, restarts>>
      BY <1>6 DEF Leave
    <2>. QED  BY <1>1, <2>1, DisposeType DEF TypeOK
  <1>7. CASE Restart(o)
    <2>1. /\ generation' \in Nat /\ controller' \in Nat /\ readyTimer' \in Nat
          /\ sessionKey' \in Keys /\ readySeen' \in BOOLEAN /\ credited' \subseteq Keys
          /\ releases' \in Seq([machine : Nat, id : Nat])
          /\ waiting' \subseteq Waiting
      <3>1. {[task |-> "restart", release |-> generation + 1, owner |-> o,
              ownerGeneration |-> ownerGeneration]} \in SUBSET Waiting
        BY DEF Waiting, Owners, TypeOK
      <3>2. CASE activeOwner = o
        BY <1>7, <3>1, <3>2, ReleaseType DEF Restart
      <3>3. CASE activeOwner # o
        BY <1>7, <3>3, NotReleasedType DEF Restart
      <3>. QED  BY <3>2, <3>3
    <2>2. restarts' \in 0..MaxRestarts
      BY <1>7 DEF Restart, TypeOK
    <2>. QED  BY <1>7, <2>1, <2>2 DEF Restart, TypeOK
  <1>8. CASE Retry(o)
    <2>1. (CreateController \/ UNCHANGED createVars) /\ waiting' \subseteq Waiting
      BY <1>8, BootType DEF Retry, Owners
    <2>2. /\ generation' \in Nat /\ controller' \in Nat /\ starting' \subseteq Nat
          /\ machine' \in [Generations ->
               {"none", "loading", "initialising", "running", "failed", "doomed", "gone"}]
          /\ stage' \in Stages /\ credited' \subseteq Keys
      BY <2>1, CreateType
    <2>3. restarts' \in 0..MaxRestarts
      BY <1>8 DEF Retry, TypeOK
    <2>. QED  BY <1>8, <2>1, <2>2, <2>3 DEF Retry, TypeOK
  <1>. QED  BY <1>2, <1>3, <1>4, <1>5, <1>6, <1>7, <1>8 DEF WorkspaceStep

LEMMA TaskType ==
    ASSUME TypeOK, NEW w \in waiting, GoesOn(w)
    PROVE  TypeOK'
  <1>. USE DEF ownerVars, keyVars
  <1>1. w \in Waiting /\ waiting \ {w} \subseteq Waiting
    BY DEF TypeOK
  <1>2. CASE BootGoesOn(w)
    <2>1. /\ generation' \in Nat /\ controller' \in Nat /\ starting' \subseteq Nat
          /\ machine' \in [Generations ->
               {"none", "loading", "initialising", "running", "failed", "doomed", "gone"}]
          /\ stage' \in Stages /\ credited' \subseteq Keys
      BY <1>2, CreateType DEF BootGoesOn
    <2>. QED  BY <1>1, <1>2, <2>1 DEF BootGoesOn, TypeOK
  <1>3. CASE FailGoesOn(w)
    <2>1. stage' \in Stages
      BY <1>3 DEF FailGoesOn, Stages, TypeOK
    <2>. QED  BY <1>1, <1>3, <2>1 DEF FailGoesOn, TypeOK
  <1>4. CASE DisposeGoesOn(w)
    <2>1. stage' \in Stages
      BY <1>4 DEF DisposeGoesOn, Stages, TypeOK
    <2>. QED  BY <1>1, <1>4, <2>1 DEF DisposeGoesOn, TypeOK
  <1>5. CASE RestartGoesOn(w)
    <2>1. CreateController \/ UNCHANGED createVars
      BY <1>5 DEF RestartGoesOn
    <2>2. /\ generation' \in Nat /\ controller' \in Nat /\ starting' \subseteq Nat
          /\ machine' \in [Generations ->
               {"none", "loading", "initialising", "running", "failed", "doomed", "gone"}]
          /\ stage' \in Stages /\ credited' \subseteq Keys
      BY <2>1, CreateType
    <2>3. waiting' \subseteq Waiting
      <3>1. [w EXCEPT !.task = "boot", !.release = generation] \in Waiting
        BY <1>1 DEF Waiting, TypeOK
      <3>. QED  BY <1>1, <1>5, <3>1 DEF RestartGoesOn
    <2>. QED  BY <1>5, <2>2, <2>3 DEF RestartGoesOn, TypeOK
  <1>. QED  BY <1>2, <1>3, <1>4, <1>5 DEF GoesOn

LEMMA MachineType ==
    ASSUME TypeOK,
           \/ \E g \in Generations : BootStep(g) \/ EmulatorReady(g)
           \/ StopMachine \/ ReleaseSettles \/ ReadyTimerFires
    PROVE  TypeOK'
  <1>. USE DEF ownerVars, keyVars
  <1>1. ASSUME NEW g \in Generations, StartResolves(g) PROVE TypeOK'
    <2>1. stage' \in Stages
      BY <1>1 DEF StartResolves, Stages, Booting, TypeOK
    <2>. QED  BY <1>1, <2>1 DEF StartResolves, TypeOK
  <1>2. ASSUME NEW g \in Generations, StartFails(g) PROVE TypeOK'
    BY <1>2 DEF StartFails, TypeOK
  <1>3. ASSUME NEW g \in Generations, BootStarted(g) PROVE TypeOK'
    <2>1. readyTimer' \in Nat
      BY <1>3, GenerationsArePositive DEF BootStarted, TypeOK
    <2>2. starting' \subseteq Nat
      BY <1>3 DEF BootStarted, TypeOK
    <2>. QED  BY <1>3, <2>1, <2>2 DEF BootStarted, TypeOK
  <1>4. ASSUME NEW g \in Generations, BootFails(g) PROVE TypeOK'
    <2>1. FailCurrentBoot(g) /\ UNCHANGED <<ownerVars, stage, machine, chain, restarts>>
          /\ starting' = starting \ {g}
      BY <1>4 DEF BootFails
    <2>2. starting' \subseteq Nat
      BY <2>1 DEF TypeOK
    <2>. QED  BY <2>1, <2>2, FailType DEF TypeOK
  <1>5. ASSUME NEW g \in Generations, EmulatorReady(g) PROVE TypeOK'
    BY <1>5 DEF EmulatorReady, TypeOK
  <1>6. CASE StopMachine
    BY <1>6 DEF StopMachine, TypeOK
  <1>7. CASE ReleaseSettles
    <2>1. releases' \in Seq([machine : Nat, id : Nat])
      BY <1>7, TailOf DEF ReleaseSettles, TypeOK
    <2>. QED  BY <1>7, <2>1 DEF ReleaseSettles, TypeOK
  <1>8. CASE ReadyTimerFires
    <2>1. FailCurrentBoot(readyTimer) /\ UNCHANGED <<ownerVars, stage, machine, starting, chain, restarts>>
      BY <1>8 DEF ReadyTimerFires
    <2>. QED  BY <2>1, FailType DEF TypeOK
  <1>. QED  BY <1>1, <1>2, <1>3, <1>4, <1>5, <1>6, <1>7, <1>8 DEF BootStep

LEMMA MessageType ==
    ASSUME TypeOK, NEW g \in Generations, HandleMessage(g) \/ GuestSpeaks(g)
    PROVE  TypeOK'
  <1>. USE DEF ownerVars, keyVars
  <1>1. CASE GuestSpeaks(g)
    <2>1. \A m \in Says(g) : m \in Messages
      BY KeysDiffer DEF Says, Messages, Keys
    <2>2. PICK m \in Messages : chain' = [chain EXCEPT ![g] = Append(chain[g], m)]
      BY <1>1, <2>1 DEF GuestSpeaks
    <2>3. Append(chain[g], m) \in Seq(Messages)
      BY AppendOf DEF TypeOK
    <2>4. chain' \in [Generations -> Seq(Messages)]
      BY <2>2, <2>3 DEF TypeOK
    <2>. QED  BY <1>1, <2>4 DEF GuestSpeaks, TypeOK
  <1>. DEFINE m == Head(chain[g])
  <1>2. chain[g] # <<>> => [type |-> "importing", key |-> m.key] \in Messages
    BY HandledType DEF Messages
  <1>3. CASE HandleReady(g)
    <2>1. chain[g] # <<>>
      BY <1>3 DEF HandleReady, NextMessage
    <2>2. chain' \in [Generations -> Seq(Messages)]
      BY <1>2, <1>3, <2>1, HandledType DEF HandleReady
    <2>3. stage' \in Stages /\ readyTimer' \in Nat /\ readySeen' \in BOOLEAN
      <3>1. (UNCHANGED <<readySeen, stage, readyTimer>>) \/ (readySeen' = TRUE /\ stage' = "ready" /\ readyTimer' = 0)
              \/ (readySeen' = TRUE /\ UNCHANGED <<stage, readyTimer>>)
        BY <1>3 DEF HandleReady
      <3>2. stage \in Stages /\ readyTimer \in Nat /\ readySeen \in BOOLEAN /\ "ready" \in Stages
        BY DEF Stages, TypeOK
      <3>3. readySeen' \in BOOLEAN
        BY <3>1, <3>2
      <3>. QED  BY <3>1, <3>2, <3>3
    <2>. QED  BY <1>3, <2>2, <2>3 DEF HandleReady, TypeOK
  <1>4. CASE KeyImported(g)
    <2>1. chain[g] # <<>>
      BY <1>4 DEF KeyImported, NextMessage
    <2>2. chain' \in [Generations -> Seq(Messages)] /\ sessionKey' \in Keys
      BY <1>4, <2>1, HandledType DEF KeyImported
    <2>3. stage' \in Stages /\ readyTimer' \in Nat
      BY <1>4 DEF KeyImported, Stages
    <2>. QED  BY <1>4, <2>2, <2>3 DEF KeyImported, TypeOK
  <1>5. CASE HandleResult(g)
    <2>1. chain[g] # <<>>
      BY <1>5 DEF HandleResult, NextMessage
    <2>2. [type |-> "checking", key |-> sessionKey] \in Messages
      BY DEF Messages, TypeOK
    <2>3. chain' \in [Generations -> Seq(Messages)]
      BY <1>5, <2>1, <2>2, HandledType DEF HandleResult
    <2>. QED  BY <1>5, <2>3 DEF HandleResult, TypeOK
  <1>6. CASE CreditResult(g)
    <2>1. chain[g] # <<>>
      BY <1>6 DEF CreditResult, NextMessage
    <2>2. chain' \in [Generations -> Seq(Messages)] /\ credited' \subseteq Keys
      BY <1>6, <2>1, HandledType DEF CreditResult, TypeOK
    <2>. QED  BY <1>6, <2>2 DEF CreditResult, TypeOK
  <1>7. CASE DropStale(g)
    <2>1. chain' \in [Generations -> Seq(Messages)]
      BY <1>7, HandledType DEF DropStale
    <2>. QED  BY <1>7, <2>1 DEF DropStale, TypeOK
  <1>. QED  BY <1>1, <1>3, <1>4, <1>5, <1>6, <1>7 DEF HandleMessage

LEMMA SessionTypeStep == TypeOK /\ [Next]_vars => TypeOK'
  <1>. SUFFICES ASSUME TypeOK, [Next]_vars PROVE TypeOK'
    OBVIOUS
  <1>1. CASE UNCHANGED vars
    BY <1>1 DEF vars, ownerVars, keyVars, TypeOK
  <1>2. ASSUME NEW w \in waiting, GoesOn(w) PROVE TypeOK'
    BY <1>2, TaskType
  <1>3. ASSUME NEW o \in Visits, WorkspaceStep(o) PROVE TypeOK'
    BY <1>3, WorkspaceType
  <1>4. ASSUME NEW g \in Generations, BootStep(g) \/ EmulatorReady(g) PROVE TypeOK'
    BY <1>4, MachineType
  <1>5. ASSUME NEW g \in Generations, HandleMessage(g) \/ GuestSpeaks(g) PROVE TypeOK'
    BY <1>5, MessageType
  <1>6. CASE StopMachine \/ ReleaseSettles \/ ReadyTimerFires
    BY <1>6, MachineType
  <1>. QED  BY <1>1, <1>2, <1>3, <1>4, <1>5, <1>6 DEF Next, PageStep

\* The owner, the machines, the functions under way and their messages are of their types.
THEOREM SessionIsTyped == Spec => []TypeOK
  BY SessionTypeInit, SessionTypeStep, PTL DEF Spec

-----------------------------------------------------------------------------
(* Machines.  A machine is created only when the last release has settled:  *)
(* without a machine, the last release that has not settled is that of the  *)
(* current generation, which every function that goes on compares with its  *)
(* own.  And until it has settled, each living machine is waiting there.    *)

Live == {"loading", "initialising", "running"}

ControllerIsNewest == controller \in {0, generation}
ReleasedAreOlder == \A i \in 1..Len(releases) : releases[i].machine < generation
LastReleaseIsNewest ==
    controller = 0 /\ releases # <<>> => releases[Len(releases)].id = generation
LiveAreKnown ==
    \A g \in Generations : machine[g] \in Live =>
        g = controller \/ \E i \in 1..Len(releases) : releases[i].machine = g
OneLives ==
    \A g, h \in Generations : machine[g] \in Live /\ machine[h] \in Live => g = h

MachineInv ==
    ControllerIsNewest /\ ReleasedAreOlder /\ LastReleaseIsNewest /\ LiveAreKnown /\ OneLives

LEMMA MachineInvInit == Init => MachineInv
  <1>. SUFFICES ASSUME Init PROVE MachineInv
    OBVIOUS
  <1>1. controller = 0 /\ generation = 0 /\ releases = <<>>
    BY DEF Init
  <1>2. \A g \in Generations : machine[g] \notin Live
    BY DEF Init, Live
  <1>3. Len(<<>>) = 0
    OBVIOUS
  <1>. QED
    BY <1>1, <1>2, <1>3 DEF MachineInv, ControllerIsNewest, ReleasedAreOlder, LastReleaseIsNewest,
                            LiveAreKnown, OneLives

\* Releasing the machine, and what a function leaves alone while it does.
Releases == \E callers \in SUBSET Waiting : ReleaseCurrentVm(callers) /\ UNCHANGED <<machine, chain, stage>>

\* Creating a machine.
Creates ==
    CreateController /\ controller = 0 /\ releases = <<>> /\ UNCHANGED <<releases, chain, keyVars>>

\* Neither machine, nor release, nor message, nor key.
Leaves == UNCHANGED <<generation, controller, machine, releases, chain, keyVars, credited>>

LEMMA SettledMeans ==
    ASSUME TypeOK, MachineInv, NEW w \in waiting, Settled(w), generation = w.release, controller = 0
    PROVE  releases = <<>>
  <1>. SUFFICES ASSUME releases # <<>> PROVE FALSE
    OBVIOUS
  <1>1. releases[Len(releases)].id = generation
    BY DEF MachineInv, LastReleaseIsNewest
  <1>2. Len(releases) \in DOMAIN releases
    BY DEF TypeOK
  <1>. QED  BY <1>1, <1>2 DEF Settled

LEMMA BootKinds ==
    ASSUME NEW o, Boot(o), UNCHANGED <<releases, chain, keyVars>>
    PROVE  Creates \/ (Leaves /\ UNCHANGED stage)
  BY DEF Boot, MayBoot, Creates, Leaves, createVars

LEMMA FailKinds ==
    ASSUME TypeOK, NEW g, FailCurrentBoot(g), UNCHANGED <<machine, chain, stage>>
    PROVE  Releases \/ (Leaves /\ UNCHANGED stage)
  <1>1. {[task |-> "fail", release |-> generation + 1, owner |-> NoOwner,
          ownerGeneration |-> 0]} \in SUBSET Waiting
    BY DEF Waiting, TypeOK
  <1>. QED  BY <1>1 DEF FailCurrentBoot, Releases, Leaves, releaseVars

LEMMA DisposeKinds ==
    ASSUME TypeOK, NEW o, Dispose(o), UNCHANGED <<machine, chain, stage>>
    PROVE  Releases \/ (Leaves /\ UNCHANGED stage)
  <1>1. {[task |-> "dispose", release |-> generation + 1, owner |-> NoOwner,
          ownerGeneration |-> ownerGeneration + 1]} \in SUBSET Waiting
    BY DEF Waiting, TypeOK
  <1>. QED  BY <1>1 DEF Dispose, Releases, Leaves, releaseVars

LEMMA WorkspaceKinds ==
    ASSUME TypeOK, NEW o \in Visits, WorkspaceStep(o)
    PROVE  Releases \/ Creates \/ (Leaves /\ UNCHANGED stage)
  <1>1. CASE Handoff(o)
    <2>1. {} \in SUBSET Waiting /\ UNCHANGED <<machine, chain, stage>>
      BY <1>1 DEF Handoff
    <2>. QED  BY <1>1, <2>1 DEF Handoff, Releases, Leaves, releaseVars
  <1>2. CASE Mount(o)
    BY <1>2, BootKinds DEF Mount
  <1>3. CASE MountSummary(o)
    BY <1>3 DEF MountSummary, Leaves, createVars
  <1>4. CASE Finish(o)
    BY <1>4, DisposeKinds DEF Finish
  <1>5. CASE Leave(o)
    BY <1>5, DisposeKinds DEF Leave
  <1>6. CASE Restart(o)
    <2>1. {[task |-> "restart", release |-> generation + 1, owner |-> o,
            ownerGeneration |-> ownerGeneration]} \in SUBSET Waiting
      BY DEF Waiting, Owners, TypeOK
    <2>. QED  BY <1>6, <2>1 DEF Restart, Releases, Leaves, releaseVars
  <1>7. CASE Retry(o)
    BY <1>7, BootKinds DEF Retry
  <1>. QED  BY <1>1, <1>2, <1>3, <1>4, <1>5, <1>6, <1>7 DEF WorkspaceStep

LEMMA TaskKinds ==
    ASSUME TypeOK, MachineInv, NEW w \in waiting, GoesOn(w)
    PROVE  Creates \/ Leaves
  <1>1. CASE BootGoesOn(w)
    <2>1. CASE StillWanted(w)
      <3>1. releases = <<>> /\ controller = 0
        BY <1>1, <2>1, SettledMeans DEF BootGoesOn, StillWanted
      <3>. QED  BY <1>1, <2>1, <3>1 DEF BootGoesOn, Creates
    <2>2. CASE ~ StillWanted(w)
      BY <1>1, <2>2 DEF BootGoesOn, Leaves, createVars
    <2>. QED  BY <2>1, <2>2
  <1>2. CASE FailGoesOn(w) \/ DisposeGoesOn(w)
    BY <1>2 DEF FailGoesOn, DisposeGoesOn, Leaves
  <1>3. CASE RestartGoesOn(w)
    BY <1>3 DEF RestartGoesOn, Creates, Leaves, createVars
  <1>. QED  BY <1>1, <1>2, <1>3 DEF GoesOn

\* What a step does to the machines.
LEMMA StepKinds ==
    ASSUME TypeOK, MachineInv, Next
    PROVE  \/ Releases \/ Creates \/ Leaves \/ StopMachine \/ ReleaseSettles
           \/ \E g \in Generations :
                \/ StartResolves(g) \/ StartFails(g) \/ EmulatorReady(g)
                \/ GuestSpeaks(g) \/ HandleMessage(g)
  <1>1. ASSUME NEW o \in Visits, WorkspaceStep(o) PROVE Releases \/ Creates \/ Leaves
    BY <1>1, WorkspaceKinds
  <1>2. ASSUME NEW w \in waiting, GoesOn(w) PROVE Creates \/ Leaves
    BY <1>2, TaskKinds
  <1>3. ASSUME NEW g \in Generations, BootStarted(g) PROVE Leaves
    BY <1>3 DEF BootStarted, Leaves
  <1>4. ASSUME NEW g \in Generations, BootFails(g) PROVE Releases \/ Leaves
    BY <1>4, FailKinds DEF BootFails
  <1>5. ASSUME ReadyTimerFires PROVE Releases \/ Leaves
    BY <1>5, FailKinds DEF ReadyTimerFires
  <1>. QED  BY <1>1, <1>2, <1>3, <1>4, <1>5 DEF Next, PageStep, BootStep

LEMMA ReleasedFacts ==
    ASSUME TypeOK, MachineInv, Releases
    PROVE  /\ generation \in Nat /\ generation' = generation + 1 /\ controller' = 0
           /\ Len(releases) \in Nat /\ Len(releases') = Len(releases) + 1
           /\ releases'[Len(releases) + 1].machine = controller
           /\ releases'[Len(releases) + 1].id = generation + 1
           /\ \A i \in 1..Len(releases) : i \in 1..Len(releases') /\ releases'[i] = releases[i]
           /\ UNCHANGED <<machine, chain, stage>>
           /\ sessionKey' = NoKey /\ readySeen' = FALSE /\ credited' = {}
  <1>1. /\ releases' = Append(releases, [machine |-> controller, id |-> generation + 1])
        /\ generation' = generation + 1 /\ controller' = 0
        /\ sessionKey' = NoKey /\ readySeen' = FALSE /\ credited' = {}
        /\ UNCHANGED <<machine, chain, stage>>
    BY DEF Releases, ReleaseCurrentVm
  <1>2. generation \in Nat /\ [machine |-> controller, id |-> generation + 1] \in [machine : Nat, id : Nat]
    BY DEF TypeOK
  <1>3. /\ Len(releases) \in Nat /\ Len(releases') = Len(releases) + 1
        /\ releases'[Len(releases) + 1] = [machine |-> controller, id |-> generation + 1]
        /\ \A i \in 1..Len(releases) : releases'[i] = releases[i]
    BY <1>1, <1>2, AppendOf DEF TypeOK
  <1>. QED  BY <1>1, <1>2, <1>3

LEMMA MachineRelease == TypeOK /\ MachineInv /\ Releases => MachineInv'
  <1>. SUFFICES ASSUME TypeOK, MachineInv, Releases PROVE MachineInv'
    OBVIOUS
  <1>0. PICK n \in Nat : n = Len(releases)
    BY DEF TypeOK
  <1>1. /\ generation \in Nat /\ generation' = generation + 1 /\ controller' = 0
        /\ Len(releases') = n + 1 /\ n + 1 \in 1..Len(releases')
        /\ releases'[n + 1].machine = controller /\ releases'[n + 1].id = generation + 1
        /\ \A i \in 1..n : i \in 1..Len(releases') /\ releases'[i] = releases[i]
        /\ UNCHANGED machine
    BY <1>0, ReleasedFacts
  <1>2. ControllerIsNewest'
    BY <1>1 DEF ControllerIsNewest
  <1>3. ReleasedAreOlder'
    <2>. SUFFICES ASSUME NEW i \in 1..Len(releases') PROVE releases'[i].machine < generation'
      BY DEF ReleasedAreOlder
    <2>1. CASE i = n + 1
      BY <1>1, <2>1 DEF MachineInv, ControllerIsNewest
    <2>2. CASE i # n + 1
      <3>1. i \in 1..n
        BY <1>1, <2>2
      <3>2. releases[i].machine < generation /\ releases[i].machine \in Nat
        <4>1. releases[i].machine < generation
          BY <1>0, <3>1 DEF MachineInv, ReleasedAreOlder
        <4>2. releases \in Seq([machine : Nat, id : Nat]) /\ i \in 1..Len(releases)
          BY <1>0, <3>1 DEF TypeOK
        <4>3. releases[i] \in [machine : Nat, id : Nat]
          BY <4>2, ElementOf
        <4>. QED  BY <4>1, <4>3
      <3>. QED  BY <1>1, <3>1, <3>2
    <2>. QED  BY <2>1, <2>2
  <1>4. LastReleaseIsNewest'
    BY <1>1 DEF LastReleaseIsNewest
  <1>5. LiveAreKnown'
    <2>. SUFFICES ASSUME NEW g \in Generations, machine[g] \in Live
                  PROVE  \E i \in 1..Len(releases') : releases'[i].machine = g
      BY <1>1 DEF LiveAreKnown
    <2>1. CASE g = controller
      BY <1>1, <2>1
    <2>2. CASE g # controller
      <3>1. PICK i \in 1..n : releases[i].machine = g
        BY <1>0, <2>2 DEF MachineInv, LiveAreKnown
      <3>. QED  BY <1>1, <3>1
    <2>. QED  BY <2>1, <2>2
  <1>6. OneLives'
    BY <1>1 DEF MachineInv, OneLives
  <1>. QED  BY <1>2, <1>3, <1>4, <1>5, <1>6 DEF MachineInv

LEMMA CreatedFacts ==
    ASSUME TypeOK, MachineInv, Creates
    PROVE  /\ generation \in Nat /\ generation' = generation + 1 /\ controller' = generation + 1
           /\ controller = 0 /\ releases = <<>> /\ releases' = <<>>
           /\ \A g \in Generations :
                machine'[g] = IF g = generation + 1 THEN "loading" ELSE machine[g]
           /\ \A g \in Generations : machine[g] \notin Live
           /\ stage' = "loading-assets" /\ credited' = {}
           /\ UNCHANGED <<chain, readySeen, sessionKey>>
  <1>1. /\ generation' = generation + 1 /\ controller' = generation + 1
        /\ controller = 0 /\ releases = <<>> /\ releases' = <<>>
        /\ machine' = [machine EXCEPT ![generation + 1] = "loading"]
        /\ stage' = "loading-assets" /\ credited' = {}
        /\ UNCHANGED <<chain, readySeen, sessionKey>>
    BY DEF Creates, CreateController, keyVars
  <1>2. \A g \in Generations : machine[g] \notin Live
    <2>1. Len(<<>>) = 0
      OBVIOUS
    <2>. QED  BY <1>1, <2>1, GenerationsArePositive DEF MachineInv, LiveAreKnown
  <1>. QED  BY <1>1, <1>2 DEF TypeOK

LEMMA MachineCreate == TypeOK /\ MachineInv /\ Creates => MachineInv'
  <1>. SUFFICES ASSUME TypeOK, MachineInv, Creates PROVE MachineInv'
    OBVIOUS
  <1>1. /\ generation \in Nat /\ generation' = generation + 1 /\ controller' = generation + 1
        /\ releases' = <<>>
        /\ \A g \in Generations :
             machine'[g] = IF g = generation + 1 THEN "loading" ELSE machine[g]
        /\ \A g \in Generations : machine[g] \notin Live
    BY CreatedFacts
  <1>2. Len(releases') = 0
    BY <1>1
  <1>3. \A g \in Generations : machine'[g] \in Live => g = generation + 1
    BY <1>1
  <1>. QED
    BY <1>1, <1>2, <1>3 DEF MachineInv, ControllerIsNewest, ReleasedAreOlder, LastReleaseIsNewest,
                            LiveAreKnown, OneLives

\* A machine that goes through its life does not come back to it.
LEMMA MachineAges ==
    ASSUME MachineInv, UNCHANGED <<generation, controller, releases>>,
           \A g \in Generations : machine'[g] \in Live => machine[g] \in Live
    PROVE  MachineInv'
  BY DEF MachineInv, ControllerIsNewest, ReleasedAreOlder, LastReleaseIsNewest, LiveAreKnown, OneLives

LEMMA MachineSettle == TypeOK /\ MachineInv /\ ReleaseSettles => MachineInv'
  <1>. SUFFICES ASSUME TypeOK, MachineInv, ReleaseSettles PROVE MachineInv'
    OBVIOUS
  <1>1. /\ releases # <<>> /\ releases' = Tail(releases)
        /\ UNCHANGED <<generation, controller, machine>>
    BY DEF ReleaseSettles
  <1>2. /\ Head(releases) = releases[1] /\ Len(releases) \in Nat
        /\ Len(releases') = Len(releases) - 1
        /\ \A i \in 1..Len(releases') : i + 1 \in 1..Len(releases) /\ releases'[i] = releases[i + 1]
        /\ \A i \in 1..Len(releases) : i # 1 =>
             i - 1 \in 1..Len(releases') /\ releases'[i - 1] = releases[i]
    BY <1>1, TailOf DEF TypeOK
  <1>3. ReleasedAreOlder'
    BY <1>1, <1>2 DEF MachineInv, ReleasedAreOlder
  <1>4. LastReleaseIsNewest'
    <2>. SUFFICES ASSUME controller = 0, releases' # <<>>
                  PROVE  releases'[Len(releases')].id = generation
      BY <1>1 DEF LastReleaseIsNewest
    <2>1. releases' \in Seq([machine : Nat, id : Nat])
      BY <1>1, TailOf DEF TypeOK
    <2>2. Len(releases') # 0
      BY <2>1
    <2>3. Len(releases') \in 1..Len(releases') /\ Len(releases') + 1 = Len(releases)
      BY <1>2, <2>1, <2>2
    <2>. QED  BY <1>1, <1>2, <2>3 DEF MachineInv, LastReleaseIsNewest
  <1>5. LiveAreKnown'
    <2>. SUFFICES ASSUME NEW g \in Generations, machine[g] \in Live, g # controller
                  PROVE  \E i \in 1..Len(releases') : releases'[i].machine = g
      BY <1>1 DEF LiveAreKnown
    <2>1. PICK i \in 1..Len(releases) : releases[i].machine = g
      BY DEF MachineInv, LiveAreKnown
    <2>2. i # 1
      <3>. SUFFICES ASSUME i = 1 PROVE FALSE
        OBVIOUS
      <3>1. Head(releases).machine = g
        BY <1>2, <2>1
      <3>2. g # 0
        BY GenerationsArePositive
      <3>3. machine[g] \in {"gone", "doomed", "failed"}
        BY <3>1, <3>2 DEF ReleaseSettles
      <3>. QED  BY <3>3 DEF Live
    <2>3. i - 1 \in 1..Len(releases') /\ releases'[i - 1] = releases[i]
      BY <1>2, <2>2
    <2>. QED  BY <2>1, <2>3
  <1>. QED  BY <1>1, <1>3, <1>4, <1>5 DEF MachineInv, ControllerIsNewest, OneLives

LEMMA MachineStep == TypeOK /\ MachineInv /\ [Next]_vars => MachineInv'
  <1>. SUFFICES ASSUME TypeOK, MachineInv, [Next]_vars PROVE MachineInv'
    OBVIOUS
  <1>1. CASE UNCHANGED vars
    BY <1>1, MachineAges DEF vars
  <1>2. CASE Leaves
    BY <1>2, MachineAges DEF Leaves
  <1>3. CASE StopMachine
    BY <1>3, MachineAges DEF StopMachine, Live, TypeOK
  <1>4. ASSUME NEW g \in Generations, StartResolves(g) PROVE MachineInv'
    BY <1>4, MachineAges DEF StartResolves, Live, TypeOK
  <1>5. ASSUME NEW g \in Generations, StartFails(g) PROVE MachineInv'
    BY <1>5, MachineAges DEF StartFails, Live, TypeOK
  <1>6. ASSUME NEW g \in Generations, EmulatorReady(g) PROVE MachineInv'
    BY <1>6, MachineAges DEF EmulatorReady, Live, TypeOK
  <1>7. ASSUME NEW g \in Generations, GuestSpeaks(g) PROVE MachineInv'
    BY <1>7, MachineAges DEF GuestSpeaks
  <1>8. ASSUME NEW g \in Generations, HandleMessage(g) PROVE MachineInv'
    BY <1>8, MachineAges
    DEF HandleMessage, HandleReady, KeyImported, HandleResult, CreditResult, DropStale
  <1>. QED
    BY <1>1, <1>2, <1>3, <1>4, <1>5, <1>6, <1>7, <1>8, StepKinds, MachineRelease, MachineCreate,
       MachineSettle

\* Two emulators never run side by side, however restarts, failures and changes of
\* workspace overlap: releaseCurrentVm, the barrier and the generations that boot,
\* restart and failCurrentBoot compare.
THEOREM OneMachineAtATime == Spec => []OneMachine
  <1>1. MachineInv => OneMachine
    <2>. SUFFICES ASSUME MachineInv PROVE OneMachine
      OBVIOUS
    <2>. DEFINE alive == {g \in Generations : machine[g] \in {"loading", "initialising", "running"}}
    <2>1. \A g, h \in alive : g = h
      BY DEF MachineInv, OneLives, Live
    <2>2. CASE alive = {}
      BY <2>2, FS_EmptySet DEF OneMachine
    <2>3. CASE alive # {}
      <3>1. PICK g \in alive : TRUE
        BY <2>3
      <3>2. alive = {g}
        BY <2>1, <3>1
      <3>. QED  BY <3>2, FS_Singleton DEF OneMachine
    <2>. QED  BY <2>2, <2>3
  <1>. QED  BY <1>1, SessionTypeInit, SessionTypeStep, MachineInvInit, MachineStep, PTL DEF Spec

-----------------------------------------------------------------------------
(* Keys.  Only the machine of the current generation is heard; its first     *)
(* message is the ready message of its own init, and what is imported or     *)
(* checked since was signed by that.                                         *)

\* Keys under way in the messages of machine g are its own.
Own(q, g) == \A i \in 1..Len(q) : q[i].type \in {"checking", "importing"} => q[i].key = g

OwnKeys == sessionKey \in {NoKey, generation} /\ credited \subseteq {generation}
NoMachineNoKey == controller = 0 => sessionKey = NoKey /\ ~ readySeen
OnlyCurrentSpeaks ==
    \A g \in Generations : g > generation \/ (g = generation /\ controller = 0) => chain[g] = <<>>
CurrentSpeaks ==
    \A g \in Generations : g = generation =>
        Own(chain[g], g) /\ (chain[g] # <<>> => machine[g] = "running")
InitSpeaksFirst ==
    \A g \in Generations : g = generation /\ ~ readySeen /\ chain[g] # <<>> =>
        Head(chain[g]).type = "ready" /\ Head(chain[g]).key \in {g, NoKey}

KeyInv == OwnKeys /\ NoMachineNoKey /\ OnlyCurrentSpeaks /\ CurrentSpeaks /\ InitSpeaksFirst

LEMMA OwnChains ==
    ASSUME NEW g, NEW q \in Seq(Messages), Own(q, g)
    PROVE  /\ q # <<>> => Own(Tail(q), g)
           /\ \A m \in Messages : q # <<>> /\ m.key = g => Own(<<m>> \o Tail(q), g)
           /\ \A m \in Messages : m.type \in {"ready", "result"} => Own(Append(q, m), g)
           /\ q # <<>> /\ Head(q).type \in {"checking", "importing"} => Head(q).key = g
  <1>1. q # <<>> => Own(Tail(q), g)
    BY TailOf DEF Own
  <1>2. ASSUME NEW m \in Messages, q # <<>>, m.key = g PROVE Own(<<m>> \o Tail(q), g)
    <2>1. /\ Len(<<m>> \o Tail(q)) = Len(q) /\ (<<m>> \o Tail(q))[1] = m
          /\ \A i \in 1..Len(q) : i # 1 => (<<m>> \o Tail(q))[i] = q[i]
      BY <1>2, ReplacedHead
    <2>. DEFINE r == <<m>> \o Tail(q)
    <2>. HIDE DEF r
    <2>2. Len(r) = Len(q) /\ r[1] = m /\ \A i \in 1..Len(q) : i # 1 => r[i] = q[i]
      BY <2>1 DEF r
    <2>3. Own(r, g)
      BY <1>2, <2>2 DEF Own
    <2>. QED  BY <2>3 DEF r
  <1>3. ASSUME NEW m \in Messages, m.type \in {"ready", "result"} PROVE Own(Append(q, m), g)
    <2>. DEFINE r == Append(q, m)
    <2>1. /\ Len(q) \in Nat /\ Len(r) = Len(q) + 1 /\ r[Len(q) + 1] = m
          /\ \A i \in 1..Len(q) : r[i] = q[i]
      BY AppendOf
    <2>. HIDE DEF r
    <2>2. Own(r, g)
      <3>. SUFFICES ASSUME NEW i \in 1..Len(r), r[i].type \in {"checking", "importing"}
                    PROVE  r[i].key = g
        BY DEF Own
      <3>1. i # Len(q) + 1
        BY <1>3, <2>1
      <3>2. i \in 1..Len(q)
        BY <2>1, <3>1
      <3>. QED  BY <2>1, <3>2 DEF Own
    <2>. QED  BY <2>2 DEF r
  <1>4. q # <<>> /\ Head(q).type \in {"checking", "importing"} => Head(q).key = g
    BY TailOf DEF Own
  <1>. QED  BY <1>1, <1>2, <1>3, <1>4

LEMMA KeyInvInit == Init => KeyInv
  <1>. SUFFICES ASSUME Init PROVE KeyInv
    OBVIOUS
  <1>1. /\ generation = 0 /\ sessionKey = NoKey /\ credited = {} /\ readySeen = FALSE
        /\ \A g \in Generations : chain[g] = <<>>
    BY DEF Init
  <1>2. \A g \in Generations : g # generation
    BY <1>1, GenerationsArePositive
  <1>. QED
    BY <1>1, <1>2 DEF KeyInv, OwnKeys, NoMachineNoKey, OnlyCurrentSpeaks, CurrentSpeaks, InitSpeaksFirst

\* What the page holds of the next generation before it begins: nothing.
LEMMA NextIsSilent ==
    ASSUME TypeOK, KeyInv
    PROVE  \A g \in Generations : g >= generation + 1 => chain[g] = <<>>
  BY GenerationsArePositive DEF KeyInv, OnlyCurrentSpeaks, TypeOK

LEMMA KeyRelease == TypeOK /\ MachineInv /\ KeyInv /\ Releases => KeyInv'
  <1>. SUFFICES ASSUME TypeOK, MachineInv, KeyInv, Releases PROVE KeyInv'
    OBVIOUS
  <1>1. /\ generation \in Nat /\ generation' = generation + 1 /\ controller' = 0
        /\ UNCHANGED <<machine, chain>>
        /\ sessionKey' = NoKey /\ readySeen' = FALSE /\ credited' = {}
    BY ReleasedFacts
  <1>2. \A g \in Generations : g >= generation' => chain'[g] = <<>>
    BY <1>1, NextIsSilent
  <1>3. \A g \in Generations : g > generation' \/ g = generation' => g >= generation'
    BY <1>1, GenerationsArePositive
  <1>4. Len(<<>>) = 0
    OBVIOUS
  <1>5. \A g : Own(<<>>, g)
    BY <1>4 DEF Own
  <1>6. \A g \in Generations : g > generation' \/ g = generation' => chain'[g] = <<>>
    BY <1>2, <1>3
  <1>7. OnlyCurrentSpeaks' /\ CurrentSpeaks' /\ InitSpeaksFirst'
    BY <1>5, <1>6 DEF OnlyCurrentSpeaks, CurrentSpeaks, InitSpeaksFirst
  <1>. QED  BY <1>1, <1>7 DEF KeyInv, OwnKeys, NoMachineNoKey

LEMMA KeyCreate == TypeOK /\ MachineInv /\ KeyInv /\ Creates => KeyInv'
  <1>. SUFFICES ASSUME TypeOK, MachineInv, KeyInv, Creates PROVE KeyInv'
    OBVIOUS
  <1>1. /\ generation \in Nat /\ generation' = generation + 1 /\ controller' = generation + 1
        /\ controller = 0 /\ credited' = {} /\ UNCHANGED <<chain, readySeen, sessionKey>>
    BY CreatedFacts
  <1>2. sessionKey' = NoKey /\ controller' # 0
    BY <1>1 DEF KeyInv, NoMachineNoKey
  <1>3. \A g \in Generations : g > generation' \/ g = generation' => g >= generation + 1
    BY <1>1, GenerationsArePositive
  <1>4. \A g \in Generations : g > generation' \/ g = generation' => chain'[g] = <<>>
    BY <1>1, <1>3, NextIsSilent
  <1>5. Len(<<>>) = 0
    OBVIOUS
  <1>6. \A g : Own(<<>>, g)
    BY <1>5 DEF Own
  <1>7. OnlyCurrentSpeaks' /\ CurrentSpeaks' /\ InitSpeaksFirst'
    BY <1>4, <1>6 DEF OnlyCurrentSpeaks, CurrentSpeaks, InitSpeaksFirst
  <1>. QED  BY <1>1, <1>2, <1>7 DEF KeyInv, OwnKeys, NoMachineNoKey

\* The machine that runs for the current generation is left alone.
LEMMA KeyMachine ==
    ASSUME KeyInv, UNCHANGED <<generation, controller, chain, readySeen, sessionKey, credited>>,
           \A g \in Generations : g = generation /\ machine[g] = "running" => machine'[g] = "running"
    PROVE  KeyInv'
  BY DEF KeyInv, OwnKeys, NoMachineNoKey, OnlyCurrentSpeaks, CurrentSpeaks, InitSpeaksFirst

LEMMA KeyStop == TypeOK /\ MachineInv /\ KeyInv /\ StopMachine => KeyInv'
  <1>. SUFFICES ASSUME TypeOK, MachineInv, KeyInv, StopMachine PROVE KeyInv'
    OBVIOUS
  <1>. DEFINE m == Head(releases).machine
  <1>1. releases # <<>> /\ \A g \in Generations : g # m => machine'[g] = machine[g]
    BY DEF StopMachine, TypeOK
  <1>2. m < generation
    <2>1. Head(releases) = releases[1] /\ 1 \in 1..Len(releases)
      BY <1>1, TailOf DEF TypeOK
    <2>. QED  BY <2>1 DEF MachineInv, ReleasedAreOlder
  <1>3. generation \in Nat
    BY DEF TypeOK
  <1>4. generation # m
    <2>. HIDE DEF m
    <2>. QED  BY <1>2, <1>3
  <1>5. UNCHANGED <<generation, controller, chain, readySeen, sessionKey, credited>>
    BY DEF StopMachine, keyVars
  <1>. QED  BY <1>1, <1>4, <1>5, KeyMachine

\* The messages of one machine of the current generation go on.
LEMMA KeyMessage ==
    ASSUME TypeOK, KeyInv, NEW g \in Generations, g = generation, controller = g,
           machine[g] = "running", UNCHANGED <<generation, controller, machine>>,
           NEW q \in Seq(Messages), chain' = [chain EXCEPT ![g] = q], Own(q, g),
           OwnKeys',
           ~ readySeen' /\ q # <<>> => Head(q).type = "ready" /\ Head(q).key \in {g, NoKey}
    PROVE  KeyInv'
  <1>1. chain'[g] = q /\ \A h \in Generations : h # g => chain'[h] = chain[h]
    BY DEF TypeOK
  <1>2. g \in Nat /\ controller' # 0
    BY GenerationsArePositive
  <1>3. OnlyCurrentSpeaks'
    BY <1>1, <1>2 DEF KeyInv, OnlyCurrentSpeaks
  <1>4. CurrentSpeaks' /\ InitSpeaksFirst'
    BY <1>1 DEF CurrentSpeaks, InitSpeaksFirst
  <1>. QED  BY <1>2, <1>3, <1>4 DEF KeyInv, NoMachineNoKey

LEMMA SpeakerIsCurrent ==
    ASSUME TypeOK, MachineInv, KeyInv, NEW g \in Generations, generation = g, chain[g] # <<>>
    PROVE  /\ controller = g /\ machine[g] = "running"
           /\ chain[g] \in Seq(Messages) /\ Own(chain[g], g)
           /\ Head(chain[g]) \in Messages /\ Tail(chain[g]) \in Seq(Messages)
           /\ Own(Tail(chain[g]), g)
           /\ ~ readySeen => Head(chain[g]).type = "ready" /\ Head(chain[g]).key \in {g, NoKey}
  <1>1. controller = g
    BY DEF MachineInv, ControllerIsNewest, KeyInv, OnlyCurrentSpeaks
  <1>2. machine[g] = "running" /\ Own(chain[g], g)
    BY DEF KeyInv, CurrentSpeaks
  <1>3. chain[g] \in Seq(Messages)
    BY DEF TypeOK
  <1>. QED  BY <1>1, <1>2, <1>3, TailOf, OwnChains DEF KeyInv, InitSpeaksFirst

LEMMA KeySpeaks ==
    ASSUME TypeOK, MachineInv, KeyInv, NEW g \in Generations, GuestSpeaks(g)
    PROVE  KeyInv'
  <1>1. /\ controller = g /\ machine[g] = "running"
        /\ UNCHANGED <<generation, controller, machine, readySeen, sessionKey, credited>>
    BY DEF GuestSpeaks, keyVars
  <1>2. g = generation
    BY <1>1, GenerationsArePositive DEF MachineInv, ControllerIsNewest
  <1>3. PICK m \in Says(g) : chain' = [chain EXCEPT ![g] = Append(chain[g], m)]
    BY DEF GuestSpeaks
  <1>4. m \in Messages /\ m.type \in {"ready", "result"}
    BY <1>3, KeysDiffer DEF Says, Messages, Keys
  <1>5. ~ readySeen /\ chain[g] = <<>> => m.type = "ready" /\ m.key \in {g, NoKey}
    BY <1>3 DEF Says
  <1>6. chain[g] \in Seq(Messages) /\ Own(chain[g], g)
    BY <1>2 DEF TypeOK, KeyInv, CurrentSpeaks
  <1>7. Append(chain[g], m) \in Seq(Messages) /\ Own(Append(chain[g], m), g)
    BY <1>4, <1>6, AppendOf, OwnChains
  <1>8. chain[g] = <<>> => Head(Append(chain[g], m)) = m
    OBVIOUS
  <1>9. chain[g] # <<>> => Head(Append(chain[g], m)) = Head(chain[g])
    BY <1>6
  <1>10. ~ readySeen => /\ Head(Append(chain[g], m)).type = "ready"
                        /\ Head(Append(chain[g], m)).key \in {g, NoKey}
    BY <1>2, <1>5, <1>8, <1>9 DEF KeyInv, InitSpeaksFirst
  <1>11. OwnKeys'
    BY <1>1 DEF KeyInv, OwnKeys
  <1>. QED  BY <1>1, <1>2, <1>3, <1>7, <1>10, <1>11, KeyMessage

LEMMA KeyHandles ==
    ASSUME TypeOK, MachineInv, KeyInv, NEW g \in Generations, HandleMessage(g)
    PROVE  KeyInv'
  <1>. USE DEF keyVars, NextMessage
  <1>. DEFINE m == Head(chain[g])
  <1>1. CASE HandleReady(g)
    <2>1. /\ generation = g /\ chain[g] # <<>>
          /\ UNCHANGED <<generation, controller, machine, sessionKey, credited>>
      BY <1>1 DEF HandleReady
    <2>2. OwnKeys'
      BY <2>1 DEF KeyInv, OwnKeys
    <2>3. readySeen' = TRUE
      BY <1>1 DEF HandleReady, TypeOK
    <2>4. CASE Handled(g)
      BY <2>1, <2>2, <2>3, <2>4, SpeakerIsCurrent, KeyMessage DEF Handled
    <2>5. CASE ~ readySeen /\ m.key # NoKey /\ Suspended(g, [type |-> "importing", key |-> m.key])
      <3>1. m.key = g
        BY <2>1, <2>5, SpeakerIsCurrent
      <3>2. [type |-> "importing", key |-> m.key] \in Messages
        BY <3>1, KeysDiffer DEF Messages
      <3>. DEFINE q == <<[type |-> "importing", key |-> m.key]>> \o Tail(chain[g])
      <3>3. q \in Seq(Messages)
        BY <2>1, <3>2, SpeakerIsCurrent, ReplacedHead
      <3>4. Own(q, g)
        BY <2>1, <3>1, <3>2, SpeakerIsCurrent, OwnChains
      <3>5. chain' = [chain EXCEPT ![g] = q]
        BY <2>5 DEF Suspended
      <3>. HIDE DEF q
      <3>. QED  BY <2>1, <2>2, <2>3, <3>3, <3>4, <3>5, SpeakerIsCurrent, KeyMessage
    <2>. QED  BY <1>1, <2>4, <2>5 DEF HandleReady
  <1>2. CASE KeyImported(g)
    <2>1. /\ generation = g /\ chain[g] # <<>> /\ m.type = "importing" /\ Handled(g)
          /\ sessionKey' = m.key
          /\ UNCHANGED <<generation, controller, machine, credited, readySeen>>
      BY <1>2 DEF KeyImported
    <2>2. m.key = g /\ readySeen
      BY <2>1, SpeakerIsCurrent, OwnChains DEF TypeOK
    <2>3. OwnKeys'
      BY <2>1, <2>2 DEF KeyInv, OwnKeys
    <2>. QED  BY <2>1, <2>2, <2>3, SpeakerIsCurrent, KeyMessage DEF Handled
  <1>3. CASE HandleResult(g)
    <2>1. /\ generation = g /\ chain[g] # <<>> /\ m.type = "result"
          /\ UNCHANGED <<generation, controller, machine, sessionKey, credited, readySeen>>
      BY <1>3 DEF HandleResult
    <2>2. readySeen
      BY <2>1, SpeakerIsCurrent DEF TypeOK
    <2>3. OwnKeys'
      BY <2>1 DEF KeyInv, OwnKeys
    <2>4. CASE Handled(g)
      BY <2>1, <2>2, <2>3, <2>4, SpeakerIsCurrent, KeyMessage DEF Handled
    <2>5. CASE sessionKey # NoKey /\ Suspended(g, [type |-> "checking", key |-> sessionKey])
      <3>1. sessionKey = g
        BY <2>1, <2>5 DEF KeyInv, OwnKeys
      <3>2. [type |-> "checking", key |-> sessionKey] \in Messages
        BY <3>1, KeysDiffer DEF Messages
      <3>. DEFINE q == <<[type |-> "checking", key |-> sessionKey]>> \o Tail(chain[g])
      <3>3. q \in Seq(Messages)
        BY <2>1, <3>2, SpeakerIsCurrent, ReplacedHead
      <3>4. Own(q, g)
        BY <2>1, <3>1, <3>2, SpeakerIsCurrent, OwnChains
      <3>5. chain' = [chain EXCEPT ![g] = q]
        BY <2>5 DEF Suspended
      <3>. HIDE DEF q
      <3>. QED  BY <2>1, <2>2, <2>3, <3>3, <3>4, <3>5, SpeakerIsCurrent, KeyMessage
    <2>. QED  BY <1>3, <2>4, <2>5 DEF HandleResult
  <1>4. CASE CreditResult(g)
    <2>1. /\ generation = g /\ chain[g] # <<>> /\ m.type = "checking" /\ Handled(g)
          /\ credited' = credited \cup {m.key}
          /\ UNCHANGED <<generation, controller, machine, sessionKey, readySeen>>
      BY <1>4 DEF CreditResult
    <2>2. m.key = g /\ readySeen
      BY <2>1, SpeakerIsCurrent, OwnChains DEF TypeOK
    <2>3. OwnKeys'
      BY <2>1, <2>2 DEF KeyInv, OwnKeys
    <2>. QED  BY <2>1, <2>2, <2>3, SpeakerIsCurrent, KeyMessage DEF Handled
  <1>5. CASE DropStale(g)
    <2>1. /\ generation # g /\ chain[g] # <<>> /\ chain' = [chain EXCEPT ![g] = Tail(chain[g])]
          /\ UNCHANGED <<generation, controller, machine, sessionKey, credited, readySeen>>
      BY <1>5 DEF DropStale, Handled
    <2>2. \A h \in Generations : h # g => chain'[h] = chain[h]
      BY <2>1 DEF TypeOK
    <2>3. g \in Nat /\ generation \in Nat /\ ~ (g > generation)
      BY <2>1, GenerationsArePositive DEF KeyInv, OnlyCurrentSpeaks, TypeOK
    <2>4. OnlyCurrentSpeaks'
      BY <2>1, <2>2, <2>3 DEF KeyInv, OnlyCurrentSpeaks
    <2>. QED  BY <2>1, <2>2, <2>4 DEF KeyInv, OwnKeys, NoMachineNoKey, CurrentSpeaks, InitSpeaksFirst
  <1>. QED  BY <1>1, <1>2, <1>3, <1>4, <1>5 DEF HandleMessage

LEMMA KeyStep == TypeOK /\ MachineInv /\ KeyInv /\ [Next]_vars => KeyInv'
  <1>. SUFFICES ASSUME TypeOK, MachineInv, KeyInv, [Next]_vars PROVE KeyInv'
    OBVIOUS
  <1>. USE DEF keyVars
  <1>1. CASE UNCHANGED vars
    BY <1>1, KeyMachine DEF vars
  <1>2. CASE Leaves
    BY <1>2, KeyMachine DEF Leaves
  <1>3. CASE ReleaseSettles
    BY <1>3, KeyMachine DEF ReleaseSettles
  <1>4. ASSUME NEW g \in Generations, StartResolves(g) PROVE KeyInv'
    BY <1>4, KeyMachine DEF StartResolves, TypeOK
  <1>5. ASSUME NEW g \in Generations, StartFails(g) PROVE KeyInv'
    BY <1>5, KeyMachine DEF StartFails, TypeOK
  <1>6. ASSUME NEW g \in Generations, EmulatorReady(g) PROVE KeyInv'
    BY <1>6, KeyMachine DEF EmulatorReady, TypeOK
  <1>. QED
    BY <1>1, <1>2, <1>3, <1>4, <1>5, <1>6, StepKinds, KeyRelease, KeyCreate, KeyStop, KeySpeaks,
       KeyHandles

\* Only results that the current machine's own init signed count, although the key is
\* imported and each signature checked while the machine may be exchanged, and although
\* anybody in the guest may send keys and results after the first ready.
THEOREM OnlyItsOwnResultsCount == Spec => []CreditedBySession
  <1>1. KeyInv => CreditedBySession
    BY DEF KeyInv, OwnKeys, CreditedBySession
  <1>. QED
    BY <1>1, SessionTypeInit, SessionTypeStep, MachineInvInit, MachineStep, KeyInvInit, KeyStep, PTL
    DEF Spec

-----------------------------------------------------------------------------
(* Functions under way, the owner and the stage.  A function that goes on    *)
(* remembers a release of the past; once a machine has been created since,   *)
(* it is no longer the current one.  And what boots or restarts does so for  *)
(* a visit that is mounted as long as it is the owner.                       *)

TasksAreOlder ==
    \A w \in waiting : w.release <= generation /\ (controller # 0 => w.release < generation)
BootsForVisits ==
    \A w \in waiting : w.task \in {"boot", "restart"} =>
        /\ w.owner \in Visits /\ visit[w.owner] \notin {"unborn", "setup"}
        /\ activeOwner = w.owner => visit[w.owner] = "mounted"
MachineIsMounted == controller # 0 => activeOwner \in Visits /\ visit[activeOwner] = "mounted"

TaskInv == TasksAreOlder /\ BootsForVisits /\ MachineIsMounted

LEMMA TaskInvInit == Init => TaskInv
  BY DEF Init, TaskInv, TasksAreOlder, BootsForVisits, MachineIsMounted

\* A release: what it adds remembers it, and boots or restarts for the owner at most.
LEMMA TaskRelease ==
    ASSUME TypeOK, TaskInv, NEW callers \in SUBSET Waiting, ReleaseCurrentVm(callers),
           \A w \in callers : w.release = generation + 1,
           (BootsForVisits /\ \A w \in callers : w.task \in {"boot", "restart"} =>
                /\ w.owner \in Visits /\ visit[w.owner] = "mounted")
    PROVE  /\ controller' = 0 /\ TasksAreOlder' /\ MachineIsMounted'
           /\ waiting' = waiting \cup callers
  <1>1. /\ generation' = generation + 1 /\ controller' = 0 /\ waiting' = waiting \cup callers
    BY DEF ReleaseCurrentVm
  <1>2. generation \in Nat /\ \A w \in waiting : w.release \in Nat
    BY DEF TypeOK, Waiting
  <1>3. TasksAreOlder'
    BY <1>1, <1>2 DEF TaskInv, TasksAreOlder
  <1>. QED  BY <1>1, <1>3 DEF MachineIsMounted

LEMMA TaskCreate ==
    ASSUME TypeOK, TaskInv, CreateController, waiting' \subseteq waiting,
           activeOwner' \in Visits, visit'[activeOwner'] = "mounted"
    PROVE  TasksAreOlder' /\ MachineIsMounted'
  <1>1. generation' = generation + 1 /\ generation \in Nat /\ \A w \in waiting : w.release \in Nat
    BY DEF CreateController, TypeOK, Waiting
  <1>2. TasksAreOlder'
    BY <1>1 DEF TaskInv, TasksAreOlder
  <1>. QED  BY <1>2 DEF MachineIsMounted

\* Nothing is created and no function is added.
LEMMA TaskNothing ==
    ASSUME TaskInv, UNCHANGED <<generation, controller, activeOwner, visit>>,
           waiting' \subseteq waiting
    PROVE  TaskInv'
  BY DEF TaskInv, TasksAreOlder, BootsForVisits, MachineIsMounted

LEMMA TaskFail ==
    ASSUME TypeOK, TaskInv, NEW g, FailCurrentBoot(g), UNCHANGED ownerVars
    PROVE  TaskInv'
  <1>. DEFINE f == [task |-> "fail", release |-> generation + 1, owner |-> NoOwner, ownerGeneration |-> 0]
  <1>1. CASE g = generation
    <2>1. {f} \in SUBSET Waiting /\ f.release = generation + 1 /\ f.task = "fail"
      BY DEF Waiting, TypeOK
    <2>2. ReleaseCurrentVm({f})
      BY <1>1 DEF FailCurrentBoot
    <2>. HIDE DEF f
    <2>3. TasksAreOlder' /\ MachineIsMounted' /\ waiting' = waiting \cup {f}
      BY <2>1, <2>2, TaskRelease DEF TaskInv
    <2>4. BootsForVisits'
      BY <2>1, <2>3 DEF TaskInv, BootsForVisits, ownerVars
    <2>. QED  BY <2>3, <2>4 DEF TaskInv
  <1>2. CASE g # generation
    BY <1>2, TaskNothing DEF FailCurrentBoot, releaseVars, ownerVars
  <1>. QED  BY <1>1, <1>2

\* The workspace of o is no longer mounted; if it owned the machine, it releases it.
LEMMA TaskDispose ==
    ASSUME TypeOK, TaskInv, NEW o \in Visits, NEW to, visit' = [visit EXCEPT ![o] = to],
           to \notin {"unborn", "setup"}, Dispose(o)
    PROVE  TaskInv'
  <1>. DEFINE d == [task |-> "dispose", release |-> generation + 1, owner |-> NoOwner,
                    ownerGeneration |-> ownerGeneration + 1]
  <1>0. visit'[o] = to /\ \A v \in Visits : v # o => visit'[v] = visit[v]
    BY DEF TypeOK
  <1>1. CASE activeOwner = o
    <2>1. {d} \in SUBSET Waiting /\ d.release = generation + 1 /\ d.task = "dispose"
      BY DEF Waiting, TypeOK
    <2>2. ReleaseCurrentVm({d}) /\ activeOwner' = NoOwner
      BY <1>1 DEF Dispose
    <2>. HIDE DEF d
    <2>3. TasksAreOlder' /\ MachineIsMounted' /\ waiting' = waiting \cup {d}
      BY <2>1, <2>2, TaskRelease DEF TaskInv
    <2>4. BootsForVisits'
      BY <1>0, <2>1, <2>2, <2>3 DEF TaskInv, BootsForVisits
    <2>. QED  BY <2>3, <2>4 DEF TaskInv
  <1>2. CASE activeOwner # o
    <2>1. UNCHANGED <<activeOwner, generation, controller, waiting>>
      BY <1>2 DEF Dispose, releaseVars
    <2>. QED  BY <1>0, <1>2, <2>1 DEF TaskInv, TasksAreOlder, BootsForVisits, MachineIsMounted
  <1>. QED  BY <1>1, <1>2

LEMMA TaskWorkspace ==
    ASSUME TypeOK, MachineInv, TaskInv, NEW o \in Visits, WorkspaceStep(o)
    PROVE  TaskInv'
  <1>1. CASE Handoff(o)
    <2>1. /\ visit[o] = "unborn" /\ visit' = [visit EXCEPT ![o] = "setup"] /\ activeOwner' = o
      BY <1>1 DEF Handoff
    <2>2. visit'[o] = "setup" /\ \A v \in Visits : v # o => visit'[v] = visit[v]
      BY <2>1 DEF TypeOK
    <2>3. controller' = 0 /\ waiting' = waiting /\ TasksAreOlder' /\ MachineIsMounted'
      <3>1. CASE controller # 0
        <4>1. {} \in SUBSET Waiting /\ ReleaseCurrentVm({})
          BY <1>1, <3>1 DEF Handoff
        <4>. QED  BY <4>1, TaskRelease DEF TaskInv
      <3>2. CASE controller = 0
        BY <1>1, <3>2 DEF Handoff, releaseVars, TaskInv, TasksAreOlder, MachineIsMounted
      <3>. QED  BY <3>1, <3>2
    <2>4. BootsForVisits'
      BY <2>1, <2>2, <2>3 DEF TaskInv, BootsForVisits
    <2>. QED  BY <2>3, <2>4 DEF TaskInv
  <1>2. CASE Mount(o)
    <2>1. /\ visit' = [visit EXCEPT ![o] = "mounted"] /\ Boot(o) /\ UNCHANGED activeOwner
      BY <1>2 DEF Mount
    <2>2. visit'[o] = "mounted" /\ \A v \in Visits : v # o => visit'[v] = visit[v]
      BY <2>1 DEF TypeOK
    <2>3. CASE UNCHANGED createVars /\ UNCHANGED waiting
      BY <2>1, <2>2, <2>3 DEF createVars, TaskInv, TasksAreOlder, BootsForVisits, MachineIsMounted
    <2>4. CASE CreateController /\ UNCHANGED waiting /\ activeOwner = o
      <3>1. TasksAreOlder' /\ MachineIsMounted'
        BY <2>1, <2>2, <2>4, TaskCreate
      <3>. QED  BY <2>1, <2>2, <2>4, <3>1 DEF TaskInv, BootsForVisits
    <2>. DEFINE b == [task |-> "boot", release |-> generation, owner |-> o,
                      ownerGeneration |-> ownerGeneration]
    <2>5. CASE waiting' = waiting \cup {b} /\ UNCHANGED createVars /\ controller = 0
      <3>1. b.release = generation /\ b.owner = o /\ generation \in Nat
        BY DEF TypeOK
      <3>. HIDE DEF b
      <3>. QED  BY <2>1, <2>2, <2>5, <3>1
           DEF createVars, TaskInv, TasksAreOlder, BootsForVisits, MachineIsMounted
    <2>. QED  BY <2>1, <2>3, <2>4, <2>5 DEF Boot, MayBoot
  <1>3. CASE MountSummary(o)
    <2>1. /\ visit[o] = "setup" /\ visit' = [visit EXCEPT ![o] = "summary"]
          /\ UNCHANGED <<activeOwner, generation, controller, waiting>>
      BY <1>3 DEF MountSummary, createVars
    <2>2. visit'[o] = "summary" /\ \A v \in Visits : v # o => visit'[v] = visit[v]
      BY <2>1 DEF TypeOK
    <2>. QED  BY <2>1, <2>2 DEF TaskInv, TasksAreOlder, BootsForVisits, MachineIsMounted
  <1>4. CASE Finish(o)
    <2>1. visit' = [visit EXCEPT ![o] = "summary"] /\ Dispose(o)
      BY <1>4 DEF Finish
    <2>2. "summary" \notin {"unborn", "setup"}
      OBVIOUS
    <2>. QED  BY <2>1, <2>2, TaskDispose
  <1>5. CASE Leave(o)
    <2>1. visit' = [visit EXCEPT ![o] = "left"] /\ Dispose(o)
      BY <1>5 DEF Leave
    <2>2. "left" \notin {"unborn", "setup"}
      OBVIOUS
    <2>. QED  BY <2>1, <2>2, TaskDispose
  <1>6. CASE Restart(o)
    <2>1. visit[o] = "mounted" /\ UNCHANGED <<visit, activeOwner>>
      BY <1>6 DEF Restart, ownerVars
    <2>. DEFINE r == [task |-> "restart", release |-> generation + 1, owner |-> o,
                      ownerGeneration |-> ownerGeneration]
    <2>2. CASE activeOwner = o
      <3>1. {r} \in SUBSET Waiting /\ r.release = generation + 1 /\ r.owner = o
        BY DEF Waiting, Owners, TypeOK
      <3>2. ReleaseCurrentVm({r})
        BY <1>6, <2>2 DEF Restart
      <3>. HIDE DEF r
      <3>3. TasksAreOlder' /\ MachineIsMounted' /\ waiting' = waiting \cup {r}
        BY <2>1, <3>1, <3>2, TaskRelease DEF TaskInv
      <3>4. BootsForVisits'
        BY <2>1, <3>1, <3>3 DEF TaskInv, BootsForVisits
      <3>. QED  BY <3>3, <3>4 DEF TaskInv
    <2>3. CASE activeOwner # o
      BY <1>6, <2>1, <2>3, TaskNothing DEF Restart, releaseVars
    <2>. QED  BY <2>2, <2>3
  <1>7. CASE Retry(o)
    <2>1. ~ MayBoot(DefaultOwner) /\ UNCHANGED <<visit, activeOwner>>
      BY <1>7 DEF Retry, MayBoot, ownerVars
    <2>. QED  BY <1>7, <2>1, TaskNothing DEF Retry, Boot, createVars
  <1>. QED  BY <1>1, <1>2, <1>3, <1>4, <1>5, <1>6, <1>7 DEF WorkspaceStep

LEMMA TaskGoesOn ==
    ASSUME TypeOK, TaskInv, NEW w \in waiting, GoesOn(w)
    PROVE  TaskInv'
  <1>. USE DEF ownerVars
  <1>1. CASE FailGoesOn(w) \/ DisposeGoesOn(w)
    BY <1>1, TaskNothing DEF FailGoesOn, DisposeGoesOn
  <1>2. CASE BootGoesOn(w)
    <2>1. w.task = "boot" /\ waiting' = waiting \ {w} /\ UNCHANGED <<visit, activeOwner>>
      BY <1>2 DEF BootGoesOn
    <2>2. CASE StillWanted(w)
      <3>1. activeOwner = w.owner /\ CreateController
        BY <1>2, <2>2 DEF BootGoesOn, StillWanted
      <3>2. activeOwner \in Visits /\ visit[activeOwner] = "mounted"
        BY <2>1, <3>1 DEF TaskInv, BootsForVisits
      <3>3. TasksAreOlder' /\ MachineIsMounted'
        BY <2>1, <3>1, <3>2, TaskCreate
      <3>. QED  BY <2>1, <3>3 DEF TaskInv, BootsForVisits
    <2>3. CASE ~ StillWanted(w)
      BY <1>2, <2>1, <2>3, TaskNothing DEF BootGoesOn, createVars
    <2>. QED  BY <2>2, <2>3
  <1>3. CASE RestartGoesOn(w)
    <2>1. w.task = "restart" /\ UNCHANGED <<visit, activeOwner>>
      BY <1>3 DEF RestartGoesOn
    <2>2. CASE waiting' = waiting \ {w} /\ UNCHANGED createVars
      BY <2>1, <2>2, TaskNothing DEF createVars
    <2>3. CASE CreateController /\ waiting' = waiting \ {w} /\ activeOwner = w.owner
      <3>1. activeOwner \in Visits /\ visit[activeOwner] = "mounted"
        BY <2>1, <2>3 DEF TaskInv, BootsForVisits
      <3>2. TasksAreOlder' /\ MachineIsMounted'
        BY <2>1, <2>3, <3>1, TaskCreate
      <3>. QED  BY <2>1, <2>3, <3>2 DEF TaskInv, BootsForVisits
    <2>. DEFINE b == [w EXCEPT !.task = "boot", !.release = generation]
    <2>4. CASE waiting' = (waiting \ {w}) \cup {b} /\ UNCHANGED createVars /\ controller = 0
      <3>1. w \in Waiting /\ generation \in Nat
        BY DEF TypeOK
      <3>2. b.release = generation /\ b.owner = w.owner
        BY <3>1 DEF Waiting
      <3>. HIDE DEF b
      <3>. QED  BY <2>1, <2>4, <3>1, <3>2
           DEF createVars, TaskInv, TasksAreOlder, BootsForVisits, MachineIsMounted
    <2>. QED  BY <1>3, <2>2, <2>3, <2>4 DEF RestartGoesOn
  <1>. QED  BY <1>1, <1>2, <1>3 DEF GoesOn

LEMMA TaskStep == TypeOK /\ MachineInv /\ TaskInv /\ [Next]_vars => TaskInv'
  <1>. SUFFICES ASSUME TypeOK, MachineInv, TaskInv, [Next]_vars PROVE TaskInv'
    OBVIOUS
  <1>. USE DEF ownerVars
  <1>1. CASE UNCHANGED vars
    BY <1>1, TaskNothing DEF vars
  <1>2. ASSUME NEW g \in Generations, BootStep(g) PROVE TaskInv'
    <2>1. CASE BootFails(g)
      BY <2>1, TaskFail DEF BootFails
    <2>2. CASE StartResolves(g) \/ StartFails(g) \/ BootStarted(g)
      BY <2>2, TaskNothing DEF StartResolves, StartFails, BootStarted
    <2>. QED  BY <1>2, <2>1, <2>2 DEF BootStep
  <1>3. CASE ReadyTimerFires
    BY <1>3, TaskFail DEF ReadyTimerFires
  <1>4. CASE StopMachine \/ ReleaseSettles
    BY <1>4, TaskNothing DEF StopMachine, ReleaseSettles
  <1>5. ASSUME NEW g \in Generations, HandleMessage(g) \/ EmulatorReady(g) \/ GuestSpeaks(g)
        PROVE  TaskInv'
    BY <1>5, TaskNothing DEF HandleMessage, EmulatorReady, GuestSpeaks, HandleReady, KeyImported,
                             HandleResult, CreditResult, DropStale
  <1>. QED  BY <1>1, <1>2, <1>3, <1>4, <1>5, TaskWorkspace, TaskGoesOn DEF Next, PageStep

\* A workspace that was left has no machine and gets none from a boot, a restart or a
\* failure that it still had under way.
THEOREM LeftWorkspacesHaveNoMachine == Spec => []MachineHasOwner
  <1>1. TaskInv => MachineHasOwner
    BY DEF TaskInv, MachineIsMounted, MachineHasOwner
  <1>. QED
    BY <1>1, SessionTypeInit, SessionTypeStep, MachineInvInit, MachineStep, TaskInvInit, TaskStep,
       PTL DEF Spec

-----------------------------------------------------------------------------
(* The stage that the page shows. *)

StageInv == StageIsTrue /\ (stage = "ready" /\ controller # 0 => controller \in Generations)

LEMMA StageInvInit == Init => StageInv
  BY DEF Init, StageInv, StageIsTrue

LEMMA StageRelease == Releases => StageInv'
  <1>. SUFFICES ASSUME Releases PROVE StageInv'
    OBVIOUS
  <1>1. controller' = 0
    BY DEF Releases, ReleaseCurrentVm
  <1>. QED  BY <1>1 DEF StageInv, StageIsTrue

LEMMA StageCreate == Creates => StageInv'
  <1>. SUFFICES ASSUME Creates PROVE StageInv'
    OBVIOUS
  <1>1. stage' = "loading-assets"
    BY DEF Creates, CreateController
  <1>. QED  BY <1>1 DEF StageInv, StageIsTrue

\* The machine shown as ready is left alone, and so is the stage.
LEMMA StageKept ==
    ASSUME StageInv, UNCHANGED <<stage, controller, readySeen>>,
           \A g \in Generations : g = controller /\ machine[g] = "running" => machine'[g] = "running"
    PROVE  StageInv'
  BY DEF StageInv, StageIsTrue

\* The outcome of a failure or a disposal is shown only if nothing was created since.
LEMMA StageGoesOn ==
    ASSUME TypeOK, MachineInv, TaskInv, StageInv, NEW w \in waiting, GoesOn(w)
    PROVE  StageInv'
  <1>1. CASE FailGoesOn(w) \/ DisposeGoesOn(w)
    <2>1. UNCHANGED <<controller, machine, readySeen>>
      BY <1>1 DEF FailGoesOn, DisposeGoesOn, keyVars
    <2>2. CASE stage' = stage
      BY <2>1, <2>2, StageKept
    <2>3. CASE generation = w.release /\ stage' \in {"error", "idle"}
      <3>1. w.release < generation => FALSE
        BY <2>3 DEF TypeOK
      <3>2. controller = 0
        BY <3>1 DEF TaskInv, TasksAreOlder
      <3>. QED  BY <2>1, <2>3, <3>2 DEF StageInv, StageIsTrue
    <2>. QED  BY <1>1, <2>2, <2>3 DEF FailGoesOn, DisposeGoesOn
  <1>2. CASE Creates
    BY <1>2, StageCreate
  <1>3. CASE (BootGoesOn(w) \/ RestartGoesOn(w)) /\ Leaves
    <2>1. UNCHANGED stage
      BY <1>3 DEF BootGoesOn, RestartGoesOn, Leaves, CreateController, createVars, TypeOK
    <2>. QED  BY <1>3, <2>1, StageKept DEF Leaves, keyVars
  <1>. QED  BY <1>1, <1>2, <1>3, TaskKinds DEF GoesOn

LEMMA StageMessage ==
    ASSUME TypeOK, MachineInv, KeyInv, StageInv, NEW g \in Generations, HandleMessage(g)
    PROVE  StageInv'
  <1>. USE DEF keyVars, NextMessage
  <1>1. UNCHANGED <<controller, machine>>
    BY DEF HandleMessage, HandleReady, KeyImported, HandleResult, CreditResult, DropStale
  <1>2. CASE UNCHANGED <<stage, readySeen>>
    BY <1>1, <1>2, StageKept
  <1>3. CASE HandleReady(g) /\ readySeen' = TRUE
    <2>1. controller = g /\ machine[g] = "running"
      BY <1>3, SpeakerIsCurrent DEF HandleReady
    <2>2. g # 0
      BY GenerationsArePositive
    <2>3. stage' = stage \/ stage' = "ready"
      BY <1>3 DEF HandleReady
    <2>. QED  BY <1>1, <1>3, <2>1, <2>2, <2>3 DEF StageInv, StageIsTrue
  <1>4. CASE KeyImported(g)
    <2>1. generation = g /\ chain[g] # <<>> /\ Head(chain[g]).type = "importing"
          /\ stage' = "ready" /\ UNCHANGED readySeen
      BY <1>4 DEF KeyImported
    <2>2. controller = g /\ machine[g] = "running" /\ readySeen
      BY <2>1, SpeakerIsCurrent DEF TypeOK
    <2>. QED  BY <1>1, <2>1, <2>2 DEF StageInv, StageIsTrue
  <1>5. CASE HandleReady(g) /\ readySeen' # TRUE
    BY <1>2, <1>5 DEF HandleReady
  <1>6. CASE HandleResult(g) \/ CreditResult(g) \/ DropStale(g)
    BY <1>2, <1>6 DEF HandleResult, CreditResult, DropStale
  <1>. QED  BY <1>3, <1>4, <1>5, <1>6 DEF HandleMessage

LEMMA StageStep == TypeOK /\ MachineInv /\ KeyInv /\ TaskInv /\ StageInv /\ [Next]_vars => StageInv'
  <1>. SUFFICES ASSUME TypeOK, MachineInv, KeyInv, TaskInv, StageInv, [Next]_vars PROVE StageInv'
    OBVIOUS
  <1>. USE DEF keyVars
  <1>0. ASSUME Leaves, UNCHANGED stage PROVE StageInv'
    BY <1>0, StageKept DEF Leaves
  <1>1. CASE UNCHANGED vars
    BY <1>1, StageKept DEF vars
  <1>2. ASSUME NEW o \in Visits, WorkspaceStep(o) PROVE StageInv'
    BY <1>0, <1>2, WorkspaceKinds, StageRelease, StageCreate
  <1>3. ASSUME NEW g \in Generations, StartResolves(g) PROVE StageInv'
    <2>1. machine[g] = "loading" /\ machine' = [machine EXCEPT ![g] = "initialising"]
          /\ UNCHANGED <<generation, controller, readySeen>>
          /\ stage' = IF generation = g THEN "preparing-env" ELSE stage
      BY <1>3 DEF StartResolves
    <2>2. CASE generation = g
      BY <2>1, <2>2 DEF StageInv, StageIsTrue
    <2>3. CASE generation # g
      <3>1. \A h \in Generations : h # g => machine'[h] = machine[h]
        BY <2>1 DEF TypeOK
      <3>. QED  BY <2>1, <2>3, <3>1, StageKept
    <2>. QED  BY <2>2, <2>3
  <1>4. ASSUME NEW g \in Generations, StartFails(g) PROVE StageInv'
    BY <1>4, StageKept DEF StartFails, TypeOK
  <1>5. ASSUME NEW g \in Generations, EmulatorReady(g) PROVE StageInv'
    BY <1>5, StageKept DEF EmulatorReady, TypeOK
  <1>6. ASSUME NEW g \in Generations, BootStarted(g) PROVE StageInv'
    BY <1>6, StageKept DEF BootStarted
  <1>7. ASSUME NEW g \in Generations, BootFails(g) PROVE StageInv'
    BY <1>0, <1>7, FailKinds, StageRelease DEF BootFails
  <1>8. CASE ReadyTimerFires
    BY <1>0, <1>8, FailKinds, StageRelease DEF ReadyTimerFires
  <1>9. CASE ReleaseSettles
    BY <1>9, StageKept DEF ReleaseSettles
  <1>10. ASSUME NEW g \in Generations, GuestSpeaks(g) PROVE StageInv'
    BY <1>10, StageKept DEF GuestSpeaks
  <1>11. CASE StopMachine
    <2>. DEFINE m == Head(releases).machine
    <2>1. releases # <<>> /\ \A g \in Generations : g # m => machine'[g] = machine[g]
      BY <1>11 DEF StopMachine, TypeOK
    <2>2. m < generation
      <3>1. Head(releases) = releases[1] /\ 1 \in 1..Len(releases)
        BY <2>1, TailOf DEF TypeOK
      <3>. QED  BY <3>1 DEF MachineInv, ReleasedAreOlder
    <2>3. generation \in Nat
      BY DEF TypeOK
    <2>4. m # generation
      <3>. HIDE DEF m
      <3>. QED  BY <2>2, <2>3
    <2>5. m # 0
      BY <1>11 DEF StopMachine
    <2>6. m # controller
      BY <2>4, <2>5 DEF MachineInv, ControllerIsNewest
    <2>7. UNCHANGED <<stage, controller, readySeen>>
      BY <1>11 DEF StopMachine
    <2>. QED  BY <2>1, <2>6, <2>7, StageKept
  <1>. QED
    BY <1>1, <1>2, <1>3, <1>4, <1>5, <1>6, <1>7, <1>8, <1>9, <1>10, <1>11, StageGoesOn, StageMessage
    DEF Next, PageStep, BootStep

\* Releases that overlap, and functions that go on after them, leave no stage behind
\* that is not true of the current machine: an error or an idle page has released it,
\* and a machine shown as ready runs and has sent its ready message.
THEOREM TheStageIsTrue == Spec => []StageIsTrue
  <1>1. StageInv => StageIsTrue
    BY DEF StageInv
  <1>. QED
    BY <1>1, SessionTypeInit, SessionTypeStep, MachineInvInit, MachineStep, KeyInvInit, KeyStep,
       TaskInvInit, TaskStep, StageInvInit, StageStep, PTL
    DEF Spec
===============================================================================
