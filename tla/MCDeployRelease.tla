---------------------------- MODULE MCDeployRelease ----------------------------
(* DeployRelease for model checking.  A scene is chosen at first. *)
EXTENDS DeployRelease, TLC

VARIABLE scene

\* The deployments are interchangeable.
DeployerSymmetry == Permutations(Deployers)

\* "pair": at most two of the deployments take part, on a host with a release, and
\* may be lost or sent a signal.
\* "crowd": all of them wait for an expired lease, and nothing happens to them, on a
\* host without a release yet; one goes on contending while the others take turns.
\* "alone": no lock and no release at first, locks are left behind by losses.
PairInit == scene = "pair" /\ Init /\ current = Dead
CrowdInit ==
    /\ scene = "crowd"
    /\ LockInit
    /\ stage = [d \in Deployers |-> "waiting"]
    /\ timer = [d \in Deployers |-> 0]
    /\ script = [d \in Deployers |-> "idle"]
    /\ previous = [d \in Deployers |-> None]
    /\ unhealthy = {}
    /\ lock # None /\ lock.beat = Stale
    /\ current = None
CleanInit == scene = "alone" /\ Init /\ lock = None /\ current = None

Taking == {d \in Deployers : stage[d] # "start"}
Lost(d) == HeartbeatFails(d) \/ LoseRunner(d)

MCNext ==
    /\ Next /\ UNCHANGED scene
    /\ scene = "pair" => Cardinality(Taking') <= 2
    /\ scene = "crowd" =>
          /\ ~\E d \in Deployers : Lost(d) \/ Interrupt(d)
          /\ \E d \in Deployers : stage'[d] \in {"waiting", "acquiring"}
MCInit == PairInit \/ CrowdInit
MCSpec == MCInit /\ [][MCNext]_<<vars, scene>>

CleanSpec == CleanInit /\ [][MCNext]_<<vars, scene>> /\ Fairness
=============================================================================
