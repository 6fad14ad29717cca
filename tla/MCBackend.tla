------------------------------- MODULE MCBackend -------------------------------
(* The rest of the backend for model checking: the administrators' door, the  *)
(* charts, and the scripts that install the service.  They share no state     *)
(* that any of them would test, so each is explored on its own: a behaviour   *)
(* is of one part, and the others rest in an initial state.                   *)
EXTENDS AdminAccess, EventCharts, BackendDeploy

VARIABLE part

mcVars == <<adminVars, chartVars, serverVars, part>>

\* Between two complete deployments at most one is cut off, and only the id of
\* the first release is given twice.
ServerStep ==
    /\ ServerNext
    /\ "service" \in trouble => ~DeployInterrupted /\ ~DeployKilled
    /\ reused' \subseteq {Installed}

MCInit ==
    /\ AdminInit /\ ChartInit /\ ServerInit
    /\ part \in {"admin", "charts", "server"}
    /\ part # "server" => serving = Missing

MCNext ==
    /\ \/ part = "admin" /\ AdminNext /\ UNCHANGED <<chartVars, serverVars>>
       \/ part = "charts" /\ ChartNext /\ UNCHANGED <<adminVars, serverVars>>
       \/ part = "server" /\ ServerStep /\ UNCHANGED <<adminVars, chartVars>>
    /\ UNCHANGED part

MCSpec == MCInit /\ [][MCNext]_mcVars
===============================================================================
