------------------------------ MODULE MCTelemetry ------------------------------
(* The exchange of events between client and backend, for model checking. *)
EXTENDS Telemetry

MCSpec == Init /\ [][Next]_vars /\ WF_vars(ClientStep)

ClockSkews == {-2, -1}
===============================================================================
