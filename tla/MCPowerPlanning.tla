--------------------------- MODULE MCPowerPlanning ---------------------------
(***************************************************************************)
(* Two levels of charge above empty, so that the reserve is reached from   *)
(* either side; plans with and without a reserve and a runtime.            *)
(***************************************************************************)
EXTENDS PowerPlanning

PlanOf(minimum, runtime) ==
    [configured |-> TRUE, P_budget |-> 4, P_reserve |-> 1,
     minimum |-> minimum, runtime |-> runtime]

\* The last one keeps more back than it has.
MCPlans ==
    {PlanOf(0, 0), PlanOf(1, 0), PlanOf(1, 2), [PlanOf(0, 0) EXCEPT !.P_reserve = 5]}

MCStored ==
    {NoConfiguration,
     [NoConfiguration EXCEPT !.plan = PlanOf(1, 0)],
     [NoConfiguration EXCEPT !.ina219 = "USABLE"],
     [NoConfiguration EXCEPT !.metadata = TRUE, !.initial = 2, !.plan = PlanOf(1, 0)],
     [ina219 |-> "USABLE", metadata |-> TRUE, initial |-> 2, plan |-> PlanOf(1, 2)]}
=============================================================================
