----------------------------- MODULE MCControlLoop -----------------------------
(***************************************************************************)
(* ControlLoop for TLC: one setpoint (that a later setpoint differs from   *)
(* an earlier one matters inside the session, which MCChargingSession      *)
(* checks with two), the default loop interval and one within both delays, *)
(* a plant that lets Eco charge and one that does not.                     *)
(***************************************************************************)
EXTENDS ControlLoop

MCSetpoints == {1}
MCTickLengths == {4, 10}
DefaultTick == {10}
MCStatuses ==
    {"IDLE_NO_CONNECTOR", "IDLE_CONNECTOR_PLUGGED", "CHARGING_IN_PROGRESS",
     "CHARGING_COMPLETED", "none"}

Plant(maxSoc, up) ==
    [atMaxSoc |-> maxSoc, victronUp |-> up, night |-> FALSE,
     belowSocGate |-> FALSE, meanBatteryLow |-> FALSE]

MCPlants == {Plant(FALSE, TRUE), Plant(TRUE, FALSE)}
Sunny == {Plant(FALSE, TRUE)}
Always == {TRUE}
Sometimes == {TRUE, FALSE}
Never == {FALSE}

===============================================================================
