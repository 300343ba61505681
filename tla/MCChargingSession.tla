--------------------------- MODULE MCChargingSession ---------------------------
(* Instance of SessionObserver for TLC, in seconds and with two setpoints. *)
EXTENDS SessionObserver

MCSetpoints == {1, 2}

\* Two loop periods: one shorter than both delays, so that several ticks fall
\* inside each, and the default control_loop_interval_s.
MCTickLengths == {4, 10}

\* One status of each kind the code distinguishes.
MCStatuses == {"CHARGING_IN_PROGRESS", "IDLE_CONNECTOR_PLUGGED", "ABNORMAL_ALARM", "UNKNOWN"}

Plant(maxSoc, up, night) ==
    [atMaxSoc |-> maxSoc, victronUp |-> up, night |-> night,
     belowSocGate |-> FALSE, meanBatteryLow |-> FALSE]

\* Enough to reach a reason that does not depend on the mode, and ones that do.
MCPlants == {Plant(TRUE, TRUE, FALSE), Plant(FALSE, FALSE, TRUE)}

===============================================================================
