------------------------------ MODULE BreakerLatch -----------------------------
(***************************************************************************)
(* BreakerCap with a history variable that remembers, as an outside        *)
(* observer would, that the cap has stopped the charger and that it has    *)
(* not resumed since.                                                      *)
(***************************************************************************)
EXTENDS BreakerCap

VARIABLE capStopped   \* the cap has stopped the charger, and it has not resumed

CapInit == Init /\ capStopped = FALSE

CapNext ==
    /\ Next
    /\ capStopped' = (setpoint' = 0 /\ (request' > 0 \/ capStopped))

CapSpec == CapInit /\ [][CapNext]_<<vars, capStopped>>

\* Once the cap has stopped the charger, it restarts only on a complete set of
\* readings that leaves the restart margin, however many iterations without
\* data or without demand lie between: nothing in between forgets the trip.
RestartNeedsMargin ==
    [][ capStopped /\ setpoint' > 0 =>
          ~Blind /\ CapNow >= MinCharge + RestartMargin ]_<<vars, capStopped>>

===============================================================================
