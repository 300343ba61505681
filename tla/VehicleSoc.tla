------------------------------- MODULE VehicleSoc ------------------------------
(***************************************************************************)
(* The vehicle's state of charge, as the mode strategies come to know it:  *)
(* an integration of the car publishes it, it ages, and from StaleAfter on *)
(* it counts as unknown (get_ev_soc).  A SOC that is unknown neither blocks *)
(* charging nor calls for it.  The strategies are those of ModeStrategies, *)
(* with atMaxSoc and evNeeds drawn from the SOC.                           *)
(*                                                                         *)
(* SOC is in half percents.  The vehicle (external) gains up to one of     *)
(* them between two iterations when it was given power; away from the      *)
(* charger it may come back with any SOC, or be another vehicle.           *)
(***************************************************************************)
EXTENDS ModeStrategies

CONSTANTS
    MinSoc,       \* ev_min_soc_pct
    MaxSoc,       \* ev_max_soc_pct
    StaleAfter,   \* _EV_SOC_STALE_S
    Levels        \* bound: the SOCs the vehicle takes

ASSUME SocAssumption ==
    /\ MinSoc \in Nat /\ MaxSoc \in Nat /\ StaleAfter \in Nat /\ Levels \subseteq Nat
    /\ TickLengths # {}     \* the loop iterates

VARIABLES
    evSoc,        \* AppState.ev_soc_pct
    socAge,       \* now - ev_soc_pct_updated_at
    vehicleSoc,   \* the vehicle's own SOC
    reported,     \* has this vehicle reported since it was plugged in?
    informed,     \* was the last decision taken on a SOC of this vehicle?
    excess        \* what it gained beyond MaxSoc by such decisions

socVars == <<evSoc, socAge, vehicleSoc, reported, informed, excess>>

SocInit ==
    /\ evSoc = None /\ socAge = 0
    /\ vehicleSoc \in Levels
    /\ reported = FALSE /\ informed = FALSE /\ excess = 0

-------------------------------------------------------------------------------
Older(a, d) == IF a + d > StaleAfter THEN StaleAfter + 1 ELSE a + d

\* get_ev_soc, d seconds after the last iteration.
Soc(d) == IF socAge + d > StaleAfter THEN None ELSE evSoc

\* The target, less _EV_MAX_SOC_MARGIN_PCT when it is a full battery.
Target == IF MaxSoc >= 200 THEN MaxSoc - 1 ELSE MaxSoc

AtMaxSoc(d) == Soc(d) # None /\ Soc(d) >= Target

EvNeeds(d) == Soc(d) # None /\ Soc(d) < MinSoc

\* A message on ev_charger/vehicle/soc/set; one that is malformed or out of
\* range changes nothing.
ReportSoc ==
    /\ evSoc' = vehicleSoc /\ socAge' = 0
    /\ reported' = TRUE
    /\ UNCHANGED <<vars, vehicleSoc, informed, excess>>

\* In the seconds before an iteration the vehicle charges by the last decision.
Charge ==
    /\ vehicleSoc' \in IF setpoint > 0 /\ vehicleSoc + 1 \in Levels
                       THEN {vehicleSoc, vehicleSoc + 1} ELSE {vehicleSoc}
    /\ excess' = IF vehicleSoc' > MaxSoc /\ vehicleSoc' > vehicleSoc /\ informed
                 THEN excess + 1 ELSE excess
    /\ UNCHANGED reported

\* Away from the charger.
DriveOrSwap ==
    /\ vehicleSoc' \in Levels
    /\ excess' = 0 /\ reported' = FALSE

\* An iteration, on what is known of the SOC.
SocCompute(s, r, d) ==
    /\ s.atMaxSoc = AtMaxSoc(d) /\ r.evNeeds = EvNeeds(d)
    /\ Compute(s, r, d)
    /\ IF s.connected THEN Charge ELSE DriveOrSwap
    /\ informed' = (reported /\ Soc(d) # None)
    /\ socAge' = Older(socAge, d)
    /\ UNCHANGED evSoc

SocNext ==
    \/ ReportSoc
    \/ \E s \in Situations, r \in Readings, d \in TickLengths : SocCompute(s, r, d)

SocSpec == Init /\ SocInit /\ [][SocNext]_<<vars, socVars>>

-------------------------------------------------------------------------------
\* A vehicle that reports its SOC is not charged past its target (README.md:22
\* ff., ev_max_soc) by more than it gains while the last report before the
\* target is still fresh, in any mode and across mode changes: a decision taken
\* later knows that it is there.
TargetHolds == \E d \in TickLengths : excess * d <= StaleAfter

===============================================================================
