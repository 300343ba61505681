---------------------------- MODULE MCModeStrategies ---------------------------
(***************************************************************************)
(* The mode strategies for TLC, watched by StrategyObserver.  The ramp has *)
(* three values (4400, 6400 and 8400 W) and the cooldown of 300 s lasts    *)
(* two or three iterations.  A run has two parts, chosen at the start:     *)
(* one in which everything about the house battery varies and the          *)
(* vehicle's SOC is an arbitrary input, and one in which the SOC is        *)
(* reported and ages and a few readings bring about each strategy.         *)
(***************************************************************************)
EXTENDS VehicleSoc, StrategyObserver

MCTickLengths == {100, 200}
MCLevels == 177 .. 185

Situation(m, conn, ok, max, up, night) ==
    [mode |-> m, connected |-> conn, healthy |-> ok, atMaxSoc |-> max,
     victronUp |-> up, night |-> night]

\* One situation for every handler, and for the precedence of the checks.
MCSituations ==
    {Situation("Eco", TRUE, TRUE, FALSE, TRUE, FALSE),
     Situation("Eco", TRUE, TRUE, FALSE, TRUE, TRUE),
     Situation("Eco", TRUE, TRUE, FALSE, FALSE, TRUE),
     Situation("Eco", TRUE, FALSE, FALSE, TRUE, FALSE),
     Situation("Eco", TRUE, TRUE, TRUE, TRUE, FALSE),
     Situation("Manual", TRUE, TRUE, FALSE, FALSE, FALSE),
     Situation("Manual", FALSE, TRUE, FALSE, TRUE, FALSE),
     Situation("Standby", TRUE, TRUE, TRUE, TRUE, FALSE)}

Reading(soc, power, needs, min, sun, drawing) ==
    [soc |-> soc, power |-> power, evNeeds |-> needs, minCharge |-> min,
     surplus |-> sun = "surplus", meanLow |-> sun = "low", drawing |-> drawing,
     windowEnds |-> FALSE, required |-> 3000]

\* By night the battery is at its floor, above it or not known; idle, or
\* discharging beyond the limit by less or more than the car can give up.
NightReadings ==
    {Reading(soc, power, needs, FALSE, "none", FALSE) :
        soc \in {None, 20, 80}, power \in {0, -6300, -8000}, needs \in BOOLEAN}
    \cup {[Reading(20, 0, TRUE, FALSE, "none", FALSE) EXCEPT !.windowEnds = TRUE]}

\* By day it is below the gate, on either side of the full latch, inside its
\* hysteresis, or not known.
DayReadings ==
    {Reading(soc, power, FALSE, FALSE, sun, drawing) :
        soc \in {None, 20, 80, 92, 97}, power \in {0, -6300},
        sun \in {"none", "surplus", "low"}, drawing \in BOOLEAN}
    \cup {Reading(20, 0, TRUE, TRUE, "none", TRUE),
          [Reading(97, 0, FALSE, FALSE, "surplus", TRUE) EXCEPT !.meanLow = TRUE]}

MCReadings == NightReadings \cup DayReadings

-------------------------------------------------------------------------------
VARIABLE part    \* of the run: "battery" or "vehicle"

watchedVars == <<vars, socVars, history, part>>

WatchedInit ==
    /\ Init /\ HistoryInit /\ SocInit
    /\ part \in {"battery", "vehicle"}
    /\ part = "battery" => vehicleSoc = MinSoc

\* By day with a surplus, and by night with a battery above its floor or at it.
VehicleReadings ==
    {Reading(soc, 0, needs, min, "surplus", TRUE) :
        soc \in {20, 97}, needs \in BOOLEAN, min \in BOOLEAN}

VehicleSituations ==
    {Situation(m, conn, TRUE, max, TRUE, night) :
        m \in {"Eco", "Manual", "Standby"}, conn \in BOOLEAN, max \in BOOLEAN, night \in BOOLEAN}

WatchedNext ==
    /\ \/ /\ part = "battery"
          /\ ObservedNext
          /\ UNCHANGED socVars
       \/ /\ part = "vehicle"
          /\ \/ ReportSoc /\ UNCHANGED history
             \/ \E s \in VehicleSituations, r \in VehicleReadings, d \in TickLengths :
                   SocCompute(s, r, d) /\ Observe(s, r, d)
    /\ UNCHANGED part

WatchedSpec == WatchedInit /\ [][WatchedNext]_watchedVars

===============================================================================
