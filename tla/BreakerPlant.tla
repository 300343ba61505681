------------------------------ MODULE BreakerPlant -----------------------------
(***************************************************************************)
(* The breaker cap in closed loop with the house it protects: what the     *)
(* charger draws in one iteration is what the cap let through in the one   *)
(* before, and the grid meter reads the household load plus that draw.     *)
(* The household and the charger are not code of this repository; they are *)
(* modelled as the design document assumes them: the charger follows its   *)
(* setpoint within one iteration and shares it equally between the phases  *)
(* it is wired to.                                                         *)
(***************************************************************************)
EXTENDS BreakerCap

CONSTANTS
    Wired,          \* the phases the charger is wired to
    Loads,          \* the household loads: functions from Phases
    CorrectionPct   \* AppState.correction_pct, applied to every EV current read

ASSUME WiredAssumption == Wired \subseteq Phases /\ Wired # {} /\ Volts > 0
ASSUME LoadAssumption == Loads \subseteq [Phases -> Int]

\* correction_pct is clamped when it is applied (ev.py:422); the limit is at least
\* 10 A (ha/constants.py:85), so that a phase that is not active by
\* _PHASE_ACTIVE_THRESHOLD_A passes the instant threshold by the household's load.
ASSUME SettingAssumption ==
    CorrectionPct \in 0 .. 10 /\ InstantThreshold - ActiveCurrent >= SafetyLimit

VARIABLES load,     \* the household's current on each phase
          drawn     \* the charger's current on each phase

plantVars == <<vars, load, drawn>>

Drawn(w) ==
    [p \in Phases |->
        IF p \in Wired THEN (w * UnitsPerAmp) \div (Cardinality(Wired) * Volts) ELSE 0]

PlantInit == Init /\ load \in Loads /\ drawn = Drawn(0)

\* ev_current_{a,b,c} as _read_registers scales them.
Corrected(i) == (i * (100 + CorrectionPct)) \div 100

\* One iteration with household load l and the mode asking for w.
PlantCycle(l, w, d) ==
    /\ load' = l
    /\ drawn' = Drawn(setpoint)
    /\ Cycle([p \in Phases |-> load'[p] + drawn'[p]],
             [p \in Phases |-> Corrected(drawn'[p])], w, d)

PlantNext ==
    \E l \in Loads, w \in Requests \cup {0}, d \in TickLengths : PlantCycle(l, w, d)

\* An iteration at which the house draws, and the mode asks for, what they did.
CycleAgain(l, w) ==
    load = l /\ request = w /\ \E d \in TickLengths : PlantCycle(l, w, d)

\* The loop iterates for ever.  Fairness is for each load and request, so that
\* it never makes either change.
PlantSpec ==
    /\ PlantInit /\ [][PlantNext]_plantVars
    /\ \A l \in Loads, w \in Requests \cup {0} : WF_plantVars(CycleAgain(l, w))

\* The same house on a quiet evening: the household load never changes, and the
\* mode asks for the same power in every iteration.
SteadyCycle == \E w \in Requests, d \in TickLengths : PlantCycle(load, w, d)

SteadySpec == PlantInit /\ [][SteadyCycle]_plantVars /\ WF_plantVars(SteadyCycle)

-------------------------------------------------------------------------------
\* The charger shows the cap which phases it is on: it draws, or it is wired to all.
Located(p) == evCurrent[p] > ActiveCurrent \/ Wired = Phases

\* A phase that the charger is wired to and whose reading passes the instant
\* threshold is back within the safety limit one iteration later, whatever the
\* rolling mean still says and whatever was asked, unless the household alone
\* exceeds the limit: the override (FR-12) does what the mean is too slow for.
\* So is a phase below the threshold that is no higher than its samples, which
\* the mean is not too slow for (FR-2), if the cap can tell that the car is on it.
\* What the correction adds to the charger's current, the cap gives away.
SeenOverloadClears ==
    [][ \A p \in Wired :
          grid[p] # None =>
            (load' = load /\ (grid[p] > InstantThreshold \/ (Seen(p) /\ Located(p)))
               => grid'[p] <= Max({SafetyLimit, load[p]}) + (Corrected(drawn[p]) - drawn[p]))
      ]_plantVars

\* The latch is not a trap: with a household load that leaves room for the
\* restart margin and a mode that keeps asking, charging resumes.
RoomyLoads ==
    {l \in Loads :
        (SafetyLimit - Max({l[p] : p \in Wired})) * Cardinality(Wired) * Volts
            >= (MinCharge + RestartMargin) * UnitsPerAmp}

ChargingResumes ==
    <>[](load \in RoomyLoads /\ request > 0) => []<>(setpoint > 0)

\* README.md:36 and FR-2: the cap keeps every grid phase at or below 80% of the
\* breaker rating.  Stated for a house whose own load is constant and within
\* that limit, the easiest case there is.
EveryPhaseWithinLimit ==
    (\A p \in Phases : load[p] <= SafetyLimit)
      => \A p \in Phases : grid[p] # None => grid[p] <= SafetyLimit

\* FR-13 and EC-8: the restart hysteresis prevents start/stop cycling; above
\* the minimum the cap is "continuous and self-correcting (no oscillation
\* risk)".  With a constant load and demand the charger ends up on, or off.
NoStartStopCycling == <>[](setpoint > 0) \/ <>[](setpoint = 0)

\* EC-11: correction_pct makes the EV current an overestimate, and that
\* "results in a slightly conservative cap".
OverestimateIsConservative ==
    ~DataMissing(grid, evCurrent, samples)
      => PCap(grid, evCurrent, samples) <= PCap(grid, drawn, samples)

===============================================================================
