---------------------------- MODULE StrategyObserver ---------------------------
(***************************************************************************)
(* ModeStrategies watched from outside: history variables record when a    *)
(* strategy last stopped charging for the home battery's sake, and whether *)
(* the battery has been full, so that the promises about both can be       *)
(* stated without reading the memory of the strategies.                    *)
(***************************************************************************)
EXTENDS ModeStrategies

VARIABLES
    sinceDayStop,    \* time since eco-day charging stopped for the battery's sake
    sinceNightStop,  \* time since the discharge limit stopped night charging
    hasBeenFull      \* SOC has reached FullPct since the latch was last let go

history == <<sinceDayStop, sinceNightStop, hasBeenFull>>

HistoryInit == sinceDayStop = Cooldown /\ sinceNightStop = Cooldown /\ hasBeenFull = FALSE

Longer(a, d) == IF a + d < Cooldown THEN a + d ELSE Cooldown

\* What an observer of the battery makes of the strategy's rule for "full".
SeesFull(s, r) ==
    Handler(s) = "eco_day" /\ ~(r.minCharge /\ r.evNeeds) /\ r.soc # None /\ r.soc >= FullPct

LosesFull(s, r) ==
    \/ Handler(s) \in {"standby", "eco_victron_down"} \/ ~s.connected
    \/ /\ Handler(s) = "eco_day" /\ ~(r.minCharge /\ r.evNeeds)
       /\ r.soc # None /\ r.soc < FullExitPct

Observe(s, r, d) ==
    /\ sinceDayStop' =
         IF modeState' = "eco_day_cooldown" /\ r.meanLow
              /\ (ecoCharging \/ sinceDayStop + d >= Cooldown)
         THEN 0 ELSE Longer(sinceDayStop, d)
    /\ sinceNightStop' =
         IF modeState' = "eco_night_battery" /\ setpoint' = 0
         THEN 0 ELSE Longer(sinceNightStop, d)
    /\ hasBeenFull' = (SeesFull(s, r) \/ (hasBeenFull /\ ~LosesFull(s, r)))

ObservedNext ==
    \E s \in Situations, r \in Readings, d \in TickLengths :
        Compute(s, r, d) /\ Observe(s, r, d)

ObservedSpec == Init /\ HistoryInit /\ [][ObservedNext]_<<vars, history>>

-------------------------------------------------------------------------------
DayStates ==
    {"eco_day_soc_gate", "eco_day_waiting_for_export", "eco_day_cooldown",
     "eco_day_minimum", "eco_day_ramping"}

NightStates == {"eco_night_floor_stop", "eco_night_battery", "eco_night_grid_fallback"}

\* For _ECO_DAY_COOLDOWN_S after the home battery stopped eco-day charging the day
\* strategy asks for nothing, and so does the night strategy after the discharge
\* limit stopped it, whatever happens in between: mode changes, an unplug, the
\* other strategy, a lost Victron.  (Minimum charge, which the user enables
\* against the battery's interest, is exempt.)
CooldownRespected ==
    /\ sinceDayStop < Cooldown /\ modeState \in DayStates => setpoint = 0
    /\ sinceNightStop < Cooldown /\ modeState \in NightStates => setpoint = 0

\* The ramp runs only on a battery that has been full and has not dropped below
\* the exit threshold since: lost SOC readings neither set nor clear the latch.
RampNeedsFullBattery == modeState = "eco_day_ramping" => hasBeenFull

\* constants.py:10 calls the ramp step the "ramp step per control loop
\* iteration": from one eco-day iteration that charges to the next, the setpoint
\* moves by at most one step.
OneStepPerIteration ==
    [][ setpoint > 0 /\ modeState \in DayStates /\ modeState' = "eco_day_ramping"
          => setpoint' <= setpoint + RampStep ]_<<vars, history>>

===============================================================================
