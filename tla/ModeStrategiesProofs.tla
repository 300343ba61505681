-------------------------- MODULE ModeStrategiesProofs -------------------------
(***************************************************************************)
(* The mode strategies, for every configuration and all readings: the type *)
(* invariant, the range of the setpoint, the pairing of eco-day charging   *)
(* with its cooldown, what the observer of StrategyObserver may never see, *)
(* and how far a vehicle is charged past its target.                       *)
(***************************************************************************)
EXTENDS StrategyObserver, VehicleSoc, TLAPS, WellFoundedInduction

InRange(w) == w = 0 \/ w \in MinCharge..MaxCharge

Inv == TypeOK /\ SetpointInRange /\ ChargingClearsCooldown

-------------------------------------------------------------------------------
\* clamp() yields a power the charger can run at, whatever it is given.
LEMMA ClampRange == ASSUME NEW w \in Int PROVE Clamp(w) \in MinCharge..MaxCharge
BY RangeAssumption DEF Clamp

\* An aged cooldown is a cooldown.
LEMMA AgedType ==
    ASSUME NEW a \in {NotSet} \cup 0..Cooldown, NEW d \in TickLengths
    PROVE  Aged(a, d) \in {NotSet} \cup 0..Cooldown /\ (a = NotSet => Aged(a, d) = NotSet)
BY CooldownAssumption DEF Aged, NotSet

\* The discharge limit lowers a clamped power to another, or to nothing.
LEMMA LimitRange ==
    ASSUME NEW w \in MinCharge..MaxCharge, NEW power \in Int \cup {None}
    PROVE  InRange(LimitBatteryDischarge(w, power))
<1> DEFINE over == IF power = None \/ power >= 0 THEN 0 ELSE -power - MaxDischarge
<1>1. over \in Int /\ w \in Int
      BY RangeAssumption
<1>2. Clamp(w - over) \in MinCharge..MaxCharge
      BY <1>1, ClampRange
<1>3. QED
      BY <1>1, <1>2 DEF LimitBatteryDischarge, InRange

\* The setpoint of the night without a battery is clamped like any other.
LEMMA FallbackRange ==
    ASSUME NEW r \in Readings
    PROVE  InRange(GridFallbackSetpoint(r))
<1>1. r.required \in Int
      BY InputAssumption DEF ReadingType
<1>2. QED
      BY <1>1, ClampRange DEF GridFallbackSetpoint, InRange

\* A setpoint in range is a natural number.
LEMMA RangeIsNat == ASSUME NEW w, InRange(w) PROVE w \in Nat
BY RangeAssumption DEF InRange

-------------------------------------------------------------------------------
\* The strategies start with empty memory.
LEMMA InitInv == Init => Inv
<1> SUFFICES ASSUME Init PROVE Inv
    OBVIOUS
<1>1. ecoCharging \in BOOLEAN /\ batteryFull \in BOOLEAN
      BY Zenon DEF Init
<1>2. /\ daySetpoint \in MinCharge..MaxCharge /\ setpoint \in Nat
      /\ dayStopped \in {NotSet} \cup 0..Cooldown
      /\ nightStopped \in {NotSet} \cup 0..Cooldown
      /\ modeState \in ModeStates /\ setpoint = 0 /\ dayStopped = NotSet
      BY RangeAssumption DEF Init, ModeStates
<1>3. QED
      BY <1>1, <1>2, Zenon DEF Inv, TypeOK, SetpointInRange, ChargingClearsCooldown

\* What every handler owes: typed variables, a setpoint in range, and a cooldown
\* that is not set where eco-day charging is on.
HandlerKeeps ==
    /\ ecoCharging' \in BOOLEAN /\ batteryFull' \in BOOLEAN
    /\ daySetpoint' \in MinCharge..MaxCharge
    /\ dayStopped' \in {NotSet} \cup 0..Cooldown
    /\ nightStopped' \in {NotSet} \cup 0..Cooldown
    /\ modeState' \in ModeStates
    /\ InRange(setpoint')
    /\ ecoCharging' => dayStopped' = NotSet

\* Handlers that leave eco day alone, or end it, and let the cooldowns age.
LEMMA PlainHandlers ==
    ASSUME Inv, NEW s \in Situations, NEW r \in Readings, NEW d \in TickLengths,
           \/ Unplugged(s, d) \/ Unreachable(s, d) \/ MaxSocBlocked(s, d) \/ Manual(s, d)
           \/ Standby(s, d) \/ VictronDown(s, d) \/ NightCooldown(s, r, d)
           \/ DayMinCharge(s, r, d) \/ DaySocGate(s, r, d) \/ DayCooldown(s, r, d)
           \/ DayWait(s, r, d)
    PROVE  HandlerKeeps
<1>1. /\ Aged(dayStopped, d) \in {NotSet} \cup 0..Cooldown
      /\ Aged(nightStopped, d) \in {NotSet} \cup 0..Cooldown
      /\ dayStopped = NotSet => Aged(dayStopped, d) = NotSet
      BY AgedType DEF Inv, TypeOK
<1>2. Age(d)
      BY DEF Unplugged, Unreachable, MaxSocBlocked, Manual, Standby, VictronDown,
             NightCooldown, DayMinCharge, DaySocGate, DayCooldown, DayWait
<1>3. ecoCharging' \in BOOLEAN /\ (ecoCharging' => ecoCharging)
  <2>1. ecoCharging' = ecoCharging \/ ecoCharging' = FALSE
        BY DEF Unplugged, Unreachable, MaxSocBlocked, Manual, Standby, VictronDown,
               NightCooldown, DayMinCharge, DaySocGate, DayCooldown, DayWait
  <2>2. CASE ecoCharging' = ecoCharging
        BY <2>2, Zenon DEF Inv, TypeOK
  <2>3. CASE ecoCharging' = FALSE
        BY <2>3, Zenon
  <2>4. QED
        BY <2>1, <2>2, <2>3
<1>4. batteryFull' \in BOOLEAN
  <2>1. batteryFull' \in {batteryFull, TRUE, FALSE}
        BY DEF Unplugged, Unreachable, MaxSocBlocked, Manual, Standby, VictronDown,
               NightCooldown, DayMinCharge, DaySocGate, DayCooldown, DayWait, DayOpen
  <2>2. QED
        BY <2>1, Zenon DEF Inv, TypeOK
<1>5. daySetpoint' \in MinCharge..MaxCharge
  <2>1. daySetpoint' = daySetpoint \/ daySetpoint' = MinCharge
        BY DEF Unplugged, Unreachable, MaxSocBlocked, Manual, Standby, VictronDown,
               NightCooldown, DayMinCharge, DaySocGate, DayCooldown, DayWait
  <2>2. QED
        BY <2>1, RangeAssumption DEF Inv, TypeOK
<1>6. modeState' \in ModeStates
      BY DEF Unplugged, Unreachable, MaxSocBlocked, Manual, Standby, VictronDown,
             NightCooldown, DayMinCharge, DaySocGate, DayCooldown, DayWait, Result, ModeStates
<1>7. InRange(setpoint')
  <2>1. setpoint' \in {0, MinCharge, Clamp(ManualPower)}
        BY DEF Unplugged, Unreachable, MaxSocBlocked, Manual, Standby, VictronDown,
               NightCooldown, DayMinCharge, DaySocGate, DayCooldown, DayWait, Result
  <2>2. Clamp(ManualPower) \in MinCharge..MaxCharge
        BY ClampRange, RangeAssumption
  <2>3. QED
        BY <2>1, <2>2, RangeAssumption DEF InRange
<1>8. QED
      BY <1>1, <1>2, <1>3, <1>4, <1>5, <1>6, <1>7 DEF HandlerKeeps, Age, Inv,
         ChargingClearsCooldown

\* The night handlers that compute a power.
LEMMA NightHandlers ==
    ASSUME Inv, NEW s \in Situations, NEW r \in Readings, NEW d \in TickLengths,
           NightFloorStop(s, r, d) \/ NightGridFallback(s, r, d) \/ NightBattery(s, r, d)
    PROVE  HandlerKeeps
<1>1. /\ Aged(dayStopped, d) \in {NotSet} \cup 0..Cooldown
      /\ dayStopped = NotSet => Aged(dayStopped, d) = NotSet
      BY AgedType DEF Inv, TypeOK
<1>2. NightMayCompute(s, d)
      BY DEF NightFloorStop, NightGridFallback, NightBattery
<1>3. ecoCharging' \in BOOLEAN /\ batteryFull' \in BOOLEAN
      BY <1>2, Zenon DEF NightMayCompute, Inv, TypeOK
<1>4. daySetpoint' \in MinCharge..MaxCharge
      BY <1>2 DEF NightMayCompute, Inv, TypeOK
<1>5. nightStopped' \in {NotSet, 0}
      BY DEF NightFloorStop, NightGridFallback, NightBattery
<1>6. modeState' \in ModeStates
      BY DEF NightFloorStop, NightGridFallback, NightBattery, Result, ModeStates
<1>7. InRange(setpoint')
  <2>1. CASE NightFloorStop(s, r, d)
        BY <2>1 DEF NightFloorStop, Result, InRange
  <2>2. CASE NightGridFallback(s, r, d)
        BY <2>2, FallbackRange DEF NightGridFallback, Result
  <2>3. CASE NightBattery(s, r, d)
    <3>1. Clamp(NightPower) \in MinCharge..MaxCharge
          BY ClampRange, RangeAssumption
    <3>2. r.power \in Int \cup {None}
          BY InputAssumption DEF ReadingType
    <3>3. QED
          BY <2>3, <3>1, <3>2, LimitRange DEF NightBattery, Result
  <2>4. QED
        BY <2>1, <2>2, <2>3
<1>8. dayStopped' = Aged(dayStopped, d) /\ ecoCharging' = ecoCharging
      BY <1>2 DEF NightMayCompute
<1>9. QED
      BY <1>1, <1>3, <1>4, <1>5, <1>6, <1>7, <1>8, CooldownAssumption
      DEF HandlerKeeps, Inv, ChargingClearsCooldown, NotSet

\* The day handlers that charge, or stop charging.
LEMMA DayHandlers ==
    ASSUME Inv, NEW s \in Situations, NEW r \in Readings, NEW d \in TickLengths,
           \/ DayStop(s, r, d) \/ DayMinimum(s, r, d)
           \/ DayNotDrawing(s, r, d) \/ DayRamping(s, r, d)
    PROVE  HandlerKeeps
<1>1. /\ Aged(dayStopped, d) \in {NotSet} \cup 0..Cooldown
      /\ Aged(nightStopped, d) \in {NotSet} \cup 0..Cooldown
      /\ dayStopped = NotSet => Aged(dayStopped, d) = NotSet
      BY AgedType DEF Inv, TypeOK
<1>2. DayCharging(s, r, d)
      BY DEF DayStop, DayMinimum, DayNotDrawing, DayRamping, DayContinues
<1>3. nightStopped' = Aged(nightStopped, d) /\ DayOpen(s, r)
      BY <1>2 DEF DayCharging
<1>4. batteryFull' \in BOOLEAN
  <2>1. batteryFull' \in {batteryFull, TRUE, FALSE}
        BY <1>3 DEF DayOpen
  <2>2. QED
        BY <2>1, Zenon DEF Inv, TypeOK
<1>5. Ramp \in MinCharge..MaxCharge
      BY RangeAssumption DEF Ramp, Inv, TypeOK
<1>6. /\ daySetpoint' \in MinCharge..MaxCharge
      /\ InRange(setpoint')
  <2>1. CASE DayStop(s, r, d)
        BY <2>1, <1>5 DEF DayStop, Result, InRange
  <2>2. CASE DayMinimum(s, r, d)
        BY <2>2, <1>5, RangeAssumption DEF DayMinimum, Result, InRange
  <2>3. CASE DayNotDrawing(s, r, d)
        BY <2>3, RangeAssumption DEF DayNotDrawing, Result, InRange
  <2>4. CASE DayRamping(s, r, d)
    <3>1. Ramp \in Int /\ RampStep \in Int
          BY <1>5, RangeAssumption
    <3>2. /\ Clamp(Ramp - RampStep) \in MinCharge..MaxCharge
          /\ Clamp(Ramp + RampStep) \in MinCharge..MaxCharge
          BY <3>1, ClampRange
    <3>3. daySetpoint' \in {Clamp(Ramp - RampStep), Clamp(Ramp + RampStep)}
          BY <2>4 DEF DayRamping
    <3>4. QED
          BY <2>4, <3>2, <3>3 DEF DayRamping, Result, InRange
  <2>5. QED
        BY <2>1, <2>2, <2>3, <2>4
<1>7. modeState' \in ModeStates
      BY DEF DayStop, DayMinimum, DayNotDrawing, DayRamping, Result, ModeStates
<1>8. \/ ecoCharging' = FALSE /\ dayStopped' = 0
      \/ ecoCharging' = TRUE /\ dayStopped' = NotSet
  <2>1. CASE DayStop(s, r, d)
        BY <2>1 DEF DayStop
  <2>2. CASE DayContinues(s, r, d)
        BY <2>2, <1>1 DEF DayContinues, Inv, ChargingClearsCooldown
  <2>3. QED
        BY <2>1, <2>2 DEF DayMinimum, DayNotDrawing, DayRamping
<1>9. ecoCharging' \in BOOLEAN
      BY <1>8, Zenon
<1>10. /\ dayStopped' \in {NotSet} \cup 0..Cooldown
       /\ ecoCharging' => dayStopped' = NotSet
      BY <1>8, CooldownAssumption
<1>11. QED
      BY <1>1, <1>3, <1>4, <1>6, <1>7, <1>9, <1>10, Zenon DEF HandlerKeeps

\* Whichever handler is resolved, it keeps the invariant.
LEMMA StepInv ==
    ASSUME Inv, [Next]_vars
    PROVE  Inv'
<1>1. CASE UNCHANGED vars
      BY <1>1, Zenon DEF Inv, TypeOK, SetpointInRange, ChargingClearsCooldown, vars
<1>2. CASE Next
  <2>1. PICK s \in Situations, r \in Readings, d \in TickLengths : Compute(s, r, d)
        BY <1>2 DEF Next
  <2>2. HandlerKeeps
        BY <2>1, PlainHandlers, NightHandlers, DayHandlers DEF Compute
  <2>3. setpoint' \in Nat
        BY <2>2, RangeIsNat DEF HandlerKeeps
  <2>4. QED
        BY <2>2, <2>3, Zenon
        DEF HandlerKeeps, Inv, TypeOK, SetpointInRange, ChargingClearsCooldown, InRange
<1>3. QED
      BY <1>1, <1>2

\* The inductive invariant holds in every reachable state.
LEMMA Invariance == Spec => []Inv
BY InitInv, StepInv, PTL DEF Spec

-------------------------------------------------------------------------------
\* mode_strategies.py: every handler leaves its memory well formed.
THEOREM StrategiesTypeOK == Spec => []TypeOK
BY Invariance, PTL DEF Inv

\* Whatever the configured powers, compute_setpoint returns 0 or a power between
\* _MIN_CHARGE_W and _MAX_CHARGE_W.
THEOREM SetpointAlwaysInRange == Spec => []SetpointInRange
BY Invariance, PTL DEF Inv

\* Eco-day charging and its cooldown exclude each other.
THEOREM ChargingExcludesCooldown == Spec => []ChargingClearsCooldown
BY Invariance, PTL DEF Inv

-------------------------------------------------------------------------------
\* What a cooldown that is remembered shows, and what its absence shows.
Shown(a) == IF a = NotSet THEN Cooldown ELSE a

\* The memory of the strategies is what the observer saw: both cooldowns run with
\* the observer's clocks, and the latch is set only on a battery that was full.
ObserverInv ==
    /\ sinceDayStop = Shown(dayStopped) /\ sinceNightStop = Shown(nightStopped)
    /\ batteryFull => hasBeenFull
    /\ CooldownRespected /\ RampNeedsFullBattery

\* A remembered cooldown and the observer's clock age alike.
LEMMA ShownAges ==
    ASSUME NEW a \in {NotSet} \cup 0..Cooldown, NEW d \in TickLengths
    PROVE  /\ Longer(Shown(a), d) = Shown(Aged(a, d))
           /\ ~CoolingDown(a, d) => Longer(Shown(a), d) = Cooldown
           /\ CoolingDown(a, d) <=> a # NotSet /\ Shown(a) + d < Cooldown
BY CooldownAssumption DEF Shown, Longer, Aged, CoolingDown, NotSet

\* Where a handler leaves the cooldowns to age and neither clock is reset, they
\* still agree; and a strategy that charges nothing respects them.
LEMMA AgedObserved ==
    ASSUME Inv, ObserverInv, NEW s \in Situations, NEW r \in Readings, NEW d \in TickLengths,
           Observe(s, r, d), Age(d), modeState' # "eco_day_ramping",
           modeState' = "eco_day_cooldown" => ~ecoCharging /\ CoolingDown(dayStopped, d),
           modeState' # "eco_night_battery",
           setpoint' = 0 \/ modeState' \notin DayStates \cup NightStates,
           batteryFull' => hasBeenFull'
    PROVE  ObserverInv'
<1>1. /\ sinceDayStop' = Longer(sinceDayStop, d) /\ sinceNightStop' = Longer(sinceNightStop, d)
      /\ sinceDayStop' = Shown(dayStopped') /\ sinceNightStop' = Shown(nightStopped')
  <2>1. ~(modeState' = "eco_day_cooldown" /\ (ecoCharging \/ sinceDayStop + d >= Cooldown))
    <3>1. CoolingDown(dayStopped, d) => sinceDayStop + d < Cooldown
      BY ShownAges DEF Inv, TypeOK, ObserverInv
    <3>2. sinceDayStop \in Nat
      BY CooldownAssumption DEF Inv, TypeOK, ObserverInv, Shown, NotSet
    <3> QED
      BY <3>1, <3>2, CooldownAssumption
  <2>2. /\ sinceDayStop' = Longer(sinceDayStop, d)
        /\ sinceNightStop' = Longer(sinceNightStop, d)
    BY <2>1, Zenon DEF Observe
  <2> QED
    BY <2>2, ShownAges DEF Inv, TypeOK, ObserverInv, Age
<1>2. CooldownRespected' /\ RampNeedsFullBattery'
  BY DEF CooldownRespected, RampNeedsFullBattery
<1> QED
  BY <1>1, <1>2 DEF ObserverInv

\* The latch: a handler that sets or keeps it does so on a battery that the observer
\* saw full, too.
LEMMA LatchObserved ==
    ASSUME ObserverInv, NEW s \in Situations, NEW r \in Readings, NEW d \in TickLengths,
           Observe(s, r, d), batteryFull',
           \/ DayOpen(s, r)
           \/ /\ UNCHANGED batteryFull
              /\ Handler(s) \notin {"standby", "eco_victron_down"} /\ s.connected
              /\ Handler(s) = "eco_day" => r.minCharge /\ r.evNeeds
    PROVE  hasBeenFull'
<1>1. CASE DayOpen(s, r)
  <2>1. s.connected /\ Handler(s) = "eco_day" /\ ~(r.minCharge /\ r.evNeeds)
    BY <1>1 DEF DayOpen, Handler
  <2>2. CASE r.soc # None /\ r.soc >= FullPct
    BY <2>1, <2>2 DEF Observe, SeesFull
  <2>3. CASE ~(r.soc # None /\ r.soc >= FullPct)
    <3>1. ~(r.soc # None /\ r.soc < FullExitPct) /\ batteryFull
      BY <1>1, <2>3 DEF DayOpen
    <3>2. ~LosesFull(s, r) /\ hasBeenFull
      BY <2>1, <3>1 DEF LosesFull, ObserverInv
    <3> QED
      BY <3>2 DEF Observe
  <2> QED
    BY <2>2, <2>3
<1>2. CASE /\ UNCHANGED batteryFull
           /\ Handler(s) \notin {"standby", "eco_victron_down"} /\ s.connected
           /\ Handler(s) = "eco_day" => r.minCharge /\ r.evNeeds
  <2>1. ~LosesFull(s, r) /\ hasBeenFull
    BY <1>2 DEF LosesFull, ObserverInv
  <2> QED
    BY <2>1 DEF Observe
<1> QED
  BY <1>1, <1>2

\* The handlers that let the cooldowns age.
LEMMA PlainObserved ==
    ASSUME Inv, ObserverInv, NEW s \in Situations, NEW r \in Readings, NEW d \in TickLengths,
           Observe(s, r, d),
           \/ Unplugged(s, d) \/ Unreachable(s, d) \/ MaxSocBlocked(s, d) \/ Manual(s, d)
           \/ Standby(s, d) \/ VictronDown(s, d) \/ NightCooldown(s, r, d)
           \/ DayMinCharge(s, r, d) \/ DaySocGate(s, r, d) \/ DayCooldown(s, r, d)
           \/ DayWait(s, r, d)
    PROVE  ObserverInv'
<1>1. /\ Age(d) /\ modeState' # "eco_day_ramping"
      /\ modeState' = "eco_day_cooldown" => ~ecoCharging /\ CoolingDown(dayStopped, d)
      /\ modeState' # "eco_night_battery"
      /\ setpoint' = 0 \/ modeState' \notin DayStates \cup NightStates
  BY DEF Unplugged, Unreachable, MaxSocBlocked, Manual, Standby, VictronDown, NightCooldown,
         DayMinCharge, DaySocGate, DayCooldown, DayWait, Result, DayStates, NightStates
<1>2. ASSUME batteryFull'
      PROVE  hasBeenFull'
  <2>1. CASE Unplugged(s, d) \/ Standby(s, d) \/ VictronDown(s, d) \/ DaySocGate(s, r, d)
    BY <1>2, <2>1 DEF Unplugged, Standby, VictronDown, DaySocGate
  <2>2. CASE DayCooldown(s, r, d) \/ DayWait(s, r, d)
    BY <1>2, <2>2, LatchObserved DEF DayCooldown, DayWait
  <2>3. CASE \/ Unreachable(s, d) \/ MaxSocBlocked(s, d) \/ Manual(s, d)
             \/ NightCooldown(s, r, d) \/ DayMinCharge(s, r, d)
    <3>1. /\ UNCHANGED batteryFull
          /\ Handler(s) \notin {"standby", "eco_victron_down"} /\ s.connected
          /\ Handler(s) = "eco_day" => r.minCharge /\ r.evNeeds
      BY <2>3 DEF Unreachable, MaxSocBlocked, Manual, NightCooldown, DayMinCharge, Handler
    <3> QED
      BY <1>2, <3>1, LatchObserved
  <2> QED
    BY <2>1, <2>2, <2>3
<1> QED
  BY <1>1, <1>2, AgedObserved

\* The night handlers that compute a power: a stop for the battery's sake is seen
\* as the cooldown begins, and no cooldown runs where there is none to remember.
LEMMA NightObserved ==
    ASSUME Inv, ObserverInv, NEW s \in Situations, NEW r \in Readings, NEW d \in TickLengths,
           Observe(s, r, d),
           NightFloorStop(s, r, d) \/ NightGridFallback(s, r, d) \/ NightBattery(s, r, d)
    PROVE  ObserverInv'
<1>1. NightMayCompute(s, d)
  BY DEF NightFloorStop, NightGridFallback, NightBattery
<1>2. modeState' \in {"eco_night_floor_stop", "eco_night_grid_fallback", "eco_night_battery"}
  BY DEF NightFloorStop, NightGridFallback, NightBattery, Result
<1>3. sinceDayStop' = Shown(dayStopped')
  BY <1>1, <1>2, ShownAges DEF NightMayCompute, Inv, TypeOK, ObserverInv, Observe
<1>4. nightStopped' = IF modeState' = "eco_night_battery" /\ setpoint' = 0 THEN 0 ELSE NotSet
  BY DEF NightFloorStop, NightGridFallback, NightBattery, Result
<1>5. sinceNightStop' = Shown(nightStopped')
  <2>1. Longer(sinceNightStop, d) = Cooldown
    BY <1>1, ShownAges DEF NightMayCompute, Inv, TypeOK, ObserverInv
  <2> QED
    BY <1>4, <2>1 DEF Observe, Shown, NotSet
<1>6. CooldownRespected' /\ RampNeedsFullBattery'
  BY <1>2, <1>4, <1>5, CooldownAssumption
     DEF CooldownRespected, RampNeedsFullBattery, DayStates, NightStates, Shown, NotSet
<1>7. batteryFull' => hasBeenFull'
  BY <1>1, LatchObserved DEF NightMayCompute, Handler
<1> QED
  BY <1>3, <1>5, <1>6, <1>7 DEF ObserverInv

\* The day handlers that charge, or stop charging: a charge that goes on has
\* forgotten its cooldown because it is over.
LEMMA DayObserved ==
    ASSUME Inv, ObserverInv, NEW s \in Situations, NEW r \in Readings, NEW d \in TickLengths,
           Observe(s, r, d),
           \/ DayStop(s, r, d) \/ DayMinimum(s, r, d)
           \/ DayNotDrawing(s, r, d) \/ DayRamping(s, r, d)
    PROVE  ObserverInv'
<1> USE CooldownAssumption
<1>1. DayCharging(s, r, d) /\ DayOpen(s, r)
  BY DEF DayStop, DayMinimum, DayNotDrawing, DayRamping, DayContinues, DayCharging
<1>2. modeState' \in {"eco_day_cooldown", "eco_day_minimum", "eco_day_ramping"}
  BY DEF DayStop, DayMinimum, DayNotDrawing, DayRamping, Result
<1>3. batteryFull' => hasBeenFull'
  BY <1>1, LatchObserved
<1>4. sinceNightStop' = Shown(nightStopped')
  BY <1>1, <1>2, ShownAges DEF DayCharging, Inv, TypeOK, ObserverInv, Observe
<1>5. Longer(sinceDayStop, d) = Cooldown /\ (ecoCharging \/ sinceDayStop + d >= Cooldown)
  <2>1. CASE ecoCharging
    <3>1. sinceDayStop = Cooldown
      BY <2>1 DEF Inv, ChargingClearsCooldown, ObserverInv, Shown
    <3> QED
      BY <2>1, <3>1 DEF Longer
  <2>2. CASE MayStart(d)
    BY <2>2, ShownAges DEF MayStart, Inv, TypeOK, ObserverInv, Longer, Shown, NotSet
  <2> QED
    BY <1>1, <2>1, <2>2 DEF DayCharging
<1>6. CASE DayStop(s, r, d)
  <2>1. sinceDayStop' = 0 /\ dayStopped' = 0 /\ modeState' = "eco_day_cooldown" /\ setpoint' = 0
    BY <1>5, <1>6 DEF DayStop, Result, Observe
  <2> QED
    BY <1>3, <1>4, <2>1
       DEF ObserverInv, CooldownRespected, RampNeedsFullBattery, NightStates, Shown, NotSet
<1>7. CASE DayMinimum(s, r, d) \/ DayNotDrawing(s, r, d) \/ DayRamping(s, r, d)
  <2>1. /\ DayContinues(s, r, d) /\ modeState' # "eco_day_cooldown"
        /\ modeState' = "eco_day_ramping" => batteryFull'
    BY <1>7 DEF DayMinimum, DayNotDrawing, DayRamping, Result
  <2>2. dayStopped' = NotSet
    BY <2>1, AgedType DEF DayContinues, Inv, TypeOK, ChargingClearsCooldown
  <2>3. sinceDayStop' = Cooldown
    BY <1>5, <2>1 DEF Observe
  <2> QED
    BY <1>2, <1>3, <1>4, <2>1, <2>2, <2>3
       DEF ObserverInv, CooldownRespected, RampNeedsFullBattery, NightStates, Shown
<1> QED
  BY <1>6, <1>7

\* The strategies' invariant and the observer's hold together.
LEMMA ObservedInvariance == ObservedSpec => [](Inv /\ ObserverInv)
<1>1. Init /\ HistoryInit => Inv /\ ObserverInv
  BY InitInv DEF Init, HistoryInit, ObserverInv, Shown, CooldownRespected, RampNeedsFullBattery
<1>2. ASSUME Inv, ObserverInv, [ObservedNext]_<<vars, history>>
      PROVE  (Inv /\ ObserverInv)'
  <2>1. CASE UNCHANGED <<vars, history>>
    <3>1. Inv'
      BY <1>2, <2>1, StepInv
    <3> QED
      BY <1>2, <2>1, <3>1
         DEF vars, history, ObserverInv, CooldownRespected, RampNeedsFullBattery
  <2>2. CASE ObservedNext
    <3>1. PICK s \in Situations, r \in Readings, d \in TickLengths :
              Compute(s, r, d) /\ Observe(s, r, d)
      BY <2>2 DEF ObservedNext
    <3>2. Inv'
      BY <1>2, <3>1, StepInv DEF Next
    <3>3. ObserverInv'
      BY <1>2, <3>1, PlainObserved, NightObserved, DayObserved DEF Compute
    <3> QED
      BY <3>2, <3>3
  <2> QED
    BY <1>2, <2>1, <2>2
<1> QED
  BY <1>1, <1>2, PTL DEF ObservedSpec

\* constants.py _ECO_DAY_COOLDOWN_S: after a stop for the home battery's sake the
\* strategy that stopped asks for nothing for the whole cooldown, whatever happens
\* in between.
THEOREM CooldownsAreRespected == ObservedSpec => []CooldownRespected
<1>1. ObserverInv => CooldownRespected
  BY DEF ObserverInv
<1> QED
  BY <1>1, ObservedInvariance, PTL

\* mode_strategies.py: the ramp runs only on a battery that has been full and has
\* not dropped below the exit threshold since.
THEOREM RampNeedsFull == ObservedSpec => []RampNeedsFullBattery
<1>1. ObserverInv => RampNeedsFullBattery
  BY DEF ObserverInv
<1> QED
  BY <1>1, ObservedInvariance, PTL

-------------------------------------------------------------------------------
\* A set of natural numbers has a least one.
LEMMA LeastExists ==
    ASSUME NEW S, S \subseteq Nat, S # {}
    PROVE  \E m \in S : \A n \in S : m <= n
<1> DEFINE below == {p \in Nat \X Nat : p[1] < p[2]}
<1>1. IsWellFoundedOn(below, Nat)
  BY NatLessThanWellFounded DEF OpToRel
<1>2. PICK m \in S : \A n \in S : <<n, m>> \notin below
  BY <1>1, WFMin
<1>3. \A a, b \in Nat : a < b => <<a, b>> \in below
  OBVIOUS
<1> HIDE DEF below
<1>4. ASSUME NEW n \in S PROVE m <= n
  <2>1. n \in Nat /\ m \in Nat /\ ~(n < m)
    BY <1>2, <1>3
  <2> QED
    BY <2>1
<1> QED
  BY <1>4

\* Products with a natural number grow with the other factor.
LEMMA ProductGrows ==
    ASSUME NEW a \in Int, NEW b \in Int, a <= b, NEW m \in Nat
    PROVE  a * m \in Int /\ b * m \in Int /\ a * m <= b * m
<1>1. PICK k \in Nat : b = a + k
  <2>1. b - a \in Nat /\ b = a + (b - a)
    OBVIOUS
  <2> QED
    BY <2>1
<1>2. (a + k) * m = a * m + k * m /\ k * m \in Nat /\ a * m \in Int
  OBVIOUS
<1> QED
  BY <1>1, <1>2

\* What a vehicle gains in an iteration is paid for by the time it takes.
LEMMA GainTakesTime ==
    ASSUME NEW v \in Nat, NEW w \in Nat, w = v \/ w = v + 1, NEW e \in Nat, NEW age \in Nat,
           NEW m \in Nat, NEW d \in Nat, m <= d, (v - e) * m <= age
    PROVE  (w - e) * m <= age + d
<1>1. (w - e) * m <= (v - e + 1) * m /\ (w - e) * m \in Int
  BY ProductGrows
<1>2. (v - e + 1) * m = (v - e) * m + m /\ (v - e) * m \in Int
  OBVIOUS
<1> QED
  BY <1>1, <1>2

\* Every handler that is resolved for a vehicle that is away, or at its target,
\* asks for nothing.
LEMMA BlockedAsksNothing ==
    ASSUME NEW s \in Situations, NEW r \in Readings, NEW d \in TickLengths,
           Compute(s, r, d), s.atMaxSoc \/ ~s.connected
    PROVE  setpoint' = 0
<1>1. Handler(s) \in {"standby", "no_vehicle", "max_soc_blocked"}
  BY DEF Handler
<1>2. Unplugged(s, d) \/ Unreachable(s, d) \/ MaxSocBlocked(s, d) \/ Standby(s, d)
  BY <1>1 DEF Compute, Manual, VictronDown, NightCooldown, NightFloorStop, NightGridFallback,
              NightBattery, NightMayCompute, DayMinCharge, DaySocGate, DayCooldown, DayWait,
              DayStop, DayMinimum, DayNotDrawing, DayRamping, DayCharging, DayContinues, DayOpen
<1> QED
  BY <1>2 DEF Unplugged, Unreachable, MaxSocBlocked, Standby, Result

\* The shortest time between two iterations: m bounds what a vehicle gains a second.
Shortest(m) == m \in TickLengths /\ \A d \in TickLengths : m <= d

SocTypes ==
    /\ vehicleSoc \in Nat /\ evSoc \in Nat \cup {None}
    /\ socAge \in Nat /\ excess \in Nat

\* The vehicle gained no more since its last report than its age allows.
GainedSinceReport(m) ==
    reported => /\ evSoc \in Nat /\ evSoc <= vehicleSoc
                /\ socAge > StaleAfter \/ (vehicleSoc - evSoc) * m <= socAge

\* While it charges by a decision taken on its SOC, it has not gone so far past
\* the target that the report would be stale.
RoomLeft(m) ==
    informed /\ setpoint > 0 => (vehicleSoc + 1 - MaxSoc) * m <= StaleAfter

ExcessBounded(m) ==
    excess = 0 \/ (excess <= vehicleSoc - MaxSoc /\ excess * m <= StaleAfter)

SocInv(m) == SocTypes /\ GainedSinceReport(m) /\ RoomLeft(m) /\ ExcessBounded(m)

\* A report is never ahead of the vehicle.
LEMMA ReportKeeps ==
    ASSUME NEW m, Shortest(m), SocInv(m), ReportSoc
    PROVE  SocInv(m)'
<1>1. /\ evSoc' = vehicleSoc /\ socAge' = 0
      /\ UNCHANGED <<setpoint, vehicleSoc, informed, excess>>
  BY DEF ReportSoc, vars
<1>2. m \in Nat /\ vehicleSoc \in Nat /\ (vehicleSoc - vehicleSoc) * m = 0
  BY CooldownAssumption DEF Shortest, SocInv, SocTypes
<1> QED
  BY <1>1, <1>2 DEF SocInv, SocTypes, GainedSinceReport, RoomLeft, ExcessBounded

\* An iteration lets the vehicle gain one level at most, and more than that only
\* if it is known to have room.
LEMMA IterationKeeps ==
    ASSUME NEW m, Shortest(m), Inv, SocInv(m), NEW s \in Situations, NEW r \in Readings,
           NEW d \in TickLengths, SocCompute(s, r, d), Inv'
    PROVE  SocInv(m)'
<1>1. m \in Nat /\ d \in Nat /\ m <= d /\ MaxSoc \in Nat /\ StaleAfter \in Nat
  BY CooldownAssumption, SocAssumption DEF Shortest
<1>2. /\ vehicleSoc \in Nat /\ socAge \in Nat /\ excess \in Nat
      /\ evSoc \in Nat \cup {None} /\ setpoint \in Nat /\ setpoint' \in Nat
  BY DEF SocInv, SocTypes, Inv, TypeOK
<1>3. /\ s.atMaxSoc = AtMaxSoc(d) /\ Compute(s, r, d) /\ evSoc' = evSoc
      /\ socAge' = Older(socAge, d) /\ informed' = (reported /\ Soc(d) # None)
  BY DEF SocCompute
<1>4. /\ socAge' \in Nat
      /\ socAge' <= StaleAfter => socAge <= StaleAfter /\ socAge' = socAge + d
  BY <1>1, <1>2, <1>3 DEF Older
<1>5. ASSUME Soc(d) # None
      PROVE  evSoc \in Nat /\ socAge <= StaleAfter /\ socAge' = socAge + d /\ socAge' <= StaleAfter
  BY <1>1, <1>2, <1>3, <1>5 DEF Soc, Older
<1>6. CASE s.connected
  <2>1. /\ vehicleSoc' \in {vehicleSoc, vehicleSoc + 1}
        /\ vehicleSoc' # vehicleSoc => setpoint > 0
        /\ excess' = IF vehicleSoc' > MaxSoc /\ vehicleSoc' > vehicleSoc /\ informed
                     THEN excess + 1 ELSE excess
        /\ reported' = reported
    BY <1>6 DEF SocCompute, Charge
  <2>2. SocTypes'
    BY <1>2, <1>3, <1>4, <2>1 DEF SocTypes
  <2>3. PICK w \in Nat : w = vehicleSoc' /\ (w = vehicleSoc \/ w = vehicleSoc + 1)
    BY <1>2, <2>1
  <2>4. ASSUME reported, evSoc \in Nat
        PROVE  evSoc <= w /\ (socAge' > StaleAfter \/ (w - evSoc) * m <= socAge')
    <3>1. evSoc <= vehicleSoc /\ (socAge > StaleAfter \/ (vehicleSoc - evSoc) * m <= socAge)
      BY <2>4 DEF SocInv, GainedSinceReport
    <3>2. evSoc <= w
      BY <1>2, <2>3, <2>4, <3>1
    <3>3. CASE socAge <= StaleAfter /\ socAge' = socAge + d
      <4>1. (w - evSoc) * m <= socAge + d
        <5>1. (vehicleSoc - evSoc) * m <= socAge
          BY <1>1, <1>2, <3>1, <3>3
        <5>2. w = vehicleSoc \/ w = vehicleSoc + 1
          BY <2>3
        <5>3. m \in Nat /\ d \in Nat /\ m <= d /\ vehicleSoc \in Nat /\ socAge \in Nat
          BY <1>1, <1>2
        <5> QED
          BY <2>4, <5>1, <5>2, <5>3, GainTakesTime
      <4> QED
        BY <3>2, <3>3, <4>1
    <3> QED
      BY <1>1, <1>4, <3>2, <3>3
  <2>5. GainedSinceReport(m)'
    <3>1. reported => evSoc \in Nat
      BY DEF SocInv, GainedSinceReport
    <3> QED
      BY <1>3, <2>1, <2>3, <2>4, <3>1 DEF GainedSinceReport
  <2>6. RoomLeft(m)'
    <3> SUFFICES ASSUME informed', setpoint' > 0
                 PROVE  (w + 1 - MaxSoc) * m <= StaleAfter
        BY <2>3 DEF RoomLeft
    <3>1. reported /\ Soc(d) # None
      BY <1>3
    <3>2. ~AtMaxSoc(d)
      BY <1>2, <1>3, BlockedAsksNothing
    <3>3. evSoc \in Nat /\ evSoc < MaxSoc
      BY <1>1, <1>2, <1>5, <3>1, <3>2 DEF AtMaxSoc, Target, Soc
    <3>4. (w - evSoc) * m <= StaleAfter
      <4>1. (w - evSoc) * m <= socAge + d /\ socAge + d <= StaleAfter
        BY <1>1, <1>2, <1>5, <2>4, <3>1, <3>3
      <4>2. (w - evSoc) * m \in Int
        BY <1>1, <3>3
      <4> QED
        BY <1>1, <1>2, <4>1, <4>2
    <3>5. w + 1 - MaxSoc <= w - evSoc
      BY <1>1, <3>3
    <3>6. /\ (w + 1 - MaxSoc) * m <= (w - evSoc) * m
          /\ (w + 1 - MaxSoc) * m \in Int /\ (w - evSoc) * m \in Int
      BY <1>1, <3>3, <3>5, ProductGrows
    <3> QED
      BY <1>1, <3>4, <3>6
  <2>7. ExcessBounded(m)'
    <3>1. CASE excess' = excess
      <4>1. excess = 0 \/ excess <= w - MaxSoc
        <5>1. excess = 0 \/ excess <= vehicleSoc - MaxSoc
          BY DEF SocInv, ExcessBounded
        <5>2. vehicleSoc <= w
          BY <1>2, <2>3
        <5> QED
          BY <1>1, <1>2, <5>1, <5>2
      <4> QED
        BY <2>3, <3>1, <4>1 DEF SocInv, ExcessBounded
    <3>2. CASE excess' # excess
      <4>1. w > MaxSoc /\ w = vehicleSoc + 1 /\ informed /\ setpoint > 0 /\ excess' = excess + 1
        BY <1>1, <1>2, <2>1, <2>3, <3>2
      <4>2. excess + 1 <= w - MaxSoc
        BY <1>1, <1>2, <4>1 DEF SocInv, ExcessBounded
      <4>3. (w - MaxSoc) * m <= StaleAfter
        <5>1. w - MaxSoc = vehicleSoc + 1 - MaxSoc
          BY <1>1, <1>2, <4>1
        <5> QED
          BY <4>1, <5>1 DEF SocInv, RoomLeft
      <4>4. (excess + 1) * m \in Int /\ (w - MaxSoc) * m \in Int
            /\ (excess + 1) * m <= (w - MaxSoc) * m
        BY <1>1, <1>2, <4>2, ProductGrows
      <4>5. (excess + 1) * m <= StaleAfter
        BY <1>1, <4>3, <4>4
      <4> QED
        BY <2>3, <4>1, <4>2, <4>5 DEF ExcessBounded
    <3> QED
      BY <3>1, <3>2
  <2> QED
    BY <2>2, <2>5, <2>6, <2>7 DEF SocInv
<1>7. CASE ~s.connected
  <2>1. vehicleSoc' \in Nat /\ excess' = 0 /\ reported' = FALSE /\ setpoint' = 0
    BY <1>3, <1>7, BlockedAsksNothing, SocAssumption DEF SocCompute, DriveOrSwap
  <2> QED
    BY <1>2, <1>3, <1>4, <2>1 DEF SocInv, SocTypes, GainedSinceReport, RoomLeft, ExcessBounded
<1> QED
  BY <1>6, <1>7

\* README.md:22 ff. (ev_max_soc): a vehicle that reports its SOC gains no more past
\* its target than while the last report before it was fresh, in any mode, however
\* often it reports and whichever other vehicle is plugged in between.
THEOREM TargetAlwaysHolds == SocSpec => []TargetHolds
<1>1. PICK m : Shortest(m)
  BY LeastExists, CooldownAssumption, SocAssumption DEF Shortest
<1>2. Init /\ SocInit => Inv /\ SocInv(m)
  <2> SUFFICES ASSUME Init, SocInit PROVE Inv /\ SocInv(m)
      OBVIOUS
  <2>1. setpoint = 0 /\ vehicleSoc \in Nat /\ evSoc = None /\ socAge = 0 /\ excess = 0
    BY SocAssumption DEF Init, SocInit
  <2>2. ~reported /\ ~informed
    BY DEF SocInit
  <2> QED
    BY <2>1, <2>2, InitInv
       DEF SocInv, SocTypes, GainedSinceReport, RoomLeft, ExcessBounded
<1>3. ASSUME Inv, SocInv(m), [SocNext]_<<vars, socVars>>
      PROVE  (Inv /\ SocInv(m))'
  <2>1. CASE UNCHANGED <<vars, socVars>>
    <3>1. Inv'
      BY <1>3, <2>1, StepInv
    <3> QED
      BY <1>3, <2>1, <3>1
         DEF vars, socVars, SocInv, SocTypes, GainedSinceReport, RoomLeft, ExcessBounded
  <2>2. CASE ReportSoc
    <3>1. Inv'
      BY <1>3, <2>2, StepInv DEF ReportSoc
    <3> QED
      BY <1>1, <1>3, <2>2, <3>1, ReportKeeps
  <2>3. ASSUME NEW s \in Situations, NEW r \in Readings, NEW d \in TickLengths,
               SocCompute(s, r, d)
        PROVE  (Inv /\ SocInv(m))'
    <3>1. Inv'
      BY <1>3, <2>3, StepInv DEF SocCompute, Next
    <3> QED
      BY <1>1, <1>3, <2>3, <3>1, IterationKeeps
  <2> QED
    BY <1>3, <2>1, <2>2, <2>3 DEF SocNext
<1>4. SocInv(m) => TargetHolds
  <2> SUFFICES ASSUME SocInv(m) PROVE m \in TickLengths /\ excess * m <= StaleAfter
      BY DEF TargetHolds
  <2>1. m \in TickLengths /\ m \in Nat /\ StaleAfter \in Nat
    BY <1>1, CooldownAssumption, SocAssumption DEF Shortest
  <2> QED
    BY <2>1 DEF SocInv, ExcessBounded
<1> QED
  BY <1>2, <1>3, <1>4, PTL DEF SocSpec

===============================================================================
