----------------------------- MODULE ModeStrategies ----------------------------
(***************************************************************************)
(* The mode strategies of app/control/mode_strategies.py.  One step is one *)
(* iteration of the control loop: a handler is resolved from the mode and  *)
(* the state of the installation, and computes the setpoint from the       *)
(* readings and from what the Eco strategies remember: whether eco-day     *)
(* charging is on, its ramp, the battery-full latch and two cooldowns.     *)
(*                                                                         *)
(* Cooldowns are kept as ages (now - stopped_at), cut at Cooldown.  The    *)
(* rolling means enter by the verdicts the code draws from them.           *)
(***************************************************************************)
EXTENDS Integers

CONSTANTS
    None,            \* a reading that is not available
    MinCharge,       \* _MIN_CHARGE_W
    MaxCharge,       \* _MAX_CHARGE_W
    RampStep,        \* eco_day_ramp_step_w
    Deadband,        \* _RAMP_DEADBAND_W
    Cooldown,        \* _ECO_DAY_COOLDOWN_S
    ManualPower,     \* manual_power_w
    NightPower,      \* solar_battery_max_ev_charge_power_w
    MaxDischarge,    \* solar_battery_max_discharge_w
    FlatPower,       \* the discharge below which the battery counts as flat
    FloorPct,        \* solar_battery_discharge_floor_pct
    GatePct,         \* eco_day_min_solar_battery_soc_pct
    FullPct,         \* eco_day_solar_battery_full_pct
    FullExitPct,     \* eco_day_solar_battery_full_exit_pct
    TickLengths,     \* the seconds that may pass between two iterations
    Situations,      \* what the handler is resolved from
    Readings         \* what it computes with

ASSUME RangeAssumption ==
    /\ MinCharge \in Nat \ {0} /\ MaxCharge \in Nat /\ MinCharge <= MaxCharge
    /\ RampStep \in Nat /\ Deadband \in Nat /\ ManualPower \in Nat /\ NightPower \in Nat
    /\ MaxDischarge \in Nat /\ FlatPower \in Nat
ASSUME CooldownAssumption == Cooldown \in Nat /\ TickLengths \subseteq Nat \ {0}
ASSUME PctAssumption ==
    FloorPct \in Nat /\ GatePct \in Nat /\ FullPct \in Nat /\ FullExitPct \in Nat
ASSUME NoneAssumption == None \notin Int

SituationType ==
    [mode : {"Eco", "Manual", "Standby"}, connected : BOOLEAN, healthy : BOOLEAN,
     atMaxSoc : BOOLEAN, victronUp : BOOLEAN, night : BOOLEAN]

ReadingType ==
    [soc : Nat \cup {None},          \* solar_battery_soc_pct
     power : Int \cup {None},        \* solar_battery_power_w, negative when discharging
     evNeeds : BOOLEAN,              \* EV SOC is fresh and below ev_min_soc_pct
     minCharge : BOOLEAN,            \* eco_day_min_charge_enabled
     surplus : BOOLEAN,              \* mean export or mean battery charge calls for a start
     meanLow : BOOLEAN,              \* mean battery power below the day limit
     drawing : BOOLEAN,              \* ev_active_power_w > 0
     windowEnds : BOOLEAN,           \* less than a minute of discharge window left
     required : Nat]                 \* W to reach ev_min_soc_pct by its end

ASSUME InputAssumption == Situations \subseteq SituationType /\ Readings \subseteq ReadingType

ModeStates ==
    {"idle", "no_vehicle", "max_soc_blocked", "manual", "standby", "eco_victron_down",
     "eco_day_soc_gate", "eco_day_min_charge", "eco_day_waiting_for_export",
     "eco_day_cooldown", "eco_day_minimum", "eco_day_ramping", "eco_night_floor_stop",
     "eco_night_battery", "eco_night_grid_fallback"}

NotSet == -1

VARIABLES
    ecoCharging,    \* _eco_charging
    daySetpoint,    \* _eco_day_setpoint_w
    batteryFull,    \* _eco_day_battery_full
    dayStopped,     \* now - _eco_day_stopped_at, or NotSet
    nightStopped,   \* now - _eco_night_stopped_at, or NotSet
    modeState,      \* _charge_mode_state
    setpoint        \* what compute_setpoint returned

vars == <<ecoCharging, daySetpoint, batteryFull, dayStopped, nightStopped, modeState, setpoint>>

-------------------------------------------------------------------------------
\* Mutant of Clamp: no upper limit.
ClampBelow(w) == IF w < MinCharge THEN MinCharge ELSE w

Clamp(w) == IF w < MinCharge THEN MinCharge ELSE IF w > MaxCharge THEN MaxCharge ELSE w

Aged(a, d) ==
    IF a = NotSet THEN NotSet ELSE IF a + d < Cooldown THEN a + d ELSE Cooldown

\* Mutant of CoolingDown: seconds compared with minutes.
CoolingDownMinutes(a, d) == a # NotSet /\ Aged(a, d) < Cooldown \div 60

CoolingDown(a, d) == a # NotSet /\ Aged(a, d) < Cooldown

\* Mutant of LimitBatteryDischarge: the remainder is not compared to the minimum.
LimitWithoutMinimum(w, power) ==
    LET overshoot == IF power = None \/ power >= 0 THEN 0 ELSE -power - MaxDischarge
    IN  IF overshoot <= 0 THEN w ELSE IF w - overshoot < 0 THEN 0 ELSE w - overshoot

\* limit_battery_discharge
LimitBatteryDischarge(w, power) ==
    LET overshoot == IF power = None \/ power >= 0 THEN 0 ELSE -power - MaxDischarge
    IN  IF overshoot <= 0 THEN w
        ELSE IF w - overshoot < MinCharge THEN 0 ELSE Clamp(w - overshoot)

\* compute_grid_fallback_setpoint, for a car that is below its minimum
GridFallbackSetpoint(r) == IF r.windowEnds THEN 0 ELSE Clamp(r.required)

\* Mutant of Handler: Manual is resolved before the target is looked at.
HandlerManualFirst(s) ==
    IF s.mode = "Standby" THEN "standby"
    ELSE IF ~s.connected \/ ~s.healthy THEN "no_vehicle"
    ELSE IF s.mode = "Manual" THEN "manual"
    ELSE IF s.atMaxSoc THEN "max_soc_blocked"
    ELSE IF ~s.victronUp THEN "eco_victron_down"
    ELSE IF s.night THEN "eco_night" ELSE "eco_day"

\* resolve_mode_handler
Handler(s) ==
    IF s.mode = "Standby" THEN "standby"
    ELSE IF ~s.connected \/ ~s.healthy THEN "no_vehicle"
    ELSE IF s.atMaxSoc THEN "max_soc_blocked"
    ELSE IF s.mode = "Manual" THEN "manual"
    ELSE IF ~s.victronUp THEN "eco_victron_down"
    ELSE IF s.night THEN "eco_night" ELSE "eco_day"

-------------------------------------------------------------------------------
Init ==
    /\ ecoCharging = FALSE
    /\ daySetpoint = MinCharge
    /\ batteryFull = FALSE
    /\ dayStopped = NotSet
    /\ nightStopped = NotSet
    /\ modeState = "idle"
    /\ setpoint = 0

\* The cooldown timers run on, whichever handler computes.
Age(d) ==
    dayStopped' = Aged(dayStopped, d) /\ nightStopped' = Aged(nightStopped, d)

Result(state, w) == modeState' = state /\ setpoint' = w

\* No vehicle.  The disconnect edge of the loop (loop.py:110-113), which comes
\* first in that iteration, has forgotten what eco day was doing; as long as the
\* vehicle is away there is nothing more to forget.
Unplugged(s, d) ==
    /\ Handler(s) = "no_vehicle" /\ ~s.connected
    /\ ecoCharging' = FALSE
    /\ batteryFull' = FALSE
    /\ Result("no_vehicle", 0)
    /\ Age(d)
    /\ UNCHANGED daySetpoint

Unreachable(s, d) ==
    /\ Handler(s) = "no_vehicle" /\ s.connected
    /\ Result("no_vehicle", 0)
    /\ Age(d)
    /\ UNCHANGED <<ecoCharging, daySetpoint, batteryFull>>

MaxSocBlocked(s, d) ==
    /\ Handler(s) = "max_soc_blocked"
    /\ Result("max_soc_blocked", 0)
    /\ Age(d)
    /\ UNCHANGED <<ecoCharging, daySetpoint, batteryFull>>

Manual(s, d) ==
    /\ Handler(s) = "manual"
    /\ Result("manual", Clamp(ManualPower))
    /\ Age(d)
    /\ UNCHANGED <<ecoCharging, daySetpoint, batteryFull>>

Standby(s, d) ==
    /\ Handler(s) = "standby"
    /\ ecoCharging' = FALSE
    /\ daySetpoint' = MinCharge
    /\ batteryFull' = FALSE
    /\ Result("standby", 0)
    /\ Age(d)

VictronDown(s, d) ==
    /\ Handler(s) = "eco_victron_down"
    /\ ecoCharging' = FALSE
    /\ batteryFull' = FALSE
    /\ Result("eco_victron_down", 0)
    /\ Age(d)
    /\ UNCHANGED daySetpoint

-------------------------------------------------------------------------------
\* Eco, inside the discharge window.
NightCooldown(s, r, d) ==
    /\ Handler(s) = "eco_night" /\ CoolingDown(nightStopped, d)
    /\ Result("eco_night_floor_stop", 0)
    /\ Age(d)
    /\ UNCHANGED <<ecoCharging, daySetpoint, batteryFull>>

AtFloor(r) == r.soc # None /\ r.soc <= FloorPct

BatteryFlat(r) == AtFloor(r) /\ r.power # None /\ r.power > -FlatPower

NightMayCompute(s, d) ==
    /\ Handler(s) = "eco_night" /\ ~CoolingDown(nightStopped, d)
    /\ dayStopped' = Aged(dayStopped, d)
    /\ UNCHANGED <<ecoCharging, daySetpoint, batteryFull>>

NightFloorStop(s, r, d) ==
    /\ NightMayCompute(s, d)
    /\ AtFloor(r) /\ ~r.evNeeds
    /\ Result("eco_night_floor_stop", 0)
    /\ nightStopped' = NotSet

NightGridFallback(s, r, d) ==
    /\ NightMayCompute(s, d)
    /\ BatteryFlat(r) /\ r.evNeeds
    /\ Result("eco_night_grid_fallback", GridFallbackSetpoint(r))
    /\ nightStopped' = NotSet

\* Charge from the home battery; if that overloads it, stop and cool down.
NightBattery(s, r, d) ==
    /\ NightMayCompute(s, d)
    /\ ~BatteryFlat(r) /\ (AtFloor(r) => r.evNeeds)
    /\ Result("eco_night_battery", LimitBatteryDischarge(Clamp(NightPower), r.power))
    /\ nightStopped' = IF setpoint' = 0 THEN 0 ELSE NotSet

-------------------------------------------------------------------------------
\* Eco, outside the discharge window.
DayMinCharge(s, r, d) ==
    /\ Handler(s) = "eco_day" /\ r.minCharge /\ r.evNeeds
    /\ Result("eco_day_min_charge", MinCharge)
    /\ Age(d)
    /\ UNCHANGED <<ecoCharging, daySetpoint, batteryFull>>

BelowGate(r) == r.soc # None /\ r.soc < GatePct

DaySocGate(s, r, d) ==
    /\ Handler(s) = "eco_day" /\ ~(r.minCharge /\ r.evNeeds) /\ BelowGate(r)
    /\ ecoCharging' = FALSE
    /\ batteryFull' = FALSE
    /\ Result("eco_day_soc_gate", 0)
    /\ Age(d)
    /\ UNCHANGED daySetpoint

\* Mutant of DayOpen: an unknown SOC counts as full.
DayOpenOptimistic(s, r) ==
    /\ Handler(s) = "eco_day" /\ ~(r.minCharge /\ r.evNeeds) /\ ~BelowGate(r)
    /\ batteryFull' =
         IF r.soc = None \/ r.soc >= FullPct THEN TRUE
         ELSE IF r.soc < FullExitPct THEN FALSE ELSE batteryFull

\* Past the gate: the battery-full latch follows the battery with hysteresis.
DayOpen(s, r) ==
    /\ Handler(s) = "eco_day" /\ ~(r.minCharge /\ r.evNeeds) /\ ~BelowGate(r)
    /\ batteryFull' =
         IF r.soc # None /\ r.soc >= FullPct THEN TRUE
         ELSE IF r.soc # None /\ r.soc < FullExitPct THEN FALSE ELSE batteryFull

DayCooldown(s, r, d) ==
    /\ DayOpen(s, r)
    /\ ~ecoCharging /\ CoolingDown(dayStopped, d)
    /\ Result("eco_day_cooldown", 0)
    /\ Age(d)
    /\ UNCHANGED <<ecoCharging, daySetpoint>>

MayStart(d) == ~ecoCharging /\ ~CoolingDown(dayStopped, d)

DayWait(s, r, d) ==
    /\ DayOpen(s, r)
    /\ MayStart(d) /\ ~r.surplus
    /\ Result("eco_day_waiting_for_export", 0)
    /\ Age(d)
    /\ UNCHANGED <<ecoCharging, daySetpoint>>

\* Eco-day charging is on, or starts now: the ramp before this iteration.
Ramp == IF ecoCharging THEN daySetpoint ELSE MinCharge

DayCharging(s, r, d) ==
    /\ DayOpen(s, r)
    /\ ecoCharging \/ (MayStart(d) /\ r.surplus)
    /\ nightStopped' = Aged(nightStopped, d)

DayStop(s, r, d) ==
    /\ DayCharging(s, r, d) /\ r.meanLow
    /\ ecoCharging' = FALSE
    /\ dayStopped' = 0
    /\ daySetpoint' = Ramp
    /\ Result("eco_day_cooldown", 0)

\* Mutant of DayContinues: a start does not clear the old cooldown.
DayContinuesKeepingCooldown(s, r, d) ==
    /\ DayCharging(s, r, d) /\ ~r.meanLow
    /\ ecoCharging' = TRUE
    /\ dayStopped' = Aged(dayStopped, d)

DayContinues(s, r, d) ==
    /\ DayCharging(s, r, d) /\ ~r.meanLow
    /\ ecoCharging' = TRUE
    /\ dayStopped' = IF ecoCharging THEN Aged(dayStopped, d) ELSE NotSet

DayMinimum(s, r, d) ==
    /\ DayContinues(s, r, d) /\ ~batteryFull'
    /\ daySetpoint' = Ramp
    /\ Result("eco_day_minimum", MinCharge)

DayNotDrawing(s, r, d) ==
    /\ DayContinues(s, r, d) /\ batteryFull' /\ ~r.drawing
    /\ daySetpoint' = MinCharge
    /\ Result("eco_day_minimum", MinCharge)

DayRamping(s, r, d) ==
    /\ DayContinues(s, r, d) /\ batteryFull' /\ r.drawing
    /\ daySetpoint' = Clamp(IF r.power # None /\ r.power < -Deadband
                            THEN Ramp - RampStep ELSE Ramp + RampStep)
    /\ Result("eco_day_ramping", daySetpoint')

-------------------------------------------------------------------------------
\* compute_setpoint(), d seconds after the previous call.
Compute(s, r, d) ==
    \/ Unplugged(s, d) \/ Unreachable(s, d) \/ MaxSocBlocked(s, d)
    \/ Manual(s, d) \/ Standby(s, d) \/ VictronDown(s, d)
    \/ NightCooldown(s, r, d) \/ NightFloorStop(s, r, d)
    \/ NightGridFallback(s, r, d) \/ NightBattery(s, r, d)
    \/ DayMinCharge(s, r, d) \/ DaySocGate(s, r, d) \/ DayCooldown(s, r, d)
    \/ DayWait(s, r, d) \/ DayStop(s, r, d) \/ DayMinimum(s, r, d)
    \/ DayNotDrawing(s, r, d) \/ DayRamping(s, r, d)

Next ==
    \E s \in Situations, r \in Readings, d \in TickLengths : Compute(s, r, d)

Spec == Init /\ [][Next]_vars

-------------------------------------------------------------------------------
TypeOK ==
    /\ ecoCharging \in BOOLEAN
    /\ daySetpoint \in MinCharge..MaxCharge
    /\ batteryFull \in BOOLEAN
    /\ dayStopped \in {NotSet} \cup 0..Cooldown
    /\ nightStopped \in {NotSet} \cup 0..Cooldown
    /\ modeState \in ModeStates
    /\ setpoint \in Nat

\* Whatever the configuration (manual and night power are not range-checked at
\* load) and however the ramp and the discharge limit add up, a mode asks for
\* nothing or for a power the charger can run at.
SetpointInRange == setpoint = 0 \/ setpoint \in MinCharge..MaxCharge

\* Eco-day charging is never on while its cooldown is remembered: a stop, a
\* start and every interruption in between agree on the pair.
ChargingClearsCooldown == ecoCharging => dayStopped = NotSet

===============================================================================
