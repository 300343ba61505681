---------------------------- MODULE ChargingSession ----------------------------
(***************************************************************************)
(* The charging session state machine of app/control/state_machine.py: on  *)
(* every iteration of the control loop the mode strategy's setpoint passes *)
(* through the handler of the current session state, which may hold it up, *)
(* force it to 0, and put an event on the publish queue.                   *)
(*                                                                         *)
(* A tick is one call of apply_charging_events.  Between two ticks time    *)
(* passes (one of TickLengths, the loop's sleep) and the AppState fields   *)
(* that the handlers read may change.  Time is kept as the age of each     *)
(* timer: `age = now - started_at`, cut at Horizon, beyond which no        *)
(* comparison of the code can tell two ages apart.                         *)
(***************************************************************************)
EXTENDS Integers

CONSTANTS Setpoints,         \* the positive setpoints a mode may ask for
          MinSetpoint,       \* _MIN_CHARGE_W, the initial _last_positive_setpoint
          StoppingDelay,     \* _STOPPING_MIN_DELAY_S, in seconds
          StoppedDelay,      \* _STOPPED_DELAY_S
          ConfirmTicks,      \* _EXTERNAL_STOP_CONFIRM_TICKS
          TickLengths,       \* the times that may pass between two ticks
          SeenStatuses,      \* the charger statuses a read may report
          Plants             \* the plant conditions a read may report

ASSUME SetpointsAssumption == Setpoints \subseteq Nat \ {0} /\ MinSetpoint \in Setpoints
ASSUME DelayAssumption == StoppingDelay \in Nat /\ StoppedDelay \in Nat
ASSUME TicksAssumption == ConfirmTicks \in Nat \ {0} /\ TickLengths \subseteq Nat \ {0}

Modes == {"Eco", "Manual", "Standby"}

ActiveStatuses == {"HANDSHAKING_WITH_VEHICLE", "CHARGING_IN_PROGRESS", "SCHEDULED_START"}

StartableStatuses ==
    {"IDLE_CONNECTOR_PLUGGED", "CHARGING_COMPLETED", "START_FAILED",
     "CHARGING_INTERRUPTED_INSUFFICIENT_PV_BATTERY"}

EndedStatuses == StartableStatuses \cup {"IDLE_NO_CONNECTOR", "ABNORMAL_ALARM", "MAINTENANCE"}

ChargerStatus ==
    ActiveStatuses \cup EndedStatuses \cup {"SYSTEM_UPGRADE_IN_PROGRESS", "UNKNOWN", "none"}

ASSUME StatusAssumption == SeenStatuses \subseteq ChargerStatus

\* The conditions determine_stop_reason looks at besides mode and connection.
PlantConditions ==
    [atMaxSoc : BOOLEAN, victronUp : BOOLEAN, night : BOOLEAN,
     belowSocGate : BOOLEAN, meanBatteryLow : BOOLEAN]

ASSUME PlantAssumption == Plants \subseteq PlantConditions

Reasons ==
    {"max_soc_reached", "vehicle_disconnected", "standby", "victron_down",
     "eco_day_soc_gate", "eco_day_mean_battery", "eco_day_conditions",
     "eco_night_floor", "unknown", "external_stop"}

SessionStates == {"idle", "charging", "stopping", "stopped_pending"}

NotSet == -1                  \* a timestamp that is None
Horizon == StoppingDelay + StoppedDelay

VARIABLES
    mode,           \* AppState.charge_mode
    evConnected,    \* AppState.ev_connected
    status,         \* AppState.ev_charger_status_enum
    trusted,        \* ev_comm_healthy, and the last good read is recent enough
    plant,          \* the other conditions a stop reason depends on
    session,        \* _charging_session_state
    stoppingAge,    \* now - _stopping_at, or NotSet
    stoppedAge,     \* now - _stopped_at, or NotSet
    stoppingReason, \* _stopping_reason, or "none"
    lastPositive,   \* _last_positive_setpoint
    originMode,     \* _session_origin_mode, or "none"
    externalTicks,  \* _external_stop_ticks
    demand,         \* the setpoint the mode asked for at the last tick
    output,         \* the setpoint apply_charging_events returned
    event           \* the event the last tick put on the queue

inputs == <<mode, evConnected, status, trusted, plant>>
timers == <<stoppingAge, stoppedAge>>
sessionVars == <<session, stoppingAge, stoppedAge, stoppingReason, lastPositive,
                 originMode, externalTicks>>
vars == <<inputs, sessionVars, demand, output, event>>

NoEvent == [name |-> "none", reason |-> "none"]
\* Mutant of Event: the reason is left out.
EventWithoutReason(n, r) == [name |-> n, reason |-> "none"]

Event(n, r) == [name |-> n, reason |-> r]

-------------------------------------------------------------------------------
ChargerIsActiveOrStarting == status \in ActiveStatuses

IsExternalStopCandidate == status \in EndedStatuses

DetermineStopReason ==
    IF plant.atMaxSoc THEN "max_soc_reached"
    ELSE IF ~evConnected THEN "vehicle_disconnected"
    ELSE IF mode = "Standby" THEN "standby"
    ELSE IF mode # "Eco" THEN "unknown"
    ELSE IF ~plant.victronUp THEN "victron_down"
    ELSE IF plant.night THEN "eco_night_floor"
    ELSE IF plant.belowSocGate THEN "eco_day_soc_gate"
    ELSE IF plant.meanBatteryLow THEN "eco_day_mean_battery"
    ELSE "eco_day_conditions"

\* The reason recorded when the charger is seen to have stopped by itself.
ExternalStopReason ==
    IF DetermineStopReason = "unknown" THEN "external_stop" ELSE DetermineStopReason

-------------------------------------------------------------------------------
Init ==
    /\ mode \in Modes
    /\ evConnected = FALSE
    /\ status = "none"
    /\ trusted = TRUE
    /\ plant \in Plants
    /\ session = "idle"
    /\ stoppingAge = NotSet
    /\ stoppedAge = NotSet
    /\ stoppingReason = "none"
    /\ lastPositive = MinSetpoint
    /\ originMode = "none"
    /\ externalTicks = 0
    /\ demand = 0
    /\ output = 0
    /\ event = NoEvent

\* What a timer of age a shows d seconds later.
Aged(a, d) ==
    IF a = NotSet THEN NotSet ELSE IF a + d < Horizon THEN a + d ELSE Horizon

\* `now - (started_at or 0)`: a timer that is None reads as very old.
Elapsed(a, d) == IF a = NotSet THEN Horizon ELSE Aged(a, d)

\* d seconds pass before this tick: timers that the handler leaves alone.
KeepTimers(d) ==
    stoppingAge' = Aged(stoppingAge, d) /\ stoppedAge' = Aged(stoppedAge, d)

\* Mutant of ResumeCharging: reset_stop_timers left at its default.
ResumeWithoutReset(sp) ==
    /\ session' = "charging"
    /\ originMode' = mode
    /\ lastPositive' = sp
    /\ externalTicks' = 0
    /\ output' = sp
    /\ event' = Event("started", "none")
    /\ UNCHANGED <<stoppingAge, stoppedAge, stoppingReason>>

\* transition_to_charging(reset_stop_timers=True), and the "started" event.
ResumeCharging(sp) ==
    /\ session' = "charging"
    /\ originMode' = mode
    /\ lastPositive' = sp
    /\ stoppingAge' = NotSet
    /\ stoppedAge' = NotSet
    /\ stoppingReason' = "none"
    /\ externalTicks' = 0
    /\ output' = sp
    /\ event' = Event("started", "none")

-------------------------------------------------------------------------------
\* Idle handler: nothing asked for.
StayIdle(sp, d) ==
    /\ session = "idle" /\ sp = 0
    /\ externalTicks' = 0
    /\ output' = 0
    /\ event' = NoEvent
    /\ KeepTimers(d)
    /\ UNCHANGED <<session, stoppingReason, lastPositive, originMode>>

\* Idle handler: a positive setpoint opens a session; the stop timers are
\* not reset on this path.
StartSession(sp, d) ==
    /\ session = "idle" /\ sp > 0
    /\ session' = "charging"
    /\ originMode' = mode
    /\ lastPositive' = sp
    /\ externalTicks' = 0
    /\ output' = sp
    /\ event' = Event("started", "none")
    /\ KeepTimers(d)
    /\ UNCHANGED stoppingReason

-------------------------------------------------------------------------------
\* The mode wants to charge but a trustworthy status says the charger does not.
LooksStopped(sp) ==
    sp > 0 /\ lastPositive > 0 /\ trusted /\ IsExternalStopCandidate

\* Mutant of KeepCharging: the confirmation never ends the session.
KeepChargingUnconfirmed(sp, d) ==
    /\ session = "charging" /\ sp > 0
    /\ externalTicks' = IF LooksStopped(sp) THEN externalTicks + 1 ELSE 0
    /\ lastPositive' = sp
    /\ output' = sp
    /\ event' = NoEvent
    /\ KeepTimers(d)
    /\ UNCHANGED <<session, stoppingReason, originMode>>

KeepCharging(sp, d) ==
    /\ session = "charging" /\ sp > 0
    /\ LooksStopped(sp) => externalTicks + 1 < ConfirmTicks
    /\ externalTicks' = IF LooksStopped(sp) THEN externalTicks + 1 ELSE 0
    /\ lastPositive' = sp
    /\ output' = sp
    /\ event' = NoEvent
    /\ KeepTimers(d)
    /\ UNCHANGED <<session, stoppingReason, originMode>>

\* Mutant of ConfirmExternalStop: the count is not reset.
ConfirmWithoutReset(sp, d) ==
    /\ session = "charging" /\ LooksStopped(sp)
    /\ externalTicks + 1 >= ConfirmTicks
    /\ session' = "stopped_pending"
    /\ stoppingReason' = ExternalStopReason
    /\ stoppedAge' = 0
    /\ stoppingAge' = Aged(stoppingAge, d)
    /\ output' = 0
    /\ event' = NoEvent
    /\ UNCHANGED <<lastPositive, originMode, externalTicks>>

\* Confirmed on consecutive ticks: no "stopping" event, straight to the
\* delay before "stopped".
ConfirmExternalStop(sp, d) ==
    /\ session = "charging" /\ LooksStopped(sp)
    /\ externalTicks + 1 >= ConfirmTicks
    /\ session' = "stopped_pending"
    /\ stoppingReason' = ExternalStopReason
    /\ stoppedAge' = 0
    /\ stoppingAge' = Aged(stoppingAge, d)
    /\ externalTicks' = 0
    /\ output' = 0
    /\ event' = NoEvent
    /\ UNCHANGED <<lastPositive, originMode>>

\* Mutant of SwitchedWhileActive: any mode switch will do.
Switched == originMode \notin {"none", mode}

SwitchedWhileActive ==
    originMode \notin {"none", mode} /\ ChargerIsActiveOrStarting

\* The mode stops asking: hold the last setpoint for StoppingDelay.
BeginStopping(sp, d) ==
    /\ session = "charging" /\ sp = 0
    /\ ~SwitchedWhileActive
    /\ session' = "stopping"
    /\ stoppingReason' = DetermineStopReason
    /\ stoppingAge' = 0
    /\ stoppedAge' = Aged(stoppedAge, d)
    /\ externalTicks' = 0
    /\ output' = lastPositive
    /\ event' = Event("stopping", DetermineStopReason)
    /\ UNCHANGED <<lastPositive, originMode>>

\* The mode stops asking after the mode was switched during the session and
\* the charger is still active: no hold.
ReconcileModeSwitch(sp, d) ==
    /\ session = "charging" /\ sp = 0
    /\ SwitchedWhileActive
    /\ session' = "stopped_pending"
    /\ stoppingReason' = DetermineStopReason
    /\ stoppedAge' = 0
    /\ stoppingAge' = NotSet
    /\ externalTicks' = 0
    /\ output' = 0
    /\ event' = Event("stopping", DetermineStopReason)
    /\ UNCHANGED <<lastPositive, originMode>>

-------------------------------------------------------------------------------
ResumeFromStopping(sp, d) ==
    /\ session = "stopping" /\ sp > 0
    /\ ResumeCharging(sp)

HoldSetpoint(sp, d) ==
    /\ session = "stopping" /\ sp = 0
    /\ Elapsed(stoppingAge, d) < StoppingDelay
    /\ externalTicks' = 0
    /\ output' = lastPositive
    /\ event' = NoEvent
    /\ KeepTimers(d)
    /\ UNCHANGED <<session, stoppingReason, lastPositive, originMode>>

\* Mutant of DropToZero: the setpoint is held for one tick too many.
DropToZeroLate(sp, d) ==
    /\ session = "stopping" /\ sp = 0
    /\ Elapsed(stoppingAge, d) >= StoppingDelay
    /\ session' = "stopped_pending"
    /\ stoppedAge' = 0
    /\ stoppingAge' = NotSet
    /\ externalTicks' = 0
    /\ output' = lastPositive
    /\ event' = NoEvent
    /\ UNCHANGED <<stoppingReason, lastPositive, originMode>>

DropToZero(sp, d) ==
    /\ session = "stopping" /\ sp = 0
    /\ Elapsed(stoppingAge, d) >= StoppingDelay
    /\ session' = "stopped_pending"
    /\ stoppedAge' = 0
    /\ stoppingAge' = NotSet
    /\ externalTicks' = 0
    /\ output' = 0
    /\ event' = NoEvent
    /\ UNCHANGED <<stoppingReason, lastPositive, originMode>>

-------------------------------------------------------------------------------
ResumeFromPending(sp, d) ==
    /\ session = "stopped_pending" /\ sp > 0 /\ trusted
    /\ ResumeCharging(sp)

AwaitStopped(sp, d) ==
    /\ session = "stopped_pending" /\ ~(sp > 0 /\ trusted)
    /\ Elapsed(stoppedAge, d) < StoppedDelay
    /\ externalTicks' = 0
    /\ output' = 0
    /\ event' = NoEvent
    /\ KeepTimers(d)
    /\ UNCHANGED <<session, stoppingReason, lastPositive, originMode>>

\* Mutant of AnnounceStopped: the session is left where it is.
AnnounceWithoutIdle(sp, d) ==
    /\ session = "stopped_pending" /\ ~(sp > 0 /\ trusted)
    /\ Elapsed(stoppedAge, d) >= StoppedDelay
    /\ event' = Event("stopped",
                      IF stoppingReason = "none" THEN "unknown" ELSE stoppingReason)
    /\ originMode' = "none"
    /\ stoppedAge' = NotSet
    /\ stoppingAge' = Aged(stoppingAge, d)
    /\ stoppingReason' = "none"
    /\ externalTicks' = 0
    /\ output' = 0
    /\ UNCHANGED <<session, lastPositive>>

AnnounceStopped(sp, d) ==
    /\ session = "stopped_pending" /\ ~(sp > 0 /\ trusted)
    /\ Elapsed(stoppedAge, d) >= StoppedDelay
    /\ session' = "idle"
    /\ event' = Event("stopped",
                      IF stoppingReason = "none" THEN "unknown" ELSE stoppingReason)
    /\ originMode' = "none"
    /\ stoppedAge' = NotSet
    /\ stoppingAge' = Aged(stoppingAge, d)
    /\ stoppingReason' = "none"
    /\ externalTicks' = 0
    /\ output' = 0
    /\ UNCHANGED lastPositive

-------------------------------------------------------------------------------
\* apply_charging_events(sp), d seconds after the previous call.
ApplyChargingEvents(sp, d) ==
    /\ demand' = sp
    /\ \/ StayIdle(sp, d)            \/ StartSession(sp, d)
       \/ KeepCharging(sp, d)        \/ ConfirmExternalStop(sp, d)
       \/ BeginStopping(sp, d)       \/ ReconcileModeSwitch(sp, d)
       \/ ResumeFromStopping(sp, d)  \/ HoldSetpoint(sp, d)
       \/ DropToZero(sp, d)          \/ ResumeFromPending(sp, d)
       \/ AwaitStopped(sp, d)        \/ AnnounceStopped(sp, d)

Tick ==
    \E sp \in Setpoints \cup {0}, d \in TickLengths :
        ApplyChargingEvents(sp, d) /\ UNCHANGED inputs

\* Home Assistant, or the loop itself on unplug, sets the charge mode.
ChangeMode ==
    /\ mode' \in Modes
    /\ UNCHANGED <<evConnected, status, trusted, plant, sessionVars, demand, output, event>>

\* A read of the EV charger, whole, partial or failed.
ReadCharger ==
    /\ evConnected' \in BOOLEAN
    /\ status' \in SeenStatuses
    /\ trusted' \in BOOLEAN
    /\ UNCHANGED <<mode, plant, sessionVars, demand, output, event>>

\* A read of the Victron GX, the EV state of charge, or the clock.
ReadPlant ==
    /\ plant' \in Plants
    /\ UNCHANGED <<mode, evConnected, status, trusted, sessionVars, demand, output, event>>

Next == Tick \/ ChangeMode \/ ReadCharger \/ ReadPlant

\* A tick at which the mode asks for what it asked for at the last.
TickAgain(sp) ==
    /\ demand = sp
    /\ \E d \in TickLengths : ApplyChargingEvents(sp, d) /\ UNCHANGED inputs

\* The control loop iterates for ever (it is restarted when it fails).  Fairness
\* is for each demand, so that it never makes a mode change its mind.
Spec == Init /\ [][Next]_vars /\ \A sp \in Setpoints \cup {0} : WF_vars(TickAgain(sp))

-------------------------------------------------------------------------------
TypeOK ==
    /\ mode \in Modes
    /\ evConnected \in BOOLEAN
    /\ status \in ChargerStatus
    /\ trusted \in BOOLEAN
    /\ plant \in PlantConditions
    /\ session \in SessionStates
    /\ stoppingAge \in {NotSet} \cup 0..Horizon
    /\ stoppedAge \in {NotSet} \cup 0..Horizon
    /\ stoppingReason \in Reasons \cup {"none"}
    /\ lastPositive \in Setpoints
    /\ originMode \in Modes \cup {"none"}
    /\ externalTicks \in 0..ConfirmTicks
    /\ demand \in Setpoints \cup {0}
    /\ output \in Setpoints \cup {0}
    /\ event \in [name : {"none", "started", "stopping", "stopped"},
                  reason : Reasons \cup {"none"}]

\* Each stop timer runs exactly in the state that reads it, and the reason and
\* the origin mode live exactly as long as they are needed.  The handlers fall
\* back on `_stopping_at or 0`, `_stopped_at or 0` and `_stopping_reason or
\* "unknown"`: this says that the fallbacks are never taken, although the Idle
\* handler opens a session without resetting the timers and the external-stop
\* path skips the Stopping state.
TimersMatchState ==
    /\ stoppingAge # NotSet <=> session = "stopping"
    /\ stoppedAge # NotSet <=> session = "stopped_pending"
    /\ stoppingReason # "none" <=> session \in {"stopping", "stopped_pending"}
    /\ originMode # "none" <=> session # "idle"

\* What the charger is told agrees with the session: power is asked for exactly
\* while the session is charging, or stopping and still holding.
OutputMatchesSession ==
    output > 0 <=> session \in {"charging", "stopping"}

\* The external-stop count is an unfinished confirmation of this session only:
\* it is reset by every way in or out of the Charging state.
ConfirmationIsFresh ==
    /\ externalTicks < ConfirmTicks
    /\ externalTicks > 0 => session = "charging"

\* The session implements the event contract of ChargeEvents.
Phase ==
    CASE session = "idle" -> "off"
      [] session = "charging" -> "on"
      [] OTHER -> "ending"

Contract == INSTANCE ChargeEvents WITH phase <- Phase, why <- stoppingReason

EventContract == Contract!Spec

\* Once the mode stops asking for good, the session is eventually closed.
StopCompletes == <>[](demand = 0) => <>[](session = "idle")

===============================================================================
