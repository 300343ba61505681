---------------------------- MODULE SessionObserver ----------------------------
(***************************************************************************)
(* ChargingSession watched from outside: history variables record what a   *)
(* bystander with a stopwatch sees of the output and the events, so that   *)
(* the timing promises can be stated without reading the machine's own     *)
(* timers.                                                                 *)
(***************************************************************************)
EXTENDS ChargingSession

VARIABLES
    sinceStopping,  \* time since the session said "stopping"; NotSet if it did not
    zeroFor,        \* time the output has been 0 without a break
    suspects,       \* consecutive charging ticks on which the charger looked stopped
    endedByCharger  \* the session is ending because the charger stopped by itself

observed == <<sinceStopping, zeroFor, suspects, endedByCharger>>

ObservedInit ==
    /\ Init
    /\ sinceStopping = NotSet /\ zeroFor = Horizon /\ suspects = 0
    /\ endedByCharger = FALSE

Observe(sp, d) ==
    /\ sinceStopping' =
         IF event'.name = "stopping" THEN 0
         ELSE IF event'.name = "started" \/ session' = "charging" \/ session = "idle"
              THEN NotSet
              ELSE Aged(sinceStopping, d)
    /\ zeroFor' = IF output' > 0 \/ output > 0 THEN 0 ELSE Aged(zeroFor, d)
    /\ suspects' =
         IF session = "charging" /\ sp > 0 /\ trusted /\ status \in EndedStatuses
         THEN (IF suspects < ConfirmTicks THEN suspects + 1 ELSE suspects)
         ELSE 0
    /\ endedByCharger' =
         /\ session' = "stopped_pending"
         /\ endedByCharger \/ (session = "charging" /\ sp > 0)

ObservedTick(sp) ==
    \E d \in TickLengths :
        ApplyChargingEvents(sp, d) /\ UNCHANGED inputs /\ Observe(sp, d)

ObservedNext ==
    \/ \E sp \in Setpoints \cup {0} : ObservedTick(sp)
    \/ (ChangeMode \/ ReadCharger \/ ReadPlant) /\ UNCHANGED observed

\* The loop iterates for ever, as in Spec.
ObservedSpec ==
    /\ ObservedInit /\ [][ObservedNext]_<<vars, observed>>
    /\ \A sp \in Setpoints \cup {0} :
          WF_<<vars, observed>>(demand = sp /\ ObservedTick(sp))

-------------------------------------------------------------------------------
\* "stopped" is only said after the charger has been told 0 for the whole of
\* _STOPPED_DELAY_S, whichever way the session ended (held and released,
\* external stop, or mode switch), and however the demand wavered meanwhile.
StoppedAfterZero ==
    event.name = "stopped" => zeroFor >= StoppedDelay

\* Power is withdrawn at once only for cause: the session announced that it is
\* stopping at least _STOPPING_MIN_DELAY_S ago, or the charger has looked
\* stopped on _EXTERNAL_STOP_CONFIRM_TICKS consecutive ticks, or the mode was
\* switched during the session while the charger is still active.
PowerWithdrawnForCause ==
    [][ output > 0 /\ output' = 0 =>
          \/ sinceStopping >= 0 /\ sinceStopping' >= StoppingDelay
          \/ suspects' >= ConfirmTicks
          \/ mode # originMode /\ status \in ActiveStatuses ]_<<vars, observed>>

\* constants.py:20 says of _STOPPING_MIN_DELAY_S "min time between stopping and
\* stopped events".  A mode switch while the charger is active skips the hold,
\* and "stopped" follows after _STOPPED_DELAY_S only.
MinTimeBetweenStoppingAndStopped ==
    event.name = "stopped" /\ sinceStopping # NotSet => sinceStopping >= StoppingDelay

\* tests/unit/test_control_loop.py:1232: "External stop: stopped event emitted
\* after 5s delay".  A session that ended because the charger stopped by itself
\* is not re-opened as long as the charger still reports that it has stopped.
ExternalStopIsAnnounced ==
    [][ session = "stopped_pending" /\ session' = "charging"
          => ~(endedByCharger /\ status \in EndedStatuses) ]_<<vars, observed>>

===============================================================================
