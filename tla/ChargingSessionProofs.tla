------------------------ MODULE ChargingSessionProofs --------------------------
(***************************************************************************)
(* Proofs about ChargingSession, for every set of setpoints, every delay   *)
(* and confirmation length, and every set of readable statuses and plant   *)
(* conditions: the type invariant, the invariant that ties timers, reason  *)
(* and output to the session state, the safety part of the refinement of   *)
(* ChargeEvents, and what the observer's stopwatch of SessionObserver may  *)
(* never see.                                                              *)
(***************************************************************************)
EXTENDS SessionObserver, TLAPS

\* A timer that ages stays a timer, and a timer that is not set stays so.
LEMMA AgedType ==
    ASSUME NEW a \in {NotSet} \cup 0..Horizon, NEW d \in TickLengths
    PROVE  /\ Aged(a, d) \in {NotSet} \cup 0..Horizon
           /\ Aged(a, d) = NotSet <=> a = NotSet
  BY DelayAssumption, TicksAssumption DEF Aged, NotSet, Horizon

\* Whatever the plant and the mode, determine_stop_reason names a reason.
LEMMA ReasonType ==
    DetermineStopReason \in Reasons /\ ExternalStopReason \in Reasons
  BY DEF DetermineStopReason, ExternalStopReason, Reasons

-------------------------------------------------------------------------------
\* The invariant that is inductive together with TypeOK.
SessionInv == TimersMatchState /\ OutputMatchesSession /\ ConfirmationIsFresh

\* A fresh session waits, with no timer running.
LEMMA InitEstablishes == Init => TypeOK /\ SessionInv
<1> SUFFICES ASSUME Init PROVE TypeOK /\ SessionInv
  OBVIOUS
<1> USE SetpointsAssumption, DelayAssumption, TicksAssumption DEF Init
<1>1. TypeOK
  <2>1. plant \in PlantConditions /\ status \in ChargerStatus
    BY PlantAssumption DEF ChargerStatus
  <2>2. event \in [name : {"none", "started", "stopping", "stopped"},
                   reason : Reasons \cup {"none"}]
    BY DEF NoEvent
  <2>3. evConnected \in BOOLEAN /\ trusted \in BOOLEAN
    BY Zenon
  <2>4. QED
    BY <2>1, <2>2, <2>3 DEF TypeOK, SessionStates, Horizon, NotSet
<1>2. SessionInv
  BY DEF SessionInv, TimersMatchState, OutputMatchesSession, ConfirmationIsFresh, NotSet
<1>3. QED
  BY <1>1, <1>2

\* The steps that touch the inputs only.
LEMMA InputStepKeeps ==
    ASSUME TypeOK, SessionInv, ChangeMode \/ ReadCharger \/ ReadPlant \/ UNCHANGED vars
    PROVE  TypeOK' /\ SessionInv'
  BY StatusAssumption, PlantAssumption
     DEF TypeOK, SessionInv, TimersMatchState, OutputMatchesSession, ConfirmationIsFresh,
         ChangeMode, ReadCharger, ReadPlant, vars, inputs, sessionVars

\* The ticks, one action of the state machine at a time.
LEMMA TickKeeps ==
    ASSUME TypeOK, SessionInv, UNCHANGED inputs,
           NEW sp \in Setpoints \cup {0}, NEW d \in TickLengths,
           ApplyChargingEvents(sp, d)
    PROVE  TypeOK' /\ SessionInv'
<1> USE SetpointsAssumption, DelayAssumption, TicksAssumption, ReasonType
<1> USE DEF TypeOK, SessionInv, TimersMatchState, OutputMatchesSession,
            ConfirmationIsFresh, SessionStates, Event, NoEvent, NotSet, inputs
<1>1. /\ Aged(stoppingAge, d) \in {NotSet} \cup 0..Horizon
      /\ Aged(stoppingAge, d) = NotSet <=> stoppingAge = NotSet
      /\ Aged(stoppedAge, d) \in {NotSet} \cup 0..Horizon
      /\ Aged(stoppedAge, d) = NotSet <=> stoppedAge = NotSet
  BY AgedType
<1>2. 0 \in 0..Horizon /\ "none" \notin Modes /\ "none" \notin Reasons
  BY DEF Horizon, Modes, Reasons
<1>3. demand' = sp
  BY DEF ApplyChargingEvents
<1>4. CASE StayIdle(sp, d)
  BY <1>1, <1>2, <1>3, <1>4 DEF StayIdle, KeepTimers
<1>5. CASE StartSession(sp, d)
  BY <1>1, <1>2, <1>3, <1>5 DEF StartSession, KeepTimers
<1>6. CASE KeepCharging(sp, d)
  BY <1>1, <1>2, <1>3, <1>6 DEF KeepCharging, KeepTimers
<1>7. CASE ConfirmExternalStop(sp, d)
  BY <1>1, <1>2, <1>3, <1>7 DEF ConfirmExternalStop
<1>8. CASE BeginStopping(sp, d)
  BY <1>1, <1>2, <1>3, <1>8 DEF BeginStopping
<1>9. CASE ReconcileModeSwitch(sp, d)
  BY <1>1, <1>2, <1>3, <1>9 DEF ReconcileModeSwitch
<1>10. CASE ResumeFromStopping(sp, d)
  BY <1>1, <1>2, <1>3, <1>10 DEF ResumeFromStopping, ResumeCharging
<1>11. CASE HoldSetpoint(sp, d)
  BY <1>1, <1>2, <1>3, <1>11 DEF HoldSetpoint, KeepTimers
<1>12. CASE DropToZero(sp, d)
  BY <1>1, <1>2, <1>3, <1>12 DEF DropToZero
<1>13. CASE ResumeFromPending(sp, d)
  BY <1>1, <1>2, <1>3, <1>13 DEF ResumeFromPending, ResumeCharging
<1>14. CASE AwaitStopped(sp, d)
  BY <1>1, <1>2, <1>3, <1>14 DEF AwaitStopped, KeepTimers
<1>15. CASE AnnounceStopped(sp, d)
  BY <1>1, <1>2, <1>3, <1>15 DEF AnnounceStopped
<1>16. QED
  BY <1>4, <1>5, <1>6, <1>7, <1>8, <1>9, <1>10, <1>11, <1>12, <1>13, <1>14, <1>15
     DEF ApplyChargingEvents

\* Every step keeps the invariant: a tick by TickKeeps, the inputs by InputStepKeeps.
LEMMA NextKeeps == TypeOK /\ SessionInv /\ [Next]_vars => TypeOK' /\ SessionInv'
<1>1. ASSUME TypeOK, SessionInv, Tick
      PROVE  TypeOK' /\ SessionInv'
  <2>1. PICK sp \in Setpoints \cup {0}, d \in TickLengths :
            ApplyChargingEvents(sp, d) /\ UNCHANGED inputs
    BY <1>1 DEF Tick
  <2>2. QED
    BY <1>1, <2>1, TickKeeps
<1>2. QED
  BY <1>1, InputStepKeeps DEF Next

\* Every variable keeps its type; in particular the timers stay within Horizon
\* and every output is a setpoint some mode asked for, or 0.
THEOREM SessionTypeOK == Spec => []TypeOK
<1>1. Init => TypeOK /\ SessionInv
  BY InitEstablishes
<1>2. TypeOK /\ SessionInv /\ [Next]_vars => (TypeOK /\ SessionInv)'
  BY NextKeeps
<1>3. QED
  BY <1>1, <1>2, PTL DEF Spec

\* The stop timers, the reason and the origin mode are set exactly in the
\* states that read them: the `or 0` and `or "unknown"` fallbacks of the
\* handlers are unreachable.
THEOREM SessionTimers == Spec => []TimersMatchState
<1>1. Init => TypeOK /\ SessionInv
  BY InitEstablishes
<1>2. TypeOK /\ SessionInv /\ [Next]_vars => (TypeOK /\ SessionInv)'
  BY NextKeeps
<1>3. SessionInv => TimersMatchState
  BY DEF SessionInv
<1>4. QED
  BY <1>1, <1>2, <1>3, PTL DEF Spec

\* Power is asked for exactly while charging or holding.
THEOREM SessionOutput == Spec => []OutputMatchesSession
<1>1. Init => TypeOK /\ SessionInv
  BY InitEstablishes
<1>2. TypeOK /\ SessionInv /\ [Next]_vars => (TypeOK /\ SessionInv)'
  BY NextKeeps
<1>3. SessionInv => OutputMatchesSession
  BY DEF SessionInv
<1>4. QED
  BY <1>1, <1>2, <1>3, PTL DEF Spec

\* The external-stop count never survives the state that counts, and never
\* reaches its threshold there.
THEOREM SessionConfirmation == Spec => []ConfirmationIsFresh
<1>1. Init => TypeOK /\ SessionInv
  BY InitEstablishes
<1>2. TypeOK /\ SessionInv /\ [Next]_vars => (TypeOK /\ SessionInv)'
  BY NextKeeps
<1>3. SessionInv => ConfirmationIsFresh
  BY DEF SessionInv
<1>4. QED
  BY <1>1, <1>2, <1>3, PTL DEF Spec

-------------------------------------------------------------------------------
\* The session says nothing ChargeEvents forbids: one step of the session is
\* one step of the contract, or a stutter.
LEMMA StepRefines ==
    TypeOK /\ SessionInv /\ [Next]_vars => [Contract!Next]_(Contract!vars)
<1> SUFFICES ASSUME TypeOK, SessionInv, [Next]_vars
             PROVE  [Contract!Next]_(Contract!vars)
  OBVIOUS
<1> USE DEF Contract!Next, Contract!vars, Contract!Start, Contract!BeginStopping,
            Contract!EndedByCharger, Contract!Stop, Contract!Quiet, Contract!Said,
            Contract!Silence, Phase, Event, NoEvent
<1>1. ASSUME ChangeMode \/ ReadCharger \/ ReadPlant \/ UNCHANGED vars
      PROVE  UNCHANGED Contract!vars
  BY <1>1 DEF ChangeMode, ReadCharger, ReadPlant, vars, sessionVars
<1>2. ASSUME Tick
      PROVE  Contract!Next
  <2>1. PICK sp \in Setpoints \cup {0}, d \in TickLengths :
            ApplyChargingEvents(sp, d) /\ UNCHANGED inputs
    BY <1>2 DEF Tick
  <2> USE <2>1, ReasonType DEF SessionInv, TimersMatchState, inputs
  <2>2. CASE StayIdle(sp, d) \/ KeepCharging(sp, d) \/ HoldSetpoint(sp, d)
                \/ DropToZero(sp, d) \/ AwaitStopped(sp, d)
    BY <2>2 DEF StayIdle, KeepCharging, HoldSetpoint, DropToZero, AwaitStopped
  <2>3. CASE StartSession(sp, d) \/ ResumeFromStopping(sp, d) \/ ResumeFromPending(sp, d)
    BY <2>3 DEF StartSession, ResumeFromStopping, ResumeFromPending, ResumeCharging
  <2>4. CASE BeginStopping(sp, d) \/ ReconcileModeSwitch(sp, d)
    BY <2>4 DEF BeginStopping, ReconcileModeSwitch
  <2>5. CASE ConfirmExternalStop(sp, d)
    BY <2>5 DEF ConfirmExternalStop
  <2>6. CASE AnnounceStopped(sp, d)
    BY <2>6 DEF AnnounceStopped
  <2>7. QED
    BY <2>2, <2>3, <2>4, <2>5, <2>6 DEF ApplyChargingEvents
<1>3. QED
  BY <1>1, <1>2 DEF Next

\* The session state machine implements the safety part of the event contract:
\* "stopped" closes each session once, with the reason fixed when it began to
\* end, and "stopping" is only said of an open session.
THEOREM SessionRefinesContract == Spec => Contract!SafetySpec
<1>1. Init => TypeOK /\ SessionInv
  BY InitEstablishes
<1>2. TypeOK /\ SessionInv /\ [Next]_vars => (TypeOK /\ SessionInv)'
  BY NextKeeps
<1>3. Init => Contract!Init
  BY DEF Init, Contract!Init, Contract!Silence, Phase, NoEvent
<1>4. QED
  BY <1>1, <1>2, <1>3, StepRefines, PTL DEF Spec, Contract!SafetySpec

-------------------------------------------------------------------------------
\* What the stopwatch shows is never less than what the session's own timers and
\* its external-stop count show, in the states that read them.
ObserverInv ==
    /\ sinceStopping \in {NotSet} \cup 0..Horizon /\ zeroFor \in 0..Horizon
    /\ suspects \in 0..ConfirmTicks
    /\ session = "stopping" => sinceStopping >= stoppingAge
    /\ session = "stopped_pending" => zeroFor >= stoppedAge
    /\ session = "charging" => suspects >= externalTicks
    /\ StoppedAfterZero

\* Of two ages the older stays the older.
LEMMA AgedOrder ==
    ASSUME NEW a \in 0..Horizon, NEW b \in 0..Horizon, a >= b, NEW d \in TickLengths
    PROVE  /\ Aged(a, d) \in 0..Horizon /\ Aged(a, d) >= Aged(b, d)
           /\ Elapsed(b, d) = Aged(b, d)
  BY DelayAssumption, TicksAssumption DEF Aged, Elapsed, NotSet, Horizon

\* What the observer records keeps its types.
LEMMA ObserverType ==
    ASSUME ObserverInv, NEW sp \in Setpoints \cup {0}, NEW d \in TickLengths, Observe(sp, d)
    PROVE  /\ sinceStopping' \in {NotSet} \cup 0..Horizon /\ zeroFor' \in 0..Horizon
           /\ suspects' \in 0..ConfirmTicks
<1> USE DelayAssumption, TicksAssumption
<1>1. Aged(sinceStopping, d) \in {NotSet} \cup 0..Horizon /\ Aged(zeroFor, d) \in 0..Horizon
  BY AgedType, AgedOrder DEF ObserverInv
<1>2. 0 \in 0..Horizon
  BY DEF Horizon
<1> QED
  BY <1>1, <1>2 DEF Observe, ObserverInv

\* A tick that stays in the state it is in, or opens a session, shows the observer
\* at least what the session's timers show.
LEMMA StayingObserved ==
    ASSUME TypeOK, SessionInv, ObserverInv,
           NEW sp \in Setpoints \cup {0}, NEW d \in TickLengths, Observe(sp, d),
           \/ StayIdle(sp, d) \/ StartSession(sp, d) \/ KeepCharging(sp, d)
           \/ HoldSetpoint(sp, d) \/ AwaitStopped(sp, d)
           \/ ResumeFromStopping(sp, d) \/ ResumeFromPending(sp, d)
    PROVE  ObserverInv'
<1> USE SetpointsAssumption, DelayAssumption, TicksAssumption
<1> USE DEF SessionInv, TimersMatchState, OutputMatchesSession, ConfirmationIsFresh,
            StoppedAfterZero, Event, NoEvent, NotSet
<1>1. /\ sinceStopping' \in {NotSet} \cup 0..Horizon /\ zeroFor' \in 0..Horizon
      /\ suspects' \in 0..ConfirmTicks
  BY ObserverType
<1>2. CASE StayIdle(sp, d)
  BY <1>1, <1>2 DEF StayIdle, ObserverInv
<1>3. CASE StartSession(sp, d)
  BY <1>1, <1>3 DEF StartSession, ObserverInv
<1>4. CASE KeepCharging(sp, d)
  <2>1. session' = "charging" /\ event' = NoEvent /\ lastPositive > 0
    BY <1>4 DEF KeepCharging, TypeOK
  <2>2. suspects' >= externalTicks'
    BY <1>4, <2>1 DEF KeepCharging, LooksStopped, IsExternalStopCandidate, Observe, ObserverInv,
                      TypeOK
  <2> QED
    BY <1>1, <2>1, <2>2 DEF ObserverInv
<1>5. CASE HoldSetpoint(sp, d)
  <2>1. stoppingAge \in 0..Horizon /\ sinceStopping \in 0..Horizon /\ sinceStopping >= stoppingAge
    BY <1>5 DEF HoldSetpoint, ObserverInv, TypeOK, Horizon
  <2>2. sinceStopping' = Aged(sinceStopping, d) /\ stoppingAge' = Aged(stoppingAge, d)
    BY <1>5 DEF HoldSetpoint, KeepTimers, Observe
  <2>3. sinceStopping' >= stoppingAge'
    BY <2>1, <2>2, AgedOrder
  <2> QED
    BY <1>1, <1>5, <2>3 DEF HoldSetpoint, ObserverInv
<1>6. CASE AwaitStopped(sp, d)
  <2>1. stoppedAge \in 0..Horizon /\ zeroFor \in 0..Horizon /\ zeroFor >= stoppedAge
    BY <1>6 DEF AwaitStopped, ObserverInv, TypeOK
  <2>2. zeroFor' = Aged(zeroFor, d) /\ stoppedAge' = Aged(stoppedAge, d)
    BY <1>6 DEF AwaitStopped, KeepTimers, Observe, TypeOK
  <2>3. zeroFor' >= stoppedAge'
    BY <2>1, <2>2, AgedOrder
  <2> QED
    BY <1>1, <1>6, <2>3 DEF AwaitStopped, ObserverInv
<1>7. CASE ResumeFromStopping(sp, d) \/ ResumeFromPending(sp, d)
  BY <1>1, <1>7 DEF ResumeFromStopping, ResumeFromPending, ResumeCharging, ObserverInv
<1> QED
  BY <1>2, <1>3, <1>4, <1>5, <1>6, <1>7

\* So does a tick on the way down.
LEMMA StoppingObserved ==
    ASSUME TypeOK, SessionInv, ObserverInv,
           NEW sp \in Setpoints \cup {0}, NEW d \in TickLengths, Observe(sp, d),
           \/ ConfirmExternalStop(sp, d) \/ BeginStopping(sp, d)
           \/ ReconcileModeSwitch(sp, d) \/ DropToZero(sp, d) \/ AnnounceStopped(sp, d)
    PROVE  ObserverInv'
<1> USE SetpointsAssumption, DelayAssumption, TicksAssumption
<1> USE DEF SessionInv, TimersMatchState, OutputMatchesSession, ConfirmationIsFresh,
            StoppedAfterZero, Event, NoEvent, NotSet
<1>1. /\ sinceStopping' \in {NotSet} \cup 0..Horizon /\ zeroFor' \in 0..Horizon
      /\ suspects' \in 0..ConfirmTicks
  BY ObserverType
<1>2. CASE ConfirmExternalStop(sp, d)
  BY <1>1, <1>2 DEF ConfirmExternalStop, ObserverInv
<1>3. CASE BeginStopping(sp, d)
  BY <1>1, <1>3 DEF BeginStopping, Observe, ObserverInv
<1>4. CASE ReconcileModeSwitch(sp, d)
  BY <1>1, <1>4 DEF ReconcileModeSwitch, ObserverInv
<1>5. CASE DropToZero(sp, d)
  BY <1>1, <1>5 DEF DropToZero, ObserverInv
<1>6. CASE AnnounceStopped(sp, d)
  <2>1. stoppedAge \in 0..Horizon /\ zeroFor \in 0..Horizon /\ zeroFor >= stoppedAge
    BY <1>6 DEF AnnounceStopped, ObserverInv, TypeOK
  <2>2. zeroFor' = Aged(zeroFor, d) /\ Elapsed(stoppedAge, d) >= StoppedDelay
    BY <1>6 DEF AnnounceStopped, Observe, TypeOK
  <2>3. zeroFor' >= StoppedDelay
    <3>1. /\ Aged(zeroFor, d) >= Aged(stoppedAge, d) /\ Aged(stoppedAge, d) \in 0..Horizon
          /\ Elapsed(stoppedAge, d) = Aged(stoppedAge, d) /\ Aged(zeroFor, d) \in 0..Horizon
      BY <2>1, AgedOrder
    <3> QED
      BY <2>2, <3>1 DEF Horizon
  <2> QED
    BY <1>1, <1>6, <2>3 DEF AnnounceStopped, ObserverInv
<1> QED
  BY <1>2, <1>3, <1>4, <1>5, <1>6

\* A tick that is watched is a tick, and the inputs change as they did.
LEMMA WatchedIsStep ==
    ASSUME [ObservedNext]_<<vars, observed>>
    PROVE  [Next]_vars
  BY DEF ObservedNext, ObservedTick, Next, Tick

\* Every watched step keeps the observer ahead of the session.
LEMMA ObservedKeeps ==
    ASSUME TypeOK, SessionInv, ObserverInv, [ObservedNext]_<<vars, observed>>
    PROVE  ObserverInv'
<1>1. ASSUME NEW sp \in Setpoints \cup {0}, ObservedTick(sp)
      PROVE  ObserverInv'
  <2>1. PICK d \in TickLengths : ApplyChargingEvents(sp, d) /\ Observe(sp, d)
    BY <1>1 DEF ObservedTick
  <2> QED
    BY <2>1, StayingObserved, StoppingObserved DEF ApplyChargingEvents
<1>2. CASE UNCHANGED <<session, stoppingAge, stoppedAge, externalTicks, event, observed>>
  BY <1>2 DEF ObserverInv, StoppedAfterZero, observed
<1> QED
  BY <1>1, <1>2 DEF ObservedNext, ChangeMode, ReadCharger, ReadPlant, vars, inputs, sessionVars,
                    observed

\* The session's invariant and the observer's hold together.
LEMMA ObservedInvariance == ObservedSpec => [](TypeOK /\ SessionInv /\ ObserverInv)
<1>1. ObservedInit => TypeOK /\ SessionInv /\ ObserverInv
  BY InitEstablishes, DelayAssumption, TicksAssumption
     DEF ObservedInit, Init, ObserverInv, StoppedAfterZero, NoEvent, NotSet, Horizon
<1>2. TypeOK /\ SessionInv /\ ObserverInv /\ [ObservedNext]_<<vars, observed>>
        => (TypeOK /\ SessionInv /\ ObserverInv)'
  BY WatchedIsStep, NextKeeps, ObservedKeeps
<1> QED
  BY <1>1, <1>2, PTL DEF ObservedSpec

\* state_machine.py: "stopped" is only said after the charger has been told 0 for
\* the whole of _STOPPED_DELAY_S, for every delay and every loop period.
THEOREM StoppedIsSaidAfterZero == ObservedSpec => []StoppedAfterZero
<1>1. ObserverInv => StoppedAfterZero
  BY DEF ObserverInv
<1> QED
  BY <1>1, ObservedInvariance, PTL

\* state_machine.py: power is withdrawn only after the announced hold, after a
\* confirmed stop of the charger, or after a mode switch while it is active.
THEOREM WithdrawalHasCause == ObservedSpec => PowerWithdrawnForCause
<1>1. ASSUME TypeOK, SessionInv, ObserverInv, [ObservedNext]_<<vars, observed>>
      PROVE  [ output > 0 /\ output' = 0 =>
                 \/ sinceStopping >= 0 /\ sinceStopping' >= StoppingDelay
                 \/ suspects' >= ConfirmTicks
                 \/ mode # originMode /\ status \in ActiveStatuses ]_<<vars, observed>>
  <2> SUFFICES ASSUME output > 0, output' = 0
               PROVE  \/ sinceStopping >= 0 /\ sinceStopping' >= StoppingDelay
                      \/ suspects' >= ConfirmTicks
                      \/ mode # originMode /\ status \in ActiveStatuses
    OBVIOUS
  <2> USE SetpointsAssumption, DelayAssumption, TicksAssumption
  <2>1. PICK sp \in Setpoints \cup {0}, d \in TickLengths :
            ApplyChargingEvents(sp, d) /\ Observe(sp, d)
    BY <1>1 DEF ObservedNext, ObservedTick, ChangeMode, ReadCharger, ReadPlant, vars
  <2>2. session \in {"charging", "stopping"} /\ session' \notin {"charging", "stopping"}
    <3>1. (TypeOK /\ SessionInv)'
      BY <1>1, WatchedIsStep, NextKeeps
    <3> QED
      BY <1>1, <3>1 DEF SessionInv, OutputMatchesSession
  <2>3. \/ ConfirmExternalStop(sp, d) \/ ReconcileModeSwitch(sp, d) \/ DropToZero(sp, d)
    BY <2>1, <2>2
       DEF ApplyChargingEvents, StayIdle, StartSession, KeepCharging, BeginStopping,
           ResumeFromStopping, HoldSetpoint, ResumeFromPending, AwaitStopped, AnnounceStopped,
           ResumeCharging
  <2>4. CASE ConfirmExternalStop(sp, d)
    BY <1>1, <2>1, <2>4
       DEF ConfirmExternalStop, LooksStopped, IsExternalStopCandidate, Observe, ObserverInv, TypeOK
  <2>5. CASE ReconcileModeSwitch(sp, d)
    BY <2>5 DEF ReconcileModeSwitch, SwitchedWhileActive, ChargerIsActiveOrStarting
  <2>6. CASE DropToZero(sp, d)
    <3>1. /\ stoppingAge \in 0..Horizon /\ sinceStopping \in 0..Horizon
          /\ sinceStopping >= stoppingAge
      BY <1>1, <2>6 DEF DropToZero, ObserverInv, TypeOK, SessionInv, TimersMatchState, NotSet,
                        Horizon
    <3>2. sinceStopping' = Aged(sinceStopping, d) /\ Elapsed(stoppingAge, d) >= StoppingDelay
      BY <2>1, <2>6 DEF DropToZero, Observe, NoEvent
    <3>3. /\ Aged(sinceStopping, d) >= Aged(stoppingAge, d) /\ Aged(stoppingAge, d) \in 0..Horizon
          /\ Elapsed(stoppingAge, d) = Aged(stoppingAge, d)
          /\ Aged(sinceStopping, d) \in 0..Horizon
      BY <3>1, AgedOrder
    <3> QED
      BY <3>1, <3>2, <3>3 DEF Horizon
  <2> QED
    BY <2>3, <2>4, <2>5, <2>6
<1> QED
  BY <1>1, ObservedInvariance, PTL DEF ObservedSpec, PowerWithdrawnForCause

===============================================================================
