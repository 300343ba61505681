---------------------------- MODULE ControlLoopProofs ---------------------------
(***************************************************************************)
(* Theorems about ControlLoop, for every set of setpoints, all delays, any *)
(* outcome of I/O and verdict of the breaker cap.  What ChargingSession    *)
(* promises of a tick is used through the lemmas of its proofs: a decision *)
(* of the loop is a tick of the session, and every other step leaves the   *)
(* session alone.                                                          *)
(***************************************************************************)
EXTENDS ControlLoop, ChargingSessionProofs

\* The loop's own variables.
LoopTypes ==
    /\ pc \in {"top", "reconnect", "victron", "evread", "edge", "decide", "output"}
    /\ quiet \in BOOLEAN /\ healthy \in BOOLEAN /\ evPower \in BOOLEAN
    /\ prevConnected \in {"none", "yes", "no"}
    /\ commanded \in Setpoints \cup {0}
    /\ charger \in ChargerStatus
    /\ startPending \in BOOLEAN /\ staleLink \in BOOLEAN
    /\ seenUnplugged \in BOOLEAN /\ away \in BOOLEAN

\* Nothing is read, and nothing has been started, while writes are suppressed.
QuietInv ==
    /\ pc = "evread" => ~quiet
    /\ SuppressionIsSafe

\* What the loop remembers of the vehicle, and what became of the vehicle.
VehicleInv ==
    /\ charger = "IDLE_NO_CONNECTOR" => seenUnplugged
    /\ ~evConnected /\ prevConnected = "yes" => seenUnplugged
    /\ quiet \/ pc = "decide" => prevConnected # "none"
    /\ pc = "edge" /\ prevConnected = "none" /\ ~evConnected /\ healthy => seenUnplugged
    /\ away => charger = "IDLE_NO_CONNECTOR"
    /\ pc \in {"edge", "decide"} /\ ~quiet /\ healthy /\ evConnected => ~away

LoopInv == TypeOK /\ SessionInv /\ LoopTypes /\ QuietInv /\ VehicleInv

-------------------------------------------------------------------------------
\* The initial states satisfy the inductive invariant.
LEMMA LoopInitEstablishes == LoopInit => LoopInv
<1> SUFFICES ASSUME LoopInit PROVE LoopInv
    OBVIOUS
<1>1. TypeOK /\ SessionInv
  BY InitEstablishes DEF LoopInit
<1>2. /\ quiet \in BOOLEAN /\ healthy \in BOOLEAN /\ evPower \in BOOLEAN
      /\ startPending \in BOOLEAN /\ staleLink \in BOOLEAN
      /\ seenUnplugged \in BOOLEAN /\ away \in BOOLEAN
  BY Zenon DEF LoopInit
<1>3. LoopTypes
  BY <1>2, LoopAssumption DEF LoopInit, LoopTypes, ChargerStatus, EndedStatuses,
     StartableStatuses
<1>4. QuietInv /\ VehicleInv
  BY DEF LoopInit, QuietInv, VehicleInv, SuppressionIsSafe
<1> QED
  BY <1>1, <1>3, <1>4 DEF LoopInv

\* What a mode asks for is a setpoint, and only a mode that may charge, with a
\* vehicle and a link, asks for power.
LEMMA SetpointType ==
    ASSUME NEW sp \in ComputeSetpoint
    PROVE  /\ sp \in Setpoints \cup {0}
           /\ sp > 0 => mode # "Standby" /\ evConnected /\ healthy
BY SetpointsAssumption DEF ComputeSetpoint

\* Only a positive setpoint opens a session, or keeps one open.
LEMMA PowerOpensSession ==
    ASSUME TypeOK, NEW sp \in Setpoints \cup {0}, NEW d \in TickLengths,
           ApplyChargingEvents(sp, d), ~(sp > 0)
    PROVE  session' # "charging" /\ event'.name # "started"
BY SetpointsAssumption
   DEF TypeOK, ApplyChargingEvents, StayIdle, StartSession, KeepCharging, ConfirmExternalStop,
       BeginStopping, ReconcileModeSwitch, ResumeFromStopping, HoldSetpoint, DropToZero,
       ResumeFromPending, AwaitStopped, AnnounceStopped, ResumeCharging, Event, NoEvent

\* A decision is a tick of the session for a setpoint of the current mode.
LEMMA DecideTicks ==
    ASSUME TypeOK, SessionInv, Decide
    PROVE  /\ Tick /\ TypeOK' /\ SessionInv'
           /\ commanded' \in Setpoints \cup {0}
           /\ session' = "charging" \/ event'.name = "started"
                => mode # "Standby" /\ evConnected /\ healthy
<1>1. PICK sp \in ComputeSetpoint, d \in TickLengths, trip \in CapVerdicts :
          /\ ApplyChargingEvents(sp, d)
          /\ commanded' = LimitPhaseCurrent(output', trip)
  BY DEF Decide
<1>2. UNCHANGED inputs
  BY DEF Decide
<1>3. sp \in Setpoints \cup {0}
  BY SetpointType
<1>4. TypeOK' /\ SessionInv'
  BY <1>1, <1>2, <1>3, TickKeeps
<1>5. Tick
  BY <1>1, <1>2, <1>3 DEF Tick
<1>6. commanded' \in Setpoints \cup {0}
  BY <1>1, <1>4 DEF LimitPhaseCurrent, TypeOK
<1>7. session' = "charging" \/ event'.name = "started" => sp > 0
  BY <1>1, <1>3, PowerOpensSession
<1> QED
  BY <1>4, <1>5, <1>6, <1>7, SetpointType

-------------------------------------------------------------------------------
\* The steps of the loop other than a decision, and those of its environment.
Moves ==
    \/ LeaveStandby \/ BeginIteration \/ ReconnectEv \/ ReadVictron \/ VehicleEdge
    \/ \E ok \in LinkOutcomes : ReadEv(ok) \/ ApplyEvOutput(ok)
    \/ Environment

\* Only decisions touch the session.
LEMMA MovesLeaveSession ==
    ASSUME Moves \/ UNCHANGED allVars
    PROVE  UNCHANGED <<sessionVars, demand, output, event>>
<1>1. CASE LeaveStandby \/ BeginIteration
  BY <1>1 DEF LeaveStandby, BeginIteration, vars
<1>2. CASE ReconnectEv \/ ReadVictron \/ VehicleEdge
  BY <1>2 DEF ReconnectEv, ReadVictron, VehicleEdge
<1>3. CASE \E ok \in LinkOutcomes : ReadEv(ok) \/ ApplyEvOutput(ok)
  BY <1>3 DEF ReadEv, ApplyEvOutput, vars
<1>4. CASE Environment
  BY <1>4 DEF Environment, SetChargeMode, Charger, BeginCharging, FinishCharging, PlugIn,
     Unplug, vars
<1>5. CASE UNCHANGED allVars
  BY <1>5 DEF allVars, vars
<1> QED
  BY <1>1, <1>2, <1>3, <1>4, <1>5 DEF Moves

\* The flags stay flags.
LEMMA MovesKeepFlags ==
    ASSUME TypeOK, LoopTypes, Moves \/ UNCHANGED allVars
    PROVE  /\ quiet' \in BOOLEAN /\ healthy' \in BOOLEAN /\ evPower' \in BOOLEAN
           /\ startPending' \in BOOLEAN /\ staleLink' \in BOOLEAN
           /\ seenUnplugged' \in BOOLEAN /\ away' \in BOOLEAN
           /\ evConnected' \in BOOLEAN /\ trusted' \in BOOLEAN
<1>0. /\ quiet \in BOOLEAN /\ healthy \in BOOLEAN /\ evPower \in BOOLEAN
      /\ startPending \in BOOLEAN /\ staleLink \in BOOLEAN
      /\ seenUnplugged \in BOOLEAN /\ away \in BOOLEAN
      /\ evConnected \in BOOLEAN /\ trusted \in BOOLEAN
  BY DEF TypeOK, LoopTypes
<1> USE DEF vars, inputs, loopVars, chargerVars, history
<1>1. CASE LeaveStandby \/ BeginIteration
  <2>1. away' = (charger = "IDLE_NO_CONNECTOR") /\ UNCHANGED <<staleLink, seenUnplugged>>
    BY <1>1, Zenon DEF LeaveStandby, BeginIteration, ObserveTop
  <2> QED
    BY <1>0, <1>1, <2>1, Zenon DEF LeaveStandby, BeginIteration
<1>2. CASE ReconnectEv \/ VehicleEdge
  BY <1>0, <1>2, Zenon DEF ReconnectEv, VehicleEdge
<1>3. CASE ReadVictron
  <2>1. trusted' \in {trusted, FALSE}
    BY <1>3, Zenon DEF ReadVictron
  <2>2. trusted' \in BOOLEAN
    BY <1>0, <2>1
  <2> QED
    BY <1>0, <1>3, <2>2, Zenon DEF ReadVictron
<1>4. ASSUME NEW ok \in LinkOutcomes, ReadEv(ok)
      PROVE  /\ evPower' \in BOOLEAN /\ evConnected' \in BOOLEAN /\ seenUnplugged' \in BOOLEAN
             /\ healthy' \in BOOLEAN /\ trusted' \in BOOLEAN /\ quiet' \in BOOLEAN
             /\ startPending' \in BOOLEAN /\ staleLink' \in BOOLEAN /\ away' \in BOOLEAN
  <2>1. ok \in BOOLEAN /\ healthy' = ok /\ trusted' = ok
    BY <1>4, LoopAssumption DEF ReadEv
  <2>2. \/ UNCHANGED evPower
        \/ evPower' = (charger = "CHARGING_IN_PROGRESS")
    BY <1>4 DEF ReadEv
  <2>3. \/ UNCHANGED <<evConnected, seenUnplugged>>
        \/ /\ evConnected' = (charger # "IDLE_NO_CONNECTOR")
           /\ seenUnplugged' = (seenUnplugged /\ ~evConnected')
    BY <1>4 DEF ReadEv
  <2>4. /\ quiet' = quiet /\ startPending' = startPending
        /\ staleLink' = staleLink /\ away' = away
    BY <1>4 DEF ReadEv
  <2> QED
    BY <1>0, <2>1, <2>2, <2>3, <2>4, Zenon
<1>5. CASE \E ok \in LinkOutcomes : ApplyEvOutput(ok)
  BY <1>0, <1>5, Zenon DEF ApplyEvOutput, AcceptStart, AcceptStop
<1>6. CASE \E m \in Modes : SetChargeMode(m)
  BY <1>0, <1>6, Zenon DEF SetChargeMode
<1>7. CASE BeginCharging \/ FinishCharging \/ Unplug
  BY <1>0, <1>7, Zenon DEF BeginCharging, FinishCharging, Unplug, Charger
<1>9. CASE PlugIn
  <2>1. startPending' \in {FALSE, AutoStart}
    BY <1>9, Zenon DEF PlugIn
  <2>2. startPending' \in BOOLEAN
    BY <2>1, LoopAssumption
  <2> QED
    BY <1>0, <1>9, <2>2, Zenon DEF PlugIn, Charger
<1>8. CASE UNCHANGED allVars
  BY <1>0, <1>8, Zenon DEF allVars
<1> QED
  BY <1>1, <1>2, <1>3, <1>4, <1>5, <1>6, <1>7, <1>8, <1>9, Zenon DEF Moves, Environment

\* They keep the types.
LEMMA MovesKeepTypes ==
    ASSUME TypeOK, LoopTypes, Moves \/ UNCHANGED allVars
    PROVE  TypeOK' /\ LoopTypes'
<1> DEFINE Places ==
       {"top", "reconnect", "victron", "evread", "edge", "decide", "output"}
<1>1. /\ pc' \in Places
      /\ prevConnected' \in {"none", "yes", "no"} /\ commanded' = commanded
  <2> USE DEF LoopTypes, loopVars, chargerVars, history
  <2>1. CASE LeaveStandby \/ BeginIteration \/ ReconnectEv \/ ReadVictron \/ VehicleEdge
    BY <2>1 DEF LeaveStandby, BeginIteration, ReconnectEv, ReadVictron, VehicleEdge
  <2>2. CASE \E ok \in LinkOutcomes : ReadEv(ok) \/ ApplyEvOutput(ok)
    BY <2>2 DEF ReadEv, ApplyEvOutput
  <2>3. CASE Environment \/ UNCHANGED allVars
    BY <2>3 DEF Environment, SetChargeMode, Charger, BeginCharging, FinishCharging, PlugIn,
       Unplug, allVars
  <2> QED
    BY <2>1, <2>2, <2>3 DEF Moves
<1>2. charger' \in ChargerStatus /\ status' \in ChargerStatus
  <2> USE DEF LoopTypes, TypeOK, vars, inputs, chargerVars
  <2>0. /\ "IDLE_NO_CONNECTOR" \in ChargerStatus /\ "IDLE_CONNECTOR_PLUGGED" \in ChargerStatus
        /\ "CHARGING_IN_PROGRESS" \in ChargerStatus /\ "CHARGING_COMPLETED" \in ChargerStatus
    BY DEF ChargerStatus, EndedStatuses, StartableStatuses, ActiveStatuses
  <2>1. CASE LeaveStandby \/ BeginIteration \/ ReconnectEv \/ ReadVictron \/ VehicleEdge
    BY <2>1 DEF LeaveStandby, BeginIteration, ReconnectEv, ReadVictron, VehicleEdge
  <2>2. CASE \E ok \in LinkOutcomes : ReadEv(ok)
    BY <2>2 DEF ReadEv
  <2>3. CASE \E ok \in LinkOutcomes : ApplyEvOutput(ok)
    BY <2>0, <2>3 DEF ApplyEvOutput, AcceptStart, AcceptStop
  <2>4. CASE Environment \/ UNCHANGED allVars
    BY <2>0, <2>4 DEF Environment, SetChargeMode, Charger, BeginCharging, FinishCharging,
       PlugIn, Unplug, allVars
  <2> QED
    BY <2>1, <2>2, <2>3, <2>4 DEF Moves
<1>3. mode' \in Modes /\ plant' \in PlantConditions
  <2> USE DEF TypeOK, vars, inputs
  <2>1. CASE LeaveStandby \/ BeginIteration \/ ReconnectEv
    BY <2>1 DEF LeaveStandby, BeginIteration, ReconnectEv
  <2>2. CASE ReadVictron
    BY <2>2, PlantAssumption DEF ReadVictron
  <2>3. CASE VehicleEdge
    BY <2>3 DEF VehicleEdge, Modes
  <2>4. CASE \E ok \in LinkOutcomes : ReadEv(ok) \/ ApplyEvOutput(ok)
    BY <2>4 DEF ReadEv, ApplyEvOutput
  <2>5. CASE Environment \/ UNCHANGED allVars
    BY <2>5 DEF Environment, SetChargeMode, Charger, BeginCharging, FinishCharging, PlugIn,
       Unplug, allVars
  <2> QED
    BY <2>1, <2>2, <2>3, <2>4, <2>5 DEF Moves
<1>4. TypeOK'
  BY <1>2, <1>3, MovesKeepFlags, MovesLeaveSession DEF TypeOK, sessionVars
<1>5. LoopTypes'
  BY <1>1, <1>2, MovesKeepFlags DEF LoopTypes
<1> QED
  BY <1>4, <1>5

-------------------------------------------------------------------------------
\* They keep the suppression safe: nothing is read while it lasts.
LEMMA MovesKeepQuiet ==
    ASSUME LoopTypes, QuietInv, Moves \/ UNCHANGED allVars
    PROVE  QuietInv'
<1> USE DEF LoopTypes, QuietInv, SuppressionIsSafe
<1>0. session' = session
  BY MovesLeaveSession DEF sessionVars
<1>1. CASE LeaveStandby \/ BeginIteration
  BY <1>0, <1>1 DEF LeaveStandby, BeginIteration, vars, inputs
<1>2. CASE ReconnectEv \/ ReadVictron \/ VehicleEdge
  <2>1. UNCHANGED <<quiet, commanded, status, evPower>>
    BY <1>2 DEF ReconnectEv, ReadVictron, VehicleEdge
  <2>2. pc' = "evread" => ~quiet
    BY <1>2 DEF ReconnectEv, ReadVictron, VehicleEdge
  <2> QED
    BY <1>0, <2>1, <2>2
<1>3. CASE \E ok \in LinkOutcomes : ReadEv(ok)
  BY <1>0, <1>3 DEF ReadEv
<1>4. CASE \E ok \in LinkOutcomes : ApplyEvOutput(ok)
  BY <1>0, <1>4 DEF ApplyEvOutput, vars, inputs
<1>5. CASE Environment
  <2>1. UNCHANGED <<pc, quiet, commanded, status, evPower>>
    BY <1>5 DEF Environment, SetChargeMode, Charger, BeginCharging, FinishCharging, PlugIn,
       Unplug, vars, inputs, loopVars
  <2> QED
    BY <1>0, <2>1
<1>6. CASE UNCHANGED allVars
  BY <1>0, <1>6 DEF allVars, vars, inputs, loopVars
<1> QED
  BY <1>1, <1>2, <1>3, <1>4, <1>5, <1>6 DEF Moves

\* They keep what is known of the vehicle.
LEMMA MovesKeepVehicle ==
    ASSUME TypeOK, LoopTypes, QuietInv, VehicleInv, Moves \/ UNCHANGED allVars
    PROVE  VehicleInv'
<1> USE DEF TypeOK, LoopTypes, VehicleInv
<1>1. CASE LeaveStandby \/ BeginIteration
  BY <1>1 DEF LeaveStandby, BeginIteration, ObserveTop, vars, inputs, chargerVars
<1>2. CASE ReconnectEv \/ VehicleEdge
  BY <1>2 DEF ReconnectEv, VehicleEdge, chargerVars, history
<1>3. CASE ReadVictron
  BY <1>3 DEF ReadVictron, chargerVars, history
<1>4. ASSUME NEW ok \in LinkOutcomes, ReadEv(ok)
      PROVE  VehicleInv'
  <2>1. /\ pc = "evread" /\ pc' = "edge" /\ healthy' = ok
        /\ UNCHANGED <<quiet, prevConnected, charger, away>>
        /\ \/ ~ok /\ UNCHANGED <<evConnected, seenUnplugged>>
           \/ /\ evConnected' = (charger # "IDLE_NO_CONNECTOR")
              /\ seenUnplugged' = (seenUnplugged /\ ~evConnected')
    BY <1>4 DEF ReadEv, chargerVars
  <2>2. ~quiet'
    BY <2>1 DEF QuietInv
  <2>3. CASE ~ok /\ UNCHANGED <<evConnected, seenUnplugged>>
    BY <2>1, <2>2, <2>3
  <2>4. CASE /\ evConnected' = (charger # "IDLE_NO_CONNECTOR")
             /\ seenUnplugged' = (seenUnplugged /\ ~evConnected')
    <3>0. evConnected' => ~away'
      BY <2>1, <2>4
    <3>1. charger = "IDLE_NO_CONNECTOR" => seenUnplugged'
      BY <2>4
    <3>2. ~evConnected' => charger = "IDLE_NO_CONNECTOR"
      BY <2>4
    <3> QED
      BY <2>1, <2>2, <3>0, <3>1, <3>2
  <2> QED
    BY <2>1, <2>3, <2>4
<1>5. CASE \E ok \in LinkOutcomes : ApplyEvOutput(ok)
  BY <1>5 DEF ApplyEvOutput, AcceptStart, AcceptStop, vars, inputs, chargerVars, history,
     StartableStatuses, ActiveStatuses
<1>6. CASE \E m \in Modes : SetChargeMode(m)
  BY <1>6 DEF SetChargeMode, loopVars, chargerVars, history
<1>7. CASE BeginCharging \/ FinishCharging \/ PlugIn \/ Unplug
  <2>1. /\ UNCHANGED <<evConnected, pc, quiet, healthy, prevConnected>>
        /\ \/ seenUnplugged' = TRUE /\ away' = away /\ charger' = "IDLE_NO_CONNECTOR"
           \/ /\ seenUnplugged' = seenUnplugged /\ charger' # "IDLE_NO_CONNECTOR"
              /\ away' = FALSE \/ (away' = away /\ charger # "IDLE_NO_CONNECTOR")
    BY <1>7 DEF BeginCharging, FinishCharging, PlugIn, Unplug, Charger, vars, inputs, loopVars,
       StartableStatuses
  <2> QED
    BY <2>1
<1>8. CASE UNCHANGED allVars
  BY <1>8 DEF allVars, vars, inputs, loopVars, chargerVars, history
<1> QED
  BY <1>1, <1>2, <1>3, <1>4, <1>5, <1>6, <1>7, <1>8 DEF Moves, Environment

\* A decision keeps the invariant.
LEMMA DecideKeeps ==
    ASSUME LoopInv, Decide
    PROVE  LoopInv'
<1> USE DEF LoopInv
<1>1. /\ TypeOK' /\ SessionInv'
      /\ commanded' \in Setpoints \cup {0}
      /\ session' = "charging" => mode # "Standby"
  BY DecideTicks
<1>2. /\ pc = "decide" /\ pc' = "output"
      /\ quiet' = ShouldSuppressEvWrites(commanded')
      /\ staleLink' = (staleLink \/ quiet')
      /\ UNCHANGED <<mode, evConnected, status, healthy, evPower, prevConnected, charger,
                     startPending, seenUnplugged, away>>
  BY DEF Decide, inputs, chargerVars
<1>3. /\ quiet' \in BOOLEAN
      /\ quiet' => /\ mode = "Standby" /\ commanded' = 0
                   /\ quiet \/ (~ChargerIsActiveOrStarting /\ ~evPower)
  <2>1. ShouldSuppressEvWrites(commanded') \in BOOLEAN
    BY DEF ShouldSuppressEvWrites
  <2>2. ShouldSuppressEvWrites(commanded') =>
            /\ mode = "Standby" /\ commanded' = 0
            /\ quiet \/ (~ChargerIsActiveOrStarting /\ ~evPower)
    BY DEF ShouldSuppressEvWrites
  <2> QED
    BY <1>2, <2>1, <2>2, Zenon
<1>4. quiet \in BOOLEAN /\ staleLink \in BOOLEAN
  BY DEF LoopTypes
<1>5. staleLink' \in BOOLEAN
  BY <1>2, <1>3, <1>4, Zenon
<1>6. LoopTypes'
  BY <1>1, <1>2, <1>3, <1>5 DEF LoopTypes
<1>7. QuietInv'
  BY <1>1, <1>2, <1>3 DEF QuietInv, SuppressionIsSafe, ChargerIsActiveOrStarting
<1>8. VehicleInv'
  BY <1>2 DEF VehicleInv
<1> QED
  BY <1>1, <1>6, <1>7, <1>8

\* Every step of the loop is a decision, or leaves the session alone.
LEMMA LoopNextIsDecideOrMove ==
    [LoopNext]_allVars => Decide \/ Moves \/ UNCHANGED allVars
BY DEF LoopNext, LoopStep, Moves

\* Every step of the loop and its environment keeps the invariant.
LEMMA LoopNextKeeps == LoopInv /\ [LoopNext]_allVars => LoopInv'
<1> SUFFICES ASSUME LoopInv, [LoopNext]_allVars PROVE LoopInv'
    OBVIOUS
<1>1. CASE Decide
  BY <1>1, DecideKeeps
<1>2. CASE Moves \/ UNCHANGED allVars
  <2>1. SessionInv'
    BY <1>2, MovesLeaveSession
       DEF LoopInv, SessionInv, TimersMatchState, OutputMatchesSession, ConfirmationIsFresh,
           sessionVars
  <2> QED
    BY <1>2, <2>1, MovesKeepTypes, MovesKeepQuiet, MovesKeepVehicle DEF LoopInv
<1> QED
  BY <1>1, <1>2, LoopNextIsDecideOrMove

-------------------------------------------------------------------------------
\* The invariant holds in every reachable state.
THEOREM LoopInvHolds == LoopSpec => []LoopInv
  BY LoopInitEstablishes, LoopNextKeeps, PTL DEF LoopSpec

\* loop.py:60-70: the loop's variables keep to their types.
THEOREM LoopTypeCorrect == LoopSpec => []LoopTypeOK
<1>1. LoopInv => LoopTypeOK
  BY DEF LoopInv, LoopTypes, LoopTypeOK
<1> QED
  BY <1>1, LoopInvHolds, PTL

\* mode_strategies.py should_suppress_ev_writes: while EV traffic is suppressed no
\* session is open, no power is commanded and the charger was not known to be
\* active, whatever the user and the vehicle do between the steps of the loop.
THEOREM LoopSuppressionIsSafe == LoopSpec => []SuppressionIsSafe
<1>1. LoopInv => SuppressionIsSafe
  BY DEF LoopInv, QuietInv
<1> QED
  BY <1>1, LoopInvHolds, PTL

\* loop.py:101-124: whatever fails and whatever is left of earlier reads, no session
\* is started for a vehicle that has been away since the iteration began, unless the
\* iteration began suppressed.
THEOREM LoopStartsNeedVehicle == LoopSpec => StartsNeedVehicle
<1>1. ASSUME LoopInv, [LoopNext]_allVars, SessionStarts
      PROVE  quiet \/ ~away
  <2>1. event'.name = "started" /\ event # event'
    BY <1>1 DEF SessionStarts
  <2>2. Decide
    BY <1>1, <2>1, LoopNextIsDecideOrMove, MovesLeaveSession
  <2>3. evConnected /\ healthy
    BY <1>1, <2>1, <2>2, DecideTicks DEF LoopInv
  <2>4. pc = "decide"
    BY <2>2 DEF Decide
  <2> QED
    BY <1>1, <2>3, <2>4 DEF LoopInv, VehicleInv
<1>2. LoopInv /\ [LoopNext]_allVars => [SessionStarts => quiet \/ ~away]_allVars
  BY <1>1
<1> QED
  BY <1>2, LoopInvHolds, PTL DEF LoopSpec, StartsNeedVehicle

\* loop.py:107-122: Manual is taken back only after an unplug, or in a first
\* iteration that could not read the charger.
THEOREM LoopManualIsTakenForCause == LoopSpec => ManualIsTakenForCause
<1>1. ASSUME LoopInv, [LoopNext]_allVars, TakesManualBack
      PROVE  seenUnplugged \/ (prevConnected = "none" /\ ~healthy)
  <2>1. pc = "edge" /\ pc' = "decide" /\ mode = "Manual" /\ mode' # "Manual"
    BY <1>1 DEF TakesManualBack
  <2>2. VehicleEdge
    BY <1>1, <2>1
       DEF LoopNext, LoopStep, Environment, LeaveStandby, BeginIteration, ReconnectEv, ReadVictron,
           ReadEv, Decide, ApplyEvOutput, SetChargeMode, Charger, BeginCharging, FinishCharging,
           PlugIn, Unplug, allVars, loopVars
  <2>3. ~evConnected /\ prevConnected # "no"
    BY <2>1, <2>2 DEF VehicleEdge
  <2> QED
    BY <1>1, <2>1, <2>3 DEF LoopInv, LoopTypes, VehicleInv
<1>2. LoopInv /\ [LoopNext]_allVars
        => [TakesManualBack => seenUnplugged \/ (prevConnected = "none" /\ ~healthy)]_allVars
  BY <1>1
<1> QED
  BY <1>2, LoopInvHolds, PTL DEF LoopSpec, ManualIsTakenForCause

\* The loop as a whole keeps to the event contract of ChargeEvents: the session
\* steps when the loop decides, whatever interleaves with the iteration.
THEOREM LoopKeepsContract == LoopSpec => Contract!SafetySpec
<1>1. LoopInit => Contract!Init
  BY DEF LoopInit, Init, Contract!Init, Contract!Silence, Phase, NoEvent
<1>2. LoopInv /\ [LoopNext]_allVars => [Contract!Next]_(Contract!vars)
  <2> SUFFICES ASSUME LoopInv, [LoopNext]_allVars
               PROVE  [Contract!Next]_(Contract!vars)
      OBVIOUS
  <2>1. CASE Decide
    <3>1. [Next]_vars
      BY <2>1, DecideTicks DEF LoopInv, Next
    <3> QED
      BY <3>1, StepRefines DEF LoopInv
  <2>2. CASE Moves \/ UNCHANGED allVars
    BY <2>2, MovesLeaveSession DEF Contract!vars, Phase, sessionVars
  <2> QED
    BY <2>1, <2>2, LoopNextIsDecideOrMove
<1> QED
  BY <1>1, <1>2, LoopInvHolds, PTL DEF LoopSpec, Contract!SafetySpec

===============================================================================
