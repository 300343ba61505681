------------------------------ MODULE ControlLoop ------------------------------
(***************************************************************************)
(* One iteration of app/control/loop.py after another, interleaved at its  *)
(* suspension points with the MQTT task, which sets the charge mode, and   *)
(* with the charger and its vehicle.  The session state machine is the one *)
(* of ChargingSession; the mode strategies and the breaker cap appear by   *)
(* their verdicts (modules ModeStrategies and BreakerCap model them).      *)
(*                                                                         *)
(*   top       start of the iteration: standby exit, loop.py:89            *)
(*   reconnect awaiting ev_client.reconnect()                              *)
(*   victron   awaiting the connections and the Victron read               *)
(*   evread    awaiting the EV read (skipped while suppressed)             *)
(*   edge      connect/disconnect edge: synchronous up to "output"         *)
(*   decide    compute, session, cap, suppression: synchronous             *)
(*   output    awaiting the writes, then the sleep                         *)
(*                                                                         *)
(* The MQTT task cannot run between "edge" and "output": nothing there     *)
(* awaits.  Leaving it enabled at "edge" is leaving it enabled at the end  *)
(* of the read.                                                            *)
(***************************************************************************)
EXTENDS ChargingSession

CONSTANTS
    LinkOutcomes,    \* the outcomes of EV I/O: subset of BOOLEAN, TRUE is success
    CapVerdicts,     \* may the breaker cap force 0?  subset of BOOLEAN
    PromptCharger,   \* a start command takes effect before the next read
    AutoStart,       \* may the charger's plug-and-charge auto start be on (ev.py:260)?
    Boot,            \* the charger's status when the program starts
    VehicleMoves     \* may the vehicle be plugged and unplugged?

ASSUME LoopAssumption ==
    /\ LinkOutcomes \subseteq BOOLEAN /\ LinkOutcomes # {}
    /\ CapVerdicts \subseteq BOOLEAN /\ CapVerdicts # {}
    /\ PromptCharger \in BOOLEAN /\ AutoStart \in BOOLEAN /\ VehicleMoves \in BOOLEAN
    /\ Boot \in {"IDLE_NO_CONNECTOR", "IDLE_CONNECTOR_PLUGGED"}

VARIABLES
    pc,            \* where the iteration is
    quiet,         \* _standby_write_quiet
    healthy,       \* AppState.ev_comm_healthy
    evPower,       \* AppState.ev_active_power_w > 0
    prevConnected, \* _prev_ev_connected: "none", "yes" or "no"
    commanded,     \* commanded_setpoint_w
    charger,       \* the charger's own status
    startPending,  \* it is about to start: told to, or by itself, and has not begun
    staleLink,     \* the link was suppressed and has not been reconnected since
    seenUnplugged, \* the vehicle has been unplugged since it was last read as connected
    away           \* the vehicle has been away since this iteration began

loopVars == <<pc, quiet, healthy, evPower, prevConnected, commanded>>
chargerVars == <<charger, startPending>>
history == <<staleLink, seenUnplugged, away>>
allVars == <<vars, loopVars, chargerVars, history>>

LoopInit ==
    /\ Init
    /\ pc = "top"
    /\ quiet = FALSE
    /\ healthy = TRUE
    /\ evPower = FALSE
    /\ prevConnected = "none"
    /\ commanded = 0
    /\ charger = Boot
    /\ startPending = FALSE
    /\ staleLink = FALSE
    /\ seenUnplugged = (Boot = "IDLE_NO_CONNECTOR")
    /\ away = (Boot = "IDLE_NO_CONNECTOR")

-------------------------------------------------------------------------------
ObserveTop ==
    away' = (charger = "IDLE_NO_CONNECTOR") /\ UNCHANGED <<staleLink, seenUnplugged>>

\* loop.py:89-94
LeaveStandby ==
    /\ pc = "top" /\ quiet /\ mode # "Standby"
    /\ quiet' = FALSE
    /\ pc' = "reconnect"
    /\ ObserveTop
    /\ UNCHANGED <<vars, healthy, evPower, prevConnected, commanded, chargerVars>>

BeginIteration ==
    /\ pc = "top" /\ ~(quiet /\ mode # "Standby")
    /\ pc' = "victron"
    /\ ObserveTop
    /\ UNCHANGED <<vars, quiet, healthy, evPower, prevConnected, commanded, chargerVars>>

\* ev_client.reconnect() closes the link; ensure_connected opens it again.
ReconnectEv ==
    /\ pc = "reconnect"
    /\ healthy' = FALSE /\ trusted' = FALSE
    /\ staleLink' = FALSE
    /\ pc' = "victron"
    /\ UNCHANGED <<mode, evConnected, status, plant, sessionVars, demand, output, event,
                   quiet, evPower, prevConnected, commanded, chargerVars,
                   seenUnplugged, away>>

\* Mutant of ReadVictron: the charger is read only while it is healthy.
ReadVictronThenHealthyEv ==
    /\ pc = "victron"
    /\ plant' \in Plants
    /\ pc' = IF quiet \/ ~healthy THEN "edge" ELSE "evread"
    /\ trusted' \in IF quiet THEN {trusted, FALSE} ELSE {trusted}
    /\ UNCHANGED <<mode, evConnected, status, sessionVars, demand, output, event,
                   quiet, healthy, evPower, prevConnected, commanded, chargerVars, history>>

\* While suppressed the EV read is skipped: nothing refreshes the EV fields, and
\* in time the last good read is older than _EV_STATUS_STALE_S.
ReadVictron ==
    /\ pc = "victron"
    /\ plant' \in Plants
    /\ pc' = IF quiet THEN "edge" ELSE "evread"
    /\ trusted' \in IF quiet THEN {trusted, FALSE} ELSE {trusted}
    /\ UNCHANGED <<mode, evConnected, status, sessionVars, demand, output, event,
                   quiet, healthy, evPower, prevConnected, commanded, chargerVars, history>>

\* The fields are assigned block by block, so that a read that fails has read
\* nothing, the status block, or the status and the car connection.
ReadEv(ok) ==
    /\ pc = "evread"
    /\ healthy' = ok /\ trusted' = ok
    /\ \E upTo \in (IF ok THEN {"car"} ELSE {"nothing", "status", "car"}) :
          /\ IF upTo = "nothing"
             THEN UNCHANGED <<status, evPower>>
             ELSE status' = charger /\ evPower' = (charger = "CHARGING_IN_PROGRESS")
          /\ IF upTo = "car"
             THEN /\ evConnected' = (charger # "IDLE_NO_CONNECTOR")
                  /\ seenUnplugged' = (seenUnplugged /\ ~evConnected')
             ELSE UNCHANGED <<evConnected, seenUnplugged>>
    /\ pc' = "edge"
    /\ UNCHANGED <<mode, plant, sessionVars, demand, output, event,
                   quiet, prevConnected, commanded, chargerVars, staleLink, away>>

\* Mutant of VehicleEdge: a link that is down counts as an unplugged vehicle.
VehicleEdgeOrLinkDown ==
    /\ pc = "edge"
    /\ LET connected == evConnected /\ healthy
       IN  /\ mode' = IF ~connected /\ prevConnected # "no" /\ mode = "Manual" THEN "Eco" ELSE mode
           /\ prevConnected' = IF connected THEN "yes" ELSE "no"
    /\ pc' = "decide"
    /\ UNCHANGED <<evConnected, status, trusted, plant, sessionVars, demand, output, event,
                   quiet, healthy, evPower, commanded, chargerVars, history>>

\* loop.py:107-122: on unplug, and on the first iteration without a vehicle,
\* Manual falls back to Eco.
VehicleEdge ==
    /\ pc = "edge"
    /\ mode' = IF ~evConnected /\ prevConnected # "no" /\ mode = "Manual" THEN "Eco" ELSE mode
    /\ prevConnected' = IF evConnected THEN "yes" ELSE "no"
    /\ pc' = "decide"
    /\ UNCHANGED <<evConnected, status, trusted, plant, sessionVars, demand, output, event,
                   quiet, healthy, evPower, commanded, chargerVars, history>>

-------------------------------------------------------------------------------
\* Mutant of ComputeSetpoint: the health of the link is not looked at.
ComputeWithoutHealth ==
    IF mode = "Standby" \/ ~evConnected \/ plant.atMaxSoc THEN {0}
    ELSE IF mode = "Manual" THEN Setpoints
    ELSE IF ~plant.victronUp THEN {0}
    ELSE Setpoints \cup {0}

\* resolve_mode_handler: who may ask for power, and what.  The Eco strategies
\* may ask for power or not.
ComputeSetpoint ==
    IF mode = "Standby" \/ ~evConnected \/ ~healthy \/ plant.atMaxSoc THEN {0}
    ELSE IF mode = "Manual" THEN Setpoints
    ELSE IF ~plant.victronUp THEN {0}
    ELSE Setpoints \cup {0}

\* limit_phase_current may force 0; a reduction that leaves power is the same
\* here as no reduction.
LimitPhaseCurrent(sp, trip) == IF trip THEN 0 ELSE sp

\* Mutant of ShouldSuppressEvWrites: quiet at once, whatever the charger does.
SuppressAtOnce(sp) == mode = "Standby" /\ sp = 0

\* should_suppress_ev_writes: its verdict is the new value of the latch.
ShouldSuppressEvWrites(sp) ==
    /\ mode = "Standby" /\ sp = 0
    /\ quiet \/ (~ChargerIsActiveOrStarting /\ ~evPower)

Decide ==
    /\ pc = "decide"
    /\ \E sp \in ComputeSetpoint, d \in TickLengths, trip \in CapVerdicts :
          /\ ApplyChargingEvents(sp, d)
          /\ commanded' = LimitPhaseCurrent(output', trip)
    /\ quiet' = ShouldSuppressEvWrites(commanded')
    /\ staleLink' = (staleLink \/ quiet')
    /\ pc' = "output"
    /\ UNCHANGED <<inputs, healthy, evPower, prevConnected, chargerVars, seenUnplugged, away>>

-------------------------------------------------------------------------------
ShouldSendStart ==
    commanded > 0 /\ evConnected /\ status \in StartableStatuses

ShouldSendStop ==
    commanded = 0 /\ evConnected /\ ChargerIsActiveOrStarting

\* What a start command does to a charger with a vehicle that is not charging.
AcceptStart ==
    /\ charger \in StartableStatuses
    /\ IF PromptCharger
       THEN charger' = "CHARGING_IN_PROGRESS" /\ UNCHANGED startPending
       ELSE startPending' = TRUE /\ UNCHANGED charger

AcceptStop ==
    /\ charger' = IF charger \in ActiveStatuses THEN "CHARGING_COMPLETED" ELSE charger
    /\ startPending' = FALSE

\* _apply_ev_output: the command that follows the setpoint, if there is one and
\* it gets through; then the snapshot and the sleep.
ApplyEvOutput(ok) ==
    /\ pc = "output"
    /\ pc' = "top"
    /\ \/ ~quiet /\ ok /\ ShouldSendStart /\ AcceptStart
       \/ ~quiet /\ ok /\ ShouldSendStop /\ AcceptStop
       \/ /\ quiet \/ ~ok \/ ~(ShouldSendStart \/ ShouldSendStop)
             \/ (ShouldSendStart /\ charger \notin StartableStatuses)
          /\ UNCHANGED chargerVars
    /\ UNCHANGED <<vars, quiet, healthy, evPower, prevConnected, commanded, history>>

LoopStep ==
    \/ LeaveStandby \/ BeginIteration \/ ReconnectEv \/ ReadVictron
    \/ \E ok \in LinkOutcomes : ReadEv(ok)
    \/ VehicleEdge \/ Decide
    \/ \E ok \in LinkOutcomes : ApplyEvOutput(ok)

-------------------------------------------------------------------------------
\* Home Assistant selects a mode (app/ha/client.py _handle_command), while the
\* control loop is suspended.
SetChargeMode(m) ==
    /\ pc # "decide"
    /\ m # mode
    /\ mode' = m
    /\ UNCHANGED <<evConnected, status, trusted, plant, sessionVars, demand, output, event,
                   loopVars, chargerVars, history>>

\* The charger and the vehicle.
Charger(next) ==
    /\ charger' = next
    /\ UNCHANGED <<vars, loopVars, staleLink>>

BeginCharging ==
    /\ startPending /\ charger \in StartableStatuses
    /\ startPending' = FALSE
    /\ Charger("CHARGING_IN_PROGRESS") /\ UNCHANGED <<seenUnplugged, away>>

FinishCharging ==
    /\ charger = "CHARGING_IN_PROGRESS"
    /\ Charger("CHARGING_COMPLETED") /\ UNCHANGED <<startPending, seenUnplugged, away>>

\* With plug-and-charge auto start the charger starts by itself: the switch is
\* the user's (client.py:494), and the loop never looks at it.
PlugIn ==
    /\ VehicleMoves /\ charger = "IDLE_NO_CONNECTOR"
    /\ Charger("IDLE_CONNECTOR_PLUGGED")
    /\ startPending' \in {FALSE, AutoStart}
    /\ away' = FALSE /\ UNCHANGED seenUnplugged

Unplug ==
    /\ VehicleMoves /\ charger # "IDLE_NO_CONNECTOR"
    /\ startPending' = FALSE /\ seenUnplugged' = TRUE /\ UNCHANGED away
    /\ Charger("IDLE_NO_CONNECTOR")

Environment ==
    \/ \E m \in Modes : SetChargeMode(m)
    \/ BeginCharging \/ FinishCharging \/ PlugIn \/ Unplug

LoopNext == LoopStep \/ Environment

\* Every await of the loop ends (the Modbus client times out) and a charger that
\* is about to start begins to charge; nothing else is promised.
LoopSpec ==
    LoopInit /\ [][LoopNext]_allVars /\ WF_allVars(LoopStep) /\ WF_allVars(BeginCharging)

-------------------------------------------------------------------------------
LoopTypeOK ==
    /\ TypeOK
    /\ pc \in {"top", "reconnect", "victron", "evread", "edge", "decide", "output"}
    /\ quiet \in BOOLEAN /\ healthy \in BOOLEAN /\ evPower \in BOOLEAN
    /\ prevConnected \in {"none", "yes", "no"}
    /\ commanded \in Setpoints \cup {0}
    /\ charger \in ChargerStatus
    /\ startPending \in BOOLEAN /\ staleLink \in BOOLEAN
    /\ seenUnplugged \in BOOLEAN /\ away \in BOOLEAN

\* While EV traffic is suppressed nothing that needs it is under way: no session
\* is open, no power is commanded, and the last decision was taken in Standby on
\* a charger that was not known to be active.
SuppressionIsSafe ==
    quiet => session # "charging" /\ commanded = 0
             /\ status \notin ActiveStatuses /\ ~evPower

SessionStarts == event'.name = "started" /\ event # event'

\* loop.py:101-124: no session is started for a vehicle that has been away since
\* the iteration began, however its reads failed, in part or as a whole, and
\* whatever earlier reads have left behind.  The exception is an iteration that
\* began suppressed: it reads nothing, and a mode that leaves Standby meanwhile
\* is decided for on what was read before the silence.
StartsNeedVehicle ==
    [][ SessionStarts => quiet \/ ~away ]_allVars

\* loop.py:87: an iteration is "read -> compute -> write -> publish": a start is
\* computed from reads of the same iteration.
NoStartWithoutVehicle ==
    [][ SessionStarts => ~away ]_allVars

VehicleStays ==
    <>[](charger = "IDLE_NO_CONNECTOR") \/ <>[](charger # "IDLE_NO_CONNECTOR")

\* In lasting Standby a charge that the loop has seen is stopped, whoever started
\* it and however late it began: the loop's report and the charger never stay at
\* charging together (loop.py:78-83).  Once the vehicle stays where it is, the
\* link goes quiet for good (state_machine.py:293-315).
StandbyStopsSeenCharge ==
    <>[](mode = "Standby") =>
        /\ []<>(status \notin ActiveStatuses \/ charger \notin ActiveStatuses)
        /\ VehicleStays => <>[]quiet

\* README.md:23: Standby "stops charging and suppresses all EV charger
\* communication".  If the mode stays Standby, the charger is stopped for good
\* and the link goes quiet for good.
StandbyStopsCharging ==
    <>[](mode = "Standby") => <>[](quiet /\ charger \notin ActiveStatuses)

\* Once the mode is not Standby for good, the suppression ends: the loop reads
\* the charger again and again.
SuppressionEnds ==
    <>[](mode # "Standby") => []<>(pc = "evread")

\* loop.py:89-90: on standby exit, "force a clean EV reconnect before reads
\* resume".
ReconnectBeforeReadsResume ==
    pc = "evread" => ~staleLink

TakesManualBack == mode = "Manual" /\ mode' # "Manual" /\ pc = "edge" /\ pc' = "decide"

\* The loop takes the user's choice of Manual back only if the vehicle has been
\* unplugged since it was last read as connected, however many reads failed, in
\* part or as a whole, since then.  The exception is a first iteration whose EV
\* read fails: it finds the memory of a program that has just started.
ManualIsTakenForCause ==
    [][ TakesManualBack => seenUnplugged \/ (prevConnected = "none" /\ ~healthy) ]_allVars

\* README.md:22: Manual "resets to Eco on unplug".
ManualIsKeptUntilUnplug == [][ TakesManualBack => seenUnplugged ]_allVars

===============================================================================
