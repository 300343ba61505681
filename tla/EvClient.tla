-------------------------------- MODULE EvClient --------------------------------
(***************************************************************************)
(* EVChargerModbusClient (app/modbus/ev.py) and the two tasks that call    *)
(* it: the control loop (ensure_connected, read, write_setpoint, start and *)
(* stop, app/control/loop.py) and the MQTT task (an on-demand command,     *)
(* _handle_runtime_ev_select, and a reconnect after a change of address,   *)
(* app/ha/client.py).  Both run on one event loop: a task is interrupted   *)
(* only where it awaits, and closing the client awaits nothing.            *)
(*                                                                         *)
(* The control loop (pc)                                                   *)
(*   top      start of an iteration                                        *)
(*   victron1 awaiting the Victron connection                              *)
(*   connect  awaiting client.connect()                                    *)
(*   serial   awaiting the serial number                                   *)
(*   victron2 awaiting the Victron read                                    *)
(*   read     awaiting register block number `block`                       *)
(*   decide   from the reads to the write: runs without interruption       *)
(*   write    awaiting the setpoint write                                  *)
(*   command  awaiting the start or the stop command                       *)
(*   crashed  an exception nobody caught: _supervised restarts the loop    *)
(* The MQTT task (cmd): idle, connect, serial, write, confirm.             *)
(*                                                                         *)
(* pymodbus is external: a request on a live connection is answered while  *)
(* the charger is reachable and fails otherwise; one in flight when its    *)
(* client is closed fails or had its answer already; a connection that was *)
(* lost is reopened in the background (reconnect_delay, ev.py:96).         *)
(***************************************************************************)
EXTENDS Integers, Sequences

CONSTANTS
    Demands,       \* setpoints the strategies may ask for, in watts, 0 included
    Blocks,        \* the register blocks, in the order they are read
    Modes,         \* charge modes, "Standby" among them
    MaxDisturbances \* bound: address changes, on-demand commands, outages, new
                    \* demands, foreign writes, plugging and unplugging

ASSUME BlocksAssumption ==
    Len(Blocks) \in Nat \ {0} /\ DOMAIN Blocks = 1 .. Len(Blocks)
ASSUME EvAssumption ==
    /\ Demands \subseteq Nat /\ 0 \in Demands
    /\ "Standby" \in Modes
    /\ MaxDisturbances \in Nat

Unknown == -1
StopPreset == 4200            \* _STOP_PRESET_W
RawSetpointMin == 44          \* _RAW_SETPOINT_MIN
MaxReadFailures == 3          \* _MAX_CONSECUTIVE_READ_FAILURES

VARIABLES
    mode, wanted,     \* AppState.charge_mode; what the strategies ask for
    addressChanged,   \* _config_changed(): the client was made for another address
    client,           \* _client: "none", "new" (never connected), "up" or "lost"
    backoff,          \* monotonic() < _reconnect_after
    failures,         \* _consecutive_read_failures
    healthy,          \* AppState.ev_comm_healthy
    evConnected,      \* AppState.ev_connected
    active,           \* charger_is_active_or_starting(), from the last status read
    cache,            \* AppState.ev_charger_setpoint_raw, Unknown for None
    quiet,            \* _standby_write_quiet
    commanded,        \* the setpoint of the last decision
    pc, block,        \* the control loop
    cmd, override,    \* the MQTT task; standby_override
    reconnectDue,     \* the future of reconnect() has not run
    loopOrphan,       \* the client the loop awaits an answer from was closed
    cmdOrphan,        \* likewise for the MQTT task
    reachable, plugged, drawing, register,   \* the charger
    disturbed,        \* how often somebody interfered
    fresh,            \* blocks read in this iteration
    resendDue,        \* a start was sent and no setpoint since
    onDemandDone      \* the last user of a suppressed link was an on-demand command

state == <<healthy, evConnected, active, cache>>
link == <<addressChanged, client, backoff, failures>>
loop == <<quiet, commanded, pc, block, loopOrphan>>
mqtt == <<cmd, override, reconnectDue, cmdOrphan>>
charger == <<reachable, plugged, drawing, register>>
settings == <<mode, wanted>>
history == <<disturbed, fresh, resendDue, onDemandDone>>
vars == <<settings, link, state, loop, mqtt, charger, history>>

Init ==
    /\ mode \in Modes /\ wanted \in Demands
    /\ addressChanged = FALSE /\ client = "none" /\ backoff = FALSE /\ failures = 0
    /\ healthy = TRUE /\ evConnected = FALSE /\ active = FALSE /\ cache = Unknown
    /\ quiet = FALSE /\ commanded = 0 /\ pc = "top" /\ block = 1 /\ loopOrphan = FALSE
    /\ cmd = "idle" /\ override = FALSE /\ reconnectDue = FALSE /\ cmdOrphan = FALSE
    /\ reachable = TRUE /\ plugged = TRUE /\ drawing = FALSE /\ register = RawSetpointMin
    /\ disturbed = 0 /\ fresh = {} /\ resendDue = FALSE /\ onDemandDone = FALSE

-------------------------------------------------------------------------------
\* The client.

Connected == client = "up"

LoopAwaits == pc \in {"connect", "serial", "read", "write", "command"}
CmdAwaits == cmd # "idle"

\* The outcomes of the request a task awaits.
Outcomes(orphan) ==
    IF orphan THEN BOOLEAN ELSE {reachable /\ Connected}

\* _close(): whoever still awaits an answer from the client is left with an
\* orphan.  `byLoop` and `byCmd` say which task runs it.
Close(byLoop, byCmd) ==
    /\ client' = "none"
    /\ addressChanged' = FALSE
    /\ failures' = 0
    /\ healthy' = FALSE
    /\ loopOrphan' = (~byLoop /\ LoopAwaits /\ (loopOrphan \/ client # "none"))
    /\ cmdOrphan' = (~byCmd /\ CmdAwaits /\ (cmdOrphan \/ client # "none"))

\* Mutant of EnsureConnected: only a new client is told to connect.
EnsureCreated(byLoop, connecting) ==
    /\ connecting = (~backoff /\ (client = "none" \/ addressChanged))
    /\ healthy' = (healthy /\ Connected /\ ~addressChanged)
    /\ client' = IF client = "none" \/ addressChanged THEN "new" ELSE client
    /\ failures' = IF addressChanged THEN 0 ELSE failures
    /\ loopOrphan' = (~byLoop /\ LoopAwaits /\ (loopOrphan \/ addressChanged))
    /\ cmdOrphan' = (byLoop /\ CmdAwaits /\ (cmdOrphan \/ addressChanged))
    /\ addressChanged' = FALSE
    /\ UNCHANGED backoff

\* ensure_connected() up to its first await.  It returns (connecting = FALSE)
\* with a connection or while it backs off, else it awaits connect() on the
\* client it has, or on a new one.  Closing first, when the address changed, is
\* the same as replacing the client.
EnsureConnected(byLoop, connecting) ==
    IF Connected /\ ~addressChanged
    THEN /\ ~connecting
         /\ UNCHANGED <<link, healthy, loopOrphan, cmdOrphan>>
    ELSE /\ connecting = ~backoff
         /\ healthy' = FALSE
         /\ client' = IF client = "none" \/ addressChanged THEN "new" ELSE client
         /\ failures' = IF addressChanged THEN 0 ELSE failures
         /\ loopOrphan' = (~byLoop /\ LoopAwaits /\ (loopOrphan \/ addressChanged))
         /\ cmdOrphan' = (byLoop /\ CmdAwaits /\ (cmdOrphan \/ addressChanged))
         /\ addressChanged' = FALSE
         /\ UNCHANGED backoff

\* What connect() leaves behind, for the task whose client is orphaned or not.
Connect(ok, orphan) ==
    /\ ok \in IF orphan THEN BOOLEAN ELSE {reachable}
    /\ client' = IF ok /\ ~orphan THEN "up" ELSE client
    /\ backoff' = (backoff \/ ~ok)
    /\ UNCHANGED <<addressChanged, failures>>

\* Python's round() to tenths of a kilowatt, half to even, and the floor.
RoundToRaw(w) ==
    LET q == w \div 100
        r == w % 100
    IN  IF r > 50 \/ (r = 50 /\ q % 2 = 1) THEN q + 1 ELSE q

RawSetpoint(w) ==
    IF w > 0 /\ RoundToRaw(w) < RawSetpointMin THEN RawSetpointMin ELSE RoundToRaw(w)

-------------------------------------------------------------------------------
\* The control loop.

\* loop.py:89-94
BeginIteration ==
    /\ pc = "top"
    /\ pc' = "victron1"
    /\ fresh' = {}
    /\ IF quiet /\ mode # "Standby"
       THEN /\ quiet' = FALSE /\ backoff' = FALSE
            /\ Close(TRUE, FALSE)
       ELSE UNCHANGED <<quiet, link, healthy, loopOrphan, cmdOrphan>>
    /\ UNCHANGED <<settings, evConnected, active, cache, commanded, block, cmd, override,
                   reconnectDue, charger, disturbed, resendDue, onDemandDone>>

\* loop.py:96-98
LoopEnsureConnected ==
    /\ pc = "victron1"
    /\ \/ /\ quiet
          /\ pc' = "victron2"
          /\ UNCHANGED <<link, healthy, loopOrphan, cmdOrphan>>
       \/ /\ ~quiet
          /\ \E connecting \in BOOLEAN :
                /\ EnsureConnected(TRUE, connecting)
                /\ pc' = IF connecting THEN "connect" ELSE "victron2"
    /\ UNCHANGED <<settings, evConnected, active, cache, quiet, commanded, block, cmd,
                   override, reconnectDue, charger, history>>

\* The serial number is asked for on every new connection.
LoopConnect ==
    /\ pc = "connect"
    /\ \E ok \in BOOLEAN :
          /\ Connect(ok, loopOrphan)
          /\ pc' = IF ok /\ client' = "up" THEN "serial" ELSE "victron2"
    /\ loopOrphan' = FALSE
    /\ UNCHANGED <<settings, state, quiet, commanded, block, mqtt, charger, history>>

LoopSerial ==
    /\ pc = "serial"
    /\ pc' = "victron2"
    /\ loopOrphan' = FALSE
    /\ UNCHANGED <<settings, link, state, quiet, commanded, block, mqtt, charger, history>>

\* Mutant of StartRead: without a connection the old verdict stands.
StartReadTrusting ==
    /\ pc = "victron2"
    /\ pc' = IF quiet \/ ~Connected THEN "decide" ELSE "read"
    /\ block' = IF quiet \/ ~Connected THEN block ELSE 1
    /\ UNCHANGED <<settings, link, state, quiet, commanded, loopOrphan, mqtt, charger, history>>

\* loop.py:100-102, and the first request of read()
StartRead ==
    /\ pc = "victron2"
    /\ \/ /\ quiet
          /\ pc' = "decide"
          /\ UNCHANGED <<healthy, block>>
       \/ /\ ~quiet /\ ~Connected
          /\ healthy' = FALSE
          /\ pc' = "decide"
          /\ UNCHANGED block
       \/ /\ ~quiet /\ Connected
          /\ block' = 1
          /\ pc' = "read"
          /\ UNCHANGED healthy
    /\ UNCHANGED <<settings, link, evConnected, active, cache, quiet, commanded, loopOrphan,
                   mqtt, charger, history>>

\* Mutant of Assign: the setpoint is read once and then believed.
AssignOnce(name) ==
    /\ active' = IF name = "main" THEN drawing ELSE active
    /\ evConnected' = IF name = "car" THEN plugged ELSE evConnected
    /\ cache' = IF name = "setpoint" /\ cache = Unknown THEN register ELSE cache
    /\ fresh' = fresh \cup {name}

\* The fields of a block are assigned as soon as it arrives.
Assign(name) ==
    /\ active' = IF name = "main" THEN drawing ELSE active
    /\ evConnected' = IF name = "car" THEN plugged ELSE evConnected
    /\ cache' = IF name = "setpoint" THEN register ELSE cache
    /\ fresh' = fresh \cup {name}

ReadBlock ==
    /\ pc = "read" /\ TRUE \in Outcomes(loopOrphan) /\ block < Len(Blocks)
    /\ Assign(Blocks[block])
    /\ loopOrphan' = FALSE
    /\ IF client = "none"
       THEN pc' = "crashed" /\ UNCHANGED block      \* None has no read_holding_registers
       ELSE block' = block + 1 /\ UNCHANGED pc
    /\ UNCHANGED <<settings, link, healthy, quiet, commanded, mqtt, charger, disturbed,
                   resendDue, onDemandDone>>

FinishRead ==
    /\ pc = "read" /\ TRUE \in Outcomes(loopOrphan) /\ block = Len(Blocks)
    /\ Assign(Blocks[block])
    /\ loopOrphan' = FALSE
    /\ failures' = 0
    /\ healthy' = TRUE
    /\ pc' = "decide"
    /\ UNCHANGED <<settings, addressChanged, client, backoff, quiet, commanded, block, mqtt,
                   charger, disturbed, resendDue, onDemandDone>>

\* Mutant of FailRead: one failure more before the client is closed.
FailReadLate ==
    /\ pc = "read" /\ FALSE \in Outcomes(loopOrphan)
    /\ pc' = "decide"
    /\ IF failures + 1 > MaxReadFailures
       THEN Close(TRUE, FALSE) /\ UNCHANGED backoff
       ELSE /\ failures' = failures + 1
            /\ healthy' = FALSE
            /\ loopOrphan' = FALSE
            /\ UNCHANGED <<addressChanged, client, backoff, cmdOrphan>>
    /\ UNCHANGED <<settings, evConnected, active, cache, quiet, commanded, block, cmd, override,
                   reconnectDue, charger, history>>

\* After three failures in a row the client is closed, to be made anew.
FailRead ==
    /\ pc = "read" /\ FALSE \in Outcomes(loopOrphan)
    /\ pc' = "decide"
    /\ IF failures + 1 >= MaxReadFailures
       THEN Close(TRUE, FALSE) /\ UNCHANGED backoff
       ELSE /\ failures' = failures + 1
            /\ healthy' = FALSE
            /\ loopOrphan' = FALSE
            /\ UNCHANGED <<addressChanged, client, backoff, cmdOrphan>>
    /\ UNCHANGED <<settings, evConnected, active, cache, quiet, commanded, block, cmd, override,
                   reconnectDue, charger, history>>

\* _supervised waits five seconds and calls run_loop() again.
Restart ==
    /\ pc = "crashed"
    /\ pc' = "top"
    /\ UNCHANGED <<settings, link, state, quiet, commanded, block, loopOrphan, mqtt, charger,
                   history>>

\* What the strategies and the session make of the reads: a session on its way
\* down may hold the last setpoint.
Setpoint ==
    IF mode # "Standby" /\ healthy /\ evConnected /\ wanted > 0
    THEN {wanted} ELSE {0, commanded}

Suppressed(sp) == mode = "Standby" /\ sp = 0 /\ (quiet \/ ~active)

ShouldSendStart(sp) == sp > 0 /\ evConnected /\ ~active
ShouldSendStop(sp) == sp = 0 /\ evConnected /\ active

OutputWatts(sp) == IF sp > 0 THEN sp ELSE StopPreset

\* write_setpoint() gets as far as the request
WriteNeeded(sp) ==
    /\ evConnected \/ OutputWatts(sp) = 0
    /\ Connected
    /\ cache = Unknown \/ cache # RawSetpoint(OutputWatts(sp))

\* From the write to the command, or to the sleep.
AfterWrite(sp) ==
    IF Connected /\ (ShouldSendStart(sp) \/ ShouldSendStop(sp)) THEN "command" ELSE "top"

\* start_charging() forgets the cached setpoint before it sends the command.
ToCommandFrom(sp, raw) ==
    cache' = IF Connected /\ ShouldSendStart(sp) THEN Unknown ELSE raw

Decide ==
    /\ pc = "decide"
    /\ \E sp \in Setpoint :
          /\ commanded' = sp
          /\ quiet' = Suppressed(sp)
          /\ \/ /\ Suppressed(sp)
                /\ pc' = "top"
                /\ UNCHANGED cache
             \/ /\ ~Suppressed(sp) /\ WriteNeeded(sp)
                /\ pc' = "write"
                /\ UNCHANGED cache
             \/ /\ ~Suppressed(sp) /\ ~WriteNeeded(sp)
                /\ pc' = AfterWrite(sp)
                /\ ToCommandFrom(sp, cache)
    /\ onDemandDone' = (onDemandDone /\ quiet')
    /\ UNCHANGED <<settings, link, healthy, evConnected, active, block, loopOrphan, mqtt,
                   charger, disturbed, fresh, resendDue>>

\* The answer to the write; the request may have arrived although no answer did.
FinishWrite ==
    /\ pc = "write"
    /\ \E ok \in Outcomes(loopOrphan) :
          /\ register' \in IF ok THEN {RawSetpoint(OutputWatts(commanded))}
                           ELSE {register, RawSetpoint(OutputWatts(commanded))}
          /\ ToCommandFrom(commanded,
                           IF ok THEN RawSetpoint(OutputWatts(commanded)) ELSE cache)
    /\ pc' = AfterWrite(commanded)
    /\ loopOrphan' = FALSE
    /\ resendDue' = FALSE
    /\ UNCHANGED <<settings, link, healthy, evConnected, active, quiet, commanded, block, mqtt,
                   reachable, plugged, drawing, disturbed, fresh, onDemandDone>>

FinishCommand ==
    /\ pc = "command"
    /\ \E ok \in Outcomes(loopOrphan) :
          drawing' \in IF ok THEN {plugged /\ commanded > 0}
                       ELSE {drawing, plugged /\ commanded > 0}
    /\ pc' = "top"
    /\ loopOrphan' = FALSE
    /\ resendDue' = (commanded > 0)
    /\ UNCHANGED <<settings, link, state, quiet, commanded, block, mqtt, reachable, plugged,
                   register, disturbed, fresh, onDemandDone>>

LoopStep ==
    \/ BeginIteration \/ LoopEnsureConnected \/ LoopConnect \/ LoopSerial
    \/ StartRead \/ ReadBlock \/ FinishRead \/ FailRead \/ Restart
    \/ Decide \/ FinishWrite \/ FinishCommand

-------------------------------------------------------------------------------
\* The MQTT task.  It cannot run between the reads and the write.
MqttRuns == pc # "decide"

\* _handle_command stores a new address, and reconnect() runs as a task of its
\* own after the new value has been published.
StoreAddress ==
    /\ MqttRuns /\ disturbed < MaxDisturbances
    /\ addressChanged' = (client # "none")
    /\ reconnectDue' = TRUE
    /\ disturbed' = disturbed + 1
    /\ UNCHANGED <<settings, client, backoff, failures, state, loop, cmd, override, cmdOrphan,
                   charger, fresh, resendDue, onDemandDone>>

Reconnect ==
    /\ MqttRuns /\ reconnectDue
    /\ reconnectDue' = FALSE
    /\ backoff' = FALSE
    /\ Close(FALSE, FALSE)
    /\ UNCHANGED <<settings, evConnected, active, cache, quiet, commanded, pc, block, cmd,
                   override, charger, history>>

StartCommand ==
    /\ MqttRuns /\ cmd = "idle" /\ disturbed < MaxDisturbances
    /\ disturbed' = disturbed + 1
    /\ override' = (mode = "Standby")
    /\ \E connecting \in BOOLEAN :
          /\ EnsureConnected(FALSE, connecting)
          /\ cmd' = IF connecting THEN "connect"
                    ELSE IF client' = "up" THEN "write" ELSE "idle"
    /\ onDemandDone' = (override' /\ quiet /\ cmd' = "idle")
    /\ UNCHANGED <<settings, evConnected, active, cache, quiet, commanded, pc, block, reconnectDue,
                   charger,
                   fresh, resendDue>>

CommandConnect ==
    /\ MqttRuns /\ cmd = "connect"
    /\ ~loopOrphan    \* the answers of a closed client come before a new connection
    /\ \E ok \in BOOLEAN :
          /\ Connect(ok, cmdOrphan)
          /\ cmd' = IF client' # "up" THEN "idle" ELSE IF ok THEN "serial" ELSE "write"
    /\ cmdOrphan' = FALSE
    /\ onDemandDone' = (override /\ quiet /\ cmd' = "idle")
    /\ UNCHANGED <<settings, state, loop, override, reconnectDue, charger,
                   disturbed, fresh, resendDue>>

\* Without a connection the command is dropped, and nothing is closed.
CommandSerial ==
    /\ MqttRuns /\ cmd = "serial"
    /\ cmd' = IF Connected THEN "write" ELSE "idle"
    /\ cmdOrphan' = FALSE
    /\ onDemandDone' = (override /\ quiet /\ cmd' = "idle")
    /\ UNCHANGED <<settings, link, state, loop, override, reconnectDue, charger,
                   disturbed, fresh, resendDue>>

\* `finally: if standby_override: disconnect()`
EndCommand ==
    /\ cmd' = "idle"
    /\ onDemandDone' = (override /\ quiet)
    /\ IF override
       THEN Close(FALSE, TRUE) /\ UNCHANGED backoff
       ELSE cmdOrphan' = FALSE /\ UNCHANGED <<link, healthy, loopOrphan>>

CommandWrite ==
    /\ MqttRuns /\ cmd = "write"
    /\ \/ /\ TRUE \in Outcomes(cmdOrphan) /\ Connected
          /\ cmd' = "confirm"
          /\ cmdOrphan' = FALSE
          /\ UNCHANGED <<link, healthy, loopOrphan, onDemandDone>>
       \/ /\ FALSE \in Outcomes(cmdOrphan) \/ ~Connected
          /\ EndCommand
    /\ UNCHANGED <<settings, evConnected, active, cache, quiet, commanded, pc, block, override,
                   reconnectDue,
                   charger, disturbed, fresh, resendDue>>

CommandConfirm ==
    /\ MqttRuns /\ cmd = "confirm"
    /\ EndCommand
    /\ UNCHANGED <<settings, evConnected, active, cache, quiet, commanded, pc, block, override,
                   reconnectDue,
                   charger, disturbed, fresh, resendDue>>

MqttStep ==
    Reconnect \/ CommandConnect \/ CommandSerial \/ CommandWrite \/ CommandConfirm

SetChargeMode(m) ==
    /\ MqttRuns /\ m # mode /\ mode' = m
    /\ UNCHANGED <<wanted, link, state, loop, mqtt, charger, history>>

-------------------------------------------------------------------------------
\* The sun, the charger, its vehicle and pymodbus.
ChangeDemand(w) ==
    /\ MqttRuns /\ disturbed < MaxDisturbances
    /\ w # wanted /\ wanted' = w
    /\ disturbed' = disturbed + 1
    /\ UNCHANGED <<mode, link, state, loop, mqtt, charger, fresh, resendDue, onDemandDone>>

Outage ==
    /\ reachable /\ disturbed < MaxDisturbances
    /\ reachable' = FALSE /\ disturbed' = disturbed + 1
    /\ UNCHANGED <<settings, link, state, loop, mqtt, plugged, drawing, register, fresh,
                   resendDue, onDemandDone>>

OutageEnds ==
    /\ ~reachable
    /\ reachable' = TRUE
    /\ UNCHANGED <<settings, link, state, loop, mqtt, plugged, drawing, register, history>>

LoseConnection ==
    /\ ~reachable /\ Connected /\ MqttRuns
    /\ client' = "lost"
    /\ UNCHANGED <<settings, addressChanged, backoff, failures, state, loop, mqtt, charger,
                   history>>

BackgroundReconnect ==
    /\ reachable /\ client = "lost" /\ MqttRuns
    /\ client' = "up"
    /\ UNCHANGED <<settings, addressChanged, backoff, failures, state, loop, mqtt, charger,
                   history>>

RetryDue ==
    /\ backoff /\ backoff' = FALSE
    /\ UNCHANGED <<settings, addressChanged, client, failures, state, loop, mqtt, charger,
                   history>>

\* Somebody sets the power limit at the charger, or it forgets it.
ForeignWrite(raw) ==
    /\ disturbed < MaxDisturbances /\ raw # register
    /\ register' = raw /\ disturbed' = disturbed + 1
    /\ UNCHANGED <<settings, link, state, loop, mqtt, reachable, plugged, drawing, fresh,
                   resendDue, onDemandDone>>

PlugOrUnplug ==
    /\ disturbed < MaxDisturbances
    /\ plugged' = ~plugged /\ drawing' = FALSE
    /\ disturbed' = disturbed + 1
    /\ UNCHANGED <<settings, link, state, loop, mqtt, reachable, register, fresh, resendDue,
                   onDemandDone>>

Environment ==
    \/ StoreAddress \/ StartCommand
    \/ \E m \in Modes : SetChargeMode(m)
    \/ \E w \in Demands : ChangeDemand(w)
    \/ Outage \/ OutageEnds \/ LoseConnection \/ BackgroundReconnect \/ RetryDue
    \/ \E raw \in {RawSetpoint(w) : w \in Demands} : ForeignWrite(raw)
    \/ PlugOrUnplug

Next == LoopStep \/ MqttStep \/ Environment

\* Requests end (they time out), the retry delay passes, pymodbus reconnects.
Spec ==
    /\ Init /\ [][Next]_vars
    /\ WF_vars(LoopStep) /\ WF_vars(MqttStep) /\ WF_vars(RetryDue)

-------------------------------------------------------------------------------
EvTypeOK ==
    /\ mode \in Modes /\ wanted \in Demands /\ addressChanged \in BOOLEAN
    /\ client \in {"none", "new", "up", "lost"} /\ backoff \in BOOLEAN
    /\ failures \in 0 .. MaxReadFailures - 1
    /\ healthy \in BOOLEAN /\ evConnected \in BOOLEAN /\ active \in BOOLEAN
    /\ cache \in Nat \cup {Unknown} /\ register \in Nat
    /\ quiet \in BOOLEAN /\ commanded \in Demands
    /\ pc \in {"top", "victron1", "connect", "serial", "victron2", "read", "decide",
               "write", "command", "crashed"}
    /\ block \in DOMAIN Blocks
    /\ cmd \in {"idle", "connect", "serial", "write", "confirm"}
    /\ override \in BOOLEAN /\ reconnectDue \in BOOLEAN
    /\ loopOrphan \in BOOLEAN /\ cmdOrphan \in BOOLEAN
    /\ reachable \in BOOLEAN /\ plugged \in BOOLEAN /\ drawing \in BOOLEAN

\* The blocks that come before number k.
ReadBefore(k) == {Blocks[i] : i \in 1 .. k - 1}

\* A decision that trusts the charger (ev_comm_healthy) outside suppression
\* rests on fields that were all read in this iteration, whoever closed or
\* reopened the client meanwhile.
TrustedReadsAreWhole ==
    pc = "decide" /\ healthy /\ ~quiet => fresh = ReadBefore(Len(Blocks) + 1)

\* Nobody meddles any more, the charger answers and a vehicle waits for w watts.
Calm(w) == reachable /\ plugged /\ mode # "Standby" /\ wanted = w /\ cmd = "idle"

\* However the cached setpoint and the charger's register came apart (a lost
\* answer, a foreign write, a new address, a restart), a steady demand reaches
\* the register and stays there.
SetpointReachesCharger ==
    \A w \in Demands \ {0} : <>[]Calm(w) => <>[](register = RawSetpoint(w))

\* Once the charger answers for good, the client connects, reads whole again
\* and stays healthy: no failure count, back-off or address leaves it cut off.
CommunicationRecovers ==
    <>[](reachable /\ mode # "Standby") => <>[](healthy /\ Connected)

\* app/state/models.py:11: "Single-threaded asyncio - no locking needed".  The
\* control loop never dies of what the other task does.
LoopNeverCrashes == pc # "crashed"

\* ev.py:357-359: start_charging "clears the cached setpoint so the next
\* write_setpoint call will unconditionally re-send the value".
StartResendsSetpoint ==
    [][pc = "decide" /\ resendDue /\ commanded' > 0 /\ Connected /\ evConnected
         => pc' = "write"]_vars

\* ev.py:169-171 and constants.py:6: the preset written before a stop command
\* is 4.2 kW.
StopPresetIsWritten ==
    [][pc = "write" /\ commanded = 0 /\ register' # register => register' = 42]_vars

\* ev.py:412-415: an on-demand command in Standby leaves no session open.
OnDemandLeavesNoSession ==
    quiet /\ mode = "Standby" /\ onDemandDone /\ cmd = "idle" => ~Connected

===============================================================================
