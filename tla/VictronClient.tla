------------------------------ MODULE VictronClient ----------------------------
(***************************************************************************)
(* VictronModbusClient (app/modbus/victron.py) under the control loop,     *)
(* which connects and reads once in every iteration and then decides, and  *)
(* the MQTT task, which may change the address and close the client at     *)
(* any await.  Readings are kept by their age: of this iteration ("new"),  *)
(* of an earlier one ("old"), or not there (None in the code).             *)
(*                                                                         *)
(*   top       start of an iteration                                       *)
(*   connect   awaiting client.connect()                                   *)
(*   evconnect awaiting the EV connection                                  *)
(*   request   awaiting register block `block`: grid, battery, phases      *)
(*   evread    awaiting the EV read                                        *)
(*   decide    from there to the writes nothing runs in between            *)
(*   crashed   an exception that read() does not catch                     *)
(*                                                                         *)
(* pymodbus (external) answers while the device can be reached, fails      *)
(* otherwise or when the client was closed meanwhile, and reopens a        *)
(* connection that was lost, in the background.                            *)
(***************************************************************************)
EXTENDS Naturals

CONSTANTS
    Phases,           \* the phases of the grid
    Addresses,        \* addresses of Victron devices
    NoAddress,        \* victron_ip is empty
    MaxDisturbances   \* bound: address changes, outages, error responses

ASSUME VictronAssumption == NoAddress \notin Addresses /\ MaxDisturbances \in Nat

VARIABLES
    pc, block,
    address,       \* AppState.victron_ip and victron_port
    connectedTo,   \* _connected_ip and _connected_port
    target,        \* the address being connected to
    client,        \* _client: "none", "up" or "lost"
    backoff,       \* monotonic() < _reconnect_after
    currents,      \* AppState.victron_l<n>_current_a
    power,         \* AppState.grid_power_w, solar_battery_power_w, solar_battery_soc_pct
    reconnectDue,  \* reconnect() has been scheduled and has not run
    reachable,     \* the addresses at which a device answers
    behind,        \* pymodbus has reopened the connection since the last read began
    disturbances

loop == <<pc, block, target>>
readings == <<currents, power>>
environment == <<address, reconnectDue, reachable, behind, disturbances>>
vars == <<loop, connectedTo, client, backoff, readings, environment>>

Init ==
    /\ pc = "top" /\ block = 1 /\ target = NoAddress
    /\ address \in Addresses \cup {NoAddress} /\ connectedTo = NoAddress
    /\ client = "none" /\ backoff = FALSE
    /\ currents = [p \in Phases |-> "none"] /\ power = "none"
    /\ reconnectDue = FALSE /\ reachable = Addresses /\ behind = FALSE /\ disturbances = 0

-------------------------------------------------------------------------------
ConfigChanged == address # connectedTo

Older(reading) == IF reading = "new" THEN "old" ELSE reading

\* What was read is old when an iteration begins.
NextIteration ==
    /\ pc = "top"
    /\ currents' = [p \in Phases |-> Older(currents[p])]
    /\ power' = Older(power)

\* Mutant of EnsureConnected: a connection that is up is kept, whatever the address.
EnsureConnectedOnce ==
    /\ NextIteration
    /\ UNCHANGED client
    /\ IF client = "up" \/ address = NoAddress \/ backoff
       THEN pc' = "evconnect" /\ UNCHANGED target
       ELSE pc' = "connect" /\ target' = address
    /\ UNCHANGED <<block, connectedTo, backoff, environment>>

\* ensure_connected(), as far as the attempt to connect.
EnsureConnected ==
    /\ NextIteration
    /\ client' = IF ConfigChanged THEN "none" ELSE client
    /\ IF (client = "up" /\ ~ConfigChanged) \/ address = NoAddress \/ backoff
       THEN pc' = "evconnect" /\ UNCHANGED target
       ELSE pc' = "connect" /\ target' = address
    /\ UNCHANGED <<block, connectedTo, backoff, environment>>

\* A new client takes the place of the old one only if it has connected.
ConnectEnds ==
    /\ pc = "connect"
    /\ pc' = "evconnect"
    /\ IF target \in reachable
       THEN client' = "up" /\ connectedTo' = target /\ UNCHANGED backoff
       ELSE backoff' = TRUE /\ UNCHANGED <<client, connectedTo>>
    /\ UNCHANGED <<block, target, readings, environment>>

NoCurrents == [p \in Phases |-> "none"]

\* read(): nothing is read without a connection, and FR-14 clears the currents.
BeginRead ==
    /\ pc = "evconnect"
    /\ behind' = FALSE
    /\ IF client = "up"
       THEN pc' = "request" /\ block' = 1 /\ UNCHANGED currents
       ELSE pc' = "evread" /\ currents' = NoCurrents /\ UNCHANGED block
    /\ UNCHANGED <<target, connectedTo, client, backoff, power, address, reconnectDue, reachable,
                   disturbances>>

\* The grid and battery readings are assigned together after the second block.
\* A client that was closed meanwhile is dereferenced for the next block.
AnswerPower ==
    /\ pc = "request" /\ block < 3
    /\ power' = IF block = 2 THEN "new" ELSE power
    /\ IF client = "none" THEN pc' = "crashed" /\ UNCHANGED block
                          ELSE block' = block + 1 /\ UNCHANGED pc
    /\ UNCHANGED <<target, connectedTo, client, backoff, currents, environment>>

\* FR-15: a current beyond twice the breaker rating counts as missing.
AnswerPhases ==
    /\ pc = "request" /\ block = 3
    /\ currents' \in [Phases -> {"new", "none"}]
    /\ pc' = "evread"
    /\ UNCHANGED <<block, target, connectedTo, client, backoff, power, environment>>

\* The answer may have been there before the client was closed or lost.
Answer == client # "up" \/ connectedTo \in reachable

\* Mutant of ReadFails: only a failed phase block clears the currents.
ReadFailsInPart ==
    /\ pc = "request"
    /\ currents' = IF block = 3 THEN NoCurrents ELSE currents
    /\ client' = "none" /\ pc' = "evread"
    /\ UNCHANGED <<block, target, connectedTo, backoff, power, address, reconnectDue, reachable,
                   behind>>

\* Mutant of ReadFails: the connection is kept.
ReadFailsKeeping ==
    /\ pc = "request"
    /\ currents' = NoCurrents /\ pc' = "evread"
    /\ UNCHANGED <<block, target, connectedTo, client, backoff, power, address, reconnectDue,
                   reachable, behind>>

\* ModbusException or OSError
ReadFails ==
    /\ pc = "request"
    /\ currents' = NoCurrents
    /\ client' = "none" /\ pc' = "evread"
    /\ UNCHANGED <<block, target, connectedTo, backoff, power, address, reconnectDue, reachable,
                   behind>>

Disturb == disturbances < MaxDisturbances /\ disturbances' = disturbances + 1

ReadEnds ==
    \/ Answer /\ (AnswerPower \/ AnswerPhases)
    \/ (client # "up" \/ connectedTo \notin reachable) /\ ReadFails /\ UNCHANGED disturbances
    \/ client = "up" /\ connectedTo \in reachable /\ Disturb /\ ReadFails    \* error response

Proceed(from, to) ==
    /\ pc = from /\ pc' = to
    /\ UNCHANGED <<block, target, connectedTo, client, backoff, readings, environment>>

\* _supervised restarts a loop that has crashed.
LoopStep ==
    \/ EnsureConnected \/ ConnectEnds \/ BeginRead \/ ReadEnds
    \/ Proceed("evread", "decide") \/ Proceed("decide", "top") \/ Proceed("crashed", "top")

-------------------------------------------------------------------------------
\* reconnect(), run by the MQTT task after a change of address.
Reconnect ==
    /\ reconnectDue
    /\ reconnectDue' = FALSE
    /\ client' = "none" /\ backoff' = FALSE
    /\ UNCHANGED <<loop, connectedTo, readings, address, reachable, behind, disturbances>>

SetAddress(a) ==
    /\ a # address /\ Disturb
    /\ address' = a /\ reconnectDue' = TRUE
    /\ UNCHANGED <<loop, connectedTo, client, backoff, readings, reachable, behind>>

BackoffEnds ==
    /\ backoff
    /\ backoff' = FALSE
    /\ UNCHANGED <<loop, connectedTo, client, readings, environment>>

\* A device (external) that goes away may take its connection with it.
DeviceFails(a) ==
    /\ a \in reachable /\ Disturb
    /\ reachable' = reachable \ {a}
    /\ client' \in IF client = "up" /\ connectedTo = a THEN {"up", "lost"} ELSE {client}
    /\ UNCHANGED <<loop, connectedTo, backoff, readings, address, reconnectDue, behind>>

DeviceReturns(a) ==
    /\ a \notin reachable
    /\ reachable' = reachable \cup {a}
    /\ UNCHANGED <<loop, connectedTo, client, backoff, readings, address, reconnectDue, behind,
                   disturbances>>

ReopenInBackground ==
    /\ client = "lost" /\ connectedTo \in reachable
    /\ client' = "up" /\ behind' = TRUE
    /\ UNCHANGED <<loop, connectedTo, backoff, readings, address, reconnectDue, reachable,
                   disturbances>>

Next ==
    \/ LoopStep
    \/ Reconnect \/ BackoffEnds \/ ReopenInBackground
    \/ \E a \in Addresses \cup {NoAddress} : SetAddress(a)
    \/ \E a \in Addresses : DeviceFails(a) \/ DeviceReturns(a)

\* Every await of the loop ends, delays pass, scheduled coroutines run.
Spec ==
    /\ Init /\ [][Next]_vars
    /\ WF_vars(LoopStep) /\ WF_vars(Reconnect) /\ WF_vars(BackoffEnds)

-------------------------------------------------------------------------------
VictronTypeOK ==
    /\ pc \in {"top", "connect", "evconnect", "request", "evread", "decide", "crashed"}
    /\ block \in 1 .. 3
    /\ address \in Addresses \cup {NoAddress} /\ connectedTo \in Addresses \cup {NoAddress}
    /\ target \in Addresses \cup {NoAddress}
    /\ client \in {"none", "up", "lost"} /\ backoff \in BOOLEAN
    /\ currents \in [Phases -> {"none", "new", "old"}] /\ power \in {"none", "new", "old"}
    /\ reconnectDue \in BOOLEAN /\ reachable \subseteq Addresses
    /\ behind \in BOOLEAN /\ disturbances \in Nat

\* FR-14 (docs/grid-power-scaling.md:112): a decision about the breaker never
\* uses a phase current of an earlier iteration, whichever request failed and
\* whoever closed the client.
CurrentsAreNew == pc = "decide" => \A p \in Phases : currents[p] # "old"

\* Eco takes a Victron that is connected for one whose power readings are new
\* (mode_strategies.py:286): a failed read closes the client.  The exception is a
\* connection that pymodbus has reopened since the read.
ConnectedMeansRead == pc = "decide" /\ client = "up" /\ ~behind => power = "new"

\* While a device can be reached at the address the user has set last, decisions
\* are taken on new readings of that device again and again.
ReadingsReturn ==
    \A a \in Addresses :
       <>[](address = a /\ a \in reachable)
         => []<>(pc = "decide" /\ power = "new" /\ connectedTo = a)

\* mode_strategies.py:93: Eco pauses while "Victron comms" are down; the reading
\* it charges by is then a new one.
EcoDecidesOnNewPower == pc = "decide" /\ client = "up" => power = "new"

===============================================================================
