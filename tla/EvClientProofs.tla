----------------------------- MODULE EvClientProofs ----------------------------
(***************************************************************************)
(* Reads that are trusted are whole, and everything keeps to its type: for *)
(* any list of register blocks and any number of outages, commands,        *)
(* reconnects and address changes.                                         *)
(***************************************************************************)
EXTENDS EvClient, TLAPS

\* How far the reads of this iteration have got, at each place it can be in.
ReadInv ==
    /\ pc \in {"victron1", "connect", "serial", "victron2"} => fresh = {}
    /\ pc = "read" => block \in 1 .. Len(Blocks) /\ fresh = ReadBefore(block)
    /\ TrustedReadsAreWhole

\* Nobody but the control loop moves the control loop, and nobody but it turns
\* ev_comm_healthy on.
LEMMA OthersKeepOut ==
    ASSUME MqttStep \/ Environment
    PROVE  UNCHANGED <<pc, block, fresh, quiet>> /\ (healthy' = healthy \/ healthy' = FALSE)
<1>1. CASE MqttStep
  <2>1. CASE Reconnect
        BY <2>1 DEF Reconnect, Close, history
  <2>2. CASE CommandConnect \/ CommandSerial
        BY <2>2 DEF CommandConnect, CommandSerial, state, loop
  <2>3. CASE CommandWrite
        BY <2>3 DEF CommandWrite, EndCommand, Close
  <2>4. CASE CommandConfirm
        BY <2>4 DEF CommandConfirm, EndCommand, Close
  <2>5. QED
        BY <1>1, <2>1, <2>2, <2>3, <2>4 DEF MqttStep
<1>2. CASE Environment
  <2>1. CASE StoreAddress
        BY <2>1 DEF StoreAddress, state, loop
  <2>2. CASE StartCommand
        BY <2>2 DEF StartCommand, EnsureConnected
  <2>3. CASE \E m \in Modes : SetChargeMode(m)
        BY <2>3 DEF SetChargeMode, state, loop, history
  <2>4. CASE \E w \in Demands : ChangeDemand(w)
        BY <2>4 DEF ChangeDemand, state, loop
  <2>5. CASE Outage
        BY <2>5 DEF Outage, state, loop
  <2>6. CASE OutageEnds \/ LoseConnection \/ BackgroundReconnect \/ RetryDue
        BY <2>6 DEF OutageEnds, LoseConnection, BackgroundReconnect, RetryDue, state, loop,
                    history
  <2>7. CASE \E raw \in {RawSetpoint(w) : w \in Demands} : ForeignWrite(raw)
        BY <2>7 DEF ForeignWrite, state, loop
  <2>8. CASE PlugOrUnplug
        BY <2>8 DEF PlugOrUnplug, state, loop
  <2>9. QED
        BY <1>2, <2>1, <2>2, <2>3, <2>4, <2>5, <2>6, <2>7, <2>8 DEF Environment
<1>3. QED
      BY <1>1, <1>2

\* Before the first read nothing is trusted.
LEMMA InitReads == Init => ReadInv
BY DEF Init, ReadInv, TrustedReadsAreWhole

\* One more block has been read.
LEMMA OneMoreBlock ==
    ASSUME NEW k \in 1 .. Len(Blocks)
    PROVE  ReadBefore(k) \cup {Blocks[k]} = ReadBefore(k + 1)
<1>1. 1 .. (k + 1) - 1 = (1 .. k - 1) \cup {k}
      BY BlocksAssumption
<1>2. QED
      BY <1>1, Zenon DEF ReadBefore

\* A step of the loop that reads keeps count of the blocks, and trusts only all of them.
LEMMA LoopReads ==
    ASSUME ReadInv, LoopStep
    PROVE  ReadInv'
<1> USE DEF ReadInv, TrustedReadsAreWhole
<1>1. CASE BeginIteration
      BY <1>1 DEF BeginIteration
<1>2. CASE LoopEnsureConnected
      BY <1>2 DEF LoopEnsureConnected, history
<1>3. CASE LoopConnect
      BY <1>3 DEF LoopConnect, history
<1>4. CASE LoopSerial
      BY <1>4 DEF LoopSerial, history
<1>5. CASE StartRead
  <2>1. ReadBefore(1) = {}
        BY DEF ReadBefore
  <2>2. fresh' = {}
        BY <1>5 DEF StartRead, history
  <2>3. \/ pc' = "read" /\ block' = 1
        \/ pc' = "decide" /\ (quiet' \/ ~healthy')
    <3>1. CASE quiet
          BY <1>5, <3>1 DEF StartRead
    <3>2. CASE ~quiet /\ ~Connected
          BY <1>5, <3>2 DEF StartRead
    <3>3. CASE ~quiet /\ Connected
          BY <1>5, <3>3 DEF StartRead
    <3>4. QED
          BY <3>1, <3>2, <3>3
  <2>4. 1 \in 1 .. Len(Blocks)
        BY BlocksAssumption
  <2>5. QED
        BY <2>1, <2>2, <2>3, <2>4 DEF ReadBefore
<1>6. CASE ReadBlock
  <2>1. block \in 1 .. Len(Blocks) /\ block < Len(Blocks) /\ fresh = ReadBefore(block)
        BY <1>6 DEF ReadBlock
  <2>2. fresh' = ReadBefore(block + 1)
        BY <1>6, <2>1, OneMoreBlock DEF ReadBlock, Assign
  <2>3. pc' = "crashed" \/ (pc' = "read" /\ block' = block + 1)
        BY <1>6 DEF ReadBlock
  <2>4. block + 1 \in 1 .. Len(Blocks)
        BY <2>1, BlocksAssumption
  <2>5. QED
        BY <2>2, <2>3, <2>4 DEF ReadBefore
<1>7. CASE FinishRead
  <2>1. fresh = ReadBefore(block) /\ block = Len(Blocks) /\ block \in 1 .. Len(Blocks)
        BY <1>7 DEF FinishRead
  <2>2. fresh' = ReadBefore(Len(Blocks) + 1)
        BY <1>7, <2>1, OneMoreBlock DEF FinishRead, Assign
  <2>3. pc' = "decide"
        BY <1>7 DEF FinishRead
  <2>4. QED
        BY <2>2, <2>3 DEF ReadBefore
<1>8. CASE FailRead
      BY <1>8 DEF FailRead, Close
<1>9. CASE Restart
      BY <1>9 DEF Restart
<1>10. CASE Decide
      BY <1>10 DEF Decide, AfterWrite
<1>11. CASE FinishWrite
      BY <1>11 DEF FinishWrite, AfterWrite
<1>12. CASE FinishCommand
      BY <1>12 DEF FinishCommand
<1>13. QED
      BY <1>1, <1>2, <1>3, <1>4, <1>5, <1>6, <1>7, <1>8, <1>9, <1>10, <1>11, <1>12
      DEF LoopStep

\* Every step keeps ReadInv: the loop's by LoopReads, the others' by OthersKeepOut.
LEMMA StepReads ==
    ASSUME ReadInv, [Next]_vars
    PROVE  ReadInv'
<1>1. CASE UNCHANGED vars
      BY <1>1 DEF ReadInv, TrustedReadsAreWhole, ReadBefore, vars, loop, state, history
<1>2. CASE LoopStep
      BY <1>2, LoopReads
<1>3. CASE MqttStep \/ Environment
  <2>1. UNCHANGED <<pc, block, fresh, quiet>> /\ (healthy' = healthy \/ healthy' = FALSE)
        BY <1>3, OthersKeepOut
  <2>2. CASE healthy' = healthy
        BY <2>1, <2>2 DEF ReadInv, TrustedReadsAreWhole, ReadBefore
  <2>3. CASE healthy' = FALSE
        BY <2>1, <2>3 DEF ReadInv, TrustedReadsAreWhole, ReadBefore
  <2>4. QED
        BY <2>1, <2>2, <2>3
<1>4. QED
      BY <1>1, <1>2, <1>3 DEF Next

\* ev.py read() and _read_registers(): whatever another task does to the client
\* between two blocks, a decision that trusts the charger has all of them.
THEOREM TrustedReads == Spec => []TrustedReadsAreWhole
<1>1. ReadInv => TrustedReadsAreWhole
      BY DEF ReadInv
<1>2. QED
      BY <1>1, InitReads, StepReads, PTL DEF Spec

-------------------------------------------------------------------------------
\* EvTypeOK in two halves, of the client and of the tasks that use it.
ClientTypes ==
    /\ mode \in Modes /\ wanted \in Demands /\ addressChanged \in BOOLEAN
    /\ client \in {"none", "new", "up", "lost"} /\ backoff \in BOOLEAN
    /\ failures \in 0 .. MaxReadFailures - 1
    /\ healthy \in BOOLEAN /\ evConnected \in BOOLEAN /\ active \in BOOLEAN
    /\ cache \in Nat \cup {Unknown} /\ register \in Nat
    /\ quiet \in BOOLEAN /\ commanded \in Demands

TaskTypes ==
    /\ pc \in {"top", "victron1", "connect", "serial", "victron2", "read", "decide",
               "write", "command", "crashed"}
    /\ block \in DOMAIN Blocks
    /\ cmd \in {"idle", "connect", "serial", "write", "confirm"}
    /\ override \in BOOLEAN /\ reconnectDue \in BOOLEAN
    /\ loopOrphan \in BOOLEAN /\ cmdOrphan \in BOOLEAN
    /\ reachable \in BOOLEAN /\ plugged \in BOOLEAN /\ drawing \in BOOLEAN

\* The halves make the whole.
LEMMA Halves == EvTypeOK <=> ClientTypes /\ TaskTypes
BY Zenon DEF EvTypeOK, ClientTypes, TaskTypes

\* A demand in watts, or the preset, is a natural number in register units.
LEMMA RawType == ASSUME NEW w \in Nat PROVE RawSetpoint(w) \in Nat
<1> DEFINE q == w \div 100
<1>1. q \in Nat
      OBVIOUS
<1>2. RoundToRaw(w) \in {q, q + 1}
      BY Zenon DEF RoundToRaw
<1> QED
  BY <1>1, <1>2 DEF RawSetpoint, RawSetpointMin

\* Closing a client keeps the types, whoever does it.
LEMMA CloseType ==
    ASSUME NEW byLoop \in BOOLEAN, NEW byCmd \in BOOLEAN, Close(byLoop, byCmd)
    PROVE  /\ client' = "none" /\ addressChanged' = FALSE /\ healthy' = FALSE
           /\ failures' \in 0 .. MaxReadFailures - 1
           /\ loopOrphan' \in BOOLEAN /\ cmdOrphan' \in BOOLEAN
<1>1. /\ client' = "none" /\ addressChanged' = FALSE /\ healthy' = FALSE
      /\ failures' \in 0 .. MaxReadFailures - 1
  BY DEF Close, MaxReadFailures
<1>2. loopOrphan' \in BOOLEAN
  BY Zenon DEF Close
<1>3. cmdOrphan' \in BOOLEAN
  BY Zenon DEF Close
<1> QED
  BY <1>1, <1>2, <1>3

\* Connecting, or trying to, keeps the types.
LEMMA EnsureType ==
    ASSUME EvTypeOK, NEW byLoop \in BOOLEAN, NEW connecting \in BOOLEAN,
           EnsureConnected(byLoop, connecting)
    PROVE  /\ client' \in {"none", "new", "up", "lost"} /\ addressChanged' \in BOOLEAN
           /\ failures' \in 0 .. MaxReadFailures - 1 /\ healthy' \in BOOLEAN
           /\ backoff' = backoff
           /\ loopOrphan' \in BOOLEAN /\ cmdOrphan' \in BOOLEAN
<1>1. /\ client' \in {"none", "new", "up", "lost"} /\ addressChanged' \in BOOLEAN
      /\ healthy' \in BOOLEAN /\ backoff' = backoff
  BY DEF EnsureConnected, EvTypeOK, link
<1>4. failures' \in 0 .. MaxReadFailures - 1
  <2>1. failures' = failures \/ failures' = 0
    BY DEF EnsureConnected, link
  <2> QED
    BY <2>1 DEF EvTypeOK, MaxReadFailures
<1>2. loopOrphan' \in BOOLEAN
  BY Zenon DEF EnsureConnected, EvTypeOK
<1>3. cmdOrphan' \in BOOLEAN
  BY Zenon DEF EnsureConnected, EvTypeOK
<1> QED
  BY <1>1, <1>2, <1>3, <1>4

\* A block that arrives is stored with its type.
LEMMA AssignType ==
    ASSUME EvTypeOK, NEW name, Assign(name)
    PROVE  active' \in BOOLEAN /\ evConnected' \in BOOLEAN /\ cache' \in Nat \cup {Unknown}
BY DEF EvTypeOK, Assign

\* What the reads lead to is a demand, and its register value a natural number.
LEMMA SetpointType ==
    ASSUME EvTypeOK
    PROVE  /\ Setpoint \subseteq Demands
           /\ \A sp \in Demands : RawSetpoint(OutputWatts(sp)) \in Nat
<1>1. Setpoint \subseteq Demands
  BY EvAssumption DEF EvTypeOK, Setpoint
<1>2. ASSUME NEW sp \in Demands
      PROVE  RawSetpoint(OutputWatts(sp)) \in Nat
  <2>1. OutputWatts(sp) \in Nat
    BY EvAssumption DEF OutputWatts, StopPreset
  <2> QED
    BY <2>1, RawType
<1> QED
  BY <1>1, <1>2

\* The loop's steps keep the types of the client and its readings.
LEMMA LoopClientType ==
    ASSUME EvTypeOK, LoopStep
    PROVE  ClientTypes'
<1> USE DEF settings, link, state, loop, mqtt, charger, history, ClientTypes
<1>1. CASE BeginIteration
  <2>1. CASE quiet /\ mode # "Standby"
    <3>1. Close(TRUE, FALSE)
      BY <1>1, <2>1 DEF BeginIteration
    <3> QED
      BY <1>1, <2>1, <3>1, CloseType DEF BeginIteration, EvTypeOK
  <2>2. CASE ~(quiet /\ mode # "Standby")
    BY <1>1, <2>2 DEF BeginIteration, EvTypeOK
  <2> QED
    BY <2>1, <2>2
<1>2. CASE LoopEnsureConnected
  <2>1. CASE quiet /\ pc' = "victron2" /\ UNCHANGED <<link, healthy, loopOrphan, cmdOrphan>>
    BY <1>2, <2>1 DEF LoopEnsureConnected, EvTypeOK
  <2>2. ASSUME NEW connecting \in BOOLEAN, EnsureConnected(TRUE, connecting),
               pc' = IF connecting THEN "connect" ELSE "victron2"
        PROVE  ClientTypes'
    BY <1>2, <2>2, EnsureType DEF LoopEnsureConnected, EvTypeOK
  <2> QED
    BY <1>2, <2>1, <2>2, Zenon DEF LoopEnsureConnected
<1>3. CASE LoopConnect
  BY <1>3 DEF LoopConnect, Connect, EvTypeOK
<1>4. CASE LoopSerial
  BY <1>4 DEF LoopSerial, EvTypeOK
<1>5. CASE StartRead
  BY <1>5, BlocksAssumption DEF StartRead, EvTypeOK
<1>6. CASE ReadBlock
  <2>1. block + 1 \in DOMAIN Blocks
    BY <1>6, BlocksAssumption DEF ReadBlock, EvTypeOK
  <2> QED
    BY <1>6, <2>1, AssignType DEF ReadBlock, EvTypeOK
<1>7. CASE FinishRead
  BY <1>7, AssignType DEF FinishRead, EvTypeOK, MaxReadFailures
<1>8. CASE FailRead
  <2>1. CASE failures + 1 >= MaxReadFailures
    <3>1. Close(TRUE, FALSE) /\ UNCHANGED backoff
      BY <1>8, <2>1 DEF FailRead
    <3> QED
      BY <1>8, <3>1, CloseType DEF FailRead, EvTypeOK
  <2>2. CASE ~(failures + 1 >= MaxReadFailures)
    <3>1. failures' \in 0 .. MaxReadFailures - 1
      BY <1>8, <2>2 DEF FailRead, EvTypeOK, MaxReadFailures
    <3> QED
      BY <1>8, <2>2, <3>1 DEF FailRead, EvTypeOK
  <2> QED
    BY <2>1, <2>2
<1>9. CASE Restart
  BY <1>9 DEF Restart, EvTypeOK
<1>10. CASE Decide
  <2>1. PICK sp \in Setpoint :
          /\ commanded' = sp /\ quiet' = Suppressed(sp)
          /\ pc' \in {"top", "write", "command"}
          /\ cache' \in {cache, Unknown}
    BY <1>10 DEF Decide, AfterWrite, ToCommandFrom
  <2>2. quiet' \in BOOLEAN
    BY <2>1, Zenon DEF Suppressed
  <2> QED
    BY <1>10, <2>1, <2>2, SetpointType DEF Decide, EvTypeOK
<1>11. CASE FinishWrite
  <2>1. RawSetpoint(OutputWatts(commanded)) \in Nat
    BY SetpointType DEF EvTypeOK
  <2>2. /\ register' \in {register, RawSetpoint(OutputWatts(commanded))}
        /\ cache' \in {cache, Unknown, RawSetpoint(OutputWatts(commanded))}
        /\ pc' \in {"top", "command"}
    BY <1>11 DEF FinishWrite, AfterWrite, ToCommandFrom
  <2> QED
    BY <1>11, <2>1, <2>2 DEF FinishWrite, EvTypeOK
<1>12. CASE FinishCommand
  BY <1>12 DEF FinishCommand, EvTypeOK
<1> QED
  BY <1>1, <1>2, <1>3, <1>4, <1>5, <1>6, <1>7, <1>8, <1>9, <1>10, <1>11, <1>12 DEF LoopStep

\* So does the place the loop is at, and whom it leaves waiting.
LEMMA LoopTaskType ==
    ASSUME EvTypeOK, LoopStep
    PROVE  TaskTypes'
<1> USE DEF settings, link, state, loop, mqtt, charger, history, TaskTypes
<1>1. CASE BeginIteration
  BY <1>1, CloseType DEF BeginIteration, EvTypeOK
<1>2. CASE LoopEnsureConnected
  <2>1. ASSUME NEW connecting \in BOOLEAN, EnsureConnected(TRUE, connecting)
        PROVE  loopOrphan' \in BOOLEAN /\ cmdOrphan' \in BOOLEAN
    BY <2>1, EnsureType
  <2>2. loopOrphan' \in BOOLEAN /\ cmdOrphan' \in BOOLEAN
    BY <1>2, <2>1, Zenon DEF LoopEnsureConnected, EvTypeOK
  <2>3. pc' \in {"connect", "victron2"}
    BY <1>2 DEF LoopEnsureConnected
  <2> QED
    BY <1>2, <2>2, <2>3 DEF LoopEnsureConnected, EvTypeOK
<1>3. CASE LoopConnect
  BY <1>3 DEF LoopConnect, EvTypeOK
<1>4. CASE LoopSerial
  BY <1>4 DEF LoopSerial, EvTypeOK
<1>5. CASE StartRead
  BY <1>5, BlocksAssumption DEF StartRead, EvTypeOK
<1>6. CASE ReadBlock
  <2>1. block + 1 \in DOMAIN Blocks
    BY <1>6, BlocksAssumption DEF ReadBlock, EvTypeOK
  <2> QED
    BY <1>6, <2>1 DEF ReadBlock, EvTypeOK
<1>7. CASE FinishRead
  BY <1>7 DEF FinishRead, EvTypeOK
<1>8. CASE FailRead
  BY <1>8, CloseType DEF FailRead, EvTypeOK
<1>9. CASE Restart
  BY <1>9 DEF Restart, EvTypeOK
<1>10. CASE Decide
  <2>1. pc' \in {"top", "write", "command"}
    BY <1>10 DEF Decide, AfterWrite
  <2> QED
    BY <1>10, <2>1 DEF Decide, EvTypeOK
<1>11. CASE FinishWrite
  BY <1>11 DEF FinishWrite, AfterWrite, EvTypeOK
<1>12. CASE FinishCommand
  <2>1. (plugged /\ commanded > 0) \in BOOLEAN
    OBVIOUS
  <2>2. drawing' \in BOOLEAN
    BY <1>12, <2>1, Zenon DEF FinishCommand, EvTypeOK
  <2> QED
    BY <1>12, <2>2 DEF FinishCommand, EvTypeOK
<1> QED
  BY <1>1, <1>2, <1>3, <1>4, <1>5, <1>6, <1>7, <1>8, <1>9, <1>10, <1>11, <1>12 DEF LoopStep

\* An on-demand command that ends keeps the types, also when it closes the client.
LEMMA EndType ==
    ASSUME EvTypeOK, EndCommand
    PROVE  /\ cmd' = "idle" /\ client' \in {"none", "new", "up", "lost"}
           /\ addressChanged' \in BOOLEAN /\ failures' \in 0 .. MaxReadFailures - 1
           /\ backoff' = backoff /\ healthy' \in BOOLEAN
           /\ loopOrphan' \in BOOLEAN /\ cmdOrphan' \in BOOLEAN
<1>1. CASE override
  <2>1. Close(FALSE, TRUE) /\ UNCHANGED backoff /\ cmd' = "idle"
    BY <1>1 DEF EndCommand
  <2> QED
    BY <2>1, CloseType DEF EvTypeOK
<1>2. CASE ~override
  BY <1>2 DEF EndCommand, EvTypeOK, link
<1> QED
  BY <1>1, <1>2

\* The steps of the MQTT task keep the types of the client and its readings.
LEMMA MqttClientType ==
    ASSUME EvTypeOK, MqttStep
    PROVE  ClientTypes'
<1> USE DEF settings, link, state, loop, mqtt, charger, history, ClientTypes
<1>1. CASE Reconnect
  BY <1>1, CloseType DEF Reconnect, EvTypeOK
<1>2. CASE CommandConnect
  BY <1>2 DEF CommandConnect, Connect, EvTypeOK
<1>3. CASE CommandSerial
  BY <1>3 DEF CommandSerial, EvTypeOK
<1>4. CASE CommandWrite
  <2>1. CASE EndCommand
    BY <1>4, <2>1, EndType DEF CommandWrite, EvTypeOK
  <2>2. CASE ~EndCommand
    BY <1>4, <2>2 DEF CommandWrite, EvTypeOK
  <2> QED
    BY <2>1, <2>2
<1>5. CASE CommandConfirm
  BY <1>5, EndType DEF CommandConfirm, EvTypeOK
<1> QED
  BY <1>1, <1>2, <1>3, <1>4, <1>5 DEF MqttStep

\* So does what it waits for.
LEMMA MqttTaskType ==
    ASSUME EvTypeOK, MqttStep
    PROVE  TaskTypes'
<1> USE DEF settings, link, state, loop, mqtt, charger, history, TaskTypes
<1>1. CASE Reconnect
  BY <1>1, CloseType DEF Reconnect, EvTypeOK
<1>2. CASE CommandConnect
  BY <1>2 DEF CommandConnect, Connect, EvTypeOK
<1>3. CASE CommandSerial
  BY <1>3 DEF CommandSerial, EvTypeOK
<1>4. CASE CommandWrite
  <2>1. CASE EndCommand
    BY <1>4, <2>1, EndType DEF CommandWrite, EvTypeOK
  <2>2. CASE ~EndCommand
    BY <1>4, <2>2 DEF CommandWrite, EvTypeOK
  <2> QED
    BY <2>1, <2>2
<1>5. CASE CommandConfirm
  BY <1>5, EndType DEF CommandConfirm, EvTypeOK
<1> QED
  BY <1>1, <1>2, <1>3, <1>4, <1>5 DEF MqttStep

\* The user, the charger and the network keep the types of the client.
LEMMA EnvironmentClientType ==
    ASSUME EvTypeOK, Environment
    PROVE  ClientTypes'
<1> USE DEF settings, link, state, loop, mqtt, charger, history, ClientTypes, EvTypeOK
<1>1. CASE StoreAddress
  BY <1>1 DEF StoreAddress
<1>2. CASE StartCommand
  <2>1. PICK connecting \in BOOLEAN :
          EnsureConnected(FALSE, connecting)
    BY <1>2, Zenon DEF StartCommand
  <2> QED
    BY <1>2, <2>1, EnsureType DEF StartCommand
<1>3. CASE \E m \in Modes : SetChargeMode(m)
  BY <1>3 DEF SetChargeMode
<1>4. CASE \E w \in Demands : ChangeDemand(w)
  BY <1>4 DEF ChangeDemand
<1>5. CASE Outage
  BY <1>5 DEF Outage
<1>6. CASE OutageEnds
  BY <1>6 DEF OutageEnds
<1>7. CASE LoseConnection \/ BackgroundReconnect \/ RetryDue
  BY <1>7 DEF LoseConnection, BackgroundReconnect, RetryDue
<1>8. CASE \E raw \in {RawSetpoint(w) : w \in Demands} : ForeignWrite(raw)
  BY <1>8, RawType, EvAssumption DEF ForeignWrite
<1>9. CASE PlugOrUnplug
  BY <1>9 DEF PlugOrUnplug
<1> QED
  BY <1>1, <1>2, <1>3, <1>4, <1>5, <1>6, <1>7, <1>8, <1>9 DEF Environment

\* They move neither task, but may start a command.
LEMMA EnvironmentTaskType ==
    ASSUME EvTypeOK, Environment
    PROVE  TaskTypes'
<1> USE DEF settings, link, state, loop, mqtt, charger, history, TaskTypes, EvTypeOK
<1>1. CASE StoreAddress
  BY <1>1 DEF StoreAddress
<1>2. CASE StartCommand
  <2>1. PICK connecting \in BOOLEAN : EnsureConnected(FALSE, connecting)
    BY <1>2, Zenon DEF StartCommand
  <2>2. override' \in BOOLEAN /\ cmd' \in {"connect", "write", "idle"}
    <3>1. override' \in BOOLEAN
      BY <1>2, Zenon DEF StartCommand
    <3> QED
      BY <1>2, <3>1 DEF StartCommand
  <2> QED
    BY <1>2, <2>1, <2>2, EnsureType DEF StartCommand
<1>3. CASE (\E m \in Modes : SetChargeMode(m)) \/ (\E w \in Demands : ChangeDemand(w))
  BY <1>3 DEF SetChargeMode, ChangeDemand
<1>4. CASE Outage
  BY <1>4 DEF Outage
<1>5. CASE OutageEnds
  BY <1>5 DEF OutageEnds
<1>6. CASE LoseConnection \/ BackgroundReconnect \/ RetryDue
  BY <1>6 DEF LoseConnection, BackgroundReconnect, RetryDue
<1>7. CASE \E raw \in {RawSetpoint(w) : w \in Demands} : ForeignWrite(raw)
  BY <1>7 DEF ForeignWrite
<1>8. CASE PlugOrUnplug
  BY <1>8 DEF PlugOrUnplug
<1> QED
  BY <1>1, <1>2, <1>3, <1>4, <1>5, <1>6, <1>7, <1>8 DEF Environment

\* ev.py:67-99 and loop.py:60-70: the client, the loop and the charger keep to their
\* types; the failures that are counted stay below the number that closes the client.
THEOREM EvTypeCorrect == Spec => []EvTypeOK
<1>1. Init => EvTypeOK
  <2>1. ASSUME Init PROVE ClientTypes
    <3>1. /\ failures \in 0 .. MaxReadFailures - 1 /\ register \in Nat
          /\ cache \in Nat \cup {Unknown} /\ commanded \in Demands
      BY <2>1, EvAssumption DEF Init, RawSetpointMin, MaxReadFailures
    <3> QED
      BY <2>1, <3>1, Zenon DEF Init, ClientTypes
  <2>2. ASSUME Init PROVE TaskTypes
    <3>1. block \in DOMAIN Blocks
      BY <2>2, BlocksAssumption DEF Init
    <3> QED
      BY <2>2, <3>1, Zenon DEF Init, TaskTypes
  <2> QED
    BY <2>1, <2>2, Halves
<1>2. EvTypeOK /\ [Next]_vars => EvTypeOK'
  <2>1. EvTypeOK' <=> (ClientTypes /\ TaskTypes)'
    BY Zenon DEF EvTypeOK, ClientTypes, TaskTypes
  <2>2. EvTypeOK /\ Next => EvTypeOK'
    BY <2>1, LoopClientType, LoopTaskType, MqttClientType, MqttTaskType,
       EnvironmentClientType, EnvironmentTaskType DEF Next
  <2>3. EvTypeOK /\ UNCHANGED vars => EvTypeOK'
    <3> SUFFICES ASSUME EvTypeOK, UNCHANGED vars PROVE (ClientTypes /\ TaskTypes)'
      BY <2>1
    <3>1. ClientTypes'
      BY DEF EvTypeOK, ClientTypes, vars, settings, link, state, loop, charger
    <3>2. TaskTypes'
      BY DEF EvTypeOK, TaskTypes, vars, loop, mqtt, charger
    <3> QED
      BY <3>1, <3>2
  <2> QED
    BY <2>2, <2>3
<1> QED
  BY <1>1, <1>2, PTL DEF Spec

===============================================================================
