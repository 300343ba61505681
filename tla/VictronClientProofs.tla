--------------------------- MODULE VictronClientProofs --------------------------
(***************************************************************************)
(* Theorems about VictronClient for every number of phases, every set of   *)
(* addresses and any number of disturbances.                               *)
(***************************************************************************)
EXTENDS VictronClient, TLAPS

PowerReadAtThird == pc = "request" /\ block = 3 => power = "new"

\* The first two properties, from the end of the read to the decision.
ReadAndDecide ==
    pc \in {"evread", "decide"} =>
        /\ \A p \in Phases : currents[p] # "old"
        /\ client = "up" /\ ~behind => power = "new"

VictronInv == VictronTypeOK /\ PowerReadAtThird /\ ReadAndDecide

\* The initial states satisfy the inductive invariant.
LEMMA InitVictronInv == Init => VictronInv
<1> SUFFICES ASSUME Init PROVE VictronInv
    OBVIOUS
<1>1. currents \in [Phases -> {"none", "new", "old"}]
  BY DEF Init
<1>2. backoff \in BOOLEAN /\ reconnectDue \in BOOLEAN /\ behind \in BOOLEAN
  BY Zenon DEF Init
<1>3. VictronTypeOK
  BY <1>1, <1>2, VictronAssumption DEF Init, VictronTypeOK
<1> QED
  BY <1>3 DEF Init, VictronInv, PowerReadAtThird, ReadAndDecide

\* A step of the control loop preserves it.
LEMMA LoopStepVictronInv == VictronInv /\ LoopStep => VictronInv'
<1> SUFFICES ASSUME VictronInv, LoopStep PROVE VictronInv'
    OBVIOUS
<1> USE VictronAssumption
<1> USE DEF VictronInv, VictronTypeOK, PowerReadAtThird, ReadAndDecide,
            loop, readings, environment
<1>1. CASE EnsureConnected
  BY <1>1 DEF EnsureConnected, NextIteration, Older, ConfigChanged
<1>2. CASE ConnectEnds
  BY <1>2 DEF ConnectEnds
<1>3. CASE BeginRead
  <2>1. /\ currents' \in [Phases -> {"none", "new", "old"}]
        /\ pc' = "evread" => client # "up" /\ \A p \in Phases : currents'[p] = "none"
    BY <1>3 DEF BeginRead, NoCurrents
  <2>2. behind' \in BOOLEAN
    BY <1>3, Zenon DEF BeginRead
  <2> QED
    BY <1>3, <2>1, <2>2 DEF BeginRead
<1>4. CASE ReadEnds
  <2>1. CASE Answer /\ AnswerPower
    BY <2>1 DEF AnswerPower
  <2>2. CASE Answer /\ AnswerPhases
    <3>1. \A p \in Phases : currents'[p] \in {"new", "none"}
      BY <2>2 DEF AnswerPhases
    <3>2. currents' \in [Phases -> {"none", "new", "old"}]
      BY <2>2 DEF AnswerPhases
    <3> QED
      BY <2>2, <3>1, <3>2 DEF AnswerPhases
  <2>3. CASE ReadFails /\ UNCHANGED disturbances
    BY <2>3 DEF ReadFails, NoCurrents
  <2>4. CASE Disturb /\ ReadFails
    BY <2>4 DEF ReadFails, NoCurrents, Disturb
  <2> QED
    BY <1>4, <2>1, <2>2, <2>3, <2>4 DEF ReadEnds
<1>5. CASE Proceed("evread", "decide")
  BY <1>5 DEF Proceed
<1>6. CASE Proceed("decide", "top") \/ Proceed("crashed", "top")
  BY <1>6 DEF Proceed
<1> QED
  BY <1>1, <1>2, <1>3, <1>4, <1>5, <1>6 DEF LoopStep

\* So does a step of the MQTT task, of pymodbus or of a device.
LEMMA OthersVictronInv == VictronInv /\ [Next]_vars => LoopStep \/ VictronInv'
<1> SUFFICES ASSUME VictronInv, [Next]_vars, ~LoopStep PROVE VictronInv'
    OBVIOUS
<1> USE VictronAssumption
<1> USE DEF VictronInv, VictronTypeOK, PowerReadAtThird, ReadAndDecide,
            loop, readings, environment
<1>1. CASE Reconnect \/ BackoffEnds
  BY <1>1 DEF Reconnect, BackoffEnds
<1>2. CASE ReopenInBackground
  BY <1>2 DEF ReopenInBackground
<1>3. CASE \E a \in Addresses \cup {NoAddress} : SetAddress(a)
  BY <1>3 DEF SetAddress, Disturb
<1>4. CASE \E a \in Addresses : DeviceFails(a)
  BY <1>4 DEF DeviceFails, Disturb
<1>5. CASE \E a \in Addresses : DeviceReturns(a)
  BY <1>5 DEF DeviceReturns
<1>6. CASE UNCHANGED vars
  BY <1>6 DEF vars
<1> QED
  BY <1>1, <1>2, <1>3, <1>4, <1>5, <1>6 DEF Next

\* The invariant holds in every reachable state.
THEOREM VictronInvHolds == Spec => []VictronInv
<1>1. Init => VictronInv
  BY InitVictronInv
<1>2. VictronInv /\ [Next]_vars => VictronInv'
  BY LoopStepVictronInv, OthersVictronInv
<1> QED
  BY <1>1, <1>2, PTL DEF Spec

\* victron.py:44-64: the client, its readings and the loop keep to their types.
THEOREM VictronTypeCorrect == Spec => []VictronTypeOK
<1>1. VictronInv => VictronTypeOK
  BY DEF VictronInv
<1> QED
  BY <1>1, VictronInvHolds, PTL

\* FR-14 (victron.py:93-111): a decision never uses a phase current of an earlier
\* iteration, whichever request failed and whoever closed the client meanwhile.
THEOREM CurrentsAreAlwaysNew == Spec => []CurrentsAreNew
<1>1. VictronInv => CurrentsAreNew
  BY DEF VictronInv, ReadAndDecide, CurrentsAreNew
<1> QED
  BY <1>1, VictronInvHolds, PTL

\* A Victron that is connected at a decision has just been read, unless pymodbus
\* has reopened the connection since (mode_strategies.py:286).
THEOREM ConnectedHasRead == Spec => []ConnectedMeansRead
<1>1. VictronInv => ConnectedMeansRead
  BY DEF VictronInv, ReadAndDecide, ConnectedMeansRead
<1> QED
  BY <1>1, VictronInvHolds, PTL

===============================================================================
