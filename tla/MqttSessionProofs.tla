---------------------------- MODULE MqttSessionProofs ---------------------------
(***************************************************************************)
(* Theorems about MqttSession for any number of events, of changes of the  *)
(* settings and of connections.                                            *)
(***************************************************************************)
EXTENDS MqttSession, SequenceTheorems, TLAPS

\* Packets, and what is left to publish after the first part of an item or of
\* the set-up: never an event.
PacketType == [part : PartType, by : Sessions \cup {RunLoop, Handler}]
LaterType == [topic : {"other", "setting"}, value : Nat]
DrainType == [at : {"none", "get", "publish", "timeout", "dead"},
              item : ItemType, todo : Seq(LaterType)]
QueuedType == [kind : {"event", "config"}, id : Nat]

Types ==
    /\ session \in 0 .. MaxFaults + 1 /\ faults \in 0 .. MaxFaults
    /\ run \in {"waiting", "discovery", "config", "online", "serving"}
    /\ setup \in Seq(LaterType) /\ out \in Seq(PacketType)
    /\ drain \in [Sessions -> DrainType]
    /\ queue \in Seq(QueuedType)
    /\ settings \in Nat /\ shown \in Nat
    /\ emitted \in Nat /\ received \in Seq(Nat) /\ vanished \subseteq Nat
    /\ newest \in Nat

\* Connections are counted, and each but the first follows a fault.
SessionCount ==
    /\ session <= faults + 1 /\ (~alive => session <= faults)
    /\ run = "waiting" => ~alive
    /\ Connected => session >= 1

\* A drain has an item from the moment it takes one, and there is none yet for
\* a session that is not serving.
DrainInv ==
    \A d \in Sessions :
       /\ drain[d].at \in {"none", "get"} => drain[d].item.kind = "none"
       /\ drain[d].item.kind = "event" => drain[d].todo = <<>>
       /\ d > session \/ (d = session /\ run \notin {"waiting", "serving"})
             => drain[d].at = "none"

\* A packet that is not written yet has a drain waiting for it, and is its only
\* one; the packet of an event is that event.
PacketInv ==
    /\ ~Connected => out = <<>>
    /\ \A i \in 1 .. Len(out) : out[i].by \in Sessions =>
          /\ drain[out[i].by].at = "publish"
          /\ drain[out[i].by].item.kind = "event"
                => out[i].part = Part("event", drain[out[i].by].item.id)
          /\ \A j \in 1 .. Len(out) : out[j].by = out[i].by => i = j

\* What has arrived is older than what is on its way, and that older than what
\* is queued.
OrderInv ==
    /\ \A i, j \in 1 .. Len(received) : i < j => received[i] < received[j]
    /\ \A i, j \in 1 .. Len(out) :
          i < j /\ out[i].part.topic = "event" /\ out[j].part.topic = "event"
            => out[i].part.value < out[j].part.value
    /\ \A i, j \in 1 .. Len(queue) :
          i < j /\ queue[i].kind = "event" /\ queue[j].kind = "event" => queue[i].id < queue[j].id
    /\ \A i \in 1 .. Len(received), j \in 1 .. Len(out) :
          out[j].part.topic = "event" => received[i] < out[j].part.value
    /\ \A i \in 1 .. Len(received), j \in 1 .. Len(queue) :
          queue[j].kind = "event" => received[i] < queue[j].id
    /\ \A i \in 1 .. Len(out), j \in 1 .. Len(queue) :
          out[i].part.topic = "event" /\ queue[j].kind = "event" => out[i].part.value < queue[j].id

\* Nothing is on its way that has not been emitted.
EmittedInv ==
    /\ \A i \in 1 .. Len(received) : received[i] <= emitted
    /\ \A i \in 1 .. Len(out) : out[i].part.topic = "event" => out[i].part.value <= emitted
    /\ \A i \in 1 .. Len(queue) : queue[i].kind = "event" => queue[i].id <= emitted

Flags == network \in BOOLEAN /\ alive \in BOOLEAN /\ overtaken \in BOOLEAN

-------------------------------------------------------------------------------
\* Parts and items
LEMMA PartTypes ==
    /\ \A v \in Nat : Part("other", v) \in LaterType /\ Part("setting", v) \in LaterType
    /\ LaterType \subseteq PartType
    /\ \A v \in Nat : Part("event", v) \in PartType
    /\ NoDrain \in DrainType /\ Idle \in DrainType
<1>1. <<>> \in Seq(LaterType)
  BY EmptySeq
<1>2. [kind |-> "none", id |-> 0] \in ItemType
  BY DEF ItemType
<1>3. Idle \in DrainType
  BY <1>1, <1>2 DEF Idle, DrainType
<1>4. NoDrain \in DrainType
  BY <1>3 DEF NoDrain, DrainType
<1> QED
  BY <1>3, <1>4 DEF Part, LaterType, PartType

\* What follows the first part of the settings is no event.
LEMMA ConfigPartsType ==
    settings \in Nat => /\ Head(ConfigParts) = Part("other", 0)
                        /\ Tail(ConfigParts) \in Seq(LaterType)
<1> SUFFICES ASSUME settings \in Nat
             PROVE  /\ Head(ConfigParts) = Part("other", 0)
                    /\ Tail(ConfigParts) \in Seq(LaterType)
    OBVIOUS
<1>1. ConfigParts \in Seq(LaterType) /\ ConfigParts # <<>>
  BY PartTypes DEF ConfigParts
<1>2. Head(ConfigParts) = Part("other", 0)
  BY DEF ConfigParts
<1> QED
  BY <1>1, <1>2, HeadTailProperties

\* The first part of an item is its event, or nothing but an event comes later.
LEMMA PartsType ==
    ASSUME settings \in Nat, NEW item \in ItemType
    PROVE  /\ Head(Parts(item)) \in PartType
           /\ Tail(Parts(item)) \in Seq(LaterType)
           /\ item.kind # "config" => /\ Head(Parts(item)) = Part("event", item.id)
                                     /\ Tail(Parts(item)) = <<>>
           /\ item.kind = "config" => Head(Parts(item)) = Part("other", 0)
<1>1. CASE item.kind = "config"
  BY <1>1, ConfigPartsType, PartTypes DEF Parts
<1>2. CASE item.kind # "config"
  <2>1. item.id \in Nat
    BY DEF ItemType
  <2>2. Parts(item) = <<Part("event", item.id)>>
    BY <1>2 DEF Parts
  <2>3. Head(Parts(item)) = Part("event", item.id) /\ Tail(Parts(item)) = <<>>
    BY <2>2
  <2>4. <<>> \in Seq(LaterType)
    BY EmptySeq
  <2>5. Part("event", item.id) \in PartType
    BY <2>1, PartTypes
  <2> QED
    BY <1>2, <2>3, <2>4, <2>5
<1> QED
  BY <1>1, <1>2

-------------------------------------------------------------------------------
\* Sequences whose first element goes, with or without another one at the end
LEMMA TailShape ==
    ASSUME NEW S, NEW s \in Seq(S), s # <<>>
    PROVE  /\ Len(s) \in Nat \ {0} /\ Head(s) = s[1] /\ Head(s) \in S
           /\ Tail(s) \in Seq(S) /\ Len(Tail(s)) = Len(s) - 1
           /\ \A i \in 1 .. Len(Tail(s)) : Tail(s)[i] = s[i + 1]
BY HeadTailProperties, EmptySeq

\* Dropping the first element and appending one moves all others up.
LEMMA ShiftShape ==
    ASSUME NEW S, NEW s \in Seq(S), s # <<>>, NEW x \in S
    PROVE  /\ Append(Tail(s), x) \in Seq(S) /\ Len(Append(Tail(s), x)) = Len(s)
           /\ \A i \in 1 .. Len(s) - 1 : Append(Tail(s), x)[i] = s[i + 1]
           /\ Append(Tail(s), x)[Len(s)] = x
<1>1. Tail(s) \in Seq(S) /\ Len(Tail(s)) = Len(s) - 1 /\ Len(s) \in Nat \ {0}
      /\ \A i \in 1 .. Len(Tail(s)) : Tail(s)[i] = s[i + 1]
  BY TailShape
<1>2. /\ Append(Tail(s), x) \in Seq(S) /\ Len(Append(Tail(s), x)) = Len(Tail(s)) + 1
      /\ \A i \in 1 .. Len(Tail(s)) : Append(Tail(s), x)[i] = Tail(s)[i]
      /\ Append(Tail(s), x)[Len(Tail(s)) + 1] = x
  BY <1>1, AppendProperties
<1> QED
  BY <1>1, <1>2

-------------------------------------------------------------------------------
\* What writing a packet does to the packets, to the drains and to the set-up.
PacketWritten(packet) ==
    \/ packet.by = RunLoop /\ ContinueSetup
    \/ packet.by \in Sessions /\ ContinueDrain(packet.by)
    \/ packet.by = Handler /\ out' = Tail(out) /\ UNCHANGED <<run, setup, drain, history>>

\* The packets that are left, with or without one of the same task that is not an
\* event.
Shifted(packet) ==
    \/ out' = Tail(out)
    \/ \E part \in LaterType : out' = Append(Tail(out), [part |-> part, by |-> packet.by])

\* The first packet arrives, and the task that waits for it goes on.
LEMMA WriteShape ==
    ASSUME Types, Write
    PROVE  /\ out # <<>> /\ Head(out) \in PacketType /\ Head(out) = out[1]
           /\ Arrive(Head(out).part) /\ PacketWritten(Head(out))
           /\ UNCHANGED <<network, alive, session, faults, queue, settings, emitted>>
BY TailShape DEF Write, PacketWritten, Types

\* The set-up
LEMMA SetupShape ==
    ASSUME Types, ContinueSetup, out # <<>>, Head(out).by = RunLoop
    PROVE  /\ Shifted(Head(out))
           /\ run' \in {"config", "online", "serving"} /\ setup' \in Seq(LaterType)
           /\ drain' = IF run = "online" THEN StartDrain ELSE drain
           /\ run \in {"discovery", "config", "online"} /\ (run' = "serving" <=> run = "online")
<1> USE DEF Types, Shifted, Publish
<1>1. CASE run = "discovery"
  <2>1. run' = "config" /\ setup' = Tail(ConfigParts)
        /\ out' = Publish(Tail(out), Part("other", 0), RunLoop)
    BY <1>1, ConfigPartsType DEF ContinueSetup
  <2>2. Part("other", 0) \in LaterType
    BY PartTypes
  <2> QED
    BY <1>1, <2>1, <2>2, ConfigPartsType DEF ContinueSetup
<1>2. CASE run = "config" /\ setup # <<>>
  <2>1. Head(setup) \in LaterType /\ Tail(setup) \in Seq(LaterType)
    BY <1>2, TailShape
  <2> QED
    BY <1>2, <2>1 DEF ContinueSetup
<1>3. CASE run = "config" /\ setup = <<>>
  <2>1. Part("other", 0) \in LaterType
    BY PartTypes
  <2> QED
    BY <1>3, <2>1 DEF ContinueSetup
<1>4. CASE run = "online"
  BY <1>4 DEF ContinueSetup
<1> QED
  BY <1>1, <1>2, <1>3, <1>4 DEF ContinueSetup

\* A drain
LEMMA DrainShape ==
    ASSUME Types, NEW d \in Sessions, ContinueDrain(d), out # <<>>, Head(out).by = d
    PROVE  /\ Shifted(Head(out)) /\ UNCHANGED <<run, setup>>
           /\ \/ /\ drain[d].todo # <<>>
                 /\ drain' = [drain EXCEPT ![d] = [drain[d] EXCEPT !.todo = Tail(drain[d].todo)]]
                 /\ Tail(drain[d].todo) \in Seq(LaterType)
                 /\ out' # Tail(out)
              \/ /\ drain[d].todo = <<>> /\ out' = Tail(out)
                 /\ drain' = [drain EXCEPT ![d] = Idle]
<1> USE DEF Types, Shifted, Publish
<1>0. drain[d].todo \in Seq(LaterType)
  BY DEF DrainType
<1>1. CASE drain[d].todo # <<>>
  <2>1. Head(drain[d].todo) \in LaterType /\ Tail(drain[d].todo) \in Seq(LaterType)
    BY <1>0, <1>1, TailShape
  <2>2. out' = Append(Tail(out), [part |-> Head(drain[d].todo), by |-> d])
    BY <1>1 DEF ContinueDrain
  <2>3. [part |-> Head(drain[d].todo), by |-> d] \in PacketType
    BY <2>1, PartTypes DEF PacketType
  <2>4. out' # Tail(out)
    BY <2>2, <2>3, TailShape, ShiftShape
  <2> QED
    BY <1>1, <2>1, <2>2, <2>4 DEF ContinueDrain
<1>2. CASE drain[d].todo = <<>>
  BY <1>2 DEF ContinueDrain
<1> QED
  BY <1>1, <1>2

\* Either way the packets move up by one.
LEMMA ShiftedShape ==
    ASSUME out \in Seq(PacketType), out # <<>>, Shifted(Head(out))
    PROVE  /\ out' \in Seq(PacketType) /\ Len(out') \in {Len(out) - 1, Len(out)}
           /\ Len(out) \in Nat \ {0} /\ Len(out') \in Nat
           /\ \A i \in 1 .. Len(out) - 1 : out'[i] = out[i + 1]
           /\ Len(out') = Len(out)
                 => out'[Len(out)].part \in LaterType /\ out'[Len(out)].by = out[1].by
<1>0. Len(out) \in Nat \ {0} /\ Head(out) = out[1] /\ Head(out) \in PacketType
  BY TailShape
<1>1. CASE out' = Tail(out)
  BY <1>0, <1>1, TailShape
<1>2. ASSUME NEW part \in LaterType,
             out' = Append(Tail(out), [part |-> part, by |-> Head(out).by])
      PROVE  /\ out' \in Seq(PacketType) /\ Len(out') = Len(out)
             /\ \A i \in 1 .. Len(out) - 1 : out'[i] = out[i + 1]
             /\ out'[Len(out)].part \in LaterType /\ out'[Len(out)].by = out[1].by
  <2>1. [part |-> part, by |-> Head(out).by] \in PacketType
    BY <1>0, PartTypes DEF PacketType
  <2> QED
    BY <1>0, <1>2, <2>1, ShiftShape
<1> QED
  BY <1>0, <1>1, <1>2 DEF Shifted

-------------------------------------------------------------------------------
\* Types, and the counting of connections, action by action
Counted == Types /\ Flags /\ SessionCount

\* What is written goes to the broker, or nowhere.
LEMMA ArriveType ==
    ASSUME Types, NEW part \in PartType, Arrive(part)
    PROVE  received' \in Seq(Nat) /\ vanished' \subseteq Nat /\ shown' \in Nat
<1>1. part.value \in Nat /\ received \in Seq(Nat)
  BY DEF PartType, Types
<1>2. Append(received, part.value) \in Seq(Nat)
  BY <1>1, AppendProperties
<1> QED
  BY <1>1, <1>2 DEF Arrive, Types

\* The version published last is a version.
LEMMA HandType ==
    ASSUME Types, overtaken \in BOOLEAN, NEW part \in PartType, Hand(part)
    PROVE  newest' \in Nat /\ overtaken' \in BOOLEAN
<1>1. part.value \in Nat /\ newest \in Nat
  BY DEF PartType, Types
<1>2. CASE part.topic = "setting"
  <2>1. overtaken' = (part.value < newest)
    BY <1>2 DEF Hand
  <2>2. newest' = IF part.value > newest THEN part.value ELSE newest
    BY <1>2 DEF Hand
  <2> QED
    BY <1>1, <2>1, <2>2
<1>3. CASE part.topic # "setting"
  BY <1>1, <1>3 DEF Hand, history
<1> QED
  BY <1>2, <1>3

\* Writing a packet
LEMMA WriteHistoryType ==
    ASSUME Types, overtaken \in BOOLEAN, Write
    PROVE  newest' \in Nat /\ overtaken' \in BOOLEAN
<1>1. PacketWritten(Head(out)) /\ newest \in Nat
  BY WriteShape DEF Types
<1>2. CASE UNCHANGED <<newest, overtaken>>
  BY <1>1, <1>2
<1>3. ASSUME NEW todo \in Seq(LaterType), todo # <<>>, Hand(Head(todo))
      PROVE  newest' \in Nat /\ overtaken' \in BOOLEAN
  <2>1. Head(todo) \in PartType
    BY <1>3, TailShape, PartTypes
  <2> QED
    BY <1>3, <2>1, HandType
<1>4. \A d \in Sessions : drain[d].todo \in Seq(LaterType)
  BY DEF Types, DrainType
<1>5. CASE ContinueSetup
  BY <1>2, <1>3, <1>5 DEF ContinueSetup, Types, history
<1>6. CASE \E d \in Sessions : ContinueDrain(d)
  BY <1>2, <1>3, <1>4, <1>6 DEF ContinueDrain, history
<1> QED
  BY <1>1, <1>2, <1>5, <1>6 DEF PacketWritten, history

\* Writing a packet keeps the types.
LEMMA WriteType == Counted /\ Write => Counted'
<1> SUFFICES ASSUME Counted, Write PROVE Counted'
    OBVIOUS
<1> USE DEF Counted
<1>1. /\ out # <<>> /\ Head(out) \in PacketType /\ Arrive(Head(out).part)
      /\ PacketWritten(Head(out))
      /\ UNCHANGED <<network, alive, session, faults, queue, settings, emitted>>
  BY WriteShape
<1>2. received' \in Seq(Nat) /\ vanished' \subseteq Nat /\ shown' \in Nat
  BY <1>1, ArriveType DEF PacketType
<1>3. newest' \in Nat /\ overtaken' \in BOOLEAN
  BY WriteHistoryType DEF Flags
<1>4. /\ out' \in Seq(PacketType) /\ drain' \in [Sessions -> DrainType]
      /\ setup' \in Seq(LaterType)
      /\ run' \in {"waiting", "discovery", "config", "online", "serving"}
      /\ (run' = "waiting" <=> run = "waiting")
  <2>1. CASE Head(out).by = RunLoop /\ ContinueSetup
    <3>1. /\ Shifted(Head(out))
          /\ run' \in {"config", "online", "serving"} /\ setup' \in Seq(LaterType)
          /\ drain' = IF run = "online" THEN StartDrain ELSE drain
          /\ run \in {"discovery", "config", "online"}
      BY <1>1, <2>1, SetupShape
    <3>2. out' \in Seq(PacketType)
      BY <1>1, <3>1, ShiftedShape DEF Types
    <3>3. drain' \in [Sessions -> DrainType]
      BY <3>1, PartTypes DEF StartDrain, Types
    <3> QED
      BY <3>1, <3>2, <3>3
  <2>2. ASSUME NEW d \in Sessions, Head(out).by = d, ContinueDrain(d)
        PROVE  /\ out' \in Seq(PacketType) /\ drain' \in [Sessions -> DrainType]
               /\ UNCHANGED <<run, setup>>
    <3>1. /\ Shifted(Head(out)) /\ UNCHANGED <<run, setup>>
          /\ \/ /\ drain' = [drain EXCEPT ![d] = [drain[d] EXCEPT !.todo = Tail(drain[d].todo)]]
                /\ Tail(drain[d].todo) \in Seq(LaterType)
             \/ drain' = [drain EXCEPT ![d] = Idle]
      BY <1>1, <2>2, DrainShape
    <3>2. out' \in Seq(PacketType)
      BY <1>1, <3>1, ShiftedShape DEF Types
    <3>3. drain[d] \in DrainType /\ Idle \in DrainType
      BY PartTypes DEF Types
    <3>4. Tail(drain[d].todo) \in Seq(LaterType)
             => [drain[d] EXCEPT !.todo = Tail(drain[d].todo)] \in DrainType
      BY <3>3 DEF DrainType
    <3> QED
      BY <3>1, <3>2, <3>3, <3>4 DEF Types
  <2>3. CASE out' = Tail(out) /\ UNCHANGED <<run, setup, drain>>
    BY <1>1, <2>3, TailShape DEF Types
  <2> QED
    BY <1>1, <2>1, <2>2, <2>3 DEF PacketWritten, Types
<1>5. Types'
  BY <1>1, <1>2, <1>3, <1>4 DEF Types
<1>6. Flags'
  BY <1>1, <1>3 DEF Flags
<1>7. SessionCount'
  BY <1>1, <1>4 DEF SessionCount, Connected
<1> QED
  BY <1>5, <1>6, <1>7

\* The drains, when the connection breaks
LEMMA SessionEndsType == Counted /\ SessionEnds => Counted'
<1> SUFFICES ASSUME Counted, SessionEnds PROVE Counted'
    OBVIOUS
<1> USE DEF Counted
<1>1. /\ run' = "waiting" /\ setup' = <<>> /\ out' = <<>> /\ ~alive
      /\ drain' = [d \in Sessions |->
              IF drain[d].at = "publish" THEN [drain[d] EXCEPT !.at = "timeout"] ELSE drain[d]]
      /\ UNCHANGED <<network, alive, session, faults, queue, settings, broker, emitted, history>>
  BY DEF SessionEnds
<1>2. setup' \in Seq(LaterType) /\ out' \in Seq(PacketType)
  BY <1>1, EmptySeq
<1>3. \A d \in Sessions : drain[d] \in DrainType /\ [drain[d] EXCEPT !.at = "timeout"] \in DrainType
  BY DEF Types, DrainType
<1>4. drain' \in [Sessions -> DrainType]
  BY <1>1, <1>3
<1>5. Types'
  BY <1>1, <1>2, <1>4 DEF Types, broker, history
<1>6. Flags' /\ SessionCount'
  BY <1>1 DEF Flags, SessionCount, Connected, history
<1> QED
  BY <1>5, <1>6

\* Taking an item
LEMMA TakeShape ==
    ASSUME Types, NEW d \in Sessions, Take(d)
    PROVE  /\ drain[d].at = "get" /\ queue # <<>> /\ Head(queue) \in QueuedType
           /\ Head(queue) = queue[1] /\ queue' = Tail(queue)
           /\ \/ /\ Connected
                 /\ drain' = [drain EXCEPT ![d] = [at |-> "publish", item |-> Head(queue),
                                                  todo |-> Tail(Parts(Head(queue)))]]
                 /\ out' = Append(out, [part |-> Head(Parts(Head(queue))), by |-> d])
              \/ /\ ~Connected /\ UNCHANGED out
                 /\ drain' = [drain EXCEPT ![d] = [at |-> "dead", item |-> Head(queue),
                                                  todo |-> <<>>]]
           /\ UNCHANGED <<link, settings, broker, emitted, history>>
<1>1. drain[d].at = "get" /\ queue # <<>> /\ queue' = Tail(queue)
      /\ UNCHANGED <<link, settings, broker, emitted, history>>
  BY DEF Take
<1>2. Head(queue) \in QueuedType /\ Head(queue) = queue[1]
  BY <1>1, TailShape DEF Types
<1>3. CASE Connected
  <2>1. /\ drain' = [drain EXCEPT ![d] = [at |-> "publish", item |-> Head(queue),
                                         todo |-> Tail(Parts(Head(queue)))]]
        /\ out' = Append(out, [part |-> Head(Parts(Head(queue))), by |-> d])
    BY <1>3 DEF Take, Publish
  <2> QED
    BY <1>1, <1>2, <1>3, <2>1
<1>4. CASE ~Connected
  BY <1>1, <1>2, <1>4 DEF Take
<1> QED
  BY <1>3, <1>4

\* Taking an item keeps the types.
LEMMA TakeType ==
    ASSUME Counted, NEW d \in Sessions, Take(d)
    PROVE  Counted'
<1> USE DEF Counted
<1> DEFINE item == Head(queue)
<1>1. /\ queue # <<>> /\ item \in QueuedType /\ queue' = Tail(queue)
      /\ UNCHANGED <<link, settings, broker, emitted, history>>
  BY TakeShape
<1>2. item \in ItemType /\ queue' \in Seq(QueuedType)
  BY <1>1, TailShape DEF ItemType, QueuedType, Types
<1>3. Head(Parts(item)) \in PartType /\ Tail(Parts(item)) \in Seq(LaterType)
  BY <1>2, PartsType DEF Types
<1>4. /\ [part |-> Head(Parts(item)), by |-> d] \in PacketType
      /\ [at |-> "publish", item |-> item, todo |-> Tail(Parts(item))] \in DrainType
      /\ [at |-> "dead", item |-> item, todo |-> <<>>] \in DrainType
  BY <1>2, <1>3, EmptySeq DEF PacketType, DrainType
<1>5. Append(out, [part |-> Head(Parts(item)), by |-> d]) \in Seq(PacketType)
  BY <1>4, AppendProperties DEF Types
<1>6. drain' \in [Sessions -> DrainType] /\ out' \in Seq(PacketType)
  <2>1. \/ drain' = [drain EXCEPT ![d] = [at |-> "publish", item |-> item,
                                          todo |-> Tail(Parts(item))]]
           /\ out' = Append(out, [part |-> Head(Parts(item)), by |-> d])
        \/ drain' = [drain EXCEPT ![d] = [at |-> "dead", item |-> item, todo |-> <<>>]]
           /\ out' = out
    BY TakeShape
  <2> QED
    BY <1>4, <1>5, <2>1 DEF Types
<1>7. Types'
  BY <1>1, <1>2, <1>6 DEF Types, link, broker, history
<1>8. Flags' /\ SessionCount'
  BY <1>1 DEF Flags, SessionCount, Connected, link, history
<1> QED
  BY <1>7, <1>8

\* The remaining actions
LEMMA ConnectType == Counted /\ Connect => Counted'
<1> SUFFICES ASSUME Counted, Connect PROVE Counted'
    OBVIOUS
<1> USE DEF Counted
<1>1. /\ run = "waiting" /\ session' = session + 1 /\ alive' = TRUE
      /\ run' = "discovery" /\ setup' = <<>>
      /\ out' = Append(<<>>, [part |-> Part("other", 0), by |-> RunLoop])
      /\ UNCHANGED <<network, faults, drain, queue, settings, broker, emitted, history>>
  BY DEF Connect, Publish
<1>2. [part |-> Part("other", 0), by |-> RunLoop] \in PacketType
  BY PartTypes DEF PacketType
<1>3. setup' \in Seq(LaterType) /\ out' \in Seq(PacketType)
  BY <1>1, <1>2, EmptySeq, AppendProperties
<1>4. session' \in 1 .. faults + 1
  BY <1>1 DEF SessionCount, Types
<1>5. Types'
  BY <1>1, <1>3, <1>4, SessionAssumption DEF Types, broker, history
<1>6. Flags' /\ SessionCount'
  BY <1>1, <1>4 DEF Flags, SessionCount, Connected, Types, history
<1> QED
  BY <1>5, <1>6

\* A publication that fails keeps the types.
LEMMA PublishFailsType ==
    ASSUME Counted, NEW d \in Sessions, PublishFails(d)
    PROVE  Counted'
<1> USE DEF Counted
<1>1. /\ drain' = [drain EXCEPT ![d] = [at |-> "dead", item |-> drain[d].item, todo |-> <<>>]]
      /\ UNCHANGED <<link, out, queue, settings, broker, emitted, history>>
  BY DEF PublishFails
<1>2. [at |-> "dead", item |-> drain[d].item, todo |-> <<>>] \in DrainType
  BY EmptySeq DEF Types, DrainType
<1>3. Types'
  BY <1>1, <1>2 DEF Types, link, broker, history
<1>4. Flags' /\ SessionCount'
  BY <1>1 DEF Flags, SessionCount, Connected, link, history
<1> QED
  BY <1>3, <1>4

\* A command is answered with a version of the settings.
Confirmed(v) ==
    /\ v \in Nat /\ settings' \in {settings, v}
    /\ out' = Append(out, [part |-> Part("setting", v), by |-> Handler])
    /\ Hand(Part("setting", v))
    /\ UNCHANGED <<link, drain, queue, broker, emitted>>

\* Accepted or refused, a command publishes the settings that are in force after it.
LEMMA CommandShape ==
    ASSUME Types, AcceptCommand \/ RefuseCommand
    PROVE  Confirmed(settings')
<1>1. CASE AcceptCommand
  <2>1. settings' = settings + 1 /\ settings \in Nat
    BY <1>1 DEF AcceptCommand, Types
  <2> QED
    BY <1>1, <2>1 DEF AcceptCommand, Confirmed, Publish
<1>2. CASE RefuseCommand
  <2>1. settings' = settings /\ settings \in Nat
    BY <1>2 DEF RefuseCommand, Types
  <2> QED
    BY <1>2, <2>1 DEF RefuseCommand, Confirmed, Publish
<1> QED
  BY <1>1, <1>2

\* A command keeps the types.
LEMMA CommandType == Counted /\ (AcceptCommand \/ RefuseCommand) => Counted'
<1> SUFFICES ASSUME Counted, NEW v, Confirmed(v) PROVE Counted'
    BY CommandShape DEF Counted
<1> USE DEF Confirmed
<1> USE DEF Counted
<1>1. /\ Part("setting", v) \in PartType
      /\ [part |-> Part("setting", v), by |-> Handler] \in PacketType
  BY PartTypes DEF PacketType
<1>2. out' \in Seq(PacketType)
  BY <1>1, AppendProperties DEF Types
<1>3. newest' \in Nat /\ overtaken' \in BOOLEAN
  BY <1>1, HandType DEF Flags
<1>4. Types'
  BY <1>2, <1>3 DEF Types, link, broker
<1>5. Flags' /\ SessionCount'
  BY <1>3 DEF Flags, SessionCount, Connected, link
<1> QED
  BY <1>4, <1>5

\* Something is put on the queue.
Enqueued(item) ==
    /\ item \in QueuedType /\ queue' = Append(queue, item)
    /\ emitted' \in Nat /\ settings' \in Nat
    /\ UNCHANGED <<link, out, drain, broker, history>>

\* What the control loop queues is the next event, or a request to republish.
LEMMA EnqueueShape ==
    ASSUME Types, EmitEvent \/ ResetOnUnplug
    PROVE  \/ /\ emitted' = emitted + 1 /\ Enqueued([kind |-> "event", id |-> emitted + 1])
           \/ /\ emitted' = emitted /\ Enqueued([kind |-> "config", id |-> 0])
BY DEF EmitEvent, ResetOnUnplug, Enqueue, Enqueued, Types, QueuedType

\* Queueing an item keeps the types.
LEMMA EnqueueType == Counted /\ (EmitEvent \/ ResetOnUnplug) => Counted'
<1> SUFFICES ASSUME Counted, NEW item, Enqueued(item) PROVE Counted'
    BY EnqueueShape DEF Counted
<1> USE DEF Counted, Enqueued
<1>1. queue' \in Seq(QueuedType)
  BY AppendProperties DEF Types
<1>2. Types'
  BY <1>1 DEF Types, link, broker, history
<1>3. Flags' /\ SessionCount'
  BY DEF Flags, SessionCount, Connected, link, history
<1> QED
  BY <1>2, <1>3

\* The network, failing and healing, keeps the types.
LEMMA NetworkType == Counted /\ (NetworkFails \/ NetworkHeals \/ UNCHANGED vars) => Counted'
<1> SUFFICES ASSUME Counted, NetworkFails \/ NetworkHeals \/ UNCHANGED vars PROVE Counted'
    OBVIOUS
<1> USE DEF Counted
<1>1. CASE NetworkFails
  <2>1. Types'
    BY <1>1, SessionAssumption DEF NetworkFails, Types, tasks, broker, history
  <2>2. Flags'
    BY <1>1, Zenon DEF NetworkFails, Flags, history
  <2>3. SessionCount'
    BY <1>1 DEF NetworkFails, SessionCount, Connected, Types
  <2> QED
    BY <2>1, <2>2, <2>3
<1>2. CASE NetworkHeals \/ UNCHANGED vars
  <2>1. UNCHANGED <<alive, session, run, setup, faults, tasks, settings, broker, emitted, history>>
        /\ network' \in BOOLEAN
    BY <1>2 DEF NetworkHeals, vars, link, Flags
  <2>2. Types'
    BY <2>1 DEF Types, tasks, broker, history
  <2>3. Flags' /\ SessionCount'
    BY <2>1 DEF Flags, SessionCount, Connected, history
  <2> QED
    BY <2>2, <2>3
<1> QED
  BY <1>1, <1>2

-------------------------------------------------------------------------------
\* Packets and the drains that wait for them, action by action
Owned == DrainInv /\ PacketInv

\* A change that concerns no drain: packets go, in order, or come, from others.
LEMMA OthersOwned ==
    ASSUME Types, PacketInv,
           NEW from \in {0, 1}, Len(out') \in Nat, run' # "waiting" \/ out' = <<>>,
           \A i \in 1 .. Len(out') : i + from <= Len(out) => out'[i] = out[i + from],
           \A i \in 1 .. Len(out') : i + from > Len(out) => out'[i].by \notin Sessions,
           \A i \in 1 .. Len(out), d \in Sessions : out[i].by = d => drain'[d] = drain[d]
    PROVE  PacketInv'
<1>1. Len(out) \in Nat
  BY LenProperties DEF Types
<1>2. ~Connected' => out' = <<>>
  BY DEF Connected
<1>3. ASSUME NEW i \in 1 .. Len(out'), out'[i].by \in Sessions
      PROVE  i + from \in 1 .. Len(out) /\ out'[i] = out[i + from]
  BY <1>1, <1>3
<1>4. ASSUME NEW i \in 1 .. Len(out'), out'[i].by \in Sessions
      PROVE  /\ drain'[out'[i].by].at = "publish"
             /\ drain'[out'[i].by].item.kind = "event"
                   => out'[i].part = Part("event", drain'[out'[i].by].item.id)
             /\ \A j \in 1 .. Len(out') : out'[j].by = out'[i].by => i = j
  <2>1. /\ i + from \in 1 .. Len(out) /\ out'[i] = out[i + from]
        /\ drain'[out'[i].by] = drain[out'[i].by]
    BY <1>3, <1>4
  <2>2. /\ drain[out'[i].by].at = "publish"
        /\ drain[out'[i].by].item.kind = "event"
              => out'[i].part = Part("event", drain[out'[i].by].item.id)
    BY <1>4, <2>1 DEF PacketInv
  <2>3. ASSUME NEW j \in 1 .. Len(out'), out'[j].by = out'[i].by
        PROVE  i = j
    <3>1. j + from \in 1 .. Len(out) /\ out'[j] = out[j + from]
      BY <1>3, <1>4, <2>3
    <3>2. i + from = j + from
      BY <1>4, <2>1, <2>3, <3>1 DEF PacketInv
    <3> QED
      BY <3>2
  <2> QED
    BY <2>1, <2>2, <2>3
<1> QED
  BY <1>2, <1>4 DEF PacketInv

\* The drains are told from the other two tasks.
LEMMA SessionsAreNoTasks == RunLoop \notin Sessions /\ Handler \notin Sessions
BY SessionAssumption DEF Sessions, RunLoop, Handler

\* The set-up disturbs no drain, also when it starts one.
LEMMA SetupOwned ==
    ASSUME Counted, Owned, Head(out).by = RunLoop, ContinueSetup, out # <<>>,
           UNCHANGED session
    PROVE  Owned'
<1> USE DEF Counted, Owned
<1>1. /\ Shifted(Head(out)) /\ run' \in {"config", "online", "serving"}
      /\ drain' = IF run = "online" THEN StartDrain ELSE drain
      /\ run \in {"discovery", "config", "online"} /\ (run' = "serving" <=> run = "online")
  BY SetupShape
<1>2. /\ Len(out') \in {Len(out) - 1, Len(out)}
      /\ Len(out) \in Nat \ {0} /\ Len(out') \in Nat
      /\ \A i \in 1 .. Len(out) - 1 : out'[i] = out[i + 1]
      /\ Len(out') = Len(out) => out'[Len(out)].by = out[1].by
  BY <1>1, ShiftedShape DEF Types
<1>3. out[1].by \notin Sessions
  BY SessionsAreNoTasks, TailShape DEF Types
<1>4. \A i \in 1 .. Len(out), d \in Sessions : out[i].by = d => drain'[d] = drain[d]
  <2> SUFFICES ASSUME NEW i \in 1 .. Len(out), NEW d \in Sessions, out[i].by = d
               PROVE  drain'[d] = drain[d]
      OBVIOUS
  <2>1. drain[d].at = "publish"
    BY DEF PacketInv
  <2>2. run = "online" => d # session
    BY <2>1 DEF DrainInv
  <2> QED
    BY <1>1, <2>2 DEF StartDrain, Types
<1>5. PacketInv'
  BY <1>1, <1>2, <1>3, <1>4, OthersOwned
<1>6. DrainInv'
  <2> SUFFICES ASSUME NEW d \in Sessions
               PROVE  /\ drain'[d].at \in {"none", "get"} => drain'[d].item.kind = "none"
                      /\ drain'[d].item.kind = "event" => drain'[d].todo = <<>>
                      /\ d > session' \/ (d = session' /\ run' \notin {"waiting", "serving"})
                            => drain'[d].at = "none"
      BY DEF DrainInv
  <2>1. CASE run = "online" /\ d = session
    <3>1. drain'[d] = Idle
      BY <1>1, <2>1 DEF StartDrain, Types
    <3> QED
      BY <1>1, <2>1, <3>1 DEF Idle, Sessions
  <2>2. CASE ~(run = "online" /\ d = session)
    <3>1. drain'[d] = drain[d]
      BY <1>1, <2>2 DEF StartDrain, Types
    <3> QED
      BY <1>1, <2>2, <3>1 DEF DrainInv
  <2> QED
    BY <2>1, <2>2
<1> QED
  BY <1>5, <1>6

\* A drain whose packet is written has its next packet, or none and no item.
LEMMA ContinueDrainOwned ==
    ASSUME Counted, Owned, NEW d \in Sessions, Head(out).by = d, ContinueDrain(d), out # <<>>,
           UNCHANGED session
    PROVE  Owned'
<1> USE DEF Counted, Owned
<1>1. /\ Shifted(Head(out)) /\ UNCHANGED <<run, setup>>
      /\ \/ /\ drain[d].todo # <<>>
            /\ drain' = [drain EXCEPT ![d] = [drain[d] EXCEPT !.todo = Tail(drain[d].todo)]]
            /\ out' # Tail(out)
         \/ /\ drain[d].todo = <<>> /\ out' = Tail(out)
            /\ drain' = [drain EXCEPT ![d] = Idle]
  BY DrainShape
<1>2. /\ Len(out') \in {Len(out) - 1, Len(out)}
      /\ Len(out) \in Nat \ {0} /\ Len(out') \in Nat
      /\ \A i \in 1 .. Len(out) - 1 : out'[i] = out[i + 1]
      /\ Len(out') = Len(out) => out'[Len(out)].by = out[1].by
  BY <1>1, ShiftedShape DEF Types
<1>3. out[1].by = d /\ 1 \in 1 .. Len(out)
  BY <1>2, TailShape DEF Types
<1>4. /\ drain[d].at = "publish"
      /\ \A j \in 1 .. Len(out) : out[j].by = d => j = 1
  BY <1>3 DEF PacketInv
<1>5. \A i \in 1 .. Len(out) - 1 : out'[i].by # d
  BY <1>2, <1>4
<1>6. \A e \in Sessions \ {d} : drain'[e] = drain[e]
  BY <1>1 DEF Types
<1>7. drain[d] \in DrainType
  BY DEF Types
<1>8. CASE /\ drain[d].todo # <<>> /\ out' # Tail(out)
           /\ drain' = [drain EXCEPT ![d] = [drain[d] EXCEPT !.todo = Tail(drain[d].todo)]]
  <2>1. /\ drain'[d].at = "publish" /\ drain'[d].item = drain[d].item
        /\ drain[d].item.kind # "event"
    BY <1>4, <1>7, <1>8 DEF DrainInv, DrainType, Types
  <2>2. DrainInv'
    BY <1>1, <1>4, <1>6, <2>1 DEF DrainInv
  <2>3. ASSUME NEW i \in 1 .. Len(out'), out'[i].by \in Sessions
        PROVE  /\ drain'[out'[i].by].at = "publish"
               /\ drain'[out'[i].by].item.kind = "event"
                     => out'[i].part = Part("event", drain'[out'[i].by].item.id)
               /\ \A j \in 1 .. Len(out') : out'[j].by = out'[i].by => i = j
    <3>1. CASE i = Len(out)
      BY <1>2, <1>3, <1>5, <2>1, <2>3, <3>1
    <3>2. CASE i # Len(out)
      <4>1. i \in 1 .. Len(out) - 1 /\ i + 1 \in 1 .. Len(out)
        BY <1>2, <3>2
      <4>2. out'[i] = out[i + 1] /\ out'[i].by # d /\ drain'[out'[i].by] = drain[out'[i].by]
        BY <1>2, <1>5, <1>6, <2>3, <4>1
      <4>3. \A j \in 1 .. Len(out) : out[j].by = out'[i].by => j = i + 1
        BY <2>3, <4>1, <4>2 DEF PacketInv
      <4>4. ASSUME NEW j \in 1 .. Len(out'), out'[j].by = out'[i].by
            PROVE  i = j
        <5>1. j # Len(out)
          BY <1>2, <1>3, <4>2, <4>4
        <5>2. j \in 1 .. Len(out) - 1 /\ j + 1 \in 1 .. Len(out) /\ out'[j] = out[j + 1]
          BY <1>2, <5>1
        <5> QED
          BY <4>1, <4>3, <4>4, <5>2
      <4> QED
        BY <2>3, <4>1, <4>2, <4>4 DEF PacketInv
    <3> QED
      BY <3>1, <3>2
  <2>4. Connected'
    BY <1>1, <1>3 DEF PacketInv, Connected
  <2> QED
    BY <2>2, <2>3, <2>4 DEF PacketInv
<1>9. CASE out' = Tail(out) /\ drain' = [drain EXCEPT ![d] = Idle]
  <2>1. Len(out') = Len(out) - 1
    BY <1>9, TailShape DEF Types
  <2>2. drain'[d] = Idle
    BY <1>9 DEF Types
  <2>3. DrainInv'
    BY <1>1, <1>4, <1>6, <2>2 DEF DrainInv, Idle
  <2>4. ASSUME NEW i \in 1 .. Len(out'), out'[i].by \in Sessions
        PROVE  /\ drain'[out'[i].by].at = "publish"
               /\ drain'[out'[i].by].item.kind = "event"
                     => out'[i].part = Part("event", drain'[out'[i].by].item.id)
               /\ \A j \in 1 .. Len(out') : out'[j].by = out'[i].by => i = j
    <3>1. i \in 1 .. Len(out) - 1 /\ i + 1 \in 1 .. Len(out)
      BY <1>2, <2>1
    <3>2. out'[i] = out[i + 1] /\ out'[i].by # d /\ drain'[out'[i].by] = drain[out'[i].by]
      BY <1>2, <1>5, <1>6, <2>4, <3>1
    <3>3. \A j \in 1 .. Len(out) : out[j].by = out'[i].by => j = i + 1
      BY <2>4, <3>1, <3>2 DEF PacketInv
    <3>4. ASSUME NEW j \in 1 .. Len(out'), out'[j].by = out'[i].by
          PROVE  i = j
      <4>1. j \in 1 .. Len(out) - 1 /\ j + 1 \in 1 .. Len(out) /\ out'[j] = out[j + 1]
        BY <1>2, <2>1
      <4> QED
        BY <3>1, <3>3, <3>4, <4>1
    <3> QED
      BY <2>4, <3>1, <3>2, <3>4 DEF PacketInv
  <2>5. Connected'
    BY <1>1, <1>3 DEF PacketInv, Connected
  <2> QED
    BY <2>3, <2>4, <2>5 DEF PacketInv
<1> QED
  BY <1>1, <1>8, <1>9

\* Writing a packet leaves every other packet its drain.
LEMMA WriteOwned == Counted /\ Owned /\ Write => Owned'
<1> SUFFICES ASSUME Counted, Owned, Write PROVE Owned'
    OBVIOUS
<1>1. /\ out # <<>> /\ Head(out) \in PacketType /\ PacketWritten(Head(out))
      /\ UNCHANGED session
  BY WriteShape DEF Counted
<1>2. CASE Head(out).by = RunLoop /\ ContinueSetup
  BY <1>1, <1>2, SetupOwned
<1>3. CASE Head(out).by \in Sessions /\ ContinueDrain(Head(out).by)
  BY <1>1, <1>3, ContinueDrainOwned
<1>4. CASE /\ Head(out).by = Handler /\ out' = Tail(out)
           /\ UNCHANGED <<run, setup, drain, history>>
  <2>1. /\ Len(out') = Len(out) - 1 /\ Len(out) \in Nat \ {0}
        /\ \A i \in 1 .. Len(out') : out'[i] = out[i + 1]
    BY <1>1, <1>4, TailShape DEF Counted, Types
  <2>2. run' # "waiting"
    BY <1>1, <1>4 DEF Owned, PacketInv, Connected
  <2>3. PacketInv'
    BY <1>4, <2>1, <2>2, OthersOwned DEF Counted, Owned
  <2>4. DrainInv'
    BY <1>1, <1>4 DEF Owned, DrainInv
  <2> QED
    BY <2>3, <2>4 DEF Owned
<1> QED
  BY <1>1, <1>2, <1>3, <1>4 DEF PacketWritten

\* A drain that takes an item has one packet, of that item.
LEMMA TakeOwned ==
    ASSUME Counted, Owned, NEW d \in Sessions, Take(d)
    PROVE  Owned'
<1> USE DEF Counted, Owned
<1> DEFINE item == Head(queue)
<1>1. /\ drain[d].at = "get" /\ item \in QueuedType
      /\ UNCHANGED link
  BY TakeShape
<1>2. /\ Head(Parts(item)) \in PartType /\ Tail(Parts(item)) \in Seq(LaterType)
      /\ item.kind = "event" => /\ Head(Parts(item)) = Part("event", item.id)
                                /\ Tail(Parts(item)) = <<>>
  BY <1>1, PartsType DEF Types, ItemType, QueuedType
<1>3. /\ \A i \in 1 .. Len(out) : out[i].by # d
      /\ ~(d > session) /\ (d = session => run \in {"waiting", "serving"})
      /\ session' = session /\ run' = run
  <2>1. \A i \in 1 .. Len(out) : out[i].by # d
    BY <1>1 DEF PacketInv
  <2>2. ~(d > session) /\ (d = session => run \in {"waiting", "serving"})
    BY <1>1 DEF DrainInv
  <2> QED
    BY <1>1, <2>1, <2>2 DEF link
<1>4. CASE /\ Connected
           /\ drain' = [drain EXCEPT ![d] = [at |-> "publish", item |-> item,
                                            todo |-> Tail(Parts(item))]]
           /\ out' = Append(out, [part |-> Head(Parts(item)), by |-> d])
  <2> DEFINE packet == [part |-> Head(Parts(item)), by |-> d]
  <2>1. packet \in PacketType
    BY <1>2 DEF PacketType
  <2>2. /\ Len(out) \in Nat /\ Len(out') = Len(out) + 1
        /\ \A i \in 1 .. Len(out) : out'[i] = out[i]
        /\ out'[Len(out) + 1] = packet
    BY <1>4, <2>1, AppendProperties, LenProperties DEF Types
  <2>3. /\ drain'[d] = [at |-> "publish", item |-> item, todo |-> Tail(Parts(item))]
        /\ \A e \in Sessions \ {d} : drain'[e] = drain[e]
    BY <1>4 DEF Types
  <2>4. DrainInv'
    BY <1>2, <1>3, <2>3 DEF DrainInv
  <2>5. ASSUME NEW i \in 1 .. Len(out'), out'[i].by \in Sessions
        PROVE  /\ drain'[out'[i].by].at = "publish"
               /\ drain'[out'[i].by].item.kind = "event"
                     => out'[i].part = Part("event", drain'[out'[i].by].item.id)
               /\ \A j \in 1 .. Len(out') : out'[j].by = out'[i].by => i = j
    <3>1. CASE i = Len(out) + 1
      <4>1. out'[i].by = d /\ out'[i].part = Head(Parts(item))
        BY <2>2, <3>1
      <4>2. \A j \in 1 .. Len(out') : out'[j].by = d => j = Len(out) + 1
        BY <1>3, <2>2
      <4> QED
        BY <1>2, <2>3, <3>1, <4>1, <4>2
    <3>2. CASE i # Len(out) + 1
      <4>1. i \in 1 .. Len(out) /\ out'[i] = out[i] /\ out[i].by # d
            /\ drain'[out[i].by] = drain[out[i].by]
        BY <1>3, <2>2, <2>3, <2>5, <3>2
      <4>2. \A j \in 1 .. Len(out) : out[j].by = out[i].by => i = j
        BY <2>5, <4>1 DEF PacketInv
      <4>3. \A j \in 1 .. Len(out') : out'[j].by = out'[i].by => i = j
        BY <2>1, <2>2, <4>1, <4>2
      <4> QED
        BY <2>5, <4>1, <4>3 DEF PacketInv
    <3> QED
      BY <3>1, <3>2
  <2>6. Connected'
    BY <1>1, <1>4 DEF Connected, link
  <2> QED
    BY <2>4, <2>5, <2>6 DEF PacketInv
<1>5. CASE /\ ~Connected /\ UNCHANGED out
           /\ drain' = [drain EXCEPT ![d] = [at |-> "dead", item |-> item, todo |-> <<>>]]
  <2>1. out' = <<>> /\ Len(out') = 0
    BY <1>5 DEF PacketInv
  <2>2. drain'[d] = [at |-> "dead", item |-> item, todo |-> <<>>]
        /\ \A e \in Sessions \ {d} : drain'[e] = drain[e]
    BY <1>5 DEF Types
  <2>3. DrainInv'
    BY <1>3, <2>2 DEF DrainInv
  <2> QED
    BY <2>1, <2>3 DEF PacketInv
<1> QED
  BY <1>4, <1>5, TakeShape

\* The remaining actions
LEMMA ConnectOwned == Counted /\ Owned /\ Connect => Owned'
<1> SUFFICES ASSUME Counted, Owned, Connect PROVE Owned'
    OBVIOUS
<1>1. /\ session' = session + 1 /\ run' = "discovery" /\ UNCHANGED drain
      /\ out' = Append(<<>>, [part |-> Part("other", 0), by |-> RunLoop])
  BY DEF Connect, Publish
<1>2. [part |-> Part("other", 0), by |-> RunLoop] \in PacketType
  BY PartTypes DEF PacketType
<1>3. Len(out') = 1 /\ out'[1].by = RunLoop
  BY <1>1, <1>2
<1>4. PacketInv'
  BY <1>1, <1>3, SessionsAreNoTasks DEF PacketInv, Connected
<1>5. ASSUME NEW d \in Sessions, d > session' \/ d = session'
      PROVE  d > session
  BY <1>1, <1>5 DEF Counted, Types, Sessions
<1>6. DrainInv'
  BY <1>1, <1>5 DEF DrainInv, Owned
<1> QED
  BY <1>4, <1>6 DEF Owned

\* A connection that ends takes all packets with it.
LEMMA SessionEndsOwned == Counted /\ Owned /\ SessionEnds => Owned'
<1> SUFFICES ASSUME Counted, Owned, SessionEnds PROVE Owned'
    OBVIOUS
<1>1. /\ session' = session /\ run' = "waiting" /\ out' = <<>>
      /\ drain' = [d \in Sessions |->
              IF drain[d].at = "publish" THEN [drain[d] EXCEPT !.at = "timeout"] ELSE drain[d]]
  BY DEF SessionEnds
<1>2. PacketInv'
  BY <1>1 DEF PacketInv
<1>3. ASSUME NEW d \in Sessions
      PROVE  /\ drain'[d].item = drain[d].item /\ drain'[d].todo = drain[d].todo
             /\ drain'[d].at = IF drain[d].at = "publish" THEN "timeout" ELSE drain[d].at
  <2>1. drain[d] \in DrainType
    BY DEF Counted, Types
  <2> QED
    BY <1>1, <2>1 DEF DrainType
<1>4. DrainInv'
  BY <1>1, <1>3 DEF DrainInv, Owned
<1> QED
  BY <1>2, <1>4 DEF Owned

\* A drain that fails has no packet left.
LEMMA PublishFailsOwned ==
    ASSUME Counted, Owned, NEW d \in Sessions, PublishFails(d)
    PROVE  Owned'
<1> USE DEF Counted, Owned
<1>1. /\ drain[d].at = "timeout" /\ UNCHANGED <<link, out>>
      /\ drain' = [drain EXCEPT ![d] = [at |-> "dead", item |-> drain[d].item, todo |-> <<>>]]
  BY DEF PublishFails
<1>2. drain'[d] = [at |-> "dead", item |-> drain[d].item, todo |-> <<>>]
      /\ \A e \in Sessions \ {d} : drain'[e] = drain[e]
  BY <1>1 DEF Types
<1>3. DrainInv'
  BY <1>1, <1>2 DEF DrainInv, link
<1>4. PacketInv'
  BY <1>1, <1>2 DEF PacketInv, link, Connected
<1> QED
  BY <1>3, <1>4

\* A command adds a packet of the handler's.
LEMMA CommandOwned == Counted /\ Owned /\ (AcceptCommand \/ RefuseCommand) => Owned'
<1> SUFFICES ASSUME Counted, Owned, AcceptCommand \/ RefuseCommand PROVE Owned'
    OBVIOUS
<1>1. PICK v : Confirmed(v)
  BY CommandShape DEF Counted
<1>2. [part |-> Part("setting", v), by |-> Handler] \in PacketType
  BY <1>1, PartTypes DEF PacketType, Confirmed
<1>3. /\ Len(out) \in Nat /\ Len(out') = Len(out) + 1
      /\ \A i \in 1 .. Len(out) : out'[i] = out[i]
      /\ out'[Len(out) + 1].by = Handler
  BY <1>1, <1>2, AppendProperties, LenProperties DEF Counted, Types, Confirmed
<1>4. run = "serving" /\ UNCHANGED <<link, drain>>
  BY <1>1 DEF AcceptCommand, RefuseCommand, HandlerFree, Confirmed
<1>5. PacketInv'
  <2>1. \A i \in 1 .. Len(out') : i + 0 <= Len(out) => out'[i] = out[i + 0]
    BY <1>3
  <2>2. \A i \in 1 .. Len(out') : i + 0 > Len(out) => out'[i].by \notin Sessions
    BY <1>3, SessionsAreNoTasks
  <2> QED
    BY <1>3, <1>4, <2>1, <2>2, OthersOwned DEF Counted, Owned, link
<1>6. DrainInv'
  BY <1>4 DEF DrainInv, Owned, link
<1> QED
  BY <1>5, <1>6 DEF Owned

\* What changes neither packets nor drains keeps them matched.
LEMMA RestOwned ==
    ASSUME Owned, UNCHANGED <<session, run, out, drain>>
    PROVE  Owned'
BY DEF Owned, DrainInv, PacketInv, Connected

-------------------------------------------------------------------------------
\* The order of events, action by action
Sent == OrderInv /\ EmittedInv

\* The numbers in packets, items and arrivals are numbers.
LEMMA Lengths ==
    Types => /\ Len(out) \in Nat /\ Len(queue) \in Nat /\ Len(received) \in Nat
             /\ \A i \in 1 .. Len(out) : out[i].part.value \in Nat
             /\ \A i \in 1 .. Len(queue) : queue[i].id \in Nat
             /\ \A i \in 1 .. Len(received) : received[i] \in Nat
<1> SUFFICES ASSUME Types
             PROVE  /\ Len(out) \in Nat /\ Len(queue) \in Nat /\ Len(received) \in Nat
                    /\ \A i \in 1 .. Len(out) : out[i].part.value \in Nat
                    /\ \A i \in 1 .. Len(queue) : queue[i].id \in Nat
                    /\ \A i \in 1 .. Len(received) : received[i] \in Nat
    OBVIOUS
<1>1. Len(out) \in Nat /\ Len(queue) \in Nat /\ Len(received) \in Nat
  BY LenProperties DEF Types
<1>2. \A i \in 1 .. Len(out) : out[i] \in PacketType
  BY ElementOfSeq DEF Types
<1>3. \A i \in 1 .. Len(queue) : queue[i] \in QueuedType
  BY ElementOfSeq DEF Types
<1>4. \A i \in 1 .. Len(received) : received[i] \in Nat
  BY ElementOfSeq DEF Types
<1> QED
  BY <1>1, <1>2, <1>3, <1>4 DEF PacketType, PartType, QueuedType

\* What the broker takes of a packet that is an event, or not.
LEMMA WriteSent == Counted /\ Sent /\ Write => Sent'
<1> SUFFICES ASSUME Counted, Sent, Write PROVE Sent'
    OBVIOUS
<1> USE DEF Counted, Sent
<1>1. /\ out # <<>> /\ Head(out) \in PacketType /\ Head(out) = out[1]
      /\ Arrive(out[1].part) /\ PacketWritten(Head(out))
      /\ UNCHANGED <<queue, emitted>>
  BY WriteShape
<1>2. Shifted(Head(out)) \/ out' = Tail(out)
  BY <1>1, SetupShape, DrainShape DEF PacketWritten
<1>3. /\ out' \in Seq(PacketType) /\ Len(out') \in {Len(out) - 1, Len(out)}
      /\ Len(out) \in Nat \ {0}
      /\ \A i \in 1 .. Len(out) - 1 : out'[i] = out[i + 1]
      /\ Len(out') = Len(out) => out'[Len(out)].part \in LaterType
  <2>1. Shifted(Head(out))
    BY <1>2 DEF Shifted
  <2> QED
    BY <1>1, <2>1, ShiftedShape DEF Types
<1>4. \A i \in 1 .. Len(out') : out'[i].part.topic = "event" =>
          i + 1 \in 1 .. Len(out) /\ out'[i] = out[i + 1]
  BY <1>3 DEF LaterType
<1>5. Len(received) \in Nat /\ 1 \in 1 .. Len(out) /\ out[1].part.value \in Nat
  BY <1>3, Lengths
<1>6. \/ received' = received
      \/ /\ out[1].part.topic = "event" /\ Len(received') = Len(received) + 1
         /\ \A i \in 1 .. Len(received) : received'[i] = received[i]
         /\ received'[Len(received) + 1] = out[1].part.value
  <2>1. \/ received' = received
        \/ out[1].part.topic = "event" /\ received' = Append(received, out[1].part.value)
    BY <1>1 DEF Arrive
  <2>2. CASE received' = Append(received, out[1].part.value)
    <3>1. received \in Seq(Nat) /\ out[1].part.value \in Nat
      BY <1>5 DEF Types
    <3> QED
      BY <2>1, <2>2, <3>1, AppendProperties
  <2> QED
    BY <2>1, <2>2
<1>7. \A i \in 1 .. Len(received') :
          \/ i \in 1 .. Len(received) /\ received'[i] = received[i]
          \/ /\ i = Len(received) + 1 /\ out[1].part.topic = "event"
             /\ received'[i] = out[1].part.value
  BY <1>5, <1>6
<1>8. OrderInv'
  <2>1. \A i, j \in 1 .. Len(received') : i < j => received'[i] < received'[j]
    BY <1>5, <1>7 DEF OrderInv
  <2>2. \A i, j \in 1 .. Len(out') :
          i < j /\ out'[i].part.topic = "event" /\ out'[j].part.topic = "event"
            => out'[i].part.value < out'[j].part.value
    BY <1>4 DEF OrderInv
  <2>3. \A i \in 1 .. Len(received'), j \in 1 .. Len(out') :
          out'[j].part.topic = "event" => received'[i] < out'[j].part.value
    BY <1>4, <1>5, <1>7 DEF OrderInv
  <2>4. \A i \in 1 .. Len(received'), j \in 1 .. Len(queue) :
          queue[j].kind = "event" => received'[i] < queue[j].id
    BY <1>5, <1>7 DEF OrderInv
  <2>5. \A i \in 1 .. Len(out'), j \in 1 .. Len(queue) :
          out'[i].part.topic = "event" /\ queue[j].kind = "event"
            => out'[i].part.value < queue[j].id
    BY <1>4 DEF OrderInv
  <2> QED
    BY <1>1, <2>1, <2>2, <2>3, <2>4, <2>5 DEF OrderInv
<1>9. EmittedInv'
  BY <1>1, <1>4, <1>5, <1>7 DEF EmittedInv
<1> QED
  BY <1>8, <1>9

\* The first event of the queue becomes the last of the packets.
LEMMA TakeSent ==
    ASSUME Counted, Sent, NEW d \in Sessions, Take(d)
    PROVE  Sent'
<1> USE DEF Counted, Sent
<1> DEFINE item == Head(queue)
<1>1. /\ queue # <<>> /\ item \in QueuedType /\ item = queue[1] /\ queue' = Tail(queue)
      /\ UNCHANGED <<received, emitted>>
      /\ out' = out \/ out' = Append(out, [part |-> Head(Parts(item)), by |-> d])
  BY TakeShape DEF broker
<1>2. /\ Len(queue) \in Nat \ {0} /\ Len(queue') = Len(queue) - 1
      /\ \A i \in 1 .. Len(queue') : i + 1 \in 1 .. Len(queue) /\ queue'[i] = queue[i + 1]
  BY <1>1, TailShape DEF Types
<1>3. /\ Head(Parts(item)) \in PartType
      /\ item.kind # "config" => Head(Parts(item)) = Part("event", item.id)
      /\ item.kind = "config" => Head(Parts(item)) = Part("other", 0)
  BY <1>1, PartsType DEF Types, ItemType, QueuedType
<1>4. Len(out) \in Nat /\ 1 \in 1 .. Len(queue) /\ queue[1].id \in Nat
  BY <1>2, Lengths
<1>5. \A i \in 1 .. Len(out') :
          \/ i \in 1 .. Len(out) /\ out'[i] = out[i]
          \/ /\ i = Len(out) + 1
             /\ out'[i].part.topic = "event" => /\ queue[1].kind = "event"
                                                /\ out'[i].part.value = queue[1].id
  <2>1. CASE out' = out
    BY <1>4, <2>1
  <2>2. CASE out' = Append(out, [part |-> Head(Parts(item)), by |-> d])
    <3>1. [part |-> Head(Parts(item)), by |-> d] \in PacketType
      BY <1>3 DEF PacketType
    <3>2. /\ Len(out') = Len(out) + 1 /\ \A i \in 1 .. Len(out) : out'[i] = out[i]
          /\ out'[Len(out) + 1] = [part |-> Head(Parts(item)), by |-> d]
      BY <2>2, <3>1, AppendProperties DEF Types
    <3>3. out'[Len(out) + 1].part.topic = "event" =>
            queue[1].kind = "event" /\ out'[Len(out) + 1].part.value = queue[1].id
      BY <1>1, <1>3, <3>2 DEF Part, QueuedType
    <3> QED
      BY <1>4, <3>2, <3>3
  <2> QED
    BY <1>1, <2>1, <2>2
<1>6. OrderInv'
  <2>1. \A i, j \in 1 .. Len(out') :
          i < j /\ out'[i].part.topic = "event" /\ out'[j].part.topic = "event"
            => out'[i].part.value < out'[j].part.value
    BY <1>4, <1>5 DEF OrderInv
  <2>2. \A i, j \in 1 .. Len(queue') :
          i < j /\ queue'[i].kind = "event" /\ queue'[j].kind = "event"
            => queue'[i].id < queue'[j].id
    BY <1>2 DEF OrderInv
  <2>3. \A i \in 1 .. Len(received), j \in 1 .. Len(out') :
          out'[j].part.topic = "event" => received[i] < out'[j].part.value
    BY <1>4, <1>5 DEF OrderInv
  <2>4. \A i \in 1 .. Len(received), j \in 1 .. Len(queue') :
          queue'[j].kind = "event" => received[i] < queue'[j].id
    BY <1>2 DEF OrderInv
  <2>5. \A i \in 1 .. Len(out'), j \in 1 .. Len(queue') :
          out'[i].part.topic = "event" /\ queue'[j].kind = "event"
            => out'[i].part.value < queue'[j].id
    <3> SUFFICES ASSUME NEW i \in 1 .. Len(out'), NEW j \in 1 .. Len(queue'),
                        out'[i].part.topic = "event", queue'[j].kind = "event"
                 PROVE  out'[i].part.value < queue'[j].id
        OBVIOUS
    <3>1. j + 1 \in 1 .. Len(queue) /\ 1 < j + 1 /\ queue'[j] = queue[j + 1]
      BY <1>2
    <3>2. CASE i \in 1 .. Len(out) /\ out'[i] = out[i]
      BY <3>1, <3>2 DEF OrderInv
    <3>3. CASE queue[1].kind = "event" /\ out'[i].part.value = queue[1].id
      BY <1>4, <3>1, <3>3 DEF OrderInv
    <3> QED
      BY <1>5, <3>2, <3>3
  <2> QED
    BY <1>1, <2>1, <2>2, <2>3, <2>4, <2>5 DEF OrderInv
<1>7. EmittedInv'
  BY <1>1, <1>2, <1>4, <1>5 DEF EmittedInv
<1> QED
  BY <1>6, <1>7

\* An action that takes no event: packets are kept or dropped, others come.
LEMMA OthersSent ==
    ASSUME Types, Sent, UNCHANGED <<received, queue, emitted>>,
           \A i \in 1 .. Len(out') : out'[i].part.topic = "event"
               => i \in 1 .. Len(out) /\ out'[i] = out[i]
    PROVE  Sent'
BY Lengths DEF Sent, OrderInv, EmittedInv

\* A command puts no event on its way.
LEMMA CommandSent == Counted /\ Sent /\ (AcceptCommand \/ RefuseCommand) => Sent'
<1> SUFFICES ASSUME Counted, Sent, NEW v, Confirmed(v) PROVE Sent'
    BY CommandShape DEF Counted
<1>1. /\ [part |-> Part("setting", v), by |-> Handler] \in PacketType
      /\ Part("setting", v).topic = "setting"
  BY PartTypes DEF PacketType, Confirmed, Part
<1>2. /\ Len(out) \in Nat /\ Len(out') = Len(out) + 1
      /\ \A i \in 1 .. Len(out) : out'[i] = out[i]
      /\ out'[Len(out) + 1].part.topic = "setting"
  BY <1>1, AppendProperties, LenProperties DEF Counted, Types, Confirmed
<1> QED
  BY <1>2, OthersSent DEF Counted, Confirmed, broker

\* A connection that begins or ends puts no event on its way.
LEMMA ConnectionSent == Counted /\ Sent /\ (Connect \/ SessionEnds) => Sent'
<1> SUFFICES ASSUME Counted, Sent, Connect \/ SessionEnds PROVE Sent'
    OBVIOUS
<1>1. UNCHANGED <<received, queue, emitted>>
  BY DEF Connect, SessionEnds, broker
<1>2. \A i \in 1 .. Len(out') : out'[i].part.topic # "event"
  <2>1. CASE Connect
    <3>1. out' = Append(<<>>, [part |-> Part("other", 0), by |-> RunLoop])
      BY <2>1 DEF Connect, Publish
    <3>2. Len(out') = 1 /\ out'[1].part = Part("other", 0)
      BY <3>1
    <3> QED
      BY <3>2 DEF Part
  <2>2. CASE SessionEnds
    BY <2>2 DEF SessionEnds
  <2> QED
    BY <2>1, <2>2
<1> QED
  BY <1>1, <1>2, OthersSent DEF Counted

\* A new event is younger than all others.
LEMMA EnqueueSent == Counted /\ Sent /\ (EmitEvent \/ ResetOnUnplug) => Sent'
<1> SUFFICES ASSUME Counted, Sent, EmitEvent \/ ResetOnUnplug PROVE Sent'
    OBVIOUS
<1> USE DEF Counted, Sent
<1>1. PICK item : /\ Enqueued(item) /\ emitted' \in {emitted, emitted + 1}
                  /\ item.kind = "event" => item.id = emitted + 1 /\ emitted' = emitted + 1
  BY EnqueueShape
<1>2. /\ Len(queue) \in Nat /\ Len(queue') = Len(queue) + 1
      /\ \A i \in 1 .. Len(queue) : queue'[i] = queue[i]
      /\ queue'[Len(queue) + 1] = item
  BY <1>1, AppendProperties, LenProperties DEF Types, Enqueued
<1>3. UNCHANGED <<received, out>> /\ emitted \in Nat
  BY <1>1 DEF Enqueued, broker, Types
<1>4. EmittedInv'
  <2>1. emitted' \in Nat /\ emitted <= emitted'
    BY <1>1, <1>3
  <2>2. \A i \in 1 .. Len(received') : received'[i] <= emitted'
    BY <1>3, <2>1, Lengths DEF EmittedInv
  <2>3. \A i \in 1 .. Len(out') :
          out'[i].part.topic = "event" => out'[i].part.value <= emitted'
    BY <1>3, <2>1, Lengths DEF EmittedInv
  <2>4. \A i \in 1 .. Len(queue') : queue'[i].kind = "event" => queue'[i].id <= emitted'
    BY <1>1, <1>2, <1>3, <2>1, Lengths DEF EmittedInv
  <2> QED
    BY <2>2, <2>3, <2>4 DEF EmittedInv
<1>5. \A j \in 1 .. Len(queue') : queue'[j].kind = "event" =>
          \/ j \in 1 .. Len(queue) /\ queue'[j] = queue[j]
          \/ j = Len(queue) + 1 /\ queue'[j].id = emitted + 1
  BY <1>1, <1>2
<1>6. /\ \A i \in 1 .. Len(received) : received[i] < emitted + 1
      /\ \A i \in 1 .. Len(out) : out[i].part.topic = "event" => out[i].part.value < emitted + 1
      /\ \A i \in 1 .. Len(queue) : queue[i].kind = "event" => queue[i].id < emitted + 1
  BY <1>3, Lengths DEF EmittedInv
<1>7. OrderInv'
  <2>1. \A i, j \in 1 .. Len(queue') :
          i < j /\ queue'[i].kind = "event" /\ queue'[j].kind = "event"
            => queue'[i].id < queue'[j].id
    BY <1>2, <1>5, <1>6 DEF OrderInv
  <2>2. \A i \in 1 .. Len(received), j \in 1 .. Len(queue') :
          queue'[j].kind = "event" => received[i] < queue'[j].id
    BY <1>5, <1>6 DEF OrderInv
  <2>3. \A i \in 1 .. Len(out), j \in 1 .. Len(queue') :
          out[i].part.topic = "event" /\ queue'[j].kind = "event"
            => out[i].part.value < queue'[j].id
    BY <1>5, <1>6 DEF OrderInv
  <2> QED
    BY <1>3, <2>1, <2>2, <2>3 DEF OrderInv
<1> QED
  BY <1>4, <1>7

\* What touches no sequence keeps the order.
LEMMA RestSent == Sent /\ UNCHANGED <<out, queue, received, emitted>> => Sent'
BY DEF Sent, OrderInv, EmittedInv

-------------------------------------------------------------------------------
\* Where an event is, action by action
Arrived(e) == \E i \in 1 .. Len(received) : received[i] = e
Accounted == \A e \in 1 .. emitted : Queued(e) \/ Held(e) \/ e \in vanished \/ Arrived(e)

\* What has arrived or vanished stays so; what is written joins it.
LEMMA ArriveKeeps ==
    ASSUME Types, NEW part \in PartType, Arrive(part)
    PROVE  /\ \A e : Arrived(e) => Arrived(e)'
           /\ vanished \subseteq vanished'
           /\ part.topic = "event" => part.value \in vanished' \/ Arrived(part.value)'
<1>1. Len(received) \in Nat /\ received \in Seq(Nat) /\ part.value \in Nat
  BY Lengths DEF Types, PartType
<1>2. CASE alive /\ part.topic = "event"
  <2>1. received' = Append(received, part.value)
    BY <1>2 DEF Arrive
  <2>2. /\ Len(received') = Len(received) + 1
        /\ \A i \in 1 .. Len(received) : received'[i] = received[i]
        /\ received'[Len(received) + 1] = part.value
    BY <1>1, <2>1, AppendProperties
  <2>3. vanished' = vanished
    BY <1>2 DEF Arrive
  <2>4. ASSUME NEW e, Arrived(e) PROVE Arrived(e)'
    <3>1. PICK i \in 1 .. Len(received) : received[i] = e
      BY <2>4 DEF Arrived
    <3>2. i \in 1 .. Len(received') /\ received'[i] = e
      BY <1>1, <2>2, <3>1
    <3> QED
      BY <3>2 DEF Arrived
  <2>5. Arrived(part.value)'
    <3>1. Len(received) + 1 \in 1 .. Len(received')
      BY <1>1, <2>2
    <3> QED
      BY <2>2, <3>1 DEF Arrived
  <2> QED
    BY <2>3, <2>4, <2>5
<1>3. CASE ~(alive /\ part.topic = "event")
  <2>1. received' = received
    BY <1>3 DEF Arrive
  <2>2. vanished \subseteq vanished' /\ (part.topic = "event" => part.value \in vanished')
    BY <1>3 DEF Arrive
  <2> QED
    BY <2>1, <2>2 DEF Arrived
<1> QED
  BY <1>2, <1>3

\* An event that is written arrives or vanishes.
LEMMA WriteAccounted == Counted /\ Owned /\ Accounted /\ Write => Accounted'
<1> SUFFICES ASSUME Counted, Owned, Write, Accounted, NEW e \in 1 .. emitted'
             PROVE  Queued(e)' \/ Held(e)' \/ e \in vanished' \/ Arrived(e)'
    BY DEF Accounted
<1> USE DEF Counted, Owned
<1>1. /\ out # <<>> /\ Head(out) \in PacketType /\ Head(out) = out[1]
      /\ Arrive(out[1].part) /\ PacketWritten(Head(out))
      /\ UNCHANGED <<queue, emitted, session>>
  BY WriteShape
<1>2. PICK part \in PartType :
         /\ part = out[1].part
         /\ \A x : Arrived(x) => Arrived(x)'
         /\ vanished \subseteq vanished'
         /\ part.topic = "event" => part.value \in vanished' \/ Arrived(part.value)'
  <2>1. PICK part \in PartType : part = out[1].part
    BY <1>1 DEF PacketType
  <2> QED
    BY <1>1, <2>1, ArriveKeeps
<1>3. 1 \in 1 .. Len(out)
  BY <1>1, TailShape DEF Types
<1>4. CASE ~Held(e)
  BY <1>1, <1>2, <1>4 DEF Accounted, Queued
<1>5. CASE Held(e)
  <2>1. PICK d \in Sessions : drain[d].item = [kind |-> "event", id |-> e]
    BY <1>5 DEF Held
  <2>2. drain[d].at \notin {"none", "get"} /\ drain[d].todo = <<>>
    BY <2>1 DEF DrainInv
  <2>3. CASE drain'[d].item = drain[d].item
    BY <2>1, <2>3 DEF Held
  <2>4. CASE Head(out).by = RunLoop /\ ContinueSetup
    <3>1. drain' = IF run = "online" THEN StartDrain ELSE drain
      BY <1>1, <2>4, SetupShape
    <3>2. run = "online" => d # session
      BY <2>2 DEF DrainInv
    <3> QED
      BY <2>3, <3>1, <3>2 DEF StartDrain, Types
  <2>5. CASE Head(out).by \in Sessions /\ ContinueDrain(Head(out).by)
    <3>1. CASE Head(out).by = d
      <4>1. part = Part("event", e)
        BY <1>1, <1>2, <1>3, <2>1, <3>1 DEF PacketInv
      <4>2. part.topic = "event" /\ part.value = e
        BY <4>1 DEF Part
      <4> QED
        BY <1>2, <4>2
    <3>2. CASE Head(out).by # d
      <4>1. \/ drain' = [drain EXCEPT ![Head(out).by] =
                           [drain[Head(out).by] EXCEPT !.todo = Tail(drain[Head(out).by].todo)]]
            \/ drain' = [drain EXCEPT ![Head(out).by] = Idle]
        BY <1>1, <2>5, DrainShape
      <4> QED
        BY <2>3, <3>2, <4>1 DEF Types
    <3> QED
      BY <3>1, <3>2
  <2> QED
    BY <1>1, <2>3, <2>4, <2>5 DEF PacketWritten
<1> QED
  BY <1>4, <1>5

\* An event that is taken is held.
LEMMA TakeAccounted ==
    ASSUME Counted, Owned, Accounted, NEW d \in Sessions, Take(d)
    PROVE  Accounted'
<1> SUFFICES ASSUME NEW e \in 1 .. emitted'
             PROVE  Queued(e)' \/ Held(e)' \/ e \in vanished' \/ Arrived(e)'
    BY DEF Accounted
<1> USE DEF Counted, Owned
<1>1. /\ drain[d].at = "get" /\ queue # <<>> /\ queue' = Tail(queue)
      /\ UNCHANGED <<emitted, received, vanished>>
      /\ drain'[d].item = queue[1] /\ \A c \in Sessions \ {d} : drain'[c] = drain[c]
  <2>1. /\ drain[d].at = "get" /\ queue # <<>> /\ queue' = Tail(queue)
        /\ UNCHANGED <<emitted, received, vanished>>
    BY TakeShape DEF broker
  <2>2. PICK todo, at : drain' = [drain EXCEPT ![d] = [at |-> at, item |-> queue[1], todo |-> todo]]
    BY TakeShape
  <2> QED
    BY <2>1, <2>2 DEF Types
<1>2. /\ Len(queue) \in Nat \ {0} /\ Len(queue') = Len(queue) - 1
      /\ \A i \in 1 .. Len(queue') : queue'[i] = queue[i + 1]
  BY <1>1, TailShape DEF Types
<1>3. CASE Queued(e)
  <2>1. PICK i \in 1 .. Len(queue) : queue[i] = [kind |-> "event", id |-> e]
    BY <1>3, LenProperties DEF Queued, Types
  <2>2. CASE i = 1
    BY <1>1, <2>1, <2>2 DEF Held
  <2>3. CASE i # 1
    <3>1. i - 1 \in 1 .. Len(queue') /\ queue'[i - 1] = [kind |-> "event", id |-> e]
      BY <1>2, <2>1, <2>3
    <3>2. DOMAIN queue' = 1 .. Len(queue')
      BY <1>1, TailShape, LenProperties DEF Types
    <3> QED
      BY <3>1, <3>2 DEF Queued
  <2> QED
    BY <2>2, <2>3
<1>4. CASE Held(e)
  <2>1. PICK c \in Sessions : drain[c].item = [kind |-> "event", id |-> e]
    BY <1>4 DEF Held
  <2>2. c # d
    BY <1>1, <2>1 DEF DrainInv
  <2> QED
    BY <1>1, <2>1, <2>2 DEF Held
<1>5. CASE e \in vanished \/ Arrived(e)
  BY <1>1, <1>5 DEF Arrived
<1> QED
  BY <1>1, <1>3, <1>4, <1>5 DEF Accounted

\* A new event is on the queue.
LEMMA EnqueueAccounted == Counted /\ Accounted /\ (EmitEvent \/ ResetOnUnplug) => Accounted'
<1> SUFFICES ASSUME Counted, Accounted, EmitEvent \/ ResetOnUnplug, NEW e \in 1 .. emitted'
             PROVE  Queued(e)' \/ Held(e)' \/ e \in vanished' \/ Arrived(e)'
    BY DEF Accounted
<1> USE DEF Counted
<1>1. PICK item : /\ Enqueued(item)
                  /\ \/ emitted' = emitted
                     \/ emitted' = emitted + 1 /\ item = [kind |-> "event", id |-> emitted + 1]
  BY EnqueueShape
<1>2. /\ DOMAIN queue = 1 .. Len(queue) /\ Len(queue) \in Nat
      /\ DOMAIN queue' = 1 .. Len(queue) + 1
      /\ \A i \in 1 .. Len(queue) : queue'[i] = queue[i]
      /\ queue'[Len(queue) + 1] = item
  BY <1>1, AppendProperties, LenProperties DEF Types, Enqueued
<1>3. UNCHANGED <<received, vanished, drain>> /\ emitted \in Nat
  BY <1>1 DEF Enqueued, broker, Types
<1>4. CASE e \in 1 .. emitted
  <2>1. Queued(e) => Queued(e)'
    BY <1>2 DEF Queued
  <2> QED
    BY <1>3, <1>4, <2>1 DEF Accounted, Held, Arrived
<1>5. CASE e = emitted + 1 /\ item = [kind |-> "event", id |-> emitted + 1]
  BY <1>2, <1>5 DEF Queued
<1> QED
  BY <1>1, <1>3, <1>4, <1>5

\* What leaves the queue, the drains' items and the broker alone loses nothing.
LEMMA RestAccounted ==
    ASSUME Accounted, UNCHANGED <<queue, emitted, received, vanished>>,
           \A d \in Sessions : drain'[d].item = drain[d].item
    PROVE  Accounted'
BY DEF Accounted, Queued, Held, Arrived

-------------------------------------------------------------------------------
\* The settings: what is still to be published, and what has been published last.
Setting(part) == part.topic = "setting"

\* What is left of a list of settings: nothing, or a version that was in force.
Listed(todo) == todo = <<>> \/ \E v \in 0 .. settings : todo = <<Part("setting", v)>>

Versions ==
    /\ newest <= settings
    /\ Listed(setup)
    /\ \A d \in Sessions : Listed(drain[d].todo)

\* A drain that waits for a publication has a packet that is not written yet.
Waited ==
    \A d \in Sessions :
       drain[d].at = "publish" => \E i \in 1 .. Len(out) : out[i].by = d

\* The settings in force will be published.
Promised ==
    \/ run = "discovery"
    \/ run = "config" /\ setup = <<Part("setting", settings)>>
    \/ \E i \in 1 .. Len(queue) : queue[i].kind = "config"
    \/ \E d \in Sessions :
          drain[d].at = "publish" /\ drain[d].todo = <<Part("setting", settings)>>

PromiseInv == Connected => newest = settings \/ Promised

\* Once all packets are written the broker has version v: it is the last one on
\* its way, or there is none on its way and the broker has it.
Outcome(packets, has, v) ==
    /\ \A i \in 1 .. Len(packets) :
          /\ Setting(packets[i].part)
          /\ \A j \in 1 .. Len(packets) : i < j => ~Setting(packets[j].part)
          => packets[i].part.value = v
    /\ (\A i \in 1 .. Len(packets) : ~Setting(packets[i].part)) => has = v

SettingsHanded == run \in {"online", "serving"} \/ (run = "config" /\ setup = <<>>)

NewestIsLast == alive /\ SettingsHanded /\ ~overtaken => Outcome(out, shown, newest)

\* A packet more decides the outcome if it has settings, and else does not matter.
LEMMA OutcomeAppend ==
    ASSUME NEW packets \in Seq(PacketType), NEW packet \in PacketType, NEW has, NEW v
    PROVE  /\ Setting(packet.part) => Outcome(Append(packets, packet), has, packet.part.value)
           /\ ~Setting(packet.part) /\ Outcome(packets, has, v)
                 => Outcome(Append(packets, packet), has, v)
<1> DEFINE more == Append(packets, packet)
<1>1. /\ Len(packets) \in Nat /\ Len(more) = Len(packets) + 1
      /\ \A i \in 1 .. Len(packets) : more[i] = packets[i]
      /\ more[Len(packets) + 1] = packet
  BY AppendProperties, LenProperties
<1> HIDE DEF more
<1>2. 1 .. Len(more) = 1 .. Len(packets) \cup {Len(packets) + 1}
  BY <1>1
<1>3. ASSUME Setting(packet.part) PROVE Outcome(more, has, packet.part.value)
  BY <1>1, <1>2, <1>3 DEF Outcome
<1>4. ASSUME ~Setting(packet.part), Outcome(packets, has, v) PROVE Outcome(more, has, v)
  <2>1. ASSUME NEW i \in 1 .. Len(more), Setting(more[i].part),
               \A j \in 1 .. Len(more) : i < j => ~Setting(more[j].part)
        PROVE  more[i].part.value = v
    <3>1. i \in 1 .. Len(packets) /\ more[i] = packets[i]
      BY <1>1, <1>2, <1>4, <2>1
    <3>2. \A j \in 1 .. Len(packets) : i < j => ~Setting(packets[j].part)
      BY <1>1, <1>2, <2>1
    <3> QED
      BY <1>4, <2>1, <3>1, <3>2 DEF Outcome
  <2>2. (\A i \in 1 .. Len(more) : ~Setting(more[i].part)) => has = v
    BY <1>1, <1>2, <1>4 DEF Outcome
  <2> QED
    BY <2>1, <2>2 DEF Outcome
<1> QED
  BY <1>3, <1>4 DEF more

\* The first packet goes to the broker, and the outcome is the same.
LEMMA OutcomeTail ==
    ASSUME NEW packets \in Seq(PacketType), packets # <<>>, NEW has, NEW v,
           Outcome(packets, has, v)
    PROVE  Outcome(Tail(packets),
                   IF Setting(Head(packets).part) THEN Head(packets).part.value ELSE has, v)
<1> DEFINE rest == Tail(packets)
           now == IF Setting(Head(packets).part) THEN Head(packets).part.value ELSE has
<1>1. /\ Len(packets) \in Nat \ {0} /\ Len(rest) = Len(packets) - 1
      /\ \A i \in 1 .. Len(rest) : rest[i] = packets[i + 1]
      /\ Head(packets) = packets[1]
  BY TailShape
<1> HIDE DEF rest
<1>2. /\ 1 \in 1 .. Len(packets)
      /\ \A i \in 1 .. Len(rest) : i + 1 \in 1 .. Len(packets)
      /\ \A j \in 1 .. Len(packets) :
            j = 1 \/ (j - 1 \in 1 .. Len(rest) /\ rest[j - 1] = packets[j])
  BY <1>1
<1>3. ASSUME NEW i \in 1 .. Len(rest), Setting(rest[i].part),
             \A j \in 1 .. Len(rest) : i < j => ~Setting(rest[j].part)
      PROVE  rest[i].part.value = v
  <2>1. i + 1 \in 1 .. Len(packets) /\ rest[i] = packets[i + 1]
    BY <1>1, <1>2
  <2>2. ASSUME NEW j \in 1 .. Len(packets), i + 1 < j PROVE ~Setting(packets[j].part)
    <3>1. j - 1 \in 1 .. Len(rest) /\ rest[j - 1] = packets[j] /\ i < j - 1
      BY <1>2, <2>2
    <3> QED
      BY <1>3, <3>1
  <2> QED
    BY <1>3, <2>1, <2>2 DEF Outcome
<1>4. ASSUME \A i \in 1 .. Len(rest) : ~Setting(rest[i].part)
      PROVE  now = v
  <2>1. \A j \in 1 .. Len(packets) : j # 1 => ~Setting(packets[j].part)
    BY <1>2, <1>4
  <2> QED
    BY <1>1, <1>2, <2>1 DEF Outcome
<1> QED
  BY <1>3, <1>4 DEF Outcome, rest

\* Publishing a version that was in force.
LEMMA HandSettings ==
    ASSUME newest \in Nat, settings \in Nat, newest <= settings,
           NEW v \in 0 .. settings, Hand(Part("setting", v))
    PROVE  /\ newest' \in 0 .. settings
           /\ newest = settings \/ v = settings => newest' = settings
           /\ ~overtaken' => newest' = v
<1>1. overtaken' = (v < newest) /\ newest' = IF v > newest THEN v ELSE newest
  BY DEF Hand, Part
<1>2. /\ newest' \in 0 .. settings
      /\ newest = settings \/ v = settings => newest' = settings
      /\ ~(v < newest) => newest' = v
  BY <1>1
<1> QED
  BY <1>1, <1>2, Zenon

-------------------------------------------------------------------------------
\* What writing a packet publishes: settings from a list, or anything else.
PublishesOther ==
    /\ UNCHANGED history
    /\ \/ out' = Tail(out)
       \/ \E packet \in PacketType : ~Setting(packet.part) /\ out' = Append(Tail(out), packet)

PublishesSettings(v) ==
    /\ v \in 0 .. settings /\ Hand(Part("setting", v))
    /\ out' = Append(Tail(out), [part |-> Part("setting", v), by |-> Head(out).by])

\* The set-up publishes the settings, once.
LEMMA SetupPublishes ==
    ASSUME Types, Versions, ContinueSetup, Head(out).by = RunLoop
    PROVE  \/ /\ run = "discovery" /\ PublishesOther
              /\ run' = "config" /\ setup' = <<Part("setting", settings)>>
           \/ /\ run = "config" /\ run' = "config" /\ setup' = <<>>
              /\ \E v \in 0 .. settings : setup = <<Part("setting", v)>> /\ PublishesSettings(v)
           \/ run = "config" /\ setup = <<>> /\ run' = "online" /\ setup' = <<>> /\ PublishesOther
           \/ run = "online" /\ run' = "serving" /\ setup' = setup /\ PublishesOther
<1> USE DEF Publish
<1>1. [part |-> Part("other", 0), by |-> RunLoop] \in PacketType /\ ~Setting(Part("other", 0))
  BY PartTypes DEF PacketType, Part, Setting
<1>2. CASE run = "discovery"
  <2>1. Head(ConfigParts) = Part("other", 0) /\ Tail(ConfigParts) = <<Part("setting", settings)>>
    BY DEF ConfigParts
  <2>2. /\ run' = "config" /\ setup' = Tail(ConfigParts) /\ UNCHANGED history
        /\ out' = Append(Tail(out), [part |-> Head(ConfigParts), by |-> RunLoop])
    BY <1>2 DEF ContinueSetup
  <2> QED
    BY <1>1, <1>2, <2>1, <2>2 DEF PublishesOther
<1>3. CASE run = "config" /\ setup # <<>>
  <2>1. PICK v \in 0 .. settings : setup = <<Part("setting", v)>>
    BY <1>3 DEF Versions, Listed
  <2>2. Head(setup) = Part("setting", v) /\ Tail(setup) = <<>>
    BY <2>1
  <2>3. /\ run' = "config" /\ setup' = <<>> /\ Hand(Part("setting", v))
        /\ out' = Append(Tail(out), [part |-> Part("setting", v), by |-> RunLoop])
    BY <1>3, <2>2 DEF ContinueSetup
  <2> QED
    BY <1>3, <2>1, <2>3 DEF PublishesSettings
<1>4. CASE run = "config" /\ setup = <<>>
  BY <1>1, <1>4 DEF ContinueSetup, PublishesOther, history
<1>5. CASE run = "online"
  BY <1>5 DEF ContinueSetup, PublishesOther, history
<1> QED
  BY <1>2, <1>3, <1>4, <1>5 DEF ContinueSetup

\* A drain publishes the settings, once, or is done with its item.
LEMMA DrainPublishes ==
    ASSUME Types, Versions, NEW d \in Sessions, Head(out).by = d, ContinueDrain(d)
    PROVE  \/ /\ \E v \in 0 .. settings :
                    drain[d].todo = <<Part("setting", v)>> /\ PublishesSettings(v)
              /\ drain' = [drain EXCEPT ![d] = [drain[d] EXCEPT !.todo = <<>>]]
           \/ /\ drain[d].todo = <<>> /\ PublishesOther
              /\ drain' = [drain EXCEPT ![d] = Idle]
<1>1. CASE drain[d].todo # <<>>
  <2>1. PICK v \in 0 .. settings : drain[d].todo = <<Part("setting", v)>>
    BY <1>1 DEF Versions, Listed
  <2>2. Head(drain[d].todo) = Part("setting", v) /\ Tail(drain[d].todo) = <<>>
    BY <2>1
  <2>3. /\ drain' = [drain EXCEPT ![d] = [drain[d] EXCEPT !.todo = Tail(drain[d].todo)]]
        /\ Hand(Head(drain[d].todo))
        /\ out' = Append(Tail(out), [part |-> Head(drain[d].todo), by |-> d])
    BY <1>1 DEF ContinueDrain, Publish
  <2>4. PublishesSettings(v)
    BY <2>2, <2>3 DEF PublishesSettings
  <2> QED
    BY <2>1, <2>2, <2>3, <2>4
<1>2. CASE drain[d].todo = <<>>
  BY <1>2 DEF ContinueDrain, PublishesOther
<1> QED
  BY <1>1, <1>2

-------------------------------------------------------------------------------
\* Writing a packet
Publishes == PublishesOther \/ \E v \in 0 .. settings : PublishesSettings(v)

\* The others move up, and settings are published by the task that was written to.
LEMMA PublishesShape ==
    ASSUME Types, out # <<>>, Publishes
    PROVE  /\ \A i \in 1 .. Len(out) : i # 1 =>
                 i - 1 \in 1 .. Len(out') /\ out'[i - 1] = out[i]
           /\ \A v \in 0 .. settings : PublishesSettings(v) =>
                 \E i \in 1 .. Len(out') : out'[i].by = Head(out).by
<1>1. /\ Len(out) \in Nat \ {0} /\ Head(out) \in PacketType /\ out \in Seq(PacketType)
      /\ Len(Tail(out)) = Len(out) - 1
      /\ \A i \in 1 .. Len(Tail(out)) : Tail(out)[i] = out[i + 1]
  BY TailShape DEF Types
<1>2. ASSUME NEW packet \in PacketType, out' = Append(Tail(out), packet)
      PROVE  /\ Len(out') = Len(out) /\ out'[Len(out)] = packet
             /\ \A i \in 1 .. Len(out) - 1 : out'[i] = out[i + 1]
  BY <1>1, <1>2, ShiftShape
<1>3. ASSUME NEW v \in 0 .. settings
      PROVE  [part |-> Part("setting", v), by |-> Head(out).by] \in PacketType
  BY <1>1, PartTypes DEF PacketType, Types
<1>4. ASSUME NEW i \in 1 .. Len(out), i # 1
      PROVE  i - 1 \in 1 .. Len(out') /\ out'[i - 1] = out[i]
  <2>1. i - 1 \in 1 .. Len(out) - 1 /\ (i - 1) + 1 = i
    BY <1>1, <1>4
  <2>2. CASE out' = Tail(out)
    BY <1>1, <2>1, <2>2
  <2>3. ASSUME NEW packet \in PacketType, out' = Append(Tail(out), packet)
        PROVE  i - 1 \in 1 .. Len(out') /\ out'[i - 1] = out[i]
    BY <1>1, <1>2, <2>1, <2>3
  <2> QED
    BY <1>3, <2>2, <2>3 DEF Publishes, PublishesOther, PublishesSettings
<1>5. ASSUME NEW v \in 0 .. settings, PublishesSettings(v)
      PROVE  \E i \in 1 .. Len(out') : out'[i].by = Head(out).by
  <2>1. /\ Len(out') = Len(out)
        /\ out'[Len(out)] = [part |-> Part("setting", v), by |-> Head(out).by]
    BY <1>2, <1>3, <1>5 DEF PublishesSettings
  <2>2. Len(out) \in 1 .. Len(out')
    BY <1>1, <2>1
  <2> QED
    BY <2>1, <2>2
<1> QED
  BY <1>4, <1>5

\* Unless an older version follows a newer one, the newest stays the last.
LEMMA PublishesOutcome ==
    ASSUME Types, newest <= settings, out # <<>>, Arrive(Head(out).part), alive, ~overtaken',
           \/ PublishesOther /\ Outcome(out, shown, newest)
           \/ \E v \in 0 .. settings : PublishesSettings(v)
    PROVE  Outcome(out', shown', newest')
<1>1. /\ Head(out) \in PacketType /\ Tail(out) \in Seq(PacketType) /\ out \in Seq(PacketType)
      /\ newest \in Nat /\ settings \in Nat
  BY TailShape DEF Types
<1>2. CASE PublishesOther /\ Outcome(out, shown, newest)
  <2>1. shown' = IF Setting(Head(out).part) THEN Head(out).part.value ELSE shown
    BY DEF Arrive, Setting
  <2>2. Outcome(Tail(out), shown', newest)
    BY <1>1, <1>2, <2>1, OutcomeTail
  <2>3. newest' = newest
    BY <1>2 DEF PublishesOther, history
  <2>4. CASE out' = Tail(out)
    BY <2>2, <2>3, <2>4
  <2>5. ASSUME NEW packet \in PacketType, ~Setting(packet.part), out' = Append(Tail(out), packet)
        PROVE  Outcome(out', shown', newest)
    BY <1>1, <2>2, <2>5, OutcomeAppend
  <2> QED
    BY <1>2, <2>3, <2>4, <2>5 DEF PublishesOther
<1>3. ASSUME NEW v \in 0 .. settings, PublishesSettings(v)
      PROVE  Outcome(out', shown', newest')
  <2> DEFINE packet == [part |-> Part("setting", v), by |-> Head(out).by]
  <2>0. Part("setting", v) \in PartType
    BY <1>1, PartTypes
  <2>1. packet \in PacketType /\ Setting(packet.part) /\ packet.part.value = v
    BY <1>1, <2>0 DEF PacketType, Setting, Part
  <2>2. out' = Append(Tail(out), packet)
    BY <1>3 DEF PublishesSettings
  <2>3. newest' = v
    BY <1>1, <1>3, HandSettings DEF PublishesSettings
  <2> HIDE DEF packet
  <2>4. Outcome(Append(Tail(out), packet), shown', packet.part.value)
    BY <1>1, <2>1, OutcomeAppend
  <2> QED
    BY <2>1, <2>2, <2>3, <2>4
<1> QED
  BY <1>2, <1>3

\* Everything that is known of the settings
ShownInv == Versions /\ Waited /\ PromiseInv /\ NewestIsLast

\* The newest version never passes the one in force, and what is published can
\* only bring it there.
LEMMA PublishesVersion ==
    ASSUME Types, newest <= settings, Publishes, UNCHANGED settings
    PROVE  /\ newest' <= settings' /\ (newest = settings => newest' = settings')
           /\ PublishesSettings(settings) => newest' = settings'
<1>1. newest \in Nat /\ settings \in Nat
  BY DEF Types
<1>2. CASE PublishesOther
  BY <1>1, <1>2, HandSettings DEF PublishesOther, PublishesSettings, history
<1>3. ASSUME NEW v \in 0 .. settings, PublishesSettings(v)
      PROVE  newest' <= settings' /\ (newest = settings \/ v = settings => newest' = settings')
  <2>1. newest' \in 0 .. settings /\ (newest = settings \/ v = settings => newest' = settings)
    BY <1>1, <1>3, HandSettings DEF PublishesSettings
  <2> QED
    BY <1>1, <2>1
<1> QED
  BY <1>1, <1>2, <1>3 DEF Publishes

\* The set-up publishes.
LEMMA SetupShown ==
    ASSUME Counted, Owned, ShownInv, Arrive(Head(out).part), out # <<>>,
           Head(out).by = RunLoop, ContinueSetup, UNCHANGED <<alive, session, queue, settings>>
    PROVE  ShownInv'
<1> USE DEF Counted, Owned, ShownInv
<1>1. \/ /\ run = "discovery" /\ PublishesOther
         /\ run' = "config" /\ setup' = <<Part("setting", settings)>>
      \/ /\ run = "config" /\ run' = "config" /\ setup' = <<>>
         /\ \E v \in 0 .. settings : setup = <<Part("setting", v)>> /\ PublishesSettings(v)
      \/ run = "config" /\ setup = <<>> /\ run' = "online" /\ setup' = <<>> /\ PublishesOther
      \/ run = "online" /\ run' = "serving" /\ setup' = setup /\ PublishesOther
  BY SetupPublishes
<1>2. Publishes
  BY <1>1 DEF Publishes
<1>3. /\ newest' <= settings' /\ (newest = settings => newest' = settings')
      /\ PublishesSettings(settings) => newest' = settings'
  BY <1>2, PublishesVersion DEF Versions
<1>4. ASSUME NEW d \in Sessions
      PROVE  \/ drain'[d] = drain[d]
             \/ drain[d].at = "none" /\ drain'[d].at = "get" /\ drain'[d].todo = <<>>
  <2>1. drain' = IF run = "online" THEN StartDrain ELSE drain
    BY SetupShape
  <2>2. run = "online" => drain[session].at = "none" \/ session \notin Sessions
    BY DEF DrainInv
  <2> QED
    BY <2>1, <2>2 DEF StartDrain, Types, Idle
<1>5. Versions'
  <2>1. settings \in 0 .. settings
    BY DEF Types
  <2>2. Listed(setup)'
    BY <1>1, <2>1 DEF Versions, Listed
  <2>3. \A d \in Sessions : Listed(drain[d].todo)'
    BY <1>4 DEF Versions, Listed
  <2> QED
    BY <1>3, <2>2, <2>3 DEF Versions
<1>6. Waited'
  <2> SUFFICES ASSUME NEW d \in Sessions, drain'[d].at = "publish"
               PROVE  \E i \in 1 .. Len(out') : out'[i].by = d
      BY DEF Waited
  <2>1. PICK i \in 1 .. Len(out) : out[i].by = d
    BY <1>4 DEF Waited
  <2>2. i # 1
    BY <2>1, SessionsAreNoTasks, TailShape DEF Types
  <2>3. i - 1 \in 1 .. Len(out') /\ out'[i - 1] = out[i]
    BY <1>2, <2>2, PublishesShape
  <2> QED
    BY <2>1, <2>3
<1>7. PromiseInv'
  <2> SUFFICES ASSUME newest' # settings' PROVE Promised'
      BY DEF PromiseInv
  <2>1. newest # settings /\ Promised
    BY <1>1, <1>3 DEF PromiseInv, Connected
  <2>2. CASE run = "discovery"
    BY <1>1, <2>2 DEF Promised
  <2>3. CASE run = "config" /\ setup = <<Part("setting", settings)>>
    <3>1. PICK v \in 0 .. settings : setup = <<Part("setting", v)>> /\ PublishesSettings(v)
      BY <1>1, <2>3
    <3>2. v = settings
      BY <2>3, <3>1 DEF Part
    <3> QED
      BY <1>3, <3>1, <3>2
  <2>4. CASE \E i \in 1 .. Len(queue) : queue[i].kind = "config"
    BY <2>4 DEF Promised
  <2>5. CASE \E d \in Sessions :
                drain[d].at = "publish" /\ drain[d].todo = <<Part("setting", settings)>>
    BY <1>4, <2>5 DEF Promised
  <2> QED
    BY <2>1, <2>2, <2>3, <2>4, <2>5 DEF Promised
<1>8. NewestIsLast'
  <2> SUFFICES ASSUME alive', SettingsHanded', ~overtaken' PROVE Outcome(out', shown', newest')
      BY DEF NewestIsLast
  <2>1. CASE \E v \in 0 .. settings : PublishesSettings(v)
    BY <2>1, PublishesOutcome DEF Versions
  <2>2. CASE ~\E v \in 0 .. settings : PublishesSettings(v)
    <3>1. PublishesOther
      BY <1>2, <2>2 DEF Publishes
    <3>2. <<Part("setting", settings)>> # <<>>
      OBVIOUS
    <3>3. SettingsHanded
      BY <1>1, <2>2, <3>2 DEF SettingsHanded
    <3>4. ~overtaken
      BY <3>1 DEF PublishesOther, history
    <3> QED
      BY <3>1, <3>3, <3>4, PublishesOutcome DEF Versions, NewestIsLast
  <2> QED
    BY <1>2, <2>1, <2>2 DEF Publishes
<1> QED
  BY <1>5, <1>6, <1>7, <1>8

\* A drain publishes, or is done.
LEMMA DrainShown ==
    ASSUME Counted, Owned, ShownInv, Arrive(Head(out).part), out # <<>>,
           NEW d \in Sessions, Head(out).by = d, ContinueDrain(d),
           UNCHANGED <<alive, session, queue, settings>>
    PROVE  ShownInv'
<1> USE DEF Counted, Owned, ShownInv
<1>1. /\ UNCHANGED <<run, setup>>
      /\ \/ /\ \E v \in 0 .. settings :
                  drain[d].todo = <<Part("setting", v)>> /\ PublishesSettings(v)
            /\ drain' = [drain EXCEPT ![d] = [drain[d] EXCEPT !.todo = <<>>]]
         \/ /\ drain[d].todo = <<>> /\ PublishesOther
            /\ drain' = [drain EXCEPT ![d] = Idle]
  BY DrainPublishes DEF ContinueDrain
<1>2. Publishes
  BY <1>1 DEF Publishes
<1>3. /\ newest' <= settings' /\ (newest = settings => newest' = settings')
      /\ PublishesSettings(settings) => newest' = settings'
  BY <1>2, PublishesVersion DEF Versions
<1>4. /\ \A e \in Sessions \ {d} : drain'[e] = drain[e]
      /\ drain'[d].todo = <<>>
      /\ drain'[d].at = "publish" => \E v \in 0 .. settings : PublishesSettings(v)
  <2>1. drain[d] \in DrainType
    BY DEF Types
  <2>2. CASE drain' = [drain EXCEPT ![d] = Idle]
    BY <2>2 DEF Types, Idle
  <2>3. CASE /\ \E v \in 0 .. settings : PublishesSettings(v)
             /\ drain' = [drain EXCEPT ![d] = [drain[d] EXCEPT !.todo = <<>>]]
    BY <2>1, <2>3 DEF Types, DrainType
  <2> QED
    BY <1>1, <2>2, <2>3
<1>5. Versions'
  <2>1. \A e \in Sessions : Listed(drain[e].todo)'
    BY <1>4 DEF Versions, Listed
  <2> QED
    BY <1>1, <1>3, <2>1 DEF Versions, Listed
<1>6. Waited'
  <2> SUFFICES ASSUME NEW e \in Sessions, drain'[e].at = "publish"
               PROVE  \E i \in 1 .. Len(out') : out'[i].by = e
      BY DEF Waited
  <2>1. CASE e = d
    <3>1. PICK v \in 0 .. settings : PublishesSettings(v)
      BY <1>4, <2>1
    <3> QED
      BY <1>2, <2>1, <3>1, PublishesShape
  <2>2. CASE e # d
    <3>1. PICK i \in 1 .. Len(out) : out[i].by = e
      BY <1>4, <2>2 DEF Waited
    <3>2. i # 1
      BY <2>2, <3>1, TailShape DEF Types
    <3>3. i - 1 \in 1 .. Len(out') /\ out'[i - 1] = out[i]
      BY <1>2, <3>2, PublishesShape
    <3> QED
      BY <3>1, <3>3
  <2> QED
    BY <2>1, <2>2
<1>7. PromiseInv'
  <2> SUFFICES ASSUME run' # "waiting", newest' # settings' PROVE Promised'
      BY DEF PromiseInv, Connected
  <2>1. newest # settings /\ Promised
    BY <1>1, <1>3 DEF PromiseInv, Connected
  <2>2. ASSUME NEW e \in Sessions, drain[e].at = "publish",
               drain[e].todo = <<Part("setting", settings)>>
        PROVE  Promised'
    <3>1. CASE e = d
      <4>1. PICK v \in 0 .. settings :
               drain[d].todo = <<Part("setting", v)>> /\ PublishesSettings(v)
        <5>1. <<Part("setting", settings)>> # <<>>
          OBVIOUS
        <5> QED
          BY <1>1, <2>2, <3>1, <5>1
      <4>2. v = settings
        BY <2>2, <3>1, <4>1 DEF Part
      <4> QED
        BY <1>3, <4>1, <4>2
    <3>2. CASE e # d
      BY <1>4, <2>2, <3>2 DEF Promised
    <3> QED
      BY <3>1, <3>2
  <2> QED
    BY <1>1, <2>1, <2>2 DEF Promised
<1>8. NewestIsLast'
  <2> SUFFICES ASSUME alive', SettingsHanded', ~overtaken' PROVE Outcome(out', shown', newest')
      BY DEF NewestIsLast
  <2>1. CASE \E v \in 0 .. settings : PublishesSettings(v)
    BY <2>1, PublishesOutcome DEF Versions
  <2>2. CASE PublishesOther
    <3>1. SettingsHanded /\ ~overtaken
      BY <1>1, <2>2 DEF SettingsHanded, PublishesOther, history
    <3> QED
      BY <2>2, <3>1, PublishesOutcome DEF Versions, NewestIsLast
  <2> QED
    BY <1>2, <2>1, <2>2 DEF Publishes
<1> QED
  BY <1>5, <1>6, <1>7, <1>8

\* Any task's packet is written.
LEMMA WriteShown == Counted /\ Owned /\ ShownInv /\ Write => ShownInv'
<1> SUFFICES ASSUME Counted, Owned, ShownInv, Write PROVE ShownInv'
    OBVIOUS
<1>1. /\ out # <<>> /\ Arrive(Head(out).part) /\ PacketWritten(Head(out))
      /\ UNCHANGED <<alive, session, queue, settings>>
  BY WriteShape DEF Counted
<1>2. CASE Head(out).by = Handler /\ out' = Tail(out) /\ UNCHANGED <<run, setup, drain, history>>
  <2> USE DEF Counted, Owned, ShownInv
  <2>1. PublishesOther /\ Publishes
    BY <1>2 DEF PublishesOther, Publishes
  <2>2. Versions' /\ PromiseInv'
    BY <1>1, <1>2 DEF Versions, PromiseInv, Listed, Connected, Promised, history
  <2>3. Waited'
    <3> SUFFICES ASSUME NEW d \in Sessions, drain'[d].at = "publish"
                 PROVE  \E i \in 1 .. Len(out') : out'[i].by = d
        BY DEF Waited
    <3>1. PICK i \in 1 .. Len(out) : out[i].by = d
      BY <1>2 DEF Waited
    <3>2. i # 1
      BY <1>1, <1>2, <3>1, SessionsAreNoTasks, TailShape DEF Types
    <3>3. i - 1 \in 1 .. Len(out') /\ out'[i - 1] = out[i]
      BY <1>1, <2>1, <3>2, PublishesShape
    <3> QED
      BY <3>1, <3>3
  <2>4. NewestIsLast'
    <3> SUFFICES ASSUME alive', SettingsHanded', ~overtaken'
                 PROVE  Outcome(out', shown', newest')
        BY DEF NewestIsLast
    <3>1. SettingsHanded /\ ~overtaken
      BY <1>2 DEF SettingsHanded, history
    <3> QED
      BY <1>1, <2>1, <3>1, PublishesOutcome DEF Versions, NewestIsLast
  <2> QED
    BY <2>2, <2>3, <2>4
<1> QED
  BY <1>1, <1>2, SetupShown, DrainShown DEF PacketWritten

\* A drain takes an item: a request to republish is now its own.
LEMMA TakeShown ==
    ASSUME Counted, Owned, ShownInv, NEW d \in Sessions, Take(d)
    PROVE  ShownInv'
<1> USE DEF Counted, Owned, ShownInv
<1> DEFINE item == Head(queue)
           packet == [part |-> Head(Parts(item)), by |-> d]
<1>1. /\ drain[d].at = "get" /\ queue # <<>> /\ item \in QueuedType /\ item = queue[1]
      /\ queue' = Tail(queue)
      /\ \/ /\ Connected /\ out' = Append(out, packet)
            /\ drain' = [drain EXCEPT ![d] =
                           [at |-> "publish", item |-> item, todo |-> Tail(Parts(item))]]
         \/ /\ ~Connected /\ UNCHANGED out
            /\ drain' = [drain EXCEPT ![d] = [at |-> "dead", item |-> item, todo |-> <<>>]]
      /\ UNCHANGED <<link, settings, broker, emitted, history>>
  BY TakeShape
<1>2. /\ packet \in PacketType /\ ~Setting(packet.part)
      /\ Tail(Parts(item)) = IF item.kind = "config" THEN <<Part("setting", settings)>> ELSE <<>>
  <2>1. item \in ItemType /\ settings \in Nat
    BY <1>1 DEF QueuedType, ItemType, Types
  <2>2. Head(Parts(item)) \in PartType
    BY <2>1, PartsType
  <2>3. ~Setting(Head(Parts(item)))
    BY <2>1, PartsType DEF Setting, Part
  <2>4. item.kind = "config" => Tail(Parts(item)) = <<Part("setting", settings)>>
    BY DEF Parts, ConfigParts
  <2> QED
    BY <2>1, <2>2, <2>3, <2>4, PartsType DEF PacketType
<1> HIDE DEF packet
<1>3. /\ out \in Seq(PacketType) /\ Len(out) \in Nat
      /\ \A i \in 1 .. Len(queue) : i # 1 =>
            i - 1 \in 1 .. Len(queue') /\ queue'[i - 1] = queue[i]
  <2>1. /\ Len(queue) \in Nat \ {0} /\ Len(queue') = Len(queue) - 1
        /\ \A i \in 1 .. Len(queue') : queue'[i] = queue[i + 1]
    BY <1>1, TailShape DEF Types
  <2> QED
    BY <2>1, LenProperties DEF Types
<1>4. UNCHANGED <<run, setup, alive, settings, shown, newest, overtaken>>
  BY <1>1 DEF link, broker, history
<1>5. /\ \A e \in Sessions \ {d} : drain'[e] = drain[e]
      /\ drain'[d].todo \in {<<>>, <<Part("setting", settings)>>}
      /\ Connected => /\ drain'[d].at = "publish"
                      /\ item.kind = "config" => drain'[d].todo = <<Part("setting", settings)>>
      /\ ~Connected => drain'[d].at = "dead"
  <2>1. CASE /\ Connected
             /\ drain' = [drain EXCEPT ![d] =
                            [at |-> "publish", item |-> item, todo |-> Tail(Parts(item))]]
    <3> DEFINE left == Tail(Parts(item))
    <3>1. drain'[d].at = "publish" /\ drain'[d].todo = left
      BY <2>1 DEF Types
    <3>2. \A e \in Sessions \ {d} : drain'[e] = drain[e]
      BY <2>1 DEF Types
    <3>3. left = IF item.kind = "config" THEN <<Part("setting", settings)>> ELSE <<>>
      BY <1>2
    <3> HIDE DEF left, item
    <3> QED
      BY <2>1, <3>1, <3>2, <3>3
  <2>2. CASE /\ ~Connected
             /\ drain' = [drain EXCEPT ![d] = [at |-> "dead", item |-> item, todo |-> <<>>]]
    BY <2>2 DEF Types
  <2> QED
    BY <1>1, <2>1, <2>2
<1>6. Versions'
  <2>1. settings \in 0 .. settings
    BY DEF Types
  <2>2. \A e \in Sessions : Listed(drain[e].todo)'
    BY <1>4, <1>5, <2>1 DEF Versions, Listed
  <2> QED
    BY <1>4, <2>2 DEF Versions, Listed
<1>7. Waited'
  <2> SUFFICES ASSUME NEW e \in Sessions, drain'[e].at = "publish"
               PROVE  \E i \in 1 .. Len(out') : out'[i].by = e
      BY DEF Waited
  <2>1. CASE e = d
    <3>1. out' = Append(out, packet)
      BY <1>1, <1>5, <2>1
    <3>2. Len(out) + 1 \in 1 .. Len(out') /\ out'[Len(out) + 1] = packet
      BY <1>2, <1>3, <3>1, AppendProperties
    <3> QED
      BY <2>1, <3>2 DEF packet
  <2>2. CASE e # d
    <3>1. PICK i \in 1 .. Len(out) : out[i].by = e
      BY <1>5, <2>2 DEF Waited
    <3>2. i \in 1 .. Len(out') /\ out'[i] = out[i]
      <4>1. CASE UNCHANGED out
        BY <4>1
      <4>2. CASE out' = Append(out, packet)
        BY <1>2, <1>3, <4>2, AppendProperties
      <4> QED
        BY <1>1, <4>1, <4>2
    <3> QED
      BY <3>1, <3>2
  <2> QED
    BY <2>1, <2>2
<1>8. PromiseInv'
  <2> SUFFICES ASSUME Connected, newest # settings PROVE Promised'
      BY <1>4 DEF PromiseInv, Connected
  <2>1. CASE \E i \in 1 .. Len(queue) : queue[i].kind = "config"
    <3>1. PICK i \in 1 .. Len(queue) : queue[i].kind = "config"
      BY <2>1
    <3>2. CASE i = 1
      BY <1>1, <1>4, <1>5, <3>1, <3>2 DEF Promised
    <3>3. CASE i # 1
      BY <1>3, <3>1, <3>3 DEF Promised
    <3> QED
      BY <3>2, <3>3
  <2>2. CASE \E e \in Sessions :
                drain[e].at = "publish" /\ drain[e].todo = <<Part("setting", settings)>>
    <3>1. PICK e \in Sessions :
                drain[e].at = "publish" /\ drain[e].todo = <<Part("setting", settings)>>
      BY <2>2
    <3>2. e # d
      BY <1>1, <3>1
    <3> QED
      BY <1>4, <1>5, <3>1, <3>2 DEF Promised
  <2> QED
    BY <1>4, <2>1, <2>2 DEF PromiseInv, Promised
<1>9. NewestIsLast'
  <2> SUFFICES ASSUME alive, SettingsHanded, ~overtaken PROVE Outcome(out', shown, newest)
      BY <1>4 DEF NewestIsLast, SettingsHanded
  <2>1. Outcome(out, shown, newest)
    BY DEF NewestIsLast
  <2>2. CASE UNCHANGED out
    BY <2>1, <2>2
  <2>3. CASE out' = Append(out, packet)
    BY <1>2, <1>3, <2>1, <2>3, OutcomeAppend
  <2> QED
    BY <1>1, <2>2, <2>3
<1> QED
  BY <1>6, <1>7, <1>8, <1>9

\* A new connection sets everything up again, the settings too.
LEMMA ConnectShown == Counted /\ Owned /\ ShownInv /\ Connect => ShownInv'
<1> SUFFICES ASSUME Counted, Owned, ShownInv, Connect PROVE ShownInv'
    OBVIOUS
<1>1. /\ run = "waiting" /\ run' = "discovery" /\ setup' = <<>>
      /\ UNCHANGED <<drain, queue, settings, newest>>
  BY DEF Connect, history
<1>2. \A d \in Sessions : drain[d].at # "publish"
  BY <1>1 DEF ShownInv, Waited, Owned, PacketInv, Connected
<1>3. Versions'
  BY <1>1 DEF ShownInv, Versions, Listed
<1>4. Waited' /\ PromiseInv' /\ NewestIsLast'
  BY <1>1, <1>2 DEF Waited, PromiseInv, Promised, NewestIsLast, SettingsHanded
<1> QED
  BY <1>3, <1>4 DEF ShownInv

\* A connection that has ended promises nothing.
LEMMA SessionEndsShown == Counted /\ ShownInv /\ SessionEnds => ShownInv'
<1> SUFFICES ASSUME Counted, ShownInv, SessionEnds PROVE ShownInv'
    OBVIOUS
<1>1. /\ run' = "waiting" /\ setup' = <<>> /\ ~alive /\ alive' = alive
      /\ UNCHANGED <<settings, newest>>
      /\ drain' = [d \in Sessions |->
              IF drain[d].at = "publish" THEN [drain[d] EXCEPT !.at = "timeout"] ELSE drain[d]]
  BY DEF SessionEnds, history
<1>2. ASSUME NEW d \in Sessions
      PROVE  drain'[d].todo = drain[d].todo /\ drain'[d].at # "publish"
  <2>1. drain[d] \in DrainType
    BY DEF Counted, Types
  <2> QED
    BY <1>1, <2>1 DEF DrainType
<1>3. Versions'
  BY <1>1, <1>2 DEF ShownInv, Versions, Listed
<1>4. Waited' /\ PromiseInv'
  BY <1>1, <1>2 DEF Waited, PromiseInv, Connected
<1>5. ~alive'
  BY <1>1
<1>6. NewestIsLast'
  BY <1>5 DEF NewestIsLast
<1> QED
  BY <1>3, <1>4, <1>6 DEF ShownInv

\* A drain that fails had no packet left: its list was lost with the connection.
LEMMA PublishFailsShown ==
    ASSUME Counted, ShownInv, NEW d \in Sessions, PublishFails(d)
    PROVE  ShownInv'
<1> USE DEF Counted
<1>1. /\ drain[d].at = "timeout"
      /\ drain' = [drain EXCEPT ![d] = [at |-> "dead", item |-> drain[d].item, todo |-> <<>>]]
      /\ UNCHANGED <<run, setup, alive, out, queue, settings, shown, newest, overtaken>>
  BY DEF PublishFails, link, broker, history
<1>2. drain'[d].at = "dead" /\ drain'[d].todo = <<>>
      /\ \A e \in Sessions \ {d} : drain'[e] = drain[e]
  BY <1>1 DEF Types
<1>3. Versions'
  BY <1>1, <1>2 DEF ShownInv, Versions, Listed
<1>4. Waited' /\ PromiseInv'
  <2>1. \A e \in Sessions : drain[e].at = "publish" \/ drain'[e].at = "publish" =>
           drain'[e] = drain[e]
    BY <1>1, <1>2
  <2> QED
    BY <1>1, <2>1 DEF ShownInv, Waited, PromiseInv, Promised, Connected
<1>5. NewestIsLast'
  BY <1>1 DEF ShownInv, NewestIsLast, SettingsHanded
<1> QED
  BY <1>3, <1>4, <1>5 DEF ShownInv

\* Settings that grow leave every list in its place.
LEMMA ListedGrows ==
    ASSUME settings \in Nat, settings' \in Nat, settings <= settings',
           NEW todo, Listed(todo)
    PROVE  todo = <<>> \/ \E v \in 0 .. settings' : todo = <<Part("setting", v)>>
BY DEF Listed

\* A command publishes what is in force after it, whatever came before.
LEMMA CommandShown == Counted /\ ShownInv /\ (AcceptCommand \/ RefuseCommand) => ShownInv'
<1> SUFFICES ASSUME Counted, ShownInv, AcceptCommand \/ RefuseCommand PROVE ShownInv'
    OBVIOUS
<1> USE DEF Counted, ShownInv
<1> DEFINE packet == [part |-> Part("setting", settings'), by |-> Handler]
<1>1. /\ settings' \in Nat /\ settings <= settings' /\ settings \in Nat /\ newest \in Nat
      /\ out' = Append(out, packet) /\ Hand(Part("setting", settings'))
      /\ UNCHANGED <<run, setup, alive, drain, queue, shown>>
  BY CommandShape DEF Confirmed, AcceptCommand, RefuseCommand, link, broker, Types
<1>2. packet \in PacketType /\ Setting(packet.part) /\ packet.part.value = settings'
  BY <1>1, PartTypes DEF PacketType, Setting, Part
<1>3. newest' = settings'
  BY <1>1 DEF Hand, Part, Versions
<1>4. Versions'
  BY <1>1, <1>3, ListedGrows DEF Versions, Listed
<1> HIDE DEF packet
<1>5. Waited'
  <2>1. Len(out) \in Nat /\ Len(out') = Len(out) + 1 /\ \A i \in 1 .. Len(out) : out'[i] = out[i]
    BY <1>1, <1>2, AppendProperties, LenProperties DEF Types
  <2>2. \A i \in 1 .. Len(out) : i \in 1 .. Len(out')
    BY <2>1
  <2> QED
    BY <1>1, <2>1, <2>2 DEF Waited
<1>6. PromiseInv'
  BY <1>3 DEF PromiseInv
<1>7. NewestIsLast'
  <2>1. Outcome(Append(out, packet), shown, settings')
    BY <1>2, OutcomeAppend DEF Types
  <2> QED
    BY <1>1, <1>3, <2>1 DEF NewestIsLast
<1> QED
  BY <1>4, <1>5, <1>6, <1>7

\* A reset changes the settings and asks for them to be published.
LEMMA EnqueueShown == Counted /\ ShownInv /\ (EmitEvent \/ ResetOnUnplug) => ShownInv'
<1> SUFFICES ASSUME Counted, ShownInv, EmitEvent \/ ResetOnUnplug PROVE ShownInv'
    OBVIOUS
<1> USE DEF Counted, ShownInv
<1>1. /\ UNCHANGED <<run, setup, alive, drain, out, shown, newest, overtaken>>
      /\ settings \in Nat /\ settings' \in Nat /\ settings <= settings' /\ newest \in Nat
  BY DEF EmitEvent, ResetOnUnplug, Enqueue, link, broker, history, Types
<1>2. PICK item \in QueuedType :
         queue' = Append(queue, item) /\ (item.kind = "config" \/ settings' = settings)
  BY DEF EmitEvent, ResetOnUnplug, Enqueue, QueuedType, Types
<1>3. Versions'
  BY <1>1, ListedGrows DEF Versions, Listed
<1>4. Waited' /\ NewestIsLast'
  BY <1>1 DEF Waited, NewestIsLast, SettingsHanded
<1>5. PromiseInv'
  <2>1. /\ Len(queue) \in Nat /\ Len(queue') = Len(queue) + 1
        /\ \A i \in 1 .. Len(queue) : queue'[i] = queue[i]
        /\ queue'[Len(queue) + 1] = item
    BY <1>2, AppendProperties, LenProperties DEF Types
  <2>2. Len(queue) + 1 \in 1 .. Len(queue') /\ \A i \in 1 .. Len(queue) : i \in 1 .. Len(queue')
    BY <2>1
  <2>3. CASE item.kind = "config"
    BY <2>1, <2>2, <2>3 DEF PromiseInv, Promised
  <2>4. CASE settings' = settings
    BY <1>1, <2>1, <2>2, <2>4 DEF PromiseInv, Promised, Connected
  <2> QED
    BY <1>2, <2>3, <2>4
<1> QED
  BY <1>3, <1>4, <1>5

\* The network changes nothing of it, but that nothing is on its way any more.
LEMMA NetworkShown == ShownInv /\ (NetworkFails \/ NetworkHeals \/ UNCHANGED vars) => ShownInv'
<1> SUFFICES ASSUME ShownInv, NetworkFails \/ NetworkHeals \/ UNCHANGED vars PROVE ShownInv'
    OBVIOUS
<1> USE DEF ShownInv
<1>1. /\ UNCHANGED <<run, setup, drain, out, queue, settings, shown, newest, overtaken>>
      /\ alive' = FALSE \/ alive' = alive
  BY DEF NetworkFails, NetworkHeals, vars, link, tasks, broker, history
<1>2. Versions' /\ Waited' /\ PromiseInv'
  BY <1>1 DEF Versions, Listed, Waited, PromiseInv, Promised, Connected
<1>3. NewestIsLast'
  BY <1>1, Zenon DEF NewestIsLast, SettingsHanded
<1> QED
  BY <1>2, <1>3

-------------------------------------------------------------------------------
\* The inductive invariant
MqttInv == Counted /\ Owned /\ Sent /\ Accounted /\ ShownInv

\* The initial states satisfy the invariant.
LEMMA InitMqttInv == Init => MqttInv
<1> SUFFICES ASSUME Init PROVE MqttInv
    OBVIOUS
<1>1. /\ setup \in Seq(LaterType) /\ out \in Seq(PacketType)
      /\ queue \in Seq(QueuedType) /\ received \in Seq(Nat)
      /\ Len(out) = 0 /\ Len(queue) = 0 /\ Len(received) = 0
  BY EmptySeq DEF Init
<1>2. drain \in [Sessions -> DrainType] /\ \A d \in Sessions : drain[d] = NoDrain
  BY PartTypes DEF Init
<1>3. Types
  BY <1>1, <1>2, SessionAssumption DEF Init, Types
<1>4. Flags
  BY Zenon DEF Init, Flags
<1>5. SessionCount
  BY DEF Init, SessionCount, Connected
<1>6. Owned
  <2>1. NoDrain.at = "none" /\ NoDrain.item.kind = "none"
    BY DEF NoDrain, Idle
  <2> QED
    BY <1>1, <1>2, <2>1 DEF Init, Owned, DrainInv, PacketInv
<1>7. Sent
  BY <1>1 DEF Sent, OrderInv, EmittedInv
<1>8. Accounted
  BY DEF Init, Accounted
<1>9. ShownInv
  <2>1. \A d \in Sessions : drain[d].at # "publish" /\ drain[d].todo = <<>>
    BY <1>2 DEF NoDrain, Idle
  <2> QED
    BY <2>1 DEF Init, ShownInv, Versions, Listed, Waited, PromiseInv, Connected, NewestIsLast
<1> QED
  BY <1>3, <1>4, <1>5, <1>6, <1>7, <1>8, <1>9 DEF MqttInv, Counted

\* Every step keeps the invariant.
LEMMA NextMqttInv == MqttInv /\ [Next]_vars => MqttInv'
<1> SUFFICES ASSUME MqttInv, [Next]_vars PROVE MqttInv'
    OBVIOUS
<1> USE DEF MqttInv
<1>1. CASE Write
  BY <1>1, WriteType, WriteOwned, WriteSent, WriteAccounted, WriteShown
<1>2. ASSUME NEW d \in Sessions, Take(d)
      PROVE  MqttInv'
  BY <1>2, TakeType, TakeOwned, TakeSent, TakeAccounted, TakeShown
<1>3. CASE Connect
  <2>1. UNCHANGED <<queue, emitted, received, vanished, drain>>
    BY <1>3 DEF Connect, broker
  <2> QED
    BY <1>3, <2>1, ConnectType, ConnectOwned, ConnectionSent, RestAccounted, ConnectShown
<1>4. CASE SessionEnds
  <2>1. UNCHANGED <<queue, emitted, received, vanished>>
        /\ drain' = [d \in Sessions |->
              IF drain[d].at = "publish" THEN [drain[d] EXCEPT !.at = "timeout"] ELSE drain[d]]
    BY <1>4 DEF SessionEnds, broker
  <2>2. ASSUME NEW d \in Sessions PROVE drain'[d].item = drain[d].item
    <3>1. drain[d] \in DrainType
      BY DEF Counted, Types
    <3> QED
      BY <2>1, <3>1 DEF DrainType
  <2> QED
    BY <1>4, <2>1, <2>2, SessionEndsType, SessionEndsOwned, ConnectionSent, RestAccounted,
       SessionEndsShown
<1>5. ASSUME NEW d \in Sessions, PublishFails(d)
      PROVE  MqttInv'
  <2>1. /\ UNCHANGED <<out, queue, emitted, received, vanished>>
        /\ drain' = [drain EXCEPT ![d] = [at |-> "dead", item |-> drain[d].item, todo |-> <<>>]]
    BY <1>5 DEF PublishFails, broker
  <2>2. \A c \in Sessions : drain'[c].item = drain[c].item
    BY <2>1 DEF Counted, Types
  <2> QED
    BY <1>5, <2>1, <2>2, PublishFailsType, PublishFailsOwned, RestSent, RestAccounted,
       PublishFailsShown
<1>6. CASE AcceptCommand \/ RefuseCommand
  <2>1. UNCHANGED <<queue, emitted, received, vanished, drain>>
    BY <1>6 DEF AcceptCommand, RefuseCommand, broker
  <2> QED
    BY <1>6, <2>1, CommandType, CommandOwned, CommandSent, RestAccounted, CommandShown
<1>7. CASE EmitEvent \/ ResetOnUnplug
  <2>1. UNCHANGED <<session, run, out, drain>>
    BY <1>7 DEF EmitEvent, ResetOnUnplug, Enqueue, link
  <2> QED
    BY <1>7, <2>1, EnqueueType, RestOwned, EnqueueSent, EnqueueAccounted, EnqueueShown
<1>8. CASE NetworkFails \/ NetworkHeals \/ UNCHANGED vars
  <2>1. UNCHANGED <<session, run, out, drain, queue, emitted, received, vanished>>
    BY <1>8 DEF NetworkFails, NetworkHeals, vars, link, tasks, broker
  <2> QED
    BY <1>8, <2>1, NetworkType, RestOwned, RestSent, RestAccounted, NetworkShown
<1> QED
  BY <1>1, <1>2, <1>3, <1>4, <1>5, <1>6, <1>7, <1>8 DEF Next

\* The invariant holds in every reachable state.
THEOREM MqttInvHolds == Spec => []MqttInv
  BY InitMqttInv, NextMqttInv, PTL DEF Spec

\* A sequence over a set is one over every larger set.
LEMMA SeqWidens ==
    ASSUME NEW S, NEW T, S \subseteq T, NEW s \in Seq(S)
    PROVE  s \in Seq(T)
OBVIOUS

\* client.py:84-120: the client, its tasks and the queue keep to their types.
THEOREM MqttTypeCorrect == Spec => []SessionTypeOK
<1>1. MqttInv => SessionTypeOK
  <2> SUFFICES ASSUME MqttInv PROVE SessionTypeOK
      OBVIOUS
  <2> USE DEF MqttInv, Counted
  <2>1. setup \in Seq(PartType) /\ queue \in Seq(ItemType)
    <3>1. QueuedType \subseteq ItemType
      BY DEF QueuedType, ItemType
    <3> QED
      BY <3>1, PartTypes, SeqWidens DEF Types
  <2>2. drain \in [Sessions -> [at : {"none", "get", "publish", "timeout", "dead"},
                               item : ItemType, todo : Seq(PartType)]]
    <3>1. \A d \in Sessions : drain[d] \in DrainType
      BY DEF Types
    <3>2. \A t \in Seq(LaterType) : t \in Seq(PartType)
      BY PartTypes, SeqWidens
    <3>3. DrainType \subseteq [at : {"none", "get", "publish", "timeout", "dead"},
                             item : ItemType, todo : Seq(PartType)]
      BY <3>2 DEF DrainType
    <3> QED
      BY <3>3 DEF Types
  <2> QED
    BY <2>1, <2>2 DEF Types, Flags, SessionTypeOK, PacketType
<1> QED
  BY <1>1, MqttInvHolds, PTL

\* client.py:607, 622: events arrive at most once and in the order they were put
\* on the queue, however many drains of broken connections still serve it.
THEOREM MqttEventsInOrder == Spec => []EventsInOrder
<1>1. MqttInv => EventsInOrder
  <2> SUFFICES ASSUME MqttInv PROVE EventsInOrder
      OBVIOUS
  <2>1. DOMAIN received = 1 .. Len(received)
    BY LenProperties DEF MqttInv, Counted, Types
  <2> QED
    BY <2>1 DEF MqttInv, Sent, OrderInv, EventsInOrder
<1> QED
  BY <1>1, MqttInvHolds, PTL

\* client.py:626-638: an event is queued, held by a drain, arrived or written to a
\* broken connection; none is lost in any other way.
THEOREM MqttEventsAccounted == Spec => []EventsAccounted
<1>1. MqttInv => EventsAccounted
  <2> SUFFICES ASSUME MqttInv PROVE EventsAccounted
      OBVIOUS
  <2>1. DOMAIN received = 1 .. Len(received)
    BY LenProperties DEF MqttInv, Counted, Types
  <2> QED
    BY <2>1 DEF MqttInv, Accounted, Arrived, EventsAccounted
<1> QED
  BY <1>1, MqttInvHolds, PTL

\* client.py:286-338, 453: when everything has been published, what the broker
\* retains for Home Assistant is what is in force, unless an older list of settings
\* was published after a newer version.
THEOREM MqttShownIsCurrent == Spec => []ShownIsCurrent
<1>1. MqttInv => ShownIsCurrent
  <2> SUFFICES ASSUME MqttInv, Settled, ~overtaken PROVE shown = settings
      BY DEF ShownIsCurrent
  <2> USE DEF MqttInv, ShownInv
  <2>1. Len(out) = 0 /\ run = "serving" /\ alive
    BY DEF Settled
  <2>2. \A i \in 1 .. Len(queue) : queue[i].kind # "config"
    BY LenProperties DEF Settled, Counted, Types
  <2>3. newest = settings
    BY <2>1, <2>2 DEF Waited, PromiseInv, Promised, Connected
  <2>4. shown = newest
    BY <2>1 DEF NewestIsLast, SettingsHanded, Outcome
  <2> QED
    BY <2>3, <2>4
<1> QED
  BY <1>1, MqttInvHolds, PTL

===============================================================================
