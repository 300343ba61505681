------------------------------- MODULE MqttSession -----------------------------
(***************************************************************************)
(* The MQTT client (app/ha/client.py) between the publish queue and the    *)
(* broker: run_loop connects, publishes discovery and settings, and then   *)
(* serves, one task draining the queue and one handling commands, until    *)
(* the connection breaks.  asyncio.gather does not cancel the drain when   *)
(* the other task fails: it lives on as an orphan and publishes, like all  *)
(* tasks, through whatever client self._client is by then.                 *)
(*                                                                         *)
(* Every publish is a suspension point.  The client library (external)     *)
(* queues the packet at the call (out), and the caller goes on when it is  *)
(* written.  A broken connection is noticed some time later; until then    *)
(* what is written vanishes.  A publication that was never written fails   *)
(* when its timeout ends, which may be after the next connection.          *)
(*                                                                         *)
(* The settings are a version number, all in one topic that is not the     *)
(* first to be published.                                                  *)
(***************************************************************************)
EXTENDS Integers, Sequences

CONSTANTS
    MaxEvents,     \* bound: charging events
    MaxChanges,    \* bound: changes of the settings
    MaxFaults      \* bound: how often the network fails

ASSUME SessionAssumption == MaxEvents \in Nat /\ MaxChanges \in Nat /\ MaxFaults \in Nat

Sessions == 1 .. MaxFaults + 1     \* each connection but the first follows a fault

\* Who waits for a publication: a drain (by the session it was started in) or
RunLoop == 0
Handler == -1

VARIABLES
    network,      \* can the broker be reached?
    alive,        \* does the current connection still carry messages?
    session,      \* connections so far
    run,          \* run_loop: waiting, discovery, config, online, serving
    setup,        \* the settings it has still to publish
    out,          \* packets of the current client that are not written yet
    drain,        \* the drain task of each session
    queue,        \* _publish_queue
    settings,     \* the version in AppState
    shown,        \* the version the broker retains
    emitted, received, vanished,  \* events: queued, arrived, written to a broken connection
    newest, overtaken,  \* newest version published; has an older one been published after it?
    faults        \* so far

link == <<network, alive, session, run, setup, faults>>
tasks == <<out, drain, queue>>
broker == <<shown, received, vanished>>
history == <<newest, overtaken>>
vars == <<link, tasks, settings, broker, emitted, history>>

Idle == [at |-> "get", item |-> [kind |-> "none", id |-> 0], todo |-> <<>>]
NoDrain == [Idle EXCEPT !.at = "none"]

Init ==
    /\ network = TRUE /\ alive = FALSE /\ session = 0
    /\ run = "waiting" /\ setup = <<>> /\ out = <<>> /\ queue = <<>>
    /\ drain = [d \in Sessions |-> NoDrain]
    /\ settings = 0 /\ shown = 0
    /\ emitted = 0 /\ received = <<>> /\ vanished = {}
    /\ newest = 0 /\ overtaken = FALSE /\ faults = 0

-------------------------------------------------------------------------------
\* Publications
Part(topic, value) == [topic |-> topic, value |-> value]

Connected == run # "waiting"    \* self._client is not None

\* client.publish(): a packet, queued behind the others.
Publish(packets, part, task) == Append(packets, [part |-> part, by |-> task])

\* Whether an older version of the settings follows a newer one.
Hand(part) ==
    IF part.topic = "setting"
    THEN /\ overtaken' = (part.value < newest)
         /\ newest' = IF part.value > newest THEN part.value ELSE newest
    ELSE UNCHANGED history

\* Mutant of ConfigParts: the list is not made of the current settings.
ConfigPartsOfLast == <<Part("other", 0), Part("setting", newest)>>

\* _publish_config_state: the list is made before the first publication.
ConfigParts == <<Part("other", 0), Part("setting", settings)>>

\* What a drain publishes for an item.  Snapshots are published like events.
Parts(item) == IF item.kind = "config" THEN ConfigParts ELSE <<Part("event", item.id)>>

\* The broker takes what is written to a connection that works.
Arrive(part) ==
    /\ received' = IF alive /\ part.topic = "event"
                   THEN Append(received, part.value) ELSE received
    /\ vanished' = IF ~alive /\ part.topic = "event"
                   THEN vanished \cup {part.value} ELSE vanished
    /\ shown' = IF alive /\ part.topic = "setting" THEN part.value ELSE shown

-------------------------------------------------------------------------------
\* run_loop
Connect ==
    /\ run = "waiting" /\ network
    /\ session' = session + 1 /\ alive' = TRUE
    /\ run' = "discovery" /\ setup' = <<>>
    /\ out' = Publish(<<>>, Part("other", 0), RunLoop)
    /\ UNCHANGED <<network, faults, drain, queue, settings, broker, emitted, history>>

\* Mutant of StartDrain: the drain is taken for one task of the program.
StartFirstDrain == [drain EXCEPT ![1] = IF session = 1 THEN Idle ELSE @]

StartDrain == [drain EXCEPT ![session] = Idle]

\* The publication that run_loop waited for is written.
ContinueSetup ==
    /\ drain' = IF run = "online" THEN StartDrain ELSE drain
    /\ \/ /\ run = "discovery"
          /\ run' = "config" /\ setup' = Tail(ConfigParts)
          /\ out' = Publish(Tail(out), Head(ConfigParts), RunLoop)
          /\ UNCHANGED history
       \/ /\ run = "config" /\ setup # <<>>
          /\ setup' = Tail(setup)
          /\ out' = Publish(Tail(out), Head(setup), RunLoop)
          /\ Hand(Head(setup))
          /\ UNCHANGED run
       \/ /\ run = "config" /\ setup = <<>>
          /\ run' = "online"
          /\ out' = Publish(Tail(out), Part("other", 0), RunLoop)
          /\ UNCHANGED <<setup, newest, overtaken>>
       \/ /\ run = "online"
          /\ run' = "serving" /\ out' = Tail(out)
          /\ UNCHANGED <<setup, newest, overtaken>>

\* The connection is found broken: the client and its packets are gone, and
\* tasks that wait for one of them wait on for their timeout.
SessionEnds ==
    /\ Connected /\ ~alive
    /\ run' = "waiting" /\ setup' = <<>> /\ out' = <<>>
    /\ drain' = [d \in Sessions |->
                   IF drain[d].at = "publish" THEN [drain[d] EXCEPT !.at = "timeout"] ELSE drain[d]]
    /\ UNCHANGED <<network, alive, session, faults, queue, settings, broker, emitted, history>>

-------------------------------------------------------------------------------
\* _drain_queue.  An orphan that finds no client fails an assertion.
Take(d) ==
    /\ drain[d].at = "get" /\ queue # <<>>
    /\ queue' = Tail(queue)
    /\ LET item == Head(queue)
           parts == Parts(item)
       IN  IF Connected
           THEN /\ drain' = [drain EXCEPT ![d] =
                               [at |-> "publish", item |-> item, todo |-> Tail(parts)]]
                /\ out' = Publish(out, Head(parts), d)
           ELSE /\ drain' = [drain EXCEPT ![d] = [at |-> "dead", item |-> item, todo |-> <<>>]]
                /\ UNCHANGED out
    /\ UNCHANGED <<link, settings, broker, emitted, history>>

ContinueDrain(d) ==
    /\ IF drain[d].todo # <<>>
       THEN /\ out' = Publish(Tail(out), Head(drain[d].todo), d)
            /\ drain' = [drain EXCEPT ![d].todo = Tail(@)]
            /\ Hand(Head(drain[d].todo))
       ELSE /\ out' = Tail(out)
            /\ drain' = [drain EXCEPT ![d] = Idle]
            /\ UNCHANGED history
    /\ UNCHANGED <<run, setup>>

\* Mutant of PublishFails: the failure is logged, and the drain goes on.
PublishFailsUnnoticed(d) ==
    /\ drain[d].at = "timeout"
    /\ drain' = [drain EXCEPT ![d] = Idle]
    /\ UNCHANGED <<link, out, queue, settings, broker, emitted, history>>

\* Mutant of PublishFails: the item goes back to the queue, behind the others.
PublishFailsRequeueing(d) ==
    /\ drain[d].at = "timeout"
    /\ drain' = [drain EXCEPT ![d] = [at |-> "dead", item |-> @.item, todo |-> <<>>]]
    /\ queue' = Append(queue, drain[d].item)
    /\ UNCHANGED <<link, out, settings, broker, emitted, history>>

\* MqttError is logged and raised again: the drain ends.
PublishFails(d) ==
    /\ drain[d].at = "timeout"
    /\ drain' = [drain EXCEPT ![d] = [at |-> "dead", item |-> @.item, todo |-> <<>>]]
    /\ UNCHANGED <<link, out, queue, settings, broker, emitted, history>>

\* The client library writes a packet, and the task that waits for it goes on.
Write ==
    /\ out # <<>>
    /\ LET packet == Head(out)
       IN  /\ Arrive(packet.part)
           /\ \/ packet.by = RunLoop /\ ContinueSetup
              \/ packet.by \in Sessions /\ ContinueDrain(packet.by)
              \/ /\ packet.by = Handler
                 /\ out' = Tail(out)
                 /\ UNCHANGED <<run, setup, drain, history>>
    /\ UNCHANGED <<network, alive, session, faults, queue, settings, emitted>>

-------------------------------------------------------------------------------
\* _handle_command, for a setting: accepted, the new value is stored and
\* published; refused, the old one is published again.  The next command is
\* handled when the packet is written.
HandlerFree == run = "serving" /\ alive /\ \A i \in DOMAIN out : out[i].by # Handler

\* Mutant of AcceptCommand: the new value is only stored.
AcceptSilently ==
    /\ HandlerFree /\ settings < MaxChanges
    /\ settings' = settings + 1
    /\ UNCHANGED <<link, tasks, broker, emitted, history>>

AcceptCommand ==
    /\ HandlerFree /\ settings < MaxChanges
    /\ settings' = settings + 1
    /\ out' = Publish(out, Part("setting", settings'), Handler)
    /\ Hand(Part("setting", settings'))
    /\ UNCHANGED <<link, drain, queue, broker, emitted>>

RefuseCommand ==
    /\ HandlerFree
    /\ out' = Publish(out, Part("setting", settings), Handler)
    /\ Hand(Part("setting", settings))
    /\ UNCHANGED <<link, drain, queue, settings, broker, emitted>>

-------------------------------------------------------------------------------
\* The control loop puts items on the queue, whether or not anybody takes them.
Enqueue(kind, id) ==
    /\ queue' = Append(queue, [kind |-> kind, id |-> id])
    /\ UNCHANGED <<link, out, drain, broker, history>>

EmitEvent ==
    /\ emitted < MaxEvents
    /\ emitted' = emitted + 1
    /\ Enqueue("event", emitted')
    /\ UNCHANGED settings

\* The disconnect edge resets settings and asks for them to be republished.
ResetOnUnplug ==
    /\ settings < MaxChanges
    /\ settings' = settings + 1
    /\ Enqueue("config", 0)
    /\ UNCHANGED emitted

\* A network that fails (external) breaks the connection for good.
NetworkFails ==
    /\ network /\ faults < MaxFaults
    /\ network' = FALSE /\ alive' = FALSE
    /\ faults' = faults + 1
    /\ UNCHANGED <<session, run, setup, tasks, settings, broker, emitted, history>>

NetworkHeals ==
    /\ ~network
    /\ network' = TRUE
    /\ UNCHANGED <<alive, session, run, setup, faults, tasks, settings, broker, emitted, history>>

Next ==
    \/ Connect \/ SessionEnds \/ Write \/ AcceptCommand \/ RefuseCommand
    \/ \E d \in Sessions : Take(d) \/ PublishFails(d)
    \/ EmitEvent \/ ResetOnUnplug \/ NetworkFails \/ NetworkHeals

\* The tasks run, the library writes, a broken connection is found broken (keep
\* alive), a timeout ends; nothing is promised of the network or the user.
Fairness ==
    /\ WF_vars(Connect) /\ WF_vars(SessionEnds) /\ WF_vars(Write)
    /\ \A d \in Sessions : WF_vars(Take(d)) /\ WF_vars(PublishFails(d))

Spec == Init /\ [][Next]_vars /\ Fairness

-------------------------------------------------------------------------------
ItemType == [kind : {"none", "event", "config"}, id : Nat]
PartType == [topic : {"other", "setting", "event"}, value : Nat]

SessionTypeOK ==
    /\ network \in BOOLEAN /\ alive \in BOOLEAN
    /\ session \in 0 .. MaxFaults + 1 /\ faults \in 0 .. MaxFaults
    /\ run \in {"waiting", "discovery", "config", "online", "serving"}
    /\ setup \in Seq(PartType)
    /\ out \in Seq([part : PartType, by : Sessions \cup {RunLoop, Handler}])
    /\ drain \in [Sessions -> [at : {"none", "get", "publish", "timeout", "dead"},
                                 item : ItemType, todo : Seq(PartType)]]
    /\ queue \in Seq(ItemType)
    /\ settings \in Nat /\ shown \in Nat
    /\ emitted \in Nat /\ received \in Seq(Nat) /\ vanished \subseteq Nat
    /\ newest \in Nat /\ overtaken \in BOOLEAN

\* Events arrive at most once and in the order they were queued, although
\* several drains may serve one queue (client.py:607, 622).
EventsInOrder == \A i, j \in DOMAIN received : i < j => received[i] < received[j]

Queued(e) == \E i \in DOMAIN queue : queue[i] = [kind |-> "event", id |-> e]
Held(e) == \E d \in Sessions : drain[d].item = [kind |-> "event", id |-> e]

\* An event is queued, in the hands of a drain, arrived, or was written to a
\* connection that had broken: apart from these last a connection costs at most
\* the one item its drain held when it died (client.py:626-638).
EventsAccounted ==
    \A e \in 1 .. emitted :
       Queued(e) \/ Held(e) \/ e \in vanished \/ \E i \in DOMAIN received : received[i] = e

\* Nothing is left to be done about the settings.
Settled ==
    /\ run = "serving" /\ alive /\ out = <<>>
    /\ \A i \in DOMAIN queue : queue[i].kind # "config"

\* What Home Assistant shows is what is in force once all is published, also when a
\* drain died with the request to republish, unless a list of settings made
\* before a change was published after it (client.py:286, 338).
ShownIsCurrent == Settled => shown = settings \/ overtaken

\* When the network stays up, the client ends up serving, and the queue, however
\* long it has become, is emptied again and again.
QueueIsServed ==
    <>[](network) => <>[](run = "serving") /\ []<>(queue = <<>>)

\* client.py:453: the new value is republished "so HA confirms the change"; the
\* broker retains it.
ChangeStaysConfirmed == Settled => shown = settings

===============================================================================
