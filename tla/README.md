# TLA+ verification of the GoodWe charger controller

This directory specifies and checks the controller: what it tells the charger,
when, on what knowledge, and what it tells Home Assistant about it. Every module
is written from the code under `app/` (paths below are relative to the
repository). TLC checks small instances; TLAPS proves the theorems listed below
for every value of the constants.

    tlc -config session.cfg MCChargingSession    # a run: <name>.cfg and its module
    tlapm ChargingSessionProofs.tla              # a proof module

## 1. The system

One asyncio process with three supervised tasks (`main.py`): the control loop,
the MQTT client and the configuration flush. They share one `AppState` and never
lock: a task is interrupted only where it awaits. Two Modbus clients talk to the
charger and to the Victron GX.

| Component | State it keeps | Operations | Talks to | Module |
|---|---|---|---|---|
| Charging session (`control/state_machine.py`) | session state, two timers, stop reason, last positive setpoint, origin mode, external-stop ticks | one handler per session state, suppression, start/stop decisions | called by the loop; events onto the publish queue | `ChargingSession` |
| Control loop (`control/loop.py`) | standby suppression flag, previous connection, commanded setpoint | one iteration: reads, samples, connection edge, decision, output | everything | `ControlLoop` |
| Mode strategies (`control/mode_strategies.py`) | eco-charging flag, ramp, full latch, two cooldowns | one handler per mode and period | called by the loop | `ModeStrategies` |
| Vehicle SOC (`state/`, `ha/client.py`) | last reported SOC and its time | report, age | MQTT task; read by the strategies | `VehicleSoc` |
| Breaker cap (`control/power_utils.py`) | three sample buffers, trip latch | record, prune, limit | called by the loop, after the session | `BreakerCap` |
| EV client (`modbus/ev.py`) | connection, back-off, failure count, setpoint cache, health | connect, reconnect, close, read, write, start, stop, on-demand commands | charger; called by loop and MQTT task | `EvClient` |
| Victron client (`modbus/victron.py`) | connection, back-off, readings | connect, read, reconnect | GX device; called by loop and MQTT task | `VictronClient` |
| Configuration (`config.py`) | dirty flag, time of last change | schedule, flush, write, load | file; called by loop and MQTT task | `ConfigPersist` |
| MQTT client (`ha/client.py`) | connection, publish queue, its drain tasks | connect, discovery, settings, drain, commands | broker; all the others through `AppState` | `MqttSession`; a command is an action of the module it takes effect in |
| Back-off, supervision, time window | - | - | - | in part, see section 6 |
| Log throttle, logging, snapshot, entities, packaging | - | - | - | not modelled: no behaviour depends on them |

What is hard here, and what the properties are for:

- *interleaving at awaits*: the mode, the addresses and the client objects change
  while the loop waits for a register; a drain task outlives its connection;
- *stale knowledge*: a decision uses a status, a cache, a mean over 30 s, a
  reading of an earlier iteration or a suppression flag from earlier;
- *state machines in series* (strategy, session, cap), each with memory that
  outlives mode changes and disconnects;
- *feedback*: what the cap lets through changes what it will read;
- *partial failure*: a read is seven blocks, an answer may be lost, a file write
  may fail, a message may be written to a connection that is gone;
- *crashes*: a kill in the middle of a write, a loop restarted in the middle of an
  iteration;
- *time*: two delays, two cooldowns, a debounce, a poll, a SOC that ages.

The list with its source lines is `hazards` in `PROJECT.json`.

## 2. The modules

**`ChargeEvents`** is the abstract specification of what a listener is promised
about `started`, `stopping` and `stopped`: a session opens, begins to end for a
reason that is then fixed, and is closed once with that reason, or opened again.
It stands for no code. **`ChargingSession`** is the code: one action per branch of
each handler (`StartSession`, `KeepCharging`, `ConfirmExternalStop`,
`BeginStopping`, `ReconcileModeSwitch`, `HoldSetpoint`, `DropToZero`,
`AnnounceStopped`, ...), a `Tick` being one `apply_charging_events`. Timers are
ages, cut at `Horizon`; the inputs of `determine_stop_reason` change freely
between ticks. The refinement is `Contract == INSTANCE ChargeEvents WITH ...`.
**`SessionObserver`** adds a stopwatch that sees only outputs and events.

**`BreakerCap`** is `limit_phase_current` with the buffers behind it; each of its
outcomes is a disjunct (`PassBlind`, `StayTripped`, `PassUncapped`, `Reduce`,
`Trip`). Currents are integers, six units to the ampere, and means and powers
are rounded down; a buffer is a function from the ages of its samples, and the mean is
taken from `Sums`, a recursive function, so that it can be reasoned about; thresholds and readings are
multiples of the unit except for the rolling means. **`BreakerLatch`** adds an observer who remembers that the cap
stopped the charger. **`BreakerPlant`** closes the loop: the charger draws what the
cap let through an iteration ago, on the phases it is wired to, and the meter
reads house and charger together, the charger's current corrected by `CorrectionPct`.

**`ControlLoop`** EXTENDS `ChargingSession` and runs it inside the loop. `pc` names
the await the iteration is in; between `edge` and `output` nothing awaits and
nothing interleaves. A failed EV read leaves nothing, the status block, or status
and car connection behind, as the code assigns block by block. The strategies and the
cap appear by their verdicts. The charger accepts a start and begins at once
(`PromptCharger`) or later, and by itself when a vehicle is plugged in while its
plug-and-charge auto start may be on (`AutoStart`): register 10019, which the user
switches (`ev.py:260`, `ha/client.py:494`) and the loop never looks at. Three history
variables remember what the loop cannot know: a link not reconnected since the silence
(`staleLink`), an unplug not read yet (`seenUnplugged`), and a vehicle that has been away
since the iteration began (`away`).

**`ModeStrategies`** is one handler resolution and one `compute` per step, with the
eco memory (`ecoCharging`, `daySetpoint`, `batteryFull`, `dayStopped`,
`nightStopped`). **`StrategyObserver`** keeps the time since a strategy stopped for
the battery's sake, and whether the battery has been full, without reading that
memory. **`VehicleSoc`** adds the vehicle: its SOC is reported over MQTT, ages, and
from 300 s on is unknown; it charges by the last decision, and away from the
charger it comes back with any SOC. Its `SocSpec` composes the vehicle and the strategies;
`MCModeStrategies` adds the observer.

**`EvClient`** is the EV Modbus client and its two callers. Each action is the code
between two awaits; `pc` and `cmd` say what each task is waiting for. A client
that is closed under a waiting task leaves an orphaned request, which may have
been answered already or fail. `write` may arrive although its answer does not.
pymodbus and the charger are external and modelled from their use.

**`VictronClient`** is the Victron client under the loop's iteration:
`EnsureConnected`, `ConnectEnds`, `BeginRead`, one `ReadEnds` per register block
(the power readings are assigned together after the second, the currents after the
third), then the decision; the MQTT task may run `SetAddress` and `Reconnect` at
any of these awaits. Readings are kept by age, `new` in this iteration, `old`, or `none`, since
what matters is which of them a decision may find. pymodbus reopens a lost
connection behind the program's back (`ReopenInBackground`).

**`MqttSession`** is `run_loop` and the tasks it starts; an action is the code
between two publications (`Connect`, `ContinueSetup`, `Take`, `ContinueDrain`,
`PublishFails`, `AcceptCommand`, `RefuseCommand`), and `Write` is the library
handing the oldest packet to the socket and waking the task that waited for it. A
connection that breaks is noticed later (`SessionEnds`): what is written until then
vanishes. `asyncio.gather` does not cancel the drain of a connection that ended, so
there is one drain per connection, and an old one may take from the queue too, through
whatever client is current, or die on the assertion when there is none.

**`ConfigPersist`** is `schedule_persist`, `flush_loop`, the writing thread (file
truncated, then written), SIGTERM, an abrupt kill at any point of that, and load, in
half seconds. Settings are version numbers.

`MC*` modules hold the constants of the runs. Operators commented "Mutant of X"
are X with a plausible mistake; no specification uses them. They serve to see
that a property notices the mistake.

Parameterised by CONSTANTS and named ASSUMEs throughout; the assumptions say
that sets are of the right type, delays are naturals, requests are at least the
charger's minimum, and `None` is not a number.

## 3. The runs

| Run | Question | Bounds | States |
|---|---|---|---|
| `session` | Do timers, reason, output and confirmation fit the session state (`TimersMatchState`, `OutputMatchesSession`, `ConfirmationIsFresh`)? Does it implement the contract (`EventContract`) and close (`StopCompletes`)? Seen from outside, is `stopped` only said after 5 s at zero (`StoppedAfterZero`), power only withdrawn for cause (`PowerWithdrawnForCause`)? | 2 setpoints; iterations of 4 s (several in each delay) and 10 s (the default); one status of each kind the code distinguishes; two plants | 90,108 |
| `breaker_cap` | For any readings: does the latch hold (`TrippedMeansStopped`) and release only with margin (`RestartNeedsMargin`), and does what it lets through fit on every active phase whose current it sees (`CapIsEnough`): one past the instant threshold, or one whose samples do not lie below the reading? | five grid readings, four EV readings (missing, idle, one phase, three), two requests; two or three samples in the window | 3,483 |
| `breaker_plant` | Closed loop: an overload that the override sees, or a mean no lower than the reading on a phase the cap knows the car is on, is cleared in one iteration (`SeenOverloadClears`); the latch is no trap (`ChargingResumes`) | three house loads changing at will; EV current corrected by 6% (the default is 5.6%) | 20,976 |
| `breaker_cycling` | **violated**: FR-13/EC-8, "prevents start/stop cycling" | one constant load | - |
| `loop_safety` | Is traffic only suppressed when nothing needs it (`SuppressionIsSafe`); does no session start for a vehicle that has been away since the iteration began (`StartsNeedVehicle`); is Manual only taken back for a cause (`ManualIsTakenForCause`)? | failing link, moving vehicle, a cap that may trip, a charger that begins late or by itself | 809,166 |
| `loop_standby` | Staying in Standby stops every charge the loop has seen, and the link goes quiet once the vehicle stays (`StandbyStopsSeenCharge`); leaving it brings the reads back (`SuppressionEnds`) | link works; the vehicle moves, the charger begins late or by itself, the cap may trip | 50,184 |
| `mode_strategies` | Setpoints in range; cooldowns respected across mode changes, nights, unplugs (`CooldownRespected`); the ramp only on a battery that has been full (`RampNeedsFullBattery`); a vehicle that reports is not charged past its target (`TargetHolds`) | three ramp values, cooldown of two or three iterations, readings on each side of each threshold; nine vehicle SOCs around the target | 10,755 |
| `client` | Is what a decision trusts read whole in this iteration (`TrustedReadsAreWhole`); does a demand reach the register (`SetpointReachesCharger`), and does the link recover (`CommunicationRecovers`) | the three blocks whose fields are kept, two disturbances in any combination | 572,376 |
| `client_crash` | **violated**: "no locking needed", the loop survives the other task | all seven blocks | - |
| `config_persist` | Is a change picked up in debounce + poll (`PickedUpInTime`; the 5 s of `config.py:78` are missed, see `config_deadline`); does a clean flag mean saved (`CleanMeansSaved`); are only recent changes lost with the process (`OnlyRecentChangesAreLost`); is everything saved in the end unless a write failed (`SavedUnlessFailed`)? | four changes, two ends of the process by signal or kill, failing writes | 14,398 |
| `mqtt_session` | Do events arrive at most once and in order though several drains serve one queue (`EventsInOrder`); is every event accounted for (`EventsAccounted`); does Home Assistant show the settings in force once all is published (`ShownIsCurrent`); is the queue served while the network stays up (`QueueIsServed`)? | two events, two changes, two faults (three connections, so an orphan meets its successor, and a second orphan) | 248,902 |
| `victron` | Does no decision use an old phase current (`CurrentsAreNew`); does a client that is up mean new power readings (`ConnectedMeansRead`); do readings of the right device come back (`ReadingsReturn`)? | two phases, two addresses and none, four disturbances | 61,276 |

Why the bounds suffice. The session compares ages only with its two delays, so
ages are cut beyond their sum, and two setpoints tell "the last" from "this".
The latch depends on the readings only through headroom against three
thresholds, and the readings lie on each side of each. Strategy memory is three flags, a ramp and
two ages; the graph is complete. The run has two parts, chosen at the start: all house-battery
readings with an arbitrary SOC, and an ageing SOC with a few of those readings; the
strategies read the SOC only through two comparisons, which both parts take either
way. Two disturbances are enough for a
reconnect to meet an on-demand command, an outage to meet a foreign write, and
so on; that reads are whole is also proved without the bound. Four changes let one fall before,
during and after a write and one more follow. In `mqtt_session` order and accounting are
also proved for any number of events, changes and faults. `CHECK_DEADLOCK FALSE` appears
in `config_persist.cfg` only: the program exits on a torn file.

### Fairness

- `session`, `breaker_plant`: the loop iterates for ever (`while True`, and
  `_supervised` restarts it). Fairness is stated for each demand and load: one
  condition for any iteration would not count an iteration that changes nothing, and
  so would make the mode change its mind in a stuck state.
- `loop_standby`: each await of the loop ends, since every request has a
  timeout; and a charger that is about to start begins. Nothing is assumed of users,
  or of the vehicle: that the link goes quiet is claimed of a vehicle that stays, since
  one that is plugged in for ever may start a charge each time.
- `client`: the loop's and the MQTT task's requests end; the back-off delay passes.
  Mode changes, demands, outages and plugging are not fair: the properties say
  "if from some time on ...".
- `config_persist`: the flush task runs and a stopped program is started again.
- `mqtt_session`: the tasks run, the library writes what it has, a broken connection
  is found broken (keep-alive), a publication's timeout ends. Nothing is assumed of the
  network or of users: `QueueIsServed` speaks of a network that stays up.
- `victron`: the loop runs (every request has a timeout), a scheduled `reconnect()` runs,
  the back-off delay passes. Devices and users are free, and pymodbus need never reopen
  a connection.

### Divergences

Each of these is a counterexample TLC finds, against a sentence of the repository.

1. `client_crash`. A reconnect (address change) or disconnect (end of an on-demand
   command) while the loop awaits a block sets `_client` to `None`; the next
   block dereferences it (`ev.py:446` and the others), and `read()` does not catch the
   `AttributeError`. `app/state/models.py:11`: "Single-threaded asyncio - no
   locking needed". The supervisor restarts the loop, and the `client` run shows
   that it recovers.
2. `breaker_cycling`. The mean still contains the current the charger drew before,
   while the subtrahend is what it draws now; with a constant load the cap trips and
   releases for ever.

Further counterexamples have a configuration but are not part of the regular runs
(each `.cfg` names one property, stated in its module with the line it quotes):

| Configuration | Property | What the code does |
|---|---|---|
| `loop_standby_exit` | `ReconnectBeforeReadsResume` | a mode that leaves Standby during an iteration clears the flag in `should_suppress_ev_writes`; the top of the loop sees nothing to reconnect (`loop.py:89`), and reads resume on the old link |
| `config_shutdown` | `SettingsSurviveRestart` | SIGTERM cancels the flush with the flag set; `docs/grid-power-scaling.md:466` says a setting "survives restart" |
| `mqtt_config_race` | `ChangeStaysConfirmed` | a list of all settings, made before a change, is published after it, and the broker retains the old value |
| `victron_background` | `EcoDecidesOnNewPower` | a connection that a read found lost is reopened by pymodbus before the decision, which then takes old power readings for new |
| `session_stopping_delay` | `MinTimeBetweenStoppingAndStopped` | a mode switch while charging skips the 10 s of `constants.py:20` |
| `session_external_stop` | `ExternalStopIsAnnounced` | the next request re-opens the session before `stopped` is said |
| `breaker_limit` | `EveryPhaseWithinLimit` | between 80% and 90% the mean lags and the phase stays above |
| `breaker_correction` | `OverestimateIsConservative` | an overestimated EV current raises the cap; EC-11 says it lowers it |
| `loop_standby_start` | `StandbyStopsCharging` | a charger that begins after the suppression charges on; README line 23 says Standby stops charging |
| `loop_standby_plugin` | `StandbyStopsCharging` | even with a prompt charger: with auto start on, a vehicle plugged in during the silence charges and nobody reads it (with it off the property holds) |
| `loop_stale_start` | `NoStartWithoutVehicle` | an iteration that began suppressed reads nothing (`loop.py:97-102`), and a mode that leaves Standby meanwhile is decided for on reads from before the silence, maybe for a vehicle that has left; `loop.py:87` says "read -> compute -> write -> publish" |
| `config_deadline` | `PickedUpWithinDebounce` | the wait runs from the last change before the first look: a change with another close behind it is written up to a poll (1 s) later than the 5 s of `config.py:78` and `:84` |
| `loop_manual_reset` | `ManualIsKeptUntilUnplug` | a failed first read after a start counts as an unplug |
| `mode_ramp_jump` | `OneStepPerIteration` | a ramp re-entered from the minimum continues where it was |
| `client_resend` | `StartResendsSetpoint` | the read in between refills the cache |
| `client_stop_preset` | `StopPresetIsWritten` | 4.2 kW is raised to 4.4 kW |
| `client_on_demand` | `OnDemandLeavesNoSession` | a failed connection returns before the `finally` |
| `config_write_error` | `SettingsReachFile` | a failed write is logged, not retried |

Where a regular property speaks of the same matter, it excepts just that case and says so:
`StandbyStopsSeenCharge` a charge that begins in the silence, `StartsNeedVehicle` a
suppressed iteration, `ManualIsTakenForCause` a failed first read, `CapIsEnough` and
`SeenOverloadClears` a lagging mean, `SavedUnlessFailed` a failed write, `ShownIsCurrent` an
overtaken list, `ConnectedMeansRead` a reopened connection. `SuppressionEnds` and
`SetpointReachesCharger` do not see the missing reconnect and the missing re-send. The
notes of `hazards` say the same at each line.

## 4. The proofs

Each proof module establishes an invariant I with Init => I and I /\ [Next]_vars => I',
by one step per action, and closes with PTL.

- **`ChargingSessionProofs`**: `SessionTypeOK`, `SessionTimers`, `SessionOutput`,
  `SessionConfirmation`, `SessionRefinesContract`. Inductive: `TypeOK /\ SessionInv`, where
  `SessionInv` is the three state invariants together. They need each other: the output of
  `HoldSetpoint` is a positive setpoint only because of `TypeOK`, and the refinement maps
  `why` to the stop reason, which `TimersMatchState` fixes outside a stop. The safety part
  of the refinement (`Contract!SafetySpec`) is proved, its liveness checked.
  `StoppedIsSaidAfterZero` and `WithdrawalHasCause` add `ObserverInv`: the stopwatch never
  shows less than the session's own timers, so a delay the session has waited out has passed
  outside too.
- **`ControlLoopProofs`**: `LoopTypeCorrect`, `LoopSuppressionIsSafe`,
  `LoopStartsNeedVehicle`, `LoopManualIsTakenForCause`, `LoopKeepsContract`. Inductive:
  `LoopInv`, which is the session's invariant, the loop's types, `QuietInv` (traffic is never
  suppressed in an iteration that has begun to read) and `VehicleInv` (a lost
  connection that the loop remembers or reads healthily has been an unplug, and a
  connection read healthily in this iteration is one of a vehicle that has been there). The session's part is
  not proved again: every loop step is a session step or leaves the session alone, and so the
  loop keeps the event contract too.
- **`BreakerProofs`**: `LatchStopsCharger`, `LatchNeedsMargin`. Inductive: `LatchInv`,
  the latch is on whenever the observer says the cap has stopped the charger. It is
  needed because `RestartNeedsMargin` speaks of the observer and the code of the
  latch. No property of the mean is used.
  `CapSuffices`, for every breaker, window and sequence of readings. Inductive: `CapInv`,
  which says that what is let through is covered by the cap of the readings it was let
  through on (`Covered`). From there the argument is arithmetic: the cap leaves its share on
  each active phase (`CapLeavesRoom`), and the mean is at least what every sample is
  (`MeanAtLeast`). That lemma is about data of any length; it takes the least age at which
  a sum is too small (`LeastExists`), and there is none. What the theorem leaves open
  is exactly where `breaker_limit` goes wrong, a phase whose reading has risen within the
  window and is below the threshold.
  `OverloadIsCleared`, for every house, wiring and correction. Inductive: `PlantInv`, where
  `Metered` ties the readings to the load and the draw they were taken from, and the draw is
  shared equally by the wired phases, so that the active phases are the wired ones as soon as
  one of them is active. A phase past the threshold that is not active is so by the household
  alone; this is what `SettingAssumption` is for. Below the threshold the theorem asks for a
  charger that draws or is wired to all phases (`Located`): one that is idle counts as on three
  phases, and if it is on one only, it may be let through up to three times its phase's room.
- **`ModeStrategiesProofs`**: `StrategiesTypeOK`, `SetpointAlwaysInRange`,
  `ChargingExcludesCooldown`, for all settings, including ones
  outside the charger's range; `CooldownsAreRespected`, `RampNeedsFull` of
  `StrategyObserver`. Inductive: `Inv`, the first three together (a setpoint is in
  range because the remembered ramp is), and `ObserverInv`: the observer's clocks are the
  strategies' cooldowns, a cooldown that is not running being one that has passed, and a
  battery latched full has been full. `TargetAlwaysHolds` is about `SocSpec`, the strategies
  with the vehicle, at every pace of the loop. Inductive: `SocInv(m)`, m being the shortest
  iteration: since its last report the vehicle gained no more than the report's age allows
  (`GainedSinceReport`), and while it charges by a report it has not gone so far past the
  target that this report would be stale (`RoomLeft`). The excess alone is not inductive: it
  is the age of the report that ends the charge.
- **`EvClientProofs`**: `EvTypeCorrect`, `TrustedReads`, for any list of blocks and any number of
  disturbances. Inductive: `ReadInv`, how far this iteration's reads have come at
  each `pc`; lemma `OthersKeepOut` says that nobody but the loop moves it or turns
  health on.
- **`VictronClientProofs`**: `VictronTypeCorrect`, `CurrentsAreAlwaysNew`, `ConnectedHasRead`,
  for any phases and addresses. Inductive: `VictronInv`, where `PowerReadAtThird` says that
  power is new once the third block is awaited, and `ReadAndDecide` that what holds of a decision
  already holds while the EV is read; each action of the MQTT task keeps both.
- **`ConfigPersistProofs`**: `PersistTypeCorrect`, `ChangesArePickedUpInTime`,
  `CleanFlagMeansSaved`, `OldChangesSurvive`, for any debounce and poll. Inductive:
  `PersistInv`, with `DirtyMeansUnsaved` (the flag is set exactly while a change is
  waiting), `UnsavedHasTimeLeft` (its age and the timer together stay within debounce and
  poll, which is the reason why the bound holds) and `SnapshotIsCurrent` (the thread writes the settings of the
  moment unless the flag is set again).
- **`MqttSessionProofs`**: `MqttTypeCorrect`, `MqttEventsInOrder`, `MqttEventsAccounted`,
  `MqttShownIsCurrent`, for
  any number of events, changes and faults. Inductive: `MqttInv`: an item in the hands of a
  drain belongs to a drain that waits for it (`DrainInv`); a packet has a drain that waits for it
  and is its only one (`PacketInv`); what has arrived is older than what is on its way, and that
  older than what is queued (`OrderInv`), and nothing is newer than the last event
  (`EmittedInv`). Order alone is not inductive: it is the drains' ownership that keeps two
  drains of one queue from overtaking each other. `MqttShownIsCurrent` adds `ShownInv`:
  settings newer than the last ones handed over are promised, by the set-up that is under way,
  by a request in the queue or by a drain at work (`PromiseInv`); the last settings among the
  packets under way, or what the broker has if there are none, are the newest
  handed over (`NewestIsLast`); a drain that waits has its packet under way (`Waited`); and
  every list holds settings that were in force once (`Versions`). An orphaned drain that dies
  with the request breaks the promise only until the new session's set-up renews it.

They rest on the named ASSUMEs of the modules, and on nothing else. Three of them say more
than types: an iteration takes some time, and there are iterations (`SocAssumption`);
`correction_pct` is between 0 and 10, as `ev.py:422` clamps it, and a tenth of the
breaker's rating is at least the threshold for an active phase (`SettingAssumption`), as it is
from 10 A on, the smallest rating `ha/constants.py:85` admits; and the grid has a voltage
(`WiredAssumption`). The theorems about `StrategyObserver` and `SessionObserver` are about their
`ObservedSpec`, `TargetAlwaysHolds` about `SocSpec`; the run `mode_strategies` checks the same
invariants on strategies, vehicle and observer together.

Every invariant and action property of the regular runs is proved. Only model-checked: all
liveness (`StopCompletes`, `ChargingResumes`,
`StandbyStopsSeenCharge`, `SuppressionEnds`, `SetpointReachesCharger`,
`CommunicationRecovers`, `SavedUnlessFailed`, `ReadingsReturn`, `QueueIsServed`), which is
out of reach of the prover together with ENABLED, and of the refinement
`EventContract` its liveness part.

## 5. What is abstracted

Powers in the session and the loop are small numbers or "some power"; the
numbers matter in `BreakerCap`, `ModeStrategies` and `EvClient`, where they are watts, and
where the conversion to register units (`RawSetpoint`, half to even, with
its floor) is modelled. Charger statuses are the enum's names. Rolling
means outside the cap and the discharge window are inputs.
Voltages are one constant. Events carry name and reason only, and on the publish
queue a number; state snapshots take the same way through it. All settings are one topic that is
not the first of the list. A message that the parser refuses is a refused command.

## 6. Not modelled

- The availability topic with its will, and the removal of the discovery topics at shutdown.
- The arithmetic of the discharge window (`time_utils.py`): a comparison of clock times
  without state.
- Rolling means outside the cap, and the headroom diagnostics: derived values.
- The length and jitter of the back-off: only that it is pending and passes.
- Data-only code: snapshot, entities, device, parsers, log throttle, packaging.

## 7. Plan

Done, in this order: session and contract, cap, loop, strategies, EV client,
persistence; then the MQTT session, the Victron client, the vehicle's SOC and abrupt
kills, with the proofs above. What would come next:

1. `ControlLoop` with `BreakerCap` in place of its verdicts, to follow what a cap of 0
   does to an open session.
2. The availability topic, whose order against the settings `MqttSession` already fixes.
3. The discharge window as pure operators against a reference definition.
4. An abstract event channel (each event at most once, in order, and accounted for) that
   `MqttSession` implements.
5. From `CapSuffices`, a bound on how long a phase may stay above the limit after a load step:
   the mean has caught up after a window.
