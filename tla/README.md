# A TLA+ verification of the smart house

The repository is a smart house of three Raspberry Pi Pico W boards and a web
console that talk over MQTT. Node A measures light, temperature and humidity;
node C decides; node B drives a lamp and a window; the console shows the state
and has buttons. This directory holds TLA+ models translated from that code, the
TLC runs that check them on small instances, and TLAPS proofs about them.

## 1. Inventory

| component | code | state it keeps | operations | interacts through |
|---|---|---|---|---|
| Node C controller | `node_c/src/node_c_controller.c` | mode, believed lamp and window, last environment, time of the last node B status, two time-out flags, status timer | apply env / mode / light / window / node B status (callbacks), UART command, periodic | publishes modes, commands, its status |
| Node C MQTT client | `node_c/src/node_c_network.c`, lwIP | `enabled`, `mqtt_ready`, heartbeat time, five request slots | publish, subscribe, connection callback, dispatch of messages, heartbeat | the broker |
| Node C main loop | `node_c/src/main.c` | clock of the pass, demo timer and index | clock, UART, demo data, poll, periodic | the controller, without a lock |
| Node B control | `node_b/src/tempservo_led.c` | `lamp_on`, `window_open`, `mqtt_ready`, heartbeat time | light and window commands, connection callback, heartbeat | the broker |
| Node B servo | the same file | `current_us` of each servo | `servo_set_open`, `servo_move_one_step` | called by a window command, blocks |
| MQTT broker | not in the repository | subscriptions, queues | route, acknowledge | everybody |
| Node A | `node_a/pico/src/project0.c` | `mqtt_ready`, two timers, request slots | measure and publish, heartbeat, connection callback | the broker, the climate sensor |
| Climate sensor dialogue | `read_dht` in the same file | five bytes, bit counter | wait for an edge, sample, check the sum | a one-wire line, with interrupts off |
| Web console | `web_console/app.py`, `static/app.js` | last messages, log, heartbeats | buttons, on_message, snapshot | the broker, the browser |
| Database project | `DB_project/` | a schema | none: nothing uses it | - |

What is hard in this code:

* **Interrupt callbacks against a loop without a lock.** Nodes B and C are linked
  with `pico_cyw43_arch_lwip_threadsafe_background`: MQTT callbacks run in an
  interrupt and preempt the loop anywhere. `cyw43_arch_lwip_begin/end` protects the
  client, never the controller. Every test-then-act in the loop of node C can be
  overtaken.
* **Everybody writes the same topics.** Node C, the operator at the UART and the
  console all issue commands; node B obeys all of them in any mode; node C receives
  its own commands and modes back; node B's statuses arrive late.
* **Silent loss.** Five request slots, results not looked at, nothing retained, no
  reconnection.
* **The console's threads.** MQTT callbacks and Flask requests share one state under a
  lock that each method takes anew; a message is stored in two of these steps, a page
  is made in two.
* **Waiting inside a callback.** The servo sleeps through its whole motion inside the
  MQTT callback of node B; the climate sensor is read with interrupts off on node A.
* **An analogue partner.** The climate sensor is a sequence of pulse widths; a pulse out of
  tolerance flips a bit, or hides two edges and shifts all the bits behind; only time-outs and a sum notice.
* **Timers** on unsigned arithmetic, with timestamps written by callbacks later than
  the clock value they are compared with.

What makes each component correct:

* controller: belief follows the actuators; the rules win in AUTO; a silence of
  node A is reported, and only a silence is;
* client: every message it refuses is made good by a later status, while there is a connection;
* main loop: no command, mode or status it sends in several steps leaves the others with something stale for good; timers never wrap;
* node A: falls silent only when sensor, slots or connection fail; stays on the light scale;
* climate sensor: returns what was sent or a failure, in bounded time;
* node B: a status is true when it is the last one, and sent when the window has arrived;
* servo: stays in its travel, moves by a step at most, arrives, returns;
* console: a page is of one moment; it does not show a dead node as alive;
* house: both boards agree when nothing is under way, traffic dies out, the policy
  is restored.

## 2. Modules

```
HouseRules            thresholds, evaluate_auto_rules as an operator on readings
  Mqtt                messages; lwIP request slots (Taken, Refused)
    NodeC             node C alone: loop by small steps, callbacks as actions
      House           NodeC with NodeB (INSTANCE), the broker, node A and the console
    NodeB             node B alone, a command being one action
    NodeA             node A alone: loop by small steps, callbacks as actions
ServoMotion           the stepwise servo motion of node B
NodeBoard             NodeB + ServoMotion: node B as it runs; implements NodeB
SensorRead            what a reading of the climate sensor promises (used by NodeA)
Dht                   the dialogue with the sensor edge by edge; implements SensorRead
WebConsole            the console's state, its callbacks and its pages
MCNodeC MCNodeA MCNodeBoard MCDht MCHouse MCWebConsole          instances for TLC
Mqtt_proofs NodeC_proofs NodeB_proofs NodeBoard_proofs (the servos too)
NodeA_proofs Dht_proofs House_proofs WebConsole_proofs          theorems
```

Definitions keep the names of the code where they can; PROJECT.json maps each of
them to its lines. Definitions commented "Mutant" are not part of the models: each
is a plausible bug in the definition after it, and a property is kept only if
putting the bug in violates it.

### NodeC

`mode`, `device` (`lamp_state`, `window_state`), `env`, `nodeBLast`, `aReported`,
`bReported` are the controller struct. `link` is the connection, "up" when
`mqtt_ready`. `out` holds the requests the client accepted and the broker has not yet
taken, `unacked` counts the request slots in use; `lost` is history: the topics of the
commands and modes that were refused or dropped.
`pc`, `cur`, `line`, `want`, `todo`, `temp`, `snap` are the place and the locals of
the main loop.

A callback (`Receive` and the `Apply...` operators, `Connected`, `Disconnected`) is
one action, because nothing of the board interrupts it. The loop is split at
every read of shared fields that decides something, every write and every publish:
`UartLine` tests the mode; `WriteMode`, `LoadMode`, `PublishMode`, `EnterRules`, `LoadTemp`,
`Decide`, `TestDevice`, `WriteDevice`, `PublishCommand`, `BuildSnapshot`,
`PublishSnapshot` are `set_mode`, `evaluate_auto_rules`, `set_lamp_state`,
`set_window_state`, `publish_status_snapshot` run by the loop (`LoadMode` and `PublishMode` are the two halves of
`publish_mode`, which hands over the mode it has loaded before); `BuildSnapshot` reads one
field of the status at a time, in any order (C does not fix the order of arguments), so
that a status of the loop may mix two moments; `CheckNodeA` and
`ReportNodeA` (and B) are the two halves of the time-out blocks. `Demo` runs the
env handler in one step since it runs only when there is no network, hence no
callback. `Publish` is the accepted part of what a handler hands over: lwIP returns
`ERR_MEM` when its table is full, and the code does not look.

For the window "ON" stands for OPEN and "OFF" for CLOSE, so that the two devices share
their definitions. Temperature and humidity are integers in tenths, as in the
payloads.

### NodeB, ServoMotion, NodeBoard

`NodeB` has one action per callback and the heartbeat of its loop. The servo sleeps inside
the callback that brought the command, and `ServoMotion` is that motion, round by round,
for any number of servos as the code's array is written.

`NodeBoard` puts the two together. A window command is `WindowCommand` (the early return of
`set_window_state`, then `servo_set_open`), `Move` until the servos have arrived, and
`WindowMoved` (the status); `Moved` is the return of the same call at boot. Other handlers and the
loop run only `AtRest`, since nothing of the board preempts a callback; the broker takes
requests and time passes meanwhile. `actuator["window"]` is the code's `window_open`, which changes in `WindowCommand`,
before the motion, and so differs from the last status and from the servos until the callback has published.

`ActsAtOnce` says that this board implements `NodeB!Spec`, in which a command is one action: that is what entitles
`House` to use `NodeB`. The refinement mapping is the identity but for the window while a callback waits, where `standing` has the
value that `window_open` had before: it is the claim that nobody sees the difference, and a handler or a heartbeat run during
the motion (`AtRestNested`), or a status published before it (`WindowCommandTold`), refutes it or `StatusAfterArrival`.

### NodeA, SensorRead, Dht

`NodeA` splits its loop as `NodeC` does: `HeartbeatDue` and `SensorDue` test a timer and set it,
`PublishHeartbeat` and `PublishEnvironment` test the connection again, `ReadSensor` skips what failed.
Callbacks come between any two of them, except while `reading`, when interrupts are off.
`silence` and `misses` are history: how long nothing of a topic was accepted, and how many
messages were due and not sent.

What `NodeA` uses of the sensor is `SensorRead`: a reading is begun and returns the climate
sent in it or a failure. `Dht` is `read_dht` edge by edge: `AnswerEdge`, `Rise` and `BitEnd` are
calls of `wait_for_level`, which notices an edge up to `Late` after it happened, and `Sample` is the look at the line after the
30 µs of sleep. The board counts the edges it has seen (`edges`, `i`), the sensor is ahead with its own (`coming` is the number of its next
edge, `left` the time until it, negative when it is past), and after `LastEdge` the line stays high. `Pulse` gives the next pulse a
width, proper or, `MaxFaults` times in a reading, any of `Faulty`. `Unseen` is the case that a pulse is over between two looks of the board:
two edges are gone, it waits on for the same level, and from there takes every bit for the one before it.
`ReadsGenuine` and `ReadsReturn` say that `Dht` implements `SensorRead`, its steps and its fairness.
`spent` adds up the waits and the 30 µs after each rising edge. A byte is the set of its bits that are 1, and
`Value` its number, so that the bits, the sum and the wrap of the sum can be reasoned about. `WidthAssumption`
names what is asked of the proper widths: a 0 is over before the sample and a 1 is not, and no two edges go unseen; of a width out of tolerance
nothing is asked. A climate is its four bytes; the last two lines of `read_dht`, which turn bytes into degrees
and percent, are a function of them and are not translated: `NodeA` starts from their result, in tenths.

### House

The bring-up of both boards starts where the Wi-Fi connection has succeeded or not:
`HouseInit` chooses how `node_c_network_init` (`Started`) or node B's `main` left the
connection, `DnsFound` is the late answer of the name look-up, with `start_mqtt_client`,
and `Connected` or `Disconnected` the answer of the broker. A failure panics node B
("halted") and leaves node C running with `enabled` set and no connection; only a missing
configuration or a failed Wi-Fi connection gives it the demo.

`House` extends `NodeC` and takes `NodeB` by INSTANCE. The broker is external, modelled from how the
code uses it: it routes a message to each subscriber, in order per client, retains
nothing and acknowledges. Acknowledgements travel in the same ordered queue as
messages. Node A's and the console's messages enter at the broker. `SettledInit` is a house
after boot, both boards connected, in one of the modes and device states of `Settled`, and `SettledSpec` starts there;
`HouseSpec` starts from power-on.

Losses are history, by topic: `lost` of node C what it was refused or dropped, `bLost` of node B whether its last status was,
`missed` what had a deaf addressee at the broker. They heal: a status that node B hands over tells the whole state of its actuators and so
makes good every earlier command and status that was lost (`Told`, `MadeGood`). `Sound` says that nothing about a device is still lost,
`ModesSound` the same of modes, which no later message makes good. So a command sent to a board that is not yet connected is excused until
that board has connected and reported, and no longer, in either order of booting.

`InSync` reads the queues. `ToNodeC` and `ToNodeB` are what is on its way to a board, oldest first; `Has` finds a
message of a topic in it, `Followed` one behind a place, `Opposed` a command for another state than the given one.

### WebConsole

A step is what `app.py` does under one lock, or one read of the clock: `OnMessage` (the
log), `Stamp` (the clock), `UpdateFromMessage` (the card) are `on_message` on the thread of
the MQTT library; `OnConnect`, `OnDisconnect`, `LogConnection` its other callbacks; `Post` and
`LogPost` are `api_command`, `Copy` and `Answer` are `snapshot`, on Flask's threads. A card
(env, nodeB, nodeC) is one value: the fields of the payload are replaced together under the
lock. `paho` and `post` are where the threads are, `page` is the page under way or the
last one made, `heard` is history: the uncut times of the heartbeats. Times are in ticks, two
to a second in the run, because `utc_timestamp` keeps whole seconds and `_is_online`
subtracts them from a clock that has more. The MQTT library keeps a QoS 1 command it
cannot send (`outbox`), and its thread also reports the end of a refused connection.

## 3. Runs

Every run is exhaustive for its bounds.

| run | instance | shows |
|---|---|---|
| watchdog | node C alone; operator "mode auto" and "light on", readings, node B statuses and MANUAL from the broker at any time; 1 slot, clock 1..2, time-outs of 0 | types, with the demo index; the timers of the loop never wrap (`TimersBehindPass`); a silence gets reported (`SilenceFlagged`) |
| control | house, lamp, one operator line, one console message, one reading, 12 slots | `InSync`: no interleaving leaves belief and actuator apart for good; `ModeSettles`: the mode announced last is in the end node C's |
| traffic | house, one operator line, one reading, clock 1..2, 5 slots | `EventuallyQuiet`: echoes and statuses do not feed on themselves |
| steady | house in MANUAL; node A measures for ever, humid or warm, each of which alone asks for an open window and half of each does not; late operator "window close" or AUTO, console AUTO, 5 slots | `PolicyRestored`: the window ends up open although a torn reading, a late status or a command carried out in AUTO closed it; `ViewCatchesUp`: the console ends up with the mode and states node C has, although a status may mix two moments or be overtaken |
| boot | house from power-on, connections may end, 5 slots, a reading that asks for both devices | types of the whole house (`HouseTypeOK`); `InSync` after losses that a status has made good |
| board | node B with its window; all four commands, 4 slots, time to 2; two servos, mounted in opposite directions (500/1560, 1000/650), step 40 | types; the servos' travel, smoothness and arrival (`InTravel`, `SmoothMotion`, `NoFinalJump`, `CallReturns`); `StatusOfPlace`: the last status tells where the window stands; `ActsAtOnce`: the refinement of `NodeB`; `StatusAfterArrival` |
| nodea | node A alone; ticks of 500 ms, so intervals of 4, readers' patience of 10 (node C's five seconds) and 12 (the console's six); 2 slots | types with the scale of the light; `SilenceMeansFailures`: a topic is silent for longer than its reader waits only after two failures in a row; `KeepsMeasuring` |
| dht | five bytes of 2 bits, data sheet widths, one pulse of any reading 0, 2, 20, 30, 45, 71 or 5000 µs wide | types; `ReadsGenuine`, `ReadsReturn`: the refinement of `SensorRead`; `BlackoutBounded`: interrupts are off no longer than the waits add up to |
| console | one card, one node, one button; 2 connections, 2 messages, 1 command, 2 payloads (symmetric), a log of 2, seconds of 2 ticks, time-out of 1 s | the log stays within its limit; `PageConsistent`: a page shows the newest message of its log on the card, except one just in hand; `OnlineExact`: ONLINE is never too late, OFFLINE at most a second early |

Why the bounds are enough. A race needs one message of each origin: an operator
line, a console message, a reading, and their echoes and statuses, which the runs
give. Twelve slots are more than the house can then fill, so `control` is about
interleavings and not about loss; `steady` and `boot` use the code's five.
Time needs to pass a time-out by one: in `watchdog` a time-out is 0 ticks (data of
an earlier tick is late) and the clock makes one, in `alarm` it is 2 of 5 ticks, on words of 64 values, so that a subtraction the wrong way round shows as a
huge age and the clock itself does not wrap. (In the code the clock is of 64 bits of
milliseconds and does not wrap either.) Readings are two of the demo payloads, one on
each side of the hysteresis, one that asks for both devices, and in `steady` two that differ in temperature and humidity at once. Travel 1000/650 is
no multiple of the step. In `board` time only matters for the heartbeat, which two
ticks let come and come again. In `nodea` a pass takes a tick at most (500 ms; the code needs some 75 ms and a reading 28 ms),
the clock goes on for ever on words of 8, wider than any difference taken on it, and two slots are enough for
one topic to take the slot of the other. The patience of 10 is the least for which `SilenceMeansFailures` holds (two
intervals less a tick each, and four passes: `TimeAssumption` of `NodeA`); with 9 TLC finds a silence that one failure explains. In `dht` a byte of two bits keeps every wrap of the sum, every boundary
between bytes and the last bit; the high pulse of a 0 is 26 or 28 µs, so that the sample at 30 µs, up to 1 µs late
after the edge (`Late`), tells it from the 70 µs of a 1; the faulty widths are 0 and 2, so short that their edges may go
unseen, in a wait or in the sleep, one of 20, one at the sampling point, one undecided, one that ends just after a time-out of 70 and a line that hangs. One fault is what a sum can
promise to catch: two may cancel out, and a reading is then wrong and accepted. In `console` two messages and an echo overflow a log of two entries, a connection is refused
or ends and is made again, and three ticks are more than the time-out. The bounds are
`MaxTime`, `MaxUart`, `MaxConsole` and `MaxReadings`, and in `WebConsole` `MaxConnects`,
`MaxMessages` and `MaxCommands`, in `NodeA` `MaxPass`, in `Dht` `MaxFaults` and `Late`; the slots bound the queues.

Deadlock is not checked where the clock or the inputs are bounded
and the boards may be cut off or halted; the loop of node C itself never stops (`SilenceFlagged` under weak fairness), nor does that of node A (`KeepsMeasuring`). `dht` checks deadlock.

`Sound` and `ModesSound` are antecedents in the house properties because in the code nothing but a later status of node B repairs a
loss (run `slots`). The runs reach states of both kinds, and states where a loss has been made good; a connection that has ended stays so, and
what is lost then stays lost.

### Fairness

`NodeC`: weak fairness of the loop, which is a `while (true)` whose steps are always
enabled, and of the clock. `House`: the loop of node C, the broker's taking and
delivering (TCP retries while a connection lasts), node A's measuring. Nothing is assumed
of the operator, the console, a connection's coming or its end. In run `steady` node A
measures again when the earlier reading has been delivered, with the commands and statuses that came of it, and the requests of both
boards are acknowledged (two seconds against milliseconds on a local network); without that a
reading could refill the slots for ever. Periodic statuses need no assumption: a reading ends in one.
`ServoMotion` and `NodeBoard`: the steps of a call, and its end; nothing can hold them up, the callback has the
processor. `NodeA`: its loop and its clock; nothing of acknowledgements, the connection or the sensor's success.
`Dht`: the waits of a reading that was begun, each of which ends by an edge or by its time-out; nothing obliges node A to begin one.

## 4. What the code does against its documents

Three runs state what a document says and TLC refutes it:

| run | document | what the code does |
|---|---|---|
| alarm | a warning when node A is silent (`node_c_central_manager_guide.md:157`) | a callback newer than the pass clock makes the age wrap; or data comes between test and flag |
| policy | a button in AUTO does not break the policy (`발표_스크립트.md:55`) | node B obeys, node C takes the status over and does not evaluate the rules until the next reading |
| slots | node C's picture follows node B (`발표_스크립트.md:63`) | a command refused by a full client has already changed the picture |

`steady` is the other side of `policy`: with readings coming and no loss outstanding the
disturbance does not last. More differences are in the model without a run of their own:

* an operator's command is admitted in MANUAL and may be carried out in AUTO (`UartLine`, `WriteDevice`; `node_c/README.md:105`);
* a configuration that does not work leaves node C without a demo (`node_c/README.md:75`);
* seven subscriptions are asked for at once with five slots, so that the heartbeats of nodes A and B are never
  subscribed to (`Connected`; `node_c/README.md:118` lists all seven);
* node B reports changes only and its heartbeats are not looked at, so an idle node B is warned about
  (`CheckNodeB`; `doc/reference/hrd_first_project.md:228` says that node C watches for dead nodes);
* node A does not reconnect (`Disconnected`; test 4 of `doc/문서/node_a_environment_sensor_guide.md:137` expects a log of a reconnection).

## 5. Proofs

For every value of the constants that meets the named assumptions (`ThresholdAssumption`,
`SlotAssumption`, `DemoAssumption`, `InputAssumption`, `NodeBAssumption`, `HouseAssumption`,
`ServoAssumption`, `NodeAAssumption`, `FailedAssumption`, `DhtAssumption`, `WidthAssumption`, `ConsoleAssumption`,
and a `TimeAssumption` of `NodeC` and one of `NodeA`) every invariant and action property of section 3 is a theorem:

* `NodeC_proofs`: `TypeCorrect`, `TimersOrdered`, that is `Spec => []TypeOK` and `[]TimersBehindPass`.
  The inductive invariant `IInv` has four parts: `ControllerOK` (types), `NetworkOK` (types, and the slots: one for each request the
  broker has not taken), `TimersOK` (types and order) and `ThreadOK` (the place of the loop with its locals, without which `decide` or
  `write` could not be typed: it relates `pc`, `todo`, `line` and `want`). The slots
  rest on two lemmas of `Mqtt_proofs`: what `Taken` returns fits the free slots, and consists of messages.
  The step lemmas speak of `BoardStep`, in which any message may arrive, so that the house can use them.
  `NoChatter` is the hysteresis of the rules: between a reading that switches a device on and one that
  switches it off, a quantity has crossed the whole band between its thresholds.
* `NodeB_proofs`: `TypeCorrect`, `StatusTellsTruth`. The last needs lemma `RefusedRest`: when a
  status is not among the refused messages it was taken, and is then behind every older one in the queue.
* `NodeBoard_proofs`, servos: `MotionTypeCorrect`, `TravelKept`, `MotionComplete`, `MotionSmooth`. `MotionComplete` needs to know, in the
  middle of a round, that the servos already visited are at their target unless `pending` is set.
* `NodeBoard_proofs`, board: `WindowActsAtOnce`, that is `BoardSpec => NodeB!Spec`; `BoardTellsTruth` (`StatusOfPlace`);
  and `ArrivalFirst`. The inductive invariant `BoardInv` is that of `ServoMotion` and
  `Told`, which ties it to the board: at rest the window stands where the board says, and while a callback
  waits the command in its hand is one that came. Each step of the board is a step of `NodeB` with `standing` for its state, or a stutter
  (`StepOfNode`), and one of `ServoMotion` or a stutter (`MotionStepOfBoard`), so that what is proved of both carries over: `AtomicFacts`
  is the instance of `NodeB_proofs` under the refinement mapping, and what its last status tells is, at rest, what
  `window_open` and the servos say, which is `BoardTellsTruth`. `ArrivalFirst` is an action property: only steps at rest or `WindowMoved` publish,
  and there `MotionIInv` puts every servo at its target.
* `House_proofs`: `HouseTypeCorrect`, `NeverApartForGood` (`InSync`), `ModeSettled`, each both from power-on
  and from a settled house. `InSync` is not inductive: it speaks of statuses and of beliefs, and what keeps it
  is between them. `HouseInv` adds to the invariants of the two boards that only node B speaks for node B, and, as long as nothing about a device
  is still lost (`Sound`), four statements about what is under way (`Consistent`). `NodeBTruthful` and `StatusesTrue`: a status in node B's
  requests, and then in the packets to node C, is true or a later one follows. `EchoesHarmless`: a command that node C will hear
  says what the device is, or another is on its way to node B, or a status comes behind it. `BeliefsJustified`: with no status under way, node C is
  right about a device or a command that contradicts the actuator is at node B's door, with the broker, or decided in the loop
  (`pc = "command"`; the belief is written before the command is published). `ModesOrdered`, under `ModesSound`, is the same for the mode. The broker moves a message
  from one queue to two others in one step, so the lemmas
  on queues come first (`TakeHead`, `PutBehind`), then what a step of each side does to what the other relies on (`LoopStep`,
  `HearStep`, `NodeBPublish`, `RouteEffect`), then one lemma per kind of step. A loss may be made good, so `Sound` may come back: a step that tells
  node B's state makes `Consistent` true whatever was before (`TellingConsistent`), and any other step leaves what was lost so
  (`LostStays`, `StatusLossStays`), so that it may assume `Sound` before and after (`SoundBefore`, `ModesSoundBefore`).
* `NodeA_proofs`: `TypeCorrect`: the work is in `LightScaled`
  (the scaling stays in 0..400 for every 12-bit sample), `TakenOne` and `PublishKeeps`; that no failed
  reading is published rests on `ReadSensor` going to "env" only with one that succeeded. And `SilenceExplained`
  (`SilenceMeansFailures`): `TimeInv` bounds each silence by the misses and by the age of the timer, according to whether the
  loop has yet to look at the timer, has looked, or is about to send (`Timely`). A timer can be found run out only where the loop has not looked in this
  pass, or while the connection was down; this is where the four passes of `TimeAssumption` come from. Ages are taken on a clock that wraps,
  which `ClockDifference`, `ClockTicks` and `ClockAdds` reduce to arithmetic.
* `Dht_proofs`: `TypeCorrect`, `BlackoutIsBounded`, `ReadingsGenuine` (`ReadsGenuine`, for `MaxFaults` of 0 or 1, what a sum can promise),
  for bytes of any size up to eight bits. `Progress` and `SpentSoFar` bound the time by the edges seen. `EdgesSeen` counts: the sensor's next edge is the one the board
  awaits (`Awaited`), or, where a pulse was out of tolerance, at least two further; it never gets back in step, since edges go unseen and are
  never seen twice. `WidthAssumption` is for the converse, that none goes unseen among proper pulses. `BitsRight`: in step, at most one bit is
  received wrong of one pulse out of tolerance. Out of step, the sensor has no edge left when the board waits for its last, and the reading fails;
  so a reading that returns data was in step throughout. That the comparison of the sum then fails is arithmetic:
  one bit changes the value of its byte (`OneBitShows`), and two sums less than a whole byte apart stay different when they are cast to one
  (`CloseNumbers`, `CheckDetects`); `CheckByteValue` says that the sensor's check byte has the value of the sum.
* `WebConsole_proofs`: `TypeCorrect`, `PagesConsistent`, `OnlineIsExact`. A page is of one moment because
  the store is: `LogOK` says that the newest log entry of a topic is in `last_topics` and on its card, or in the hand of the callback thread
  (`PahoOK` gives that hand its type), and `PostOK` that what commands log is never a card's topic; `CopyOK` keeps this for a copy
  while the store moves on. That entry `i` of the new log is entry `i - 1` of the old one, also when the
  deque is full, is `AddLogShifts` and `AddLogNewest`. `TimesOK` says that what is stored of a heartbeat is its time cut to the second,
  and `WholeRange` by how much; `OnlineTrue` is the arithmetic.

What stays with TLC is liveness, which the prover cannot do under fairness: `SilenceFlagged`, `EventuallyQuiet`, `PolicyRestored`,
`ViewCatchesUp`, `CallReturns`, `KeepsMeasuring` and `ReadsReturn`, the fair half of the refinement of `SensorRead`. `ActsAtOnce` has no fairness to map and is
proved whole. The lock-step of the bits of a byte with their value is written out for eight
bits (`Value`, `Digits`), since an induction over the bits is out of the prover's reach.

## 6. Not modelled

* Malformed payloads, which every handler rejects before changing anything, and the assembling of a UART line.
* The two publishes at boot: they go to `mqtt_publish_stub`, which prints.
* The steps of the Wi-Fi driver: their outcome is a choice of `HouseInit`. Nodes A and B panic on a failure and restart only by hand. `node_c_network_deinit` has no caller.
* In the console: the browser's page, which asks again before an answer has come and may show the older one last; `/api/logs` (the log alone, copied under the same lock); undecodable payloads; what the browser does with the error of a command that is sent later.
* The second reason for lwIP to refuse a request, a full output buffer: it has the effect of a full table.
* A 64-bit timestamp read while a callback writes it, in two words. The temperature and the humidity of
  the window rule are read apart (`LoadTemp`), in that order, once each.
* The message callback gets a payload in one piece; the payloads of the house are shorter than lwIP's buffer.
* `sleep_ms` inside `read_dht`, with interrupts off, is taken to return when its time is over, as a busy wait does.
* Connections are not re-established because the code does not; a board that is reset is a new `HouseInit`, not joined to the house.
* That the last of several operator's commands wins: no document promises it, and an early return of `set_mode` under a late echo breaks it.
* Board configuration and build files, except what they decide for the models (interrupt-driven lwIP, five slots); the smoke test of node C; the database schema, which no program uses.

## 7. Plan

1. (done) Rules, messages and slots, node C, node B, house, servo, web console, and their proofs.
2. (done) Node A, the sensor's dialogue and what it promises; node B with its window as a refinement; a status of node C field by field and its view at the console; the proofs about them and about the console.
3. (done) The proofs about the house: types, `InSync`, `ModeSettles`; hysteresis of the rules; `SilenceMeansFailures`; `Dht`, which was restated on bytes as sets of bits for it.
4. The status that turns the belief back (`Justified`, while a command is under way) can also make a reading ask for nothing: what `PolicyHolds` still
   promises without an operator and a console, as an invariant, and its theorem.
5. The polling page of the browser beside `WebConsole`; resets of a board in the house.
