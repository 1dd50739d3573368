# helics-ns3 in TLA+

helics-ns3 is an ns-3 module that makes an ns-3 network simulation a *federate*
of a HELICS co-simulation: the HELICS broker grants simulated time, and
messages between federates take the detour through the simulated network. This
directory holds a TLA+ development of the module's own logic: what its parts
promise, models of the code at the level of its handlers, model-checking
configurations for TLC and proofs for TLAPS.

Paths below are relative to `src/`; `simulator-impl.cc` stands for
`model/helics-simulator-impl.cc`, and likewise for the other files of `model/`.

## 1. Inventory

### 1.1 The parts

| Part | Source | State it keeps | Operations |
|---|---|---|---|
| Simulator | `model/helics-simulator-impl.{cc,h}` | event queue, uid counter, clock (`m_currentTs`, `m_currentUid`), pending counter, stop flag, list and flag for events of other threads, list of destroy events; locals of `Run` (`nextTime`, `grantedTime`) | `Schedule`, `ScheduleNow`, `ScheduleWithContext`, `ScheduleDestroy`, `Stop`, `Remove`, `Cancel`, `IsExpired`, `Run`, `Destroy`, `DoDispose` |
| Application base class | `model/helics-application.{cc,h}` | UDP socket, endpoint, map from tags to messages (`m_messages`), next tag, random delay, optional filter operator | `Send`, `NewTag`, `HandleRead`, `EndpointCallback`, `StartApplication`, `StopApplication`, `AddPadding`, `RemovePadding`, `SetFilterName`/`SetEndpointName` |
| Filter, static sink, static source | `model/helics-{filter,static-sink,static-source}-application.{cc,h}` | the destination of a sink | `DoEndpoint`, `DoRead` |
| Packet tag | `model/helics-id-tag.{cc,h}` | one 32-bit number | `Serialize`, `Deserialize` |
| Concentrator (PDC) | `model/helics-PDC-application.{cc,h}` | per time stamp: payloads, first arrival, the waiting send event | `DoRead` |
| Super concentrator (SPDC) | `model/helics-SPDC-application.{cc,h}` | as the PDC, and the delays of the PMUs | `DoRead`, `ReadPayloads`, `PrintLogs` |
| PMU | `model/helics-PMU-application.{cc,h}` | subscriptions, sampling period, stop time | `StartSampling`, `GenerateMeasurement` |
| Helper | `helper/helics-helper.{cc,h}` | parameters of the federate | `Setup*`, `Install*` |
| Globals | `model/helics.{cc,h}` | pointers to the federate and its endpoint for messages to itself | none |
| Scenarios | `examples/` | which applications there are, who sends to whom, when they start and stop, when the run ends | `main` of each script |
| Test | `test/` | | an empty test case |

### 1.2 How they interact

* `Run` of the simulator alternates between running the events that are due and
  `requestTime` of HELICS. Inside `requestTime` HELICS calls the applications'
  endpoint callbacks, which call `Send` and so `Simulator::Schedule`. During
  these callbacks HELICS shows the *new* time and the simulator's clock still
  the *old* one.
* `Send` stores the message in the map of the *destination* application (a
  direct call of `NewTag` and a direct access to its map, found through
  `ns3::Names`), and schedules `Socket::SendTo` of a packet that carries only
  the tag. The simulated network may lose, delay, reorder or repeat the packet.
* The arrival of the packet calls `HandleRead`, which finds the message by the
  tag, gives it to `DoRead` and erases the entry. `DoRead` hands it to HELICS
  (filter, source), aborts (sink, PMU), or aggregates it (PDC, SPDC).
* Around `DoRead` the base class takes the padding away that `Send` has added:
  every padding character goes, one inside the data as well.
* PMU, PDC and SPDC share no types, only texts: each writes separators that the
  next one cuts at.
* PMUs send to a PDC, PDCs send their frames to an SPDC, which runs the
  control when the frames of one time stamp are there.
* Other threads may hand events to the simulator with `ScheduleWithContext`:
  a list under a mutex, and a flag the main thread reads without it.

### 1.3 What is hard

* *Stale copies of state*: `nextTime` is a local copy of the queue's head,
  across an event handler and across `requestTime`, both of which change the
  queue; `m_currentTs` is moved to the granted time while `m_currentUid` stays.
* *Two clocks*: HELICS' and ns-3's, which agree only when the simulator has used
  up its grant; conversions through `double` lose ticks.
* *Two threads* and an unlocked read of a flag.
* *An unreliable network* between a map entry and the packet that refers to it.
* *Timers against packets*: a frame that waits (timer, then a random delay) is
  cancelled and replaced by every packet that comes before it leaves.
* *Lifecycles*: sockets that are not yet or no longer there when a scheduled
  event uses them; applications that stop one after the other, by times which the
  scenario computes from their timers.
* *One text, three authors*: a frame is right only if PMU, PDC and SPDC agree on
  separators, lines and padding.

The full list, at the lines where these bite, is `hazards` in `PROJECT.json`.

### 1.4 What makes each part correct

* Simulator: events run once, in the order of time and scheduling, never beyond
  the grant; time is requested only when nothing is due; `IsExpired` and the
  counter are exact; what another thread has handed over is not forgotten; a
  scheduled `Stop` ends `Run`, and no event waits for ever.
* Applications: what is read is what was sent, at the application it was sent
  to, at most once, and not before its HELICS time; without faults it is read.
* PDC: one frame per time stamp, with every accepted payload, in time, and at
  once when it is complete.
* PMU: samples on the grid of its period, without drift and without a delay into
  the past, each sent under a time stamp of its own, and never on a socket that
  the application has given up.
* SPDC: the control runs once per time stamp, sees every accepted frame, and at
  once when the set is complete; the log of delays agrees with what it saw.
* PDC and SPDC keep one and the same promise: collect, then release once and all
  of it, and collect nothing for that time stamp afterwards.
* The whole: what was measured at an instant reaches the control in one piece,
  unaltered and at most once, and does reach it if the network is punctual.

## 2. Modules

| Module | What it is | Checked by |
|---|---|---|
| `EventSchedule` | abstract: what a simulator in a co-simulation promises | property of run `simulator`; theorem `Refinement` |
| `HelicsSimulatorImpl` | the simulator, its threads, callbacks and grants | `simulator`, `simulator_natural_stop` |
| `HelicsSimulatorImplProofs` | inductive invariant, theorems, and that it implements `EventSchedule` | TLAPS |
| `HelicsApplication` | base class with filter, sink and source, over the network | `application_safety`, `application_liveness` |
| `HelicsApplicationProofs` | inductive invariant and theorems | TLAPS |
| `HelicsRouting` | set-up, names, endpoints and filters: which way a message takes | `routing` |
| `HelicsRoutingProofs` | inductive invariants and theorems | TLAPS |
| `HelicsPMUApplication` | measurement unit | `pmu` |
| `HelicsPMUApplicationProofs` | inductive invariant and theorems | TLAPS |
| `Concentrator` | abstract: what a concentrator promises | property of runs `pdc` and `spdc`; two theorems `Refinement` |
| `HelicsPDCApplication` | concentrator | `pdc`, `pdc_negative_delay` |
| `HelicsPDCApplicationProofs` | inductive invariant, theorems, and that it implements `Concentrator` | TLAPS |
| `HelicsSPDCApplication` | super concentrator; extends the PDC as the class does | `spdc`, `spdc_maximum_wait`, `spdc_delay_log` |
| `HelicsSPDCApplicationProofs` | inductive invariant, theorems, and that it implements `Concentrator` | TLAPS |
| `PhasorFrames` | the texts: padding, measurements, frames, what is cut out of them | `phasor_network` |
| `PhasorFramesProofs` | what is read back out of padded measurements and frames | TLAPS |
| `PhasorNetwork` | PMUs, PDCs and the SPDC of `39BusNetwork.cc` as one system | `phasor_network` |
| `PhasorNetworkProofs` | inductive invariant and theorems about the whole | TLAPS |
| `MC...` | values for the constants under TLC | |

Each component is modelled against what the others guarantee to it; the measuring
system is composed as a whole besides, in `PhasorNetwork`. `HelicsApplication` uses of the simulator what the run `simulator`
and the theorems establish (events in order, grants no later than the next
event, callbacks with the old clock); the concentrators use of the applications
what `application_safety` establishes (each packet reaches `DoRead` at most
once, at any time, in any order, or not at all).

Definitions carry the names of the source. Definitions whose comment begins with
"Fault:" are variants of an operation with a plausible mistake in it; no
next-state relation uses them. They document, with the list `mutants` in
`PROJECT.json`, which mistake each property detects: with the variant in the
place of the operation, TLC finds the property violated.

### 2.1 `HelicsSimulatorImpl`

State: one variable per member of the class, under its name; `pc` and `ret`
stand for the place of the main thread (`Run` and `Destroy` are cut where user
code, HELICS or another thread can act); `nextTime`, `grantedTime` are the locals
of `Run`; `helicsTime` is what HELICS has granted; `issued` are the `EventId`s
callers hold. An `EventImpl` is identified by the value of `m_uid` at its creation.

Actions: one per public operation (`Schedule`, `ScheduleNow`,
`ScheduleWithContext`, `StopAfter`, `Stop`, `ScheduleDestroy`, `Remove` and
`RemoveDestroy`, `Cancel`), enabled wherever user code runs: before `Run`, in
handlers, in HELICS callbacks, after `Run`, in destroy events. `Push`/`SetFlag`
are the two writes of another thread under the mutex; `CheckFlag`/`Swap` the
unlocked read and the locked swap of `ProcessEventsWithContext`. `Run`,
`EnterExecutingMode`, `BeginLoop`, `ProcessOneEvent`, `EndHandler`,
`RefreshNextTime`, `RequestTime`, `Grant`, `ReturnFromRequest`, `EndRun` are
`Run` in the order of its statements. `Grant` is HELICS (external): it grants
the requested time, or an earlier one when a message comes, and one tick later
when the request is not in the future. `FromDouble` keeps the integral ticks of
a grant: the constant `Truncated` lists the grants that come back one tick short.

The largest time does not survive the way through `double` (265-269):
9223372036854775807 ns become 9223372036.854776382 s and 9223372036854776382 ns,
which is beyond int64, so that `grantedTime` is negative. In the model a time is a
word of `Words` values, `Never` the largest signed one, and `Wrapped` the negative
time next to it (one tick beyond in the model, 575 in the code). `m_currentTs` is
unsigned and takes the same bits (`Unsigned`), a time beyond `Never`
(`ClockWrapped`). From then on every event looks expired, no event is within the
grant, and what the callbacks of that request have scheduled is never run, although
`Run` goes on: it requests a time that HELICS has left behind. That is why
`StopEndsRun` and `NothingStarves` speak of events queued before that grant, and
why `ExpiredIffGone` and half of `NothingSkipped` end with it. For the abstract
schedule the grant of the largest time is its end: it gives up what is pending
(`Close`, by way of `Promised`). A federate that has been granted that time is
finished, and HELICS calls it back no more (`UserCode`).

Assumptions: `Run` is called once; user code does not schedule at or beyond the
largest time; other losses of the conversions than the wrap are one tick (times
whose doubles resolve a nanosecond, up to about 52 days); `Destroy` is called after `Run`. The list of destroy events is
walked front to back, which is the order of their impls. `SetScheduler` moves the
events to another container and is a stutter. Exclusions of `Stop` before `Run`
or during `EnterExecutingMode` are none: both are reachable.

### 2.2 `HelicsApplication`

State: socket, tag counter and map per application; the scheduled `SendTo`
events; the packets under way. `pc` says whether HELICS' callbacks or simulator
events run. `sent`, `read`, `wrapped` are history.

Actions: `EndpointCallback` (with `DoEndpoint` of the three classes, and
`Send`), `StartApplication`, `StopApplication`, `SendTo`, `Lose`,
`HandleReadUnknownTag`, `HandleRead` (with the three `DoRead`), `Grant`,
`EndCallbacks`. The packets of the network are a set; `Faults` switches on loss,
duplication, stopping applications, and configurations that abort (unknown
destination, message for a source). The fatal outcomes are `pc = "fatal"`, and
the virtual call on the null socket that `Send` remembered before
`StartApplication` or after `StopApplication` is `pc = "crashed"`.

Tags are counted modulo `TagModulus` (the code: 2^32). `DeliversWhatWasSent` and
`StoredUntilRead` are stated until the counter of the destination wraps; they
fail beyond it when an entry was left by a lost packet, since
`std::map::insert` keeps the old entry. `AtMostOnce` holds beyond the wrap too.

Packets without a tag are not part of this module; padding is in `PhasorFrames`,
names, addresses and the filter's rename operator are in `HelicsRouting`. Times are in the ticks
`FromDouble` makes of them: the time of a callback and the clock that later
reaches it are converted in the same way. A tick that a conversion loses counts
as jitter.

### 2.3 `HelicsPDCApplication`

State: the three maps of the class; `queue` holds the scheduled `SendTo` of
frames; an event is named by the time stamp and the size of its frame (every
packet makes a larger one, so the pair identifies the `EventId` in
`send_events`). `DoRead` is split into `FirstPacket`, `LatePacket` and
`NextPacket`, its three branches. `Send` adds the random delay and takes the
difference to the clock; a negative delay is the status `aborted` (the assertion
in `Schedule`), a frame that has outgrown the padded size is `fatal`. An event
and a packet of one instant run in either order.

Times are converted through `helics::Time` and `double` here too (169-171, 192-197).
`Jitters` are the values of the random delay less the tick that this may lose; with
the default of 1000 ns for `JitterMinNs` they are not negative. `DoRead` aborts on a
message without a line ("Malformed data", 146-149) and the SPDC on a line without its
separators (110): a PMU and a PDC never write one (`PhasorFrames`), so these
branches are left out.

`ImplementsConcentrator` maps it to `Concentrator`: `collected` is `payloads`; a
time stamp is `closed` when its event has expired; `released` is the sequence of
`frames` with the payloads each was made of (the first `size` of its time stamp);
`working` is the open status. The replacement of a waiting frame, its jitter and
`LatePacket` are invisible there; a scheduled frame whose socket is closed, and the
packet over which the program aborts, are its `Lose`.

### 2.4 `HelicsSPDCApplication`

Extends the PDC; `queue` and `frames` hold the calls of `ReadPayloads`. The
deadline `first_arrival + timer` goes to `Schedule` as a delay, as in the code.
The first line of a frame is taken as payload without being searched for a PMU
(`NamedIn`). A delay is the clock less what `std::stof` makes of the time stamp, a float of 24
bits: the constant `Stof` gives it for every time stamp, and is any function to
times, so that delays are rounded and may be negative. `PrintLogs` is the table that the method writes: a row for every time
stamp that has delays, with the delay of each PMU, or 0 (`Lost`). The mapping to
`Concentrator` is inherited from the PDC.

### 2.5 `HelicsPMUApplication`

One unit. State: its socket, the scheduled call of `GenerateMeasurement`
(`generate`, one at most in every reachable state), the scheduled `SendTo`, and
the history of samples and packets. `m_stopTime` (of the application, set by the
scenario and acted on by ns-3) and `stop_time` (of the sampling, a parameter of
the class) are separate numbers, as in the code.

Actions: `StartApplication`, which opens the socket and takes the first sample;
`Sample`, a scheduled `GenerateMeasurement`; `SendTo`; `StopApplication`; `Tick`.
ns-3 schedules start and stop before `Run`, so that they come first at their
instants (`Due`). A sample passes on its own time plus the period, a
`helics::Time`; delays to ns-3 are differences of that time, converted through
`double`, and the clock. `inexact` is the set of times whose conversion comes one
tick short, chosen once and arbitrary. A negative delay, for the packet or for the
next sample, is the status `aborted`. The random delay that `GenerateMeasurement`
draws is set to zero by the code (131) and left out. The time stamp is rounded to
the last of its digits (`TimeStamp`); of a double that lies between two values of that
digit, it depends on the bits which it becomes, so `TiesDown` lists the times that go down.

### 2.6 `HelicsRouting`

What `HelicsApplication` takes for granted, that a message has a destination
application: here it is found by name. A name is a sequence of `Atoms` ("/", "+" and
pieces no operation cuts), so that `SetName`, `SanitizeName` and the comparison of
prefixes do to it what they do to a string. State: the registry of `ns3::Names`,
the applications, the endpoints that came with the federate (`registered`), the
endpoints of applications and the filters, the messages that HELICS and the network
carry. An application is named by the call of the helper
that installed it, a record of its class, name, address and destination; the
address (`local`) stands for node and port; `KeyOf` is the name under which it is found.

Initially the federate has been set up in one of the helper's two ways: without a
configuration (`SetupApplicationFederate`), with the endpoint `fout` that nobody
listens to, or with one (`SetupApplicationFederateWithConfig`), with all endpoints
and filters that it lists, whether or not an application is installed for them.

Actions: `Install` (the helper's functions, with the calls of the application
they make), `Start` (`StartApplication` of all), `EndpointCallback`,
`GenerateMeasurement`, `HandleRead` with what the `DoRead` of each class does with the
message that came, and `PrintUnclaimed`. At a PDC or an SPDC the message ends
(`PDCDoRead`): the frame that a PDC makes of several is a new message, which
`PhasorNetwork` follows. It takes no filter on its way to the SPDC, and its lookup of the
destination (`PDC.cc`:171, 197), which aborts like the PMU's, is not repeated here. Aborts (name taken, address bound twice, no destination,
unknown destination, a source or sink used the wrong way round) are values of
`status`. External are the other federates and two facts about HELICS: a local
endpoint is named after its federate, and a message that leaves a filtered
endpoint gets its new destination from the operator and keeps the one it was
addressed to as `original_dest`. For filters of a configuration (`configured`)
the operator is HELICS' own reroute filter, which `examples/ns3-config.json` gives
the same destination that `SetFilterName` computes (`ConfigurationAssumption`).
HELICS keeps the names of endpoints unique (`FederationAssumption`: the others'
endpoints are none of those in `Own`).

The helper lets a scenario say anything. `Straight` is the scenario that leads no
message back to where it came from, and `Readable` that nobody addresses, or is, what
`SetName` or `SanitizeName` would rename; both are hypotheses of theorems and true of
the run (`ScenarioAssumption` of `MCHelicsRouting`).

### 2.7 `PhasorFrames`

A text is a sequence of atoms: separators, the padding character, and pieces no
operation cuts (a time stamp, a part of a name, a value). `AddPadding`,
`RemovePadding`, `Measurement` (what `GenerateMeasurement` writes), `Aggregate` (what
the PDC puts together) and the cuts of the two `DoRead` (`Before`, `After`, `Lines`,
`NameIn`) do to it what the code does to a string. Sizes are in atoms. The loops of the code over a text
are recursive functions, about which there are proofs. `NamesAssumption`: a name
contains no semicolon and no line break, since the scenario has cut it out of a line
of a file at the semicolons; it may contain the padding character.

### 2.8 `PhasorNetwork`

The system of `examples/39BusNetwork.cc`. Its state is that of the parts, without
what they do not need of each other: per concentrator the tags, the map of messages
and the three maps of `DoRead`; the scheduled `SendTo`, a set in which the tags tell
the order of those for one destination; the packets under way, which carry tags; the scheduled
`ReadPayloads`; the delays; the next measurement of every PMU; who is stopped.

Actions: `GenerateMeasurement` (composes the text, pads it, stores it under the next
tag of the PDC, schedules the packet), `SendTo`, `HandleRead` (finds the text by its
tag, takes the padding away, calls `PDCDoRead` or `SPDCDoRead`, erases the entry),
`ReadPayloads`, `StopApplications`, `Lose` and `Tick`. What ns-3 has scheduled before
`Run` (the stops) comes first at its instant; events that were scheduled for one
instant run in that order; packets arrive in any order within it. The message of a
frame that was cancelled stays in the map of the SPDC, as in the code.

The network delivers a packet between `Quickest` and `MaxDelay` after it was sent or
loses it. A packet that takes longer than `Punctual` puts its time stamp into `slow`;
the property about the whole is stated for the others. The timers are those of
`main`; PDCs stop `timer` after the PMUs, the SPDC another `timer` later, and
`Simulator::Stop` ends the run (`End`).
`EveryInstantControlled` speaks of both kinds of sets: a complete one is read at once, an
incomplete one when its call comes (`ReadByEnd`), unless that is put off beyond `End`.
Delays are taken with `Stof`, as in the SPDC's module.

Each concentrator of the system is an instance of `HelicsPDCApplication` or
`HelicsSPDCApplication` under a mapping that reads its payloads out of the texts:
`ImplementsConcentrators` says that it takes only the steps it takes there, so the
theorems about the parts hold in the whole (proved, under `NamesDiffer`). It also discharges what those modules
assume of their surroundings (a sender is heard at most once per time stamp; a frame
is one of those a PDC can send; no frame before its instant).

## 3. Runs

| Run | States | Question |
|---|---|---|
| `simulator` | 1.3 M | consistency of queue, clock, `EventId`s and hand-over; implementation of `EventSchedule`; a scheduled `Stop` ends `Run`; no event starves |
| `simulator_natural_stop` | violation | finding 1 |
| `application_safety` | 2.8 M | tags against an unreliable network, stopping applications, misconfiguration |
| `application_liveness` | 46 k | without faults every message is read |
| `routing` | 109 k | messages come out where they were addressed to, through the network once; lookups find what was installed |
| `pmu` | 17 k | samples: on the grid, never in the past, never on a null socket, told apart, every one sent |
| `pdc` | 2.3 M | implementation of `Concentrator`; frames in time, at once when complete; every time stamp leaves |
| `pdc_negative_delay` | violation | finding 2 |
| `spdc` | 0.5 M | implementation of `Concentrator`; the control at once when the set is complete; the log agrees with it; every time stamp is read |
| `spdc_maximum_wait` | violation | finding 3 |
| `spdc_delay_log` | violation | finding 4 |
| `phasor_network` | 60 k | the whole: the control sees what was measured, the staggered stop loses nothing that was begun in time, all instants of a punctual network are controlled, and of the others what has come, if its deadline is before the end; each part behaves as its module says |

### 3.1 Bounds

* Simulator (one run for safety and liveness): `MaxUid = 7` admits three events
  (uids 4 to 6), of which one can be current, one cancelled or removed, and one still scheduled or handed over by
  the other thread; every pairwise ordering hazard needs two of them and
  a clock. `Never = 9`: the three events cannot reach it before HELICS grants it, and the words
end at 19; delays 0 and 2 produce equal and different timestamps;
  messages interrupt at 1 (before any event) and 3; the grant 2 is truncated.
  The wrap of the 32-bit `m_uid` is beyond the bound.
* Applications: three messages, one application of each class, tags modulo 3 so
  that wraps occur, jitters 0 and 1 so that later messages overtake; horizon 2.
  Liveness: two messages, no faults, horizon 3, no symmetry. The safety run
  uses symmetry on messages, which no definition distinguishes.
* Routing: the federate set up in both ways; all subsets of twelve installations, in all orders (the order matters
  where a name is taken), among them collisions of names and of addresses, wrong
  and missing destinations; four endpoints of other federates, one of them in a
  federate whose name begins with that of ns-3. One message: routing keeps no
  state between messages.
* PMU: four samples (start 1, period 3, stop time 11), every subset of the
  period and the sample times inexact; the application is stopped in the middle of
  the samples (6), at the stop time (11), or when the last packet has left (14);
  jitters 1 and 3, the larger as long as the period.
* PDC: three senders (as many as `nb_aggregates`), two time stamps that share the
  queue and the clock, timer 2 and jitters 1 and 2, so that a packet can come
  between the end of the timer and the departure; capacity 3; horizon 7. A time
  stamp is begun only if its frame can leave before the horizon. The overflow
  of a frame needs more senders than its capacity.
* SPDC: three concentrators with two PMUs each, one of which also sends a frame
  with one PMU missing; timer 1, horizon 6.
* Phasor network: two PMUs at one PDC and one at another (whose `nb_aggregates` is
  1, the value for which a complete frame waits for its timer), two instants of
  measurement (start 1, period 2, stop 5), PDC timers 2, SPDC timer 5, end at 13, so
  that timers of the two instants overlap, PDCs stop while packets are under way and
  the call for an incomplete set (twice the first arrival plus the timer, or later) is
  partly before and partly after the end. Packets take one step, or two when they
  are late, or are lost; one instant may be in trouble (`MaxSlow = 1`), which shows
  that the other is not. `Jitter = 0`: jitters are what the run `pdc` is about, and
  there they lead to finding 2. The theorems hold for any `Jitter`; with `Jitter = 1` TLC
  shows why `StopLosesOnlyLate` has to except a packet that comes within the jitter of the
  stop: its replacement of the waiting frame is due when the socket is closed. The name
  of one PMU contains the padding character. The premise of `EveryInstantControlled`
  (`TimersSuffice`) is true of these values; it asks for two PDCs, because a lone PDC's
  lines are never seen to be complete, and for a PDC that counts at least its own PMUs.

### 3.2 Fairness

* `simulator`: weak fairness of `RunStep` and of `SetFlag`: user code and
  callbacks return, `requestTime` is answered, a thread that holds the mutex
  releases it. Nothing is assumed of user code's calls; an endless series of
  `ScheduleNow`, which would keep the clock where it is, is excluded by `MaxUid`.
  `StopEndsRun` and `NothingStarves` begin with an event in the queue: what
  another thread hands over is moved only after an event of the main thread, and
  the leads-to from the hand-over does not hold in the code when the queue is dry.
  They begin before HELICS has granted the largest time (section 2.1); a grant that
  lost a tick is no exception, since the time is requested again.
* `application_liveness`: the simulator's progress (events that are due run,
  time passes), and a network that delivers each packet (weak fairness of each
  packet's reception). Callbacks end.
* `routing`: HELICS carries messages, the network delivers packets (weak fairness
  of `Progress`); loss is in `HelicsApplication`.
* `pmu`: due events run and time passes. The start, the samples and the stop are
  all scheduled by the module or by ns-3, so nothing else is assumed.
* `pdc`, `spdc`: due events run and time passes (`Tick`), which the
  simulator's liveness provides. No packet is assumed ever to arrive.
* `phasor_network`: the system does not stand still before its end (weak fairness of
  all its steps together): the simulator runs what is due and time passes. The
  network is not assumed to be fair: it has delivered or lost a packet by `MaxDelay`.

## 4. Findings

1. `simulator_natural_stop`: `Run` never stops for lack of events, the case its
   closing comment describes; it goes on requesting the largest time. If that is
   granted, it wraps to a negative `grantedTime` (section 2.1), and what a callback of
   that request has scheduled is never run, in spite of the comment at line 278.
2. `pdc_negative_delay`: a packet between `first_arrival + timer` and the
   jittered departure makes `DoRead` schedule the replacement relative to the
   past; with a smaller jitter the delay is negative and `Schedule` asserts.
3. `spdc_maximum_wait`: the deadline of the SPDC is an absolute time passed as a
   delay, so that frames are accepted long after the maximum waiting time. In the
   scenario this means besides that an incomplete set late in the run is not read at
   all: its `ReadPayloads` is scheduled for after `Simulator::Stop`, which the check
   of the cleanup time (`39BusNetwork.cc`:223) does not see.
4. `spdc_delay_log`: the first PMU of every frame is missing in `delays`, and
   `PrintLogs` prints it as the 0 that stands for lost; a time stamp of which only
   frames of a single PMU came has no row.

`PROJECT.json` quotes the lines.

## 5. Proofs

`HelicsSimulatorImplProofs` proves for every value of the constants (any delays,
threads, grants that are cut short or truncated, any `MaxUid`), from the three
named assumptions of the module on the constants:

| Theorem | Statement |
|---|---|
| `Invariance` | `Spec => []IInv` |
| `TypeCorrectness` | `[]TypeOK` |
| `CounterIsExact` | `[]CountsPending` |
| `ExpiryIsExact` | `[]ExpiredIffGone` |
| `ClockWithinGrant` | `[]NeverAheadOfHelics` |
| `NoEventIsSkipped` | `[]NothingSkipped` |
| `DispatchOrder` | `TimeNeverRunsBack` |
| `HandOver` | `ArrivalsMovedAfterEveryEvent` |
| `Refinement` | `Spec => Schedules!Spec` |

The argument. None of the properties is inductive. `IInv` adds to them

* `UidsReserved`, `UidsIdentify`: uids are unique, below `m_uid`, and one is left
  for everything handed over (without it `CountsPending` and `IsExpired` fail);
* `PendingIsAfterCurrent`: every queued event is after the pair
  (`m_currentTs`, `m_currentUid`), until the grant of the largest time has wrapped
  the clock — the fact behind both the order of dispatch and the exactness of
  `IsExpired`;
* `NextTimeIsFresh`: in the loop, `nextTime` is the head of the queue;
* `GrantIsConverted`: `grantedTime` is the converted grant except during the
  callbacks, when the clock stands at the previous one; `RequestIsSafe`: at
  the request nothing is due; `ClocksStartAtZero`;
* `ClockWithinWord`: the clock is within the grant, both taken as unsigned words, so
  that `RequestTime` never sets it back, not even to the wrapped time
  (`TimeNeverRunsBack` holds beyond it);
* `UnexpiredIsPending`: one half of `ExpiredIffGone` in a form that steps keep;
* `FlagCoversList`, `PushedUnlessFree`: the hand-over protocol.

The lemma `Effects` reduces the many actions to ten kinds of effect on queue,
clock and `EventId`s, so that each conjunct is proved once per kind and not once
per action. The refinement maps `pending` to the queued events that are not
cancelled, as long as HELICS has not granted the largest time (`Promised`), `now` to
`m_currentTs`, `horizon` to `grantedTime` as an unsigned word and `nextId` to
`m_uid`; every step is one of `Post`, `Withdraw`, `Fire`, `Wait`, `Grant`,
`Close` or a stutter.

`HelicsApplicationProofs` proves, for any applications, messages and jitters, any
combination of the faults and any width of the tag, from `NumbersAssumption`:

| Theorem | Statement |
|---|---|
| `Invariance` | `Spec => []IInv` |
| `TypeCorrectness` | `[]TypeOK` |
| `TagsLeadToTheirMessage` | `[]DeliversWhatWasSent` |
| `ReadAtMostOnce` | `[]AtMostOnce` |
| `StoreIsExact` | `[]StoredUntilRead` |
| `Causality` | `[]NeverLeavesEarly` |
| `StopsDoNotCrash` | `[]CrashesOnlyUnopened` |

The argument. Where a message is has to be known for the whole of its way:
`UnderwayIsSent` and `StoredIsUnread` say that events, packets and entries are of
messages that were sent to this application, and that entries are unread and
(until the wrap) under a tag below `m_next_tag_id`; `StoredOnce` that no message
is stored twice; `TagsMatch` that a packet's tag, until the wrap, leads to its own
message or to nothing. `AtMostOnce` needs `StoredOnce` and `StoredIsUnread` only
and so survives the wrap: even the wrong message that a tag leads to is erased
when it is read. `Departures` fixes one jitter per message for `NeverLeavesEarly`,
which needs it since event, packet and reading must agree on it; `ClockBehindEvents`
and `NullIsUnopened` complete the invariant. Everything but `Send` and `HandleRead`
preserves it for one common reason (`Moves`), which is proved once.

`HelicsPMUApplicationProofs`, for any start, period of at least two ticks, stop
times, positive jitters, lost ticks and ties:

| Theorem | Statement |
|---|---|
| `Invariance` | `Spec => []IInv` |
| `TypeCorrectness` | `[]TypeOK` |
| `NoDrift` | `[]SampledOnSchedule` |
| `NothingInThePast` | `[]PastFree` |
| `SocketOutlivesChain` | `[]NoSendOnNullSocket` |
| `StampsIdentifySamples` | `[]StampsDiffer` |

The invariant adds `ChainOK`: there is one next link, its time is the next of the
grid, and its event at most two ticks early. Two ticks are what one step loses (the
time and the period are converted separately), and they do not accumulate, since
the next delay starts from the grid and not from the clock. `NothingInThePast`
uses `JittersAssumption`, that the smallest jitter is positive, which is the
default of `JitterMinNs`: with zero it is false. `StampsIdentifySamples` has a second
invariant on top of the first, `Apart`: the times of what was measured are a period
apart from each other and from the next link, and identify event and packet; the
arithmetic of the rounding (`DigitsDiffer`, `StampsGrow`) does the rest. It needs a
period longer than the last digit: with equal ones two samples on a tie share a time
stamp if the first goes up and the second down.

`HelicsPDCApplicationProofs`, for any finite set of senders, any time stamps and
timer, and jitters with a largest one:

| Theorem | Statement |
|---|---|
| `Invariance` | `Spec => []IInv` |
| `TypeCorrectness` | `[]TypeOK` |
| `FramesAreUnique` | `[]OneFramePerTimestamp` |
| `FramesAreWhole` | `[]FrameIsWhole` |
| `FramesAreInTime` | `[]FrameLeavesInTime` |
| `CompleteFramesDoNotWait` | `[]CompleteFrameLeavesAtOnce` |
| `Refinement` | `ImplementsConcentrator` |

The invariant adds `QueueOK`: a scheduled frame is not overdue, is the one
`send_events` knows, and holds all that was accepted, from which it follows that a
frame that has left left nothing behind. For the deadline, an incomplete frame
waits for the timer and one jitter (`IncompleteInTime`) and is replaced by a
complete one at most once, since each sender is accepted once
(`AcceptedHaveArrived`, a fact about cardinalities).

The refinement needs two facts of the invariant: a time stamp is closed exactly when
it was begun and no frame of it is scheduled (`ClosedIsNotWaiting`), and what a frame
was made of is everything that was accepted (`ReleasedIsWhole`), so that a later
payload of another time stamp does not change what was released.

`HelicsSPDCApplicationProofs`, for any finite set of concentrators, any frames, time
stamps and timer:

| Theorem | Statement |
|---|---|
| `Invariance` | `SPDCSpec => []IInv` |
| `TypeCorrectness` | `[]SPDCTypeOK` |
| `LogAgreesWithControl` | `[]LoggedInTime` |
| `CompleteSetsDoNotWait` | `[]CompleteSetReadAtOnce` |
| `Refinement` | `ImplementsConcentrator` |

The invariant is that of the PDC without the jitter, with two facts about the log:
what is logged, with what `Stof` made of its time stamp added, is a time of the past (`LoggedIsPast`), and only a time stamp whose instant
has come is begun (`BegunArePast`). `LoggedInTime` follows since nothing is logged
for a time stamp once it has been read.

Of the theorems, `CounterIsExact`, `ClockWithinGrant`, `DispatchOrder`,
`FramesAreUnique` and `FramesAreWhole` state facts that no run lists: they are parts of the
invariants from which the refinements follow, and the runs check the refinements.

`HelicsRoutingProofs`, for any requests in any order, any names, any endpoints of
other federates and any number of messages:

| Theorem | Statement | Hypotheses |
|---|---|---|
| `InstalledIsFound` | `[]LookupFindsInstalled` | |
| `TypeCorrectness` | `[]TypeOK` | `Straight` |
| `OperatorsAgree` | `[]NoneAstray` | `Straight` |
| `DetourIsInvisible` | `[]DeliveredAsAddressed` | `Straight`, `Readable` |

For `InstalledIsFound` it is enough that the registry and the list of applications
agree (`RegistryOK`). The invariant of the others, `WayInv`, says in addition that
what is under the name of an endpoint is the application it belongs to
(`EndpointsOK`), that the operator of a filter leads to a filter application found
under the name of what it filters, or to an endpoint nobody listens to (`FiltersOK`),
and of every message where on its way it is: one that has not crossed the network
still has the addressee it started with (`Fresh`); a packet is at the application that
a filter, a sink or a PMU has looked up (`SentByFilter`, `SentBySink`, `SentByPMU`); one
that has crossed has nobody any more who would send it again (`Crossed`). `Straight` is
needed for the last: a sink whose destination is a filter application makes the
message go round, through the network each time, since the filter sends it on to its
addressee, which is the sink (TLC finds `TypeOK` violated in such a scenario). The
helper does not prevent it; no script of the repository does it.

`PhasorFramesProofs`, for any names, values, sizes and any number of payloads:

| Theorem | Statement |
|---|---|
| `MeasurementReadsBack` | a PDC cuts the time stamp and the payload of the PMU out of a padded measurement, both unaltered but for padding characters in the name |
| `FrameReadsBack` | the SPDC cuts the time stamp and, line by line, the payloads out of a padded frame |

Both are about recursive functions. Induction is that of `WFMin` in
`WellFoundedInduction`, applied to the set of numbers for which the claim fails
(`LeastElement`, `InductionOnNat`), and `Recursion` says that a recursively defined
function on an interval satisfies its equation. From there: removing padding
distributes over concatenation (`PaddingDistributes`), a cut at a separator is decided
by its first occurrence (`CutAtFirst`), and `Lines` takes apart what `Aggregate` has put
together as long as no payload contains a line break (`FrameLines`).

`PhasorNetworkProofs`, for any PMUs, PDCs, names, times, timers, any jitter, and any
delay, order and loss of packets:

| Theorem | Statement |
|---|---|
| `TypeCorrectness` | `[]TypeOK` |
| `ControlIsTrue` | `[]ControlSeesMeasurements` |
| `StopIsStaggered` | `[]StopLosesOnlyLate` |
| `ConcentratorsAsModelled` | `ImplementsConcentrators`, if the PMUs of a PDC have different names once the padding characters are gone (`NamesDiffer`) |

The invariant `Inv` follows a measurement through the system. `TagsUnique`: a tag is
carried by one packet and its message is in the map. `Contents`: what is under way to
a PDC is a measurement of one of its PMUs that it does not hold yet
(`MeasurementsUnderWay`); what is under way to the SPDC is all that its PDC holds of the
time stamp, the frame that `send_events` knows (`FramesUnderWay`, `EventsUnique`); a
frame that the SPDC holds is neither waiting nor under way any more, so that its PDC has
closed the time stamp and what the SPDC holds stays true (`SPDCHolds`, `Gone`). Each
concentrator's `DoRead` uses one theorem on texts. `Times`, `Waiting` and `Left` are
for the stop: what was begun is waiting, has left, or was begun or put off too late.

The refinement needs a second invariant, `Surroundings`: what the modules of the PDC
and of the SPDC take for granted of those who send to them. What is under way to a PDC
has not been heard there (`Unheard`, `HeardBefore`); a frame that the SPDC has heard
does not come again (`HeardOnce`, which rests on `GoneStays`: once the frame of a
time stamp has been delivered, its PDC puts together no other); nothing is begun before
its instant (`InTime`). `ReadDetails` says what `HandleRead` reads out of a packet and
`ReadEffects` what it leaves alone, in particular the other concentrators. The queue
that `HelicsPDCApplication` sees is made of the texts in the map of the SPDC;
`ScheduledNow` brings it back to what the PDC holds, and `ReadSchedules` says that a packet
replaces one frame of it. From there `PDCStep` and `ControlStep` go through the actions: a
packet is `FirstPacket`, `NextPacket` or `LatePacket` of the PDC it is for and nothing to
the others. `FewHeld` shows that the capacity of a frame is not exceeded, `FrameSent`
that what arrives at the SPDC is one of the frames that its module expects of the sender.
`NamesDiffer` is needed: a PDC hears two PMUs of one name twice at one instant, which
`HelicsPDCApplication` excludes. `PartsAsAssumed` says that the named assumptions of both
modules hold of what stands for their constants here.

Only model-checked: the liveness properties (fairness is out of the prover's reach).

## 6. What is not modelled, and why

* Texts character by character: sizes and cuts are in atoms, so a time stamp or a
  name that contains a separator is not covered; neither are the digits of delays in
  the log.
* Subscribed values: a measured value is an atom. Serialization of the tag (a
  fixed-width copy), logging and formatting.
* A second `Run`, events at or beyond the largest time, the wrap of `m_uid`; of times,
  doubles that do not resolve a nanosecond, but for the wrap of the largest time.
* Messages that neither a PMU nor a PDC writes, sent to a concentrator ("Malformed
  data").
* A promise that a frame fits into the padded size, or that a direct `Stop` before
  `Run` is kept: the code makes none. The overflow and the reset are modelled and
  excepted where a property meets them.
* Of the scenarios, topology, addresses, routing and the failing link: the network
  delays, reorders and loses. Scripts other than those named in `PROJECT.json` call
  the functions of the helper in orders that `HelicsRouting` contains.
* The parameters of federates (broker, log level, period), and the globals of
  `helics.cc`, which are set once: configuration of HELICS.
* The empty test, build files, documentation: no behaviour.

## 7. Plan

Done: the simulator with its abstract specification and the proof of the
refinement; the applications, the PMU, the PDC and the SPDC with their proofs; the
abstract concentrator and the proofs that both implement it; names, routing and
set-up, with the proof that messages come out where they were addressed to; texts and
padding, with the proof that they are read back; the measuring system as a whole, with
the proofs that the control sees what was measured and that every concentrator in it
behaves as its own module says.

Left: the safety half of `EveryInstantControlled` (when the end comes, every instant
without a late or lost packet has been controlled, and every set whose call is due has
been read) for all constants. It needs, for each
such instant, an invariant that follows every measurement from the PMU's call to the
lines the SPDC holds, with the time by which it has left each stage. That the end comes
at all is liveness and stays with TLC.

Should `DoRead` of the SPDC come to pass a delay instead of the deadline,
`FrameLeavesInTime` and its proof apply to it as they do to the PDC.
