# Verification of ruvion-client

`ruvion-client` is a Python library that talks to Ruvion robot controllers over
QUIC with mutual TLS.  This directory holds TLA+ models of its core, the TLC
configurations that check them, and the proofs of what was worth proving for
every value of the constants.  Paths of the form `transport.py:90` are relative
to `src/ruvion-client/ruvion_client/`, `examples/...` to `src/ruvion-client/`.

To check a module: `tlc -config EventChannel.cfg EventChannel`; to prove one:
`tlapm ControlStreamProofs.tla`.

## 1. Inventory

The library runs in one asyncio event loop.  A coroutine is interrupted only at
an `await`, so the unit of interleaving is the stretch between two awaits; the
callbacks of the QUIC stack and of the mDNS browser run between such stretches.
The controller is not part of the repository: the models give it the freedom
that the client has to live with.

| part | state | operations | interacts with |
|---|---|---|---|
| `_RuvionProtocol` (transport.py:31-116) | `_stream_queues`, `_event_subscribers`, `_datagram_subscribers`, `_event_buffers` | register/unregister, subscribe/unsubscribe, `quic_event_received` | called back by aioquic for every stream chunk and datagram |
| `Connection.request`, `_execute` (196-229) and the command methods (231-318, 426-434) | `_closed`; per call a stream id and a local buffer | send a command, collect the reply, time out | a stream of its own per call |
| `Connection.claim`, `_ClaimContext` (233-245, 437-452) | none; the ownership is the controller's | claim on enter, release on exit | two calls of `_execute` |
| `Connection.send_single`, `send_humanoid` (320-386), `motion.py` | `_motion_seq` | take a number, build a datagram, send it | nothing comes back |
| `Connection.events` (390-405), `events.py` | a queue of 64 frames per iterator | subscribe, take, parse, unsubscribe | fed by `_dispatch_event_frame` |
| `Connection.telemetry` (407-423), `telemetry.py` | a queue of 16 datagrams per iterator | subscribe, take, parse, unsubscribe | fed by `quic_event_received` |
| `connect_controller`, `_attempt_connect` (521-673) | the dictionary of racing tasks, the winner | race all addresses, tear the losers down | `_resolve_hostname`, aioquic's `connect` |
| `discover`, `discover_once` (discovery.py:135-216) | a queue of changes, the tasks resolving, the result by serial | browser callbacks, resolve, collect | zeroconf |
| `control.py`, `motion.py`, `events.py`, `telemetry.py` | none | build a command, parse a reply, an event or a datagram, raise on an error | the generated classes of `proto/ruvion/motion`, which the controller has its own copy of |
| `examples/move_test.py`, `goto_zero.py`, `gravity_comp.py`, `friction_comp.py`, `zeroing_joint7.py`, `streaming_test.py` | where the program is in its script | set the robot up, send poses, watch the telemetry, calibrate | all of the above |
| `examples/monitor.py` | a queue of keys, filled by a thread | draw telemetry, quickstop on Enter | telemetry, `quickstop` |
| `examples/diagnose.py` | counters of packets, QUIC events and telemetry, a snapshot | count for a while, close, conclude | the protocol's callbacks, telemetry, events |
| `CertBundle`, scripts | none | | |

What is hard here, and the property that each part owes:

* **Control stream.**  Replies come in chunks, interleaved with those of other
  calls and of calls that gave up; a reply races the timeout of its own call; the
  loss of the link is announced to nobody.  *A call returns the controller's
  answer to that very command or raises; registrations do not leak; every call
  ends.*
* **Claim contexts.**  A call that gave up may be executed later, in another order
  than it was sent.  *Inside the context the client is in control; outside it is
  not.*
* **Motion commands.**  Datagrams are lost and reordered, and an explicit sequence
  number resets the counter.  *The arm obeys the newest command it received.*
* **Events.**  One stream per event, no order between streams, bounded queues that
  drop, frames that do not parse.  *A consumer sees what was dispatched, in order,
  less what it was too slow for; nobody pays for another's slowness.*
* **Telemetry.**  Lossy, latest wins.  *A queue is the window of the latest
  arrivals.*
* **Connecting.**  Several handshakes may complete at once, the caller may be
  cancelled during the race and during the clean-up.  *One connection is left on
  success, none on failure.*
* **Discovery.**  Removals are queued at once, announcements after two network
  requests; requests for one controller overtake each other.  *The result is the
  latest state.*
* **Codecs.**  Tags, enums, codes and defaults exist twice, by hand and generated; a
  field equal to its default is not sent; numbers may be of a later schema.  *What
  one side writes is what the other reads, and what cannot be read is not taken for
  something else.*
* **Motion examples.**  They infer the end of a motion from telemetry that may be lost,
  late or out of order; calls give up and are executed late; Ctrl-C strikes anywhere.
  *A leg is over only when the arm rests at its goal, Ctrl-C stops the poses, the
  program ends.*
* **Streaming example.**  It looks for a zero crossing in samples at uncertain times.
  *It stops at the first crossing after the duration.*
* **Monitor.**  Keys come from a thread, are looked at one per datagram, and wait while
  a quickstop is awaited.  *No Enter is lost.*
* **Diagnosis.**  Its numbers are taken at different times, while things go on.  *Its
  report agrees with what happened while it observed.*

## 2. Modules

Each module begins with what it abstracts; the comment before each definition
names the code.  Operators marked "Variant:" are mutated copies of the definition
that follows them: the kind of bug that a property is there to catch.  Nothing
refers to them except the mutation tests listed in `PROJECT.json`.

### Rpc (abstract) and ControlStream

`Rpc` is what `_execute` promises: a command is executed at most once, a result is
the one computed for that command, and a call that gave up says nothing about its
command.

`ControlStream` is the machinery.  `queues` is `_stream_queues`, a function whose
domain grows with `register_stream` and shrinks with `unregister_stream`.
`request` is cut at its awaits: `RequestSend` runs to the first `await q.get()`,
`ReadChunk` is a turn of the loop of `_read`, `ReadLast` is the last turn with
parsing and the `finally` clause, `Timeout` and `Cancel` are the other two ways
out, each with its `finally`.  `DeliverChunk` is the branch of
`quic_event_received` for bidirectional streams.  Every command method
(`clear_fault`, `quickstop`, `calibrate`, ...) is one `_execute` and differs in
its payload only.  A chunk carries the stream, position and length of the reply it
is part of, so that a reply assembled from wrong chunks does not parse as right.

`ControlStream` implements `Rpc` under the mapping `Fate`, `AnswerOf`, `Outcome`
(property `ImplementsRpc`).

### ClaimControl

Built on `Rpc`, not on `ControlStream`: the calls of a claim context are remote
calls of which only the promise matters, and it instantiates that promise
(`R == INSTANCE Rpc`) over the calls *client x context x claim/release*.  Its
actions are the stretches of `__aenter__` and `__aexit__`, and the controller's
execution of either command, with the answers that control.py has names for.  The
controller grants a claim if nobody is in control or the claim forces; it may
refuse for reasons of its own, and it may take control from a client whose link
died.

### Feed (abstract), EventChannel and TelemetryChannel

`Feed` is what both iterators promise: each message published while the consumer
is subscribed, once, in the order of publication, with gaps where its queue
overflowed.  Events drop the newest message, telemetry the oldest; `Feed` allows
either.

`EventChannel`: `DeliverPart` and `DeliverLast` are the branch of
`quic_event_received` for unidirectional streams, with `_event_buffers` and the
fan-out of `_dispatch_event_frame`.  `Decode` is `parse_event`, which succeeds on
the parts of one event in order and raises on anything else.  `OrderKept` says who
precedes whom (`Precedes`) in what was dispatched and in what was given, and that
nothing is given twice.

`TelemetryChannel`: `DeliverDatagram` is the branch for datagrams, `DropOldest`
its put / get / put again.

Both iterators are async generators that subscribe when first asked (`Subscribe`),
and take one frame per turn (`TakeEvent`, `TakeTelemetry`), skipping what does not
parse.

### MotionStream

`NextSeq` is `_next_seq`, `Send` is `send_single` or `send_humanoid` on an open
connection, `SendFails` the same when the builder raises or the connection is
closed: the number is taken before either is found out.  The controller executes
a datagram if its number is above the last one it received, which is how the
telemetry field `last_received_seq` is understood.  Poses, impedances and the TTL
are passed on unread here; `MotionCodec` has them.

### ConnectRace

One variable per piece of state of `connect_controller`: `tasks` (the dictionary),
`attempt` (each task's progress), `winner`, `awaited` (the task that the `finally`
block is suspended on), `raising`.  `asyncio.wait` returning is `AttemptsFailed` or
`FirstWins`, by what is done; the `finally` block is `AwaitLoser`, `LoserEnds`,
`LateWinnerClosed`; a cancellation of the caller is `CancelRace` or `CancelDrain`,
by where it hits.  `LateResults` selects the behaviour of `asyncio.wait_for`: that
of Python 3.10 and 3.11, which returns a finished result in place of a
cancellation, or that of 3.12.  The project allows both.

### Discovery

`OnChange...` are the branches of `_on_change`; a record in `resolving` is a
running `_resolve` task, before or after its second request; `Collect` is a turn of
`discover_once`.  The content of a TXT record is a version number: zeroconf
enters into the service info of a running request what is announced meanwhile, so a task
queues the version known when it finishes, not when it started.  A version is the number of
announcements and updates of its controller; `changes` counts those of all, up to
`MaxChanges`.

### FlatBuffers, ControlCodec, MotionCodec, EventCodec, TelemetryCodec

`FlatBuffers` is the external library as far as it matters: a table is a function from
slots to fields, a field equal to its default is left out, an accessor fills in its own
default, a vector is prepended item by item, calling an enum with an unknown number
raises.  `Float32` is what a float32 holds of a number: it is rounded, or too large and the
builder raises.  A field is a set of at most one value; `{}` is an absent table or vector, and
`None` in the dataclasses.

Every generated table has two layouts, `...Adds` (slot and default of each Add function)
and `...Gets` (offset and default of each accessor), both read off the generated code.
The rest of each codec is the hand-written file: `Builders` and `BuildCommand` stand for
the fifteen `build_*` functions, `CommandTag` for the hand-written tags (`CommandType` is
the generated union), `ResultCode` for the exceptions (`CommandResult` is the generated
enum), `BuildArmCommand`, `BuildImpedance` for motion.py, `InnerEvent` and `ParseEvent`
for events.py, `ArmFromFb`, `SafetyFromFb`, `SystemFromFb` and `Parsed` for telemetry.py.
The controller's halves (`UnderstoodCommand`, `WriteTelemetry`, ...) use the generated
definitions only: the two ends agree where the two copies do.

### Wire

It extends `MotionStream` and the codecs: what a connection carries.  A behaviour is one
of `MotionStream` or the exchange of one message, chosen initially among all commands
with their arguments, motions, responses, telemetry and events of the bounded domains:
built by one side, read by the other.  The contents of a message and the fate of the
datagrams have nothing to do with one another, so they are not multiplied.  The domains
(vectors, numbers, enum and result codes, texts, what an arm reports) are constants;
`MCWire` gives them the values that TLC works with.

### MotionSession

The six motion examples as scripts: sequences of calls (`Call`, or `Try` inside a
`try ... except Exception`), waits and poses inside a claim context.  A call is sent,
executed or refused by the controller, and answered or given up; what gave up is in
`late` and may be executed at any time.  `Receive` is the body of the `async for` of the
waits, where the deadline is looked at only after a datagram that does not match.
Ctrl-C strikes once, in one of three ways.  `Interrupt`: `asyncio.run` cancels `main` where
it waits (or, in Python 3.10, a `KeyboardInterrupt` comes up where it runs), and that is no
`Exception`.  `InterruptDeferred`, `RaiseDeferred`: from Python 3.11 on a Ctrl-C that strikes
while `main` runs takes effect at its next await, and a pose before that is still sent.
`InterruptSwallowed`: with the `wait_for` of Python 3.10 and 3.11 (`LateResults`) a call whose
reply has been read returns it in place of the cancellation.  `GoTo` leaves by way of `_ClaimContext.__aexit__`.  The robot
(`drives`, `calibrating`, `motion`, `position`) is external: it does what the examples
rely on and otherwise what it likes.

### SineStream

The loop of `streaming_test.py`: samples any number of ticks apart up to `MaxStep`, and
the window around the crossing on the way down.  `MotionSession` has the same loop as one
step of its script that sends any number of poses.

### Monitor and Diagnose

`Monitor`: `PressKey` is the input thread, which hands each key to the event loop
(`run_coroutine_threadsafe`), `PutKey` the loop running that put, `Redraw` the body of the
loop over the telemetry with one `get_nowait`, `QuickstopEnds` the end of the call during
which no key is looked at.

`Diagnose`: the course of `main`.  What the network and the controller do is unknown: which
attempts succeed, which packets come, and of each datagram whether it can be parsed.
`SequentialHandshake` is one address of the fallback, `GiveUp` the exit after it.  `PacketSent`,
`AckArrives`, `StreamArrives`, `DatagramArrives` are the taps, which are attached before
`drain_telemetry` subscribes (`Subscribe`); its queue drops the oldest (`Enqueued`), and `Drain`
is a turn of it,
`StopObserving` the `finally` clause that takes `counts_observed`, `CloseConnection` the end
of the `async with`, during which the taps go on counting, `Conclusion` the chain of
conditions at the end; `Report` adds the lines on the connection and on sent packets.  The
connection may have ended before the taps were attached (`ending = "unseen"`), because
`connect_controller` awaits the losers before it returns.  Whether datagrams arrive does not
depend here on what the controller advertises (`negotiated`), which is for the controller to
keep.

### Examples

It composes the programs: a behaviour is that of one of them, chosen initially, because
they run in processes of their own and share nothing.  `MCExamples` gives `move_test` room
for two telemetry datagrams on their way and the others for one.

### Client

In the same way it composes `Discovery`, `ConnectRace`, `TelemetryChannel` and `Wire`: a
behaviour is that of one of them, and the others stay as they start.  The result of a scan
is the set of addresses a race may be given, which is any set, and a race ends with the
connection the other two start from, so nothing is lost by looking at each part alone.
`MCClient` adds the messages of `MCWire`.

### Proof modules

`ControlStreamProofs`, `ClaimControlProofs`, `EventChannelProofs`,
`TelemetryChannelProofs`, `WireProofs` (with `MotionStream` and the codecs),
`ConnectRaceProofs`, `DiscoveryProofs` and `ExamplesProofs` (with the four modules that
`Examples` composes): section 5.

## 3. What is checked

| run | module | what it shows |
|---|---|---|
| `control_stream` | ControlStream | results are the call's own (`OwnWholeReply`), no registration leaks (`QueuesMatchWaiting`), no chunk is lost or misrouted (`NothingMissed`), every call ends (`EveryCallEnds`), `Rpc` is implemented |
| `claim_control` | ClaimControl | who is inside is in control (`InsideOwns`), who is out is not in control (`ReleasedAfterContext`), or gives it up (`EventuallyReleased`), nothing blocks (`ContextsMoveOn`) |
| `claim_always` | ClaimControl | *violated*: see findings |
| `event_channel` | EventChannel | order, completeness and independence of consumers (`OrderKept`), no loss within the capacity, delivery in the end, `Feed` is implemented |
| `events_reliable` | EventChannel | *violated*: see findings |
| `client` | MCClient: TelemetryChannel | a queue is the window of the latest arrivals (`LatestKept`), what is queued is yielded or pushed out (`EventuallyYielded`), `Feed` is implemented |
| | MCClient: Wire | of the motion commands that arrived the last one sent is executed, unless an explicit number went back (`NewestWins`); every command and motion is understood with all its arguments (`UnderstoodAsAsked`); every response, telemetry datagram and event reaches the caller as what it is or not at all (`ReportedAsIs`) |
| | MCClient: ConnectRace | one connection left on success and none on failure (`OthersTornDown`), no attempt left running, failure only after all have failed, the race ends |
| `connect_old_asyncio` | ConnectRace | *violated*: see findings |
| | MCClient: Discovery | settled removals are dropped, entries never get older (`NeverOlder`, an action property), what is resolved is found |
| `discovery_removed` | Discovery | *violated*: see findings |
| `wire_results` | MCWire | *violated*: see findings |
| `examples` | MCExamples | a leg of move_test is over only when the arm rests at its goal (`RestsAtGoal`), with telemetry that overtakes; no pose follows a Ctrl-C that was raised, one at most a Ctrl-C that is pending (`FewPosesAfterInterrupt`); the sine stops at its first crossing (`StopsAtFirstCrossing`); the report of the diagnosis agrees with what happened (`ReportIsTrue`); every Enter is taken up (`KeyServed`); every program ends (`ProgramEnds`) |
| `move_test_idle`, `diagnose_paths` | MCExamples | *violated*: see findings |

Several properties name exceptions.  They are not conveniences: each one is a
scenario that TLC finds as soon as the exception is removed, and a user of the
library should know it.

* `InsideOwns`: the release of an *earlier* context of the same client, if it gave
  up, may be executed late and revoke the claim of the present one.
* `ReleasedAfterContext`, `EventuallyReleased`: a claim that gave up may be granted
  late.
* `NewestWins`: one explicit number below the counter makes later automatic numbers
  repeat earlier ones, and the controller ignores them.
* `RestsAtGoal`: a status sent before the motion and received during it ends the
  wait; so does a motion that was cut short, by a fault or a stop.  The first of them is
  not only an exception: the run `move_test_idle` shows what it does.
* `FewPosesAfterInterrupt`: a Ctrl-C that `wait_for` swallows does not stop the program at
  all, and a second one is not modelled; one that is deferred lets a single pose out,
  because every pose is followed by an await.
* `KeyServed`, `ProgramEnds`: once the link is lost nothing looks at the keys and nothing
  ends a wait, because the iterator of telemetry is never told.
* `StopsAtFirstCrossing`: the step between two samples is at most twice the window plus
  a tick; a longer delay of the event loop, which `asyncio.sleep` does not exclude, lets a
  crossing go by.
* `ReportIsTrue`: "torn down" is exact, and so is the silence where the report says that no
  telemetry came.  Of "below quic", "not negotiated", "schema mismatch" and the rate it says
  nothing: they restate a count.

### Findings

| run | what the documentation says | what the code does |
|---|---|---|
| `claim_always` | "release on exit (always)" (transport.py:240) | a claim that times out in `__aenter__` stays on its stream and may be granted later; `__aexit__` does not run, nothing releases it |
| `events_reliable` | "events are neither lost nor reordered" (transport.py:393) | events are dispatched in the order in which their streams complete, and dropped when a queue of 64 is full |
| `connect_old_asyncio` | "the first successful handshake wins, the others are torn down" (transport.py:567) | with Python 3.10 or 3.11, a cancellation of the caller that arrives while a late winner is awaited is swallowed together with that winner's connection, which stays open |
| `discovery_removed` | "Removed controllers are dropped from the result" (discovery.py:198) | a controller removed while being resolved is queued as added after its removal |
| `wire_results` | "Raises CommandError subclass if result >= 10" (control.py:361), "Maps to CommandResult >= 10" (control.py:76) | `raise_on_error` raises for every result but 0, which is the safer of the two |
| `move_test_idle` | "wait for idle, then return to 0" (examples/move_test.py:1) | the wait takes any datagram for the present: one that was overtaken ends it in the middle of the motion |
| `diagnose_paths` | "handshake failed on every path" (examples/diagnose.py:467) | it says so even when one of the sequential attempts succeeded, which it has just printed |

More is plain from reading and has no run:

* "Exactly one of these is set" (telemetry.py:95) of the fields `arm`, `right_arm` and
  `left_arm`: the telemetry of a humanoid sets two of them, and a datagram without a robot
  none.  `ReportedAsIs` is about such datagrams too.
* `diagnose.py` may say that datagrams are swallowed "before the subscriber queue"
  (diagnose.py:743) when they are in that queue, whose reader it has cancelled.
* `wait_idle` of `examples/goto_zero.py`, `gravity_comp.py` and `friction_comp.py` waits for
  the activity to be Idle, which is so during every motion: "All joints at position 0"
  (goto_zero.py:103) is printed while the arm moves.
* `streaming_test.py` promises "the next zero crossing" and skips those on the way up.
* The docstring of `examples/monitor.py` names a key that the program does not look at, and
  the thread that would restore the terminal is a daemon whose `finally` does not run.
* `examples/diagnose.py` blames the network below QUIC when no packet came, which a silent
  controller brings about as well.

### Bounds

| run | bound | why it is enough |
|---|---|---|
| `control_stream` | 2 calls, 3 chunks, 3 codes | one call can give up while the other is answered, with a first, a middle and a last chunk; the safety part is proved for any number |
| `claim_control` | 2 clients, one forcing; 2 contexts for the other | the hazards need one client's two contexts, for late releases and claims, and one rival; the safety part is proved for any number |
| `event_channel` | 3 events, 2 parts, 2 consumers, queues of 2 | overflow of one consumer and not of the other, interleaved reassembly, a frame that does not parse; the safety part is proved for any |
| `client` | 3 datagrams, 2 consumers, queues of 2 | overflow and reordering; the safety part is proved for any capacity |
| | 4 sends, numbers to 4 | automatic and explicit numbers may meet, pass and repeat; proved for any |
| | vectors of 0, 1 and 2 items, joints beyond a byte; factors at, below and above their default | order and absence can be told apart, and a default from a value that equals it; each field of an arm is missing once and has a value of its own; proved for any |
| | numbers to 4, of which float32 rounds 3 and cannot hold 4 | a number kept, rounded and refused, in each vector and factor; `MCMoves` is a sample in which every field of every motion has each of them; proved for any |
| | result codes to 25, enum numbers one beyond the schema | every code with a class, those between and one beyond; proved for any |
| | 3 addresses, 2 cancellations | a winner, a late winner and a failure, with one cancellation in the race and one in the clean-up; the safety part is proved for any |
| | 2 controllers, 3 announcements and updates in all | three tasks of one controller, or two controllers in one queue; the safety part and the types are proved for any number |
| `examples`, `move_test_idle` | 2 telemetry datagrams on their way in move_test, 1 in the others | late and lost, and a stale one may be overtaken by a current one where a motion is watched from its begin to its end; the safety part is proved for any number |
| | all programs but friction_comp | its script is that of gravity_comp, step by step |
| | Period 40, Down 20, Window 3, MaxStep 7, Duration 100 | every phase of the first, third and later crossings is met; proved for any.  In the program, with ticks of a millisecond, the window is 7 on either side (0.01 of the amplitude at 0.2 Hz) and the sleep 10, which leaves the event loop a delay of 5 |
| | 3 keys, 2 frames | an Enter, another key, an Enter behind it, with the queue of frames full |
| `examples`, `diagnose_paths` | 2 addresses, 4 packets, a queue of 2, 2 yields for health | one address answers and the other does not; acknowledgement, stream and datagrams before and after the snapshot, an overflow, slow and healthy; proved for any number |

The real capacities are 64 and 16.  A queue of two already is empty, half full and
full, which are the cases that the code tells apart.

Runs that end in states without successors set `CHECK_DEADLOCK FALSE`: the calls,
events or sends of the bounded instance are used up, or the scan or race is over.
That nothing waits for ever is stated by the liveness properties instead.

## 4. Fairness

Weak fairness is assumed of the client's own steps only where the event loop
guarantees them, and of the network only while the link is up.

* `Timeout` (ControlStream), `GiveUp` (Rpc): `asyncio.wait_for` fires.
* `ClaimAnswered` or `ClaimGivesUp`, `ExitEnds` (ClaimControl): the same, through
  `Rpc`.  `ExecuteRelease` while the link is up: QUIC retransmits, and the
  controller reads its streams.
* `TakeEvent`, `TakeTelemetry`: the consumer keeps asking.  A consumer that stops is
  one that unsubscribes.
* `DeliverPart`, `DeliverLast` (EventChannel): streams are retransmitted while the
  link is up.  Datagrams are not, so TelemetryChannel assumes no delivery.
* `AttemptStep`, `CallerStep` (ConnectRace): `connect_timeout` ends a handshake,
  QUIC's own timer ends closing, the event loop resumes the caller.
* `ResolveStep`, `Collect` (Discovery): a request ends by its timeout, the queue is
  read.
* MotionSession: a program that is not waiting goes on, a call ends by its timeout, time
  passes, the controller sends telemetry periodically, and of infinitely many datagrams
  some arrive (strong fairness of delivery, void once the link is lost).
* SineStream: `asyncio.sleep` returns.  Monitor: the event loop runs the puts that the
  thread schedules, and the body of its loop; the quickstop ends by its timeout; telemetry
  arrives while the connection is up.  Diagnose: each stage ends by a timeout or a
  deadline; nothing is assumed of what arrives.

## 5. What is proved

For every value of the constants, with no assumption but the named ones of each
module (sizes are positive, special values are distinct):

| theorem | module | statement |
|---|---|---|
| `TypeCorrect` | ControlStreamProofs | `Spec => []TypeOK` |
| `ResultsAreOwn` | ControlStreamProofs | `Spec => []OwnWholeReply` |
| `NoLeakedStream` | ControlStreamProofs | `Spec => []QueuesMatchWaiting` |
| `NoChunkMissed` | ControlStreamProofs | `Spec => []NothingMissed` |
| `StreamsImplementRpc` | ControlStreamProofs | `Spec => RPC!SafeSpec` |
| `TypeCorrect` | ClaimControlProofs | `Spec => []TypeOK` |
| `InControlInside` | ClaimControlProofs | `Spec => []InsideOwns` |
| `OutOfControlAfter` | ClaimControlProofs | `Spec => []ReleasedAfterContext` |
| `ContextsUseRpc` | ClaimControlProofs | `Spec => R!SafeSpec` |
| `TypeCorrect` | EventChannelProofs | `Spec => []TypeOK` |
| `GivenInOrder` | EventChannelProofs | `Spec => []OrderKept` |
| `NoneLostWithinCapacity` | EventChannelProofs | `Spec => []NoLossWithinCapacity` |
| `EventsImplementFeed` | EventChannelProofs | `Spec => FEED!SafeSpec` |
| `TypeCorrect` | TelemetryChannelProofs | `TelemetrySpec => []TelemetryTypeOK` |
| `WindowOfLatest` | TelemetryChannelProofs | `TelemetrySpec => []LatestKept` |
| `TelemetryImplementsFeed` | TelemetryChannelProofs | `TelemetrySpec => FEED!SafeSpec` |
| `TypeCorrect` | WireProofs | `MotionSpec => []MotionTypeOK` |
| `LastCommandWins` | WireProofs | `MotionSpec => []NewestWins` |
| `WireKeepsStream` | WireProofs | `WireSpec => MotionSpec` |
| `AskedIsUnderstood` | WireProofs | `WireSpec => []UnderstoodAsAsked` |
| `ReportIsUnderstood` | WireProofs | `WireSpec => []ReportedAsIs` |
| `TypeCorrect` | ConnectRaceProofs | `RaceSpec => []RaceTypeOK` |
| `NoAttemptOutlives` | ConnectRaceProofs | `RaceSpec => []NothingLeftRunning` |
| `FailsWhenAllFailed` | ConnectRaceProofs | `RaceSpec => []FailureIsTotal` |
| `LosersTornDown` | ConnectRaceProofs | `NothingForgotten` implies `RaceSpec => []OthersTornDown` |
| `TypeCorrect` | DiscoveryProofs | `ScanSpec => []ScanTypeOK` |
| `RemovedInTimeIsGone` | DiscoveryProofs | `ScanSpec => []RemovedWhenSettled` |
| `LatestNeverOlder` | DiscoveryProofs | `ScanSpec => NeverOlder` |
| `ProgramTypes` | ExamplesProofs | `Spec => []TypeOK` |
| `ArmRestsAtGoal` | ExamplesProofs | `Spec => []RestsAtGoal` |
| `PosesAfterInterrupt` | ExamplesProofs | `Spec => []FewPosesAfterInterrupt` |
| `FirstCrossing` | ExamplesProofs | `Spec => []StopsAtFirstCrossing` |
| `ConclusionsTrue` | ExamplesProofs | `Spec => []ReportIsTrue` |

(`MotionSpec` is the specification of `MotionStream`, on its own and within `Wire`.  A behaviour
of `Client` is one of the part at work: the others stutter.)

**ControlStream.**  None of the three safety invariants is inductive alone.  The
invariant `IInv` joins them to `TypeOK` and two more facts.  `StreamsIssued`: every
stream in use has an id below `nextId`, so a new call's id is fresh; a call has a
stream from its `RequestSend` on; no command is both pending and answered.
`NotYetWhole`: a waiting call has read less than its whole reply, so that the frame
flagged as the end is the last one.  `NothingMissed` then says which frame is at the
head of a queue (lemma `NextFrame`), and reading the last one gives the call a buffer
that parses as the reply (lemma about `ParseResponse`).  The refinement of `Rpc` uses
the same invariant, and one step is one step of `Rpc` or a stutter.

**TelemetryChannel.**  `TelemetryTypeOK /\ LatestKept` is inductive; the work is in the lemma
on `DropOldest`, that a suffix of the arrivals stays one when the newest is appended
to both and the oldest dropped.

**MotionStream.**  `NewestWins` follows from three facts that support one another:
`Ordered` (no datagram is from the future), `Numbered` (unless a number went back,
numbers grow with the order of sending and stay below the counter) and `Newest` (the
controller's last number is that of the command it executes, and the highest it
received).  A step of `Wire` is one of `MotionStream` or leaves it alone
(`WireKeepsStream`), so this holds of a connection whatever its messages contain.

**Codecs.**  The argument is about layouts.  `TableRoundTrip`: if the writer's and the
reader's layout have the same slots and defaults, and no two fields share a slot, then
the reader finds in a written table each field that was given, its default where none
was, and nothing else; a field left out because it equals the default comes back as that
default.  For each table the two layouts are compared field by field.  The arm's
telemetry, the longest, is put together of parts that lie in intervals of slots that do
not meet (`ExtendedDistinct`), instead of comparing every two of its fields.  For the hand-written
tags, enums and error codes, the proofs go through the members: the client's number is
the schema's, and a number that is nobody's has no member.  The invariant
`ExchangeInv` follows one message through its stages (`Unsent`, `Sent`, `Understood`):
the frame is what the builder made of the message, and the meaning what the parser makes
of the frame.  `UnderstoodAsAsked` and `ReportedAsIs` then are statements about builders
and parsers alone.

**MotionSession.**  `RestsAtGoal` is about the end of a wait, so the invariant says what
each step of `move_test` may rely on (`Reached`): before a leg the arm rests and nothing
under way says otherwise (`Resting`); once the pose is sent, whatever is under way that
says idle *behind* something that says moving tells of the end of this motion (`Sent`);
once moving was seen, so does everything that says idle (`Seen`); and when idle was seen
the arm rests at the goal (`Arrived`).  It speaks of the telemetry under way
in order, and holds as long as no datagram overtook another and no motion was cut short, the
exceptions that the property makes.  `Control` ties the script's step to what the
program is doing.  For `FewPosesAfterInterrupt`, `OnlyLeaving` says that once Ctrl-C was raised
only the release is left, and `Awaited`, in two cases, that while it is pending a pose that
was sent is behind a step that awaits: no script has two poses in a row, and a sample of the
sine is followed by its sleep.

**Diagnose.**  `CountsAgree` says that a datagram is counted where it arrives, before it is
queued, parsed or dropped; `SnapshotBetween` that the snapshot covers what had been read;
`EndsAgree` that up to the end of the observation an end of the connection that was seen is a
breakdown, that the snapshot has just that, and that the program's own end sends a packet
unless the connection had ended by itself; `Uncounted` that nothing is counted before the
taps are attached.

**SineStream.**  The invariant says that `ahead` lies between the end of one window and the
end of the next, and that while the stream runs past the duration the last sample was not
inside a window.  A step of at most `2 * Window + 1` from before the window then ends
before it or inside it.  `StepAssumption` says just that of the constants, and is needed.

**ClaimControl.**  `InsideOwns` speaks of the body only, but control is granted before the
client knows, so the invariant speaks of a *granted* claim (`GrantHolds`), from its
execution to the end of the body.  What could revoke it is a release of the client's own:
`OneCall` says that a release can be waiting only while its context is exited, and
`FateMatches` that a call that was answered or never left is not in flight, so that such a
release is one that gave up.  That is the exception the property makes.
`OwnerAccounted` is the other direction: a client in control was granted its claim, has a
release on the way, or is one of the exceptions.  `ContextsUseRpc` closes the composition:
every step of a context is one step of one call of `Rpc`, the module that `ControlStream`
implements, or touches no call.

**EventChannel.**  `Reassembly` says that a buffer is the prefix of its event that has
arrived, and `FramesWhole` that every queued frame is all of one event.  A frame then
decodes to its event, now and after more events were emitted, which the refinement of
`Feed` needs because its backlog is the queue decoded.  For `OrderKept` the invariant is
`Faithful`, between what a consumer was offered and what it was given or has queued, with
`OfferedComplete`: only complete events are offered, so the one that completes now was not
offered before, and cannot be given twice.  `NoLossWithinCapacity` follows
from a queue never being longer than what was offered.

**ConnectRace.**  What is still under way is in `tasks` (`Pending`), only successes have a
connection (`Successes`), none leaves `tasks` while the race is on (`NoneSkipped`), and
what is open is in `tasks` or won (`OpenAccounted`).  The last holds only if the attempt a
second cancellation makes the `finally` block forget is not a success.
`NothingForgotten` is that condition: the `wait_for` of Python 3.12, or no cancellation of the
caller.  The run `connect_old_asyncio` shows that it cannot be dropped.

**Discovery.**  `InOrder` says that along the result, the queue and the data a controller
announces, versions do not decrease, because a task takes the data when it ends and not
when it begins.  `RemovalLast` says that the last that is queued of a controller removed
with no task under way is its removal.  Both are proved over all natural numbers as
versions.  `ScanTypeOK` bounds versions by `MaxChanges`, whatever that is: no version
exceeds the number of changes so far, and a controller with a task under way was
announced.

Every safety invariant and action property that a passing run checks is proved.
Model-checked only: the liveness properties (`EveryCallEnds`, `EventuallyReleased`,
`ContextsMoveOn`, `EventuallyYielded`, `RaceEnds`, `FoundInTheEnd`, `ProgramEnds`,
`KeyServed`) and the fairness halves of `ImplementsRpc` and `ImplementsFeed`, whose safety
halves are proved.  The prover has no ENABLED, and so no fairness, to reason with.

## 6. What is not modelled

* Bytes: alignment, offsets, text encodings, the identifier of a file beyond its name,
  numpy types, the deprecated accessors of the generated code.  A table is its slots.
* `CertBundle`, the ALPN check, `_sort_addresses`: checks and orderings before the race,
  which starts all attempts at once; they are one failing step and a choice of addresses.
* `discover` used on its own, whose queue is that of `discover_once`.
* The rendering of `monitor.py`, all of `monitor_simple.py`, the probes and statistics of
  `diagnose.py`: output; and Ctrl-C during `diagnose.py`.
* The controller beyond what the client relies on; in particular when exactly it brakes
  for want of a successor within the TTL: `Brake` may happen at any time.
* Scripts.

## 7. Plan

Done, in this order: `Rpc`, `ControlStream` with its proofs, `ClaimControl`, `Feed`,
`EventChannel`, `TelemetryChannel` with its proofs, `ConnectRace`, `Discovery`,
`MotionStream` with its proofs, the codecs and `Wire`, `SineStream` with its proofs,
`MotionSession`, `Monitor`, `Diagnose` and `Examples`, the proofs about `ConnectRace`,
`ClaimControl`, `Discovery` and `EventChannel`, and then those about the codecs, `Wire`
and the examples.

To extend the models: `ClaimControl` with a second connection of the same client, if the
examples come to use one.

To prove next: an abstract specification of `connect_controller` (one connection, or an
error and nothing left), and that the race implements it; likewise for `discover_once`.
