# TLA+ models of the Bryant/Carrier daemon

The daemon in `src/bryant-carrier/daemon` talks to a Carrier Infinity / Bryant
Evolution thermostat over the ABCD serial bus, serves a JSON API and websockets,
and bridges the thermostat to Home Assistant over MQTT. This directory holds
TLA+ modules that model its concurrent parts, TLC configurations that check
them on small instances, and TLAPS proofs of the properties that matter most.
Paths below are relative to `src/bryant-carrier/daemon` unless they say
otherwise.

    tlc -workers 2 -config BusCalls.cfg MCBus.tla       check a run
    tlapm BusProofs.tla                                 check the proofs

## 1. Inventory

| Component | State | Operations | Hard behaviours | What makes it correct |
|---|---|---|---|---|
| Bus request path, `infinity/bus.go` | `actionCh` (unbuffered), the action in `performAction`, `responseCh` (32) | `send` behind Read, ReadTable, Write, WriteTable; `broker`; `handleFrame` | retransmission and timeout against late and duplicate replies; the reader blocks on a full channel | each call answered once, in order; an answer belongs to its call; reads do not go back in time |
| Serial port and framing, `bus.go`, `frame.go` | `b.port`, the bytes read so far | `openSerial`, `reader`, `sendFrame`, `encode`, `decode` | port shared by two goroutines without a lock; resynchronisation; discarded errors | frames that were sent are found, once each and in order; the reader comes back; no call on a nil port |
| Poller and cache of the configuration, `infinity/api.go` | `Cache` | `poller`, `GetConfig` | two reads of the bus per poll | the cache follows the zone exposed |
| Settings refresh, `api.go` | `tempUnit`, `settingsRead` | `refreshSettings` | failing reads, age | the unit follows the wall unit |
| Zone updates, `api.go`, `zonehold.go`, `webserver.go`, `mqtt/mqtt.go` | local to each call | `SetZoneConfig` from PUT requests and MQTT commands | several bus calls per update; hold bits of all zones in one byte; concurrent callers | nil means done, other zones untouched |
| Setpoint commands, `mqtt/mqtt.go` | local to each command | `setTemperature`, `setTemperatureLow`, `setTemperatureHigh`, `setSetpoints`, `parseSetpoint` | decided on a cached configuration; `uint8` arithmetic at the limits | request honoured and spread kept as far as the range allows; nobody else's change undone |
| Snooped devices, `api.go` | cached air handler and heat pump, `lastSeen` | `attachSnoops`, `markSeen`, `GetAirHandler`, `GetHeatPump` | value and stamp are separate steps, on both sides; devices that fall silent | nothing old is shown, nothing recent is hidden, what is shown is what is cached |
| Cache, dispatcher, websockets, `internal/cache`, `internal/dispatcher`, `webserver.go` | `Cache.data`, `listeners`, `broadcast` (64), each listener's channel (32) | `Update`, `BroadcastEvent`, `run`, `NewListener`, `Close`, `Dump`, `websocketListener` | slow clients, closing on both sides, dump against events, shutdown | no panic, no lock held for ever, clients converge on the cache |
| MQTT bridge, `mqtt/mqtt.go`, `mqtt/discovery.go` | `lastState`, `lastAvailability`, `discoveredUnit` | `Run`, `publish`, `publishDiscovery`, `onConnect`, `shutdown` | three kinds of goroutines; reconnects, wills, broker restarts, SIGTERM | what is retained is what was last built; online exactly while running |
| State document, `mqtt/mqtt.go` | none | `buildState`, `haAction`, mode translations | names, bytes and synonyms through several tables | what was asked for is what is shown |
| Tables and conversions, `tables.go`, `conversions.go` | none | encodings, vacation | unknown bytes, days and hours | round trips |
| Webserver, `webserver.go`, `infinitive.go` | the HTTP server | handlers, graceful shutdown | open websockets while draining | shutdown ends |
| Web page, add-on scripts | | | | not modelled |

How they interact: the poller, HTTP handlers and MQTT commands all call the
bus and wait for it, one goroutine each; the reader calls the snoops, which
update the cache; the poller updates it too; an update broadcasts an event,
under the cache's lock, to the dispatcher, which hands it to the websockets; the
bridge polls the cache every two seconds and 1.5 s after each command. A
cancelled context stops the poller, the dispatcher, the bridge and the
webserver, and `main` returns with the webserver.

## 2. Modules

| Module | Models | Checked by |
|---|---|---|
| `Bus` | `send`, `broker`, `performAction`, `handleFrame` | `MCBus` |
| `BusService` | what the bus promises its callers; abstract | `ServesCallers` in `Bus` |
| `BusProofs` | proofs about `Bus` | `tlapm` |
| `Conversions` | the tables of names and bytes of modes, fan modes and presets; pure | through `ZoneControl` |
| `ZoneControl` | `SetZoneConfig`, its callers, and what `buildState` shows of it; composes with `Conversions` | `MCZoneControl` |
| `ZoneProofs` | proofs about `ZoneControl` | `tlapm` |
| `Setpoints` | the arithmetic of `setSetpoints` and `parseSetpoint` | through `SetpointControl` |
| `SetpointControl` | poller, cache and setpoint commands; composes with `Setpoints` | `MCSetpointControl` |
| `SetpointProofs` | proofs about `Setpoints` and `SetpointControl` | `tlapm` |
| `Dispatcher` | cache, dispatcher, websockets | `MCDispatcher` |
| `Feed` | what cache, dispatcher and handlers promise a client; abstract | `FeedsClients` in `Dispatcher` |
| `DispatcherProofs` | proofs about `Dispatcher` | `tlapm` |
| `Bridge` | publishing, connecting, shutdown | `MCBridge` |
| `BridgeProofs` | proofs about `Bridge` | `tlapm` |
| `SerialPort` | `openSerial`, `reader`, `sendFrame`, `decode` | `MCSerialPort` |
| `FrameService` | what the reader promises of the frames on the wire; abstract | `DeliversFrames` in `SerialPort` |
| `SerialProofs` | proofs about `SerialPort` | `tlapm` |
| `Snoop` | snoops, freshness, `publish`'s view of them, `refreshSettings` | `MCSnoop` |
| `SnoopProofs` | proofs about `Snoop` | `tlapm` |

**Bus.** `actionCh` is the queue of goroutines blocked in `b.actionCh <- act`,
`cur` the action being performed with its `tries`, `responseCh` the channel,
`toDevices` and `toDaemon` the two directions of the wire. `Call` is `send` up
to its wait; `TakeAction` is `broker` and the first transmission; `Accept`,
`Discard`, `Retransmit` and `GiveUp` are the cases of the select, the last tick
included, which retransmits and then leaves without waiting; `PassOn`,
`Overhear` and `AckPush` are `handleFrame`. A table is abstracted to a version
number, since all a caller can get wrong is how old it is and which table it
is. The fields `own`, `clean`, `start`, `answers` and `current` are history and
guard nothing. External: the wire, which loses frames in either direction and
keeps the order of the others; the devices, which answer each request they get
with the table or a bare ACK06; the wall unit. The port is open; a `sendFrame`
that fails, whose result `performAction` ignores, is a lost frame, and so is
whatever passes while the port is being reopened. `SerialPort` says when that is,
and implements what `Bus` takes for granted of the wire (`FrameService`): frames
arrive in order, each at most once, none passed over while the port is open.

**ZoneControl.** `SetZoneConfig` is one action per call of the bus, with
`First` and `AfterParams` the tests between them. A bus call succeeds, or fails
with or without having been carried out, which is what `Bus` shows of it as long
as no leftover is mistaken for an answer (`AnsweredButForLeftover`). The
two setpoints of a zone are one field, since the code treats them alike. The
flags byte names no zone: the thermostat is taken to ignore the zeros sent for
other zones, except for the hold bits, a byte all zones share. The thermostat
holds raw bytes (`RawModes`, `RawFanModes` are those it can be in) and everything
above it names, as in the code; `SetMode`, `SetFanMode` and `SetPreset` take
payloads of the command topics, and `BuildState` is the part of `buildState` that
shows mode, fan mode and preset, from `GetConfig`'s translation of the zone the
poller reads (`PolledZone`, zone 1, whichever zone is exposed). External: the
thermostat ignores a mode byte it does not know, which is why off has to be 4 and
not 5 (the comment in `conversions.go:40`).

**SetpointControl.** The poller is `PollParams`, then `PollCurrent` or
`PollFails`. A command is `SetTemperatureOf` or `SetTemperature`, which reads
the cached mode, then `Decide`, which reads the cache again, then `Write`. paho
runs one command handler at a time, hence one `command`. `fresh` and `tight` are
history: whether the cached setpoints a command was decided on are still the
thermostat's, and whether they made it move the other setpoint.

**Dispatcher.** Each iteration of `run` is an action. `pending` is the event of
the `Update` that holds the cache's lock; `Dump` waits for it. A listener has as
many `closes` as times its channel was closed. `view` is what the client was
last sent. A socket that is done may connect again, as a new listener. `Clients`
maps all this to `Feed`: a client follows from its registration on, what it is
still to be shown is what its channel, the queue and a blocked `Update` hold, and
for one that was dropped what is left in its channel.

**Bridge.** `thread` says where the ticker, the timer of a command and
`onConnect` are, with their local variables; every stretch under `b.mu` and
every hand-over to the client is a step. `last` stands for `lastState` and
`lastAvailability`, which are treated alike. External: paho stores messages
while the connection is down and, when it is back, sends them before anything
else (of each topic the latest matters) or drops them, and its `IsConnected` is true while it retries; the broker
publishes the will of a session that was lost; it may restart and forget what
it retained. One `onConnect` runs at a time, a bound on reconnects that follow
each other faster than a subscription is answered.

**SerialPort.** A byte is its position in the stream of all that passes on the
wire; what `decode` would make of the bytes that begin there (the length claimed,
whether the checksum holds, whether all are zero) is part of the stream, so that
noise may claim any length. A checksum is taken to hold for frames and zeros only.
`port` is `b.port`, which is nil, a typed nil or a handle; `using` is the
handle a call has loaded. `Top`, `Open`, `Assign`, `StartCall`, `ReadBytes`,
`ReadFails`, `Close` and `Clear` are the steps of `reader` on it, and `Check`,
`StartCall`, `Written`, `Close` and `Clear` those of `sendFrame`, which the broker
and the reader both run. `Complete`, `HandleFrame`, `SkipByte` and `AwaitMore` are the
parsing loop; `First` is the byte it is at. A read returns a chunk of any size.
The unsynchronised accesses to `b.port` are single loads and stores; storing a
handle writes the interface's type first and its pointer second, and the order
of these can be seen from the other goroutine (`Assign`).

**Snoop.** `Hear` is a snoop up to `markSeen`, `Store` its `Cache.Update`;
`StartPublish`, `TakeValue`, `TakeStamp`, `Judge` and `State` are `publish`, one
step for each thing it takes from the cache or compares with the clock. Time is
counted in ticks since the stamp, and between any two ticks a publish ends
(`due`), which is what the two-second ticker and a tick of about a minute give. `silence` and `disturbed` are history. `RefreshSettings`
stands for `refreshSettings` with a read that succeeds; one that fails changes
nothing.

## 3. Runs

Every constant of a run is in its `.cfg`; the sets are in the MC modules.

| Run | Shows |
|---|---|
| `BusCalls` | `CleanCallIsSound` and `MonotonicReads` with two tables, losses, retransmissions, leftovers and unsolicited traffic; `EveryCallReturns`, `ReaderUnblocks`, and that `Bus` implements `BusService` |
| `BusFalseAck` | disagreement: a late reply, in the trace to a read that was given up, is taken for a write's acknowledgement |
| `ZoneAlone` | one update at a time: nil means exactly the update (`OkIsApplied`), an error leaves a prefix (`ErrorIsPrefix`), other zones' hold bits stay, and what the card asked for is what it is shown, with zone 1 exposed (`ShownIsAsked`) |
| `ZoneRace` | disagreement: two interleaved updates undo each other's hold bit |
| `SetpointCommands` | `FreshCommandsAreExact` for requests inside, below and above the range, which is also where the code and the comment above `setSetpoints` disagree; outdated commands undo nobody's change of the other setpoint (`OthersChangesKept`); the cache converges on zone 1, the zone polled |
| `DispatcherClients` | `NeverPanics`, `LastEventIsCached`; clients that never read hold up no update; dropped handlers end, clients that read converge; every client is shown every change in order until it leaves or is dropped (`FeedsClients`) |
| `BridgePublishing` | `LastIsRetained`, `OnlineWhenConnected` with one publisher; the retained state converges |
| `BridgeRace`, `BridgeGone` | disagreements: publishes out of order, online after offline |
| `SerialReader` | `HandledInOrder`, `NothingHeldBack`, and that the reader comes back (`ReaderRecovers`), among noise, zeros, timeouts, failed opens and a broker that sends; `SerialPort` implements `FrameService` (`DeliversFrames`) |
| `SerialPanics` | disagreement: the reader clears `b.port` between the broker's test and its write |
| `SnoopedDevices` | `ShownIsRecent`, `UndisturbedIsExact`; silent devices go, steady ones stay and are shown as they are; the unit follows the wall unit |

More observations came out of the models and have no run of their own.

- A late reply to a read that timed out answers a later read of the same table,
  with contents older than the call (`bus.go:197`); `MonotonicReads` is what can
  still be relied on, and is why `CleanCallIsSound` needs its hypothesis.
- "The setpoint being explicitly requested is always honoured" (`mqtt/mqtt.go:674`)
  does not hold at the top of the range: a heat setpoint without room for the spread
  above it is lowered (703-706), and that to below the minimum where the range is
  narrower than the spread. A cooling setpoint within the spread of the minimum is
  honoured at the expense of the spread (695-696), and if the wall unit has heat
  below the minimum, heat is even raised. `FreshCommandsAreExact` states what is left
  in each case instead of leaving these out.
- A request equal to a cached setpoint that is out of date is reported done and
  not written (`mqtt/mqtt.go:713-721`), so that `FreshCommandsAreExact` cannot speak
  of commands decided on outdated setpoints; of those `OthersChangesKept` does.
- The poller caches zone 1 (`api.go:164`), whichever zone is exposed (`DOCS.md:40`).
  With another zone `CacheFollowsZone` fails in a few steps, and `ShownIsAsked` too:
  a fan mode or a hold is written to that zone and zone 1's is shown.
- `publishDiscovery` reads the unit, records it and publishes in separate steps
  (`mqtt/mqtt.go:252-262`); run by `onConnect` and by `publish` at once, the retained
  configs may carry the other unit than the one recorded, until the unit changes.
- `sendFrame`'s own `b.port = nil` (`bus.go:279`), after a failed write, may clear a
  handle the reader has just opened, which then is never closed by the daemon; and
  if every write fails, the broker may close each new handle before it is read, so
  that the reader never gets to read. `ReaderRecovers` is checked with opens that
  fail, not writes.
- An open that fails leaves a typed nil, which no test for nil sees
  (`bus.go:79`, `120`); the next `Read` ends the process.
- A frame of a device that no snoop decodes counts as a sign of life
  (`api.go:133`), and may make zeros of never-decoded tables look fresh. A reader
  that takes the value before such a snoop's `Cache.Update` and the stamp after
  shows the old value as fresh until the next publish; `ShownConverges` says that
  it does not last.
- A vacation of n days is written as 24 n hours and read back as its hours
  divided by 7 (`tables.go:167`, `180`; `PROTOCOL.md:232`).

Bounds, and why they are enough:

- `Bus`: 2 tries instead of 5, which is enough for a retransmission, a timeout
  and the transmission after it; a channel of 2 instead of 32, so that it fills;
  `MaxWire` 1 frame in each direction, where a leftover in the channel and the
  real answer behind it are on their way together; `MaxVersion` 1, one change of
  each table, which is all an out-of-date value needs. Two callers, one that
  reads and one that also writes, make a call wait behind another's leftovers.
- `Dispatcher`: one key with two values, since an event carries one key and the
  cache treats each by itself; two sockets; a broadcast channel of 1 and
  listener channels of 2, so that both fill and a slow client is dropped with
  events still in its channel.
- `ZoneControl`: two zones, `MaxCalls` updates in progress, and the wall unit is
  used between updates only, since the daemon could not exclude it. It holds the
  bytes 2, 3 and 4 of the mode and 0 and 2 of the fan, which are the ones with
  a name in common with others, or a synonym; the proof covers all others.
- `SetpointControl`: a range of 60 to 63 and a spread of 2, so that every branch
  of the arithmetic is taken, both with and without the limit; requests from -10
  to 300, and a wall unit that also uses 59, below the range.
- `Bridge`: one of the topics that are published on change, two payloads, and
  one temperature unit; publishing a topic depends on no other topic, and on the
  unit only for discovery.
- `SerialPort`: frames of 2 to 4 bytes in a stream of 8, two of them, behind
  noise or with zeros between them, any length claimed by noise; a header of 2
  bytes instead of 10 and two handles, so that an old one is still in use while
  the new one is.
- `Snoop`: one device with one decoded table and others, since devices share
  only publish's order; `StaleAfter` 3 ticks, so that a device may miss a
  tick, go stale and be heard of again, before and after a publish looks; two
  bytes of the unit, one of them without a name.

Deadlock is checked but for `Dispatcher`, where goroutines block once the
dispatcher has stopped, `Bridge`, where the process may have exited, and
`SerialPort`, where it may have panicked.

## 4. Fairness

- Goroutines that can run do: weak fairness of the broker, the reader, the
  dispatcher, `BroadcastEvent`, `publish` and `onConnect`.
- Go's select chooses at random among ready cases: strong fairness of taking a
  response (`Receive`), of `Deliver`, `Register` and `Deregister`. Without it
  the ticker, or a busy broadcast, could be preferred for ever.
- The poller calls the bus again whenever it is not waiting for it.
- In `SerialReader`, that the reader and the broker run, and that a call of `Read`
  or `Write` returns: `Read` after five seconds at the latest.
- In `SnoopedDevices`, that time passes and that `publish` and a begun snoop go on
  (weak), and that not every read of the settings or the configuration fails
  (strong). That a device keeps reporting is a hypothesis of the properties.
- In `SetpointCommands`, that not every poll fails. In `BridgePublishing`, that a
  subscription is answered. That clients keep reading is no fairness of the
  specification but a hypothesis of `DroppedSocketsEnd` and `ClientsConverge`;
  `UpdatesProceed` and all of `Bus` assume nothing of clients and devices.

## 5. Proofs

`BusProofs`, for any callers, devices, tables, requests, capacities and bounds:

- `TypeCorrect`: `Spec => []TypeOK`.
- `CleanCallsAreSound`: `CleanCallIsSound` speaks of answers already returned;
  inductive is that while an action which started clean is performed, every
  request and reply in flight is its own and no older than its start
  (`OnlyOwnInFlight`), and that its start is not in the future (`StartIsPast`).
- `ReadsAreMonotonic`: replies keep their order, so that for each table the
  latest read, then `responseCh`, then the wire, then the table itself are in
  order of version (`VersionsInOrder`). It holds in spite of leftovers, and
  rests on one reader, one channel and a wire that does not reorder.
- `ServesInOrder`: the safety part of the refinement that `BusCalls` checks as
  `ServesCallers`: the initial states are `BusService`'s and every step is one of its
  steps or a stutter, under the mapping of `actionCh` and `cur` to the queue of
  callers. Inductive is that the callers in line are exactly those with a call
  outstanding, each once (`CallersInLine`, `OutstandingCalls`).
- `AnsweredButForLeftover`: `BusFalseAck` has one cause. If no action is taken while
  a reply that its test cannot tell from its own answer, or a request that leads to
  one, is on its way (`NothingMistakable`), then every write that returns true was
  answered by its device (`OkIsAnswered`), so was every read that does
  (`EveryOkIsAnswered`), and a read returns what the table held during the call
  (`OkIsCurrent`). Leftovers of other devices and, for reads, of other tables may be
  there. Inductive is that all that matches is the action's own (`MatchingIsOwn`), and
  that its own is no older than itself (`OwnIsCurrent`). A broker that waited for late replies before it takes the next
  action would satisfy the hypothesis.

`SetpointProofs`, for any range, spread, zones and temperatures that satisfy the
named assumptions:

- `WithHeatExact` and `WithCoolExact`: what the arithmetic returns.
- `SetpointTypes`: `Spec => []TypeOK`.
- `SetpointsAreExact`: `Spec => FreshCommandsAreExact`. Inductive is that a
  decided command which is still fresh would be exact if written now
  (`WriteIsExact`), and that adding the spread to no setpoint in reach wraps
  round (`AllRoomy`).
- `OthersAreKept`: `Spec => OthersChangesKept`. Inductive is that a command whose
  cached setpoints left room selects only the setpoint asked for
  (`OthersNotSelected`).

`SetpointAssumption` is what `main` checks of flags that fit a byte, `min < max`; it
checks them before it cuts them to one. `NoWrapAssumption` is only about sums and
differences of bytes. Its first two parts follow from the add-on's schema
(`config.yaml`: a maximum of at least 45 and at most 105, a spread of at most
10); the third, that the thermostat's own setpoints leave room for the spread below
256, is an assumption about the thermostat. A range narrower than the spread is
allowed, as it is by the schema. With flags outside the schema the sums can wrap,
and nothing is claimed.

`DispatcherProofs`, for any keys, values, sockets and channel capacities:

- `DispatcherTypes`: `Spec => []TypeOK`.
- `DispatcherNeverPanics`: `Spec => []NeverPanics`. Inductive with `Registered`:
  a listener is one whose `NewListener` has returned, and a channel that waits to
  be registered is new.
- `FlightEndsInCache`: `Spec => []LastEventIsCached`. That property speaks of
  clients that have had their dump; inductive is that for every listener, and for
  one that would register now (`BacklogIsCurrent`), the last event on its way
  about a key carries the cached value (`InFlightIsCurrent`). Delivering an event
  moves it within what is in flight, and the dump finds the rest current.
- `ClientsAreFed`: `Spec => FeedsClients`, the refinement of `Feed`. `Update` is its
  `Change`, `Deliver` its `Pass`, `Register` its `Join`, the dump and the forwarded
  events its `ShowAll` and `ShowChange`, the end of a handler its `Leave`; the rest are
  stutters. It rests on the invariant of `DispatcherNeverPanics`: only a socket whose handler
  is between its registration and its close is a listener, and a channel that waits to
  be registered is new.

`BridgeProofs`, for any topics, payloads and units:

- `BridgeTypes`: `Spec => []TypeOK`.
- `ConnectedIsOnline`: `Spec => []OnlineWhenConnected`, for any publishers.
  Inductive is that the session of a connected client is not one the broker lost,
  so that no will is to come, and that "online" stands from `SayOnline` on.
- `RetainedButForRace`: `Spec /\ []OneHandover => []LastIsRetained`, for any
  publishers. Between the two halves of publish a topic's payload is recorded and not
  yet retained (`InHand`); `OneHandover` says that no two goroutines are there with the
  same topic at once, which a lock kept until the client has the payload would give.
  Inductive is that everything else recorded is retained unless `onConnect`, which
  forgets it, is under way (`RecordedOrInHand`), and that what is in hand is what was
  recorded, or was forgotten since (`HandedOverIsRecorded`). Without the hypothesis
  `BridgeRace` refutes it. With the ticker as the only publisher the hypothesis always
  holds: `PublishedIsRetained`.
- `GoneButForRace`: `Spec /\ []OfflineIsLast => []OfflineWhenGone`. A daemon that is
  gone is not retained as online, whether it was stopped, lost its connection or the
  broker restarted, and however many goroutines published, unless `onConnect` was about
  to say "online" when shutdown was about to disconnect. Without the hypothesis
  `BridgeGone` refutes it; a shutdown that waited for `onConnect` would satisfy it.
  Inductive is `GoneInv`: an ended session left no "online" behind, retained or stored.

`ZoneProofs`, for any zones, modes, fan modes and setpoints:

- `ZoneTypes`: `Spec => []TypeOK`, for any number of updates in progress. Its
  invariant adds that a call in progress has no invalid fan mode, and a mode that
  can be written by the time it writes one (`CallsAreValid`).
- `AloneOkIsApplied`, `AloneErrorIsPrefix`, `AloneHoldsUntouched`: the three action
  properties, if `MaxCalls = 1`. Inductive is that the only call is on course
  (`AloneInv`, `OnCourse`): the thermostat is as it found it until it has written
  the parameters, the hold bits in its hand are the thermostat's with its own
  changed, and before the mode is written the rest is in place. The hypothesis is
  needed: with two callers `ZoneRace` refutes `OtherHoldsUntouched`, and a second
  update of the same zone overwrites what the first one wrote.
- `HoldsUntouchedButForRace`: `Spec /\ []OneHoldsWriter => OtherHoldsUntouched`, for any
  number of updates in progress, if there are finitely many kinds of requests. The
  hypothesis says only that no two updates are between the read of the hold bits and
  the write of them, which a lock around the two calls would give; everything else may
  interleave, and calls of the bus may fail. Inductive is that the other zones' bits in
  hand are the thermostat's (`InHandIsCurrent`).
- `AloneShownIsAsked`: if `MaxCalls = 1`, there are finitely many clients and MQTT
  exposes the zone that is polled (`MqttZone = PolledZone`), a command that returns
  nil is what the card is shown next. It rests on round trips through the tables
  (`ModeRoundTrip`, `FanRoundTrip`) for every byte, on `AloneOkIsApplied`'s
  invariant, and on commands being for the zone exposed (`OnZone`).

`SerialProofs`, for any streams of disjoint frames, lengths, handles and faults:

- `SerialTypes`: `Spec => []TypeOK`.
- `FramesInOrder`: `Spec => []HandledInOrder`. Inductive is that what was handled is
  no longer in `msg` (`HandledIsDropped`); that reopening drops all of it is needed,
  or the end of one frame would be glued to another.
- `FramesAreFound`: `Spec => []NothingHeldBack`. Inductive is that whatever left `msg`
  and was a frame was handled (`DroppedIsHandled`), which needs frames to be
  disjoint, so that skipping one whole skips the beginning of no other, and that
  `msg` begins with an incomplete frame when the reader waits (`ParsedWhenWaiting`).
- `FramesAreDelivered`: `Spec => DeliversFrames`, the refinement of `FrameService`. A
  frame is handled only when every earlier one of this port has been, for the same
  reason as above, and reopening only moves on in the stream.
- `PanicsButForRace`: if `"open" \notin Faults`, `Spec /\ []PortIsLocked => []NeverPanics`:
  a port that cannot be opened, and a `b.port` that is reassigned between another
  goroutine's test and its call, are the only ways to a call on nil, whatever reads and
  writes fail. `PortIsLocked` is what a lock around test and use would give; the broker
  may still send while the reader waits for bytes. `SerialPanics` refutes it without.

`SnoopProofs`, for any number of devices, tables, values and ages:

- `SnoopTypes`: `Spec => []TypeOK`.
- `ShownAreRecent`: `Spec => []ShownIsRecent`. Inductive is `JudgedInTime`: a
  stamp taken is no younger than the silence, and one judged fresh gets at most
  one tick older before the document is published.
- `UndisturbedAreExact`: `Spec => []UndisturbedIsExact`. Inductive is `TakenIsCached`.

The four theorems named `...ButForRace`, and `AnsweredButForLeftover`, are the other half
of the five runs that find a disagreement: the run shows that the code can break the
promise, the theorem that it breaks in this one way only, so that removing the
race named in its hypothesis is enough. Each hypothesis is a predicate of the
model's own states, which many behaviours with several actors satisfy, and none is
part of a specification that a passing run checks.

Only model-checked: liveness (`EveryCallReturns`, `ReaderUnblocks`, `CacheFollowsZone`,
`UpdatesProceed`, `DroppedSocketsEnd`, `ClientsConverge`, `StateConverges`,
`ReaderRecovers`, `SilentDevicesGo`, `HeardDevicesStay`, `ShownConverges`,
`UnitConverges`, and with it the fairness of `BusService`), which needs `ENABLED`
wherever fairness is used, and this prover does not have it.

## 6. Plan

Written: `Bus`, `Setpoints`, `SetpointControl`, `Dispatcher`, `Bridge`,
`Conversions`, `ZoneControl`, `SerialPort`, `Snoop`, in the order of how much
depends on them. What could follow:

1. A composition of `ZoneControl` with `Bus`, so that a stale read and the hold
   bits meet in one model: an update's read of the hold bits that gets a leftover
   of an earlier one.
2. The rest of the state document: the setpoint fields, and `haAction`.
3. Payload lengths: what `res.data[0:3]` (`bus.go:195`) and the snoops' indices
   (`api.go:125`) need of an answer.
4. Vacations, once the two factors agree.

## 7. Not modelled

- The web page and the add-on's scripts: no state of the daemon. Only what
  `finish` does with an exit of the daemon is used.
- HTTP handlers other than the zone's PUT and the websocket: one or two calls of
  the bus each, without state; shutdown is `net/http`'s, which does not wait for
  hijacked connections such as websockets.
- `haAction` and the setpoint fields of `buildState`: functions of the
  configuration, without a decision that another part depends on.
- Vacations and the layout of tables; lengths of payloads.
- Wording, logging and JSON; topics as strings; wall-clock time, whose tickers are
  steps that may happen at any moment (and ages in `Snoop`, counted in ticks).
