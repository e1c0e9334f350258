# Verification of ha-dometic-ddm

TLA+ models of the Dometic DDM protocol library `pyddm`, of the Home Assistant
integration that uses it and of the AC console, the runs that model-check them,
and proofs about them. `PROJECT.json` maps every definition to the lines it
models.

    tlc -config session_hostile.cfg MCSession     # a run
    tlapm Session_proofs.tla                      # the proofs of a component

## The system

A DDM device (a CFX3 cooler speaking DDM1, a FreshJet air conditioner speaking
DDM2) is a server on a BLE link (or TCP). Frames are one action byte, for some
actions a topic and a value. The host subscribes to topics and is pushed values.

| component | state | operations | called by / calls |
|---|---|---|---|
| `ProtocolMachine` (pyddm/session.py) | life cycle, handshake step, latest values | start, close, receive: frame in, events out; no I/O | driven by Session |
| `Session` (pyddm/session.py) | ready event, closed flag, queue and writer task, write lock | start, close, subscribe / write / write_raw / ping, notification callback | calls the transport; called by coordinator, console |
| `TcpTransport` (pyddm/transport/tcp.py) | writer, reader task, callbacks | connect, disconnect, write, read loop | called by Session; calls it back |
| `BleTransport` (pyddm/transport/ble.py) | client, notify state | the same over bleak | the same |
| codecs `ddm1`, `ddm2`, `frame` | tables, read only | encode, decode, lookup | called by the machine and the coordinator |
| `DometicDdmCoordinator` | current session and client, shutting-down flag, latest values, HA's `last_update_success` | refresh (connects), disconnect handler, cleanup task, advertisement callback, write, shutdown | owns Session; HA calls it |
| entities (climate, light, switch, select, sensors) | none but HA's | commands become one or two coordinator writes; properties project the values | coordinator |
| config flow, advertisement classification | the discovery a flow holds | classify, ask, create the entry | HA |
| `Console` (tools/ac_console) | one shared session, client, protocol, values, write permission, connecting flag | websocket commands from any number of tabs, each a task | owns Session |

All of it runs on one asyncio loop: code between two awaits is atomic, and
what goes wrong goes wrong between them. The hard behaviours:

* `Session`: start(), close(), the writer and the API callers share a machine,
  a queue and a lock; each may be suspended in a transport call while another
  runs; writes fail, links drop, notifications arrive at any time, a timer
  races the handshake, tasks are cancelled.
* `TcpTransport`: the read loop of one link ends while disconnect() waits for
  it or a new link is opened, and its `finally` closes whatever `_writer` is then.
* `Coordinator`: a refresh takes seconds and several awaits; a disconnect, an
  advertisement, a write or an unload may come at each of them; a disconnect
  is reported late, and reported for links we closed ourselves.
* entities: a command decides from values that may be older than the command
  before it, and is two writes with the link or another command in between.
* CFX3: it is silent until pinged, counts ACKs as flow control and does not
  publish what is written to it.
* Console: two tabs connect, disconnect, bond and subscribe over one session,
  and a tab that closes cancels its commands wherever they await.

`PROJECT.json` lists these as hazards, at their lines, with the properties.

## Modules

| module | models |
|---|---|
| `ProtocolMachine` | the sans-I/O machine as operators from a record and a frame to an outcome (new record, frames to send, ready, events) |
| `Session` | the asyncio driver around one machine: variables are its fields, actions the code between awaits |
| `OrderedOutbox` | abstract: what the machine relies on - frames it hands over are sent in order or lost, each once |
| `Cfx3Session` | `Session` composed with a CFX3 over an ordered link |
| `Transport` | abstract: the contract of pyddm/transport/base.py |
| `TcpTransport` | the TCP transport: connect(), disconnect(), read loops and the peer; implements `Transport` |
| `Coordinator` | the integration's owner of link and session, several connections over time |
| `Entities` | what the climate and the light of a FreshJet show, and what their commands write |
| `FreshJet` | `Entities` at work: service calls, coordinator data, the link and a unit that publishes what changed |
| `Cfx3Entities`, `FreshJetValues` | what every entity shows of decoded values, and the value each command writes |
| `ConfigFlow` | discoveries and user flows over devices that advertise whole or in part |
| `AcConsole` | the AC console's commands, a task each, over one shared connection |
| `ConsoleValues`, `ConsoleDdm2Values` | values between codec and browser, of DDM1 and of DDM2: json_value, display_value, coerce_write_value |
| `ConsoleTexts` | what both share: the JSON and the texts of the console |
| `FrameBytes`, `Ddm1Codec`, `Ddm2Codec`, `Ddm2Table` | frames, values and parameter tables as operators on bytes |
| `Utf8Text` | what both codecs read a text field as: UTF-8, with U+FFFD for malformed bytes |
| `WireProbes` | the questions to both codecs, the entities of both devices, the console, frames and tables, and what the answers must be |
| `MCCodecs` | asks codecs, entities and console one bounded question after another |
| `MCSession`, `MCCfx3Session` | give the handshakes their values |
| `Session_proofs`, `TcpTransport_proofs`, `Coordinator_proofs`, `AcConsole_proofs`, `ConfigFlow_proofs`, `Cfx3Session_proofs`, `FreshJet_proofs` | theorems about the module of that name |
| `WireProbes_proofs` | theorems about `Ddm1Codec`, `Ddm2Codec` and the properties of `WireProbes` |

### Session: correspondence

`m` is `self.machine`, `readyEvt` `self._ready`, `outq` `self._outgoing`,
`handle` whether `self._writer_task` is set, `lockq` the asyncio lock (holder
first, then the waiters: asyncio locks are fair), `armed` the transport's notify
callback, `link` the transport's link. `writer`, `start`, `close`, `call` are the
program counters of the coroutines. A write is one step from getting the lock to
releasing it: that it reached the device and that the call returned are merged,
except when it is cancelled, where both outcomes are possible. `asked`, `wire`,
`reported`, `discarded` are histories. Frames are kinds, not bytes; a payload that
`Frame.decode` rejects is one kind, a value that fails to decode another.

Environment: any device frame at any time while the link is up, a drop at any
time, a failure of any write. So what `Session` shows holds for any device.
`Cfx3Session` replaces that environment by the cooler of
`docs/captures/` and `tests/components/dometic_ddm/fake_cfx3.py`, which ACKs a SUBSCRIBE
it hears before the host's first ACK and forgets it; its definitions that have no source
in `src/pyddm` are marked external.

With `BadErrorListener` an error listener raises whenever it is told of an error: in
close() and the writer, and where an update listener raised first (`Handled`), which
cuts off the rest of that notification, its ACK included.

Not in the model: `start(ready_timeout=None)`; a second successful `start()` of
one session (the machine refuses it); `on_control` or `on_ready` callbacks that
raise; a transport whose `disconnect()` raises (both transports suppress errors).

### TcpTransport: correspondence

`writer` and `task` are `_writer` and `_reader_task`, named by the link they
belong to. `loop[k]` is the task of `_read_loop` for link k: reading, cancelled and
not yet run, or over. `closer[d]` is what a disconnect() took into its local
variables before it awaits. `sock` and `peer` are the two ends of a link. The
abstraction `Transport` keeps only who owns which link: `owned` is `writer`.

The caller is `Session`: start() connects a transport that is not connected,
close() may disconnect at any time, also during connect(), and be cancelled.

### Coordinator: correspondence

A connection is a record of its link, its transport's notify state, its machine's
state, what the device has subscribed and what is in the air. `current` is
`_session` and `_client`, which the code sets and clears together. `refresh` is
the program counter of `_async_connect`, `cleanups` the
`_async_after_disconnect` tasks, `ended` the callbacks bleak has scheduled with
`call_soon_threadsafe`, `success` `last_update_success`. Values are version
numbers, so that a stale one can be told from a fresh one. `BleTransport` is in
here: its `connected`, its `connect()` that reconnects a client whose link is gone
(`refresh` at "reopening"), and its notify state. Two histories tell what a property
must not be blamed for: `revived`, a link the transport opened again, and `late`, a
session begun after the unload had.

Assumed of Home Assistant: refreshes are serialised by the debouncer's lock, a
request made meanwhile is dropped, the watchdog runs a refresh every
minute until the entities are gone, `hass.async_create_task` runs a
task up to its first await at once, `DataUpdateCoordinator.async_shutdown`
stops refreshes. The model starts when the entry has been set up. Of bleak: the
disconnected callback comes for every link that ended, deliberately too. Of the
device: one central at a time.

A refresh that the watchdog started is a background task of the entry, which HA
cancels on unload; one requested after a disconnect or an advertisement is not.
The model does not cancel either.

### Entities: correspondence

The operators of `Entities`, `Cfx3Entities` and `FreshJetValues` are the properties
and commands of the entity classes; `Unknown` is `coordinator.value()` returning
None. In `FreshJet` `todo` holds the writes a service call still has to make (the
coordinator awaits between them), `up` and `down` the frames in flight, `data`
`coordinator.data`, which survives a reconnect; `unasked` what is left of the
subscriptions. The unit is external: it publishes what a SET changed, by the
captures some 400 ms later, and starts and stops its compressor. A behaviour uses
the climate or the light: the two share only the link. `want` and `light` are histories
of what was asked for last. A unit may set its dimmer to 100 when its light is switched
on, as light.py:34 has it, or leave it (`Applied`). `Suits` says which operating
states the unit can have in a mode: it does not heat to cool. What is asked for on a
link (`ClimateSubscriptions`, `LightSubscriptions`) is written out; that it is the
part of `FJZ7_SUBSCRIPTIONS` that matters is an assumption TLC evaluates.

### ConfigFlow: correspondence

`heard` is the advertisement HA last heard from an address (a name, service UUIDs
and company ids, any part of which may be missing, the name of a cooler as well: it comes
in a scan response), `flow` the step each flow is
at with the advertisement or the list it holds, `entry` the config entries. HA's
part (matchers, one discovery per unique id, `_abort_if_unique_id_configured`) is
external.

### AcConsole: correspondence

`session` is `self.session`, `connecting` `self._connecting`, `shown` the
`connected` flag of the last `push_state`, `protocol` the table topics are looked
up in, `client` `self.bleak_client`, `values` the connections whose updates
`self.values` holds. Each tab has one command under way; `task` says where it
awaits and on which connection: connect with or without bonding, disconnect,
write, subscribe, pair (by bleak, then by BlueZ), scan. A session is only its
link, its transport's notify state, its protocol and whether its machine is open,
READY or closed: what happens inside is `Session`'s, except the three awaits of
`Session.start()` during which other tabs act: the transport connects a lost client
again ("reopen"), enables notifications ("start"), and READY is awaited ("wait").
`DisconnectCmd` also stands for the `self.disconnect()` of `handle` after an unexpected
exception.

A tab may close, and so cancel its command, in any await; pair() may raise; and the
links of two devices may overlap while one tab still closes the first. `losses` are the
links whose end bleak has yet to report to `on_link_lost`, which comes when the loop
gets to it. `conn[c].enabled` is whether the device notifies, `notifying` what the
transport believes; they differ once the end of an old link is taken for the new one's.
Three histories hold what then went wrong, so that the properties can name it: `adrift`
(links that lost their owner), `untold` (a command was cut off before it told the tabs),
`struck` (the session was marked as not connected by mistake). The write permission
decides whether a write is refused, which changes nothing the model has, and is left out.

Assumed of bleak: a cancelled `client.connect()` leaves no link.

### Codecs and values: correspondence

Each operator is the function of its name. A result is `Done` or `Rejected`, the
`CodecError` or `FrameError`. Floats are exact. Those of DDM1 are hundredths, so that
`round(value * 10)` is round half to even of hundredths by ten (in floating point
it is the same over the whole range of an int16 of tenths). A number of DDM2 counts
`Grain`s of one, and `Grain` is a multiple of every factor, so that a whole step of a
scaled parameter is a whole number of grains. A text is its UTF-8
bytes, and reading one replaces malformed bytes by U+FFFD as Python's
`errors="replace"` does (`Utf8Text`). A `str` with lone surrogates, which no decode
returns, is left out.

A struct of DDM2 nests once, as in the dictionary; the code nests to any depth by
recursion. The operators on fields are therefore written once and applied twice, to
fields and to fields of fields, and `Ddm2Codec` needs no recursion: where a field begins
is the end of the one before it (`Ends`). `_decode_struct` walks an offset over the
fields and fails where bytes are missing or left; that it fails nowhere is one condition
on the length of the data (`Exact`). A parameter asked about is read in the type
it is written in. The others of the dictionary have no way back to be asked about: they
are only read or only written (`-`), or, 31 of 2464, take one type and answer with
another.

The properties are references of their own, over values and not over the operators:
near, cut at the first NUL, the same bytes. They are in `WireProbes` and are about the
answer to `probe`, the question that was asked; `MCCodecs` asks. `WellAsked` says which
questions make sense: a value of any type for any kind of DDM1 or any parameter of DDM2
with any struct (no two fields of a name, only the last of variable length), any bytes,
any frame, any table, any temperature in a range, whatever a cooler or a FreshJet may
publish.

Three oddities the properties name: a history sample that rounds to -3276.8 reads back as
None (`SameSample`); a bool written to a scaled DDM2 parameter is not scaled, and reads
back as one step or none (`SameScalar`); and U+FFFD takes three bytes for the one it
replaces, so that a text with malformed bytes can outgrow its field, or the fifteen
bytes of DDM1, and is refused when it is written back (`Ddm1WriteBack`, `Grown2`).
Nothing else that decode returns is refused.

## Runs

A property that several questions share is a conjunction of named parts, each
with its comment: `FramesAccounted` is `WireInOrder` and `NoSilentLoss`.

| run | question | result |
|---|---|---|
| `session_hostile` | any frame, drop, failed write or close() at any time, a raising error listener: `FramesAccounted` (order, and no loss unseen), `ClosedForGood`, `ImplementsOutbox`; start() and close() return (`CallsReturn`) and queued frames settle (`FramesSettle`) | pass |
| `session_close` | two API callers: close() leaves nothing behind (`ClosedIsClean`) and nothing is sent after it (`QuietAfterClose`) | pass |
| `cfx3_session` | HELLO before data and READY (`HelloFirst`), no ACK that was not earned (`AcksAreEarned`), handshake and subscriptions are answered (`CoolerAnswers`) | pass |
| `tcp_link` | no socket leaks (`NoOrphanSocket`), the contract is kept (`ImplementsTransport`), every link ends (`LinksEnd`) | pass |
| `coordinator_owner` | FreshJet, unload at any time, clients that come back: `SessionClosedOnce`, `ConnectedMeansSubscribed`, `OnlyCurrentSpeaks` | pass |
| `coordinator_cfx3` | CFX3, three faults, unload at any time, clients that come back: no link is left behind (`NoOrphanLink`), an unload ends whatever there was (`ShutdownEndsWhatWas`), and it recovers from any finite run of faults (`Recovers`) | pass |
| `freshjet` | at rest the entities show the unit (`ShowsTheUnit`), the last command won (`LastWordWins`, `LightObeys`), commands and display settle (`Settles`) | pass |
| `config_flow` | an entry has its device's protocol, but for a cooler confirmed by its bare address (`RightProtocol`), one offer at a time (`OneOffer`), entries are as shown and kept (`EntriesKept`) | pass |
| `console_tabs` | one connect and one closer at a time (`OneOwner`), no link without an owner (`NoOrphanLink`), table, values and client are one device's (`OneDevice`), every tab is told (`ShownIsTrue`), a connect ends (`ConnectEnds`) | pass |
| `codecs` | values survive the wire both ways (`Ddm1Faithful`, `Ddm2Faithful`), a frame reads as itself or not at all and a topic is one parameter's (`WireIsUnambiguous`), what is set of a cooler, a FreshJet or a dimmer comes back as set (`EntitiesObey`), the entities of both devices, the climate's mode and the light too, show what was published, and climate and compressor sensor contradict each other only where ac.operst contradicts the compressor (`EntitiesTell`), what the console shows of either can be sent back (`ConsoleWriteBack`) | pass |
| `session_race` | the link is down once start() and close() have both returned (`NoLinkAfterClose`), with close() during connect() | **violated**: it stays up |
| `coordinator_unload` | nothing is connected after an unload at any time (`ShutdownDisconnects`) | **violated**: a refresh that awaited its link goes on |

The violated runs are disagreements of the code with what it says of itself;
the findings in `PROJECT.json` quote both sides.

What the passing runs leave out on purpose, and what TLC says when a cfg is
changed to let it in:

* `session_close` with `BadErrorListener = TRUE` and `CloseDoesNotFail` added:
  violated. An `on_error` that raises ends the writer task; close() awaits the task,
  raises the same and leaves the link, although session.py:574 says of update
  listeners "a bad listener must not kill the session".
* `cfx3_session` with `Nudges = TRUE` (a ping() during the handshake, which
  session.py:501 allows): `HelloFirst` fails, its ACK is taken for HELLO's.
* `cfx3_session` with `Handshake <- DDM1_HANDSHAKE`, the default: `CoolerAnswers`
  fails. That handshake waits for a first ACK which, by the captures, a cooler does
  not send; the integration passes another handshake.
* `coordinator_cfx3` with `FlakyWrites = TRUE`: `Recovers` fails. A read-back that
  fails without taking the link with it leaves a CFX3's entity at the old value.

What the runs do let happen and the properties name as exceptions, each the code's own
doing and bounded by the property to just that case:

* `NoOrphanLink` and `ShutdownEndsWhatWas` of the coordinator: a stray link (`Stray`).
  A client that lost its link before its session starts is connected again by the
  transport (ble.py:89-95) while the disconnect handler closes the session. The second
  also leaves the session of a refresh the unload met: `coordinator_unload`.
* `LastWordWins`: `Misled`. A mode chosen right after "off" is decided from an `ac.on`
  that is not off yet, so the unit is not switched on (climate.py:223).
* `LightObeys`: `DimmerReset`, a unit that resets its dimmer when its light is switched
  on, after the brightness (light.py:58); and brightness 1 of 255, which is less than
  one percent, is written as 0 and shows as the lowest step.
* `RightProtocol`: a cooler whose name is missing is told from a FreshJet by the service
  UUID alone; with neither it is taken for one, because both carry the company id. The
  form then had the bare address for a title.
* `NoOrphanLink` and `ShownIsTrue` of the console: `adrift`, `untold`, `struck`, see
  above. `OneOwner`, `OneDevice` and `ConnectEnds` need no exception.
* `CoolerAnswers`: a SUBSCRIBE sent before the host's first ACK is lost on the cooler;
  that one is answered only if it is sent again.
* the codecs: text that grew when malformed bytes were replaced.

Seen while modelling and kept out of the properties: `ac.operst` is not repeated
on a new subscription, so after a reconnect it may be out of date; without it the
action shown in "auto" cannot tell heating from cooling (climate.py:195); `gw.dsn`
is read (coordinator.py:134) and never subscribed, so a FreshJet has no serial
number; a disconnect of one tab while another bonds leaves the later session
without its `bleak_client`.

### Bounds

* `Session`: `MaxRx` (notifications) and `MaxCalls` (API writes) let a handshake, a
  publish and an unexpected frame be under way at once with callers waiting for
  the lock; more of either only repeats states up to the histories. `MaxPings`
  lets the cooler ping before and after a publish.
* `TcpTransport`: two links, so that one ends while the next is opened, two callers
  of disconnect(), two lines per link.
* `Coordinator`: `MaxFaults` lets a link drop, the reconnect fail and the next one drop
  again; `MaxChanges` lets a write overlap a change; two topics let a setup fail
  between two subscriptions.
* `FreshJet`: two service calls, a drop and an act of the unit, so each can fall
  between the two writes of a command; one mode next to off and on; the brightness that
  is written as 0 and one in the middle.
* `ConfigFlow`: two flows over a device of each kind; nothing else is bounded, so
  flows and entries come and go for ever.
* `AcConsole`: two tabs and two connections (`MaxConns`), so that one tab opens the
  second link while the other still closes, bonds on or loses the first.
* Codecs: strings up to one byte more than 15, malformed ones with them; numbers at the ends of the ranges,
  one beyond them, and around zero with every tie; words of two bytes instead of
  four (`WordBytes`) and numbers in ten-thousandths (`Grain`), because TLC's integers
  have 32 bits; factors of 1, 10 and 1000; seven shapes of structs from the dictionary,
  with shorter strings.

The proofs need none of the bounds of their modules.

Systems that stop: a session ends with its close() and the bounds end the
others, so deadlock is not checked where the bounds end a behaviour; the liveness
properties say what must not stop.

### Fairness

asyncio runs every ready task, so each coroutine step is weakly fair; a transport
call returns or raises; timers fire; a cancelled task gets to run. Nothing obliges
a caller to call, a tab to send, a link to drop or a device to speak, except in
`Cfx3Session`, in `FreshJet` and for the handshake of `Coordinator`, where the
device is a working one. The watchdog of `Coordinator` makes `RefreshStart` fair.
`ConfigFlow` states none: users need not answer a form.

## Proofs

`Session_proofs`, for every set of callers, every handshake and every bound:

* `TypeCorrect`: `TypeOK`. The invariant `TypeInv` adds that the machine's step is
  within the handshake while it lasts and that queued numbers are places of
  `asked`.
* `MachineFramesInOrder`, `NothingIsLost`, together `EveryFrameAccounted`. Neither is
  inductive: that the next frame goes behind the ones on the wire needs that the
  queue is increasing, that the writer's frame precedes it and that both are
  behind everything sent, reported or discarded. `OrderInv` says that.
* `SessionImplementsOutbox`: every step of `Session` is a step of
  `OrderedOutbox` or a stutter, from `OrderInv`.
* `CloseCleansUp`, `NothingAfterClose`: `ClosedIsClean`, `QuietAfterClose`, assuming
  close() is not called during connect(); `session_race` shows why. `CleanInv`
  ties the writer's task to its handle and the callback to the phase of close().
* `ClosedIsFinal`: `ClosedForGood`, for every handshake with no assumption on who calls
  close() when. `MachineClosed` adds that a closed session's machine is closed, which
  is why every frame it still receives is only counted.

`Cfx3Session_proofs`, for every bound and any topics, values and callers:

* `Cfx3IsASession`: a session with a cooler is a session, so the theorems of
  `Session_proofs` hold of it.
* `NobodySpeaksBeforeHello`: `HelloFirst`. The session cannot tell one ACK from
  another, so what must be shown is that while it waits for HELLO's, no other is in
  the air. `HelloInv` does, by the step of the handshake: in the first, the machine
  has asked for its PING only and the cooler has said no more than it has heard
  (`AwaitsPingAck`); in the second that PING was heard, and nothing is under way
  until the cooler has HELLO (`AwaitsHelloAck`, `CoolerWaits`). It assumes the
  handshake the integration uses (`DDM1_HANDSHAKE_WITH_PING`) and `~Nudges`: TLC
  refutes it with a ping() during the handshake.
* `EveryAckIsEarned`: `AcksAreEarned`, with nudges too. `AckDebt` counts: ACKs asked
  for and earning frames still in the air are together no more than the cooler has
  sent; an ACK on the wire was asked for (`WireAcksAsked`), and once only, by
  `OrderInv`. It assumes that the handshake sends no ACK; `NoHandshakeAcks` says that
  none of the four does.

`TcpTransport_proofs`, for any number of links, lines and callers: `SocketsOwned`,
`NoticesAreDrops`, `ConnectedIsRead`, `TcpImplementsTransport`. The `finally` of a read
loop looks as if it could close the socket of a later link; the invariant says why
it cannot: a loop that was not cancelled is the one of `_writer` and `_reader_task`
(`LoopOwns`), and while a cancelled one has not ended there is no writer
(`CancelledAlone`).

`Coordinator_proofs`, for any number of parameters, writers, faults and changes and
both protocols:

* `TypeCorrect`, from `TypeInv`: whoever closes, sets up or writes has a connection.
* `OneCloser`, `ConnectedIsSubscribed`, `OnlyTheCurrentSpeaks` (whatever changes an
  entity's value is what the current session hears in that step), for an unload at any
  time and clients that come back, as everything here. `OwnerInv` is the inductive invariant. Its core is
  `RefreshAlone`: `_async_connect` clears `_session` before its first await and only
  it sets it, so that nobody has a session while it closes or opens a link; then
  only the current session's machine is open (`OneSpeaks`), a new link is nobody
  else's (`OpensItsOwn`, `UnusedIsFree`), and the subscriptions of a setup are those
  sent so far (`Subscribed`). Most steps are `Calm` and are treated at once.
* `NoLinkIsOrphaned` (`NoOrphanLink`), inductive together with `OwnerInv`, and
  `ShutdownIsFinal` (`ShutdownEndsWhatWas`), by `LateInv`: from the start of an unload
  on, a current session is one that began after it.

`AcConsole_proofs`, for any set of tabs and protocols and any number of connections:

* `TypeCorrect`, `OneTabOwns` (`OneOwner`), `OneDeviceShared` (`OneDevice`): wherever a
  tab closes and whatever bonding does, beyond what `console_tabs` lets happen. By
  `OwnerInv` there is no session while a connect closes the old one, opens a link or
  bonds (`_connecting` keeps other connects out, a disconnect only takes the session
  away), and the session is the one connection neither new nor closed.
* `NoLinkIsOrphaned` (`NoOrphanLink`): a command lets go of a link only when it is
  down, taken over, or adrift (`LinkKept`, `LinkTaken`).
* `TabsAreTold` (`ShownIsTrue`): by `ShownInv` what was last sent is the transport's
  view unless a command that may still tell is under way, and by `FlagInv` the
  transport's view is the device's, or `struck`.

`ConfigFlow_proofs`, for every set of devices and flows: `TypeCorrect`, `OfferedOnce`,
`ProtocolIsRight` (`RightProtocol` with its one exception), `DiscoveryIsExact` (the
manifest's matchers and classify() agree), `EntriesAreKept`. The invariant carries what
a flow holds: advertisements of its own device that classify() accepts.

`FreshJet_proofs`, for any callers, modes and brightnesses and any number of calls,
lost links and acts of the unit:

* `TypeCorrect`: `TypeOK`. `TypeInv` adds which parameters are whose: the frames in
  flight are of the entities in use, and what is set is never a running state.
* `AtRestTheUnitIsShown`: `ShowsTheUnit`. By `CatchingUp`, the last value in flight of a
  parameter, or the one shown if there is none (`Ends`), is the unit's, unless the
  parameter is still to be asked for. That the action shown is the unit's then
  follows from what `Suits` allows.
* `TheLastModeWins`: `LastWordWins`. By `WantLands` the writes a call
  has left, then those in flight, then the unit itself end (`Lands`) in what was asked.
  `TheLastLightWins`: `LightObeys` by the same argument (`LightLands`). Neither assumes
  anything of users or of the unit's dimmer: the exceptions are in the properties.

`WireProbes_proofs`, for every question that is `WellAsked`, as all of `codecs` are
(TLC agrees when it is added to that cfg):

* `Ddm1LosesNothing`: `Ddm1Faithful`, one lemma for each kind of value and direction.
  They rest on `Int16RoundTrip` and `Int16WriteBack` (two's complement in two bytes),
  `DeciRoundTrip` (whatever the range check accepts decodes to within half a tenth),
  `DeciWriteBack`, `SampleRoundTrip` (only the sentinel reads as None), and
  `TextRoundTrip`, for which the cut at the first NUL is the least of a set of
  numbers (`LeastNumber`). Bytes that were replaced are a text: every byte of what a text
  field reads as is in a complete character (`PiecesLie`, `ReplacedIsText`), so that it
  reads as itself when it comes again (`TextIsText`, `TextCut`).
* `Ddm2IsFaithful`: `Ddm2Faithful`, for words of two, three or four bytes, every factor that
  divides `Grain`, and every struct. From the inside out: a number of one to four bytes
  survives both ways (`PackUnpack`, `UnpackPack`), and a scaled one comes back within
  half a step (`ScalarWritten`, `ScalarRead`); parts that are joined lie where `Ends` says
  and are cut out again as they were (`PartsLie`), by induction over the number of parts,
  which the provers follow for a given set of numbers (`SetInduction`); so a field keeps its elements (`FieldWritten`, `FieldRead`) and a
  struct its fields, if its elements keep theirs (`FieldsWritten`, `FieldsRead`). Applied
  to fields that nest nothing and then to those that nest such, that is
  `StructIsFaithful`. `FieldsRead` says too that only text may come back in other
  bytes, and that what decode returns is encoded unless a text in it has grown
  (`NestGrown` for the texts of nested structs).
* `FramesAndTopics`: `WireIsUnambiguous`, for frames and tables of any length.
* `SettingsSurvive`: `EntitiesObey`. The ends of a cooler's range are whole tenths and
  those of a FreshJet whole degrees, and rounding to tenths or thousandths is
  monotonic, so a temperature in the range never leaves it; percent and brightness are
  inverse on 1 to 100.
* `ReadingsAreShown`: `EntitiesTell`. Every parameter an entity reads is subscribed to
  (`AllSubscribed`, `AllOfUnitSubscribed`), so it is what its bytes decode to, of a type
  the entity takes (`CoolerReadings`, `UnitReadings`); the range of a cooler may be
  empty and its levels any octet. That the climate of a FreshJet and its sensors agree
  but where ac.operst contradicts the compressor (`SensorsTellTheSame`) is a comparison
  of the two tables they decide by.
* `ConsoleKeepsValues`: `ConsoleWriteBack`, one lemma for each kind of value of DDM1
  (`ConsoleValues1`). Whatever form a value comes back in, it is either refused
  (`Refused`) or taken for a value as good as the one shown (`TakenFor`): one that
  encodes to bytes that read the same. For DDM2 (`ConsoleValues2`) a value that made the
  way through JSON is alike, level by level, from `LeafComesBack` to `MapComesBack`, and
  what reads the same follows from `Ddm2IsFaithful`.

What these assume of the constants: `WordBytes` is 2, 3 or 4, `Grain` a positive multiple
of 1000. The code has words of four bytes. A factor is any that divides `Grain`; the
dictionary has 1, 100, 1000 and 10000000, which divide a `Grain` of 10000000.

Model-checked only: liveness, which is out of the prover's reach: `CallsReturn`,
`FramesSettle`, `CoolerAnswers`, `LinksEnd`, `Recovers`, `Settles`, `ConnectEnds`.

## Plan

Done, in this order: the session and its outbox, the cooler, the coordinator, the
codecs, the console; then the TCP transport and its contract, the entities, the
config flow, the console's remaining commands and its values, and the proofs of
transport, coordinator, config flow and console; then the proofs of the cooler, of
the FreshJet and its entities, of DDM1 with its entities and its console, frames and
settings, and last of DDM2 with its structs, its entities and its console.

Left: every invariant and action property of the passing runs has its theorem. What
would add most is below: the console's replay of its log and the write modes of
`BleTransport`.

## Not modelled

* Texts: device_info, diagnostics, logging, the console's frame log. When a new tab
  opens, the log is replayed to it; a frame that arrives meanwhile is sent twice.
* `BleTransport` write modes and MTU; the rest of it is in `Coordinator`.
* The console's HTTP handlers, its last scan result, its command-line options and
  its web page.
* Release and sync scripts, the ESPHome configuration, and the vendored copy of
  pyddm: a byte copy kept in sync by a test, so that the model of pyddm is its model.
