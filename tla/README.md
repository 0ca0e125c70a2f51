# Verification of the BLE adapter

The program (`src/`) runs on an nRF52 board under mbed OS. It alternates between
scanning for beacons and time servers and advertising itself to a gateway; it
connects to what its scans find, enables and polls the sensors of a beacon, sets
its clock from a time server, logs the readings in files of an SD card, and
serves these files to the gateway. Everything the program prints goes through
SEGGER RTT to a debugger.

This directory holds TLA+ modules of its core, TLC configurations for small
instances of them, and theorems that the TLA+ proof system checks.

    tlc -workers 2 -config modes_alternate.cfg BLEAdvScan   # a run
    tlapm BLEAdvScanProofs.tla                             # the proofs of a module

`PROJECT.json` lists the components, the runs, for every property a mutant of
the model that breaks it, for every definition the source lines it models, the
findings, the hazards and the theorems.

## Inventory

| component | state | operations | model |
|---|---|---|---|
| `BLEAdvScanProcess` | mode, timer and blinking identifiers, LEDs | `start`, mode cycle, Gap handlers | `BLEAdvScan` |
| `GattClientProcess` | `_gattClient`, map of devices by connection handle | discovery, commands, polling, `setRTC`, `stop_service_discovery` | `GattClient`, `SensorPolling` |
| `events::EventQueue` (mbed, external) | pending events in bounded memory | `call`, `call_in`, `call_every`, `cancel`, `dispatch` | `EventQueue` |
| BLE stack (mbed, external) | radio, links, one GATT procedure per link | Gap events, client procedures | in the two modules above |
| `SDcardProcess` | `_ready_to_write`, file system | `init_sd_card`, `record_beacon`, `reformat_sd_card` | `SensorLog`, `LogService` |
| `EnviromentSensingServer` | files found, offsets | `start`, `when_data_read_by_client` | `SensorLog`, `LogService` |
| SEGGER RTT (vendored) | ring buffers shared with the debugger, the active terminal | `SEGGER_RTT_printf`, `SEGGER_RTT_Write`, `SEGGER_RTT_PutChar`, `SEGGER_RTT_SetTerminal`, `SEGGER_RTT_TerminalOut` | `RttUpBuffer`, `RttStream`, `RttFormat` |
| `main` | none of its own | constructs and connects the components | the initial states, the phases of `SensorLog` |
| `MeasurementProcess`, `LDR` | | not instantiated | no |
| `TimeSyncProcess`, `AckService.h`, `CurrentTimeService.h`, `TESTS` | | empty, unused, placeholders | no |

How they interact. There is one thread. `main` creates an event queue, gives it
to every component and dispatches it for ever. What a component does is a
callback of that queue, or a handler that the BLE stack calls from
`BLE::processEvents`, itself a callback of the queue. The interrupts of the
radio and of the erase button only post events, at any moment. So each callback
runs to its end, and what is hard lies between callbacks: a handler posts what
another handler's post has already overtaken, cancels by an identifier that may
be stale, or keeps a pointer, a handle or a copy of a structure for an event
that runs later. `BLEAdvScanProcess` calls the client's
`start_service_discovery` from `onConnectionComplete`; the client calls
`SDcardProcess::record_beacon` directly at the end of each round of readings;
the file server opens the files that `record_beacon` appends to and that
`reformat_sd_card` erases.

What makes each component correct:

* the mode process goes on alternating, whatever connections begin and end; it
  scans or advertises but not both; what it starts for a connection (the
  blinking LED) ends with it;
* the client keeps to the three slots of a device, knows each slot by its type,
  enables a sensor before it reads it, has one read under way per connection,
  and logs each reading for the peer and the characteristic it came from;
* the log keeps its lines whole and in order, a client that reads a file gets
  its bytes in order, and the server finds no more files than it has room for;
* what is printed reaches the debugger in order and whole, or as the mode says
  not at all, on the terminal it is meant for; a call waits for the debugger in
  blocking mode only; a number is printed as its format says.

## Modules

* `EventQueue.tla`: operators on a queue, a sequence of events in the order of
  their dispatch. The head is the event whose callback runs; it keeps its memory
  until the callback returns (`Retire`). A post without memory returns the
  identifier 0 and does nothing. Identifiers are recycled, but never while a
  variable of a caller still holds them: the library's generation counter makes
  that a matter of 2^24 or more reuses. An identifier that was never assigned
  (`UNINIT_ID`) names any pending event or none.
* `BLEAdvScan.tla`: `BLEAdvScanProcess` with the radio. One action per callback,
  named as in the source; `Handlers` are those that `processEvents` calls, one
  per event of the stack, so that the radio can act between two of them.
  `radio` is what the controller does, `stack` the events it has raised,
  `budget` how many more it may raise.
* `GattClient.tla`: `GattClientProcess` with the links and their procedures. A
  reading is the peer and the attribute handle it was taken from, and `rx` is
  what the receive buffer of the stack holds. The union in `Device_t` is
  modelled: `time_value_handle` is the type of the first sensor slot (enums are
  one byte in this build, and attribute handles are below 256).
* `SensorPolling.tla`: what the client promises for its beacons while nothing
  fails: it discovers the sensors of a peer (`Discover`), enables them, asks one
  at a time, in turn, none before it was enabled, and hands a round over when
  the last has answered (`Take`). Nothing in it is a queue, a callback or a
  copy of a device. `Polling` in `GattClient` is the refinement: `table` is read
  from the slots of a device and its links, `enabled` and `asked` from the links
  too, `turn` from the read in the queue or under way. A turn of 0 is the post
  that a full queue has dropped, after which the code polls no more.
* `MCGattClient.tla`: the peers of the runs. `hybrid` is both a beacon and a
  time server, in an order of its attributes that makes the union bite.
* `SensorLog.tla`: `SDcardProcess` and `EnviromentSensingServer` over one file
  system. A file is the sequence of its lines, a line the round it was written
  in; `file_buff` holds the files that are served with their offsets, `value`
  the lines in each characteristic. The callbacks come in any order, as a round,
  a press of the button and a read of the gateway do. Lines and not bytes are
  the unit of offsets and chunks. A characteristic has a fixed length
  (`FileTransferCharacteristic.h`): a chunk that does not fill it leaves the
  lines of earlier chunks behind it (`Overwritten`), cells that were never
  written are 0, and a read returns all of it. The gateway is taken to
  tell old lines from new ones, and counts such a value as far as the last line
  it did not have yet (`Deliver`). The program gives it no means to: a line holds
  readings only, and the length of a value says nothing. So what is proved of
  order and repetition is of what the server offers; a gateway that takes every
  value whole gets the lines behind a short chunk twice. The error of
  `_gattServer->write` is not used, so a chunk whose write fails is passed over
  (`WriteChunk`): `missed` remembers it, and such failures are not bounded.
  Operations of the file system fail, at most `MAX_FAULTS` times. The power goes
  between two callbacks, or between the files of one round (`HalfRound`); the
  file system, which is not in the repository, is taken to update a file when it
  is closed, so that no line is cut. `delivered`, `missed`, `hasty` and `erased`
  are history. `failed` says why nothing is known of what follows: a NULL file
  was used, or an array was left.
* `LogService.tla`: what the two promise together, without card, offsets, chunks
  that wait and handlers. A round is one line more in files of its beacon
  (`Round`); a service finds every file of the log once (`Open`), gives of each
  the lines that follow those given, at most a chunk at a time (`Read`), skips a
  chunk that cannot be written (`Skip`), and ends, the log being erased or not,
  or a round being cut short (`Close`). `Service` in `SensorLog` is the
  refinement. A service counts until the card is erased or the gateway reads a
  file ahead of the handler, for a chunk that is fetched twice, or whose file is
  gone, is promised by nobody.
* `MCSensorLog.tla`: the types of the slots of the beacons.
* `RttStream.tla`: what an up-buffer promises, a stream of bounded capacity that
  may lose characters before they enter it and never afterwards.
* `RttUpBuffer.tla`: the up-buffer and what writes to it. For a printf, the
  program collects characters in a buffer on the stack (`StoreChar`), decides
  what to store of them (`SEGGER_RTT_WriteNoLock`), copies them to the ring in
  one or more pieces and then publishes its offset. A printf whose full buffer
  was not stored ends, but may write that buffer once more before it does
  (`WriteAgain`): the spaces behind a left-justified number are still stored.
  The modes are the three that `SEGGER_RTT.h` names; `SetFlagsUpBuffer` takes
  any number, and what other numbers do is not modelled. The debugger reads the
  memory of the board while the processor runs: it looks at the offset, copies,
  publishes its own. Each of these is a step, so that the two interleave at
  every access they share. `SEGGER_RTT_PutChar` waits for space before it stores
  its character, where the mode says so. `SEGGER_RTT_SetTerminal` and
  `SEGGER_RTT_TerminalOut` write two characters that switch the debugger to
  another terminal, the latter the switch, the text and the switch back as three
  pieces. A character is its place in the write it belongs to, with the mode and
  the terminal of that write. `Stream` is the refinement: what is in transit are
  the characters between the offsets, less those the debugger has copied
  already. The calls come in any order and at any moment, so that the module
  stands for every program that prints.
* `RttFormat.tla`: the number formats, as operators. `PrintUnsigned` and
  `PrintInt` follow the loops of the code, with products that wrap around;
  `Justified` and `Numeral` are what the description of `SEGGER_RTT_printf`
  says of flags, field width and precision.
* `MCRttUpBuffer.tla`: both of them for the model checker.
* `EventQueueProofs`, `BLEAdvScanProofs`, `GattClientProofs`,
  `GattClientReadProofs`, `GattClientRecordProofs`, `SensorLogProofs`,
  `RttUpBufferProofs`, `RttStreamProofs`: the theorems.

What is assumed of the libraries. The stack refuses to connect while another
connection is being initiated, and raises "advertising end" only when a central
connects (the advertising has no duration). A scan has no duration either, so
`onScanTimeout` is never called. The stack carries out one GATT procedure per
connection; a read on a busy or lost link returns an error, a link that is lost
ends a discovery and reports an error to a read. It reuses the connection handle
of a lost link. The functions registered with `on_init` touch nothing of the
mode process. Errors of setting parameters or of `setPreferredPhys` are printed
and ignored by the code; those of `stopScan` and `stopAdvertising` are not
looked at, and when one of them fails the radio goes on as it was (`StopMode`).
For the file server, the stack either answers a read before it calls
`when_data_read_by_client` or after (`answers_first`): the mbed sources are not
in the repository, so both are behaviours. A read returns the whole value:
whether a long value takes several reads, and whether each of them calls the
handler, is the library's. A debugger that reads the ring never moves its offset
past the program's. The order in which the code stores characters and offset is
taken as written, although `WrOff` is not volatile.

## Runs

| run | bounds | shows |
|---|---|---|
| `modes_alternate` | 6 events, 2 radio events, 1 link, failing calls (those that stop the radio included), fair | types; the mode cycle is not cut; none of the adapter's posts is dropped until the radio has raised two events; if none is dropped, modes alternate, overlaps end once the stops succeed, forks of the cycle end |
| `client_polls` | 3 peers at once, 6 events, no faults, fair | one chain of reads per link, commands before reads, attributed records; the client implements `SensorPolling`; polling goes on |
| `client_faults` | 2 peers, 2 handles, 3 connections, 3 events | sensor tables and records under failures and reused handles |
| `log_served` | 1 beacon with 2 files, 3 rounds of lines, chunks of 2 lines, 2 unhandled reads, 1 each of erasures, restarts and faults of the file system, any number of failed writes of a characteristic, fair | files are served from the beginning, in order and in the end completely, but for the chunks whose write failed, although a characteristic keeps old lines; the log only grows, over rounds cut short too; log and server implement `LogService` |
| `rtt_stream` | ring of 6, printf buffer of 2, printfs of up to 3 characters, 2 terminals, texts of 1 character, 3 writes, 1 change of mode, fair; words of 8 bits, field widths up to 5, precisions up to 3 | the ring implements a lossy stream, keeps writes whole as the mode says, shows each text on its terminal, waits in blocking mode only, and calls end; numbers are printed as documented |
| `modes_overlap` | no failing calls | finding: scanning while advertising |
| `blink_leak` | 4 radio events | finding: blinking survives the last disconnection |
| `stale_device` | 1 handle, 2 connections | finding: a device is kept for another peer |
| `null_client` | 2 peers | finding: calls through a cleared `_gattClient` |
| `clock_mixup` | 2 peers | finding: the clock set from another packet |
| `log_erased` | 1 round, 1 erasure, 1 restart, no faults | finding: a served file that is gone is read through NULL |
| `log_overrun` | arrays of 2, 2 beacons with 3 files, 2 rounds, 1 restart | finding: more files than the arrays of the server hold |

Why these bounds. Every interference between the mode cycle and the radio needs
a connection and its end, or a report and a connection: two radio events, placed
anywhere in two or more periods of the cycle, which repeats by itself without
bound. More of them matter to the two safety properties only, and these are
proved for any number. The durations (2 ticks against 1) keep the order of the
source's (10 s modes, gaps and blinking of 500 ms) and let an event fall into a
mode, into a gap and between `mode_start` and what it deferred. With a queue of
six events `modes_alternate` has behaviours that fill it and drop a post, and
many more that do not: `Uninterrupted`, the premise of its liveness properties,
separates them. Six slots are just enough for one radio event, and not for two,
so that `LossNeedsRadio` says here that none is lost before the second one, over
all modes, failures and cancellations by an unassigned identifier; the theorem
says it of every size. For the client, a third peer adds nothing that two do not
show, save for the interleaving of chains, which `client_polls` checks with
three. In `client_faults` three connections over two handles make one handle
serve two peers. Three rounds are more than a chunk of `log_served` holds, so
that a file is read over two chunks, the second one short, so that it leaves a
line of the first behind it, and appended to in between. In `log_overrun` three
files stand for the eleven that exceed ten. In `rtt_stream` a ring of six has
room for exactly one `SEGGER_RTT_TerminalOut` of one character, so that one more
character in the ring makes it skip or trim its text, and writes of one, two and
five characters meet the end of the ring exactly and go around it; a printf
takes two writes. For the numbers, words of 8 bits have values of one to three
digits in both bases, and widths and precisions go beyond them.

`CHECK_DEADLOCK FALSE` is set where the system may stop: when `ble.init` fails
(`modes_alternate`), when the client has been stopped or has called through a
null pointer and no connection is left (`client_faults`), when the file server
has used a NULL file or left its arrays (`log_served`, `log_erased`,
`log_overrun`), and when the writes of the
bound are done and read (`rtt_stream`).

Fairness. `dispatch()` runs due events without end, and the queue's clock goes
on: weak fairness of `Dispatch` and of `Tick`. Nothing is assumed of the radio.
In the client, the stack's procedures end as well: the ATT protocol ends every
request with a response or a timeout. In `log_served` the program starts and
handles what is posted, and the gateway reads every file again and again: strong
fairness, because a read is refused while `MAX_UNHANDLED` others wait for their
handler. In `rtt_stream` a call that has begun runs on and the debugger polls;
nothing says when the program prints.

## Findings

1. `mode_start` defers `scan()`; a `mode_end` that a connection posted earlier
   runs in between and stops nothing. The scan then begins in the gap and lasts
   through the advertising mode (`modes_overlap`). `OverlapEnds` shows that an
   overlap, this one or that of a stop that failed, ends with a later mode whose
   stop succeeds.
2. Every report of a target starts another periodic blinking event;
   a disconnection cancels the last only (`blink_leak`). The others stay in the
   queue for ever, and when it is full the mode cycle's own posts are dropped.
3. A connection that reuses a handle inherits the device of the former peer
   (`stale_device`).
4. After one failed call the client is cleared while others use it
   (`null_client`).
5. `setRTC` reads the stack's buffer after the callback that owned it
   (`clock_mixup`).
6. The characteristics of the file server outlive their files: after the erase
   button, a read of one uses the NULL that `fopen` returned (`log_erased`).
7. The scan for log files tests the number of elements of its arrays against the
   index of the sensor type, not against the number of files found: six beacons
   with two sensors are enough to write behind both arrays (`log_overrun`).

## Proofs

Proved for every queue size, duration, set of peers and handles, profile, number
of radio events, of files, lines and faults, and size of rings, buffers, chunks
and writes, from the named assumptions on the constants:

* `EventQueueProofs`: the lemmas on the queue. A post, a cancellation, a
  retirement and a tick keep a queue of events within its memory; what is
  pending stays pending under each, with the exceptions that the names say; an
  identifier that a post returns is that of the event posted.
* `TypeCorrect` (`BLEAdvScanProofs`): the types of the mode process.
* `ModeCycleNeverCut`: `ModeChainAlive`. It is not inductive: a cancellation
  by an unassigned identifier, or one that has become stale, could remove the
  last continuation. The argument is that each action that cancels posts a
  continuation itself (`mode_end` a `mode_start`, `onDisconnectionComplete` a
  `mode_end`), so that the pending one it may have removed is replaced, unless
  that post is dropped, which `lost` records; and that the other actions cancel
  nothing and retire no continuation but the one they run, `mode_start`, which
  posts the next. The proof uses the type invariant for the events.
* `LossTakesRadio`: `LossNeedsRadio`. The posts of the mode process are
  unchecked, so one asks how many slots it can take. Connections fork the mode
  cycle, a cancellation may remove nothing or something else, a scan that fails
  starts nothing, and blinking events leak; still each event of the radio takes
  the room of three events at most, and the adapter itself of three. TLC found
  no smaller bound: with 0, 1, 2 and 3 radio events the least queues that lose
  nothing have 3, 6, 9 and 12 slots. No bound on the length is inductive:
  `mode_start` takes two slots for one. `Held` counts instead what is queued by
  kind. Of what blinks and what moves the cycle on, each has at most one event
  in the queue or the stack for every event paid for (`Paid`: the start of the
  adapter and the events of the radio). What runs at once (`processEvents`,
  `scan`, `advertise`) has no such account of its own: a move that runs posts
  one and is replaced by another move, so that one after another is posted.
  `Balanced` is the key: behind any cut of the queue, what runs at once, and
  what moves on in front of the cut, are together at most what is paid for. A
  move that has run is no longer in front of any cut, which makes room for the
  `scan` or `advertise` it posts. This holds only as the queue is in order and
  what runs at once is not waited for (`Kept`), so that a post goes behind all
  of them. `Begun` says that the stack comes up first and once, before the radio
  does anything. `EventQueueProofs` has the lemmas that count the events of a
  kind behind a place, over posts, cancellations and retirements.
* `SensorTableHolds` (`GattClientProofs`): `SensorTable`, under failing calls,
  lost links and reused handles. Its inductive invariant adds the types of the
  devices and of the links, and that a discovery under way delivers a rest of
  the characteristics of a peer's profile; it needs neither the event queue
  nor the tenants of a handle. The heart is `StoreSensorTable`: as the types of
  sensors in use are distinct and there are two of them, a new slot is at most
  the third, even where the first slot's type was overwritten through the
  union.
* `TypeCorrect` (`GattClientProofs`): the types of the client, under the same
  failures. `TypeInv` adds to `SensorTableInv` that every event in the queue is
  one that the client posts, with the arguments of its callback (the copy of the
  device that goes with a command is one whose sensor table holds), and that
  every link has its device in the map.
* `OneReadPerLinkHolds`, `ReadsFollowCommandsHold` and `RecordsAreAttributed`
  (`GattClientReadProofs`): the properties of `client_polls`, for any number of
  peers and any size of the queue. They are proved under two named conditions,
  which that run meets. `Reliable`: no call fails and no link is lost; else the
  client is stopped, or a handle is reused. `SimplePeers`: the attribute handles
  of a peer are distinct, a peer is not both time server and beacon, and a
  sensor that has a configuration has data; else two slots match one reading,
  the union overlays a slot, or a slot has no data handle. None of the three is
  inductive. `ChainInv` says for each connection (`Chain`) that its device is
  what discovery has made of the characteristics so far (`Tracks`, by which
  every slot of a beacon has a data handle of its own once discovery has ended),
  that its events and its procedure are of one chain, that the read in the queue
  has its command before it or already written, and that the slots before the
  one to be read hold readings of this peer. The command and the read are
  separate posts: that the read cannot overtake needs the queue to be sorted by
  the time left (`PollingStarts`), and that a dropped post drops the later one.
  Steps of other connections insert and remove events, which `SameEvents` shows
  to keep the order of one's own.
* `PollingIsImplemented` (`GattClientReadProofs`): under the same two conditions
  the client implements `SensorPolling`. `start_service_discovery` is `Connect`;
  the end of the discovery of a beacon is `Discover`, that of a time server
  stutters; `send_command_to_beacon` is `Enable`, `read_data_from_handle` is
  `Ask`, `when_char_data_read` is `Take`, and all else stutters. `ChainInv`
  knows the place of a read in its chain, and that a round handed over holds a
  reading for every slot; that what is handed over is the abstract round follows
  slot by slot. `PollInv` adds what it does not say: a peer has one connection
  at a time, and a command was sent on a link only after its beacon's sensors
  were found. So a connection whose discovery ends is not yet among the
  `enabled`. The turn is looked up in the queue (`NextIn`), so the proof needs
  that a step of another connection, or a tick, leaves the events of this one as
  they are.
* `RecordsAttributedWhateverFails` (`GattClientRecordProofs`):
  `RecordsAttributed` without `Reliable` and `SimplePeers`. Calls may fail,
  links may be lost at any moment and come back on the same handle or another,
  and a handle may be given to other peers. Then `ChainInv` is lost: reads
  posted for a link that is gone are still queued when the same peer is back, so
  that several chains run on one device, and a discovery that was cut short
  leaves a device to which the next one adds slots. `OwnersInv` says what
  remains of a handle given to one peer alone (`OwnedBy`): its device was made
  of that peer's characteristics (`MadeOf`), and every read queued or under way
  for it is of a slot whose predecessors hold readings of their own data
  handles, or of no handle at all (`InOrder`). Every step keeps what a device
  has (`Keeps`), so that a stale read is still in order, and the last slot is
  read only when all are filled. The record stays complete when its peer
  connects elsewhere, because `RecordsAttributed` no longer speaks of it then.
  The one condition is `RegularPeers`: the attribute handles of a peer are
  distinct, which ATT requires, and it has at most one data characteristic of a
  sensor type. With two, each discovery replaces the data handle of a slot that
  may have been read by the other. All peers of the runs meet it, those included
  that are beacon and time server at once.
* `TypeCorrect`, `ServedInOrderHolds` and `LogOnlyGrowsHolds`
  (`SensorLogProofs`): the types of log and file server, `ServedInOrder` and
  `LogOnlyGrows`. `ServedInOrder` says what the gateway was given and what it
  missed (`InOrder`); it is not inductive, because it says nothing of the
  characteristic or of where the next chunk begins. The invariant adds that a
  characteristic holds, from its front on, the lines of the log between those
  passed and the offset, and behind them only cells that were never written or
  lines the gateway has (`Holds`); that nothing lies between the two while a
  read waits for its handler or the handler runs first (`AtOffset`); and that no
  two reads of one file wait for their handler unless the gateway was `hasty`.
  The lines of a file rise (`Written`), so that what a short chunk left behind
  it is told from new lines. A file that grows keeps its prefixes, and one that
  is erased is known to `erased`.
* `ServiceIsImplemented` (`SensorLogProofs`): the refinement of `LogService`.
  `record_beacon` is `Round`, whichever of its files it could open; `start` is
  `Open`; `GatewayReads` is `Read`, of the lines the handler put into the
  characteristic at the read before, or of none; an erasure, a restart, with a
  part of a round or without, and a hasty read are `Close`; the handler, which
  moves offsets and rewrites the characteristic, is `Skip` when its write fails;
  else it stutters, as does all the rest. When the handler runs before the
  answer, the two are one step: if its write fails, the value is old, the
  gateway gets nothing new, and the step is `Skip`. The lines of a read follow
  those passed because `Holds` says where both end.
* What five of the findings need to occur, so that one knows when the code is
  safe from them. `ServedFilesOpenUndisturbed` (`SensorLogProofs`): without an
  erasure and without a failing operation every file that is served can be
  opened, over all rounds and restarts (`OpenInv`: it is there, and the card is
  mounted). `FilesFitWhenThereIsRoom`: the scan stays within the arrays as long
  as the beacons cannot leave more files than these have elements; ten are
  enough for five beacons with two sensors. `AddressStoredUnlessReused`
  (`GattClientRecordProofs`): the map holds the address of the linked peer,
  under all failures, as long as no handle was given to two peers; it follows
  from `OwnersInv`. `OneModeUnlessOvertaken` (`BLEAdvScanProofs`): the modes do
  not overlap as long as no `mode_end` runs before the `scan` or `advertise` of
  its mode (`NoneOvertaken`), and `stopScan` and `stopAdvertising` do what they
  are asked (`StopsSucceed`); `OneMode` says that what is deferred is of the
  current mode, however many continuations there are. `BlinkStopsWhenAlone`: a
  disconnection stops the blinking as long as no target is reported during an
  earlier blinking (`OneBlinkAtATime`). `OneBlink` says that the only blinking
  event bears the identifier kept and no other event does, although that one is
  unassigned at first, is never cleared, may be given to no event when the queue
  is full, and is cancelled again and again: a post never gets an identifier
  that is still kept. The last two theorems are conditional on the behaviour,
  and the runs of the findings break the condition. For `null_client` and
  `clock_mixup` there is no such theorem: a condition that keeps the code safe
  from them comes close to excluding the error, or a second connection,
  altogether.
* `TypeCorrect` and `NeverWaits` (`RttUpBufferProofs`): the types of the ring,
  its writers and its reader, and `WaitsOnlyWhenBlocking`. The invariant
  `RingInv` bounds every offset and says that the debugger never passes the
  program, that one element stays free, so that a full ring is told from an
  empty one, and that a write that does not wait found room for all that it has
  still to copy. The debugger only makes more room, which is why the program may
  use an offset of it that is out of date.
* `WritesWhole` and `RingImplementsStream` (`RttStreamProofs`):
  `WritesStayWhole` and the refinement of `RttStream`. The argument is one
  sequence, `Whole`: what the debugger has received, what the ring holds from
  there on, published or only copied, and what the write under way has still to
  copy. A copy, a publication, a read and a move of the debugger's offset change
  where its parts meet and never the sequence, so that only the start of a write
  extends it, whole or by what the mode says. `StreamInv` says that it is
  regular (each character but the last of all is followed by its successor, or
  by the first of a later write) and that its last write is the one under way.
  For the refinement, `Publish` puts what was copied into the stream,
  `HostCopies` gets it, and every other step stutters: in particular no copy of
  the program touches an element the debugger has yet to read.
* `EachTerminalItsTextHolds` (`RttStreamProofs`): `EachTerminalItsText`. What
  the debugger has received says nothing of what is still to be copied, so the
  invariant `TerminalInv` speaks of `Whole`: every text in it comes when its
  terminal is shown, an identifier comes behind an escape character only, the
  terminal shown at its end is `ActiveTerminal`, and what a printf has collected
  is text for that terminal. A switch is written whole or not at all, and
  `ActiveTerminal` follows it only in the first case; `SEGGER_RTT_TerminalOut`
  leaves in `Whole` its switch, the part of the text that fits and the switch
  back, which is why the room for the two switches must have been set aside.

Every safety property of the passing runs but the number formats is a theorem.
Only model-checked: liveness (`ModesAlternate`, `OverlapEnds`,
`CycleStabilises`, `PollingGoesOn`, `EverythingServed`, `CallsEnd`), which is
out of the prover's reach; and the number formats (`NumbersPrinted`), which are
recursive over the digits: what they compute for every number needs an induction
over data.

## Not modelled

`SEGGER_RTT` beyond the operations above (down-buffers, the overwriting and
skipping writes, allocation of buffers): nothing in the program calls it.
Nothing calls single characters and terminals either, but they share the ring,
its modes and `_WriteBlocking` with printf. `SEGGER_RTT_WriteSkipNoLock` is
compiled from assembly on this processor. In `RttUpBuffer` a text holds no
character 0xFF, which the debugger would take for a switch, and the mode changes
only between calls. The conversions `c`, `s` and `p` of a printf are not told
apart from its text. The environment service, whose values nothing updates. The
bytes of readings and lines, with the conversion of light to lux. The bindings
of callbacks in `main` beyond the calls of the actions. `MeasurementProcess` and
the rest of the inventory's last two lines are not part of the running program.

The composition of the components is not a module of its own. They meet at three
calls: `start_service_discovery` from `onConnectionComplete`, `record_beacon` at
the end of a round, and the post of `reformat_sd_card`. In each module the
callers of these may call at any moment the other side could. What a module
shows does not all hold of the composition, because the components share one
queue: the events of the client, of the erase button and of `processEvents` take
memory that the mode process has to itself in `BLEAdvScan`. Properties that
speak of a queue that dropped nothing (`lost`, `Uninterrupted`) hold wherever
the drop came from, but `LossNeedsRadio` is of the mode process alone: its three
slots per radio event come on top of what the others hold. The blinking
identifier that is unassigned at first may also name an event of another
component, which is then cancelled; the other modules have no such cancellation.
A module that runs mode cycle, client and log together has more states than a
run can visit even with one beacon.

## Plan

1. Done: `EventQueue`, `BLEAdvScan`, `GattClient`, `SensorLog`, `RttUpBuffer`
   with `RttStream` and `RttFormat`, their runs, and the theorems above.
2. Done: the refinements of `SensorPolling` and `LogService`, and the conditions
   under which each finding does not occur.
3. Done: the demand of the mode process alone on the event queue.
4. Left: the demand on the shared queue of the client and of the log, whose
   events are not bounded by radio events; a composition of the modules, should
   a bound be found under which it can be run.
