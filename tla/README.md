# TLA+ models of esp32c6-sniffer

The sniffer is a board (an ESP32-C6 with three radios that share one 2.4 GHz
front end, `firmware/main`) and a host library (`host/src/esp32c6_sniffer`)
joined by a USB serial port; `extcap/` puts the library behind Wireshark. This
directory holds TLA+ models of the parts of it that are hard to test, the TLC
runs that check them, and theorems about them with proofs for TLAPS.

    tlc -workers 2 -config MCUsbLink.cfg MCUsbLink      # a run
    tlapm UsbLinkProofs.tla                             # a proof module

`PROJECT.json` lists the components, the runs, the code each definition stands
for, the hazards and the properties aimed at them, the mutants that show what
each property would catch, and the theorems.

## 1. The system

| Component | State | Operations | Talks to |
|---|---|---|---|
| Radios (`radio154.c`, `radio80211.c`, `radio_ble.c`) | `s_running`, a receive queue each, counters, the RTC flag `s_dirty_flag`, whether the Wi-Fi driver and the BLE controller are up | start, stop, retune, scan, energy detect, hand back, service | driver interrupts put packets on the queue, `rx_task` sends them through the link |
| USB link (`usb_link.c`) | `s_send_lock`, `s_seq`, a byte ring, counters | `link_send` from any task, `tx_task` | every task above it, the USB driver below |
| Control (`control.c`, `main.c:on_command`) | a 512-byte buffer, `s_radio`, settings | parse, dispatch, reply | host commands in, radios and link out |
| Main loop (`main.c`) | `s_power_cycle_requested` | boot, hand back, power cycle, service Wi-Fi, send statistics | radios, link |
| Capture session (`capture.py`) | parser, tracker, `_deferred`, pending requests, `_check`, statistics | open, `records()`, commands, `request_*`, close | the port; other threads leave requests |
| Recovery (`recovery.py`) | none of its own | ask, hand back, power-cycle around a session | its own short-lived ports |
| Parser and framing (`parser.py`, `framing.py`) | buffer, counters | feed, force_resync | the session |
| Formats and analysis (`tap`, `radiotap`, `ble`, `adv`, `ble_keys`, `thread`, ...) | none, or a cache | pure functions | the session and the extcap |
| extcap (`extcap/esp32c6-sniffer.py`) | threads around one session | run a capture, toolbar, hop, heartbeat | Wireshark's pipes |

What is hard, and what makes each part correct:

* **The link.** Several tasks share a mutex and a counter, a full ring refuses,
  the transmitter may wedge with nobody reading, and the host must decide from
  numbers and counters copied at different moments whether it lost anything.
  Correct: numbers never go back, a gap is exactly a missing frame, each loss
  is counted once, "lossless" is true, no sender waits for ever.
* **The front end.** Two tasks start and stop radios with no lock between
  them, calls fail half way, and opening the port resets the chip while the
  front end stays held. Correct: held implies flagged, a boot cures, an idle
  board holds nothing, one radio at a time.
* **The capture loop.** One thread owns the port, others leave requests, a
  reply may be lost, a read ends anywhere. Correct: nothing is lost, doubled
  or reordered on the host, Check keys and the capture never get each other's
  packets, the lists are put back, every check has one result, a stop ends.
* **Opening a session.** A dozen commands in an order, each of which may be
  refused or unanswered, a board still running on another session's settings,
  and a deaf Wi-Fi receiver that is cured by other sessions on the same port.
  Correct: what was asked for is in force, nothing heard is dropped, a failure
  closes the port, a cure follows evidence.
* **The stream.** Any run of bytes may be missing and a read ends anywhere.
  Correct: no record of what was not heard, no whole frame swallowed but where
  the parser has no way to tell, times that never go back, though the board's
  clock restarts.
* **The BLE controller.** Two tasks share one pending opcode and one
  completion, and a slot is counted in one place and freed in another.
  Correct: the slot is taken exactly while there is a sync.
* **The Wi-Fi receiver.** A 32-bit clock wraps and restarts with each rebuild.
* **The plugin.** Four threads write to two pipes, and Wireshark may go at any
  time. Correct: no message is cut, nothing is said twice, the exit code says
  why, and what the dialogs offer is accepted.
* **Keys.** A key typed backwards only makes a capture silent; tables are read
  and rewritten by installers that race. Correct: a followed device is heard
  or the user is told, and entries are lost only to an install that was writing.

## 2. What is modelled

| Module | Models | Checked in | Proved in |
|---|---|---|---|
| `LossLedger`, `UsbLink` | the link and the loss accounting | `usb_link`, `usb_link_live`, `usb_link_boot` | `UsbLinkProofs` |
| `FrontEnd` | starting, stopping and rebuilding the radios | `front_end`, `front_end_flag`, `front_end_one` | `FrontEndProofs` |
| `CaptureLoop` | `records()`, Check keys, the antenna switch, stop | `capture_loop`, `capture_loop_put_back` | `CaptureLoopProofs`, `CheckProofs` |
| `Session` | `open()` and the cure of a deaf receiver | `session` | `SessionProofs` |
| `Dialog`, `Extcap` | the Wireshark plugin | `extcap` | `ExtcapProofs` |
| `StreamParser`, `Records` | bytes to frames to records | `parts` | `RecordsProofs` |
| `Following` | device keys and filters | `parts` | |
| `KeyTables` | Wireshark's key tables | `parts` | `PartsProofs` |
| `BandScan` | the reload button's scan | `parts` | `PartsProofs` |
| `WifiClock` | the Wi-Fi receiver's clock and its watch | `parts`, `csi_clock` | `PartsProofs` |
| `BleSync` | HCI commands from two tasks, periodic syncs | `parts` | `PartsProofs` |

The `MC` modules give the constants their values. `MCParts` puts side by side
the parts that share no state: a behaviour is of one of them.

### UsbLink, implementing LossLedger

`UsbLink` follows a frame from the radio's queue to the host's totals. Each
sender has a program counter: idle, waiting for the mutex, holding it,
numbered, refused. Taking a number and putting the frame in the ring are two
steps, counting a refusal is a third after the mutex is back, and `rx_task`
counts the same packet again (`CountRejected`), because any task may run in
between. `CopyLinkStats` and `CopyRadioStats` are the two reads of the
statistics frame. `TxTake`, `TxWrite` and `TxWedge` are `tx_task`; the host is
`StartCounting`, `SkipFrame` (before counting) and `ReadFrame`
(`SequenceTracker` and `_update_stats`). `PacketsDropped` and `Lossless` are the
Python properties of those names. A frame is a record with its number and the
counters it carries. Bytes are left out, with two consequences written into
the actions: a ring that holds anything may refuse a large frame, and a frame
any byte of which is discarded is lost whole (`Records` is about its bytes).

`first`, `newest`, `seen`, `refused`, `lost`, `statsAt` and `overrun` are
history, read by the properties only.

`LossLedger` is the promise with tasks, ring and driver left out: numbers are
issued one by one; each is pending, read in increasing order, or gone.
`LedgerSpec` is the refinement, with *pending* mapped to the numbers held
under the mutex and those in the ring, the chunk and the pipe.

### FrontEnd

A command, or a job of the main task, is a plan: the calls it makes, in order
(`Plan`, `StopAll`, `Scan`, `HandBackAtBoot`). `todo` holds what is left of
each task's plan, `step` where it is inside a call; a call is cut into steps
where a reset or the other task in between matters (between `enable` and the
flag, between `disable` and clearing it, between taking the driver down and
forgetting it). `owned` is the physical fact the flag stands for, as the
comments of `radio154.c` state it from measurements: enabling 802.15.4 takes
the front end, only the sleep before `disable` gives it back, a reset does
not, and the deep sleep usually does. Any call that can fail may fail.
`Reset` may happen at any moment. `Abort` is `ESP_ERROR_CHECK` on a driver the
other task has taken down.

The control task has a higher priority than the main task, so not every
interleaving the model allows can happen on one core; the model allows more,
which is safe for what holds. The counterexample to `AlwaysOneRadio` needs
only the order that priority gives: the control task runs while the main task
is blocked inside `esp_wifi_stop` or `esp_wifi_deinit`.

The host sends nothing after RADIO_POWER_CYCLE (`recovery.py:129-131` sleeps
and closes), so `Accept` waits for `~cycle`.

### CaptureLoop

`records()` as a state machine: `top` (Check keys step), `apply` (pending
antenna), `read`, `deliver` (one frame of `_records_from` at a time), `await`
(inside `_await_reply`), `answered`/`unmet`, `closing`. `then` says what the
command or the delivery is for, and stands for the generator's place in
`_key_check_step`. Requests from other threads come at any moment. The board
handles its commands in order: the list frames are only stored; START loads
them unless it is scanning already; STOP forgets the keys and not the filter.
A packet is known by the lists in force when it was heard. Every frame, a
reply too, may be refused by the ring, its number used up.

It is on the wire as soon as it is heard, because `rx_task` (priority 9) runs
before the control task (8) can send a reply. A retune on another radio has
the antenna switch's shape and is left out; the parser is taken to be perfect.

`_mid_capture` waits three seconds. A reply has no number, only its command,
so one that comes late can be taken for that of a later command of the same
kind, of the next check say. The wait may therefore end with the reply still
to come: `late` holds the commands given up so, and `mistaken` says that an
answer has been taken which may have been to one of those. The properties say
what still holds. `OneResult` and the gaps always do. A late reply alone leaves
`PutBack` true and may misjudge the boundary where packets go back to the
capture; once `mistaken`, a check may be given the capture's packets
(`HeardAsMeant`) and the session's lists may not be back at its end.

### Session

One client opens a board. `todo` is the rest of the commands it has to send at
its `pc`: the handshake (tried again on the bridge of the nRF54L15, which holds
the tail of the last session), `_configure`'s settings in order, the count,
the start. Of each setting the board keeps whether this session set it, an
earlier one left it, or the radio was started with it; a command may be
obeyed, refused, or unanswered whether obeyed or not, and the port may go.
The two deafness checks are rounds: listen, stop to scan, scan the whole band,
hand back or power-cycle through a port of the recovery's own, connect again.
A serial error in the middle of a hand-back closes the recovery's port and
leaves 802.15.4 running, in the code as in the model (`RecoveryFails`).
`BoardLink`, which the bench tools use, is the same opening without the cure.

Some settings are not sent when not asked for. SET_SNAPLEN and SET_BLE_PHYS
are among them, so on the nRF54L15, which does not reset as its port opens,
those of an earlier session stay in force; `CapturesAsAsked` asks it of the
lists, which are always sent.

### Dialog and Extcap

`Dialog` holds the tables (boards, radios, channels, hop sets), what the
dialog offers for the boards attached (`BoardInterfaces`, `Offered`), and
main's checks. `Extcap` runs one capture: the main thread reads files, opens
the pipes and the board, writes and cleans up; the reader, the heartbeat and
the hopper run beside it. `control_lock` covers two raw writes
(`ControlWrite`), `say_when_ready` looks at the flag and queues, or speaks.
Wireshark may initialise its toolbar late, replay what was picked before it
says it is ready, and go at any time. A pcapng block is one write, so the
capture pipe needs no lock for its blocks to be whole.

Wireshark going means two things. Once its pipes are open, a write to the
capture pipe that breaks is `HostGone` (lines 866-876), and the plugin ends
with 0. Before that, `open` of a pipe nobody has the other end of (1269, 1336,
1337) is a plain `OSError`, which `main` reports as "cannot capture on PORT"
with exit 1 (`PipeIsUnmet`), or, for a POSIX FIFO, waits for ever (`Blocks`).
`ExitTellsWhy` and `StopsWhenHostGoes` say so: exit 1 may then be Wireshark's
doing, and the plugin is sure to end only when its pipes were open. A FIFO
that has been unlinked already, which `open` would make a plain file of, is not
modelled.

### StreamParser and Records

A byte is a token: the two bytes of the magic, one for the rest of the header
with its checksum, one for some bytes of the payload. `Records` sends a script
of frames, loses any run of its tokens, reads the rest in pieces that end
anywhere, and runs the parser (`feed`, `force_resync`, the lookahead of a frame
cut short), the expansion of both kinds of batch, the wall-clock anchor, and
the watch on Wi-Fi handshakes. The run lost starts and ends at any byte of
the stream, inside a frame or a header as well as between them, because
`tx_task` drops the rest of a chunk of a byte ring wherever it is. (One from
inside the magic of a frame to the same place in another's is counted as the run
of whole frames it is, byte for byte.) A read ends anywhere, inside a header
too, and the parser examines only headers wholly buffered
(`parser.py:153-161`). The scripts have payloads that happen to hold a header
(`CHANCE`) only where nothing is lost; no silence falls inside a frame, and the
host's clock does not step back.

What the parser then cannot tell is named in `Untold`, and is a mixture
released as a frame, or a whole frame swallowed by one:

* `spliced`, when what the cut frame is short of is made up by the tail of a
  later frame that the same run left behind (`hole.short <= 0`); or by the first
  bytes of the next frame's header, a read ending inside that header, so that
  there is no header to see yet (`FilledByHeader`); or by frames with silence
  right after them, where `force_resync` releases it.
* `BeyondWindow`: more than 64 frames in a row are lost, and the header that
  comes inside the frame cut short is numbered beyond the window in which one is
  recognised.
* `ChanceAmidLoss`: bytes are lost, and some payload holds a header by chance,
  which may be what is left of its frame.

Of these the runs reach the three of the first, each of which TLC shows to be
needed: without it `OnlyWhatWasHeard` fails. The proofs need all of them, for
they are about any script. `hole` is history: how many bytes the cut frame is
short of, and how many are still to come after that.

A BLE packet the firmware cut short is delivered as a whole one
(`build_ble_record` looks at neither its original length nor its flag), so the
length lost is compared on Wi-Fi alone. An M4 of WPA (not RSN) without the
Secure bit would be read as an M2; the model has RSN's.

### Following and KeyTables

`Following` is the key file with its possible faults, the filter, the
controller's two lists of eight, the addresses seen, the watch on a followed
device's silence and Check keys. Devices are identities whose private address
changes. Cryptography is a relation: a key resolves the private addresses made
with it, and a reversed key none (but the check that turns it round).
`SEEN_LIMIT` addresses are remembered and then dropped.

`KeyTables` is `install_key` over the tables of Wireshark's own directory and
each profile, for a Thread credential file as a capture starts and for the two
tools: each reads and then writes whole files, may end or be killed between any
two steps, and may race another. `thread_key` with both `--key` and `--key-file`
installs the child table first and then fails; one failed table ends it.
`write_text` (`thread.py:297,386`, `zigbee.py:56,59`) is two steps, as it is in
Python: `EmptyTable` truncates the file and `FillTable` writes it from its start
(what another wrote meanwhile beyond its end stays). `install_default_key`
looks for the key and then reads the text a second time, `ReadAgain`.

So the user's own entries can be lost, and `EntriesAccumulate` says exactly
when: `torn` names the tables that were read for rewriting while another
install had them empty, or whose writer was killed then. Elsewhere they never
are. Entries of another install are lost more easily, to any that had read the
table before (`raced`).

### BandScan, WifiClock, BleSync

`BandScan`: one scan, its records and its reply, any of which may be refused.
The labels count records, not distinct access points.

`WifiClock`: the widening in `promiscuous_cb`, the watch's back-off, and the rebuild, which restarts
the radio's counter, as the code's comment has it. Half the range of nothing
but frames without a time misses a wrap; `ClockForward` names that.

`BleSync`: `send_command` in the control task and in `sync_task`, both of
priority 8, one pending opcode, one completion, the reset standing for every
command that configures a scan; periodic trains are reported, queued, tried,
established, lost. A command may time out with its answer still to come, which
then completes whatever is pending when it does. Four things set `crossed`: both
tasks are in `send_command` at once, an answer comes after its two seconds, a
STOP comes between `sync_task`'s look at the count and its counting, or a sync
ends before it has been counted. `sync_task` can then take the reset's
completion for its own, and a count made after the reset, or after the event
that should have undone it, keeps the slot taken until the next stop.
`SlotsAreSyncs` promises nothing from then on: these races are hazards no
property covers, and the list says so.

## 3. The runs

| Run | Shows | States | Time |
|---|---|---|---|
| `usb_link` | types, order, gaps, losses, lossless, the ledger | 1.4 M | 20 s |
| `usb_link_live` | senders return, the ring drains | 160 k | 20 s |
| `usb_link_boot` | violation: each loss once, counted from boot | | 5 s |
| `front_end` | flag and front end, hand-back, one radio, boots, power cycle | 25 k | 2 s |
| `front_end_flag` | violation: the flag's comment | | 1 s |
| `front_end_one` | violation: one radio, always | | 1 s |
| `capture_loop` | gaps, both sides of Check keys, put back, one result, antenna, ends | 1.3 M | 130 s |
| `capture_loop_put_back` | violation: keys and filter put back | | 1 s |
| `session` | settings in force, nothing dropped, failures, cures | 5.5 k | 2 s |
| `extcap` | messages whole and once, exit codes, toolbar channels, ends | 154 k | 16 s |
| `parts` | records, stamps, handshakes, whole frames, following, tables, scan, clock, syncs | 248 k | 95 s |
| `csi_clock` | violation: CSI shares the capture's timestamps | | 1 s |

**Bounds.** *UsbLink*: three sequence numbers and up to five frames, so the
counter wraps and a whole turn may go missing (`overrun` then excuses the
gap count, as arithmetic modulo 65536 must); a queue of one, a ring of two and a
pipe of one are the smallest in which each can be full while the next has
something, and a wedge can hit a chunk half written. Two senders race in the
first run, three in the liveness run. *FrontEnd* needs no bound: its state is
finite. *CaptureLoop*: two checks, so that a late reply to the first
can be taken for one to the second, and one antenna switch may be asked for at
any moment, and one frame may be lost, a packet or any reply. `MaxFrames` limits
packets only, never a reply, so no bound stops a command being answered: a
check sends four commands, so of five frames some can be packets on each side
of the boundary where a listen begins, or one on either side of the one where
it ends. Once a reply is late, no packet beyond the first `LateFrames` is heard
and no antenna switch is asked for. *Session*: two packets from one start, and the options that
change what `open()` does, on both boards. *Extcap*: two notes, two picked
channels, two lines logged; whole captures with one board, two boards
attached, and, with nobody there to open, every option the dialogs list and
some they do not. *Parts*: the scripts of `MCParts` have up to five packets in
three frames, numbered from 65534 so the numbers wrap; two addresses for each
device and two remembered; two installs; eight seconds for the range of the
counter, so a wrap, a stall and a rebuild all fit in nine.

Deadlock is not checked for UsbLink, CaptureLoop and `csi_clock`,
whose bounds end their behaviours; it is for the others, where `Done` says
which ends are meant.

**Fairness.** *UsbLink*: FreeRTOS runs every ready task in the end, so each
sender inside `link_send` and `tx_task` is weakly fair; the radio, the host and
the decision to send are not. The host may stop reading for ever.
*FrontEnd*: both tasks are weakly fair; commands and resets are not fair.
*CaptureLoop*: the loop, its clock and the control task are; the other
threads and the air are not. *Session*: the client, whose every wait has a
time-out; no property needs it but the checks for deadlock. *Extcap*: each
thread; records, failures and Wireshark are not promised. *Parts*: the host
reads on, each device in the room goes on advertising, the heartbeat beats,
and a user told of a silence presses Check keys, which is `FollowedOrTold`'s
last resort.

### What the failing runs show

1. `CountedOnceFromBoot`. `packets_dropped` subtracts the board's refusals,
   counted since it booted, from the host's gaps, counted since
   `_start_counting`. A refusal in between explains away a frame lost later.
   The window is the set-up, and again `_band_is_silent`, which configures a
   running session a second time and starts the gap count over on a board
   that has not reset. `LossCountedOnce` is the same claim without it, and is
   proved.
2. `FlagMeansOwned`. `sn_radio154_energy_detect` takes the front end without
   the flag, and disables without the sleep. `OwnedIsFlagged` names that and
   the instants between `enable` and the flag, and is proved: no third way.
3. `AlwaysOneRadio`. `sn_radio80211_service` rebuilds the driver in the main
   task with no look at what the control task has done meanwhile.
   `OneRadio` holds as long as the two tasks' work did not overlap, and is
   proved.
4. `AlwaysPutBack`. If a check's START is obeyed and only its reply is lost,
   `_abandon_check` sends the lists and START with no STOP before it, and a
   board that scans already ignores START: the capture goes on without its
   keys and its filter. `PutBack` holds in every other case of loss, as long as
   no late answer is taken for a later command's.
5. `CsiSharesClock`. `csi_cb` stamps with the epoch the last packet left and
   the counter as it is. A frame heard after a wrap and before the next packet
   is stamped a whole range of the counter too early.

### Met on the way

Facts of the code that no run is about: after the extcap's record loop, and in
it, the last statistics are written without `write_lock`, so the heartbeat may
write an older block last; called with no action at all, `main` ends in
`print_interfaces(args.extcap_interface)` and a TypeError; a Thread dataset
whose channel is outside 11 to 26 ends in a traceback after the capture pipe
is open; `read_credentials` does not catch a file that is not UTF-8;
`parser.py:3-5` says that an arbitrary run may be missing and the next real
frame must then be found rather than misparsed, which the parser does but in
the cases of `Untold`; a Wireshark that closes its pipes before the plugin has
opened them is reported as "cannot capture on PORT", a failure of the board's,
or waited for without end; an install that reads a key table while another has
it truncated writes back its own lines alone.

## 4. What is proved

TLAPS checks the proofs for every value of the constants that the named
assumptions allow. Each theorem but the type theorems has the shape *inductive
invariant, initial states, steps, conclusion*.

**UsbLinkProofs.** From `SendersDiffer` and `Sizes`: any senders, queue, ring
and counter width. `TypeCorrect`, `OrderKept` and `ImplementsLedger`
(`Spec => LedgerSpec`). `InOrder` alone is not inductive: it needs that at
most one sender is between the mutex and the ring (`OneHolder`, or two held
numbers could go out in either order) and that every number held, in flight or
read is below `next` (`Fresh`, so a number just taken is above them all).
The refinement uses it for `Read` (the head of the pipe is newer than
everything read) and for the losses.

The accounting of loss, on top of that: `GapsAreTheMissing`, `LosslessIsKept`
and `EachLossOnce`. Every step of the link is one of six moves of numbers
(`StepFlows`: nothing, taken, given up, refused, a chunk lost, one read), and
the rest is about those. `ObserveCounts` is the arithmetic of
`SequenceTracker.observe` for any modulus: between two numbers at most a turn
apart, what it computes from their remainders is what lies in between.
`Tracked` says that the tracker holds the remainder of the newest number;
`Accounted` that every number since the first counted one is read, refused,
lost or pending and never two of these; `RefusalsCounted` that the numbers
refused are as many as `ringFull` and the senders about to count theirs.
Settled, the last two give each loss once.

**FrontEndProofs.** From `CommandsKnown`. `TypeCorrect`, `HeldIsFlagged`,
`RestIsHandedBack` and `BootsCure`. `IInv` adds to the types what plans can be
under way (`Plans`: only the main task rebuilds or power-cycles, deep sleep
comes last, a boot runs only the hand-back, a step belongs to its call) and what
the steps say of the hardware (`Physical`: past the sleep the front end is free,
and a radio enabled without `s_running` is in a call, or one has failed).
For `OneAtATime` and `MarkedListens`, until a command and a job
overlap: one task is idle; what runs is what is selected; and what is left of
each plan `Fits` the board: it starts only what is selected, stops every
running radio before it selects another, and Wi-Fi before a scan. `WifiOk`
says that but for the middle of a rebuild the driver is what it is known to be.

**CaptureLoopProofs.** From `Bounds`. `TypeCorrect`, `OneResultEach`,
`AntennaIsKnown` and `GapsAreCounted`, the last also from `MaxLost < 65536`
(with more missing at once the numbers cannot tell). For the antenna: while
every command has been answered, the switch's command or its reply is the only
one about the antenna on its way. For the gaps: the frames ahead of the tracker
(the batch, what was deferred, the wire), in that order, are exactly those sent
after its last and not lost, ascending, and the commands' waits do not reorder
them.

**CheckProofs.** On top of that, `ListsArePutBack` and
`PacketsAreHeardAsMeant`: what Check keys promises, whatever is refused, late or
never answered, but for the two exceptions the properties name. Neither is
inductive: a promise about a board at rest, or about a packet already in the
host's hands, has to be known of every message still on its way to it.
`PutBackInv` says that at most one START is between the host's write and the
reply it takes (`Away`), that one refused has left the board silent
(`StartRefused`, `NotBegun`), and, outside a check, that what has been written to
the board ends with the session's lists in force: they are, and only antenna
switches are still to be read, or a START is that loads them (`Restored`).
`HeardInv` is about the two edges of a listen: no packet follows a STOP's reply
(`StopRead`, `Quiet`), the board is off until the START that begins the listen is
read (`Beginning`), and on either side every packet in the batch, among the
deferred and on the wire, and every START on its way, is under the lists of that
side (`Sided`).

**SessionProofs.** From `SessionsAreKnown`, `MaxHeardIsNat` and
`WifiIsNotBridged` (the one bridged board has no Wi-Fi). `SessionTyped`,
`AsAsked`, `AllDelivered`, `OnlyOnFault`, `AlwaysClosed` and
`CuredOnlyIfSilent`. `SInv` says who has the port where (`Ports`), what the
board is at (`OnBoard`), what the rounds of the check have done (`Rounds`), and
that what a client has yet to send is the end of what `_configure` sends: the
radio first, the start last, the count just before it, and every setting asked
for either in force or still to come (`Tuning`).

**ExtcapProofs.** From `SetupsAreKnown` (the radio chosen is one of the
dialog's, the attached boards are named by their ports, none of which is called
"default"), `PickedAreTokens` and `NotesAreDistinct` (the session's notes differ,
and none is a line of the log). `NeverCut`: a thread with raw writes left holds
the lock. `PickedIsTuned` needs no invariant. `EndIsTold`: `EndInv` keeps where
the capture is and which end it came to (refused, failed, pipes never met, or
Wireshark gone), so that the code at the
exit is the one that end has; that what the dialog offers is never refused is a
lemma of its own (`OfferedIsAccepted`, on the radio, the channels and the hop
sets, then `OfferedHolds`, on the port that was found to hold the board).
`NotesAreSaidOnce`: a note is in the session, among the early ones, in the hands
of a thread that is writing, or on the pipe. `Held` is all of these places in a
row, and `NotesInv` says that each note is in one of them once. Every step moves
a note from one place to another (`MovedOnce`, `AllMoved`) or adds a line that is
no note (`NotesAreNoLines`), also when the toolbar is ready between
`say_when_ready`'s look at the flag and its append.

**RecordsProofs.** Any script, any run of its bytes lost, reads that end
anywhere, a frame's middle and a header's included; what is excepted is what
`Untold` names, in the property itself. What is assumed of a script: `ScriptsAssumption` (a frame that is not
statistics carries a packet, and a packet has a time, a channel and a length)
and, for the last two theorems, `FramesAssumption` (one packet in a frame of its
own, 1 to 32 in a batch, as `encode_packet_batch` insists, and a batch's packets
of the one channel its header has room for) and `OrderAssumption` (each packet is
sent once, in the order heard); and `TicksAssumption`.

`StampsNeverGoBack` and `HandshakesAreToldOnce`. Neither depends on
the parser finding the right frames, only on what a frame can be: `TokensOf` are
the bytes a board sends, `SentIs`, `CutIs`, `SkippedIs` and `FrameIs` say that
what is sent, kept, skipped and taken is made of them, and `RecordsAreTyped` that
a record built from any payload of such bytes is of a packet that was heard or
marked as of none, with a time. The recursive functions under them (flattening,
the running times of a batch) are reasoned about by the least number of a set,
from `WFMin` (`Least`, `Induction`). For the stamps, `InTime`: the last stamp is
at most a minute ahead of the host's clock and not before any stamp given; the
clock's own bound is what `_anchor` keeps through a jump of the board's clock.
For the handshakes, `HandshakeInv`: the messages seen are exactly those the
delivered records bear whole (`Borne`), the conversations told are those complete
in them, and as many; a record adds what it bears and tells what that completes
(`FeedKept`).

`OnlyHeardIsRecorded` and `NothingIsSwallowed` do depend on it. The property says
nothing of the parser's buffer, and the buffer alone does not say where in the
script its bytes are from, so the invariant, `SoFar`, names it: unless something
is `Untold`, there is a frame n such that the bytes still to be parsed, the
buffer's and the link's, are ahead of it (`AheadOf`) and the records, delivered
and not yet, are of the frames before it (`Account`): genuine, ascending, and
complete for the frames that came whole. Ahead are either some bytes that begin
no header and then all of frame n and what follows it (`Junk`: the host came in
part way, or a frame cut short is being thrown away byte by byte), or whole
frames up to one, a, of which m bytes are left, then t bytes of the tail of frame z,
and then all that was sent after it (`Torn`, with a to z `Missing`). Those t
bytes begin no header, nor continue one that a has begun (`Alien`), and do not fill
a up (`Fills`, from ~`spliced`). The lemmas go along the parser's
decisions. `Layout`, `ByteIs` and `MagicStarts` say where each frame's bytes are
in all that is sent and that a magic byte there starts one. `NextIs` and
`HeadRead`: at the start of a whole frame, the parser reads that frame and its
length. `ResyncIs` and `JunkResynced`: a resync gives up bytes of the junk and
never one of a frame. `NotLostTail` and `NothingInside`: a whole frame is not
taken for one cut short, for what stands where it ends continues it. `TornInside`
and `TornIsTold`: a frame cut short is taken for one, since the header that comes
inside it is numbered within the window (`FewApart`, from ~`BeyondWindow`), that
header is wholly buffered by then unless a read ended in it (`EndsAmid`, which is
`FilledByHeader`), and what stands where it says it ends does not continue it,
or does not come.
`RecordsAre`: the records of a whole frame are of its packets, all of those
that can be recorded, in order (`ExpandedSays` and `BleExpandedSays` for the two kinds of batch,
whose times are sums of what was encoded as differences). `AheadSkipped`,
`AheadSilent`, `AheadOnwards` and `AheadRead` are these by the loop's actions,
`SoFarKept` puts them together, and `SoFarStart` says that whatever run was lost
leaves one of the two shapes. `NothingIsSwallowed` is the other end of it: with
nothing left ahead, every frame is behind n or missing (`NothingAhead`). It is
what is safety in `WholeFramesDelivered`; that the parser comes to rest is the
rest, and TLC's. TLC checked `SoFar` and `NoneSwallowed` on the scripts of
`parts` before they were proved.

**PartsProofs.** The parts that stand alone, each as a specification of its
own. `SlotsKept` (`SyncSpec`), for any number of queued requests: until
something crosses, at most one task is in `send_command` and its answer is on
its way (`Waiting`), nothing syncs between a stop and the next enable (`Still`),
and the slot is taken, about to be, or free (`Slot`). `PacketsGoForward`
(`ClockSpec`), from `WrapAssumption`, any range of the counter: the epoch and the last reading make the last
packet's stamp, and that reading is the counter when it came; after a rebuild
the epoch alone is the stamp and the counter counts from there (`Carries`). So
widening the next reading adds what lies in between, as long as that is less
than half the range (`WidenedBy`). `LabelsAreTrue`
(`ScanSpec`), from `BandsAssumption`, any band, whatever is refused: access
points are places of the band, the records on the wire are in the order of the
scan (`Ordered`), what was sent was found, missed or is on the link, all of it before the
reply (`Complete`), and a scan that ended knows whether it found them all
(`Ended`). The counting is by places: two networks on one channel are two
(`FoundOnce`). `EntriesAreKept` (`TablesSpec`), from `CommandsAssumption` and
`ProfilesAssumption`, any commands, profiles and tables, in any interleaving of
their reads, truncations and writes. A table being rewritten is empty for the
moment, so the invariant is about what it holds, has lost or is about to be
given (`Kept`), which never shrinks: the tables a command has been through have
there what it installs (`Through`). What a command is about to write has all of
the user's own entries unless the table is `torn` (`Careful`), and a table that
is not torn and that nobody is writing has them itself (`Safe`).

**Only model-checked.** Liveness (`SendersReturn`, `RingDrains`,
`PowerCycleHappens`, `CheckEnds`, `StopEnds`, `StopsWhenHostGoes`,
`WholeFramesDelivered`, `FollowedOrTold`) is out of the prover's reach.
Every safety and action property of a passing run is stated by a theorem. What
a recursive definition computes is proved only as far as a property needs it.

## 5. Not modelled, and why

Station mode, association and traffic (they use the Wi-Fi driver and select no
radio); aggregates, snap lengths and the CSI queue; the vendor 802.15.4
driver's receive buffers; the board's 512-byte command buffer, which holds one
frame because the host waits for each reply; the packing of headers and the
decoding of advertisements and MAC headers (pure functions with golden vectors
in the tests), and cryptography; retunes and hops inside `records()`, which have
the antenna switch's shape; the frame codec shared with the other board and
that board's firmware (other repositories); the trace ring (a diagnostic, off by
default), the log sink's text, the bench build and pin set-up; the tools that
are scripts around the capture library (`selftest`, `latch_trial`, `survey`) and
the installers.

## 6. What could come next

In the models, the CSI and aggregate queues of the Wi-Fi receiver, and a retune
inside the capture loop. In the proofs, that the parser comes to rest, as a
measure that each of its turns lessens.
