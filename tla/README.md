# MiniMiner ONE: a TLA+ model

The MiniMiner ONE is a USB stick with one Avalon ASIC that searches Bitcoin
nonces. An ATmega32U2 runs the firmware
(`src/firmware/LUFA-120730/Projects/AvalonBTC`, on the LUFA USB stack), and
bfgminer talks to it over a virtual serial line with the driver in
`src/bfgminer-driver`. These modules model the firmware, the
USB stack as far as replies pass through it, the driver and the line between them,
and the programmer firmware kept in the same tree. TLC checks them on small
instances, and TLAPS proves the safety properties of the firmware, its timer, its
ring buffers, its line to the chip, the transfer of replies, the dialogue of driver
and miner, and the programmer's parser for every value of the constants.

## Inventory

| Part | State | Operations | What is hard |
|---|---|---|---|
| Report interrupt, ASIC control (`avalon.c`) | `report_`, `report_count_`, `report_valid_`, `SPCR.SPIE`, the reset pin | `SPI_STC_vect`, `asicStop`, `asicReset`, `asicResetSpi`, `asicGetNonce`, `asicSend` | the interrupt preempts the main loop between any two accesses, disables itself, and is enabled in one place only |
| Application (`application.c`) | `worktask`, `state`, `work_timer`, two ring buffers | commands `L R I A S W`, the two branches of `appService` | results of an old unit, a unit that never ends, a parser that handles one command per reception |
| Timer and clock (`timer.c`, `clock.c`) | `time_`, `active`, `start`, `interval` | tick, set, stop, reset, restart, poll | the wrap of `uint32_t`, the boundary of the interval |
| Main loop (`main.c`) | none of its own | receive, flush replies, `appService`, USB tasks | the order of the polls, waiting in `SendByte` |
| bfgminer driver | the work unit, `work_restart`, the identity | detect, init, `mmo_scanhash`, shutdown | replies are attributed to a scan by their position on the line only |
| Ring buffer (`RingBuffer.h`) | `In`, `Out`, `Count`, the array | insert, remove, peek, the counts | two contexts, and only the count is protected |
| CDC class, USB core (LUFA) | the endpoint, its selection, `USB_DeviceState`, the line encoding | `SendByte`, `Flush`, suspend, wake-up, reset, control requests | the interrupts change selection, endpoint and state under the main loop |
| `asicPrecalc`, `pushWork`, `send32` | the work unit, two lines | three rounds, twenty words, a two-wire code | optimised rounds against the reference text |
| XilinxFpgaProg | `buffer_`, `serial_rx_buffer`, the mode of the port | a frame parser, nine commands, a serial line | no resynchronisation, an interrupt that adds what is being moved |

`PROJECT.json` lists every part with its sources, and the hazards with the line
where each one bites.

## Modules

**`Firmware`** has the firmware around the chip. A handler is the sequence of its
accesses to state it shares with the interrupt (`todo`); an action executes one
of them, so the interrupt may run before each. `asicReset`, `HandleWork`,
`ServiceReport` and their like are those sequences, in the order of the code.
`app->state` and `app->worktask` belong to the main loop, so their assignments
are grouped. Bytes of a report are symbolic: work unit, number of the nonce,
index. The interrupt is three actions: entry, one more byte, time-out. The chip
is external: `AsicFind` and `AsicShift`. It is assumed that a byte takes longer
than the interrupt latency and than a turn of the polling loop, so that a byte
somebody waits for is read; with the interrupt disabled, it is overwritten.

**`MinerDevice`** is the promise to the host: one unit at a time, ended by a nonce
of that unit, by the deadline or by a command. `Firmware` implements it
(`ImplementsDevice`).

**`MiniMiner`** composes the driver, the line and a miner with the actions of
`MinerDevice`, on bytes: the packets of a write, `buffer_`, the parser, the
replies, the reads of seven and fourteen bytes. `appUsbDataReceived` is `Drain`, once
for each packet its loop finds, and then `Process`, which parses one command; the rest
of the main loop waits for both, the host does not. A byte of a work unit or a nonce
may have any value, so a parser out of step may take it for any command.
`ReadTimesOut` assumes that line and firmware answer within the tenth of a second
that `serial_read` waits: a read is short only when nothing is on its way.

**`Timer`** has the clock and one timer, modulo `Wrap` (2^32 in the code).

**`RingBuffer`** has `Insert` and `Remove` as three steps each: the byte, the
pointer, the count. Only the access to `Count` is atomic in the code. Each thread
asks for a count, keeps it, and calls no more often than it allows, as the
comments of `RingBuffer.h` demand. **`Fifo`** is the promise: a bounded queue.

**`AsicWork`** follows a unit into the chip. A step is a round of `asicPrecalc` or a
change of the two lines. The reference rounds, which `avalon.c` keeps under `#if 0`,
run alongside in history variables. Words have `W` bits, addition is a parameter.
The chip is external: it takes a rise after both lines were low for a bit.

**`UsbSerial`** has the main loop where it sends replies, cut wherever an interrupt
matters: the check of the state and the selection of the endpoint, the question
whether the bank has room, the hand-over of the bank, the wait, the write with the
removal from the buffer, `appService`, `Flush`. Against it run `USB_GEN_vect`
(`Suspend`, `WakeUp`, `Reset`) and `USB_COM_vect` (`SetAddress`, `SetConfiguration`,
`SetLineEncoding`), the latter with interrupts enabled, so that the former may come
in the middle of it. The reset interrupt leaves the control endpoint selected; of
its registers any answer is possible. On this controller a suspended device counts
as unattached. The module assumes of the hardware and the host: an access with the
clock stopped may have no effect; a reset disables the endpoints and the address;
no request comes and no suspension begins before the wake-up interrupt after a reset
has been served; a resume (20 ms) finds a control request that can end already
ended; the host sets one line encoding, with a rate other than zero, per
configuration.

**`FpgaProg`** has the frame parser of XilinxFpgaProg on byte values, so that a parser
out of step would take data for commands and sizes; the commands with their
answers and the mode of the port; the interrupt of the serial line; and the turn of
the main loop. The host is assumed to send well-formed frames and data for the SPI
only while the port is in that mode.

**`FirmwareProofs`**, **`FirmwareResultProofs`** (what the host is told),
**`TimerProofs`**, **`RingBufferProofs`**, **`AsicWorkProofs`**, **`UsbSerialProofs`**,
**`MiniMinerProofs`** and **`FpgaProgProofs`** hold the theorems. The `MC` modules are the
instances that the configurations run.
Definitions named `X_Something` are faulty variants of `X`: no action uses them; they
serve to see that the properties notice such a fault.

## Runs

| Run | Instance | Result |
|---|---|---|
| `firmware_all` | `W R A S`, two units, two nonces each | holds: the report is stable while it is taken; work has a deadline; the chip hashes `worktask`; the receiver goes deaf only when a waiting report is discarded, and then for good |
| `firmware_driver` | `W R S`, two units, one nonce each, fair | holds: nonces are genuine, at most one result per unit, every unit ends, `MinerDevice` is implemented |
| `firmware_two_nonces` | `W`, two nonces per unit | violated: a fragment of the second report is published |
| `timer` | `Wrap` 8, intervals 0, 1, 3, 6, 7 | holds: never early, never missed, stays due |
| `miner_restarts` | real sizes, up to two restarts, up to three packets drained at once | holds: before the first restart driver and miner are in step, nonces are submitted for their unit, results are delivered; with restarts `buffer_` is not overrun, parser and reads stay aligned, no command is left behind, scans return |
| `miner_exits` | units of 4 bytes, one restart, one exit of the host | holds: the miner is found again |
| `miner_stale_nonce` | one restart | violated: a nonce of the unit broken off is submitted for the next one |
| `miner_stale_ident` | one exit | violated: old replies are taken for the identity |
| `ring_buffer` | three slots, two values | holds: a bounded queue in every interleaving; kept counts stay good; `Peek` shows what `Remove` returns |
| `asic_work` | words of four bits, 64 units, one after another | holds: the rounds agree with the reference; the chip receives the unit and nothing of an earlier one; every unit is sent |
| `usb_serial` | a bank of two bytes, four replies, three resets, two suspensions, two configurations | holds: replies in order and at most once; losses bounded by the events; the main loop comes round, but for two waits; a host that reads gets everything |
| `fpga_prog` | three frames of five kinds, two sent ahead, two serial bytes | holds: frames parsed whole and in order; no wait for a disabled SPI; the stream to the host decodes; everything is answered and forwarded |

Bounds. Two units are what it takes to confuse one with another. Two nonces are
what it takes to have a byte pending when the interrupt is enabled again. In
`miner_restarts` two broken scans put up to three units on the line, more than
`buffer_` (128 bytes) holds. `MaxOut` and `MaxIn` limit what waits on the line when
a scan starts. `MaxDrain` 3 is an assumption as well as a bound: the endpoint has
one bank, so the loop of `appUsbDataReceived` meets a further packet only if an
interrupt holds it up for the time of a packet just between two of them, and the
report interrupt, the only long one, disables itself. Were four packets drained in
one call, the end of one unit and the whole of the next could come together and
`AllProcessed` fails: TLC finds it with `MaxDrain` 4, and the theorem about it has the
bound as a hypothesis. `miner_exits` shortens the units, because every byte of one may be
parsed as any of seven commands; the arithmetic of the parser depends only on
`WorkBytes`. It and `miner_stale_ident` switch the deadlock check off: after a lost
result the driver polls an empty line until bfgminer restarts it. `Wrap` 8 has every order of start,
end of interval, wrap and poll. Three slots of a ring buffer let the wrap fall
between any two operations. In `usb_serial` a bank of two bytes can be empty, full or
in between; three resets are the one that starts the enumeration and two more, so
that an event may meet the consequences of another. The run switches the deadlock
check off, because of the first of the two waits below. In `fpga_prog` the longest
frame fills `buffer_` and `serial_rx_buffer` can be full.

Fairness. In `Firmware`: the main loop runs, interrupts are served, a report that
has begun is sent to its end, time passes. In `MiniMiner`: the driver's thread and
the main loop run, the line carries what it is given, the work timer expires.
In `AsicWork`: the main program runs. In `UsbSerial`: the main loop runs, interrupts
are served, the host completes a control request unless it resets or suspends the
bus; nothing is assumed of its fetching data, except in the premise of `Delivered`:
the host fetches what there is, and does not let every wait of `SendByte` time out. In
`FpgaProg`: the main loop runs, does not pass over packets, single replies or the
expired timer for ever. Nothing is assumed of nonces, commands, restarts, exits,
resets and suspensions.

The two waits that `MainLoopTurns` excepts are what the code does, and both stop the
main loop, and with it `appService`, for as long as the host leaves things so:

- A reset between `SetLineEncoding` and its data. The loop at `CDCClassDevice.c:72`
  ends with data or with an unattached device. The reset gives neither, but enables
  the interrupt of the control endpoint (`USBInterrupt_AVR8.c:177`), so later requests
  are handled on top of the waiting one and the device enumerates. It hangs until the
  bus is suspended.
- A suspension during the status stage of `SetConfiguration`. The handler then
  overwrites the state (`DeviceStandardReq.c:198`), and a `SendByte` that had been
  interrupted waits for frames until the bus is resumed.

LUFA's change log (`LUFA/DoxygenPages/ChangeLog.txt:67`) lists as fixed a "possible
deadlock in the CDC device driver if the USB connection is dropped" during
`SetLineEncoding`; the fix is the test for an unattached device, which a reset does
not meet. Both waits are written into `MainLoopTurns` as exceptions, so that the
property can show that there are no others; no run of its own exhibits them.

A related oddity is modelled and costs nothing beyond `LossBounded`: after a wake-up, a
device that has only its address counts as configured (`USBInterrupt_AVR8.c:153`; with
configuration 0 also at `DeviceStandardReq.c:201`). After the wake-up the line encoding
of the last session is still set, so `SendByte` waits at a disabled endpoint, times
out and keeps the byte.

## Proofs

`TimerProofs`, for every `Wrap` of at least 2: `StartMeasured` with the types
(`TypeOK`) is inductive. `PassedMeaning` then says what the two comparisons compute in terms of
the time elapsed, and `NeverEarly`, `NeverMissed` and `StaysDue` follow from it.

`FirmwareProofs`, for every set of units and commands, report length and number of
nonces: `TypeOK`, `ReportStable`, `WorkHasDeadline`, `AsicWorksOnTask`,
`DeafOnlyByDiscard` and `DeafIsPermanent`. `TypeOK` is
inductive; the others are not, since they speak of what a running handler will
still do. `FirmwareInv` adds

- `Shape`: which operations follow which in `todo`. It holds of every handler
  (`Handlers`) and of every rest of one (`ShapeOfTail`);
- `IsrDisarms`: the interrupt is disabled while it runs;
- `ReportTaken`: once the report branch has taken the report, no new one appears
  until it enables the interrupt again.

The proof has one case per action (`InvPolls`, `InvOperation`, `InvOthers`).

`FirmwareResultProofs`, for every set of units and every report length, of a host
that sends no `A` and a chip that reports one nonce per unit (`DriverHost`):
`NonceGenuine`, `AtMostOneReport`, and that `Firmware` implements `MinerDevice`. Both
conditions are hypotheses of the theorems, not assumptions of the module, and neither
can be dropped: `firmware_two_nonces` shows what a second nonce does, and after an `A`,
which does not call `asicResetSpi`, the bytes that the interrupt had already taken of
the report are published as a nonce of the aborted unit. On top of `FirmwareInv`,
`ResultInv` says where the one report of a unit can be:

- `Order`: what may follow an operation within a handler: who lowers the reset line
  discards a report later, who takes a report publishes it, and only the reply follows
  the end of a unit;
- `InWork`: the chip has a unit, and a nonce, only while the State says WORKING;
- `ChipStopped`: behind its reset of the chip a handler finds it without work;
- `WholeReport`: unless a handler is about to discard it, `report_`, the SPI data register
  and what the chip has still to shift are together one whole report, or nothing;
- `TakesReport`: while the report branch runs, no byte can arrive, and the report is
  that of `worktask`;
- `ResultOfTask`, `NoResultYet`, `TimerRanOff`: what the State holds, and until when it
  holds nothing.

A step of `Firmware` that starts, ends or aborts a unit is the step of `MinerDevice` of
that name; every other one is a stutter.

`RingBufferProofs`, for every size and set of values: `TypeOK`, `CachedCountsSafe`,
`PeekedIsRemoved`, and that `RingBuffer` implements `Fifo`. The counts alone do not
say where a byte is, so `RingInv` adds

- `InPlace`: `In` is `Count` slots behind `First`, one more between the move of `In`
  and the count;
- `Stored`: the byte of a running `Insert` is in its slot;
- `Oldest`: the byte of a running `Remove`, and the one peeked, is the oldest.

The queue is read off the array from `First` on; `InsertCount` is `Put`, `RemoveCount` is
`Take`, every other step a stutter.

`AsicWorkProofs`, for every width and every commutative and associative addition:
`PrecalcAgrees`. The bit operations agree word by word (`ChoiceAgrees`,
`MajorityAgrees`, `XorAgrees`, `SumAgrees`); from there a compiled round on words that
stay in place is a reference round on words that move. And `ChipGetsUnit`: `LineInv`
ties the position of `send32` to the number of bits the chip has taken, `sent * W + bit`,
from which `WordAndBit` gets back the word and the bit; `WordsSent` says that the twenty
words of `pushWork` are those of the unit with the reference's precalculation, and the
lines are both low only while a word is being sent. `UnitTakesSteps` counts: `StepsLeft`,
the rounds to go, two changes of the lines for every bit to go and the last rest, is
`40 * W + 4` when a unit is stored, goes down by one with every step but `NewWork`, and
is zero exactly when the chip has the whole unit and the lines rest. That the steps are
taken is the liveness property `UnitIsSent`.

`UsbSerialProofs`, for a bank of any size and any number of replies, resets,
suspensions and configurations: `StreamInOrder` and `LossBounded`. Neither is inductive.
`UsbInv` adds the types, that the byte `SendByte` is busy with is in the buffer
(`QuotaInBuffer`), the order of every place a byte can be in and between the places
(`PlacesInOrder`), and an account of losses (`LossesPaid`): the bytes lost so far,
together with those that what has already happened may still cost (the byte of an
interrupted `SendByte`, the bank that `SetConfiguration` is about to allocate again, a
byte when a suspension is due), never exceed what the events so far allow.
`FrozenUnusable` says that `SendByte` does not begin while the clock is stopped.

`FpgaProgProofs`, for every set of well-formed frames, every buffer that a `uint8_t` can
count and any number of frames sent ahead: `FramesParsed` and `NeverHung`. `ParserInv`
says that `buffer_` and the line together are the frames not yet processed, one behind
the other (`Laid`; behind a byte that is no command, if the host sent one), that no
complete frame stays in `buffer_`, and that the port has the mode of the frames
processed. `Laid` names the end of each frame, so that taking the first (`LaidFirst`)
and adding one (`LaidMore`) need no induction. The mode matters because the host keeps
to it when it sends, and the parser meets the frame later: `FrameProcessed` shows that
the frames before it are the same.

And `StreamDecodes`, for a receive buffer of any size and any number of bytes from the
serial line. `SerialInv` says that what is on its way to the host, with the bytes that
`appService` has announced and not yet moved, consists of whole frames (`Whole`, which
names the places where they start), that only the loop of `appService` has bytes
announced, and that the loop that sends takes no more than there is. The decoder of the
host is a recursive function. That it is defined for every stream (`DecoderDefined`), and
that a frame added behind whole frames adds its answer or its bytes to what is decoded
(`DecodedMore`), are inductions over the places of the stream, each written as an
argument about the greatest place where the claim fails (`LeastElement`, from the
well-foundedness of the numbers).

`MiniMinerProofs`, for every set of units, size of unit, packets and buffer, and any
number of restarts and exits. It has two parts on top of the types (`MinerTypes`).

As long as every scan runs to its end and no host program has ended (`Undisturbed`):
`InSync` and `SubmitMatchesUndisturbed`; and, as long as no host program has ended,
`DetectGenuine`, whose violation in `miner_stale_ident` comes after an exit (`ProbedFirst`
carries it past the restarts: there is none before the first scan). None is inductive: that the line is empty
between two scans depends on how far each command and its reply have come. `SyncInv`
says that the dialogue is in one of four situations: `Probing`, with at most "I" and its
answer on the way; `Sending`, with some packets of the command in `buffer_`, the others
on the line, and the miner still in the state the last scan left; `Working`, with the
unit in the miner and replies only for this unit; `Ended`, with the last reply read or on
the way. The driver never compares a reply with its unit, so this is the whole reason
why a nonce is submitted for the right one, and it is gone after the first restart
(`miner_stale_nonce`).

With restarts, as long as no host program has ended and if no call drains more packets
than a command has (`OneCommand`): `RxAligned`, `AllProcessed`, `FramesAligned` and, if `buffer_` holds a
command and the packets of a call but one, `RxFits` (with the code's sizes 77 bytes of
128). `UnitsInv` says that `buffer_` holds the first packets of one command (`Partial`),
and the line the rest of it and then whole commands (`Queue`, which names the unit and
the packet that each place on the line belongs to, so that no induction over the queue is
needed); between a `Drain` and its `Process` there may be the end of one command and the
beginning of the next. That one command is processed per call is enough because the
packets of a call complete at most one; with `MaxDrain` above `Parts` they may complete
two, and the second stays.

Under the same conditions `SubmissionsAreNonces` bounds what `miner_stale_nonce` shows:
a nonce may be submitted for the wrong unit, but it is the whole nonce of a unit of the
host. `ReplyInv` says that everything on its way to the host after the first scan
consists of whole replies (`WholeReplies`), each of a state the miner can have
(`MinerHas`: its unit is one of the host, never `Garbled`).

The theorems assume what the modules assume of their constants, no more.

Only model-checked: `WorkEnds`, `ScanReturns`, `ResultDelivered`, `Recovers`,
`UnitIsSent`, `MainLoopTurns`, `Delivered` and `Forwarded`: liveness is outside the
prover's reach. Every invariant and action property that a passing run checks is a
theorem. After the exit of a host program nothing is proved of `MiniMiner` but its types.

## Limits

- `NonceGenuine` and `ImplementsDevice` are checked for one nonce per unit and
  without `A`. With two nonces `NonceGenuine` fails (`firmware_two_nonces`). `A`
  does not call `asicResetSpi`; in `MiniMiner` it nevertheless acts like `R`, and
  there it only arises from misread bytes in `miner_exits`.
- `MiniMiner` does not have the loss of the report interrupt: its `ReportFound` may
  happen or not, without fairness.
- A gap on the line longer than the read time-out is not modelled: it would leave
  the driver out of step without bound.
- The timer's boundary: a poll exactly at the end of the interval reports nothing,
  unless the clock has wrapped since the start (`>` at `timer.c:47`, `>=` at line 59).
  `NeverMissed` therefore speaks of polls after the end.
- `UsbSerial` and `FpgaProg` have no type invariant.
- `MiniMiner` and `UsbSerial` are not composed: the loss of replies by resets is not
  followed into the driver, which would be out of step after it (as after an exit).
- `FpgaProg`: more than `serial_rx_buffer` holds, without a pause of 100 ms, is not
  modelled; the code does not notice it and the stream is wrong at once.
- `AsicWork`: the pin levels are those of the two lines; their timing is not modelled.

## Not modelled

- Most of the tree is LUFA as its authors publish it: demos, other projects,
  bootloaders, host mode, the other device classes, the XMEGA and UC3 ports, build
  files and documentation. None of it is compiled into the miner, so it is left out,
  and the modules cover only a small share of the lines in the tree.
- USB descriptors and the options of `LUFAConfig.h`: constant tables. The descriptor,
  status, feature and `GetLineEncoding` requests change no state of the miner.
- LEDs, the text of `mmo_statline`, `mmo_checkNonce` (never called), `serial_claim`, the
  constant 0xC0 subtracted from a nonce, the pin levels of the FPGA.
- The board: a schematic.

## Plan

What remains, in this order:

1. `MiniMiner` over `UsbSerial`: resets and lost replies under a running scan, and the
   driver's reads with real gaps.
2. The overrun of `serial_rx_buffer`.
3. Safety after an exit of the host: how many bytes of the old session can be left in
   `buffer_`, for every size of a unit.
