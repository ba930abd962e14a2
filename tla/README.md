# Wixel SDK: TLA+ models, model checks and proofs

The Wixel is a board around TI's CC2511, an 8051 with USB and a 2.4 GHz radio.
The SDK (`src/libraries`) is a set of C libraries without an operating system:
a program is one main loop that calls the libraries, plus interrupt service
routines that share memory with it. The applications (`src/apps`) are such main
loops. What is hard in this code is the sharing between loop and interrupts, and
the protocols between two Wixels over a radio that loses packets.

1. [Inventory](#1-inventory) of the system
2. [Modules](#2-modules-and-how-they-correspond-to-the-code)
3. [Runs](#3-runs): what is checked, bounds, fairness
4. [Proofs](#4-proofs)
5. [Disagreements](#5-disagreements-between-the-code-and-its-comments) between code and comments
6. [What is not covered](#6-what-is-not-covered), and the [plan](#7-plan)

To repeat a check: `tlc -config MCUart.cfg Uart`. To repeat a proof:
`tlapm UartProofs.tla`. `PROJECT.json` lists the runs, the lines of source each
definition stands for, the hazards and the theorems. Definitions marked
`Mutant:` in the modules are deliberately wrong versions of the definition that
follows them; substituted for it, they make a property fail, which shows that
the property depends on the code. They are part of no specification.

## 1. Inventory

Paths are relative to `src/libraries/src` unless they start with `apps/`.

### The radio stack

**radio_mac** (`radio_mac/radio_mac.c`). State: the `strobe` bit, the radio's
own state, the timeout registers. Operations: the RF interrupt, which turns
flags of the hardware into one event (strobe, TX done, RX packet, RX timeout)
for the protocol above, and `radioMacStrobe`, by which the main loop asks for an
event. Hard: the loop sets the bit and raises the interrupt in two
instructions, the interrupt clears them in another order, and a packet may end
in between. Correct if no request is lost: a radio that listens without a
timeout while something is queued sleeps for ever.

**radio_link** (`radio_link/radio_link.c`). State: two rings of packet buffers,
each with an index of the main loop and one of the interrupt; a sequence bit in
each direction; `sendingReset`, `acceptAnySequenceBit`; the counter of tries.
Operations: `radioLinkTxSendPacket`, `radioLinkRxDoneWithPacket`,
`radioLinkTxQueueReset`, `radioLinkChangeChannel`, and the handler of the MAC's
events. Hard: ACKs ride on data, either Wixel may restart in the middle, one bit
tells a repetition from the next packet, and everything may be lost. Correct if
no packet is lost, repeated or reordered, a buffer is released only when the
peer has its packet, and the Reset handshake brings the two sides together.

**radio_queue** (`radio_queue/radio_queue.c`). The same rings and the same MAC
without acknowledgements, for any number of Wixels. Correct if every queued
packet goes on the air once, in order, from a buffer nobody is writing.

**radio_com** (`radio_com/radio_com.c`). State: the packet being filled
(`txBytesLoaded`), the one being read (`rxBytesLeft`), the control signals of
both sides, `sendSignalsSoon`. It turns packets into a stream of bytes and eight
control lines. Hard: bytes and signals must stay in order although bytes wait
for a full packet; the number of free bytes is a product in a `uint8`; a restart
forgets signals. Correct if the program never writes through a null pointer and
the stream is read in order under the right signals.

**wireless_serial_multichannel** (`apps/wireless_serial_multichannel`). Repeats
each batch of USB bytes on up to 16 channels, drops a channel whose Wixel does
not answer and tries dead channels again at each heartbeat. State: the sending
state machine, the channel counters, the bit map of live channels. Hard: three
counters that wrap and skip, interleaved with the radio. Correct if a round ends,
sends at most once per channel, and dead channels are tried again.

### Streams on wires

**uart** (`uart/core/uart.c`). State: a TX and an RX ring, each shared with its
interrupt, two error bits, and the registers of the hardware: data register,
shifter, flags, interrupt enables. Hard: the loop stores a byte, then enables an
interrupt that may just have disabled itself because the ring was empty. Correct
if the wire carries the bytes in order and never stops while the ring holds one,
and a byte that was dropped on the way in has set an error bit.

**usb** (`usb/usb.c`). State: the device state, one control transfer on endpoint
0 (direction, bytes left, pointer), the last SETUP packet. Operations: `usbPoll`
with the standard requests. Polled from the main loop, so several events may have
happened since the last poll: the host may reset the bus, suspend it, pull the
cable or abandon a transfer with a new SETUP packet. Correct if no state of the old
transfer or configuration answers the new one.

**usb_cdc_acm** (`usb_cdc_acm/usb_cdc_acm.c`). State: bytes loaded into the IN
FIFO, `sendEmptyPacketSoon`, the serial state and the one last reported (with a
sentinel), the bootloader's request and its time in a `uint8`. Correct if what is
written reaches the host in ended transfers, the host knows the serial state, and
the bootloader starts after its delay.

**usb_hid** (`usb_hid/usb_hid.c`). State: reports of keyboard, mouse and joystick
with a flag each, the idle period and its clock, the protocols. Correct if no
key that was released is left pressed at the host.

**spi_master** (`spi_master/core`). State: two pointers and a counter of two
bytes, moved on by the receive interrupt. Correct if every byte is exchanged once
and `spiNMasterBytesLeft` never mixes two values.

**i2c** (`i2c`). A master made of software: two pins, a clock the slave may
stretch, two timeout flags. Correct if bytes arrive, or the timeout is reported.

### The rest

**servo** (`servo/servo.c`). State: target, position and speed of six servos, which
share three channels of a timer; its interrupt makes the pulses and moves the
positions. Hard: two-byte values shared with the interrupt, start and stop in the
middle of a round. Correct if each pin has the pulses of its own servo, whole, and
"not moving" means "arrived".

**queue, stack, reporting** (`queue`, `stack`, `reporting`): bounded containers
in arrays. **packet** (`packet`): bit fields. **time, board, green LED**
(`wixel`, `usb/green_led.c`): a counter of four bytes that an interrupt writes,
and services that measure time with one byte. **gpio, adc, dma, timer, motors,
trig_utils, random, radio_registers**: registers, constants and straight-line code.

### Applications

**wireless_serial_jws**: a bridge between USB, UART and radio that drives a robot
when it has no USB power; it switches the UART's receiver off after a framing
error. **wireless_serial_robot_jwsForStudents**: a robot told by a camera where
the tags around it are, which plans an order and visits them. **serial_i2c**: parses
commands for I2C and sends the answers back. **example_onewire**: searches a 1-Wire
bus. **io_repeater**: repeats pins over radio_queue. The other serial programs
differ from wireless_serial_jws in what they leave out; the others are examples and
hardware tests. `PROJECT.json` has every one with its status.

### How the parts interact

    apps: wireless_serial*, multichannel, serial_i2c, robot     io_repeater, ...
              |   calls                                            |  calls
          radio_com -- packets --> radio_link                  radio_queue
          uart, usb_cdc_acm,           |   events, strobe          |
          i2c, servo              radio_mac <---- RF interrupt ---- radio
          usb_cdc_acm, usb_hid -- usbPoll --> usb -- callbacks --> the class library

Calls go down from the main loop, events come up from the RF interrupt; the two
meet in the rings of radio_link and radio_queue, whose indices each have one
writer. usb calls the class library that is linked
with it for the requests of its class. No part calls up into the main loop.

## 2. Modules, and how they correspond to the code

| module | models | lines of |
|---|---|---|
| `Ring` | the index arithmetic of every ring of buffers | radio_link, radio_queue, uart |
| `RadioLink` | two Wixels: main loop, RF interrupt, radio between them | radio_link.c, radio_mac.c |
| `ReliableLink` | the promise of radio_link.h: a FIFO queue in each direction | abstract |
| `RadioCom` | two programs with byte streams and signals, over `ReliableLink` | radio_com.c |
| `RadioQueue` | Wixels that broadcast on one channel | radio_queue.c, radio_mac.c |
| `MultiChannel` | the tethered Wixel of the multichannel application | wireless_serial_multichannel.c |
| `Uart` | the library, its two interrupts and the hardware's registers | uart.c |
| `UsbTransfer`, `UsbControl` | `usbPoll`, endpoint 0 with its registers, and a host | usb.c |
| `UsbCom` | the serial port over `UsbControl` | usb_cdc_acm.c |
| `UsbHid` | keyboard, mouse and joystick over `UsbControl` | usb_hid.c |
| `UsbDevices` | a device with the one library or the other, and its host | usb.c, usb_cdc_acm.c, usb_hid.c |
| `Descriptors` | the tables by which the devices present themselves | usb_cdc_acm.c, usb_hid.c |
| `SpiMaster` | a program, the interrupt, a slave | spi_master.c |
| `I2c` | a master of software and a slave, wire by wire | i2c.c |
| `Servo` | the library, its interrupt and Timer 1 | servo.c |
| `Containers` | queue, stack, ring of reports, ring of text | queue.c, stack.c, reporting.c, robot |
| `Board` | clock, VBUS, green LED | time.c, board.c, green_led.c |
| `Conversions` | functions beside their reference definitions | packet.c, uart.c, spi_master.c, i2c.c, trig_utils.c, usb_hid.c, onewire.c, jws |
| `FramingError`, `WirelessSerial` | the services and the driving of one program | wireless_serial_jws.c |
| `Robot` | the loop of the robot with a camera | wireless_serial_robot_jwsForStudents.c |
| `SerialI2c` | the program over i2c | serial_i2c.c |
| `OneWire` | the search of the bus | onewire.c |
| `IoRepeater` | several Wixels over the promise of radio_queue | io_repeater.c |
| `Peripherals` | `SpiMaster`, `Servo`, `Containers`, `Board`, `OneWire` and `Robot` side by side | |
| `Apps` | `MultiChannel`, `SerialI2c`, `FramingError` and `I2c` side by side | |
| `RingProofs`, `RadioLinkProofs`, `RadioQueueProofs`, `RadioComProofs`, `UartProofs`, `UsbProofs`, `PeripheralProofs`, `AppProofs` | lemmas and theorems | |
| `MC...` | the instances for TLC | |

**Granularity.** An interrupt routine runs to completion, so each activation is
one action. The main loop can be interrupted anywhere, so a library call is cut
wherever it shares state with an interrupt: `radioLinkTxSendPacket` is three
actions (index, strobe bit, interrupt flag), and so is `uartNTxSendByte` (store,
index, enable). A call that shares nothing, or writes one shared byte, is one
action. The 8051 reads and writes a byte or a bit in one instruction, and has
one core, so these cuts are all the interleavings there are.

**RadioLink.** `radio[n]` is the hardware: off, transmitting, listening, in the
middle of a packet, or holding a good or bad one. `TxEvent`, `RxEvent`,
`RxTimeoutEvent` and `StrobeEvent` are the branches of the interrupt with the
handler of radio_link inlined; `RxEvent` is split by the type of the packet and
by the checks of the handler. A transmission begins in the event that answers
(`RadioMacTx`), and the peer then hears it or not; it ends in the sender's
`TxEvent`, after which the peer holds it, whole or damaged, or lost it. Timeouts
are short or long, as `randomTxDelay()` chooses, and any that is set may expire.
A data packet is the number of its sender's life and its number in that life,
which is all the properties need. `Restart` is a power cycle; the model lets it
happen only when the peer is not just handling a packet of the old life: an
interrupt takes microseconds, a start of the board milliseconds.
Auxiliary variables (`nSent`, `lastAcc`, `lastIn`, `erased`, `boots`) record
history and no guard of the code reads them.

**ReliableLink and the refinement.** `ImplementsReliableLink` maps `RadioLink`
to `ReliableLink`: `out[n]` is what lies between the two TX indices, `in[n]`
what lies between the two RX indices, `moved[n]` says that the peer has the first
packet of `out[n]`. One step of the radio may do two things of the abstract link
at once, hence `ReleaseAndMove`. The refinement needs a discipline:
the program queues nothing before `radioLinkConnected()` and does not call
`radioLinkTxQueueReset` (`Disciplined`). Without it the promise is false, see
section 5. No application follows the first half: `radio_com` does not ask
`radioLinkConnected()`. `RadioCom` therefore checks what radio_com does *given*
the promise of radio_link.h; it is not a claim that the two together are right
before the connection.

**RadioCom** instances `ReliableLink` as `Link` and adds radio_com's own state.
`TxService`, the calls of the program and the calls of the receiving side are
one action each, because radio_com has no interrupt. The Reset of a peer's start
arrives separately from data (`resetOnAir`), possibly more than once, as a Reset
whose ACK was lost does.

**RadioQueue** has the structure of `RadioLink` with one handler. A packet on the
air may be heard by any subset of the others. `radioQueueAllowCrcErrors` is set
for each Wixel.

**MultiChannel** follows the main loop call by call (`pc`): `radioComTxService`,
then `usbToRadioService`, whose loop that fills the batch is a step per byte
because an ACK may free a packet between two bytes. Of radio_link only the number
of queued packets is left, of radio_com the number of loaded bytes. Peers are an
environment: an ACK or a Reset may arrive at any time, or never. Changing the
channel is one step.

**Uart.** `TxStore`, `TxAdvance`, `TxEnable` are `uartNTxSendByte`, `RxRead` and
`RxAdvance` `uartNRxReceiveByte`, `IsrUtx...` and `IsrUrx...` the branches of the interrupts,
`Load`, `ShiftOut` and `Arrive` the hardware, which also acts between the two steps of
the TX interrupt (clear the flag, write the byte): a byte written to the data register
moves to the shifter when that is free, which sets the flag that asks for the
next byte. The hardware is modelled from how the code uses it. The RX interrupt is
assumed to be served within the time of one byte; otherwise the hardware overruns,
which the code does not see.

**USB.** `usb` is a record of the variables of usb.c and the registers of endpoint
0, `host` what the host is doing. `usbPoll` is an operator on that record, in the
order of the tests in the code: bus events, `SETUP_END` and `SENT_STALL`, the OUT
packet, the IN packet; a poll takes microseconds, so it is one step between two
packets of the host. The class library is a pair of operator constants, which
`UsbCom` and `UsbHid` give by `INSTANCE ... WITH`, as a program links one of the
two: `library` of `UsbDevices`, which never changes, says which, and usb.c and the
host are the same variables for both. The OUT FIFO holds a SETUP packet or a number of bytes: the code tells them
apart by their length, 8, and with `USB_EP0_PACKET_SIZE = 2` no data has the
length of a SETUP packet, as the real requests have none. Lengths and indices stay, contents of
descriptors go. The host does what USB 2.0 lets it: it may reset the bus, suspend
it, be unplugged, and cut a transfer short with a SETUP packet at any point, but
it addresses and configures a device in the order of figure 9-1 there.

**SpiMaster, I2c, Servo, Board** are libraries against their hardware.
`spiNMasterBytesLeft` and `getMs` are cut where their interrupt is masked, at each
byte. In `I2c` a call is a position, the bit it is at and the step of that bit, so that
START, bits, acknowledgment and STOP are written once each, as in the code; the slave
may hold SCL low after any bit, and a wait may time out. `Servo` keeps the seven periods of
a round, the compare registers with their delayed loading, and the wait of
`servosStop` for an overflow.

**Containers** keep beside each array the sequence it stands for. **Conversions**
has one action, which asks a question (`question`): every answer is compared with a definition of what
it is for. **OneWire** takes one bit of a search a step, with devices that come and
go. **SerialI2c** is one turn of `i2cService` in two halves, since bytes are sent
between them. **FramingError, WirelessSerial, IoRepeater**: a turn of the main loop
is one step, a millisecond another. **Robot** splits the turn into reading, packet,
location and action; the picture is a line instead of a plane, which leaves
distances and headings and every comparison with them.

**Peripherals** and **Apps** put components that share nothing beside each other:
the constants and variables of each, a step of one of them at a time, and the
properties under one name for each kind of device. The proofs are about them. For
TLC, **MCPeripherals** and **MCApps** add the modules that are not proved about,
and `unit` chooses the one component that moves in a behaviour, so that the states
add up and do not multiply. **MCUsb**, **MCRadioComPlans** and **MCRadioQueue** do the same with
`plan`, the traffic of a behaviour.

## 3. Runs

| run | question | distinct states |
|---|---|---|
| `link_two_way` | both Wixels send over a radio that loses, corrupts and makes noise: `AcksAreRight` | 413,387 |
| `link_restart` | either Wixel restarts at any moment, and full buffers refuse packets: `ProtocolInv`, `InOrder`, `ConnectsOnlyWhenExpected`, `OwnedBuffersAreStable`, and the refinement `ImplementsReliableLink` | 250,536 |
| `link_free` | programs that queue before the connection and erase the queue: `TypeOK`, `QueuedDataIsNotForgotten` | 1.4 million |
| `link_live` | over a radio that loses, corrupts and makes noise: `EventuallyConnected`, `QueuedIsDelivered` | 78,004 |
| `link_reset_forgotten` | violation of `ResetIsNotForgotten` (section 5) | |
| `link_early_data` | violation of `InOrder` (section 5) | |
| `com` | bytes and signals through a full link with a `uint8` that wraps; a receiver that restarts: `RoomIsReal`, `StreamIsKept`, `ArriveInTheEnd` | 106,786 |
| `queue` | two Wixels, one of which accepts damaged packets: `QueuedDataIsNotForgotten`, `OrderIsKept`, `AllIsAired` | 197,342 |
| `uart_streams` | both directions, rings of three bytes: `BuffersInv`, `TxKeepsGoing`, `WireInOrder`, `GapsAreReported`, `AllIsSent` | 174,950 |
| `usb` | a host against a serial port and against keyboard, mouse and joystick: `RoomIsReal`, `DeviceIsAsReported`, `ControlTransfersAreWhole`, `DeviceGoesOn` | 44,521 |
| `peripherals` | the libraries and programs that stand alone: `BytesAreExchanged`, `ServosAreDriven`, `ContentsAreRight`, `BoardIsExact`, `ConversionsAreExact`, `SearchFindsAll`, `EndsAfterEveryTag`, `StepsAreSafe` | 1.04 million |
| `apps` | the loops of four programs, and the I2C bus: `NoByteIsRefused`, `OncePerChannel`, `RoundEnds`, `DeadIsReached`, `NotBackEarly`, `ProgramsGetThere`, `I2cTransfersAreWhole` | 107,767 |

What the properties say:

- *Nothing sleeps for ever.* `QueuedDataIsNotForgotten` (radio_link, radio_queue):
  a radio that listens without a timeout while a packet is queued is about to be
  woken. `TxKeepsGoing` (uart): while the ring holds a byte, the TX interrupt is
  enabled, or the loop is about to enable it, and it will fire. Both fail if two
  neighbouring instructions are swapped. `DeviceGoesOn` (USB): a host that waits
  for the end of a transfer gets it, it learns the serial state, also after it has configured the device
  anew, and an idle keyboard reports itself. `ProgramsGetThere`: a read of
  serial_i2c ends although the bus times out, a receiver that was switched off
  comes back, the square ends, an output pin follows its input.
- *Nothing is lost, repeated or swapped.* `InOrder`, `StreamIsKept`,
  `WireInOrder`, `OrderIsKept`, `BytesAreExchanged` (SPI),
  `I2cTransfersAreWhole`, `ContentsAreRight`;
  `AllIsSent`, `AllIsAired`, `ArriveInTheEnd` and `QueuedIsDelivered` say that all of it comes.
  `EventuallyConnected` says that two Wixels connect and stay connected, except one
  that has forgotten its Reset as item 1 of section 5 tells (`Forgets`); without
  damaged packets no Wixel gets there;
  `AcksAreRight`: an ACK means that a packet was
  queued, and a buffer is given back only when the peer holds its packet.
- *Buffers have one owner.* `OwnedBuffersAreStable`, `RoomIsReal` (radio_com: never a
  null packet, whatever the `uint8` makes of the room; USB: what the library
  believes of its FIFO is never less than what is in it, over resets it has not
  noticed yet), `BuffersInv` (indices, and which byte is in which place of the UART).
- *Order between kinds of data.* The second half of `StreamIsKept`: a byte is read
  under the signals it was sent under.
- *Losses are told.* `GapsAreReported`: before the program reads a byte that does
  not follow the last one, an error bit is set.
- *One request, one answer.* `ControlTransfersAreWhole`: a SETUP packet is never
  taken for the data of the transfer it cuts short, and a read returns the bytes it
  asked for. `DeviceIsAsReported`: host and device agree on the device's state,
  no released key stays pressed at the host, the bootloader starts neither before the status
  stage nor a wrap of the clock late.
- *Hardware that acts between two instructions.* `StepsAreSafe`: no servo pulse is
  cut, no servo passes its target, a robot out of sight stands. `I2cTransfersAreWhole`: no START or STOP appears
  on the wires that nobody made. `ServosAreDriven`: not moving means arrived, each pin has its own pulse.
  `BoardIsExact`: the four bytes of a time belong together, a call that copies them leaves
  the mask of Timer 4 as it was, also before `timeInit`, and clocks of one byte do not mistake a
  wrap for the present.
- *Searches and rounds.* `SearchFindsAll`: every device of the 1-Wire bus, once.
  `OncePerChannel`, `RoundEnds`, `DeadIsReached` for the multichannel rounds.
  `EndsAfterEveryTag`: no shuffle of the robot's path loses a tag.
- *Computations.* `ConversionsAreExact`: bit fields at every position and length,
  baud rates within the hardware's step, SPI not faster than asked, nor I2C as far as
  its sum of 16 bits goes (section 5 has what happens above), angles,
  key codes that are unique, CRCs that catch one wrong bit, descriptors that agree with
  the endpoints and with each other.
- *The protocol's own reasoning.*
  `ConnectsOnlyWhenExpected` says that a Wixel believes in the connection only
  when the peer will accept its first packet; `ProtocolInv` is the invariant that
  explains why one sequence bit is enough: the receiver is at most one packet
  ahead of what the sender knows, the bits are the parities of the two counts,
  and what is on the air agrees with both.

Several of these names join properties of the modules that an MC module holds
together; each part is stated, with its comment, in its own module. `PROJECT.json`
has one wrong version of the code for each property; where a property joins
several parts the modules have more of them, each of which makes it fail too:

| property | further wrong versions |
|---|---|
| `StreamIsKept`, `ArriveInTheEnd` | `ServiceKeepsBytes`, `MaySendPartAbove` |
| `OrderIsKept` | `RxFullNever` |
| `DeviceIsAsReported` | `ClearsWhenFull`, `BootloaderRequestedAgain` |
| `ControlTransfersAreWhole`, `DeviceGoesOn` | `GetDescriptorWhole`; `ServiceDataNoEmpty`, `LastReportedKept` |
| `BytesAreExchanged`, `I2cTransfersAreWhole` | `MaskOnReadNever`; `i2cReadBitHeld` |
| `ServosAreDriven`, `StepsAreSafe` | `DisableNever`; `checkActionOnce` |
| `ConversionsAreExact` | `joystickReportDescriptorBytes` |
| `ProgramsGetThere` | `ReadDoneUnlessTimeout`, `LineWasHighNever`, `PinByteSigned` |

**Bounds.** A passing run says something only about its instance; these are
chosen so that every branch of the code is taken.
`TX_PACKET_COUNT` and `RX_PACKET_COUNT` are 2 instead of 16 and 3: a ring of two
buffers holds one packet, so it is empty, full and wraps all the time.
`MAX_TRIES = 1`, `LONG_TRIES = 0` stand for 255 and 200: the counter saturates and
the long delay is taken. `MaxPackets`, `MaxBoots`, `MaxQueueResets`, `MaxBytes`,
`MaxChanges`, `MaxTx`, `MaxRx`, `MaxResets`, `MaxExchanged`, `MaxTimeouts`,
`MaxKeys`, `MaxPlugs`, `MaxUpdates` bound the traffic, with enough of it
to wrap each ring or, where both sides talk, to meet in both directions.
`com` uses `UINT8 = 5` and packets of 2 bytes, so that the product wraps as
15 * 18 does in a real byte; `apps` has the real 18, 15 and 256 for the channels, with three
channels instead of 16, 1 try instead of 254, and batches of 1 and 18 bytes.
`usb` has packets of 2 bytes in place of 8 and 64, descriptors of 1 to 4 bytes (shorter,
equal, longer and a multiple of the packet) and a clock of 6 values for the bootloader with a delay of
2: with a call at least every 3, delay and gap stay below the wrap, as 70 ms and
a loop of milliseconds do below 256. The other clocks are cut alike: Board 8
and 16 values, FramingError 8, IoRepeater 4; the constants named `MaxGap` say how
often the main loop comes round, and the properties do need that. SPI moves up to 3
bytes twice, I2C has bytes of 2 bits, servos use one pin of each port, with
targets that a speed does not divide so that the last step is a shorter one, OneWire has
addresses of 4 bits and 4 of them, Robot two tags and two trials.
`CHECK_DEADLOCK FALSE` stands where bounded traffic simply ends. `link_two_way`
and `link_free` use the symmetry of the two Wixels, which have the same bounds
there; no run with a liveness property does.

**Fairness**, and why the code justifies it:

- An interrupt that is pending is served, hardware finishes what it began, a main
  loop finishes the call it is in: weak fairness on these actions in every module.
- *RadioLink.* The interrupt is served and the main loop finishes its calls and
  reads what it receives (weak). A pause may be cut short by a packet or by noise
  again and again, but not always: strong fairness on `RxTimeoutEvent`. Of
  infinitely many packets that a Wixel sends on its own (PING, RESET) infinitely many
  arrive whole: this is what `randomTxDelay()` is for, without which both
  could transmit at the same moments for ever. The same of its answers (ACK, NAK).
  Nothing keeps any one packet from being lost or damaged.
- *RadioQueue.* Strong fairness on the timeout; nothing is assumed about who
  hears, since nothing waits for an answer.
- *RadioCom.* Main loops call the service and read functions regularly, which
  radio_com.h demands; the link below moves packets, which is what `RadioLink`
  shows it does.
- *Uart.* Interrupts, hardware and the rest of a call of `uartNTxSendByte`.
- *USB.* The main loop calls the service (weak) and a configured host polls the
  IN endpoints (weak), nothing else: it need not write, ask or keep the bus up. For
  the keyboard's idle report, strong fairness on a pass of the loop that finds the
  period over: the loop is faster than the clock of that period.
- *Programs.* Loops turn and time passes (weak). *MultiChannel*: nothing is assumed
  of the peers; rounds end whether or not anybody answers. *SerialI2c*: what is sent
  makes room again and again (strong). *IoRepeater*: of packets sent for ever a
  listener hears some (strong), the least without which nothing can be repeated.

## 4. Proofs

| theorem | says, for every value of the constants |
|---|---|
| `RadioLinkProofs!TypeCorrect` | `Spec => []TypeOK`: indices stay inside the buffers, the counter of tries saturates |
| `RadioLinkProofs!NoLostWakeup` | `Spec => []QueuedDataIsNotForgotten` |
| `RadioLinkProofs!ProtocolCorrect` | `Disciplined => (Spec => []ProtocolInv)` |
| `RadioLinkProofs!AcksCorrect` | `Disciplined => (Spec => []AcksAreRight)` |
| `RadioLinkProofs!DeliveryInOrder` | `Disciplined => (Spec => InOrder)` |
| `RadioLinkProofs!ConnectionExpected` | `Disciplined => (Spec => ConnectsOnlyWhenExpected)` |
| `RadioLinkProofs!OwnedBuffersStable` | `Spec => OwnedBuffersAreStable` |
| `RadioLinkProofs!LinkIsReliable` | `Disciplined => (Spec => ImplementsReliableLink)` |
| `RadioQueueProofs!TypeCorrect`, `!NoLostWakeup` | `Spec => []TypeOK`, `Spec => []QueuedDataIsNotForgotten` |
| `RadioQueueProofs!OrderKept` | `Spec => OrderIsKept` |
| `RadioComProofs!BuffersCorrect`, `!RoomReal` | `Spec => []BufferInv`, from it `Spec => []RoomIsReal` |
| `RadioComProofs!StreamKept` | `Spec => StreamIsKept` |
| `UartProofs!BuffersCorrect` | `Spec => []BuffersInv`, from `TypeCorrect`, `TxCorrect` and `RxCorrect` there |
| `UartProofs!WireOrder` | `Spec => WireInOrder` |
| `UartProofs!NoLostWakeup` | `Spec => []TxKeepsGoing` |
| `UartProofs!GapsReported` | `Spec => GapsAreReported` |
| `UsbProofs!TypeCorrect` | `Spec => []TypeOK`, of the serial port |
| `UsbProofs!RoomReal` | `Spec => []RoomIsReal` |
| `UsbProofs!HostAgreement`, `!BootloaderTimely` | `Spec => []HostAgrees`, `Spec => []BootloaderInTime` |
| `UsbProofs!DeviceReported` | `DevicesSpec => []DeviceIsAsReported`, of both libraries |
| `UsbProofs!TransfersWhole` | `DevicesSpec => ControlTransfersAreWhole`, of both libraries |
| `PeripheralProofs!SpiBytesAreExchanged` | `PeripheralsSpec => []BytesAreExchanged` |
| `PeripheralProofs!ServosStayDriven` | `PeripheralsSpec => []ServosAreDriven` |
| `PeripheralProofs!ContentsStayRight` | `PeripheralsSpec => []ContentsAreRight` |
| `PeripheralProofs!BoardStaysExact` | `PeripheralsSpec => []BoardIsExact` |
| `PeripheralProofs!SearchesFindAll` | `PeripheralsSpec => []SearchFindsAll` |
| `PeripheralProofs!RobotHitsEveryTag` | `PeripheralsSpec => []EndsAfterEveryTag` |
| `PeripheralProofs!StepsStaySafe` | `PeripheralsSpec => StepsAreSafe` |
| `AppProofs!BridgeRefusesNoByte` | `AppsSpec => []NoByteIsRefused` |
| `AppProofs!ReceiverIsNotBackEarly` | `AppsSpec => NotBackEarly` |
| `AppProofs!BatchGoesOncePerChannel` | `Spec => OncePerChannel`, of `MultiChannel` |
| `AppProofs!I2cTransfersStayWhole` | `AppsSpec => I2cTransfersAreWhole` |

**Assumptions.** They are named in the modules, and TLC evaluates them in the runs:

- Two different Wixels (any number in `RadioQueue`), rings of at least two
  elements, `LONG_TRIES < MAX_TRIES`, at least one life of each Wixel.
- `Disciplined`, where a theorem says so: programs wait for the connection before
  they queue and never erase the queue. It is a hypothesis and no assumption of the
  module, since section 5 shows what happens without it; the wakeup, the types and
  the ownership of buffers need no discipline.
- `RadioCom`: payload, capacities and the range of the byte are positive, nothing
  else; in particular the room may exceed the byte.
- `UsbCom`: the clock of the bootloader does not come round between two calls
  (`BootloaderDelay + MaxGap < UINT8`), and the host asks for no less than
  the answer of a request, except of a descriptor; of the states of one byte,
  for which usb.c sends one byte whatever is asked, it asks for exactly one.
- `UsbDevices`: the same of the requests of usb_hid.c: a report is asked for in full,
  idle rate and protocol with one byte. No report has the value 0, which stands for
  none.
- `Peripherals`: a target of a servo is 0, which is no pulse, or more than one tick, as
  multiples of 24 are; containers have room for an element, and no element is the NUL
  that ends a text; the services of `Board` are called before their byte of time
  comes round; the first byte of a 1-Wire address, its family, is not 0; the robot
  tries at least one order of its tags.
- `Apps`: a channel and a number of tries fit in their bytes. Of the clocks of
  serial_i2c and wireless_serial_jws nothing is assumed. A byte of the I2C bus has a bit
  at least and is what its bits make, the highest first (`BytesAreBits`), which TLC
  also evaluates for all bytes of 8 bits; a transfer has room for one byte.

Otherwise they hold for programs and hosts of any behaviour and any amount of
traffic: the bounds of the runs are constants, over which the theorems quantify.

**RingProofs** has the arithmetic: the successor of an index is in the ring, the
distance between two indices is below the size, a push adds one to it and a pop
takes one away, and two elements at the same distance are the same. These are
all the other proofs know about `%`.

**RadioLink, wakeup.** `QueuedDataIsNotForgotten` alone is not inductive: it must
exclude that the interrupt clears the strobe bit between the two instructions of
`radioMacStrobe`. `WakeupInv` says, of every Wixel that is asleep (radio off, or
listening without a timeout and no packet coming) and has a packet queued, that
either the loop has still to set the strobe bit, or the bit is set and the
interrupt is pending or about to be raised. The proof goes through the
actions; most of them touch one Wixel, and the lemmas `RadioMacTxOther` and
`RadioMacRxOther` say what the radio does to the other. `RadioQueueProofs` makes
the same argument for radio_queue.

**RadioLink, protocol.** `ProtocolInv` is inductive together with `TypeOK`. For each
direction it has four parts. What the sender knows: the bit is the
parity of the packets released in this life, and while a Reset is unanswered
nothing is queued or released. What the receiver knows: it is where the
sender believes it to be, or one packet ahead. What is on the air or just received:
data is the packet that the sender waits to see acknowledged, with the current
bit, and an ACK comes from a receiver that has it. What is in the rings: consecutive
packets, on the way out up to the last one queued, on the way in up to the last
one accepted. A restart is why a packet carries the life
of its sender: what a Wixel remembers of the peer's last life is
told apart from what it remembers of this one until the Reset has come. The lemmas
on parities and rings are first; then there is a step per action, and under it one per part
that the action disturbs.

**RadioLink implements ReliableLink.** Each step is mapped: the step of
`radioLinkTxSendPacket` that moves the index is `Send`; an event that takes
data is `Move`, or `ReleaseAndMove` when the packet also brings the ACK; an ACK alone is
`Release`; `radioLinkRxDoneWithPacket` is `Take`; a power cycle is `Restart`; everything else
is a stutter. The queues of the abstract link are sequences computed from ring and
indices, and the lemmas on `Contents` say how a push, a pop or a write outside the indices
changes them. `ProtocolInv` gives what the guards of the abstract actions ask for:
an accepted packet is the first that has not moved, a released one has.

**RadioQueue, order.** `OrderInv` counts: packets `aired + 1` to `nSent` lie
in the TX ring in this order, the radio sends the first of them, and what the RX
ring holds from one sender increases and is newer than all that was read.

**RadioCom.** `BufferInv` says that the packet being filled fits, that a buffer
of the link is free for it, and that the bytes left to read lie in the data packet at the
head of the queue, under the signals the program knows. `RoomIsReal` follows: the product modulo 256 is never more than
the product. `StreamInv` views a direction as one chain: the program that reads,
the packet it reads, the packets in the link from the first to the last, the packet
being filled, the program that writes. Each link of the chain begins where the one before
ends, in bytes and in control signals, so that a byte is read under the signals
it was written under. The state behind each packet of the queue is part of the chain itself
(`States`), as a fold over the queue would need an induction.

Together: `LinkIsReliable` gives `ReliableLink`, and `StreamKept` holds over
`ReliableLink`. That radio_com satisfies the discipline of the first is not
claimed (section 2).

**Uart.** `TxInv` says which byte is in each place between the program and the wire:
the ring holds the bytes that follow the one in the data register, which follows
the one in the shifter, which follows the last one sent. `WireInOrder` follows from it. It also says that an empty data register
has its flag set, so what is left of `TxKeepsGoing` is that the interrupt disables
itself only when the ring is empty. `RxInv` does the same for the way in, as long
as no error bit is set, and gives `GapsAreReported`.

**USB.** `ControlOK` relates the device's transfer to the host's. Either a SETUP
packet or a reset waits in the hardware, and then nothing is said of what the device
believes of its transfer, since it is about to forget it; or the transfer of the device
is that of the host's request: phase, what is left, and how much of the answer
the host has read. A host that abandons a transfer goes from the second to the
first. Address and configuration are in it too: while such a request is
under way the host does not know the state of the device, and at its end
the device is in the state that the request leads to. `HostAgrees` and `ControlTransfersAreWhole`
follow. `PortOK` says that with two packets in the FIFO the library
believes in no byte of a third, and that what it believes is never less than
what is there. `BootOK` relates the clock at the
request to the time passed since, which stays below the wrap. The lemmas at the beginning
of the module take `usbPoll` apart in the order of the code: bus events, SETUP,
OUT packet, IN packet.

What these lemmas need of a class library is `Handled`: that its handler of a SETUP
packet answers a read from the first byte of what is wanted on, cut to the length asked
for, and touches no register. The handlers of usb_cdc_acm.c and usb_hid.c are proved to
(`ClassHandled`, `HidClassHandled`), each with the standard requests and descriptors,
and `LibraryPolls` is the poll of either; so `ControlOK` is kept by both, and
`TransfersWhole` is about both. `ReportsOK` adds the reports. With no update waiting
the newest report in the FIFO, or else the one the host has seen, is the
present one; a poll that finds VBUS gone empties the FIFO, and what keeps an older report
that the host has seen from then being the newest is that a host without a cable has seen
none: it knows of a configuration only while it is on, and is on only while
VBUS is there, which is a part of `ControlOK`.

**Peripherals and Apps.** The components share nothing: `StepsAreOfTheirComponent` and
`StepsAreOfTheirProgram` say that a step is one of one component, and each has an
inductive invariant of its own.

- *SPI.* `SpiInv` counts: what the slave has taken and answered in this transfer, and
  the one byte that may be in the data register, are places in the sequence that is
  exchanged. A number that the program is reading byte by byte does not change
  while the interrupt is masked.
- *Servo.* A step of the interrupt ends between the position and the target
  (`InterruptApproaches`), hence no servo passes it. `TimerInv` says who will serve the next overflow: the interrupt, or the call
  that has switched it off and waits. `RegistersInv` follows the seven periods: the widths
  of a port are in the registers in one period and in use in the next, and in all others no
  register makes a pulse. `PulsesInv` adds up what each pin has had in this round.
  `PulsesAreWhole` follows, since a pin is given back only where no pulse can
  be running.
- *Containers.* `Holds` says that a circle of places has a sequence in it, beginning
  at a place. Two lemmas, one for an element put at the end and one for an element
  taken from the beginning, serve the queue, the ring of reports and the
  ring of text. What they need of `%` is proved first: a remainder is unique, and fewer steps
  than the size do not come back to the same place. The ring of text keeps a cell
  empty after its text, which holds also while a string overwrites what was not sent.
- *Board.* `MaskInv`: while `getMs` copies the bytes, Timer 4 is masked and
  `oldT4IE` holds the mask of before, which is whether `timeInit` has been called. `age` is the true time since a clock was read; the invariant says that the byte
  which the service computes equals it, which needs the calls to be less than a wrap
  apart.
- *OneWire.* The addresses of the devices are the leaves of a tree that is searched from left to
  right. `FoundInv` says that what is not found lies right of what was found last,
  from the last discrepancy on; `PathInv` that the search goes along the last path to that
  bit and there to the other side; `BranchInv` that `last_zero` is the last bit at
  which a device is left behind. At the end the path is the leftmost address
  not found, and `last_zero` says where the next one branches off, or that there is none.
- *Robot.* A shuffle is a function defined by recursion on the number of swaps. That it keeps
  the set of tags is proved by the number of swaps after which it would first have
  lost one. From this `RobotInv`: the cells tried, and the best ones kept, hold all the tags
  found, and a cell is marked visited only when its tag was hit.
- *Serial_i2c, framing errors.* `NoByteIsRefused` is inductive as it is. `WaitIsReal`: the
  wait that the program sees is not longer than the time the line was high.
- *Multichannel.* `Ascending`: the channels visited in this round lie below the
  counter, or the counter has come to its end; hence a channel that is revived in
  the middle of a round is not visited again.

- *I2C.* `I2cInv` says for every step of a call what the slave has of the byte and what each
  end does to the wires: `Taking` while the slave takes bits, `Sending` while it gives
  them, `Answers` at the acknowledgment. SDA changes while SCL is high in START
  and STOP only. A slave that stretches the clock takes the same bit later, when it lets
  SCL go (`TakingBit`), so that both orders lead to one state. After a timeout only the
  types of the wires are kept. A byte on the wires is a fold over its bits; since the slave
  is shown to hold exactly the bits of the byte, the assumption above gives the byte,
  and no induction over the fold is needed.

Where an argument needs induction over numbers (the remainders, the shuffle, the lowest
channel alive), it is stated as the absence of a least counterexample: the sets
of natural numbers have a least element by `WFMin` of the library, which takes a set
and no operator.

**Only model-checked.** All liveness properties: fairness and ENABLED are beyond this
prover. `ConversionsAreExact`: `Conversions` uses Bitwise, from which no theorem
can be reached. What a fold computes for sequences of every length would need an
induction in which the theorems of the library take an operator as a parameter, so the
models are written without folds where a proof has to look into one (`States` in
`RadioCom`, places in the sequences of the UART and SPI, bits of I2C). No module declares a RECURSIVE operator.

## 5. Disagreements between the code and its comments

Two are runs that expect a violation:

1. `link_reset_forgotten`. After a packet with a bad CRC the radio listens
   without a timeout unless data is queued (`radio_link.c:348`), also
   when its own Reset is still unanswered. `radioLinkInit` says that it keeps
   "trying to send a reset packet". If this happens on both sides, neither
   connects until a program queues data. It is the one exception that
   `EventuallyConnected` makes.
2. `link_early_data`. A packet queued before the connection can ride on the
   answer to received data (`radio_link.c:474`) while the Reset is unanswered.
   Its ACK is taken for that of the Reset; if it is lost, the Reset is repeated,
   the peer expects bit 0 again, and the packet is read twice, against the
   "reliable, ordered delivery" of radio_link.h.

Four more can be repeated with configurations that are kept beside the runs
(of `MCRadioLink`, `MCRadioCom` and `MultiChannel`):

| configuration | what TLC shows |
|---|---|
| `MCRadioLinkQueueReset` | `ReleasedWasAccepted` fails: `radioLinkTxQueueReset` (`radio_link.c:153`) does not stop a packet on the air, and its ACK releases the packet queued next, which was never sent |
| `MCRadioComSenderRestarts` | `SignalsArrive` fails: a sender that restarts has all signals 0 and does not say so, so its peer keeps the old ones |
| `MCRadioComRoom` | `RoomIsExact` fails: `radioComTxAvailable` computes 15 * 18 in a `uint8` (`radio_com.c:212`), where the comment says that it does not overflow; 270 free bytes are announced as 14. The value is never too large (`RoomIsReal`) |
| `MCMultiChannelApart` | `ChannelsAreApart` fails: the wait looks at the packets of radio_link only, so bytes held by radio_com can go out on the next channel |

Ten more are stated as properties that TLC refutes when they are put in a
configuration in place of its own properties: `MCMultiChannelApart.cfg` for the
first three, with `BatchSizes = {18}` for the first, the configuration of the run of the
module, with `MCSpec`, for the others:

| module, property | what the code does |
|---|---|
| `MultiChannel`, `WholeBatch` | the same 14 cuts a batch of 18 bytes, where the comment says the case never occurs (`wireless_serial_multichannel.c:205`) |
| `MultiChannel`, `TimedOutIsDropped` | the channel dropped at a timeout is `channelCounter - 1`, not the one the radio is on; after the end of the list that is a shift by -1, which drops none |
| `MultiChannel`, `HeartbeatRevives` | live channels are skipped by a comparison with `!0x0`, which is 1, so a heartbeat may be spent on a live channel |
| `MCApps`, `EarlierTimeoutIsForgotten` | `i2cStart` and `i2cStop` test `internalTimeoutOccurred` and do not clear it (`i2c.c:100`, `:122`), so that a timeout of an earlier call ends them, against the comment at `i2c.c:25` |
| `MCPeripherals`, `ReadingsGoToTheirTag` | `permuteAprilTagsList` shuffles `locations` only, so that a later reading of a tag is averaged into another one's cell, against the comment in `readCameraInfo` |
| `MCApps`, `WritesAreStarted` | a command that timed out is stopped (`serial_i2c.c:228`), but `state` stays in the middle of it: the next byte is taken for its address or data and written without a START |
| `MCPeripherals`, `Conversion!HalfPeriodIsInRange` | `i2cSetFrequency` adds 499 and the frequency in 16 bits (`i2c.c:45`): from 65037 kHz on the sum wraps and the half period is 0, so that SCL has no delay at all, against `i2c.h:33`, which limits frequencies to 2-500 kHz, and "never higher" than asked |
| `MCPeripherals`, `Conversion!AngleIsBetween0And360` | `standardizeAngle` returns -180 to 180, which its callers need, where its comment says "between 0 and 360" (`trig_utils.c:24`) |
| `MCUsb`, `EndpointStatusIsAnswered` | GET_STATUS of an endpoint tests wValue, which is 0, in place of wIndex (`usb.c:488`), and is refused for the endpoints of which `usb.c:502` says that they never stall |
| `MCUsb`, `EveryPathClearsTheFlag` | `usb.c:155` demands that every path from OUTPKT_RDY clears it; the path of a control read does not, and leaves it to the next poll, which takes what is left for an unexpected packet |

`DeadIsReached` passes although `HeartbeatRevives` fails: a heartbeat that hits
a live channel moves on, and every dead channel has its turn.

Seen while reading, without a property of their own: `usb_cdc_acm.c:380` waits 70 ms
where its comment says 50; `Brake()` of motors.c does what `StopMotors()` does, where
its comment says hard brake; `servosMovingFlag` stays set over `servosStop` and
`servosStart`; after a NACK `i2cWriteByte` has stopped already, and the program's
own `i2cStop` then makes a START and a STOP on the wires; an empty 1-Wire bus
passes the CRC, as zeros do, so that "No OneWire devices found" is never sent;
in wireless_serial_jws the duty is set to its constant in each turn, which
overrides the key `p`, and the motors keep turning when USB is plugged in, as
those of the other robot do; that robot has a comparison in place of an assignment
at line 316 and a loop at 717 that never runs, since `(int8)256` is 0, and
a robot unseen for exactly 2500 ms neither acts nor brakes.

## 6. What is not covered

- `radioLinkChangeChannel`, which drives the radio from the main loop without
  masking the interrupt: what the CC2511 does when it is strobed with its DMA channel
  armed is not in the source. In `MultiChannel` it is one step.
- TX underflow and RX overflow of the radio, and the flag for the activity LED.
- Payloads of length 0, which radio_link neither acknowledges nor refuses.
- In `RadioCom`, the time before the connection (section 2); after a receiver's restart,
  bytes may be read before the signals they were sent under have come again, so
  `StreamIsKept` is about behaviours without one.
- `usbSleep` and the start of the USB module, which wait for the hardware; empty
  OUT packets from the host, which would block the endpoint and which the host drivers
  of this class do not send; class requests that ask for less than the answer.
- `INPKT_RDY` of the empty packet that ends a control write is not told apart
  from `DATA_END`, which is set with it; of a request's type and interface
  only whether they are those of the class is modelled.
- What the bus looks like in the calls of I2C that follow a timeout: section 5 has how a
  timeout ends a later call, and `I2cTransfersAreWhole` says nothing from then on.
- Setters that write registers (parity, stop bits, SPI's polarity and order) and
  getters that only read; pins, ADC, DMA and timers as such; LEDs except the green
  one and the red one of wireless_serial_jws; texts.
- Programs that call a library against its header: an SPI transfer while one is under way,
  a service that is not called for longer than its clock of one byte lasts, an
  interrupt that is not served within a byte of the UART.
- In `OneWire`, the timing inside a bit; in `I2c`, several slaves; in `Robot`, the
  second coordinate.
- Other applications: `wireless_serial`, `wireless_serial_lcc` and `usb_serial` are
  wireless_serial_jws with parts left out or other commands; the users of
  radio_queue besides io_repeater send or print without state; the rest are
  examples and hardware tests. `PROJECT.json` lists each.
- Hazards without a property, with the reason, are in `PROJECT.json`: the two of
  `radioLinkTxQueueReset` and `radioLinkChangeChannel`, and the bytes that go
  out on the next channel, are disagreements of section 5 or of this list.

## 7. Plan

Every safety property of the runs is proved but one, `ConversionsAreExact`. What is left:

1. The timing inside a bit of `OneWire`, and the other applications, if they grow
   state of their own.
