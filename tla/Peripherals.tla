----------------------------- MODULE Peripherals -----------------------------
(***************************************************************************)
(* The libraries and programs that stand alone and need no bits of bytes:  *)
(* spi_master, servo, the containers, the clock of the board with what it  *)
(* times, the search of onewire and the robot with April tags.  They share *)
(* nothing, so a step of one leaves the others as they are.                *)
(***************************************************************************)
EXTENDS Integers, Sequences, FiniteSets

CONSTANTS
  TxBytes, MaxSize, MaxExchanged, SpiUINT8,                              \* SpiMaster
  Pins, Targets, Speeds, UINT16,                                         \* Servo
  Tuples, QContSize, SContSize, BUFSIZE, TxAvailable, NoTuple, Strings,  \* Containers
  bytesToTransmitPerCall, sizeOfCircularBuffer,
  UINT8, UINT32, CheckPeriod, Hold, BlinkBit, MaxGap,                    \* Board
  Addresses, ROMBITS, BYTEBITS, MaxChanges,                              \* OneWire
  Tags, numberOfAprilTagLocations, Spots, Headings, SeenEvery,           \* Robot
  AverageEvery, AverageUpTo, numberOfTrials, PacketSize, TooLong, NoTag

ASSUME SpiAssumption == MaxSize \in Nat /\ MaxExchanged \in Nat /\ SpiUINT8 \in Nat \ {0}

\* A servo has one of the six internal numbers.  servoSetTarget makes a target
\* of whole microseconds, 24 to each and 2500 at most: 0, which is no pulse, or
\* a width far from that of the compare value that stands for none.
ASSUME ServoAssumption ==
  /\ DOMAIN Targets \subseteq 0 .. 5 /\ UINT16 \in Nat /\ UINT16 > 2
  /\ \A c \in DOMAIN Targets : Targets[c] \subseteq {0} \cup 2 .. UINT16 - 1
  /\ Speeds \subseteq Nat

\* There is room for an element in a queue, beside the slot that stays empty.
\* Nothing pushed is the NUL that ends the text.
ASSUME ContainerAssumption ==
  /\ QContSize \in Nat \ {0, 1} /\ {BUFSIZE, sizeOfCircularBuffer} \subseteq Nat \ {0}
  /\ SContSize \in Nat
  /\ TxAvailable \subseteq Nat /\ bytesToTransmitPerCall \in Nat
  /\ Strings \subseteq Seq(Tuples) /\ NoTuple \notin Tuples

\* The clock of one byte does not come round between two calls of a service.
ASSUME BoardAssumption ==
  /\ UINT8 \in Nat \ {0} /\ UINT32 \in Nat \ {0} /\ UINT32 % UINT8 = 0
  /\ CheckPeriod \in Nat /\ Hold \in Nat /\ BlinkBit \in Nat \ {0} /\ MaxGap \in Nat \ {0}
  /\ CheckPeriod < UINT8 - UINT8 \div 2 /\ MaxGap <= UINT8 \div 2
  /\ CheckPeriod + MaxGap < UINT8 /\ Hold + MaxGap < UINT8

ASSUME OneWireAssumption ==
  /\ ROMBITS \in Nat \ {0} /\ BYTEBITS \in 1 .. ROMBITS /\ MaxChanges \in Nat
  /\ Addresses \subseteq [1 .. ROMBITS -> {0, 1}]
  /\ \A a \in Addresses : \E i \in 1 .. BYTEBITS : a[i] = 1

\* The path that is driven is one of those that were tried.
ASSUME RobotAssumption ==
  /\ numberOfAprilTagLocations \in Nat /\ numberOfTrials \in Nat \ {0} /\ TooLong \in Nat
  /\ Spots \subseteq Int /\ AverageUpTo \in Nat

VARIABLES
  spiTxBuffer, txPointer, spiRxBuffer, bytesLeft, URXNIE, URXNIF, UNDBUF, spiSlave, spiPc,
  bytes, first,
  servosStarted, servosMovingFlag, servoCounter, servoAssignment, servoData, servoPins, SEL,
  T1CC, active, T1IE, T1IF, T1on, T1CFG, early, stopping, pulses, due,
  queue, stack, report, text, queued, stacked, written, unsent,
  timeMs, T4IE, T4IF, boardPc, oldT4IE, time, timing, vbus, vbusHighBit, lastCheck, greenLed,
  usbDeviceState, usbActivityFlag, usbBlinkActive, usbLastActivity, usbBlinkStart, used,
  age, gap, quiet,
  ROM_NO, LastDiscrepancy, LastDeviceFlag, id_bit_number, last_zero, selected, devices, changes,
  found, steady,
  locations, backup_locations, listOfTagsFound, numberOfTagsFound, robot, foundMyTag, firstTime,
  waitForKeyPressToStart, readstate, packetsRead, randomSamples, bestScore, currentAction,
  motors, power, unseen, robotPc, currentMode, returned, hit

spiVars == <<spiTxBuffer, txPointer, spiRxBuffer, bytesLeft, URXNIE, URXNIF, UNDBUF, spiSlave,
             spiPc, bytes, first>>
servoVars == <<servosStarted, servosMovingFlag, servoCounter, servoAssignment, servoData,
               servoPins, SEL, T1CC, active, T1IE, T1IF, T1on, T1CFG, early, stopping, pulses, due>>
containerVars == <<queue, stack, report, text, queued, stacked, written, unsent>>
boardVars == <<timeMs, T4IE, T4IF, boardPc, oldT4IE, time, timing, vbus, vbusHighBit, lastCheck,
               greenLed, usbDeviceState, usbActivityFlag, usbBlinkActive, usbLastActivity,
               usbBlinkStart, used, age, gap, quiet>>
oneWireVars == <<ROM_NO, LastDiscrepancy, LastDeviceFlag, id_bit_number, last_zero, selected,
                 devices, changes, found, steady>>
robotVars == <<locations, backup_locations, listOfTagsFound, numberOfTagsFound, robot, foundMyTag,
               firstTime, waitForKeyPressToStart, readstate, packetsRead, randomSamples, bestScore,
               currentAction, motors, power, unseen, robotPc, currentMode, returned, hit>>
peripheralVars == <<spiVars, servoVars, containerVars, boardVars, oneWireVars, robotVars>>

Spi == INSTANCE SpiMaster WITH UINT8 <- SpiUINT8, txBuffer <- spiTxBuffer,
         rxBuffer <- spiRxBuffer, slave <- spiSlave, pc <- spiPc
Servos == INSTANCE Servo
Container == INSTANCE Containers
Wixel == INSTANCE Board WITH pc <- boardPc
OneWireBus == INSTANCE OneWire
TagRobot == INSTANCE Robot WITH pc <- robotPc

PeripheralsInit ==
  /\ Spi!Init /\ Servos!Init /\ Container!Init
  /\ Wixel!Init /\ OneWireBus!Init /\ TagRobot!Init

SpiStep ==
  Spi!Next /\ UNCHANGED <<servoVars, containerVars, boardVars, oneWireVars, robotVars>>
ServoStep ==
  Servos!Next /\ UNCHANGED <<spiVars, containerVars, boardVars, oneWireVars, robotVars>>
ContainerStep ==
  Container!Next /\ UNCHANGED <<spiVars, servoVars, boardVars, oneWireVars, robotVars>>
BoardStep ==
  Wixel!Next /\ UNCHANGED <<spiVars, servoVars, containerVars, oneWireVars, robotVars>>
OneWireStep ==
  OneWireBus!Next /\ UNCHANGED <<spiVars, servoVars, containerVars, boardVars, robotVars>>
RobotStep ==
  TagRobot!Next /\ UNCHANGED <<spiVars, servoVars, containerVars, boardVars, oneWireVars>>

PeripheralsNext ==
  SpiStep \/ ServoStep \/ ContainerStep \/ BoardStep \/ OneWireStep \/ RobotStep

PeripheralsSpec == PeripheralsInit /\ [][PeripheralsNext]_peripheralVars

-----------------------------------------------------------------------------
\* The properties of the modules, those of one kind of device together.

\* Bytes cross SPI unchanged and in order, and spiMasterBytesLeft tells what is
\* still to come (spi_master.c).
BytesAreExchanged == Spi!Exchanged /\ Spi!BytesLeftIsExact

\* A servo that does not move has arrived, and gets no pulse that is not its
\* own (servo.c, servosMoving and the interrupt).
ServosAreDriven == Servos!NotMovingMeansThere /\ Servos!PulseIsOwn

\* The containers hold what they stand for (queue.c, stack.c, reporting.c).
ContentsAreRight == Container!ContentsAreRight

\* The time, the USB power and the green LED (time.c, board.c, usb.c).
BoardIsExact == Wixel!BoardIsExact

\* A search of the 1-Wire bus finds every device on it (onewire_search).
SearchFindsAll == OneWireBus!SearchFindsAll

\* The robot ends when it was near every tag (jwsRunRobot).
EndsAfterEveryTag == TagRobot!EndsAfterEveryTag

\* No pulse that is cut, no servo that passes its target, no robot that drives
\* on unseen (servo.c, checkAction).
StepsAreSafe ==
  Servos!PulsesAreWhole /\ Servos!NeverPastTarget /\ TagRobot!UnseenRobotStops
=============================================================================
