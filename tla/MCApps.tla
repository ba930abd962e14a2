------------------------------- MODULE MCApps -------------------------------
\* The programs whose main loops must get somewhere, one of them to a
\* behaviour: those of Apps, wireless_serial_jws (its driving) and io_repeater;
\* and the I2C bus.
EXTENDS Apps, TLC

VARIABLES
  unit,
  usbPower, vinPower, currentSerialMode, waitForKeyPressToStart, state, waitAtLeastThisLong,
  elapsed, motors, set_pwm, duty, received, keys, plugs,
  level, sending, arrived, sinceTx, txInterval, ioGap

serialVars == <<usbPower, vinPower, currentSerialMode, waitForKeyPressToStart, state,
                waitAtLeastThisLong, elapsed, motors, set_pwm, duty, received, keys, plugs>>
repeaterVars == <<level, sending, arrived, sinceTx, txInterval, ioGap>>
mcVars == <<unit, appsVars, serialVars, repeaterVars>>

Serial == INSTANCE WirelessSerial WITH param_serial_mode <- 0, Keys <- {"g", "p", "w"},
            MaxReceived <- 2, MaxKeys <- 3, MaxPlugs <- 2, Forward <- 2, Turning <- 1,
            Braking <- 1, Begin <- 1
\* I2C as it is in the code, with bytes of 8 bits: they too are what their bits make.
WideBus == INSTANCE I2c WITH BITS <- 8, Bytes <- 0..255, started <- busStarted,
             i2cTimeoutOccurred <- busTimeoutOccurred
ASSUME WideBytesAreBits == WideBus!BytesAreBits
Repeater == INSTANCE IoRepeater WITH Links <- <<<<-1, -2>>, <<2, 0, 1>>>>, Intervals <- {0, 1},
              QueueSize <- 1, UINT8 <- 4, MaxGap <- 1, gap <- ioGap

Units == {"channels", "bridge", "framing", "bus", "serial", "repeater"}

MCInit ==
  /\ unit \in Units
  /\ AppsInit /\ Serial!Init /\ Repeater!Init
  /\ unit # "serial" => usbPower /\ vinPower

AppStep ==
  \/ unit = "channels" /\ ChannelsStep
  \/ unit = "bridge" /\ BridgeStep
  \/ unit = "framing" /\ FramingStep
  \/ unit = "bus" /\ BusStep

MCNext ==
  /\ UNCHANGED unit
  /\ \/ AppStep /\ UNCHANGED <<serialVars, repeaterVars>>
     \/ unit = "serial" /\ Serial!Next /\ UNCHANGED <<appsVars, repeaterVars>>
     \/ unit = "repeater" /\ Repeater!Next /\ UNCHANGED <<appsVars, serialVars>>

MCSpec == MCInit /\ [][MCNext]_mcVars

\* The fairness of each module, for the behaviours of its unit.
ChannelsFair ==
  /\ WF_vars(unit = "channels" /\ (RadioComTxService \/ UsbToRadioService))
  /\ WF_vars(unit = "channels" /\ HeartbeatTimePasses)
BridgeFair ==
  /\ WF_bridgeVars(unit = "bridge" /\ (Bridge!i2cServiceServes \/ Bridge!i2cServiceDoesNotSend))
  /\ SF_bridgeVars(unit = "bridge" /\ Bridge!i2cServiceSends)
FramingFair ==
  /\ WF_framingVars(unit = "framing" /\ Framing!Turn)
  /\ WF_framingVars(unit = "framing" /\ Framing!Millisecond)
SerialFair ==
  /\ WF_serialVars(unit = "serial" /\ Serial!Turn)
  /\ WF_serialVars(unit = "serial" /\ Serial!Millisecond)
RepeaterFair ==
  /\ \A w \in {1, 2} : WF_repeaterVars(unit = "repeater" /\ Repeater!Turn(w))
  /\ WF_repeaterVars(unit = "repeater" /\ Repeater!Millisecond)
  /\ WF_repeaterVars(unit = "repeater" /\ Repeater!Heard(1))
  /\ SF_repeaterVars(unit = "repeater" /\ Repeater!HeardBy(1, {2}))

MCFairSpec == MCSpec /\ ChannelsFair /\ BridgeFair /\ FramingFair /\ SerialFair /\ RepeaterFair

-----------------------------------------------------------------------------
\* The loops of the four programs get where they must: a read is answered to
\* its end, the receiver comes back, the square ends, an output follows the
\* input it is linked with.
ProgramsGetThere ==
  /\ Bridge!ReadsEnd /\ Framing!ReceiverComesBack /\ Serial!SquareEnds
  /\ unit = "repeater" => Repeater!OutputsFollow

\* What a comment says of a command that timed out ("The current command has
\* timed out.", serial_i2c.c): a write that is begun after it is started.
WritesAreStarted == Bridge!WritesAreStarted

\* What the comment says of a timeout of I2C ("so an earlier timeout doesn't
\* affect a later call", i2c.c).
EarlierTimeoutIsForgotten == I2cBus!EarlierTimeoutIsForgotten
=============================================================================
