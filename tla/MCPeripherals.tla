--------------------------- MODULE MCPeripherals ---------------------------
\* The libraries and the programs that stand alone, one of them to a behaviour:
\* those of Peripherals, and the computations, which work on bits.
EXTENDS Peripherals, TLC

VARIABLES unit, question

mcVars == <<unit, peripheralVars, question>>

\* Values for the constants that a configuration cannot write.
MCPins == {<<2, 12>>, <<12>>}
MCTargets == 0 :> {0, 2, 5} @@ 3 :> {0, 3}
MCStrings == {<<1>>, <<1, 2, 1>>}
MCAddresses == {<<1, 0, 0, 0>>, <<1, 0, 1, 0>>, <<0, 1, 1, 1>>, <<1, 1, 0, 1>>}

Packet(s) == [i \in 0..4 |-> s[i + 1]]
Conversion == INSTANCE Conversions WITH
  Roms <- {<<40, 1, 2, 3, 4, 5, 6>>, <<16, 255, 0, 255, 0, 170, 85>>},
  Packets <- {Packet(<<255, 255, 255, 255, 255>>), Packet(<<253, 170, 85, 204, 51>>),
              Packet(<<252, 1, 128, 127, 254>>), Packet(<<0, 0, 0, 0, 1>>)},
  Rates <- {0, 22, 23, 24, 45, 300, 9600, 46875, 115200, 495782, 495783, 495784, 500000, 991564,
            991566, 1000000, 1500000, 1500001, 2999999, 3000000, 3000001},
  Frequencies <- {0, 1, 2, 3, 100, 333, 400, 499, 500, 501, 1000, 65035, 65036, 65037,
                  65535},
  Angles <- {-540, -361, -180, -179, 0, 1, 90, 179, 180, 181, 360, 539, 540, 720}

Units == {"spi", "servo", "queue", "stack", "report", "text", "board", "conversions",
          "onewire", "robot"}

MCInit ==
  /\ unit \in Units
  /\ PeripheralsInit /\ Conversion!Init
  /\ unit # "robot" => currentMode = "tethered"
  /\ unit # "onewire" => devices = {}
  /\ Cardinality(used) <= 1
  /\ unit # "board" => used = {} /\ T4IE
  /\ used # {"vbus"} => vbus
  /\ used # {} => T4IE

\* Of the services of Board a program calls one, or else it copies the time.
OneService ==
  /\ used # {} => boardPc' = "main"
  /\ used # {"vbus"} => vbus' = vbus
  /\ used # {"led"} => usbDeviceState' = usbDeviceState

OneContainer ==
  /\ unit # "queue" => queue' = queue
  /\ unit # "stack" => stack' = stack
  /\ unit # "report" => report' = report
  /\ unit # "text" => text' = text

PeripheralStep ==
  \/ unit = "spi" /\ SpiStep
  \/ unit = "servo" /\ ServoStep
  \/ unit \in {"queue", "stack", "report", "text"} /\ ContainerStep /\ OneContainer
  \/ unit = "board" /\ BoardStep /\ OneService
  \/ unit = "onewire" /\ OneWireStep
  \/ unit = "robot" /\ RobotStep

MCNext ==
  /\ UNCHANGED unit
  /\ \/ PeripheralStep /\ UNCHANGED question
     \/ unit = "conversions" /\ Conversion!Next /\ UNCHANGED peripheralVars

MCSpec == MCInit /\ [][MCNext]_mcVars

-----------------------------------------------------------------------------
\* The computations and the tables are what they are meant to be (packet.c,
\* uart.c, spi_master.c, i2c.c, trig_utils.c, usb_hid.c, onewire.c).
ConversionsAreExact == Conversion!ConversionsAreExact

\* What the comment says of the tags found ("See if this tag is already in the
\* i'th cell of the locations array", readCameraInfo).
ReadingsGoToTheirTag == TagRobot!ReadingsGoToTheirTag
=============================================================================
