----------------------------- MODULE UsbDevices -----------------------------
(***************************************************************************)
(* The devices that usb.c can be: the serial port of usb_cdc_acm.c or the  *)
(* keyboard, mouse and joystick of usb_hid.c.  A program is linked with    *)
(* one of the two libraries, and usb.c and the host are the same for both. *)
(***************************************************************************)
EXTENDS UsbCom

CONSTANTS
  hidNumInterfaces, hidStringDescriptorCount,  \* usb_hid.c's own: 3 and 7
  UINT16, IdleDuration, Reports, MaxUpdates

\* A host asks for no less than a report, and for the one byte of a state.
ASSUME HidAssumption ==
  /\ Reports # {} /\ 0 \notin Reports  \* a host that has seen no report has seen 0
  /\ \A src \in {"input", "hid", "report"} : Length[src] \in Nat
  /\ \A r \in Requests :
       /\ r.request = "GET_REPORT" => r.len >= Length["input"]
       /\ r.request \in {"GET_IDLE", "GET_PROTOCOL"} => r.len = 1

VARIABLES library,  \* "com" or "hid"
          input, updated, hidKeyboardIdleDuration, sinceReport, protocol,
          usbHidKeyboardOutput, fifo, seen, updates

Hid == INSTANCE UsbHid WITH bNumInterfaces <- hidNumInterfaces,
                            usbStringDescriptorCount <- hidStringDescriptorCount

comVars == <<usbComControlLineState, dataVars, signalVars, bootVars>>
hidVars == <<input, updated, hidKeyboardIdleDuration, sinceReport, protocol,
             usbHidKeyboardOutput, fifo, seen, updates>>
devicesVars == <<vars, library, hidVars>>

DevicesInit == Init /\ Hid!Init /\ library \in {"com", "hid"}

DevicesNext ==
  /\ UNCHANGED library
  /\ \/ library = "com" /\ Next /\ UNCHANGED hidVars
     \/ library = "hid" /\ Hid!Next /\ UNCHANGED comVars

DevicesSpec == DevicesInit /\ [][DevicesNext]_devicesVars

------------------------------------------------------------------------------
(* Properties *)

\* What the device says of itself is so: host and device agree on the state
\* of the device, a report shows the joystick's or the keyboard's
\* newest state, and the bootloader starts in time (usb.c, usb_hid.c,
\* usb_cdc_acm.c).
DeviceIsAsReported == HostAgrees /\ BootloaderInTime /\ Hid!ReportIsCurrent

\* A SETUP packet is taken as one, whatever transfer it cuts short: never as
\* the data of a control write.
SetupIsNotData ==
  [][(Service \/ Hid!usbHidService) /\ TakesPacket(usb) /\ usb.out.setup
       => usb'.setup = usb.out.req]_devicesVars

\* A control read answers the request it was made for, from the first byte
\* on, and the host ends it with all the bytes it asked for that exist.
ReadsAreExact ==
  [][/\ DataIn => usb.in.src = Wanted(host.req) /\ usb.in.at = host.got
     /\ (Status /\ Reads(host.req)) =>
          host.got = Min2(host.req.len, Length[Wanted(host.req)])]_devicesVars

\* A control transfer is one request's: its data is not that of the request it
\* cuts short, and the host reads what it asked for (usb.c).
ControlTransfersAreWhole == SetupIsNotData /\ ReadsAreExact
=============================================================================
