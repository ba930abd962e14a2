------------------------------- MODULE UsbHid -------------------------------
(***************************************************************************)
(* libraries/src/usb_hid/usb_hid.c over usb.c: a keyboard, a mouse and a   *)
(* joystick in one device.  A report is a value; the program changes it    *)
(* and sets the Updated flag between two calls of usbHidService.           *)
(***************************************************************************)
EXTENDS UsbTransfer

CONSTANTS
  USB_EP0_PACKET_SIZE, Requests, Length, bNumInterfaces, usbStringDescriptorCount,
  UINT16,      \* 65536, scaled: the clock of the keyboard's idle reports
  IdleDuration,  \* 500 ms, scaled
  Reports,     \* the values of a report
  MaxUpdates   \* bound: changes of the reports by the program

VARIABLES
  usb, host,
  input, updated,           \* usbHid...Input, usbHid...InputUpdated
  hidKeyboardIdleDuration,
  sinceReport,              \* (uint16)(getMs() - hidKeyboardLastReportTime)
  protocol,                 \* hidKeyboardProtocol, hidMouseProtocol
  usbHidKeyboardOutput,
  fifo,                     \* the IN endpoint of each interface
  seen,                     \* the last report the host got, since it reset the bus
  updates

hidVars == <<input, updated, hidKeyboardIdleDuration, sinceReport, protocol,
             usbHidKeyboardOutput, fifo, seen, updates>>
vars == <<usb, host, hidVars>>

Interfaces == <<"keyboard", "mouse", "joystick">>  \* numbered from 0
Devices == {"keyboard", "mouse", "joystick"}
NotSeen == 0  \* no member of Reports

\* The class requests; setup.n is wIndex, the number of the interface, and
\* setup.what the type or the value that wValue holds.
OfTheClass(r) == r.type = "class"

usbCallbackSetupHandler(s) ==
  LET r == s.setup.request
      known == s.setup.n < Len(Interfaces)
      keyboard == s.setup.n = 0
      boot == s.setup.n < 2
  IN IF ~OfTheClass(s.setup) THEN s
     ELSE CASE r = "GET_REPORT" /\ s.setup.what = "input" /\ known ->
                 usbControlRead(s, Length["input"], "input")
            [] r = "SET_REPORT" /\ keyboard -> usbControlWrite(s, 1, "output")
            [] r = "GET_IDLE" /\ keyboard -> usbControlRead(s, 1, "response")
            [] r = "SET_IDLE" /\ keyboard -> usbControlAcknowledge(s)
            [] r = "GET_PROTOCOL" /\ boot -> usbControlRead(s, 1, "response")
            [] r = "SET_PROTOCOL" /\ boot -> usbControlAcknowledge(s)
            [] OTHER -> s

usbCallbackClassDescriptorHandler(s) ==
  IF s.setup.what \in {"hid", "report"} /\ s.setup.n < Len(Interfaces)
  THEN usbControlRead(s, Length[s.setup.what], s.setup.what) ELSE s

INSTANCE UsbControl WITH ClassSetup <- usbCallbackSetupHandler,
                         ClassDescriptor <- usbCallbackClassDescriptorHandler

Init ==
  /\ UsbInit
  /\ input = [d \in Devices |-> CHOOSE v \in Reports : TRUE]
  /\ updated = [d \in Devices |-> FALSE]
  /\ hidKeyboardIdleDuration = IdleDuration /\ sinceReport = 0
  /\ protocol = [d \in {"keyboard", "mouse"} |-> "report"]
  /\ usbHidKeyboardOutput = 0
  /\ fifo = [d \in Devices |-> <<>>] /\ seen = [d \in Devices |-> NotSeen]
  /\ updates = 0

------------------------------------------------------------------------------
\* Mutant: only an update is reported.
DueWhenUpdated(d) == updated[d] /\ Len(fifo[d]) < 2

\* usbHidService reports what was updated; the keyboard also when the idle
\* period, if there is one, is over.
Due(d) == /\ \/ updated[d]
             \/ /\ d = "keyboard" /\ hidKeyboardIdleDuration > 0
                /\ sinceReport > hidKeyboardIdleDuration
          /\ Len(fifo[d]) < 2

\* Mutant: the flag is reset, whether or not there was room for the report.
ClearsWhenFull(d) == TRUE
Clears(d) == Due(d)

Report ==
  /\ fifo' = [d \in Devices |-> IF Due(d) THEN Append(fifo[d], input[d]) ELSE fifo[d]]
  /\ updated' = [d \in Devices |-> updated[d] /\ ~Clears(d)]
  /\ sinceReport' = IF Due("keyboard") THEN 0 ELSE sinceReport

\* What the setup handler, which runs in the poll, changes of this module.
SetIdle == Handles(usb, "SET_IDLE") /\ OfTheClass(usb.out.req) /\ usb.out.req.n = 0
SetProtocol == Handles(usb, "SET_PROTOCOL") /\ OfTheClass(usb.out.req) /\ usb.out.req.n < 2

usbHidService ==
  /\ usbPoll
  /\ hidKeyboardIdleDuration' = IF ~SetIdle THEN hidKeyboardIdleDuration
                                ELSE IF usb.out.req.what = "off" THEN 0 ELSE IdleDuration
  /\ protocol' = IF SetProtocol
                 THEN [protocol EXCEPT ![Interfaces[usb.out.req.n + 1]] = usb.out.req.what]
                 ELSE protocol
  /\ usbHidKeyboardOutput' = IF usbCallbackControlWriteHandlerCalled(usb)
                             THEN 1 ELSE usbHidKeyboardOutput
  /\ IF usb'.state = "CONFIGURED" THEN Report
     ELSE /\ UNCHANGED <<updated, sinceReport>>
          /\ fifo' = IF usb.vbus THEN fifo ELSE [d \in Devices |-> <<>>]
  /\ UNCHANGED <<host, input, seen, updates>>

\* The program: usbHidKeyboardInput and the flag.
UpdateReport(d) ==
  /\ updates < MaxUpdates /\ updates' = updates + 1
  /\ \E v \in Reports : input' = [input EXCEPT ![d] = v]
  /\ updated' = [updated EXCEPT ![d] = TRUE]
  /\ UNCHANGED <<usb, host, hidKeyboardIdleDuration, sinceReport, protocol,
                 usbHidKeyboardOutput, fifo, seen>>

HidHostGoesOn == HostTransfers /\ UNCHANGED hidVars

HidHostResets ==
  /\ BusDown
  /\ seen' = [d \in Devices |-> NotSeen]
  /\ fifo' = IF usb'.vbus THEN [d \in Devices |-> <<>>] ELSE fifo
  /\ UNCHANGED <<input, updated, hidKeyboardIdleDuration, sinceReport, protocol,
                 usbHidKeyboardOutput, updates>>

HostPolls(d) ==
  /\ host.believes = "CONFIGURED" /\ fifo[d] # <<>>
  /\ seen' = [seen EXCEPT ![d] = Head(fifo[d])]
  /\ fifo' = [fifo EXCEPT ![d] = Tail(@)]
  /\ UNCHANGED <<usb, host, input, updated, hidKeyboardIdleDuration, sinceReport,
                 protocol, usbHidKeyboardOutput, updates>>

Millisecond == /\ sinceReport' = (sinceReport + 1) % UINT16
               /\ UNCHANGED <<usb, host, input, updated, hidKeyboardIdleDuration, protocol,
                              usbHidKeyboardOutput, fifo, seen, updates>>

Next == \/ usbHidService \/ HidHostGoesOn \/ HidHostResets \/ Millisecond
        \/ \E d \in Devices : UpdateReport(d) \/ HostPolls(d)

\* The main loop runs usbHidService for ever, time passes, the host polls.  A
\* pass of the loop takes less than the clock's period, so that some pass
\* finds the idle period over: SF.
Fairness == /\ WF_vars(usbHidService) /\ SF_vars(usbHidService /\ Due("keyboard"))
            /\ WF_vars(Millisecond)
            /\ \A d \in Devices : WF_vars(HostPolls(d))
------------------------------------------------------------------------------
(* Properties *)

\* With no update waiting, the newest report on its way to the host, or the
\* one it has seen, is the present state of the device: a key that was
\* released is not left pressed.
ReportIsCurrent ==
  \A d \in Devices :
    LET last == IF fifo[d] # <<>> THEN fifo[d][Len(fifo[d])] ELSE seen[d]
    IN ~updated[d] => last \in {input[d], NotSeen}

\* While it has an idle period, the keyboard tells a host that has reset and
\* configured it anew its state, although nothing was updated.
KeyboardIsReported ==
  host.believes = "CONFIGURED" /\ hidKeyboardIdleDuration > 0
    ~> \/ seen["keyboard"] = input["keyboard"]
       \/ host.believes # "CONFIGURED" \/ hidKeyboardIdleDuration = 0
=============================================================================
