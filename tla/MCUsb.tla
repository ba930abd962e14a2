------------------------------- MODULE MCUsb ------------------------------
EXTENDS UsbDevices

Packet(type, request, what, n, len) ==
  [type |-> type, request |-> request, what |-> what, n |-> n, len |-> len]

Address == Packet("standard", "SET_ADDRESS", "", 5, 0)
Configure == Packet("standard", "SET_CONFIGURATION", "", 1, 0)
Basic == {Address, Configure}
Get(what, n, len) == Packet("standard", "GET_DESCRIPTOR", what, n, len)
SetLineCoding(baud) == Packet("class", "SET_LINE_CODING", "", baud, 1)

Lengths == [device |-> 3, configuration |-> 4, string |-> 2, response |-> 2, lineCoding |-> 1,
            input |-> 3, hid |-> 2, report |-> 3]

\* What the device is and what its host and program do, one plan to a behaviour.
ComPlans == {
  [name |-> "addresses", requests |-> Basic \cup
    {Packet("standard", "SET_ADDRESS", "", 0, 0),
     Packet("standard", "SET_CONFIGURATION", "", 0, 0),
     Packet("standard", "SET_CONFIGURATION", "", 2, 0), SetLineCoding(9600)}],
  [name |-> "descriptors", requests |->
    {Get("device", 0, 9), Get("configuration", 0, 3), Get("configuration", 0, 4),
     Get("configuration", 1, 4), SetLineCoding(9600)}],
  [name |-> "strings", requests |->
    {Get("string", 0, 9), Get("string", 4, 9), Get("report", 0, 9), SetLineCoding(9600)}],
  [name |-> "states", requests |-> Basic \cup
    {Packet("standard", "GET_CONFIGURATION", "", 0, 1), Packet("standard", "GET_INTERFACE", "", 1, 1)}],
  [name |-> "status", requests |-> Basic \cup
    {Packet("standard", "GET_STATUS", "device", 0, 2),
     Packet("standard", "GET_STATUS", "interface", 1, 9),
     Packet("standard", "GET_STATUS", "endpoint", 4, 2)}],
  [name |-> "rest", requests |->
    {Packet("standard", "CLEAR_FEATURE", "", 0, 0), Packet("standard", "SYNCH_FRAME", "", 0, 2),
     Packet("standard", "SET_DESCRIPTOR", "", 0, 0)}],
  [name |-> "class", requests |->
    {Packet("class", "GET_LINE_CODING", "", 0, 1), SetLineCoding(9600),
     Packet("class", "SET_CONTROL_LINE_STATE", "", 1, 0),
     Packet("class", "SET_CONTROL_LINE_STATE", "elsewhere", 0, 0),
     Packet("vendor", "GET_LINE_CODING", "", 0, 1), Packet("class", "GET_REPORT", "input", 0, 9)}],
  [name |-> "cable", requests |-> Basic],
  [name |-> "bootloader", requests |-> {SetLineCoding(333)}],
  [name |-> "to host", requests |-> Basic],
  [name |-> "from host", requests |-> Basic],
  [name |-> "signals", requests |-> Basic]}
HidPlans == {
  [name |-> "reports", requests |-> Basic],
  [name |-> "idle", requests |-> Basic \cup
    {Packet("class", "SET_IDLE", "off", 0, 0), Packet("class", "GET_IDLE", "", 0, 1)}],
  [name |-> "protocol", requests |->
    {Packet("class", "SET_PROTOCOL", "boot", 1, 0), Packet("class", "GET_PROTOCOL", "", 2, 1),
     Packet("class", "GET_PROTOCOL", "", 1, 1), Packet("class", "SET_REPORT", "", 0, 1),
     Packet("vendor", "SET_PROTOCOL", "report", 0, 0)}],
  [name |-> "hid descriptors", requests |->
    {Packet("class", "GET_REPORT", "input", 2, 9), Get("hid", 1, 9), Get("report", 2, 9),
     Packet("class", "SET_REPORT", "", 0, 1)}]}

AllRequests == UNION {p.requests : p \in ComPlans \cup HidPlans}

VARIABLE plan

hVars == <<usb, host, hidVars>>
mcVars == <<devicesVars, plan>>

IsCom == library = "com"
IsHid == library = "hid"

MCInit == DevicesInit /\ plan \in (IF IsCom THEN ComPlans ELSE HidPlans)

Planned ==
  /\ UNCHANGED plan
  /\ host'.req \in plan.requests \cup {NoRequest}
  /\ plan.name # "cable" => ((usb.vbus => usb'.vbus) /\ "suspend" \notin usb'.cif)
  /\ IsCom =>
       /\ plan.name # "to host" => inFifoBytesLoaded' = 0 /\ inFifo'.ready = <<>>
       /\ plan.name # "from host" => Len(outFifo') = 0
       /\ plan.name # "signals" => changes' = 0
  /\ IsHid =>
       /\ plan.name \notin {"reports"} => updates' = 0
       /\ plan.name \notin {"reports", "idle"} => sinceReport' = 0

MCNext == DevicesNext /\ Planned

MCSpec == MCInit /\ [][MCNext]_mcVars

\* Fairness of UsbCom and of UsbHid, of the device that is one.
MCFairSpec ==
  /\ MCSpec
  /\ WF_vars(IsCom /\ Service) /\ WF_vars(IsCom /\ HostReads) /\ WF_vars(IsCom /\ HostIsTold)
  /\ WF_hVars(IsHid /\ Hid!usbHidService) /\ WF_hVars(IsHid /\ Hid!Millisecond)
  /\ SF_hVars(IsHid /\ Hid!usbHidService /\ Hid!Due("keyboard"))
  /\ \A d \in Hid!Devices : WF_hVars(IsHid /\ Hid!HostPolls(d))

\* The device goes on: bytes and their transfers end, changes of the control
\* lines are reported, and so is the keyboard (usb_cdc_acm.c, usb_hid.c).
DeviceGoesOn ==
  /\ TransfersEnd /\ StateIsReported
  /\ IsHid => Hid!KeyboardIsReported
=============================================================================
