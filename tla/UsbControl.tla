----------------------------- MODULE UsbControl -----------------------------
(***************************************************************************)
(* libraries/src/usb/usb.c: usbPoll, the control transfers on endpoint 0   *)
(* and the standard requests, with the endpoint's registers and a host     *)
(* that resets the bus, suspends it, pulls the cable and abandons          *)
(* transfers.  usb holds the variables of usb.c and the registers; host    *)
(* is the other end of the cable.  A poll is one step: it takes            *)
(* microseconds between packets of the same host.                          *)
(* The class library is the pair of operators ClassSetup, ClassDescriptor. *)
(***************************************************************************)
EXTENDS UsbTransfer

CONSTANTS
  USB_EP0_PACKET_SIZE,  \* 32, scaled
  Requests,             \* the SETUP packets the host sends
  Length,               \* the bytes behind each pointer a reply is read from
  bNumInterfaces,
  usbStringDescriptorCount,
  ClassSetup(_), ClassDescriptor(_)  \* usbCallback...Handler, on usb

VARIABLES usb, host

usbVars == <<usb, host>>

Min2(a, b) == IF a < b THEN a ELSE b
NoRequest == [type |-> "none", request |-> "", what |-> "", n |-> 0, len |-> 0]

\* What the OUT FIFO of endpoint 0 holds: a SETUP packet, or n bytes of data.
\* The code tells them apart by their length, 8, that of no data packet here.
NoPacket == [setup |-> FALSE, req |-> NoRequest, n |-> 0]

\* cif: flags of USBCIF; cs0: bits of USBCS0 that are set; in: the bytes of
\* src armed to be sent.  The empty packet of a status stage goes out with
\* DATA_END: INPKT_RDY stands for data only.
UsbInit ==
  /\ usb = [state |-> "DETACHED", suspend |-> FALSE, ct |-> "NONE", left |-> 0,
            src |-> "", at |-> 0, setup |-> NoRequest,
            vbus |-> FALSE, cif |-> {}, ep0if |-> FALSE, cs0 |-> {},
            out |-> NoPacket,
            in |-> [src |-> "", at |-> 0, n |-> 0]]
  /\ host = [phase |-> "off", req |-> NoRequest, got |-> 0, believes |-> "unknown"]

------------------------------------------------------------------------------
(* The standard requests; s.setup is the SETUP packet. *)

\* Mutant: what the host asked for does not limit the answer.
GetDescriptorWhole(s) ==
  LET r == s.setup
  IN IF r.what \in {"device", "configuration", "string"}
     THEN usbControlRead(s, Length[r.what], r.what)
     ELSE ClassDescriptor(s)

\* A known descriptor is cut to wLength, an unknown one is refused.
GetDescriptor(s) ==
  LET r == s.setup
      known == CASE r.what = "device" -> usbControlRead(s, Length["device"], "device")
                 [] r.what = "configuration" ->
                      IF r.n # 0 THEN s
                      ELSE usbControlRead(s, Length["configuration"], "configuration")
                 [] r.what = "string" ->
                      IF r.n >= usbStringDescriptorCount THEN s
                      ELSE usbControlRead(s, Length["string"], "string")
                 [] OTHER -> ClassDescriptor(s)
  IN [known EXCEPT !.left = IF known.ct = "NONE" THEN @ ELSE Min2(@, r.len)]

SetAddress(s) ==
  usbControlAcknowledge([s EXCEPT !.state = IF s.setup.n # 0 THEN "ADDRESS" ELSE "DEFAULT"])

SetConfiguration(s) ==
  CASE s.setup.n = 0 ->
         usbControlAcknowledge([s EXCEPT !.state = IF @ = "CONFIGURED" THEN "ADDRESS" ELSE @])
    [] s.setup.n = 1 -> usbControlAcknowledge([s EXCEPT !.state = "CONFIGURED"])
    [] OTHER -> s

GetInterface(s) ==
  IF s.state # "CONFIGURED" \/ s.setup.n >= bNumInterfaces THEN s
  ELSE usbControlRead(s, 1, "response")

\* setup.n is wIndex.  wValue of a GET_STATUS is 0, and for an endpoint it is
\* wValue that the code tests, so the request is refused for every endpoint.
GetStatus(s) ==
  CASE s.setup.what = "device" -> usbControlRead(s, 2, "response")
    [] s.setup.what = "interface" ->
         IF (s.state # "CONFIGURED" /\ s.setup.n # 0) \/ s.setup.n >= bNumInterfaces
         THEN s ELSE usbControlRead(s, 2, "response")
    [] OTHER -> s

usbStandardDeviceRequestHandler(s) ==
  CASE s.setup.request = "GET_DESCRIPTOR" -> GetDescriptor(s)
    [] s.setup.request = "SET_ADDRESS" -> SetAddress(s)
    [] s.setup.request = "SET_CONFIGURATION" -> SetConfiguration(s)
    [] s.setup.request = "GET_CONFIGURATION" -> usbControlRead(s, 1, "response")
    [] s.setup.request = "GET_INTERFACE" -> GetInterface(s)
    [] s.setup.request = "GET_STATUS" -> GetStatus(s)
    [] s.setup.request \in {"SET_FEATURE", "CLEAR_FEATURE"} -> usbControlAcknowledge(s)
    [] s.setup.request = "SYNCH_FRAME" -> usbControlRead(s, 2, "response")
    [] OTHER -> s

------------------------------------------------------------------------------
(* usbPoll, in the order of its tests. *)

\* Mutant: a bus reset leaves the control transfer as it is.
BusEventsKeepTransfer(s) ==
  [s EXCEPT !.state = IF "reset" \in s.cif THEN "DEFAULT"
                      ELSE IF @ = "DETACHED" THEN "POWERED" ELSE @,
            !.suspend = @ \/ "suspend" \in s.cif, !.cif = {}]

\* The cable was plugged in since the last poll, and the flags of the bus.
BusEvents(s) ==
  LET awake == {"reset", "resume"} \cap s.cif # {}
  IN [s EXCEPT !.state = IF "reset" \in s.cif THEN "DEFAULT"
                         ELSE IF @ = "DETACHED" THEN "POWERED" ELSE @,
               !.ct = IF "reset" \in s.cif THEN "NONE" ELSE @,
               !.suspend = IF awake THEN FALSE ELSE @ \/ "suspend" \in s.cif,
               !.cif = {}]

\* Mutant: an abandoned transfer stays open.
TransferEndsOnStall(s) ==
  IF "SENT_STALL" \in s.cs0 THEN [s EXCEPT !.ct = "NONE", !.cs0 = @ \ {"SENT_STALL"}]
  ELSE [s EXCEPT !.cs0 = @ \ {"SETUP_END"}]

\* SETUP_END and SENT_STALL end the control transfer.
TransferEnds(s) ==
  IF s.cs0 \cap {"SETUP_END", "SENT_STALL"} = {} THEN s
  ELSE [s EXCEPT !.ct = "NONE", !.cs0 = @ \ {"SETUP_END", "SENT_STALL"}]

\* A data packet of a control write.  None of the class libraries rejects it.
DataReceived(s) ==
  LET n == Min2(s.out.n, s.left)
      t == [s EXCEPT !.left = @ - n, !.at = @ + n, !.cs0 = @ \ {"OUTPKT_RDY"}]
  IN IF t.left > 0 THEN t ELSE [t EXCEPT !.ct = "NONE", !.cs0 = @ \cup {"DATA_END"}]

\* The handler has chosen; answer the SETUP packet.  Only the answers to a
\* write clear OUTPKT_RDY.
Answer(s) ==
  CASE s.ct = "NONE" -> [s EXCEPT !.cs0 = (@ \ {"OUTPKT_RDY"}) \cup {"SEND_STALL"}]
    [] s.ct = "WRITE" /\ s.left > 0 -> [s EXCEPT !.cs0 = @ \ {"OUTPKT_RDY"}]
    [] s.ct = "WRITE" /\ s.left = 0 ->
         [s EXCEPT !.ct = "NONE", !.cs0 = (@ \ {"OUTPKT_RDY"}) \cup {"DATA_END"}]
    [] OTHER -> s

SetupReceived(s) ==
  LET t == [s EXCEPT !.setup = s.out.req, !.ct = "NONE", !.out = NoPacket]
  IN Answer(IF t.setup.type = "standard" THEN usbStandardDeviceRequestHandler(t)
            ELSE ClassSetup(t))

OutPacket(s) ==
  CASE "OUTPKT_RDY" \notin s.cs0 -> s
    [] "OUTPKT_RDY" \in s.cs0 /\ s.ct = "WRITE" -> DataReceived(s)
    [] "OUTPKT_RDY" \in s.cs0 /\ s.ct # "WRITE" /\ s.out.setup -> SetupReceived(s)
    [] OTHER -> [s EXCEPT !.cs0 = @ \ {"OUTPKT_RDY"}]

\* ready: INPKT_RDY was clear when USBCS0 was read.
InPacket(s, ready) ==
  IF ~ready \/ s.ct # "READ" THEN s
  ELSE LET last == s.left < USB_EP0_PACKET_SIZE
           n == Min2(s.left, USB_EP0_PACKET_SIZE)
       IN [s EXCEPT !.ct = IF last THEN "NONE" ELSE @,
                    !.cs0 = @ \cup {"INPKT_RDY"} \cup (IF last THEN {"DATA_END"} ELSE {}),
                    !.in = [src |-> s.src, at |-> s.at, n |-> n],
                    !.at = @ + n, !.left = @ - n]

\* Without VBUS the module is switched off, and with it its registers.
usbPoll ==
  IF ~usb.vbus THEN usb' = [usb EXCEPT !.state = "DETACHED", !.suspend = FALSE,
                                       !.cif = {}, !.ep0if = FALSE, !.cs0 = {}]
  ELSE \E s \in {[BusEvents(usb) EXCEPT !.ep0if = FALSE]} :
         IF ~usb.ep0if THEN usb' = s
         ELSE \E ended \in {TransferEnds(s)} : \E t \in {OutPacket(ended)} :
                usb' = InPacket(t, "INPKT_RDY" \notin usb.cs0)

\* The SETUP packet that a poll now hands to a handler, and whether it ends a
\* control write of the class.
BeforeOut(s) == TransferEnds(BusEvents(s))
TakesPacket(s) == s.vbus /\ s.ep0if /\ "OUTPKT_RDY" \in s.cs0
Handles(s, request) ==
  TakesPacket(s) /\ BeforeOut(s).ct # "WRITE" /\ s.out.setup /\ s.out.req.request = request
usbCallbackControlWriteHandlerCalled(s) ==
  TakesPacket(s) /\ BeforeOut(s).ct = "WRITE" /\ s.left <= s.out.n /\ s.setup.type # "standard"

------------------------------------------------------------------------------
(* The host and the endpoint's hardware. *)

Reads(r) == r.request \in {"GET_DESCRIPTOR", "GET_CONFIGURATION", "GET_INTERFACE", "GET_STATUS",
                           "SYNCH_FRAME", "GET_LINE_CODING", "GET_REPORT", "GET_IDLE",
                           "GET_PROTOCOL"}
HasData(r) == r.request \in {"SET_LINE_CODING", "SET_REPORT"}

Interrupt(s) == [s EXCEPT !.ep0if = TRUE]

Attach == /\ ~usb.vbus
          /\ usb' = [usb EXCEPT !.vbus = TRUE]
          /\ UNCHANGED host

Detach == /\ usb.vbus
          /\ usb' = [usb EXCEPT !.vbus = FALSE]
          /\ host' = [host EXCEPT !.phase = "off", !.believes = "unknown"]

\* A reset of the bus; the pull-up tells the host that a device is there.
Reset ==
  /\ usb.vbus /\ usb.state # "DETACHED"
  /\ usb' = [usb EXCEPT !.cif = @ \cup {"reset"}, !.ep0if = FALSE, !.cs0 = {}]
  /\ host' = [host EXCEPT !.phase = "idle", !.believes = "DEFAULT"]

Suspend == /\ host.phase = "idle" /\ ~usb.suspend /\ usb.cif = {}
           /\ usb' = [usb EXCEPT !.cif = @ \cup {"suspend"}]
           /\ UNCHANGED host

Resume == /\ host.phase # "off" /\ usb.suspend
          /\ usb' = [usb EXCEPT !.cif = @ \cup {"resume"}]
          /\ UNCHANGED host

\* What a sensible host asks: USB 2.0 figure 9-1.
Sensible(r) == /\ r.request = "SET_ADDRESS" => host.believes \in {"DEFAULT", "ADDRESS"}
               /\ r.request = "SET_CONFIGURATION" => host.believes \in {"ADDRESS", "CONFIGURED"}

\* A SETUP packet, which cuts short a transfer that is not over.
Setup(r) ==
  /\ host.phase # "off" /\ Sensible(r)
  /\ usb' = Interrupt([usb EXCEPT
       !.cs0 = (@ \cap {"SENT_STALL", "SETUP_END"}) \cup {"OUTPKT_RDY"}
                 \cup (IF host.phase # "idle" /\ "DATA_END" \notin usb.cs0
                       THEN {"SETUP_END"} ELSE {}),
       !.out = [setup |-> TRUE, req |-> r, n |-> 8]])
  /\ host' = [host EXCEPT !.req = r, !.got = 0,
                          !.phase = CASE Reads(r) -> "in" [] HasData(r) -> "out" [] OTHER -> "status",
                          !.believes = IF r.request \in {"SET_ADDRESS", "SET_CONFIGURATION"}
                                       THEN "unknown" ELSE @]

DataIn ==
  /\ host.phase = "in" /\ "INPKT_RDY" \in usb.cs0
  /\ usb' = Interrupt([usb EXCEPT !.cs0 = @ \ {"INPKT_RDY"}])
  /\ host' = [host EXCEPT !.got = @ + usb.in.n,
                          !.phase = IF usb.in.n < USB_EP0_PACKET_SIZE
                                         \/ host.got + usb.in.n >= host.req.len
                                    THEN "status" ELSE @]

DataOut ==
  /\ host.phase = "out" /\ {"OUTPKT_RDY", "SEND_STALL", "SETUP_END"} \cap usb.cs0 = {}
  /\ ~usb.ep0if
  /\ LET n == Min2(USB_EP0_PACKET_SIZE, host.req.len - host.got)
     IN /\ usb' = Interrupt([usb EXCEPT !.cs0 = @ \cup {"OUTPKT_RDY"},
                                        !.out = [NoPacket EXCEPT !.n = n]])
        /\ host' = [host EXCEPT !.got = @ + n,
                                !.phase = IF host.got + n = host.req.len THEN "status" ELSE @]

\* The state in which the host knows the device once a request has succeeded.
Achieved(r) ==
  CASE r.request = "SET_ADDRESS" -> IF r.n = 0 THEN "DEFAULT" ELSE "ADDRESS"
    [] r.request = "SET_CONFIGURATION" -> IF r.n = 1 THEN "CONFIGURED" ELSE "ADDRESS"
    [] OTHER -> host.believes

\* The status stage.  A read that ends before the device has set DATA_END
\* (its length is a multiple of the packet size) ends early for the device.
Status ==
  /\ host.phase = "status"
  /\ \/ /\ "DATA_END" \in usb.cs0
        /\ usb' = Interrupt([usb EXCEPT !.cs0 = @ \ {"DATA_END"}])
     \/ /\ "DATA_END" \notin usb.cs0 /\ Reads(host.req)
        /\ usb' = Interrupt([usb EXCEPT !.cs0 = (@ \ {"INPKT_RDY"}) \cup {"SETUP_END"}])
  /\ host' = [host EXCEPT !.phase = "idle", !.believes = Achieved(host.req)]

Stalled ==
  /\ host.phase \notin {"off", "idle"} /\ "SEND_STALL" \in usb.cs0
  /\ usb' = Interrupt([usb EXCEPT !.cs0 = (@ \ {"SEND_STALL"}) \cup {"SENT_STALL"}])
  /\ host' = [host EXCEPT !.phase = "idle"]

BusDown == Reset \/ Detach
HostTransfers == \/ Attach \/ Suspend \/ Resume
                 \/ \E r \in Requests : Setup(r)
                 \/ DataIn \/ DataOut \/ Status \/ Stalled
=============================================================================
