------------------------------- MODULE UsbCom -------------------------------
(***************************************************************************)
(* libraries/src/usb_cdc_acm/usb_cdc_acm.c over usb.c: the serial port.    *)
(* Service is a pass of the main loop through usbComService; between two   *)
(* of them the program sends, receives and changes its signals, and the    *)
(* host does what UsbControl lets it do.                                   *)
(***************************************************************************)
EXTENDS UsbTransfer

CONSTANTS
  USB_EP0_PACKET_SIZE, Requests, Length, bNumInterfaces, usbStringDescriptorCount,
  CDC_IN_PACKET_SIZE,  \* 64, scaled
  UINT8,               \* 256, scaled
  BootloaderDelay,     \* 70 ms, scaled
  MaxGap,              \* bound: ms between two services; BootloaderDelay
                       \* + MaxGap < UINT8, or the 8-bit clock may wrap unseen
  MaxChanges           \* bound: changes of the serial state by the program

ASSUME SizeAssumption ==
  /\ USB_EP0_PACKET_SIZE \in Nat \ {0} /\ CDC_IN_PACKET_SIZE \in Nat \ {0}
  /\ UINT8 \in Nat /\ BootloaderDelay \in Nat /\ MaxGap \in Nat /\ MaxChanges \in Nat
  /\ BootloaderDelay + MaxGap < UINT8

\* A host asks for no less than the answer: the code cuts to the length asked
\* for only a descriptor, of which a host may ask for less.  Of a state, which
\* is the first byte of the response, it asks for that byte.
ASSUME RequestAssumption ==
  /\ \A src \in {"device", "configuration", "string", "lineCoding"} : Length[src] \in Nat
  /\ Length["response"] = 2
  /\ \A r \in Requests :
       /\ r.n \in Nat /\ r.len \in Nat
       /\ r.request \in {"GET_CONFIGURATION", "GET_INTERFACE"} => r.len = 1
       /\ r.request \in {"GET_STATUS", "SYNCH_FRAME"} => r.len >= 2
       /\ r.request = "GET_LINE_CODING" => r.len >= Length["lineCoding"]

VARIABLES
  usb, host,            \* usb.c, its endpoint 0 and the host
  inFifoBytesLoaded, sendEmptyPacketSoon,
  usbComSerialState, lastReportedSerialState,
  usbComControlLineState,
  startBootloaderSoon,
  age,                  \* (uint8)(getMs() - startBootloaderRequestTime)
  asked,                \* ms since the host asked for the bootloader
  gap,                  \* ms since the last service
  booted,               \* boardStartBootloader was called
  inFifo,               \* endpoint 4 IN: bytes loaded, packets ready to go
  outFifo,              \* endpoint 4 OUT: what is left of each packet
  notifications,        \* endpoint 1: serial states ready to go
  held,                 \* the host got a full packet and waits for the end
  known,                \* the serial state the host was last told
  changes

dataVars == <<inFifoBytesLoaded, sendEmptyPacketSoon, inFifo, outFifo, held>>
signalVars == <<usbComSerialState, lastReportedSerialState, notifications, known, changes>>
bootVars == <<startBootloaderSoon, age, asked, gap, booted>>
vars == <<usb, host, usbComControlLineState, dataVars, signalVars, bootVars>>


Irregular == {"BREAK"}  \* ACM_IRREGULAR_SIGNAL_MASK
NotReported == {"0xFF"}

\* A request of the class to an interface, one of the port's two; the what of
\* a request to another interface is "elsewhere".
ToThePort(r) == r.type = "class" /\ r.what # "elsewhere"

\* The class requests.  What they change of this module is in Service.
usbCallbackSetupHandler(s) ==
  CASE ToThePort(s.setup) /\ s.setup.request = "SET_LINE_CODING" ->
         usbControlWrite(s, Length["lineCoding"], "lineCoding")
    [] ToThePort(s.setup) /\ s.setup.request = "GET_LINE_CODING" ->
         usbControlRead(s, Length["lineCoding"], "lineCoding")
    [] ToThePort(s.setup) /\ s.setup.request = "SET_CONTROL_LINE_STATE" ->
         usbControlAcknowledge(s)
    [] OTHER -> s

usbCallbackClassDescriptorHandler(s) == s

INSTANCE UsbControl WITH ClassSetup <- usbCallbackSetupHandler,
                         ClassDescriptor <- usbCallbackClassDescriptorHandler

Init ==
  /\ UsbInit
  /\ inFifoBytesLoaded = 0 /\ sendEmptyPacketSoon = FALSE
  /\ usbComSerialState = {} /\ lastReportedSerialState = NotReported
  /\ usbComControlLineState = 0
  /\ startBootloaderSoon = FALSE /\ age = 0 /\ asked = 0 /\ gap = 0 /\ booted = FALSE
  /\ inFifo = [loaded |-> 0, ready |-> <<>>] /\ outFifo = <<>>
  /\ notifications = <<>>
  /\ held = FALSE /\ known = {} /\ changes = 0

------------------------------------------------------------------------------
(* usbComService *)

\* Mutant: the computer is told the state only when it changes.
LastReportedKept == lastReportedSerialState

\* usbCallbackInitEndpoints runs in the poll that sees SET_CONFIGURATION 1.
InitEndpoints == Handles(usb, "SET_CONFIGURATION") /\ usb.out.req.n = 1
LastReported == IF InitEndpoints THEN NotReported ELSE lastReportedSerialState

\* Mutant: a repeated request starts the delay again.
BootloaderRequestedAgain ==
  usbCallbackControlWriteHandlerCalled(usb) /\ usb.setup.n = 333

\* usbCallbackControlWriteHandler: 333 baud asks for the bootloader.
BootloaderRequested ==
  /\ usbCallbackControlWriteHandlerCalled(usb) /\ usb.setup.n = 333
  /\ ~startBootloaderSoon

BootloaderDue == startBootloaderSoon /\ ~BootloaderRequested /\ age > BootloaderDelay

\* sendPacketNow: a full packet is to be followed by an empty one.
SendPacketNow ==
  /\ inFifo' = [loaded |-> 0, ready |-> Append(inFifo.ready, inFifo.loaded)]
  /\ sendEmptyPacketSoon' = (inFifoBytesLoaded = CDC_IN_PACKET_SIZE)
  /\ inFifoBytesLoaded' = 0

\* Mutant: an empty packet is never sent.
ServiceDataNoEmpty ==
  IF inFifoBytesLoaded > 0 THEN SendPacketNow
  ELSE UNCHANGED <<inFifo, inFifoBytesLoaded, sendEmptyPacketSoon>>

ServiceData ==
  IF inFifoBytesLoaded > 0 \/ (sendEmptyPacketSoon /\ inFifo.ready = <<>>)
  THEN SendPacketNow
  ELSE UNCHANGED <<inFifo, inFifoBytesLoaded, sendEmptyPacketSoon>>

ServiceSignals ==
  IF usbComSerialState # LastReported /\ Len(notifications) < 2
  THEN /\ notifications' = Append(notifications, usbComSerialState)
       /\ usbComSerialState' = usbComSerialState \ Irregular
       /\ lastReportedSerialState' = usbComSerialState'
  ELSE /\ lastReportedSerialState' = LastReported
       /\ UNCHANGED <<notifications, usbComSerialState>>

NotConfigured ==
  /\ lastReportedSerialState' = LastReported
  /\ UNCHANGED <<inFifoBytesLoaded, sendEmptyPacketSoon, usbComSerialState>>
  /\ IF usb.vbus THEN UNCHANGED <<inFifo, outFifo, notifications>>
     ELSE /\ inFifo' = [loaded |-> 0, ready |-> <<>>]  \* USB_EN = 0
          /\ outFifo' = <<>> /\ notifications' = <<>>

Service ==
  /\ ~booted
  /\ usbPoll
  /\ usbComControlLineState' = IF Handles(usb, "SET_CONTROL_LINE_STATE") /\ ToThePort(usb.out.req)
                               THEN usb.out.req.n ELSE usbComControlLineState
  /\ startBootloaderSoon' = (startBootloaderSoon \/ BootloaderRequested)
  /\ age' = IF BootloaderRequested THEN 0 ELSE age
  /\ gap' = 0 /\ UNCHANGED asked
  /\ booted' = BootloaderDue
  /\ CASE usb'.state = "CONFIGURED" /\ ~booted' ->
            ServiceData /\ ServiceSignals /\ UNCHANGED outFifo
       [] OTHER -> NotConfigured
  /\ UNCHANGED <<host, held, known, changes>>

------------------------------------------------------------------------------
(* The program: it sends only what usbComTxAvailable says there is room for. *)

\* Mutant: the bytes loaded since the last packet are forgotten.
TxAvailableWhole ==
  CASE usb.state # "CONFIGURED" \/ Len(inFifo.ready) = 2 -> 0
    [] usb.state = "CONFIGURED" /\ Len(inFifo.ready) = 1 -> CDC_IN_PACKET_SIZE
    [] OTHER -> 2 * CDC_IN_PACKET_SIZE

usbComTxAvailable ==
  CASE usb.state # "CONFIGURED" \/ Len(inFifo.ready) = 2 -> 0
    [] usb.state = "CONFIGURED" /\ Len(inFifo.ready) = 1 -> CDC_IN_PACKET_SIZE - inFifoBytesLoaded
    [] OTHER -> 2 * CDC_IN_PACKET_SIZE - inFifoBytesLoaded

\* The loop of usbComTxSend cuts n bytes into packets of which the first
\* begins with what is loaded.
usbComTxSend(n) ==
  LET total == inFifoBytesLoaded + n
      full == total \div CDC_IN_PACKET_SIZE
      first == inFifo.loaded + CDC_IN_PACKET_SIZE - inFifoBytesLoaded
  IN /\ inFifoBytesLoaded' = total % CDC_IN_PACKET_SIZE
     /\ sendEmptyPacketSoon' = (full > 0 \/ sendEmptyPacketSoon)
     /\ inFifo' = IF full = 0 THEN [inFifo EXCEPT !.loaded = @ + n]
                  ELSE [loaded |-> total % CDC_IN_PACKET_SIZE,
                        ready |-> inFifo.ready \o
                          [i \in 1 .. full |-> IF i = 1 THEN first ELSE CDC_IN_PACKET_SIZE]]

TxSend == /\ ~booted
          /\ \E n \in 1 .. usbComTxAvailable : usbComTxSend(n)
          /\ UNCHANGED <<usb, host, outFifo, held, usbComControlLineState, signalVars, bootVars>>

\* usbComRxReceive gives the packet back when its last byte is read.
usbComRxAvailable ==
  IF usb.state = "CONFIGURED" /\ outFifo # <<>> THEN Head(outFifo) ELSE 0

RxReceive ==
  /\ ~booted
  /\ \E n \in 1 .. usbComRxAvailable :
       outFifo' = IF n = Head(outFifo) THEN Tail(outFifo)
                  ELSE <<Head(outFifo) - n>> \o Tail(outFifo)
  /\ UNCHANGED <<usb, host, inFifoBytesLoaded, sendEmptyPacketSoon, inFifo, held,
                 usbComControlLineState, signalVars, bootVars>>

usbComTxControlSignals(signals) ==
  usbComSerialState' = (usbComSerialState \cap Irregular) \cup signals

usbComTxControlSignalEvents(events) == usbComSerialState' = usbComSerialState \cup events

ChangeSignals ==
  /\ ~booted /\ changes < MaxChanges /\ changes' = changes + 1
  /\ \/ \E signals \in {{}, {"DCD"}} : usbComTxControlSignals(signals)
     \/ usbComTxControlSignalEvents({"BREAK"})
  /\ UNCHANGED <<usb, host, usbComControlLineState, dataVars, bootVars,
                 lastReportedSerialState, notifications, known>>

------------------------------------------------------------------------------
(* The host and the clock *)

HostGoesOn == /\ ~booted /\ HostTransfers
              /\ UNCHANGED <<usbComControlLineState, dataVars, signalVars, bootVars>>

\* A reset of the bus empties the endpoints; the library does not know yet.
HostResets ==
  /\ ~booted /\ BusDown
  /\ held' = FALSE /\ known' = {}
  /\ IF usb'.vbus
     THEN /\ inFifo' = [loaded |-> 0, ready |-> <<>>]
          /\ outFifo' = <<>> /\ notifications' = <<>>
     ELSE UNCHANGED <<inFifo, outFifo, notifications>>
  /\ UNCHANGED <<usbComControlLineState, bootVars, inFifoBytesLoaded, sendEmptyPacketSoon,
                 usbComSerialState, lastReportedSerialState, changes>>

Configured == host.believes = "CONFIGURED" /\ ~booted

HostReads ==
  /\ Configured /\ inFifo.ready # <<>>
  /\ held' = (Head(inFifo.ready) = CDC_IN_PACKET_SIZE)
  /\ inFifo' = [inFifo EXCEPT !.ready = Tail(@)]
  /\ UNCHANGED <<usb, host, usbComControlLineState, inFifoBytesLoaded, sendEmptyPacketSoon,
                 outFifo, signalVars, bootVars>>

HostWrites ==
  /\ Configured /\ Len(outFifo) < 2
  /\ \E n \in 1 .. CDC_IN_PACKET_SIZE : outFifo' = Append(outFifo, n)
  /\ UNCHANGED <<usb, host, usbComControlLineState, inFifoBytesLoaded, sendEmptyPacketSoon,
                 inFifo, held, signalVars, bootVars>>

HostIsTold ==
  /\ Configured /\ notifications # <<>>
  /\ known' = Head(notifications) \ Irregular
  /\ notifications' = Tail(notifications)
  /\ UNCHANGED <<usb, host, usbComControlLineState, dataVars, bootVars,
                 usbComSerialState, lastReportedSerialState, changes>>

Tick == /\ ~booted /\ startBootloaderSoon /\ gap < MaxGap /\ asked < 2 * UINT8
        /\ gap' = gap + 1 /\ age' = (age + 1) % UINT8 /\ asked' = asked + 1
        /\ UNCHANGED <<usb, host, usbComControlLineState, dataVars, signalVars,
                       startBootloaderSoon, booted>>

Next == \/ Service \/ TxSend \/ RxReceive \/ ChangeSignals
        \/ HostGoesOn \/ HostResets \/ HostReads \/ HostWrites \/ HostIsTold
        \/ Tick

\* The main loop calls usbComService for ever; a configured host polls the
\* IN endpoints.  Nothing is assumed of the rest.
Fairness == /\ WF_vars(Service)
            /\ WF_vars(HostReads)
            /\ WF_vars(HostIsTold)

Spec == Init /\ [][Next]_vars
FairSpec == Spec /\ Fairness

------------------------------------------------------------------------------
(* Properties *)

\* The variables of usb.c with endpoint 0, and the host, with their types.
SetupPackets == Requests \cup {NoRequest}
Sources == {"", "device", "configuration", "string", "response", "lineCoding",
            "input", "output", "hid", "report"}
Ep0Flags == {"OUTPKT_RDY", "INPKT_RDY", "DATA_END", "SEND_STALL", "SENT_STALL", "SETUP_END"}
OutPackets == [setup : BOOLEAN, req : SetupPackets, n : Nat]
InPackets == [src : Sources, at : Nat, n : Nat]
Usb == [state : {"DETACHED", "POWERED", "DEFAULT", "ADDRESS", "CONFIGURED"}, suspend : BOOLEAN,
        ct : {"NONE", "READ", "WRITE"}, left : Nat, src : Sources, at : Nat,
        setup : SetupPackets, vbus : BOOLEAN, cif : SUBSET {"reset", "suspend", "resume"},
        ep0if : BOOLEAN,
        cs0 : SUBSET Ep0Flags,
        out : OutPackets, in : InPackets]
Host == [phase : {"off", "idle", "in", "out", "status"}, req : SetupPackets, got : Nat,
         believes : {"unknown", "DEFAULT", "ADDRESS", "CONFIGURED"}]
SerialStates == SUBSET {"DCD", "BREAK"}

TypeOK ==
  /\ usb \in Usb /\ host \in Host
  /\ inFifoBytesLoaded \in 0 .. CDC_IN_PACKET_SIZE - 1 /\ sendEmptyPacketSoon \in BOOLEAN
  /\ inFifo \in [loaded : Nat, ready : Seq(Nat)] /\ outFifo \in Seq(Nat) /\ held \in BOOLEAN
  /\ usbComSerialState \in SerialStates /\ known \in SerialStates
  /\ lastReportedSerialState \in SerialStates \cup {NotReported}
  /\ notifications \in Seq(SerialStates) /\ usbComControlLineState \in Nat
  /\ startBootloaderSoon \in BOOLEAN /\ booted \in BOOLEAN
  /\ age \in Nat /\ asked \in Nat /\ gap \in 0 .. MaxGap /\ changes \in 0 .. MaxChanges

\* What the library believes of the IN FIFO is never less than what is in it,
\* over every reset of the bus it has not noticed yet: the program never
\* loads more than a packet, nor a third packet.
RoomIsReal == /\ inFifo.loaded <= inFifoBytesLoaded
              /\ Len(inFifo.ready) <= 2
              /\ Len(inFifo.ready) = 2 => inFifo.loaded = 0
              /\ \A i \in DOMAIN inFifo.ready : inFifo.ready[i] <= CDC_IN_PACKET_SIZE

\* Once the library has seen the resets there were, it is in the state that
\* the completed requests have told the host.
HostAgrees ==
  (host.phase # "off" /\ host.believes # "unknown" /\ "reset" \notin usb.cif)
    => usb.state = host.believes

\* The bytes behind a control read.
Wanted(r) == CASE r.request = "GET_DESCRIPTOR" -> r.what
               [] r.request = "GET_LINE_CODING" -> "lineCoding"
               [] r.request = "GET_REPORT" -> "input"
               [] OTHER -> "response"

\* Every transfer to the host is ended: a host that has a full packet and
\* waits gets another packet, an empty one if the program sends no more.
TransfersEnd == held ~> (~held \/ inFifo.ready # <<>> \/ ~Configured)

\* The host learns the serial state: also after it has configured the device
\* anew and forgotten what it was told.
StateIsReported ==
  (Configured /\ known # usbComSerialState)
    ~> (~Configured \/ known = usbComSerialState \ Irregular)

\* The bootloader starts in time: not before the delay, so that the status
\* stage and the requests that follow are answered, and not a whole wrap of
\* the 8-bit clock later.
BootloaderInTime == /\ startBootloaderSoon => asked <= BootloaderDelay + MaxGap
                    /\ booted => asked > BootloaderDelay

\* usb.c: "we don't stall on non-zero endpoints".
EndpointStatusIsAnswered ==
  [][Stalled => ~(host.req.what = "endpoint" /\ host.believes = "CONFIGURED")]_vars

\* usb.c: every path from OUTPKT_RDY clears it.
EveryPathClearsTheFlag ==
  [][Service /\ TakesPacket(usb) => "OUTPKT_RDY" \notin usb'.cs0]_vars
=============================================================================
