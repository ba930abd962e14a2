------------------------------ MODULE UsbProofs ------------------------------
(***************************************************************************)
(* Proofs about UsbCom and UsbDevices, for every size of the packets and   *)
(* every set of requests: the control transfers of usb.c are whole and     *)
(* leave host and device in the same state, the FIFO of the serial port is *)
(* never overfilled, the bootloader starts in time, and the newest report  *)
(* of a keyboard, mouse or joystick is its present state.                  *)
(***************************************************************************)
EXTENDS UsbDevices, SequenceTheorems, TLAPS

LEMMA Sizes ==
  /\ USB_EP0_PACKET_SIZE \in Nat \ {0} /\ CDC_IN_PACKET_SIZE \in Nat \ {0}
  /\ UINT8 \in Nat /\ BootloaderDelay \in Nat /\ MaxGap \in Nat /\ MaxChanges \in Nat
  /\ BootloaderDelay + MaxGap < UINT8
BY SizeAssumption DEF SizeAssumption

LEMMA MinFacts ==
  ASSUME NEW a \in Nat, NEW b \in Nat
  PROVE  /\ Min2(a, b) \in Nat /\ Min2(a, b) <= a /\ Min2(a, b) <= b
         /\ Min2(a, b) = a \/ Min2(a, b) = b
BY DEF Min2

------------------------------------------------------------------------------
(* What the parts of usbPoll do to the record of usb.c. *)

(* What no part of usbPoll but the handler of SETUP packets changes. *)
Kept(s, t) == t.setup = s.setup /\ t.vbus = s.vbus /\ t.out = s.out /\ t.state = s.state
TransferKept(s, t) == t.left = s.left /\ t.src = s.src /\ t.at = s.at /\ t.in = s.in

LEMMA BusFacts ==
  ASSUME NEW s \in Usb, NEW t, t = [BusEvents(s) EXCEPT !.ep0if = FALSE]
  PROVE  /\ t \in Usb /\ t.cif = {} /\ TransferKept(s, t)
         /\ t.ct = IF "reset" \in s.cif THEN "NONE" ELSE s.ct
         /\ "reset" \in s.cif => t.state = "DEFAULT"
         /\ "reset" \notin s.cif /\ s.state # "DETACHED" => t.state = s.state
         /\ t.setup = s.setup /\ t.vbus = s.vbus /\ t.cs0 = s.cs0 /\ t.out = s.out
<1>. DEFINE b == BusEvents(s)
<1>1. b \in Usb
  BY DEF BusEvents, Usb
<1>2. /\ b.cif = {} /\ b.left = s.left /\ b.src = s.src /\ b.at = s.at /\ b.in = s.in
      /\ b.setup = s.setup /\ b.vbus = s.vbus /\ b.cs0 = s.cs0 /\ b.out = s.out
  BY DEF BusEvents, Usb
<1>3. b.ct = IF "reset" \in s.cif THEN "NONE" ELSE s.ct
  BY DEF BusEvents, Usb
<1>4. /\ "reset" \in s.cif => b.state = "DEFAULT"
      /\ "reset" \notin s.cif /\ s.state # "DETACHED" => b.state = s.state
  BY DEF BusEvents, Usb
<1>. HIDE DEF b
<1>5. /\ t \in Usb /\ t.cif = b.cif /\ t.left = b.left /\ t.src = b.src /\ t.at = b.at
      /\ t.in = b.in /\ t.setup = b.setup /\ t.vbus = b.vbus /\ t.cs0 = b.cs0
      /\ t.out = b.out /\ t.ct = b.ct /\ t.state = b.state
  BY <1>1 DEF b, Usb
<1>. QED BY <1>2, <1>3, <1>4, <1>5 DEF TransferKept

LEMMA EndsFacts ==
  ASSUME NEW s \in Usb, NEW t, t = TransferEnds(s)
  PROVE  /\ t \in Usb /\ t.cs0 = s.cs0 \ {"SETUP_END", "SENT_STALL"}
         /\ t.ct = IF s.cs0 \cap {"SETUP_END", "SENT_STALL"} = {} THEN s.ct ELSE "NONE"
         /\ Kept(s, t) /\ TransferKept(s, t) /\ t.cif = s.cif
BY DEF TransferEnds, Usb, Ep0Flags, Kept, TransferKept

LEMMA UsbTyped ==
  ASSUME NEW s \in Usb, NEW c \in SUBSET Ep0Flags
  PROVE  /\ [s EXCEPT !.cs0 = c] \in Usb
         /\ [s EXCEPT !.ct = "NONE", !.cs0 = c] \in Usb
BY DEF Usb

LEMMA EndFlagTyped ==
  \A c \in SUBSET Ep0Flags :
    /\ c \cup {"DATA_END"} \in SUBSET Ep0Flags
    /\ (c \ {"OUTPKT_RDY"}) \cup {"DATA_END"} \in SUBSET Ep0Flags
    /\ (c \ {"OUTPKT_RDY"}) \cup {"SEND_STALL"} \in SUBSET Ep0Flags
    /\ c \ {"OUTPKT_RDY"} \in SUBSET Ep0Flags
BY DEF Ep0Flags

(* A data packet of a control write. *)
LEMMA DataFacts ==
  ASSUME NEW s \in Usb, NEW t, t = DataReceived(s), s.ct = "WRITE"
  PROVE  /\ t \in Usb /\ Kept(s, t) /\ t.cif = s.cif /\ t.in = s.in
         /\ \/ t.ct = "WRITE" /\ t.cs0 = s.cs0 \ {"OUTPKT_RDY"}
            \/ t.ct = "NONE" /\ t.cs0 = (s.cs0 \ {"OUTPKT_RDY"}) \cup {"DATA_END"}
<1>. DEFINE n == Min2(s.out.n, s.left)
            u == [s EXCEPT !.left = @ - n, !.at = @ + n, !.cs0 = @ \ {"OUTPKT_RDY"}]
<1>1. n \in Nat /\ s.left - n \in Nat /\ s.at + n \in Nat
  <2>1. s.out.n \in Nat /\ s.left \in Nat /\ s.at \in Nat
    BY DEF Usb, OutPackets
  <2>. QED BY <2>1 DEF Min2
<1>. HIDE DEF n
<1>2. u \in Usb
  BY <1>1 DEF Usb, Ep0Flags
<1>3. /\ Kept(s, u) /\ u.cif = s.cif /\ u.in = s.in /\ u.ct = s.ct
      /\ u.cs0 = s.cs0 \ {"OUTPKT_RDY"}
  BY DEF Usb, Kept
<1>4. t = IF u.left > 0 THEN u ELSE [u EXCEPT !.ct = "NONE", !.cs0 = @ \cup {"DATA_END"}]
  BY DEF DataReceived, n
<1>. HIDE DEF u
<1>5. CASE u.left > 0
  BY <1>2, <1>3, <1>4, <1>5 DEF Kept
<1>6. CASE ~(u.left > 0)
  <2>1. t \in Usb
    <3>. DEFINE c == u.cs0 \cup {"DATA_END"}
    <3>1. t = [u EXCEPT !.ct = "NONE", !.cs0 = c]
      BY <1>4, <1>6
    <3>2. c \in SUBSET Ep0Flags
      BY <1>2, EndFlagTyped DEF Usb
    <3>. HIDE DEF c
    <3>3. [u EXCEPT !.ct = "NONE", !.cs0 = c] \in Usb
      BY <1>2, <3>2, UsbTyped
    <3>. QED BY <3>1, <3>3
  <2>2. /\ t.setup = u.setup /\ t.vbus = u.vbus /\ t.out = u.out /\ t.state = u.state
        /\ t.cif = u.cif /\ t.in = u.in /\ t.ct = "NONE" /\ t.cs0 = u.cs0 \cup {"DATA_END"}
    BY <1>2, <1>4, <1>6 DEF Usb
  <2>. QED BY <1>3, <2>1, <2>2 DEF Kept
<1>. QED BY <1>5, <1>6

LEMMA AnswerFacts ==
  ASSUME NEW s \in Usb, NEW t, t = Answer(s)
  PROVE  /\ t \in Usb /\ Kept(s, t) /\ TransferKept(s, t) /\ t.cif = s.cif
         /\ \/ s.ct = "NONE" /\ t.ct = "NONE"
                 /\ t.cs0 = (s.cs0 \ {"OUTPKT_RDY"}) \cup {"SEND_STALL"}
            \/ s.ct = "WRITE" /\ s.left # 0 /\ t.ct = "WRITE"
                 /\ t.cs0 = s.cs0 \ {"OUTPKT_RDY"}
            \/ s.ct = "WRITE" /\ s.left = 0 /\ t.ct = "NONE"
                 /\ t.cs0 = (s.cs0 \ {"OUTPKT_RDY"}) \cup {"DATA_END"}
            \/ s.ct = "READ" /\ t = s
<1>1. s.ct \in {"NONE", "READ", "WRITE"} /\ s.left \in Nat
  BY DEF Usb
<1>2. CASE s.ct = "NONE"
  <2>. DEFINE c == (s.cs0 \ {"OUTPKT_RDY"}) \cup {"SEND_STALL"}
  <2>1. t = [s EXCEPT !.cs0 = c]
    BY <1>2 DEF Answer
  <2>2. t \in Usb
    <3>1. c \in SUBSET Ep0Flags
      BY EndFlagTyped DEF Usb
    <3>. HIDE DEF c
    <3>. QED BY <2>1, <3>1, UsbTyped
  <2>. QED BY <1>2, <2>1, <2>2 DEF Usb, Kept, TransferKept
<1>3. CASE s.ct = "WRITE" /\ s.left # 0
  <2>. DEFINE c == s.cs0 \ {"OUTPKT_RDY"}
  <2>1. t = [s EXCEPT !.cs0 = c]
    BY <1>1, <1>3 DEF Answer
  <2>2. t \in Usb
    <3>1. c \in SUBSET Ep0Flags
      BY EndFlagTyped DEF Usb
    <3>. HIDE DEF c
    <3>. QED BY <2>1, <3>1, UsbTyped
  <2>. QED BY <1>3, <2>1, <2>2 DEF Usb, Kept, TransferKept
<1>4. CASE s.ct = "WRITE" /\ s.left = 0
  <2>. DEFINE c == (s.cs0 \ {"OUTPKT_RDY"}) \cup {"DATA_END"}
  <2>1. t = [s EXCEPT !.ct = "NONE", !.cs0 = c]
    BY <1>1, <1>4 DEF Answer
  <2>2. t \in Usb
    <3>1. c \in SUBSET Ep0Flags
      BY EndFlagTyped DEF Usb
    <3>. HIDE DEF c
    <3>. QED BY <2>1, <3>1, UsbTyped
  <2>. QED BY <1>4, <2>1, <2>2 DEF Usb, Kept, TransferKept
<1>5. CASE s.ct = "READ"
  BY <1>5 DEF Answer, Kept, TransferKept
<1>. QED BY <1>1, <1>2, <1>3, <1>4, <1>5

(* A packet of a control read is armed, or nothing is. *)
Arms(s, t) ==
  /\ "INPKT_RDY" \in t.cs0 /\ t.ct \in {"NONE", "READ"}
  /\ \A f \in {"OUTPKT_RDY", "SEND_STALL", "SENT_STALL", "SETUP_END"} :
       f \in t.cs0 <=> f \in s.cs0
  /\ "DATA_END" \in t.cs0 => "DATA_END" \in s.cs0 \/ t.ct = "NONE"
  /\ t.in.src = s.src /\ t.in.at = s.at /\ t.in.n = Min2(s.left, USB_EP0_PACKET_SIZE)
  /\ t.src = s.src /\ t.at = s.at + t.in.n /\ t.left = s.left - t.in.n

LEMMA InFacts ==
  ASSUME NEW s \in Usb, NEW ready \in BOOLEAN, NEW t, t = InPacket(s, ready)
  PROVE  /\ t \in Usb /\ Kept(s, t) /\ t.cif = s.cif
         /\ \/ t = s /\ (s.ct = "READ" => ~ready)
            \/ ready /\ s.ct = "READ" /\ Arms(s, t)
<1>1. CASE ~ready \/ s.ct # "READ"
  BY <1>1 DEF InPacket, Kept
<1>2. CASE ready /\ s.ct = "READ"
  <2>. DEFINE n == Min2(s.left, USB_EP0_PACKET_SIZE)
              ct == IF s.left < USB_EP0_PACKET_SIZE THEN "NONE" ELSE s.ct
              end == IF s.left < USB_EP0_PACKET_SIZE THEN {"DATA_END"} ELSE {}
              packet == [src |-> s.src, at |-> s.at, n |-> n]
  <2>1. t = [s EXCEPT !.ct = ct, !.cs0 = @ \cup {"INPKT_RDY"} \cup end,
                      !.in = packet, !.at = @ + n, !.left = @ - n]
    BY <1>2 DEF InPacket
  <2>2. s.left \in Nat /\ s.at \in Nat /\ s.src \in Sources
    BY DEF Usb
  <2>3. n \in Nat /\ s.left - n \in Nat /\ s.at + n \in Nat
    BY <2>2, Sizes DEF Min2
  <2>4. /\ ct \in {"NONE", "READ"} /\ end \in SUBSET {"DATA_END"}
        /\ end # {} => ct = "NONE"
    BY <1>2
  <2>. HIDE DEF n, ct, end
  <2>5. packet \in InPackets
    BY <2>2, <2>3 DEF InPackets
  <2>6. packet.src = s.src /\ packet.at = s.at /\ packet.n = n
    OBVIOUS
  <2>. HIDE DEF packet
  <2>7. t \in Usb
    <3>1. s.cs0 \cup {"INPKT_RDY"} \cup end \in SUBSET Ep0Flags
      <4>1. s.cs0 \in SUBSET Ep0Flags
        BY DEF Usb
      <4>. QED BY <2>4, <4>1 DEF Ep0Flags
    <3>2. ct \in {"NONE", "READ", "WRITE"}
      BY <2>4
    <3>. DEFINE c == s.cs0 \cup {"INPKT_RDY"} \cup end
                left == s.left - n
                at == s.at + n
    <3>3. c \in SUBSET Ep0Flags /\ left \in Nat /\ at \in Nat
      BY <2>3, <3>1
    <3>4. t = [s EXCEPT !.ct = ct, !.cs0 = c, !.in = packet, !.at = at, !.left = left]
      BY <2>1
    <3>. HIDE DEF c, left, at
    <3>. QED BY <2>5, <3>2, <3>3, <3>4, ZenonT(40) DEF Usb
  <2>8. Kept(s, t) /\ t.cif = s.cif /\ t.src = s.src
    BY <2>1 DEF Usb, Kept
  <2>9. /\ t.ct = ct /\ t.cs0 = s.cs0 \cup {"INPKT_RDY"} \cup end
        /\ t.in = packet /\ t.at = s.at + n /\ t.left = s.left - n
    BY <2>1 DEF Usb
  <2>10. /\ "INPKT_RDY" \in t.cs0 /\ t.ct \in {"NONE", "READ"}
         /\ \A f \in {"OUTPKT_RDY", "SEND_STALL", "SENT_STALL", "SETUP_END"} :
              f \in t.cs0 <=> f \in s.cs0
         /\ "DATA_END" \in t.cs0 => "DATA_END" \in s.cs0 \/ t.ct = "NONE"
    BY <2>4, <2>9
  <2>11. Arms(s, t)
    BY <2>6, <2>8, <2>9, <2>10 DEF Arms, n
  <2>. QED BY <1>2, <2>7, <2>8, <2>11
<1>. QED BY <1>1, <1>2

------------------------------------------------------------------------------
(* The handlers of SETUP packets. *)

(* What no handler changes. *)
HandlerKept(s, t) ==
  /\ t.setup = s.setup /\ t.vbus = s.vbus /\ t.out = s.out /\ t.in = s.in
  /\ t.cif = s.cif /\ t.cs0 = s.cs0

LEMMA ReadFacts ==
  ASSUME NEW s \in Usb, NEW n \in Nat, NEW src \in Sources, NEW t,
         t = usbControlRead(s, n, src)
  PROVE  /\ t \in Usb /\ HandlerKept(s, t) /\ t.state = s.state
         /\ t.ct = "READ" /\ t.left = n /\ t.src = src /\ t.at = 0
<1>1. t \in Usb
  BY DEF usbControlRead, Usb
<1>. QED BY <1>1 DEF usbControlRead, Usb, HandlerKept

LEMMA WriteFacts ==
  ASSUME NEW s \in Usb, NEW n \in Nat, NEW src \in Sources, NEW t,
         t = usbControlWrite(s, n, src)
  PROVE  t \in Usb /\ HandlerKept(s, t) /\ t.state = s.state /\ t.ct = "WRITE"
<1>1. t \in Usb
  BY DEF usbControlWrite, Usb
<1>. QED BY <1>1 DEF usbControlWrite, Usb, HandlerKept

LEMMA AcknowledgeFacts ==
  ASSUME NEW s \in Usb, NEW t, t = usbControlAcknowledge(s)
  PROVE  /\ t \in Usb /\ HandlerKept(s, t) /\ t.state = s.state
         /\ t.ct = "WRITE" /\ t.left = 0
<1>1. t \in Usb
  BY DEF usbControlAcknowledge, Usb
<1>. QED BY <1>1 DEF usbControlAcknowledge, Usb, HandlerKept

LEMMA SetupFacts ==
  ASSUME NEW r \in SetupPackets
  PROVE  /\ r.n \in Nat /\ r.len \in Nat
         /\ r.request \in {"GET_CONFIGURATION", "GET_INTERFACE"} => r.len = 1
         /\ r.request \in {"GET_STATUS", "SYNCH_FRAME"} => r.len >= 2
         /\ r.request = "GET_LINE_CODING" => r.len >= Length["lineCoding"]
<1>1. CASE r \in Requests
  BY <1>1, RequestAssumption DEF RequestAssumption
<1>2. CASE r = NoRequest
  <2>1. NoRequest.n \in Nat /\ NoRequest.len \in Nat /\ NoRequest.request = ""
    BY DEF NoRequest
  <2>. QED BY <1>2, <2>1
<1>. QED BY <1>1, <1>2 DEF SetupPackets

LEMMA LengthFacts ==
  /\ Length["device"] \in Nat /\ Length["configuration"] \in Nat
  /\ Length["string"] \in Nat /\ Length["lineCoding"] \in Nat /\ Length["response"] = 2
BY RequestAssumption DEF RequestAssumption

Addressing(r) == r.request \in {"SET_ADDRESS", "SET_CONFIGURATION"}

(* The state that a request to set it leads to. *)
StateAfter(r) ==
  IF r.request = "SET_ADDRESS" THEN IF r.n = 0 THEN "DEFAULT" ELSE "ADDRESS"
  ELSE IF r.n = 1 THEN "CONFIGURED" ELSE "ADDRESS"

(* A handler answers a read with what is wanted, sets the state of the device *)
(* if it accepts a request to set it, and otherwise leaves it alone.          *)
Handled(s, t) ==
  /\ t \in Usb /\ HandlerKept(s, t)
  /\ t.ct = "READ" =>
       /\ t.src = Wanted(s.setup) /\ t.at = 0
       /\ t.left = Min2(s.setup.len, Length[Wanted(s.setup)])
  /\ ~Addressing(s.setup) => t.state = s.state
  /\ Addressing(s.setup) =>
       \/ t.ct = "NONE"
       \/ /\ t.ct = "WRITE" /\ t.left = 0
          /\ s.setup.request = "SET_ADDRESS" \/ s.state \in {"ADDRESS", "CONFIGURED"} =>
               t.state = StateAfter(s.setup)

LEMMA Refused ==
  ASSUME NEW s \in Usb, s.ct = "NONE"
  PROVE  Handled(s, s)
BY DEF Handled, HandlerKept

LEMMA ReadHandled ==
  ASSUME NEW s \in Usb, NEW n \in Nat, NEW src \in Sources, NEW t,
         t = usbControlRead(s, n, src), ~Addressing(s.setup),
         src = Wanted(s.setup), n = Min2(s.setup.len, Length[src])
  PROVE  Handled(s, t)
BY ReadFacts DEF Handled

LEMMA DescriptorHandled ==
  ASSUME NEW s \in Usb, s.ct = "NONE", s.setup.request = "GET_DESCRIPTOR", NEW t,
         t = GetDescriptor(s)
  PROVE  Handled(s, t)
<1>. DEFINE r == s.setup
<1>1. /\ r.len \in Nat /\ r \in SetupPackets /\ ~Addressing(r) /\ Wanted(r) = r.what
      /\ s.left \in Nat
  BY SetupFacts DEF Usb, Addressing, Wanted
<1>2. ASSUME NEW src \in {"device", "configuration", "string"}, r.what = src,
             t = [usbControlRead(s, Length[src], src) EXCEPT
                    !.left = Min2(Length[src], r.len)]
      PROVE  Handled(s, t)
  <2>1. Length[src] \in Nat /\ src \in Sources
    BY LengthFacts DEF Sources
  <2>2. Min2(Length[src], r.len) = Min2(r.len, Length[src]) /\ Min2(r.len, Length[src]) \in Nat
    BY <1>1, <2>1 DEF Min2
  <2>3. t = usbControlRead(s, Min2(r.len, Length[src]), src)
    BY <1>2, <2>2 DEF usbControlRead, Usb
  <2>. QED BY <1>1, <1>2, <2>1, <2>2, <2>3, ReadHandled
<1>3. ASSUME t = [s EXCEPT !.left = s.left]
      PROVE  Handled(s, t)
  <2>1. t = s
    BY <1>3 DEF Usb
  <2>. QED BY <2>1, Refused
<1>4. ASSUME NEW src \in {"device", "configuration", "string"}, NEW k,
             k = usbControlRead(s, Length[src], src)
      PROVE  k.ct = "READ" /\ k.left = Length[src]
  <2>1. Length[src] \in Nat /\ src \in Sources
    BY LengthFacts DEF Sources
  <2>. QED BY <1>4, <2>1, ReadFacts
<1>. QED BY <1>2, <1>3, <1>4 DEF GetDescriptor, usbCallbackClassDescriptorHandler

LEMMA AddressHandled ==
  ASSUME NEW s \in Usb, s.ct = "NONE", s.setup.request = "SET_ADDRESS", NEW t,
         t = SetAddress(s)
  PROVE  Handled(s, t)
<1>. DEFINE u == [s EXCEPT !.state = IF s.setup.n # 0 THEN "ADDRESS" ELSE "DEFAULT"]
<1>1. u \in Usb /\ HandlerKept(s, u) /\ u.state = StateAfter(s.setup)
  BY DEF Usb, HandlerKept, StateAfter
<1>2. t = usbControlAcknowledge(u)
  BY DEF SetAddress
<1>. HIDE DEF u
<1>. QED BY <1>1, <1>2, AcknowledgeFacts DEF Handled, HandlerKept, Addressing

LEMMA ConfigurationHandled ==
  ASSUME NEW s \in Usb, s.ct = "NONE", s.setup.request = "SET_CONFIGURATION", NEW t,
         t = SetConfiguration(s)
  PROVE  Handled(s, t)
<1>1. ASSUME NEW st \in {"DETACHED", "POWERED", "DEFAULT", "ADDRESS", "CONFIGURED"},
             t = usbControlAcknowledge([s EXCEPT !.state = st]),
             s.state \in {"ADDRESS", "CONFIGURED"} => st = StateAfter(s.setup)
      PROVE  Handled(s, t)
  <2>. DEFINE u == [s EXCEPT !.state = st]
  <2>1. u \in Usb /\ HandlerKept(s, u) /\ u.state = st
    BY DEF Usb, HandlerKept
  <2>2. t = usbControlAcknowledge(u)
    BY <1>1
  <2>. HIDE DEF u
  <2>3. Addressing(s.setup) /\ s.setup.request # "SET_ADDRESS"
    BY DEF Addressing
  <2>. QED BY <1>1, <2>1, <2>2, <2>3, AcknowledgeFacts DEF Handled, HandlerKept
<1>2. CASE s.setup.n = 0
  <2>. DEFINE st == IF s.state = "CONFIGURED" THEN "ADDRESS" ELSE s.state
  <2>1. /\ st \in {"DETACHED", "POWERED", "DEFAULT", "ADDRESS", "CONFIGURED"}
        /\ s.state \in {"ADDRESS", "CONFIGURED"} => st = StateAfter(s.setup)
    BY <1>2 DEF Usb, StateAfter
  <2>2. t = usbControlAcknowledge([s EXCEPT !.state = st])
    BY <1>2 DEF SetConfiguration
  <2>. HIDE DEF st
  <2>. QED BY <1>1, <2>1, <2>2
<1>3. CASE s.setup.n = 1
  <2>1. t = usbControlAcknowledge([s EXCEPT !.state = "CONFIGURED"])
    BY <1>3 DEF SetConfiguration
  <2>2. StateAfter(s.setup) = "CONFIGURED"
    BY <1>3 DEF StateAfter
  <2>. QED BY <1>1, <2>1, <2>2
<1>4. CASE s.setup.n \notin {0, 1}
  BY <1>4, Refused DEF SetConfiguration
<1>. QED BY <1>2, <1>3, <1>4

LEMMA StandardHandled ==
  ASSUME NEW s \in Usb, s.ct = "NONE", NEW t, t = usbStandardDeviceRequestHandler(s)
  PROVE  Handled(s, t)
<1>. DEFINE r == s.setup
<1>1. r \in SetupPackets
  BY DEF Usb
<1>2. ASSUME NEW n \in {1, 2}, t = usbControlRead(s, n, "response"),
             r.len = n \/ (n = 2 /\ r.len >= 2),
             r.request \in {"GET_CONFIGURATION", "GET_INTERFACE", "GET_STATUS", "SYNCH_FRAME"}
      PROVE  Handled(s, t)
  <2>1. Wanted(r) = "response" /\ ~Addressing(r) /\ "response" \in Sources
    BY <1>2 DEF Wanted, Addressing, Sources
  <2>2. n = Min2(r.len, Length["response"])
    <3>1. r.len \in Nat
      BY <1>1, SetupFacts
    <3>. QED BY <1>2, <3>1, LengthFacts DEF Min2
  <2>. QED BY <1>2, <2>1, <2>2, ReadHandled
<1>3. CASE r.request = "GET_DESCRIPTOR"
  BY <1>3, DescriptorHandled DEF usbStandardDeviceRequestHandler
<1>4. CASE r.request = "SET_ADDRESS"
  BY <1>4, AddressHandled DEF usbStandardDeviceRequestHandler
<1>5. CASE r.request = "SET_CONFIGURATION"
  BY <1>5, ConfigurationHandled DEF usbStandardDeviceRequestHandler
<1>6. CASE r.request = "GET_CONFIGURATION"
  BY <1>1, <1>2, <1>6, SetupFacts DEF usbStandardDeviceRequestHandler
<1>7. CASE r.request = "GET_INTERFACE"
  <2>1. t = GetInterface(s)
    BY <1>7 DEF usbStandardDeviceRequestHandler
  <2>2. t = s \/ t = usbControlRead(s, 1, "response")
    BY <2>1 DEF GetInterface
  <2>3. r.len = 1
    BY <1>1, <1>7, SetupFacts
  <2>. QED BY <1>2, <1>7, <2>2, <2>3, Refused
<1>8. CASE r.request = "GET_STATUS"
  <2>1. t = GetStatus(s)
    BY <1>8 DEF usbStandardDeviceRequestHandler
  <2>2. t = s \/ t = usbControlRead(s, 2, "response")
    BY <2>1 DEF GetStatus
  <2>3. r.len >= 2
    BY <1>1, <1>8, SetupFacts
  <2>. QED BY <1>2, <1>8, <2>2, <2>3, Refused
<1>9. CASE r.request \in {"SET_FEATURE", "CLEAR_FEATURE"}
  <2>1. t = usbControlAcknowledge(s) /\ ~Addressing(r)
    BY <1>9 DEF usbStandardDeviceRequestHandler, Addressing
  <2>. QED BY <2>1, AcknowledgeFacts DEF Handled
<1>10. CASE r.request = "SYNCH_FRAME"
  BY <1>1, <1>2, <1>10, SetupFacts DEF usbStandardDeviceRequestHandler
<1>11. CASE r.request \notin {"GET_DESCRIPTOR", "SET_ADDRESS", "SET_CONFIGURATION",
                              "GET_CONFIGURATION", "GET_INTERFACE", "GET_STATUS", "SET_FEATURE",
                              "CLEAR_FEATURE", "SYNCH_FRAME"}
  <2>1. t = s
    BY <1>11 DEF usbStandardDeviceRequestHandler
  <2>. QED BY <2>1, Refused
<1>. QED BY <1>3, <1>4, <1>5, <1>6, <1>7, <1>8, <1>9, <1>10, <1>11

LEMMA ClassHandled ==
  ASSUME NEW s \in Usb, s.ct = "NONE", NEW t, t = usbCallbackSetupHandler(s)
  PROVE  Handled(s, t)
<1>. DEFINE r == s.setup
            n == Length["lineCoding"]
<1>1. r \in SetupPackets /\ n \in Nat /\ "lineCoding" \in Sources
  BY LengthFacts DEF Usb, Sources
<1>2. CASE ToThePort(r) /\ r.request = "SET_LINE_CODING"
  <2>1. t = usbControlWrite(s, n, "lineCoding") /\ ~Addressing(r)
    BY <1>2 DEF usbCallbackSetupHandler, Addressing
  <2>. QED BY <1>1, <2>1, WriteFacts DEF Handled
<1>3. CASE ToThePort(r) /\ r.request = "GET_LINE_CODING"
  <2>1. t = usbControlRead(s, n, "lineCoding") /\ ~Addressing(r) /\ Wanted(r) = "lineCoding"
    BY <1>3 DEF usbCallbackSetupHandler, Addressing, Wanted
  <2>2. n = Min2(r.len, Length["lineCoding"])
    BY <1>1, <1>3, SetupFacts DEF Min2
  <2>. QED BY <1>1, <2>1, <2>2, ReadHandled
<1>4. CASE ToThePort(r) /\ r.request = "SET_CONTROL_LINE_STATE"
  <2>1. t = usbControlAcknowledge(s) /\ ~Addressing(r)
    BY <1>4 DEF usbCallbackSetupHandler, Addressing
  <2>. QED BY <2>1, AcknowledgeFacts DEF Handled
<1>5. CASE \/ ~ToThePort(r)
           \/ r.request \notin {"SET_LINE_CODING", "GET_LINE_CODING", "SET_CONTROL_LINE_STATE"}
  <2>1. t = s
    BY <1>5 DEF usbCallbackSetupHandler
  <2>. QED BY <2>1, Refused
<1>. QED BY <1>2, <1>3, <1>4, <1>5

------------------------------------------------------------------------------
(* A poll takes a SETUP packet, or does the rest. *)

(* Packets of a control read of n bytes of src, from at on: one is armed to be *)
(* sent, and what is left is to follow.                                        *)
Armed(t, src, at, left) ==
  /\ t.in.src = src /\ t.in.at = at /\ t.in.n = Min2(left, USB_EP0_PACKET_SIZE)
  /\ t.ct = "READ" => t.src = src /\ t.at = at + t.in.n /\ t.left = left - t.in.n

(* What the handler of the SETUP packet r has left behind in t. *)
Answered(s, t, r) ==
  /\ ~Addressing(r) => t.state = s.state
  /\ Addressing(r) =>
       /\ t.ct = "NONE"
       /\ "DATA_END" \in t.cs0 /\ (r.request = "SET_ADDRESS" \/ s.state \in {"ADDRESS", "CONFIGURED"})
            => t.state = StateAfter(r)
  /\ "DATA_END" \in t.cs0 => t.ct # "WRITE"

(* What a handler finds: the SETUP packet, and no transfer. *)
Asked(s) == [s EXCEPT !.setup = s.out.req, !.ct = "NONE", !.out = NoPacket]

LEMMA AskedFacts ==
  ASSUME NEW s \in Usb, NEW u, u = Asked(s)
  PROVE  /\ u \in Usb /\ u.setup = s.out.req /\ u.ct = "NONE" /\ u.out = NoPacket
         /\ u.state = s.state /\ u.vbus = s.vbus /\ u.cif = s.cif /\ u.cs0 = s.cs0
<1>. DEFINE r == s.out.req
<1>1. NoPacket \in OutPackets /\ r \in SetupPackets
  BY DEF Usb, OutPackets, NoPacket, SetupPackets
<1>2. u = [s EXCEPT !.setup = r, !.ct = "NONE", !.out = NoPacket]
  BY DEF Asked
<1>. HIDE DEF r
<1>3. u \in Usb
  BY <1>1, <1>2 DEF Usb
<1>. QED BY <1>2, <1>3 DEF Usb, r

LEMMA SetupReceivedFacts ==
  ASSUME NEW s \in Usb, s.out.setup, NEW h, Handled(Asked(s), h), NEW t, t = Answer(h),
         "DATA_END" \notin s.cs0, "INPKT_RDY" \notin s.cs0
  PROVE  /\ t \in Usb /\ t.vbus = s.vbus /\ t.cif = s.cif
         /\ t.setup = s.out.req /\ t.out = NoPacket
         /\ Answered(s, t, s.out.req)
         /\ "INPKT_RDY" \notin t.cs0
         /\ "SETUP_END" \in t.cs0 => "SETUP_END" \in s.cs0
         /\ "SENT_STALL" \in t.cs0 => "SENT_STALL" \in s.cs0
         /\ t.ct = "READ" =>
              /\ t.src = Wanted(s.out.req) /\ t.at = 0 /\ "DATA_END" \notin t.cs0
              /\ t.left = Min2(s.out.req.len, Length[Wanted(s.out.req)])
<1>. DEFINE r == s.out.req
            u == Asked(s)
<1>3. /\ u \in Usb /\ u.setup = r /\ u.ct = "NONE" /\ u.out = NoPacket /\ u.state = s.state
      /\ u.vbus = s.vbus /\ u.cif = s.cif /\ u.cs0 = s.cs0
  BY AskedFacts
<1>4. Handled(u, h)
  OBVIOUS
<1>. HIDE DEF u
<1>5. /\ h \in Usb /\ h.setup = r /\ h.vbus = s.vbus /\ h.out = NoPacket
      /\ h.cif = s.cif /\ h.cs0 = s.cs0
  BY <1>3, <1>4 DEF Handled, HandlerKept
<1>6. /\ h.ct = "READ" =>
           h.src = Wanted(r) /\ h.at = 0 /\ h.left = Min2(r.len, Length[Wanted(r)])
      /\ ~Addressing(r) => h.state = s.state
      /\ Addressing(r) =>
           \/ h.ct = "NONE"
           \/ /\ h.ct = "WRITE" /\ h.left = 0
              /\ r.request = "SET_ADDRESS" \/ s.state \in {"ADDRESS", "CONFIGURED"} =>
                   h.state = StateAfter(r)
  BY <1>3, <1>4 DEF Handled
<1>. HIDE DEF r
<1>7. /\ t \in Usb /\ Kept(h, t) /\ TransferKept(h, t) /\ t.cif = h.cif
      /\ \/ h.ct = "NONE" /\ t.ct = "NONE"
              /\ t.cs0 = (h.cs0 \ {"OUTPKT_RDY"}) \cup {"SEND_STALL"}
         \/ h.ct = "WRITE" /\ h.left # 0 /\ t.ct = "WRITE"
              /\ t.cs0 = h.cs0 \ {"OUTPKT_RDY"}
         \/ h.ct = "WRITE" /\ h.left = 0 /\ t.ct = "NONE"
              /\ t.cs0 = (h.cs0 \ {"OUTPKT_RDY"}) \cup {"DATA_END"}
         \/ h.ct = "READ" /\ t = h
  BY <1>5, AnswerFacts
<1>8. t \in Usb /\ t.vbus = s.vbus /\ t.cif = s.cif /\ t.setup = r /\ t.out = NoPacket
  BY <1>5, <1>7 DEF Kept
<1>9. /\ "INPKT_RDY" \notin t.cs0
      /\ "SETUP_END" \in t.cs0 => "SETUP_END" \in s.cs0
      /\ "SENT_STALL" \in t.cs0 => "SENT_STALL" \in s.cs0
      /\ "DATA_END" \in t.cs0 => h.ct = "WRITE" /\ h.left = 0 /\ t.ct = "NONE"
  BY <1>5, <1>7
<1>10. t.ct = "READ" =>
         /\ t.src = Wanted(r) /\ t.at = 0 /\ "DATA_END" \notin t.cs0
         /\ t.left = Min2(r.len, Length[Wanted(r)])
  BY <1>6, <1>7, <1>9 DEF TransferKept
<1>11. Answered(s, t, r)
  <2>1. t.state = h.state
    BY <1>7 DEF Kept
  <2>2. Addressing(r) => t.ct = "NONE"
    BY <1>6, <1>7
  <2>. QED BY <1>6, <1>7, <1>9, <2>1, <2>2 DEF Answered
<1>. QED BY <1>8, <1>9, <1>10, <1>11 DEF r

(* A poll of a device on the bus, after the events of the bus. *)
Poll(s, ready) == InPacket(OutPacket(TransferEnds(s)), ready)

(* One that hands the SETUP packet to a handler. *)
SetupPoll(s, t) ==
  \E h : Handled(Asked(TransferEnds(s)), h) /\ t = InPacket(Answer(h), TRUE)

LEMMA SetupPolled ==
  ASSUME NEW s \in Usb, NEW t, SetupPoll(s, t), "OUTPKT_RDY" \in s.cs0, s.out.setup,
         "DATA_END" \notin s.cs0, "INPKT_RDY" \notin s.cs0,
         s.ct # "WRITE" \/ s.cs0 \cap {"SETUP_END", "SENT_STALL"} # {}
  PROVE  /\ t \in Usb /\ t.vbus = s.vbus /\ t.cif = s.cif
         /\ t.setup = s.out.req /\ t.out = NoPacket
         /\ Answered(s, t, s.out.req)
         /\ t.ct = "READ" => "INPKT_RDY" \in t.cs0
         /\ "INPKT_RDY" \in t.cs0 =>
              /\ Min2(s.out.req.len, Length[Wanted(s.out.req)]) \in Nat
              /\ Armed(t, Wanted(s.out.req), 0,
                       Min2(s.out.req.len, Length[Wanted(s.out.req)]))
<1>0. PICK h : Handled(Asked(TransferEnds(s)), h) /\ t = InPacket(Answer(h), TRUE)
  BY DEF SetupPoll
<1>. DEFINE u == TransferEnds(s)
            v == Answer(h)
            r == s.out.req
            total == Min2(r.len, Length[Wanted(r)])
<1>1. /\ u \in Usb /\ u.cs0 = s.cs0 \ {"SETUP_END", "SENT_STALL"} /\ u.ct # "WRITE"
      /\ Kept(s, u) /\ u.cif = s.cif
  BY EndsFacts
<1>2. Handled(Asked(u), h)
  BY <1>0
<1>. HIDE DEF u
<1>3. /\ v \in Usb /\ v.vbus = u.vbus /\ v.cif = u.cif /\ v.setup = r /\ v.out = NoPacket
      /\ Answered(u, v, r) /\ "INPKT_RDY" \notin v.cs0
      /\ v.ct = "READ" =>
           /\ v.src = Wanted(r) /\ v.at = 0 /\ "DATA_END" \notin v.cs0 /\ v.left = total
  <2>1. u.out = s.out
    BY <1>1 DEF Kept
  <2>. HIDE DEF v
  <2>2. v = Answer(h)
    BY DEF v
  <2>. QED BY <1>1, <1>2, <2>1, <2>2, SetupReceivedFacts
<1>4. u.vbus = s.vbus /\ u.cif = s.cif /\ u.state = s.state
  BY <1>1 DEF Kept
<1>5. v.left \in Nat
  BY <1>3 DEF Usb
<1>6. t = InPacket(v, TRUE)
  BY <1>0
<1>. HIDE DEF r, total, v
<1>7. t \in Usb /\ Kept(v, t) /\ t.cif = v.cif
      /\ \/ t = v /\ v.ct # "READ"
         \/ v.ct = "READ" /\ Arms(v, t)
  BY <1>3, <1>6, InFacts
<1>8. CASE t = v /\ v.ct # "READ"
  BY <1>3, <1>4, <1>8 DEF Answered, r
<1>9. CASE v.ct = "READ" /\ Arms(v, t)
  <2>1. "DATA_END" \in t.cs0 => t.ct = "NONE"
    BY <1>3, <1>9 DEF Arms
  <2>2. total \in Nat /\ v.left = total /\ v.src = Wanted(r) /\ v.at = 0
    BY <1>3, <1>5, <1>9
  <2>3. Armed(t, Wanted(r), 0, total)
    <3>1. t.in.src = v.src /\ t.in.at = v.at /\ t.in.n = Min2(v.left, USB_EP0_PACKET_SIZE)
          /\ t.src = v.src /\ t.at = v.at + t.in.n /\ t.left = v.left - t.in.n
      BY <1>9 DEF Arms
    <3>. QED BY <2>2, <3>1 DEF Armed
  <2>4. ~Addressing(r)
    BY <1>3, <1>9 DEF Answered
  <2>5. t.state = s.state
    BY <1>3, <1>4, <1>7, <2>4 DEF Answered, Kept
  <2>6. Answered(s, t, r)
    BY <2>1, <2>4, <2>5 DEF Answered
  <2>7. t.vbus = s.vbus /\ t.cif = s.cif /\ t.setup = r /\ t.out = NoPacket
    BY <1>3, <1>4, <1>7 DEF Kept
  <2>8. "INPKT_RDY" \in t.cs0
    BY <1>9 DEF Arms
  <2>. QED BY <1>7, <2>2, <2>3, <2>6, <2>7, <2>8 DEF r, total
<1>. QED BY <1>7, <1>8, <1>9

(* A poll that takes no SETUP packet keeps the transfer or goes on with it. *)
LEMMA RestPolled ==
  ASSUME NEW s \in Usb, NEW ready \in BOOLEAN, NEW t, t = Poll(s, ready),
         ready <=> "INPKT_RDY" \notin s.cs0,
         ~("OUTPKT_RDY" \in s.cs0 /\ s.out.setup)
  PROVE  /\ t \in Usb /\ Kept(s, t) /\ t.cif = s.cif
         /\ "OUTPKT_RDY" \in t.cs0 => "OUTPKT_RDY" \in s.cs0
         /\ "DATA_END" \in s.cs0 => "DATA_END" \in t.cs0
         /\ t.ct = "WRITE" =>
              /\ s.ct = "WRITE" /\ s.cs0 \cap {"SETUP_END", "SENT_STALL"} = {}
              /\ "DATA_END" \in t.cs0 => "DATA_END" \in s.cs0
         /\ s.ct = "NONE" => t.ct = "NONE" /\ ("DATA_END" \in t.cs0 => "DATA_END" \in s.cs0)
         /\ "INPKT_RDY" \in s.cs0 =>
              /\ "INPKT_RDY" \in t.cs0 /\ t.in = s.in
              /\ t.ct = "READ" => s.ct = "READ" /\ TransferKept(s, t)
         /\ "INPKT_RDY" \notin s.cs0 =>
              \/ "INPKT_RDY" \notin t.cs0 /\ t.ct # "READ"
              \/ "INPKT_RDY" \in t.cs0 /\ s.ct = "READ" /\ Armed(t, s.src, s.at, s.left)
<1>. DEFINE u == TransferEnds(s)
            v == OutPacket(u)
<1>1. /\ u \in Usb /\ u.cs0 = s.cs0 \ {"SETUP_END", "SENT_STALL"}
      /\ u.ct = IF s.cs0 \cap {"SETUP_END", "SENT_STALL"} = {} THEN s.ct ELSE "NONE"
      /\ Kept(s, u) /\ TransferKept(s, u) /\ u.cif = s.cif
  BY EndsFacts
<1>. HIDE DEF u
<1>2. /\ v \in Usb /\ Kept(u, v) /\ v.cif = u.cif /\ v.in = u.in
      /\ \/ v.ct = u.ct /\ TransferKept(u, v) /\ v.cs0 \in {u.cs0, u.cs0 \ {"OUTPKT_RDY"}}
         \/ u.ct = "WRITE" /\ v.ct = "WRITE" /\ v.cs0 = u.cs0 \ {"OUTPKT_RDY"}
         \/ u.ct = "WRITE" /\ v.ct = "NONE" /\ v.cs0 = (u.cs0 \ {"OUTPKT_RDY"}) \cup {"DATA_END"}
  <2>1. CASE "OUTPKT_RDY" \notin u.cs0
    BY <1>1, <2>1 DEF OutPacket, Kept, TransferKept
  <2>2. CASE "OUTPKT_RDY" \in u.cs0 /\ u.ct = "WRITE"
    <3>1. v = DataReceived(u)
      BY <2>2 DEF OutPacket
    <3>. HIDE DEF v
    <3>. QED BY <1>1, <2>2, <3>1, DataFacts
  <2>3. CASE "OUTPKT_RDY" \in u.cs0 /\ u.ct # "WRITE"
    <3>. DEFINE c == u.cs0 \ {"OUTPKT_RDY"}
    <3>1. ~u.out.setup
      BY <1>1, <2>3 DEF Kept
    <3>2. v = [u EXCEPT !.cs0 = c]
      BY <2>3, <3>1 DEF OutPacket
    <3>3. c \in SUBSET Ep0Flags
      BY <1>1, EndFlagTyped DEF Usb
    <3>. HIDE DEF v
    <3>4. v \in Usb
      <4>. HIDE DEF c
      <4>. QED BY <1>1, <3>2, <3>3, UsbTyped
    <3>5. Kept(u, v) /\ v.cif = u.cif /\ v.in = u.in /\ v.ct = u.ct /\ TransferKept(u, v) /\ v.cs0 = c
      BY <1>1, <3>2 DEF Usb, Kept, TransferKept
    <3>. QED BY <3>4, <3>5
  <2>. QED BY <2>1, <2>2, <2>3
<1>3. t = InPacket(v, ready)
  BY DEF Poll, u, v
<1>. HIDE DEF v
<1>4. t \in Usb /\ Kept(v, t) /\ t.cif = v.cif
      /\ \/ t = v /\ (v.ct = "READ" => ~ready)
         \/ ready /\ v.ct = "READ" /\ Arms(v, t)
  BY <1>2, <1>3, InFacts
<1>5. Kept(s, t) /\ t.cif = s.cif
  BY <1>1, <1>2, <1>4 DEF Kept
<1>6. CASE t = v /\ (v.ct = "READ" => ~ready)
  BY <1>1, <1>2, <1>4, <1>5, <1>6 DEF TransferKept
<1>7. CASE ready /\ v.ct = "READ" /\ Arms(v, t)
  <2>1. s.ct = "READ" /\ s.cs0 \cap {"SETUP_END", "SENT_STALL"} = {} /\ TransferKept(s, v)
    BY <1>1, <1>2, <1>7 DEF TransferKept
  <2>2. Armed(t, s.src, s.at, s.left) /\ t.ct # "WRITE" /\ "INPKT_RDY" \in t.cs0
    BY <1>7, <2>1 DEF Arms, Armed, TransferKept
  <2>3. "OUTPKT_RDY" \in t.cs0 => "OUTPKT_RDY" \in s.cs0
    BY <1>1, <1>2, <1>7 DEF Arms
  <2>4. "DATA_END" \in s.cs0 => "DATA_END" \in t.cs0
    BY <1>1, <1>2, <1>3, <1>7 DEF Arms, InPacket
  <2>. QED BY <1>4, <1>5, <1>7, <2>1, <2>2, <2>3, <2>4
<1>. QED BY <1>4, <1>6, <1>7

------------------------------------------------------------------------------
(* The invariant of the control transfers.  A SETUP packet that the device has *)
(* not seen yet is pending; what is in the FIFO and in the transfer belongs to *)
(* the host's request only when none is.                                       *)

Flag(f) == f \in usb.cs0
Pending == Flag("OUTPKT_RDY") /\ usb.out.setup
Ended == usb.cs0 \cap {"SETUP_END", "SENT_STALL"} # {}
WasReset == "reset" \in usb.cif
Total == Min2(host.req.len, Length[Wanted(host.req)])
On == host.phase # "off"
Busy == host.phase \in {"in", "out", "status"}

PendingOK == Pending =>
  /\ ~Flag("DATA_END") /\ ~Flag("INPKT_RDY") /\ ~Flag("SEND_STALL") /\ host.phase # "idle"
  /\ On => /\ usb.out.req = host.req /\ ~(host.phase = "status" /\ Reads(host.req))
           /\ host.phase = "in" => host.got = 0
           /\ Addressing(host.req) => host.phase = "status"

PhaseOK == (On => usb.vbus) /\ (Busy /\ ~Pending => ~WasReset)

WriteOK == /\ Pending \/ host.phase = "idle" => usb.ct # "WRITE" \/ Ended \/ WasReset
           /\ Flag("DATA_END") => usb.ct # "WRITE"

InOK == host.phase = "in" /\ ~Pending =>
  /\ Flag("INPKT_RDY") => /\ Total \in Nat /\ host.got <= Total
                          /\ Armed(usb, Wanted(host.req), host.got, Total - host.got)
  /\ ~Flag("INPKT_RDY") /\ usb.ct = "READ" =>
       /\ Total \in Nat /\ host.got <= Total
       /\ usb.src = Wanted(host.req) /\ usb.at = host.got /\ usb.left = Total - host.got

DoneOK == host.phase = "status" /\ Reads(host.req) => host.got = Total

AddressOK == host.phase = "status" /\ Addressing(host.req) =>
  /\ host.believes = "unknown"
  /\ Pending /\ host.req.request = "SET_CONFIGURATION" =>
       ~WasReset /\ usb.state \in {"ADDRESS", "CONFIGURED"}
  /\ ~Pending => usb.ct = "NONE" /\ (Flag("DATA_END") => usb.state = StateAfter(host.req))

BelievesOK == On /\ WasReset => host.believes \in {"DEFAULT", "unknown"}
DataOK == /\ host.phase = "in" => Reads(host.req)
          /\ host.phase = "out" => HasData(host.req) /\ host.got <= host.req.len

ControlInv == /\ PendingOK /\ PhaseOK /\ WriteOK /\ InOK /\ DoneOK /\ AddressOK
              /\ BelievesOK /\ HostAgrees /\ DataOK

(* A poll of the module without VBUS. *)
LEMMA OffPolled ==
  ASSUME usb \in Usb, ~usb.vbus, PhaseOK, usbPoll, UNCHANGED host
  PROVE  usb' \in Usb /\ ControlInv'
<1>1. usb' = [usb EXCEPT !.state = "DETACHED", !.suspend = FALSE,
                         !.cif = {}, !.ep0if = FALSE, !.cs0 = {}]
  BY DEF usbPoll
<1>2. usb' \in Usb /\ usb'.cs0 = {} /\ usb'.cif = {}
  BY <1>1 DEF Usb
<1>3. host.phase = "off" /\ host' = host
  BY DEF PhaseOK, On
<1>4. ~Pending' /\ ~WasReset' /\ ~On' /\ ~Busy'
  BY <1>2, <1>3 DEF Pending, WasReset, On, Busy, Flag
<1>5. PendingOK' /\ PhaseOK' /\ WriteOK' /\ BelievesOK'
  BY <1>2, <1>3, <1>4 DEF PendingOK, PhaseOK, WriteOK, BelievesOK, Flag
<1>6. InOK' /\ DoneOK' /\ AddressOK' /\ HostAgrees' /\ DataOK'
  BY <1>3 DEF InOK, DoneOK, AddressOK, HostAgrees, DataOK
<1>. QED BY <1>2, <1>5, <1>6 DEF ControlInv

(* What the bus events leave of the invariant, in the record s they lead to. *)
LEMMA BusEventsKeep ==
  ASSUME usb \in Usb, host \in Host, usb.vbus, ControlInv, NEW s,
         s = [BusEvents(usb) EXCEPT !.ep0if = FALSE]
  PROVE  /\ s \in Usb /\ s.cif = {} /\ s.cs0 = usb.cs0 /\ s.out = usb.out /\ s.setup = usb.setup
         /\ s.vbus /\ TransferKept(usb, s)
         /\ On /\ host.believes # "unknown" => s.state = host.believes
         /\ s.ct \in {"NONE", usb.ct}
         /\ Busy /\ ~Pending => s.ct = usb.ct /\ (usb.state # "DETACHED" => s.state = usb.state)
         /\ Pending \/ host.phase = "idle" => s.ct # "WRITE" \/ Ended
         /\ Flag("DATA_END") => s.ct # "WRITE"
         /\ Pending /\ host.phase = "status" /\ host.req.request = "SET_CONFIGURATION"
              => s.state \in {"ADDRESS", "CONFIGURED"}
<1>1. /\ s \in Usb /\ s.cif = {} /\ s.cs0 = usb.cs0 /\ s.out = usb.out /\ s.setup = usb.setup
      /\ s.vbus /\ TransferKept(usb, s)
      /\ s.ct = IF WasReset THEN "NONE" ELSE usb.ct
      /\ WasReset => s.state = "DEFAULT"
      /\ ~WasReset /\ usb.state # "DETACHED" => s.state = usb.state
  BY BusFacts DEF WasReset
<1>2. On /\ host.believes # "unknown" => s.state = host.believes
  <2>1. SUFFICES ASSUME On, host.believes # "unknown" PROVE s.state = host.believes
    OBVIOUS
  <2>2. CASE WasReset
    BY <1>1, <2>1, <2>2 DEF ControlInv, BelievesOK
  <2>3. CASE ~WasReset
    <3>1. usb.state = host.believes
      BY <2>1, <2>3 DEF ControlInv, HostAgrees, On, WasReset
    <3>2. host.believes # "DETACHED"
      BY DEF Host
    <3>. QED BY <1>1, <2>3, <3>1, <3>2
  <2>. QED BY <2>2, <2>3
<1>3. Busy /\ ~Pending => ~WasReset
  BY DEF ControlInv, PhaseOK
<1>4. /\ Pending \/ host.phase = "idle" => usb.ct # "WRITE" \/ Ended \/ WasReset
      /\ Flag("DATA_END") => usb.ct # "WRITE"
  BY DEF ControlInv, WriteOK
<1>5. Pending /\ host.phase = "status" /\ host.req.request = "SET_CONFIGURATION"
        => ~WasReset /\ usb.state \in {"ADDRESS", "CONFIGURED"}
  BY DEF ControlInv, AddressOK, Addressing
<1>6. Pending /\ host.phase = "status" /\ host.req.request = "SET_CONFIGURATION"
        => s.state \in {"ADDRESS", "CONFIGURED"}
  <2>1. SUFFICES ASSUME ~WasReset, usb.state \in {"ADDRESS", "CONFIGURED"}
                 PROVE  s.state \in {"ADDRESS", "CONFIGURED"}
    BY <1>5
  <2>. QED BY <1>1, <2>1
<1>. QED BY <1>1, <1>2, <1>3, <1>4, <1>6

(* A poll in which the device sees no packet on endpoint 0. *)
LEMMA QuietPolled ==
  ASSUME usb \in Usb, host \in Host, usb.vbus, ControlInv, UNCHANGED host,
         usb' = [BusEvents(usb) EXCEPT !.ep0if = FALSE]
  PROVE  usb' \in Usb /\ ControlInv' /\ usb'.vbus
<1>1. /\ usb' \in Usb /\ usb'.cif = {} /\ usb'.cs0 = usb.cs0 /\ usb'.out = usb.out
      /\ usb'.setup = usb.setup /\ usb'.vbus /\ TransferKept(usb, usb')
      /\ On /\ host.believes # "unknown" => usb'.state = host.believes
      /\ usb'.ct \in {"NONE", usb.ct}
      /\ Busy /\ ~Pending => /\ usb'.ct = usb.ct
                             /\ usb.state # "DETACHED" => usb'.state = usb.state
      /\ Pending \/ host.phase = "idle" => usb'.ct # "WRITE" \/ Ended
      /\ Flag("DATA_END") => usb'.ct # "WRITE"
      /\ Pending /\ host.phase = "status" /\ host.req.request = "SET_CONFIGURATION"
           => usb'.state \in {"ADDRESS", "CONFIGURED"}
  BY BusEventsKeep
<1>2. /\ Pending' = Pending /\ Ended' = Ended /\ ~WasReset' /\ On' = On /\ Busy' = Busy
      /\ Total' = Total /\ \A f \in Ep0Flags : Flag(f)' = Flag(f)
  BY <1>1 DEF Pending, Ended, WasReset, On, Busy, Total, Flag
<1>3. PendingOK'
  BY <1>1 DEF ControlInv, PendingOK, Pending, Flag, On
<1>4. PhaseOK' /\ BelievesOK'
  BY <1>1, <1>2 DEF PhaseOK, BelievesOK
<1>5. WriteOK'
  BY <1>1, <1>2 DEF WriteOK, Flag
<1>6. InOK'
  <2>1. SUFFICES ASSUME host.phase = "in", ~Pending
                 PROVE  InOK'
    BY <1>2 DEF InOK
  <2>2. usb'.ct = usb.ct
    BY <1>1, <2>1 DEF Busy
  <2>3. \A src, at, left : Armed(usb, src, at, left) => Armed(usb', src, at, left)
    BY <1>1, <2>2 DEF Armed, TransferKept
  <2>4. InOK
    BY DEF ControlInv
  <2>5. /\ Total' = Total /\ host' = host /\ usb'.cs0 = usb.cs0 /\ usb'.src = usb.src
        /\ usb'.at = usb.at /\ usb'.left = usb.left
    BY <1>1, <1>2 DEF TransferKept
  <2>. QED BY <2>1, <2>2, <2>3, <2>4, <2>5 DEF InOK, Flag
<1>7. DoneOK' /\ DataOK'
  BY <1>2 DEF ControlInv, DoneOK, DataOK
<1>8. AddressOK'
  <2>1. SUFFICES ASSUME host.phase = "status", Addressing(host.req)
                 PROVE  AddressOK'
    BY DEF AddressOK
  <2>2. AddressOK
    BY DEF ControlInv
  <2>3. StateAfter(host.req) # "DETACHED"
    BY DEF StateAfter
  <2>4. ~Pending => usb'.ct = usb.ct /\ (usb.state # "DETACHED" => usb'.state = usb.state)
    BY <1>1, <2>1 DEF Busy
  <2>. QED BY <1>1, <1>2, <2>1, <2>2, <2>3, <2>4 DEF AddressOK, Flag
<1>9. HostAgrees'
  BY <1>1 DEF HostAgrees, On
<1>. QED BY <1>1, <1>3, <1>4, <1>5, <1>6, <1>7, <1>8, <1>9 DEF ControlInv

(* A poll that takes the pending SETUP packet. *)
LEMMA PendingPolled ==
  ASSUME usb \in Usb, host \in Host, usb.vbus, ControlInv, UNCHANGED host, Pending, NEW s,
         s = [BusEvents(usb) EXCEPT !.ep0if = FALSE], SetupPoll(s, usb')
  PROVE  usb' \in Usb /\ ControlInv' /\ usb'.vbus /\ usb'.setup = usb.out.req
<1>. DEFINE r == usb.out.req
            total == Min2(r.len, Length[Wanted(r)])
<1>1. /\ s \in Usb /\ s.cif = {} /\ s.cs0 = usb.cs0 /\ s.out = usb.out /\ s.vbus
      /\ On /\ host.believes # "unknown" => s.state = host.believes
      /\ s.ct # "WRITE" \/ Ended
      /\ host.phase = "status" /\ host.req.request = "SET_CONFIGURATION"
           => s.state \in {"ADDRESS", "CONFIGURED"}
  BY BusEventsKeep
<1>2. /\ ~Flag("DATA_END") /\ ~Flag("INPKT_RDY") /\ host.phase # "idle"
      /\ On => /\ r = host.req /\ ~(host.phase = "status" /\ Reads(host.req))
               /\ host.phase = "in" => host.got = 0
               /\ Addressing(host.req) => host.phase = "status"
  BY DEF ControlInv, PendingOK
<1>3. /\ usb' \in Usb /\ usb'.vbus /\ usb'.cif = {} /\ usb'.setup = r /\ usb'.out = NoPacket
      /\ Answered(s, usb', r)
      /\ usb'.ct = "READ" => "INPKT_RDY" \in usb'.cs0
      /\ "INPKT_RDY" \in usb'.cs0 => total \in Nat /\ Armed(usb', Wanted(r), 0, total)
  <2>1. /\ "OUTPKT_RDY" \in s.cs0 /\ s.out.setup /\ "DATA_END" \notin s.cs0
        /\ "INPKT_RDY" \notin s.cs0 /\ (s.ct # "WRITE" \/ s.cs0 \cap {"SETUP_END", "SENT_STALL"} # {})
        /\ s.out.req = r
    BY <1>1, <1>2 DEF Pending, Ended, Flag
  <2>. HIDE DEF r
  <2>. QED BY <1>1, <2>1, SetupPolled, ZenonT(40)
<1>4. ~Pending' /\ ~WasReset' /\ On' = On /\ host' = host
  <2>1. NoPacket.setup = FALSE
    BY DEF NoPacket
  <2>. QED BY <1>3, <2>1 DEF Pending, WasReset, On
<1>5. PendingOK' /\ PhaseOK' /\ BelievesOK'
  BY <1>3, <1>4 DEF PendingOK, PhaseOK, BelievesOK
<1>6. WriteOK'
  BY <1>2, <1>3, <1>4 DEF WriteOK, Flag, Answered
<1>7. InOK'
  <2>1. SUFFICES ASSUME host.phase = "in"
                 PROVE  InOK'
    BY <1>4 DEF InOK
  <2>2. r = host.req /\ host.got = 0
    BY <1>2, <2>1 DEF On
  <2>3. Total' = total
    BY <1>4, <2>2 DEF Total
  <2>. HIDE DEF total
  <2>4. total \in Nat => total - 0 = total /\ 0 <= total
    OBVIOUS
  <2>. QED BY <1>3, <1>4, <2>2, <2>3, <2>4 DEF InOK, Flag
<1>8. DoneOK' /\ DataOK'
  BY <1>4 DEF ControlInv, DoneOK, DataOK, Total
<1>9. AddressOK'
  <2>1. SUFFICES ASSUME host.phase = "status", Addressing(host.req)
                 PROVE  AddressOK'
    BY <1>4 DEF AddressOK
  <2>2. r = host.req /\ host.believes = "unknown"
    BY <1>2, <2>1 DEF On, ControlInv, AddressOK
  <2>3. r.request = "SET_ADDRESS" \/ s.state \in {"ADDRESS", "CONFIGURED"}
    BY <1>1, <2>1, <2>2 DEF Addressing
  <2>4. usb'.ct = "NONE" /\ ("DATA_END" \in usb'.cs0 => usb'.state = StateAfter(r))
    BY <1>3, <2>1, <2>2, <2>3 DEF Answered
  <2>. QED BY <1>4, <2>2, <2>4 DEF AddressOK, Flag
<1>10. HostAgrees'
  <2>1. SUFFICES ASSUME On, host.believes # "unknown"
                 PROVE  usb'.state = host.believes
    BY <1>4 DEF HostAgrees, On
  <2>2. r = host.req /\ ~Addressing(r)
    BY <1>2, <2>1 DEF ControlInv, AddressOK
  <2>. QED BY <1>1, <1>3, <2>1, <2>2 DEF Answered
<1>. QED BY <1>3, <1>5, <1>6, <1>7, <1>8, <1>9, <1>10 DEF ControlInv

(* A poll that goes on with the transfer. *)
LEMMA TransferPolled ==
  ASSUME usb \in Usb, host \in Host, usb.vbus, ControlInv, UNCHANGED host, ~Pending, NEW s,
         s = [BusEvents(usb) EXCEPT !.ep0if = FALSE],
         usb' = Poll(s, "INPKT_RDY" \notin usb.cs0)
  PROVE  usb' \in Usb /\ ControlInv' /\ usb'.vbus
<1>1. /\ s \in Usb /\ s.cif = {} /\ s.cs0 = usb.cs0 /\ s.out = usb.out /\ s.vbus
      /\ TransferKept(usb, s)
      /\ On /\ host.believes # "unknown" => s.state = host.believes
      /\ Busy => s.ct = usb.ct /\ (usb.state # "DETACHED" => s.state = usb.state)
      /\ host.phase = "idle" => s.ct # "WRITE" \/ Ended
      /\ Flag("DATA_END") => s.ct # "WRITE"
  BY BusEventsKeep
<1>2. /\ usb' \in Usb /\ Kept(s, usb') /\ usb'.cif = s.cif
      /\ "OUTPKT_RDY" \in usb'.cs0 => "OUTPKT_RDY" \in s.cs0
      /\ usb'.ct = "WRITE" =>
           /\ s.ct = "WRITE" /\ s.cs0 \cap {"SETUP_END", "SENT_STALL"} = {}
           /\ "DATA_END" \in usb'.cs0 => "DATA_END" \in s.cs0
      /\ s.ct = "NONE" =>
           usb'.ct = "NONE" /\ ("DATA_END" \in usb'.cs0 => "DATA_END" \in s.cs0)
      /\ "INPKT_RDY" \in s.cs0 =>
           /\ "INPKT_RDY" \in usb'.cs0 /\ usb'.in = s.in
           /\ usb'.ct = "READ" => s.ct = "READ" /\ TransferKept(s, usb')
      /\ "INPKT_RDY" \notin s.cs0 =>
           \/ "INPKT_RDY" \notin usb'.cs0 /\ usb'.ct # "READ"
           \/ "INPKT_RDY" \in usb'.cs0 /\ s.ct = "READ" /\ Armed(usb', s.src, s.at, s.left)
  <2>. DEFINE ready == "INPKT_RDY" \notin usb.cs0
  <2>1. ready \in BOOLEAN /\ (ready <=> "INPKT_RDY" \notin s.cs0) /\ usb' = Poll(s, ready)
    BY <1>1
  <2>2. ~("OUTPKT_RDY" \in s.cs0 /\ s.out.setup)
    BY <1>1 DEF Pending, Flag
  <2>. HIDE DEF ready
  <2>. QED BY <1>1, <2>1, <2>2, RestPolled, ZenonT(40)
<1>3. /\ usb'.vbus /\ usb'.out = usb.out /\ usb'.state = s.state
      /\ ~Pending' /\ ~WasReset' /\ On' = On /\ Busy' = Busy /\ host' = host
  BY <1>1, <1>2 DEF Kept, Pending, WasReset, On, Busy, Flag
<1>4. PendingOK' /\ PhaseOK' /\ BelievesOK'
  BY <1>3 DEF PendingOK, PhaseOK, BelievesOK
<1>5. WriteOK'
  BY <1>1, <1>2, <1>3 DEF WriteOK, Flag, Ended
<1>6. InOK'
  <2>1. SUFFICES ASSUME host.phase = "in"
                 PROVE  InOK'
    BY <1>3 DEF InOK
  <2>2. /\ s.ct = usb.ct /\ s.cs0 = usb.cs0 /\ s.in = usb.in /\ s.src = usb.src /\ s.at = usb.at
        /\ s.left = usb.left
    BY <1>1, <2>1 DEF Busy, TransferKept
  <2>3. /\ Flag("INPKT_RDY") => /\ Total \in Nat /\ host.got <= Total
                                /\ Armed(usb, Wanted(host.req), host.got, Total - host.got)
        /\ ~Flag("INPKT_RDY") /\ usb.ct = "READ" =>
             /\ Total \in Nat /\ host.got <= Total
             /\ usb.src = Wanted(host.req) /\ usb.at = host.got /\ usb.left = Total - host.got
    BY <2>1 DEF ControlInv, InOK
  <2>4. Total' = Total
    BY <1>3 DEF Total
  <2>5. CASE "INPKT_RDY" \in usb.cs0
    <3>1. Armed(usb', Wanted(host.req), host.got, Total - host.got)
      <4>1. usb'.in = usb.in
        BY <1>2, <2>2, <2>5
      <4>2. usb'.ct = "READ" => /\ usb.ct = "READ" /\ usb'.src = usb.src /\ usb'.at = usb.at
                                /\ usb'.left = usb.left
        BY <1>2, <2>2, <2>5 DEF TransferKept
      <4>3. Armed(usb, Wanted(host.req), host.got, Total - host.got)
        BY <2>3, <2>5 DEF Flag
      <4>. HIDE DEF Total
      <4>. QED BY <4>1, <4>2, <4>3 DEF Armed
    <3>. QED BY <1>2, <1>3, <2>2, <2>3, <2>4, <2>5, <3>1 DEF InOK, Flag
  <2>6. CASE "INPKT_RDY" \notin usb.cs0
    <3>1. CASE "INPKT_RDY" \notin usb'.cs0 /\ usb'.ct # "READ"
      BY <1>3, <3>1 DEF InOK, Flag
    <3>2. CASE "INPKT_RDY" \in usb'.cs0 /\ s.ct = "READ" /\ Armed(usb', s.src, s.at, s.left)
      BY <1>3, <2>2, <2>3, <2>4, <2>6, <3>2 DEF InOK, Flag
    <3>. QED BY <1>2, <2>2, <2>6, <3>1, <3>2
  <2>. QED BY <2>5, <2>6
<1>7. DoneOK' /\ DataOK'
  BY <1>3 DEF ControlInv, DoneOK, DataOK, Total
<1>8. AddressOK'
  <2>1. SUFFICES ASSUME host.phase = "status", Addressing(host.req)
                 PROVE  AddressOK'
    BY <1>3 DEF AddressOK
  <2>2. /\ host.believes = "unknown" /\ usb.ct = "NONE"
        /\ Flag("DATA_END") => usb.state = StateAfter(host.req)
    BY <2>1 DEF ControlInv, AddressOK
  <2>3. StateAfter(host.req) # "DETACHED"
    BY DEF StateAfter
  <2>4. s.ct = "NONE" /\ (usb.state # "DETACHED" => s.state = usb.state)
    BY <1>1, <2>1, <2>2 DEF Busy
  <2>. QED BY <1>1, <1>2, <1>3, <2>2, <2>3, <2>4 DEF AddressOK, Flag
<1>9. HostAgrees'
  BY <1>1, <1>3 DEF HostAgrees, On
<1>. QED BY <1>2, <1>3, <1>4, <1>5, <1>6, <1>7, <1>8, <1>9 DEF ControlInv

(* A poll of usb.c, whatever the library that handles its SETUP packets. *)
LibraryPolls ==
  \/ ~usb.vbus /\ usbPoll
  \/ /\ usb.vbus
     /\ \E s : /\ s = [BusEvents(usb) EXCEPT !.ep0if = FALSE]
               /\ \/ ~usb.ep0if /\ usb' = s
                  \/ usb.ep0if /\ ~Pending /\ usb' = Poll(s, "INPKT_RDY" \notin usb.cs0)
                  \/ usb.ep0if /\ Pending /\ SetupPoll(s, usb')

LEMMA Polled ==
  ASSUME usb \in Usb, host \in Host, ControlInv, LibraryPolls, UNCHANGED host
  PROVE  /\ usb' \in Usb /\ ControlInv' /\ (usb.vbus => usb'.vbus)
         /\ TakesPacket(usb) /\ usb.out.setup => usb'.setup = usb.out.req
<1>1. CASE ~usb.vbus /\ usbPoll
  BY <1>1, OffPolled DEF ControlInv, TakesPacket
<1>2. ASSUME usb.vbus, NEW s, s = [BusEvents(usb) EXCEPT !.ep0if = FALSE]
      PROVE  /\ ~usb.ep0if /\ usb' = s =>
                  /\ usb' \in Usb /\ ControlInv' /\ usb'.vbus /\ ~TakesPacket(usb)
             /\ ~Pending /\ usb' = Poll(s, "INPKT_RDY" \notin usb.cs0) =>
                  /\ usb' \in Usb /\ ControlInv' /\ usb'.vbus /\ ~(TakesPacket(usb) /\ usb.out.setup)
             /\ Pending /\ SetupPoll(s, usb') =>
                  /\ usb' \in Usb /\ ControlInv' /\ usb'.vbus /\ usb'.setup = usb.out.req
  <2>1. ASSUME ~usb.ep0if, usb' = s
        PROVE  usb' \in Usb /\ ControlInv' /\ usb'.vbus /\ ~TakesPacket(usb)
    BY <1>2, <2>1, QuietPolled DEF TakesPacket
  <2>2. ASSUME ~Pending, usb' = Poll(s, "INPKT_RDY" \notin usb.cs0)
        PROVE  usb' \in Usb /\ ControlInv' /\ usb'.vbus /\ ~(TakesPacket(usb) /\ usb.out.setup)
    BY <1>2, <2>2, TransferPolled DEF TakesPacket, Pending, Flag
  <2>3. ASSUME Pending, SetupPoll(s, usb')
        PROVE  usb' \in Usb /\ ControlInv' /\ usb'.vbus /\ usb'.setup = usb.out.req
    BY <1>2, <2>3, PendingPolled
  <2>. QED BY <2>1, <2>2, <2>3
<1>. QED BY <1>1, <1>2 DEF LibraryPolls

(* A pending SETUP packet goes to a handler. *)
LEMMA PendingReady ==
  ASSUME usb \in Usb, host \in Host, usb.vbus, ControlInv, Pending, NEW s,
         s = [BusEvents(usb) EXCEPT !.ep0if = FALSE], NEW u, u = TransferEnds(s)
  PROVE  /\ s \in Usb /\ u \in Usb /\ u.ct # "WRITE" /\ "OUTPKT_RDY" \in u.cs0 /\ u.out.setup
         /\ "INPKT_RDY" \notin usb.cs0
<1>1. s \in Usb /\ s.cs0 = usb.cs0 /\ s.out = usb.out /\ (s.ct # "WRITE" \/ Ended)
  BY BusEventsKeep
<1>2. /\ u \in Usb /\ u.cs0 = s.cs0 \ {"SETUP_END", "SENT_STALL"} /\ Kept(s, u)
      /\ u.ct = IF s.cs0 \cap {"SETUP_END", "SENT_STALL"} = {} THEN s.ct ELSE "NONE"
  BY <1>1, EndsFacts
<1>3. "INPKT_RDY" \notin usb.cs0
  BY DEF ControlInv, PendingOK, Flag
<1>. QED BY <1>1, <1>2, <1>3 DEF Pending, Ended, Flag, Kept

(* The poll of the serial port. *)
LEMMA ComPolls ==
  ASSUME usb \in Usb, host \in Host, ControlInv, usbPoll
  PROVE  LibraryPolls
<1>1. CASE ~usb.vbus
  BY <1>1 DEF LibraryPolls
<1>2. CASE usb.vbus /\ ~usb.ep0if
  BY <1>2 DEF usbPoll, LibraryPolls
<1>3. CASE usb.vbus /\ usb.ep0if
  <2>. DEFINE s == [BusEvents(usb) EXCEPT !.ep0if = FALSE]
              u == TransferEnds(s)
  <2>1. usb' = Poll(s, "INPKT_RDY" \notin usb.cs0)
    BY <1>3 DEF usbPoll, Poll
  <2>2. CASE ~Pending
    <3>. HIDE DEF u
    <3>. QED BY <1>3, <2>1, <2>2 DEF LibraryPolls
  <2>3. CASE Pending
    <3>1. /\ s \in Usb /\ u \in Usb /\ u.ct # "WRITE" /\ "OUTPKT_RDY" \in u.cs0 /\ u.out.setup
          /\ "INPKT_RDY" \notin usb.cs0
      BY <1>3, <2>3, PendingReady
    <3>. DEFINE h == IF u.out.req.type = "standard" THEN usbStandardDeviceRequestHandler(Asked(u))
                     ELSE usbCallbackSetupHandler(Asked(u))
    <3>2. usb' = InPacket(OutPacket(u), TRUE)
      BY <2>1, <3>1 DEF Poll
    <3>. HIDE DEF s, u
    <3>3. OutPacket(u) = SetupReceived(u)
      BY <3>1 DEF OutPacket
    <3>4. SetupReceived(u) = Answer(h)
      <4>1. Asked(u).setup = u.out.req
        BY <3>1, AskedFacts
      <4>. QED BY <4>1 DEF SetupReceived, Asked
    <3>5. Handled(Asked(u), h)
      BY <3>1, AskedFacts, StandardHandled, ClassHandled
    <3>. HIDE DEF h
    <3>6. SetupPoll(s, usb')
      BY <3>2, <3>3, <3>4, <3>5 DEF SetupPoll, u
    <3>. QED BY <1>3, <2>3, <3>6 DEF LibraryPolls, s
  <2>. QED BY <2>2, <2>3
<1>. QED BY <1>1, <1>2, <1>3

------------------------------------------------------------------------------
(* The steps of the host. *)

(* A step that only plugs the cable in, suspends the bus or resumes it. *)
LEMMA BusStep ==
  ASSUME usb \in Usb, ControlInv, UNCHANGED host, Attach \/ Suspend \/ Resume
  PROVE  usb' \in Usb /\ ControlInv'
<1>1. /\ usb' \in Usb /\ usb'.state = usb.state /\ usb'.ct = usb.ct /\ usb'.left = usb.left
      /\ usb'.src = usb.src /\ usb'.at = usb.at /\ usb'.setup = usb.setup /\ usb'.cs0 = usb.cs0
      /\ usb'.out = usb.out /\ usb'.in = usb.in
      /\ ("reset" \in usb'.cif <=> "reset" \in usb.cif) /\ (usb.vbus => usb'.vbus)
  <2>1. CASE Attach
    BY <2>1 DEF Attach, Usb
  <2>2. CASE Suspend
    BY <2>2 DEF Suspend, Usb
  <2>3. CASE Resume
    BY <2>3 DEF Resume, Usb
  <2>. QED BY <2>1, <2>2, <2>3
<1>2. /\ (Pending' <=> Pending) /\ (Ended' <=> Ended) /\ (WasReset' <=> WasReset) /\ (On' <=> On)
      /\ (Busy' <=> Busy) /\ Total' = Total
  BY <1>1 DEF Pending, Ended, WasReset, On, Busy, Total, Flag
<1>3. PendingOK' /\ PhaseOK' /\ WriteOK'
  BY <1>1, <1>2 DEF ControlInv, PendingOK, PhaseOK, WriteOK, Flag
<1>4. InOK' /\ DoneOK' /\ DataOK'
  BY <1>1, <1>2 DEF ControlInv, InOK, DoneOK, DataOK, Armed, Flag
<1>5. AddressOK' /\ BelievesOK' /\ HostAgrees'
  BY <1>1, <1>2 DEF ControlInv, AddressOK, BelievesOK, HostAgrees, Flag
<1>. QED BY <1>1, <1>3, <1>4, <1>5 DEF ControlInv

LEMMA DetachStep ==
  ASSUME usb \in Usb, host \in Host, ControlInv, Detach
  PROVE  usb' \in Usb /\ host' \in Host /\ ControlInv'
<1>1. /\ usb' \in Usb /\ usb'.ct = usb.ct /\ usb'.cs0 = usb.cs0 /\ usb'.cif = usb.cif
      /\ usb'.out = usb.out
  BY DEF Detach, Usb
<1>2. host' \in Host /\ host'.phase = "off"
  BY DEF Detach, Host
<1>3. /\ (Pending' <=> Pending) /\ (Ended' <=> Ended) /\ (WasReset' <=> WasReset)
      /\ ~On' /\ ~Busy'
  BY <1>1, <1>2 DEF Pending, Ended, WasReset, On, Busy, Flag
<1>4. PendingOK' /\ PhaseOK' /\ WriteOK'
  BY <1>1, <1>2, <1>3 DEF ControlInv, PendingOK, PhaseOK, WriteOK, Flag
<1>5. InOK' /\ DoneOK' /\ DataOK' /\ AddressOK' /\ BelievesOK' /\ HostAgrees'
  BY <1>2, <1>3 DEF InOK, DoneOK, DataOK, AddressOK, BelievesOK, HostAgrees
<1>. QED BY <1>1, <1>2, <1>4, <1>5 DEF ControlInv

LEMMA ResetStep ==
  ASSUME usb \in Usb, host \in Host, ControlInv, Reset
  PROVE  usb' \in Usb /\ host' \in Host /\ ControlInv'
<1>1. usb' \in Usb /\ usb'.cs0 = {} /\ "reset" \in usb'.cif /\ usb'.vbus
  BY DEF Reset, Usb
<1>2. host' \in Host /\ host'.phase = "idle" /\ host'.believes = "DEFAULT"
  BY DEF Reset, Host
<1>3. ~Pending' /\ WasReset' /\ ~Busy'
  BY <1>1, <1>2 DEF Pending, WasReset, Busy, Flag
<1>4. PendingOK' /\ PhaseOK' /\ WriteOK'
  BY <1>1, <1>2, <1>3 DEF PendingOK, PhaseOK, WriteOK, Flag
<1>5. InOK' /\ DoneOK' /\ DataOK' /\ AddressOK' /\ BelievesOK' /\ HostAgrees'
  BY <1>1, <1>2, <1>3 DEF InOK, DoneOK, DataOK, AddressOK, BelievesOK, HostAgrees
<1>. QED BY <1>1, <1>2, <1>4, <1>5 DEF ControlInv

(* A SETUP packet is pending from here on; what it cuts short is flagged. *)
LEMMA SetupStep ==
  ASSUME usb \in Usb, host \in Host, ControlInv, NEW r \in Requests, Setup(r)
  PROVE  usb' \in Usb /\ host' \in Host /\ ControlInv'
<1>. DEFINE cs == (usb.cs0 \cap {"SENT_STALL", "SETUP_END"}) \cup {"OUTPKT_RDY"}
                    \cup (IF host.phase # "idle" /\ "DATA_END" \notin usb.cs0
                          THEN {"SETUP_END"} ELSE {})
            packet == [setup |-> TRUE, req |-> r, n |-> 8]
            phase == CASE Reads(r) -> "in" [] HasData(r) -> "out" [] OTHER -> "status"
            believes == IF r.request \in {"SET_ADDRESS", "SET_CONFIGURATION"}
                        THEN "unknown" ELSE host.believes
<1>1. usb' = [usb EXCEPT !.cs0 = cs, !.out = packet, !.ep0if = TRUE]
  BY DEF Setup, Interrupt, Usb
<1>2. host' = [host EXCEPT !.req = r, !.got = 0, !.phase = phase, !.believes = believes]
  BY DEF Setup
<1>3. packet \in OutPackets /\ packet.setup = TRUE /\ packet.req = r
  BY DEF OutPackets, SetupPackets
<1>4. /\ cs \in SUBSET Ep0Flags /\ "OUTPKT_RDY" \in cs /\ "DATA_END" \notin cs
      /\ "INPKT_RDY" \notin cs /\ "SEND_STALL" \notin cs
      /\ Ended => cs \cap {"SETUP_END", "SENT_STALL"} # {}
      /\ host.phase # "idle" /\ ~Flag("DATA_END") => "SETUP_END" \in cs
  BY DEF Ep0Flags, Ended, Flag
<1>5. /\ phase \in {"in", "out", "status"} /\ (phase = "status" => ~Reads(r) /\ ~HasData(r))
      /\ (phase = "in" => Reads(r)) /\ (phase = "out" => HasData(r))
      /\ Addressing(r) => phase = "status"
  BY DEF Reads, HasData, Addressing
<1>6. /\ believes \in {"unknown", "DEFAULT", "ADDRESS", "CONFIGURED"}
      /\ IF Addressing(r) THEN believes = "unknown" ELSE believes = host.believes
  BY DEF Host, Addressing
<1>7. host.phase # "off" /\ usb.vbus
  BY DEF Setup, ControlInv, PhaseOK, On
<1>8. r.request = "SET_CONFIGURATION" => ~WasReset /\ usb.state \in {"ADDRESS", "CONFIGURED"}
  <2>1. SUFFICES ASSUME r.request = "SET_CONFIGURATION"
                 PROVE  ~WasReset /\ usb.state \in {"ADDRESS", "CONFIGURED"}
    OBVIOUS
  <2>2. host.believes \in {"ADDRESS", "CONFIGURED"}
    BY <2>1 DEF Setup, Sensible
  <2>3. ~WasReset
    BY <1>7, <2>2 DEF ControlInv, BelievesOK, On
  <2>4. usb.state = host.believes
    BY <1>7, <2>2, <2>3 DEF ControlInv, HostAgrees, WasReset
  <2>. QED BY <2>2, <2>3, <2>4
<1>. HIDE DEF cs, packet, phase, believes
<1>9. usb' \in Usb
  BY <1>1, <1>3, <1>4 DEF Usb
<1>10. /\ usb'.cs0 = cs /\ usb'.out = packet /\ usb'.ct = usb.ct /\ usb'.cif = usb.cif
       /\ usb'.state = usb.state /\ usb'.vbus = usb.vbus
  BY <1>1 DEF Usb
<1>11. host' \in Host /\ host'.req = r /\ host'.got = 0 /\ host'.phase = phase
       /\ host'.believes = believes
  BY <1>2, <1>5, <1>6 DEF Host, SetupPackets
<1>12. /\ Pending' /\ (WasReset' <=> WasReset)
       /\ Ended => Ended'
       /\ host.phase # "idle" /\ ~Flag("DATA_END") => Ended'
  BY <1>3, <1>4, <1>10 DEF Pending, WasReset, Ended, Flag
<1>13. PendingOK'
  BY <1>3, <1>4, <1>5, <1>10, <1>11 DEF PendingOK, Flag
<1>14. PhaseOK' /\ BelievesOK'
  BY <1>6, <1>7, <1>10, <1>11, <1>12 DEF ControlInv, PhaseOK, BelievesOK, On
<1>15. WriteOK'
  BY <1>4, <1>10, <1>12 DEF ControlInv, WriteOK, Flag
<1>16. InOK' /\ DoneOK'
  BY <1>5, <1>11, <1>12 DEF InOK, DoneOK
<1>17. AddressOK'
  BY <1>6, <1>8, <1>10, <1>11, <1>12 DEF AddressOK
<1>18. HostAgrees'
  BY <1>6, <1>7, <1>10, <1>11 DEF ControlInv, HostAgrees, Addressing
<1>19. DataOK'
  <2>1. r.len \in Nat
    BY SetupFacts DEF SetupPackets
  <2>. QED BY <1>5, <1>11, <2>1 DEF DataOK
<1>. QED BY <1>9, <1>11, <1>13, <1>14, <1>15, <1>16, <1>17, <1>18, <1>19 DEF ControlInv

(* The host reads a packet of a control read, which is over when the packet  *)
(* is short or the host has what it asked for.                               *)
LEMMA DataInStep ==
  ASSUME usb \in Usb, host \in Host, ControlInv, DataIn
  PROVE  usb' \in Usb /\ host' \in Host /\ ControlInv'
<1>. DEFINE cs == usb.cs0 \ {"INPKT_RDY"}
            n == usb.in.n
            got == host.got + n
            over == n < USB_EP0_PACKET_SIZE \/ got >= host.req.len
            phase == IF over THEN "status" ELSE host.phase
<1>1. host.phase = "in" /\ "INPKT_RDY" \in usb.cs0
  BY DEF DataIn
<1>2. ~Pending /\ ~WasReset /\ Reads(host.req) /\ ~Addressing(host.req)
  BY <1>1 DEF ControlInv, PendingOK, PhaseOK, DataOK, Busy, Flag, Reads, Addressing
<1>3. /\ Total \in Nat /\ host.got <= Total
      /\ Armed(usb, Wanted(host.req), host.got, Total - host.got)
  BY <1>1, <1>2 DEF ControlInv, InOK, Flag
<1>4. host.got \in Nat /\ n \in Nat /\ host.req.len \in Nat
  BY SetupFacts DEF Usb, Host, InPackets
<1>5. /\ n = Min2(Total - host.got, USB_EP0_PACKET_SIZE)
      /\ usb.ct = "READ" =>
           usb.src = Wanted(host.req) /\ usb.at = got /\ usb.left = Total - got
  <2>1. n = Min2(Total - host.got, USB_EP0_PACKET_SIZE)
    BY <1>3 DEF Armed
  <2>2. usb.ct = "READ" =>
          usb.src = Wanted(host.req) /\ usb.at = host.got + n /\ usb.left = Total - host.got - n
    BY <1>3 DEF Armed
  <2>. HIDE DEF Total, n
  <2>. QED BY <1>3, <1>4, <2>1, <2>2
<1>6. got \in Nat /\ got <= Total /\ (over => got = Total)
  <2>1. Total - host.got \in Nat /\ (n = Total - host.got \/ n = USB_EP0_PACKET_SIZE)
        /\ n <= Total - host.got
    <3>. DEFINE rest == Total - host.got
    <3>. HIDE DEF Total, n
    <3>1. rest \in Nat
      BY <1>3, <1>4
    <3>2. n = Min2(rest, USB_EP0_PACKET_SIZE)
      BY <1>5
    <3>. HIDE DEF rest
    <3>3. n <= rest /\ (n = rest \/ n = USB_EP0_PACKET_SIZE)
      BY <3>1, <3>2, Sizes, MinFacts
    <3>. QED BY <3>1, <3>3 DEF rest
  <2>2. Total <= host.req.len
    <3>1. Length[Wanted(host.req)] \in Nat \/ Total = host.req.len
      BY <1>3 DEF Total, Min2
    <3>. QED BY <1>3, <1>4, <3>1 DEF Total, Min2
  <2>. HIDE DEF Total, n
  <2>. QED BY <1>3, <1>4, <2>1, <2>2, Sizes
<1>7. usb' = [usb EXCEPT !.cs0 = cs, !.ep0if = TRUE]
  BY DEF DataIn, Interrupt, Usb
<1>8. host' = [host EXCEPT !.got = got, !.phase = phase]
  BY DEF DataIn
<1>9. cs \in SUBSET Ep0Flags /\ \A f \in Ep0Flags \ {"INPKT_RDY"} : f \in cs <=> f \in usb.cs0
  BY DEF Usb
<1>10. phase \in {"in", "status"} /\ (phase = "status" => over)
  BY <1>1
<1>11. "INPKT_RDY" \notin cs
  OBVIOUS
<1>. HIDE DEF cs, got, over, phase
<1>12. usb' \in Usb
  BY <1>7, <1>9 DEF Usb
<1>13. /\ usb'.cs0 = cs /\ usb'.ct = usb.ct /\ usb'.out = usb.out /\ usb'.cif = usb.cif
       /\ usb'.state = usb.state /\ usb'.vbus = usb.vbus /\ usb'.src = usb.src
       /\ usb'.at = usb.at /\ usb'.left = usb.left
  BY <1>7 DEF Usb
<1>14. /\ host' \in Host /\ host'.got = got /\ host'.phase = phase /\ host'.req = host.req
       /\ host'.believes = host.believes
  BY <1>6, <1>8, <1>10 DEF Host
<1>15. ~Pending' /\ ~WasReset' /\ Total' = Total
  BY <1>2, <1>9, <1>13, <1>14 DEF Pending, WasReset, Total, Flag, Ep0Flags
<1>16. PendingOK' /\ PhaseOK' /\ BelievesOK'
  BY <1>1, <1>13, <1>15 DEF ControlInv, PendingOK, PhaseOK, BelievesOK, On
<1>17. WriteOK'
  BY <1>9, <1>10, <1>13, <1>14, <1>15 DEF ControlInv, WriteOK, Flag, Ep0Flags
<1>18. InOK'
  BY <1>3, <1>5, <1>6, <1>11, <1>13, <1>14, <1>15 DEF InOK, Flag
<1>19. DoneOK' /\ DataOK'
  BY <1>2, <1>6, <1>10, <1>14, <1>15 DEF DoneOK, DataOK
<1>20. AddressOK' /\ HostAgrees'
  BY <1>1, <1>2, <1>13, <1>14 DEF ControlInv, AddressOK, HostAgrees
<1>. QED BY <1>12, <1>14, <1>16, <1>17, <1>18, <1>19, <1>20 DEF ControlInv

LEMMA DataOutStep ==
  ASSUME usb \in Usb, host \in Host, ControlInv, DataOut
  PROVE  usb' \in Usb /\ host' \in Host /\ ControlInv'
<1>. DEFINE cs == usb.cs0 \cup {"OUTPKT_RDY"}
            n == Min2(USB_EP0_PACKET_SIZE, host.req.len - host.got)
            packet == [NoPacket EXCEPT !.n = n]
            got == host.got + n
            phase == IF got = host.req.len THEN "status" ELSE host.phase
<1>1. host.phase = "out" /\ "OUTPKT_RDY" \notin usb.cs0
  BY DEF DataOut
<1>2. ~Pending /\ ~WasReset /\ HasData(host.req) /\ ~Reads(host.req) /\ ~Addressing(host.req)
      /\ host.got <= host.req.len
  BY <1>1 DEF ControlInv, PhaseOK, DataOK, Pending, Busy, Flag, Reads, HasData, Addressing
<1>3. n \in Nat /\ got \in Nat /\ got <= host.req.len
  <2>1. host.got \in Nat /\ host.req.len \in Nat
    BY SetupFacts DEF Host
  <2>. DEFINE rest == host.req.len - host.got
  <2>2. rest \in Nat
    BY <1>2, <2>1
  <2>3. n = Min2(USB_EP0_PACKET_SIZE, rest)
    OBVIOUS
  <2>. HIDE DEF rest, n
  <2>4. n \in Nat /\ n <= rest
    BY <2>2, <2>3, Sizes, MinFacts
  <2>. QED BY <2>1, <2>4 DEF rest
<1>4. usb' = [usb EXCEPT !.cs0 = cs, !.out = packet, !.ep0if = TRUE]
  BY DEF DataOut, Interrupt, Usb
<1>5. host' = [host EXCEPT !.got = got, !.phase = phase]
  BY DEF DataOut
<1>. HIDE DEF n, got
<1>6. packet \in OutPackets /\ packet.setup = FALSE
  <2>1. NoPacket \in OutPackets /\ NoPacket.setup = FALSE
    BY DEF NoPacket, OutPackets, SetupPackets
  <2>. QED BY <1>3, <2>1 DEF OutPackets
<1>7. cs \in SUBSET Ep0Flags /\ \A f \in Ep0Flags \ {"OUTPKT_RDY"} : f \in cs <=> f \in usb.cs0
  BY DEF Usb, Ep0Flags
<1>8. phase \in {"out", "status"}
  BY <1>1
<1>. HIDE DEF cs, packet, phase
<1>9. usb' \in Usb
  BY <1>4, <1>6, <1>7 DEF Usb
<1>10. /\ usb'.cs0 = cs /\ usb'.ct = usb.ct /\ usb'.out = packet /\ usb'.cif = usb.cif
       /\ usb'.state = usb.state /\ usb'.vbus = usb.vbus
  BY <1>4 DEF Usb
<1>11. /\ host' \in Host /\ host'.got = got /\ host'.phase = phase /\ host'.req = host.req
       /\ host'.believes = host.believes
  BY <1>3, <1>5, <1>8 DEF Host
<1>12. ~Pending' /\ ~WasReset'
  BY <1>2, <1>6, <1>10 DEF Pending, WasReset
<1>13. PendingOK' /\ PhaseOK' /\ BelievesOK'
  BY <1>1, <1>10, <1>12 DEF ControlInv, PendingOK, PhaseOK, BelievesOK, On
<1>14. WriteOK'
  BY <1>7, <1>8, <1>10, <1>11, <1>12 DEF ControlInv, WriteOK, Flag, Ep0Flags
<1>15. InOK' /\ DoneOK' /\ DataOK' /\ AddressOK'
  BY <1>2, <1>3, <1>8, <1>11 DEF InOK, DoneOK, DataOK, AddressOK
<1>16. HostAgrees'
  BY <1>1, <1>10, <1>11 DEF ControlInv, HostAgrees
<1>. QED BY <1>9, <1>11, <1>13, <1>14, <1>15, <1>16 DEF ControlInv

(* The status stage tells the host of the state that the device is in. *)
LEMMA StatusStep ==
  ASSUME usb \in Usb, host \in Host, ControlInv, Status
  PROVE  usb' \in Usb /\ host' \in Host /\ ControlInv'
<1>1. host.phase = "status"
  BY DEF Status
<1>2. ~Pending /\ ~WasReset
  <2>1. ~Pending
    BY <1>1 DEF Status, ControlInv, PendingOK, Flag, On
  <2>. QED BY <1>1, <2>1 DEF ControlInv, PhaseOK, Busy
<1>3. PICK cs \in SUBSET Ep0Flags :
        /\ usb' = [usb EXCEPT !.cs0 = cs, !.ep0if = TRUE]
        /\ "OUTPKT_RDY" \in cs => "OUTPKT_RDY" \in usb.cs0
        /\ "DATA_END" \notin cs
        /\ "SETUP_END" \in cs \/ "DATA_END" \in usb.cs0
  <2>. DEFINE c == usb.cs0 \ {"DATA_END"}
              d == (usb.cs0 \ {"INPKT_RDY"}) \cup {"SETUP_END"}
  <2>1. c \in SUBSET Ep0Flags /\ d \in SUBSET Ep0Flags
    BY DEF Usb, Ep0Flags
  <2>2. CASE "DATA_END" \in usb.cs0 /\ usb' = Interrupt([usb EXCEPT !.cs0 = @ \ {"DATA_END"}])
    <3>1. usb' = [usb EXCEPT !.cs0 = c, !.ep0if = TRUE]
      BY <2>2 DEF Interrupt, Usb
    <3>. QED BY <2>1, <2>2, <3>1
  <2>3. CASE "DATA_END" \notin usb.cs0
             /\ usb' = Interrupt([usb EXCEPT !.cs0 = (@ \ {"INPKT_RDY"}) \cup {"SETUP_END"}])
    <3>1. usb' = [usb EXCEPT !.cs0 = d, !.ep0if = TRUE]
      BY <2>3 DEF Interrupt, Usb
    <3>. QED BY <2>1, <2>3, <3>1
  <2>. QED BY <2>2, <2>3 DEF Status
<1>4. usb' \in Usb
  BY <1>3 DEF Usb
<1>5. /\ usb'.cs0 = cs /\ usb'.ct = usb.ct /\ usb'.out = usb.out /\ usb'.cif = usb.cif
      /\ usb'.state = usb.state /\ usb'.vbus = usb.vbus
  BY <1>3 DEF Usb
<1>6. Addressing(host.req) => "DATA_END" \in usb.cs0
  BY DEF Status, Reads, Addressing
<1>7. Achieved(host.req) = IF Addressing(host.req) THEN usb.state ELSE host.believes
  <2>1. CASE Addressing(host.req)
    <3>1. usb.state = StateAfter(host.req)
      BY <1>1, <1>2, <1>6, <2>1 DEF ControlInv, AddressOK, Flag
    <3>. QED BY <2>1, <3>1 DEF Achieved, StateAfter, Addressing
  <2>2. CASE ~Addressing(host.req)
    BY <2>2 DEF Achieved, Addressing
  <2>. QED BY <2>1, <2>2
<1>8. /\ host' \in Host /\ host'.phase = "idle" /\ host'.believes = Achieved(host.req)
  <2>. DEFINE believes == Achieved(host.req)
  <2>1. believes \in {"unknown", "DEFAULT", "ADDRESS", "CONFIGURED"}
    BY DEF Achieved, Host
  <2>2. host' = [host EXCEPT !.phase = "idle", !.believes = believes]
    BY DEF Status
  <2>. HIDE DEF believes
  <2>3. host' \in Host /\ host'.phase = "idle" /\ host'.believes = believes
    BY <2>1, <2>2 DEF Host
  <2>. QED BY <2>3 DEF believes
<1>9. ~Pending' /\ ~WasReset' /\ ~Busy'
  BY <1>2, <1>3, <1>5, <1>8 DEF Pending, WasReset, Busy, Flag
<1>10. PendingOK' /\ PhaseOK' /\ BelievesOK'
  BY <1>1, <1>5, <1>9 DEF ControlInv, PendingOK, PhaseOK, BelievesOK, On
<1>11. WriteOK'
  BY <1>3, <1>5, <1>9 DEF ControlInv, WriteOK, Ended, Flag
<1>12. InOK' /\ DoneOK' /\ DataOK' /\ AddressOK'
  BY <1>8 DEF InOK, DoneOK, DataOK, AddressOK
<1>13. HostAgrees'
  BY <1>1, <1>5, <1>7, <1>8 DEF ControlInv, HostAgrees
<1>. QED BY <1>4, <1>8, <1>10, <1>11, <1>12, <1>13 DEF ControlInv

LEMMA StalledStep ==
  ASSUME usb \in Usb, host \in Host, ControlInv, Stalled
  PROVE  usb' \in Usb /\ host' \in Host /\ ControlInv'
<1>. DEFINE cs == (usb.cs0 \ {"SEND_STALL"}) \cup {"SENT_STALL"}
<1>1. host.phase \notin {"off", "idle"} /\ "SEND_STALL" \in usb.cs0
  BY DEF Stalled
<1>2. ~Pending /\ ~WasReset
  <2>1. ~Pending
    BY <1>1 DEF ControlInv, PendingOK, Flag
  <2>2. Busy
    BY <1>1 DEF Busy, Host
  <2>. QED BY <2>1, <2>2 DEF ControlInv, PhaseOK
<1>3. usb' = [usb EXCEPT !.cs0 = cs, !.ep0if = TRUE]
  BY DEF Stalled, Interrupt, Usb
<1>4. /\ cs \in SUBSET Ep0Flags /\ "SENT_STALL" \in cs
      /\ \A f \in {"OUTPKT_RDY", "DATA_END"} : f \in cs <=> f \in usb.cs0
  BY DEF Usb, Ep0Flags
<1>. HIDE DEF cs
<1>5. usb' \in Usb
  BY <1>3, <1>4 DEF Usb
<1>6. /\ usb'.cs0 = cs /\ usb'.ct = usb.ct /\ usb'.out = usb.out /\ usb'.cif = usb.cif
      /\ usb'.state = usb.state /\ usb'.vbus = usb.vbus
  BY <1>3 DEF Usb
<1>7. host' \in Host /\ host'.phase = "idle" /\ host'.believes = host.believes
  BY DEF Stalled, Host
<1>8. ~Pending' /\ ~WasReset' /\ ~Busy' /\ Ended'
  BY <1>2, <1>4, <1>6, <1>7 DEF Pending, WasReset, Busy, Ended, Flag
<1>9. PendingOK' /\ PhaseOK' /\ BelievesOK'
  BY <1>1, <1>6, <1>8 DEF ControlInv, PendingOK, PhaseOK, BelievesOK, On
<1>10. WriteOK'
  BY <1>4, <1>6, <1>8 DEF ControlInv, WriteOK, Flag
<1>11. InOK' /\ DoneOK' /\ DataOK' /\ AddressOK'
  BY <1>7 DEF InOK, DoneOK, DataOK, AddressOK
<1>12. HostAgrees'
  BY <1>1, <1>6, <1>7 DEF ControlInv, HostAgrees
<1>. QED BY <1>5, <1>7, <1>9, <1>10, <1>11, <1>12 DEF ControlInv

------------------------------------------------------------------------------
(* The control transfers. *)

ControlOK == usb \in Usb /\ host \in Host /\ ControlInv

LEMMA ControlInit ==
  ASSUME Init
  PROVE  ControlOK
<1>. DEFINE packet == [src |-> "", at |-> 0, n |-> 0]
<1>1. NoPacket \in OutPackets /\ NoPacket.setup = FALSE /\ NoRequest \in SetupPackets
  BY DEF NoPacket, OutPackets, SetupPackets
<1>2. packet \in InPackets
  BY DEF InPackets, Sources
<1>3. usb = [state |-> "DETACHED", suspend |-> FALSE, ct |-> "NONE", left |-> 0,
             src |-> "", at |-> 0, setup |-> NoRequest, vbus |-> FALSE, cif |-> {},
             ep0if |-> FALSE, cs0 |-> {}, out |-> NoPacket, in |-> packet]
  BY DEF Init, UsbInit
<1>. HIDE DEF packet
<1>4. usb \in Usb
  BY <1>1, <1>2, <1>3 DEF Usb, Sources
<1>5. usb.cs0 = {} /\ usb.cif = {} /\ usb.ct = "NONE"
  BY <1>3
<1>6. host = [phase |-> "off", req |-> NoRequest, got |-> 0, believes |-> "unknown"]
  BY DEF Init, UsbInit
<1>7. host \in Host
  BY <1>1, <1>6 DEF Host
<1>8. host.phase = "off"
  BY <1>6
<1>9. ~Pending /\ ~On /\ ~Busy
  BY <1>5, <1>8 DEF Pending, On, Busy, Flag
<1>10. PendingOK /\ PhaseOK /\ WriteOK /\ BelievesOK
  BY <1>5, <1>9 DEF PendingOK, PhaseOK, WriteOK, BelievesOK, Flag
<1>11. InOK /\ DoneOK /\ DataOK /\ AddressOK /\ HostAgrees
  BY <1>8 DEF InOK, DoneOK, DataOK, AddressOK, HostAgrees
<1>. QED BY <1>4, <1>7, <1>10, <1>11 DEF ControlOK, ControlInv

LEMMA ControlKept ==
  ASSUME ControlOK, UNCHANGED usbVars
  PROVE  ControlOK'
<1>1. usb' = usb /\ host' = host
  BY DEF usbVars
<1>2. (Pending' <=> Pending) /\ (Ended' <=> Ended) /\ (WasReset' <=> WasReset) /\ (On' <=> On)
      /\ (Busy' <=> Busy) /\ Total' = Total
  BY <1>1 DEF Pending, Ended, WasReset, On, Busy, Total, Flag
<1>3. PendingOK' /\ PhaseOK' /\ WriteOK' /\ InOK' /\ DoneOK'
  BY <1>1, <1>2 DEF ControlOK, ControlInv, PendingOK, PhaseOK, WriteOK, InOK, DoneOK, Flag
<1>4. AddressOK' /\ BelievesOK' /\ HostAgrees' /\ DataOK'
  BY <1>1, <1>2 DEF ControlOK, ControlInv, AddressOK, BelievesOK, HostAgrees, DataOK, Flag
<1>. QED BY <1>1, <1>3, <1>4 DEF ControlOK, ControlInv

(* The steps of the host on the bus. *)
LEMMA HostKeeps ==
  ASSUME ControlOK, HostTransfers \/ BusDown
  PROVE  ControlOK'
<1>1. CASE Attach \/ Suspend \/ Resume
  BY <1>1, BusStep DEF ControlOK, Attach, Suspend, Resume
<1>2. ASSUME NEW r \in Requests, Setup(r)
      PROVE  ControlOK'
  BY <1>2, SetupStep DEF ControlOK
<1>3. CASE DataIn
  BY <1>3, DataInStep DEF ControlOK
<1>4. CASE DataOut
  BY <1>4, DataOutStep DEF ControlOK
<1>5. CASE Status
  BY <1>5, StatusStep DEF ControlOK
<1>6. CASE Stalled
  BY <1>6, StalledStep DEF ControlOK
<1>7. CASE BusDown
  BY <1>7, ResetStep, DetachStep DEF BusDown, ControlOK
<1>. QED BY <1>1, <1>2, <1>3, <1>4, <1>5, <1>6, <1>7 DEF HostTransfers

LEMMA ControlStep ==
  ASSUME ControlOK, [Next]_vars
  PROVE  ControlOK'
<1>1. CASE Service
  BY <1>1, ComPolls, Polled DEF Service, ControlOK
<1>2. CASE HostGoesOn
  BY <1>2, HostKeeps DEF HostGoesOn
<1>3. CASE HostResets
  BY <1>3, HostKeeps DEF HostResets
<1>4. CASE UNCHANGED usbVars
  BY <1>4, ControlKept
<1>5. ASSUME TxSend \/ RxReceive \/ ChangeSignals \/ HostReads \/ HostWrites \/ HostIsTold \/ Tick
              \/ UNCHANGED vars
      PROVE  UNCHANGED usbVars
  BY <1>5 DEF TxSend, RxReceive, ChangeSignals, HostReads, HostWrites, HostIsTold, Tick, vars,
              usbVars
<1>. QED BY <1>1, <1>2, <1>3, <1>4, <1>5 DEF Next

THEOREM ControlInvariant == Spec => []ControlOK
<1>1. Init => ControlOK
  BY ControlInit
<1>2. ControlOK /\ [Next]_vars => ControlOK'
  BY ControlStep
<1>. QED BY <1>1, <1>2, PTL DEF Spec

(* Host and device agree on the state of the device whenever the device has *)
(* seen the resets of the bus and the host waits for no answer (usb.c).     *)
THEOREM HostAgreement == Spec => []HostAgrees
<1>1. ControlOK => HostAgrees
  BY DEF ControlOK, ControlInv
<1>. QED BY <1>1, ControlInvariant, PTL

------------------------------------------------------------------------------
(* The request for the bootloader. *)

(* age, which is kept in 8 bits, is all the time since the request. *)
BootOK ==
  /\ startBootloaderSoon \in BOOLEAN /\ booted \in BOOLEAN
  /\ age \in Nat /\ asked \in Nat /\ gap \in 0 .. MaxGap
  /\ startBootloaderSoon =>
       age = asked /\ asked <= BootloaderDelay + (IF booted THEN MaxGap ELSE gap)
  /\ ~startBootloaderSoon => asked = 0 /\ age = 0 /\ ~booted
  /\ booted => asked > BootloaderDelay

LEMMA BootStep ==
  ASSUME BootOK, [Next]_vars
  PROVE  BootOK'
<1>1. CASE Service
  <2>1. /\ ~booted /\ gap' = 0 /\ asked' = asked
        /\ age' = IF BootloaderRequested THEN 0 ELSE age
    BY <1>1 DEF Service
  <2>2. booted' \in BOOLEAN /\ (booted' <=> BootloaderDue)
    BY <1>1, Zenon DEF Service, BootloaderDue
  <2>3. /\ startBootloaderSoon' \in BOOLEAN
        /\ startBootloaderSoon' <=> startBootloaderSoon \/ BootloaderRequested
    BY <1>1, Zenon DEF Service
  <2>4. CASE BootloaderRequested
    <3>1. ~startBootloaderSoon /\ ~BootloaderDue
      BY <2>4 DEF BootloaderRequested, BootloaderDue
    <3>2. startBootloaderSoon' /\ ~booted' /\ age' = 0 /\ asked' = 0 /\ gap' = 0
      BY <2>1, <2>2, <2>3, <2>4, <3>1 DEF BootOK
    <3>. QED BY <2>2, <2>3, <3>2, Sizes DEF BootOK
  <2>5. CASE ~BootloaderRequested
    <3>1. /\ startBootloaderSoon' <=> startBootloaderSoon
          /\ booted' <=> startBootloaderSoon /\ age > BootloaderDelay
          /\ age' = age
      BY <2>1, <2>2, <2>3, <2>5 DEF BootloaderDue
    <3>. QED BY <2>1, <2>2, <2>3, <3>1, Sizes DEF BootOK
  <2>. QED BY <2>4, <2>5
<1>2. CASE Tick
  <2>1. /\ ~booted /\ startBootloaderSoon /\ gap < MaxGap
        /\ gap' = gap + 1 /\ age' = (age + 1) % UINT8 /\ asked' = asked + 1
        /\ startBootloaderSoon' = startBootloaderSoon /\ booted' = booted
    BY <1>2 DEF Tick
  <2>2. age + 1 \in 0 .. UINT8 - 1
    BY <2>1, Sizes DEF BootOK
  <2>3. age' = age + 1
    BY <2>1, <2>2, Sizes
  <2>. QED BY <2>1, <2>3, Sizes DEF BootOK
<1>3. CASE UNCHANGED bootVars
  BY <1>3 DEF bootVars, BootOK
<1>4. ASSUME TxSend \/ RxReceive \/ ChangeSignals \/ HostGoesOn \/ HostResets \/ HostReads
              \/ HostWrites \/ HostIsTold \/ UNCHANGED vars
      PROVE  UNCHANGED bootVars
  BY <1>4 DEF TxSend, RxReceive, ChangeSignals, HostGoesOn, HostResets, HostReads, HostWrites,
              HostIsTold, vars
<1>. QED BY <1>1, <1>2, <1>3, <1>4 DEF Next

LEMMA BootInit ==
  ASSUME Init
  PROVE  BootOK
<1>1. /\ startBootloaderSoon \in BOOLEAN /\ ~startBootloaderSoon
      /\ booted \in BOOLEAN /\ ~booted
  BY Zenon DEF Init
<1>2. age = 0 /\ asked = 0 /\ gap = 0
  BY DEF Init
<1>. QED BY <1>1, <1>2, Sizes DEF BootOK

THEOREM BootInvariant == Spec => []BootOK
<1>1. Init => BootOK
  BY BootInit
<1>2. BootOK /\ [Next]_vars => BootOK'
  BY BootStep
<1>. QED BY <1>1, <1>2, PTL DEF Spec

(* The bootloader starts after the delay and no later than the next service *)
(* after it: the 8-bit clock never wraps unseen (usb_cdc_acm.c).            *)
THEOREM BootloaderTimely == Spec => []BootloaderInTime
<1>1. BootOK => BootloaderInTime
  BY Sizes DEF BootOK, BootloaderInTime
<1>. QED BY <1>1, BootInvariant, PTL

------------------------------------------------------------------------------
(* The FIFO to the host. *)

(* Packets that are ready to go. *)
Packets(s) == s \in Seq(Nat) /\ \A i \in DOMAIN s : s[i] <= CDC_IN_PACKET_SIZE

(* RoomIsReal with what it takes to keep it: the library counts what it loads *)
(* as zero when both packets are waiting.                                     *)
PortOK ==
  /\ inFifoBytesLoaded \in 0 .. CDC_IN_PACKET_SIZE - 1 /\ sendEmptyPacketSoon \in BOOLEAN
  /\ inFifo \in [loaded : Nat, ready : Seq(Nat)]
  /\ inFifo.loaded <= inFifoBytesLoaded
  /\ Packets(inFifo.ready) /\ Len(inFifo.ready) <= 2
  /\ Len(inFifo.ready) = 2 => inFifoBytesLoaded = 0

LEMMA PacketAppended ==
  ASSUME NEW s, Packets(s), NEW n \in 0 .. CDC_IN_PACKET_SIZE
  PROVE  Packets(Append(s, n)) /\ Len(Append(s, n)) = Len(s) + 1
<1>1. Append(s, n) \in Seq(Nat) /\ Len(Append(s, n)) = Len(s) + 1
  BY Sizes DEF Packets
<1>2. \A i \in 1 .. Len(s) + 1 : Append(s, n)[i] <= CDC_IN_PACKET_SIZE
  BY Sizes DEF Packets
<1>. QED BY <1>1, <1>2 DEF Packets

LEMMA PacketTaken ==
  ASSUME NEW s, Packets(s), s # <<>>
  PROVE  Packets(Tail(s)) /\ Len(Tail(s)) = Len(s) - 1
<1>1. Tail(s) \in Seq(Nat) /\ Len(Tail(s)) = Len(s) - 1
  BY DEF Packets
<1>2. \A i \in 1 .. Len(s) - 1 : Tail(s)[i] <= CDC_IN_PACKET_SIZE
  BY DEF Packets
<1>. QED BY <1>1, <1>2 DEF Packets

LEMMA PacketsAdded ==
  ASSUME NEW s, Packets(s), NEW k \in Nat, NEW first \in 0 .. CDC_IN_PACKET_SIZE, NEW t,
         t = s \o [i \in 1 .. k |-> IF i = 1 THEN first ELSE CDC_IN_PACKET_SIZE]
  PROVE  Packets(t) /\ Len(t) = Len(s) + k
<1>. DEFINE u == [i \in 1 .. k |-> IF i = 1 THEN first ELSE CDC_IN_PACKET_SIZE]
<1>1. u \in Seq(Nat) /\ Len(u) = k /\ \A i \in 1 .. k : u[i] <= CDC_IN_PACKET_SIZE
  BY Sizes
<1>2. t = s \o u
  OBVIOUS
<1>. HIDE DEF u
<1>3. s \in Seq(Nat) /\ \A i \in 1 .. Len(s) : s[i] <= CDC_IN_PACKET_SIZE
  BY DEF Packets
<1>4. t \in Seq(Nat) /\ Len(t) = Len(s) + k
  BY <1>1, <1>2, <1>3
<1>5. ASSUME NEW i \in 1 .. Len(s) + k
      PROVE  t[i] <= CDC_IN_PACKET_SIZE
  <2>1. t[i] = IF i <= Len(s) THEN s[i] ELSE u[i - Len(s)]
    <3>1. i \in 1 .. Len(s) + Len(u)
      BY <1>1
    <3>2. u \in Seq(Nat) /\ s \in Seq(Nat)
      BY <1>1, <1>3
    <3>3. \A j \in 1 .. Len(s) + Len(u) :
            (s \o u)[j] = IF j <= Len(s) THEN s[j] ELSE u[j - Len(s)]
      BY <3>2, ConcatProperties, Zenon
    <3>. QED BY <1>2, <3>1, <3>3, Zenon
  <2>2. CASE i <= Len(s)
    BY <1>3, <2>1, <2>2
  <2>3. CASE i > Len(s)
    <3>1. i - Len(s) \in 1 .. k
      BY <1>3, <2>3
    <3>. QED BY <1>1, <1>3, <2>1, <2>3, <3>1
  <2>. QED BY <1>3, <2>2, <2>3
<1>. QED BY <1>4, <1>5 DEF Packets

(* The quotient that counts the full packets in at most two of them. *)
LEMMA FullPackets ==
  ASSUME NEW K \in Nat \ {0}, NEW t \in 0 .. 2 * K
  PROVE  /\ t < K => t \div K = 0 /\ t % K = t
         /\ K <= t /\ t < 2 * K => t \div K = 1 /\ t % K = t - K
         /\ t = 2 * K => t \div K = 2 /\ t % K = 0
<1>1. CASE t < K
  BY <1>1
<1>2. CASE K <= t /\ t < 2 * K
  BY <1>2
<1>3. CASE t = 2 * K
  BY <1>3
<1>. QED BY <1>1, <1>2, <1>3

LEMMA EmptyPacketSent ==
  ASSUME PortOK, SendPacketNow, Len(inFifo.ready) < 2
  PROVE  PortOK'
<1>. DEFINE ready == Append(inFifo.ready, inFifo.loaded)
<1>1. inFifo' = [loaded |-> 0, ready |-> ready] /\ inFifoBytesLoaded' = 0
  BY DEF SendPacketNow
<1>2. sendEmptyPacketSoon' \in BOOLEAN
  BY Zenon DEF SendPacketNow
<1>3. inFifo.loaded \in 0 .. CDC_IN_PACKET_SIZE
  BY Sizes DEF PortOK
<1>4. Packets(ready) /\ Len(ready) = Len(inFifo.ready) + 1 /\ Len(inFifo.ready) \in Nat
  BY <1>3, PacketAppended DEF PortOK
<1>. HIDE DEF ready
<1>5. inFifo' \in [loaded : Nat, ready : Seq(Nat)] /\ inFifo'.loaded = 0 /\ inFifo'.ready = ready
  BY <1>1, <1>4 DEF Packets
<1>. QED BY <1>1, <1>2, <1>4, <1>5, Sizes DEF PortOK

(* The endpoints are emptied, and what the library counts stays. *)
LEMMA FifoEmptied ==
  ASSUME PortOK, inFifo' = [loaded |-> 0, ready |-> <<>>],
         UNCHANGED <<inFifoBytesLoaded, sendEmptyPacketSoon>>
  PROVE  PortOK'
<1>1. Packets(<<>>) /\ Len(<<>>) = 0
  BY DEF Packets
<1>2. inFifo' \in [loaded : Nat, ready : Seq(Nat)] /\ inFifo'.loaded = 0 /\ inFifo'.ready = <<>>
  BY <1>1 DEF Packets
<1>. QED BY <1>1, <1>2, Sizes DEF PortOK

(* The program fills up the packet it has begun, and those that are free. *)
LEMMA BytesLoaded ==
  ASSUME PortOK, TxSend
  PROVE  PortOK'
<1>. DEFINE K == CDC_IN_PACKET_SIZE
            L == Len(inFifo.ready)
<1>1. PICK n \in 1 .. usbComTxAvailable : usbComTxSend(n)
  BY DEF TxSend
<1>. DEFINE total == inFifoBytesLoaded + n
            full == total \div CDC_IN_PACKET_SIZE
            first == inFifo.loaded + CDC_IN_PACKET_SIZE - inFifoBytesLoaded
            loaded == inFifo.loaded + n
            cut == [i \in 1 .. full |-> IF i = 1 THEN first ELSE CDC_IN_PACKET_SIZE]
<1>2. K \in Nat \ {0} /\ L \in Nat /\ L <= 2 /\ inFifo.loaded \in Nat
      /\ inFifoBytesLoaded \in 0 .. K - 1 /\ inFifo.loaded <= inFifoBytesLoaded
  BY Sizes DEF PortOK, Packets
<1>3. L < 2 /\ n \in Nat \ {0} /\ (L = 1 => total <= K) /\ total <= 2 * K
  <2>1. usbComTxAvailable \in {0, K - inFifoBytesLoaded, 2 * K - inFifoBytesLoaded}
        /\ (L = 2 => usbComTxAvailable = 0)
        /\ (L = 1 => usbComTxAvailable \in {0, K - inFifoBytesLoaded})
    <3>1. CASE usb.state # "CONFIGURED" \/ L = 2
      BY <3>1 DEF usbComTxAvailable
    <3>2. CASE usb.state = "CONFIGURED" /\ L = 1
      BY <3>2 DEF usbComTxAvailable
    <3>3. CASE usb.state = "CONFIGURED" /\ L # 1 /\ L # 2
      BY <3>3 DEF usbComTxAvailable
    <3>. QED BY <3>1, <3>2, <3>3
  <2>. HIDE DEF K, L
  <2>2. K \in Int /\ inFifoBytesLoaded \in Int
    BY <1>2
  <2>. QED BY <1>1, <1>2, <2>1, <2>2
<1>4. /\ inFifoBytesLoaded' = total % K
      /\ sendEmptyPacketSoon' = (full > 0 \/ sendEmptyPacketSoon)
      /\ inFifo' = IF full = 0 THEN [inFifo EXCEPT !.loaded = @ + n]
                   ELSE [loaded |-> total % K, ready |-> inFifo.ready \o cut]
  BY <1>1 DEF usbComTxSend
<1>5. sendEmptyPacketSoon' \in BOOLEAN
  BY <1>4, Zenon
<1>6. /\ total \in 0 .. 2 * K
      /\ total < K => full = 0 /\ total % K = total
      /\ K <= total /\ total < 2 * K => full = 1 /\ total % K = total - K
      /\ total = 2 * K => full = 2 /\ total % K = 0
  <2>1. total \in 0 .. 2 * K
    <3>. HIDE DEF K, L
    <3>. QED BY <1>2, <1>3
  <2>. HIDE DEF total
  <2>. QED BY <1>2, <2>1, FullPackets
<1>7. first \in 0 .. K /\ loaded \in Nat /\ loaded <= total
  <2>. HIDE DEF L
  <2>. QED BY <1>2, <1>3
<1>. HIDE DEF full, first, loaded
<1>8. CASE full = 0
  <2>1. total < K /\ total % K = total
    <3>. HIDE DEF K, L, total
    <3>. QED BY <1>2, <1>3, <1>6, <1>8
  <2>2. inFifo' = [inFifo EXCEPT !.loaded = loaded]
    BY <1>4, <1>8 DEF loaded
  <2>3. inFifo' \in [loaded : Nat, ready : Seq(Nat)] /\ inFifo'.loaded = loaded
        /\ inFifo'.ready = inFifo.ready
    BY <1>7, <2>2 DEF PortOK
  <2>4. inFifoBytesLoaded' = total /\ total \in 0 .. K - 1 /\ loaded <= total
    BY <1>2, <1>4, <1>6, <1>7, <2>1
  <2>. HIDE DEF total
  <2>5. /\ inFifoBytesLoaded' \in 0 .. CDC_IN_PACKET_SIZE - 1
        /\ inFifo'.loaded <= inFifoBytesLoaded'
    BY <2>3, <2>4
  <2>6. Packets(inFifo'.ready) /\ Len(inFifo'.ready) <= 2 /\ Len(inFifo'.ready) # 2
    <3>1. Packets(inFifo.ready)
      BY DEF PortOK
    <3>2. L <= 2 /\ L # 2
      <4>. HIDE DEF L
      <4>. QED BY <1>2, <1>3
    <3>3. Len(inFifo.ready) <= 2 /\ Len(inFifo.ready) # 2
      BY <3>2
    <3>. HIDE DEF loaded
    <3>. QED BY <2>3, <3>1, <3>3, Zenon
  <2>. QED BY <1>5, <2>3, <2>5, <2>6 DEF PortOK
<1>9. CASE full # 0
  <2>. DEFINE ready == inFifo.ready \o cut
              rest == total % K
  <2>1. /\ full \in {1, 2} /\ rest \in 0 .. K - 1 /\ L + full <= 2
        /\ L + full = 2 => rest = 0
    <3>1. CASE K <= total /\ total < 2 * K
      <4>1. full = 1 /\ rest = total - K /\ (L = 1 => total = K)
        BY <1>2, <1>3, <1>6, <3>1
      <4>. HIDE DEF K, L, total, rest
      <4>. QED BY <1>2, <1>3, <1>6, <3>1, <4>1
    <3>2. CASE total = 2 * K
      <4>1. full = 2 /\ rest = 0 /\ L # 1
        BY <1>2, <1>3, <1>6, <3>2
      <4>. HIDE DEF K, L, total, rest
      <4>. QED BY <1>2, <1>3, <4>1
    <3>3. K <= total
      BY <1>2, <1>6, <1>9
    <3>. QED BY <1>2, <1>6, <3>1, <3>2, <3>3
  <2>2. inFifo' = [loaded |-> rest, ready |-> ready] /\ inFifoBytesLoaded' = rest
    BY <1>4, <1>9
  <2>3. Packets(ready) /\ Len(ready) = L + full
    <3>. HIDE DEF K
    <3>1. full \in Nat /\ Packets(inFifo.ready)
      BY <2>1 DEF PortOK
    <3>. QED BY <1>7, <3>1, PacketsAdded, ZenonT(40) DEF K
  <2>. HIDE DEF ready, rest
  <2>4. inFifo' \in [loaded : Nat, ready : Seq(Nat)] /\ inFifo'.loaded = rest
        /\ inFifo'.ready = ready
    BY <2>1, <2>2, <2>3 DEF Packets
  <2>. HIDE DEF L
  <2>. QED BY <1>2, <1>5, <2>1, <2>2, <2>3, <2>4 DEF PortOK
<1>. QED BY <1>8, <1>9

LEMMA PortStep ==
  ASSUME PortOK, [Next]_vars
  PROVE  PortOK'
<1>1. CASE UNCHANGED <<inFifoBytesLoaded, sendEmptyPacketSoon, inFifo>>
  BY <1>1 DEF PortOK
<1>2. CASE Service
  <2>1. CASE ServiceData
    <3>1. CASE SendPacketNow /\ Len(inFifo.ready) < 2
      BY <3>1, EmptyPacketSent
    <3>2. inFifoBytesLoaded > 0 \/ inFifo.ready = <<>> => Len(inFifo.ready) < 2
      <4>1. Len(inFifo.ready) \in Nat /\ Len(<<>>) = 0
        BY DEF PortOK, Packets
      <4>2. inFifoBytesLoaded > 0 => Len(inFifo.ready) # 2
        BY Sizes DEF PortOK
      <4>3. inFifo.ready = <<>> => Len(inFifo.ready) = 0
        BY <4>1
      <4>4. Len(inFifo.ready) <= 2
        BY DEF PortOK
      <4>. DEFINE n == Len(inFifo.ready)
      <4>. HIDE DEF n
      <4>5. n \in Nat /\ n <= 2 /\ (inFifoBytesLoaded > 0 => n # 2) /\ (inFifo.ready = <<>> => n = 0)
        BY <4>1, <4>2, <4>3, <4>4 DEF n
      <4>6. inFifoBytesLoaded > 0 \/ inFifo.ready = <<>> => n < 2
        BY <4>5
      <4>. QED BY <4>6 DEF n
    <3>. QED BY <1>1, <2>1, <3>1, <3>2 DEF ServiceData
  <2>2. CASE NotConfigured
    BY <1>1, <2>2, FifoEmptied DEF NotConfigured
  <2>. QED BY <1>2, <2>1, <2>2 DEF Service
<1>3. CASE TxSend
  BY <1>3, BytesLoaded
<1>4. CASE HostResets
  BY <1>1, <1>4, FifoEmptied DEF HostResets
<1>5. CASE HostReads
  <2>. DEFINE ready == Tail(inFifo.ready)
  <2>1. inFifo' = [inFifo EXCEPT !.ready = ready]
        /\ UNCHANGED <<inFifoBytesLoaded, sendEmptyPacketSoon>>
    BY <1>5 DEF HostReads
  <2>2. Packets(ready) /\ Len(ready) = Len(inFifo.ready) - 1 /\ Len(inFifo.ready) \in Nat
    BY <1>5, PacketTaken DEF HostReads, PortOK, Packets
  <2>. HIDE DEF ready
  <2>3. inFifo' \in [loaded : Nat, ready : Seq(Nat)] /\ inFifo'.loaded = inFifo.loaded
        /\ inFifo'.ready = ready
    BY <2>1, <2>2 DEF PortOK, Packets
  <2>. QED BY <2>1, <2>2, <2>3 DEF PortOK
<1>6. ASSUME RxReceive \/ ChangeSignals \/ HostGoesOn \/ HostWrites \/ HostIsTold \/ Tick
              \/ UNCHANGED vars
      PROVE  UNCHANGED <<inFifoBytesLoaded, sendEmptyPacketSoon, inFifo>>
  BY <1>6 DEF RxReceive, ChangeSignals, HostGoesOn, HostWrites, HostIsTold, Tick, vars, dataVars
<1>. QED BY <1>1, <1>2, <1>3, <1>4, <1>5, <1>6 DEF Next

THEOREM PortInvariant == Spec => []PortOK
<1>1. Init => PortOK
  <2>1. SUFFICES ASSUME Init PROVE PortOK
    OBVIOUS
  <2>2. inFifo = [loaded |-> 0, ready |-> <<>>] /\ inFifoBytesLoaded = 0
    BY <2>1 DEF Init
  <2>3. sendEmptyPacketSoon \in BOOLEAN
    BY <2>1, Zenon DEF Init
  <2>4. Packets(<<>>) /\ Len(<<>>) = 0
    BY DEF Packets
  <2>5. inFifo \in [loaded : Nat, ready : Seq(Nat)] /\ inFifo.loaded = 0 /\ inFifo.ready = <<>>
    BY <2>2, <2>4 DEF Packets
  <2>. QED BY <2>2, <2>3, <2>4, <2>5, Sizes DEF PortOK
<1>2. PortOK /\ [Next]_vars => PortOK'
  BY PortStep
<1>. QED BY <1>1, <1>2, PTL DEF Spec

(* The program never overfills the FIFO of the serial port, over every reset *)
(* of the bus that the library has not seen yet (usb_cdc_acm.c).             *)
THEOREM RoomReal == Spec => []RoomIsReal
<1>1. PortOK => RoomIsReal
  BY DEF PortOK, Packets, RoomIsReal
<1>. QED BY <1>1, PortInvariant, PTL

------------------------------------------------------------------------------
(* The types of all the variables. *)

OthersOK ==
  /\ outFifo \in Seq(Nat) /\ held \in BOOLEAN
  /\ usbComSerialState \in SerialStates /\ known \in SerialStates
  /\ lastReportedSerialState \in SerialStates \cup {NotReported}
  /\ notifications \in Seq(SerialStates) /\ usbComControlLineState \in Nat
  /\ changes \in 0 .. MaxChanges

LEMMA SerialTypes ==
  /\ {} \in SerialStates /\ {"DCD"} \in SerialStates /\ {"BREAK"} \in SerialStates
  /\ \A s, t \in SerialStates :
       s \ Irregular \in SerialStates /\ (s \cap Irregular) \cup t \in SerialStates
       /\ s \cup t \in SerialStates
BY DEF SerialStates, Irregular

LEMMA EmptyTypes == <<>> \in Seq(Nat) /\ <<>> \in Seq(SerialStates)
OBVIOUS

LEMMA SignalsServiced ==
  ASSUME OthersOK, ServiceSignals
  PROVE  /\ usbComSerialState' \in SerialStates /\ notifications' \in Seq(SerialStates)
         /\ lastReportedSerialState' \in SerialStates \cup {NotReported}
<1>1. LastReported \in SerialStates \cup {NotReported}
  BY DEF OthersOK, LastReported
<1>2. CASE usbComSerialState # LastReported /\ Len(notifications) < 2
  <2>1. /\ notifications' = Append(notifications, usbComSerialState)
        /\ usbComSerialState' = usbComSerialState \ Irregular
        /\ lastReportedSerialState' = usbComSerialState'
    BY <1>2 DEF ServiceSignals
  <2>. QED BY <2>1, SerialTypes DEF OthersOK
<1>3. CASE ~(usbComSerialState # LastReported /\ Len(notifications) < 2)
  <2>1. /\ lastReportedSerialState' = LastReported
        /\ notifications' = notifications /\ usbComSerialState' = usbComSerialState
    BY <1>3 DEF ServiceSignals
  <2>. QED BY <1>1, <2>1 DEF OthersOK
<1>. QED BY <1>2, <1>3

LEMMA OthersStep ==
  ASSUME OthersOK, usb \in Usb, [Next]_vars
  PROVE  OthersOK'
<1>1. CASE Service
  <2>1. usbComControlLineState' \in Nat
    <3>1. usb.out.req \in SetupPackets
      BY DEF Usb, OutPackets
    <3>2. usb.out.req.n \in Nat
      BY <3>1, SetupFacts
    <3>. QED BY <1>1, <3>2 DEF Service, OthersOK
  <2>2. held' = held /\ known' = known /\ changes' = changes
    BY <1>1 DEF Service
  <2>3. CASE ServiceSignals /\ UNCHANGED outFifo
    BY <2>1, <2>2, <2>3, SignalsServiced DEF OthersOK
  <2>4. CASE NotConfigured
    <3>1. LastReported \in SerialStates \cup {NotReported}
      BY DEF OthersOK, LastReported
    <3>2. \/ outFifo' = outFifo /\ notifications' = notifications
          \/ outFifo' = <<>> /\ notifications' = <<>>
      BY <2>4 DEF NotConfigured
    <3>3. outFifo' \in Seq(Nat) /\ notifications' \in Seq(SerialStates)
      BY <3>2, EmptyTypes DEF OthersOK
    <3>. QED BY <2>1, <2>2, <2>4, <3>1, <3>3 DEF NotConfigured, OthersOK
  <2>. QED BY <1>1, <2>3, <2>4 DEF Service
<1>2. CASE RxReceive
  <2>1. outFifo # <<>> /\ Head(outFifo) \in Nat
    <3>1. outFifo # <<>>
      BY <1>2 DEF RxReceive, usbComRxAvailable
    <3>. QED BY <3>1 DEF OthersOK
  <2>2. PICK n \in 1 .. usbComRxAvailable :
          outFifo' = IF n = Head(outFifo) THEN Tail(outFifo)
                     ELSE <<Head(outFifo) - n>> \o Tail(outFifo)
    BY <1>2 DEF RxReceive
  <2>3. n \in Nat /\ n <= Head(outFifo)
    BY <2>1, <2>2 DEF usbComRxAvailable
  <2>4. Tail(outFifo) \in Seq(Nat)
    BY <2>1 DEF OthersOK
  <2>5. Head(outFifo) - n \in Nat
    BY <2>1, <2>3
  <2>6. outFifo' \in Seq(Nat)
    <3>. DEFINE m == Head(outFifo) - n
                rest == Tail(outFifo)
    <3>. HIDE DEF m, rest
    <3>1. <<m>> \o rest \in Seq(Nat)
      BY <2>4, <2>5 DEF m, rest
    <3>. QED BY <2>2, <2>4, <3>1 DEF m, rest
  <2>. QED BY <1>2, <2>6 DEF RxReceive, OthersOK, signalVars
<1>3. CASE ChangeSignals
  <2>1. usbComSerialState' \in SerialStates
    <3>1. \/ usbComSerialState' \in {(usbComSerialState \cap Irregular) \cup s : s \in {{}, {"DCD"}}}
          \/ usbComSerialState' = usbComSerialState \cup {"BREAK"}
      BY <1>3 DEF ChangeSignals, usbComTxControlSignals, usbComTxControlSignalEvents
    <3>. QED BY <3>1, SerialTypes DEF OthersOK
  <2>2. changes' \in 0 .. MaxChanges
    BY <1>3, Sizes DEF ChangeSignals, OthersOK
  <2>. QED BY <1>3, <2>1, <2>2 DEF ChangeSignals, OthersOK, dataVars
<1>4. CASE HostResets
  <2>1. held' \in BOOLEAN /\ known' = {}
    BY <1>4, Zenon DEF HostResets
  <2>2. \/ outFifo' = outFifo /\ notifications' = notifications
        \/ outFifo' = <<>> /\ notifications' = <<>>
    BY <1>4 DEF HostResets
  <2>3. outFifo' \in Seq(Nat) /\ notifications' \in Seq(SerialStates)
    BY <2>2, EmptyTypes DEF OthersOK
  <2>. QED BY <1>4, <2>1, <2>3, SerialTypes DEF HostResets, OthersOK
<1>5. CASE HostReads
  <2>1. held' \in BOOLEAN
    BY <1>5, Zenon DEF HostReads
  <2>. QED BY <1>5, <2>1 DEF HostReads, OthersOK, signalVars
<1>6. CASE HostWrites
  <2>1. outFifo' \in Seq(Nat)
    BY <1>6, Sizes DEF HostWrites, OthersOK
  <2>. QED BY <1>6, <2>1 DEF HostWrites, OthersOK, signalVars
<1>7. CASE HostIsTold
  <2>1. Head(notifications) \in SerialStates /\ Tail(notifications) \in Seq(SerialStates)
    BY <1>7 DEF HostIsTold, OthersOK
  <2>2. known' \in SerialStates /\ notifications' \in Seq(SerialStates)
    BY <1>7, <2>1, SerialTypes DEF HostIsTold
  <2>. QED BY <1>7, <2>2 DEF HostIsTold, OthersOK, dataVars
<1>8. ASSUME TxSend \/ HostGoesOn \/ Tick \/ UNCHANGED vars
      PROVE  UNCHANGED <<outFifo, held, usbComControlLineState, signalVars>>
  BY <1>8 DEF TxSend, HostGoesOn, Tick, vars, dataVars
<1>9. CASE UNCHANGED <<outFifo, held, usbComControlLineState, signalVars>>
  BY <1>9 DEF OthersOK, signalVars
<1>. QED BY <1>1, <1>2, <1>3, <1>4, <1>5, <1>6, <1>7, <1>8, <1>9 DEF Next

(* Every variable of the library, its endpoints, its host and its clocks has *)
(* its type (usb.c, usb_cdc_acm.c).                                          *)
THEOREM TypeCorrect == Spec => []TypeOK
<1>1. Init => OthersOK
  <2>1. SUFFICES ASSUME Init PROVE OthersOK
    OBVIOUS
  <2>2. held \in BOOLEAN
    BY <2>1, Zenon DEF Init
  <2>3. /\ outFifo = <<>> /\ notifications = <<>> /\ usbComSerialState = {} /\ known = {}
        /\ lastReportedSerialState = NotReported /\ usbComControlLineState = 0 /\ changes = 0
    BY <2>1 DEF Init
  <2>. QED BY <2>2, <2>3, EmptyTypes, SerialTypes, Sizes DEF OthersOK
<1>2. OthersOK /\ ControlOK /\ [Next]_vars => OthersOK'
  BY OthersStep DEF ControlOK
<1>3. OthersOK /\ ControlOK /\ BootOK /\ PortOK => TypeOK
  BY DEF OthersOK, ControlOK, BootOK, PortOK, TypeOK
<1>. QED BY <1>1, <1>2, <1>3, ControlInvariant, BootInvariant, PortInvariant, PTL DEF Spec

------------------------------------------------------------------------------
(* The poll of the keyboard, mouse and joystick. *)

(* usb.c is the same for both libraries. *)
LEMMA HidSame ==
  ASSUME NEW s, NEW n, NEW src, NEW ready
  PROVE  /\ Hid!usbControlRead(s, n, src) = usbControlRead(s, n, src)
         /\ Hid!usbControlWrite(s, n, src) = usbControlWrite(s, n, src)
         /\ Hid!usbControlAcknowledge(s) = usbControlAcknowledge(s)
         /\ Hid!BusEvents(s) = BusEvents(s) /\ Hid!TransferEnds(s) = TransferEnds(s)
         /\ Hid!DataReceived(s) = DataReceived(s) /\ Hid!Answer(s) = Answer(s)
         /\ Hid!InPacket(s, ready) = InPacket(s, ready)
         /\ Hid!NoPacket = NoPacket
         /\ Hid!SetAddress(s) = SetAddress(s) /\ Hid!SetConfiguration(s) = SetConfiguration(s)
<1>1. /\ Hid!usbControlRead(s, n, src) = usbControlRead(s, n, src)
      /\ Hid!usbControlWrite(s, n, src) = usbControlWrite(s, n, src)
      /\ Hid!usbControlAcknowledge(s) = usbControlAcknowledge(s)
  BY DEF Hid!usbControlRead, usbControlRead, Hid!usbControlWrite, usbControlWrite,
         Hid!usbControlAcknowledge, usbControlAcknowledge
<1>2. Hid!BusEvents(s) = BusEvents(s) /\ Hid!TransferEnds(s) = TransferEnds(s)
  BY DEF Hid!BusEvents, BusEvents, Hid!TransferEnds, TransferEnds
<1>3. Hid!DataReceived(s) = DataReceived(s) /\ Hid!Answer(s) = Answer(s)
  BY DEF Hid!DataReceived, DataReceived, Hid!Answer, Answer, Hid!Min2, Min2
<1>4. Hid!InPacket(s, ready) = InPacket(s, ready) /\ Hid!NoPacket = NoPacket
  BY DEF Hid!InPacket, InPacket, Hid!Min2, Min2, Hid!NoPacket, NoPacket, Hid!NoRequest, NoRequest
<1>5. Hid!SetAddress(s) = SetAddress(s) /\ Hid!SetConfiguration(s) = SetConfiguration(s)
  BY DEF Hid!SetAddress, SetAddress, Hid!SetConfiguration, SetConfiguration,
         Hid!usbControlAcknowledge, usbControlAcknowledge
<1>. QED BY <1>1, <1>2, <1>3, <1>4, <1>5

LEMMA HidSetupFacts ==
  ASSUME NEW r \in SetupPackets
  PROVE  /\ r.request = "GET_REPORT" => r.len >= Length["input"]
         /\ r.request \in {"GET_IDLE", "GET_PROTOCOL"} => r.len = 1
<1>1. CASE r \in Requests
  BY <1>1, HidAssumption DEF HidAssumption
<1>2. CASE r = NoRequest
  <2>1. NoRequest.request = ""
    BY DEF NoRequest
  <2>. QED BY <1>2, <2>1
<1>. QED BY <1>1, <1>2 DEF SetupPackets

LEMMA HidLengths ==
  \A src \in {"input", "hid", "report", "device", "configuration", "string"} :
    Length[src] \in Nat /\ src \in Sources
BY HidAssumption, LengthFacts DEF HidAssumption, Sources

(* The first bytes of the response, of a request that wants no more of them. *)
LEMMA StateRead ==
  ASSUME NEW s \in Usb, NEW n \in {1, 2}, NEW t, t = usbControlRead(s, n, "response"),
         s.setup.len = n \/ (n = 2 /\ s.setup.len >= 2),
         Wanted(s.setup) = "response", ~Addressing(s.setup)
  PROVE  Handled(s, t)
<1>1. s.setup.len \in Nat /\ "response" \in Sources
  BY SetupFacts DEF Usb, Sources
<1>2. n = Min2(s.setup.len, Length["response"])
  BY <1>1, LengthFacts DEF Min2
<1>. QED BY <1>1, <1>2, ReadHandled

LEMMA HidDescriptorHandled ==
  ASSUME NEW s \in Usb, s.ct = "NONE", s.setup.request = "GET_DESCRIPTOR", NEW t,
         t = Hid!GetDescriptor(s)
  PROVE  Handled(s, t)
<1>. DEFINE r == s.setup
            Known == {"device", "configuration", "string", "hid", "report"}
<1>1. /\ r.len \in Nat /\ r \in SetupPackets /\ ~Addressing(r) /\ Wanted(r) = r.what
      /\ s.left \in Nat
  BY SetupFacts DEF Usb, Addressing, Wanted
<1>2. ASSUME NEW src \in Known, r.what = src,
             t = [usbControlRead(s, Length[src], src) EXCEPT
                    !.left = Min2(Length[src], r.len)]
      PROVE  Handled(s, t)
  <2>1. Length[src] \in Nat /\ src \in Sources
    BY HidLengths
  <2>2. Min2(Length[src], r.len) = Min2(r.len, Length[src]) /\ Min2(r.len, Length[src]) \in Nat
    BY <1>1, <2>1 DEF Min2
  <2>3. t = usbControlRead(s, Min2(r.len, Length[src]), src)
    BY <1>2, <2>2 DEF usbControlRead, Usb
  <2>. QED BY <1>1, <1>2, <2>1, <2>2, <2>3, ReadHandled
<1>3. ASSUME t = [s EXCEPT !.left = s.left]
      PROVE  Handled(s, t)
  <2>1. t = s
    BY <1>3 DEF Usb
  <2>. QED BY <2>1, Refused
<1>. DEFINE answer == CASE r.what = "device" -> usbControlRead(s, Length["device"], "device")
                        [] r.what = "configuration" ->
                             IF r.n # 0 THEN s
                             ELSE usbControlRead(s, Length["configuration"], "configuration")
                        [] r.what = "string" ->
                             IF r.n >= hidStringDescriptorCount THEN s
                             ELSE usbControlRead(s, Length["string"], "string")
                        [] OTHER -> Hid!usbCallbackClassDescriptorHandler(s)
<1>4. t = [answer EXCEPT !.left = IF answer.ct = "NONE" THEN @ ELSE Min2(@, r.len)]
  BY HidSame DEF Hid!GetDescriptor, Hid!Min2, Min2
<1>5. \/ answer = s
      \/ \E src \in Known : r.what = src /\ answer = usbControlRead(s, Length[src], src)
  BY HidSame DEF Hid!usbCallbackClassDescriptorHandler
<1>. HIDE DEF answer
<1>6. CASE answer = s
  BY <1>3, <1>4, <1>6
<1>7. ASSUME NEW src \in Known, r.what = src, answer = usbControlRead(s, Length[src], src)
      PROVE  Handled(s, t)
  <2>1. Length[src] \in Nat /\ src \in Sources
    BY HidLengths
  <2>2. answer.ct = "READ" /\ answer.left = Length[src]
    BY <1>7, <2>1, ReadFacts
  <2>3. t = [answer EXCEPT !.left = Min2(Length[src], r.len)]
    BY <1>4, <2>2
  <2>. QED BY <1>2, <1>7, <2>3
<1>. QED BY <1>5, <1>6, <1>7

LEMMA HidStandardHandled ==
  ASSUME NEW s \in Usb, s.ct = "NONE", NEW t, t = Hid!usbStandardDeviceRequestHandler(s)
  PROVE  Handled(s, t)
<1>. DEFINE r == s.setup
            States == {"GET_CONFIGURATION", "GET_INTERFACE", "GET_STATUS", "SYNCH_FRAME"}
<1>1. /\ r \in SetupPackets
      /\ r.request \in States => Wanted(r) = "response" /\ ~Addressing(r)
  BY DEF Usb, Wanted, Addressing
<1>2. /\ r.request \in {"GET_CONFIGURATION", "GET_INTERFACE"} => r.len = 1
      /\ r.request \in {"GET_STATUS", "SYNCH_FRAME"} => r.len >= 2
  BY <1>1, SetupFacts
<1>3. CASE r.request = "GET_DESCRIPTOR"
  BY <1>3, HidDescriptorHandled DEF Hid!usbStandardDeviceRequestHandler
<1>4. CASE r.request = "SET_ADDRESS"
  BY <1>4, HidSame, AddressHandled DEF Hid!usbStandardDeviceRequestHandler
<1>5. CASE r.request = "SET_CONFIGURATION"
  BY <1>5, HidSame, ConfigurationHandled DEF Hid!usbStandardDeviceRequestHandler
<1>6. CASE r.request \in {"GET_CONFIGURATION", "GET_INTERFACE"}
  <2>1. t = s \/ t = usbControlRead(s, 1, "response")
    BY <1>6, HidSame DEF Hid!usbStandardDeviceRequestHandler, Hid!GetInterface
  <2>. QED BY <1>1, <1>2, <1>6, <2>1, StateRead, Refused
<1>7. CASE r.request \in {"GET_STATUS", "SYNCH_FRAME"}
  <2>1. t = s \/ t = usbControlRead(s, 2, "response")
    BY <1>7, HidSame DEF Hid!usbStandardDeviceRequestHandler, Hid!GetStatus
  <2>. QED BY <1>1, <1>2, <1>7, <2>1, StateRead, Refused
<1>8. CASE r.request \in {"SET_FEATURE", "CLEAR_FEATURE"}
  <2>1. t = usbControlAcknowledge(s) /\ ~Addressing(r)
    BY <1>8, HidSame DEF Hid!usbStandardDeviceRequestHandler, Addressing
  <2>. QED BY <2>1, AcknowledgeFacts DEF Handled
<1>9. CASE r.request \notin States \cup {"GET_DESCRIPTOR", "SET_ADDRESS", "SET_CONFIGURATION",
                                         "SET_FEATURE", "CLEAR_FEATURE"}
  <2>1. t = s
    BY <1>9 DEF Hid!usbStandardDeviceRequestHandler
  <2>. QED BY <2>1, Refused
<1>. QED BY <1>3, <1>4, <1>5, <1>6, <1>7, <1>8, <1>9

LEMMA HidClassHandled ==
  ASSUME NEW s \in Usb, s.ct = "NONE", NEW t, t = Hid!usbCallbackSetupHandler(s)
  PROVE  Handled(s, t)
<1>. DEFINE r == s.setup
            n == Length["input"]
<1>1. /\ r \in SetupPackets /\ r.len \in Nat /\ n \in Nat
      /\ "input" \in Sources /\ "output" \in Sources
  BY HidLengths, SetupFacts DEF Usb, Sources
<1>2. /\ r.request = "GET_REPORT" => r.len >= n
      /\ r.request \in {"GET_IDLE", "GET_PROTOCOL"} => r.len = 1
  BY <1>1, HidSetupFacts
<1>3. ASSUME r.request = "GET_REPORT", t = usbControlRead(s, n, "input")
      PROVE  Handled(s, t)
  <2>1. ~Addressing(r) /\ Wanted(r) = "input"
    BY <1>3 DEF Addressing, Wanted
  <2>2. n = Min2(r.len, Length["input"])
    BY <1>1, <1>2, <1>3 DEF Min2
  <2>. QED BY <1>1, <1>3, <2>1, <2>2, ReadHandled
<1>4. ASSUME r.request = "SET_REPORT", t = usbControlWrite(s, 1, "output")
      PROVE  Handled(s, t)
  <2>1. ~Addressing(r)
    BY <1>4 DEF Addressing
  <2>2. t \in Usb /\ HandlerKept(s, t) /\ t.state = s.state /\ t.ct = "WRITE"
    <3>1. 1 \in Nat /\ "output" \in Sources
      BY <1>1
    <3>. QED BY <1>4, <3>1, WriteFacts, Zenon
  <2>. QED BY <2>1, <2>2 DEF Handled
<1>5. ASSUME r.request \in {"GET_IDLE", "GET_PROTOCOL"}, t = usbControlRead(s, 1, "response")
      PROVE  Handled(s, t)
  <2>1. ~Addressing(r) /\ Wanted(r) = "response"
    BY <1>5 DEF Addressing, Wanted
  <2>. QED BY <1>2, <1>5, <2>1, StateRead
<1>6. ASSUME r.request \in {"SET_IDLE", "SET_PROTOCOL"}, t = usbControlAcknowledge(s)
      PROVE  Handled(s, t)
  <2>1. ~Addressing(r)
    BY <1>6 DEF Addressing
  <2>. QED BY <1>6, <2>1, AcknowledgeFacts DEF Handled
<1>7. \/ t = s
      \/ r.request = "GET_REPORT" /\ t = usbControlRead(s, n, "input")
      \/ r.request = "SET_REPORT" /\ t = usbControlWrite(s, 1, "output")
      \/ r.request \in {"GET_IDLE", "GET_PROTOCOL"} /\ t = usbControlRead(s, 1, "response")
      \/ r.request \in {"SET_IDLE", "SET_PROTOCOL"} /\ t = usbControlAcknowledge(s)
  BY HidSame DEF Hid!usbCallbackSetupHandler
<1>. QED BY <1>3, <1>4, <1>5, <1>6, <1>7, Refused

LEMMA HidPolls ==
  ASSUME usb \in Usb, host \in Host, ControlInv, Hid!usbPoll
  PROVE  LibraryPolls
<1>1. CASE ~usb.vbus
  BY <1>1 DEF Hid!usbPoll, usbPoll, LibraryPolls
<1>. DEFINE s == [BusEvents(usb) EXCEPT !.ep0if = FALSE]
            u == TransferEnds(s)
<1>2. CASE usb.vbus /\ ~usb.ep0if
  BY <1>2, HidSame DEF Hid!usbPoll, LibraryPolls
<1>3. CASE usb.vbus /\ usb.ep0if
  <2>1. usb' = InPacket(Hid!OutPacket(u), "INPKT_RDY" \notin usb.cs0)
    BY <1>3, HidSame DEF Hid!usbPoll
  <2>2. CASE ~Pending
    <3>1. Hid!OutPacket(u) = OutPacket(u)
      <4>1. s.cs0 = usb.cs0 /\ s.out = usb.out /\ s \in Usb
        BY <1>3, BusEventsKeep
      <4>. HIDE DEF s
      <4>2. u.cs0 = s.cs0 \ {"SETUP_END", "SENT_STALL"} /\ u.out = s.out
        BY <4>1, EndsFacts DEF Kept
      <4>. HIDE DEF u
      <4>3. ~("OUTPKT_RDY" \in u.cs0 /\ u.out.setup)
        BY <2>2, <4>1, <4>2 DEF Pending, Flag
      <4>. QED BY <4>3, HidSame DEF Hid!OutPacket, OutPacket
    <3>2. usb' = Poll(s, "INPKT_RDY" \notin usb.cs0)
      BY <2>1, <3>1 DEF Poll
    <3>. HIDE DEF s, u
    <3>. QED BY <1>3, <2>2, <3>2 DEF LibraryPolls, s
  <2>3. CASE Pending
    <3>1. /\ s \in Usb /\ u \in Usb /\ u.ct # "WRITE" /\ "OUTPKT_RDY" \in u.cs0 /\ u.out.setup
          /\ "INPKT_RDY" \notin usb.cs0
      BY <1>3, <2>3, PendingReady
    <3>. DEFINE h == IF u.out.req.type = "standard"
                     THEN Hid!usbStandardDeviceRequestHandler(Asked(u))
                     ELSE Hid!usbCallbackSetupHandler(Asked(u))
    <3>2. usb' = InPacket(Hid!OutPacket(u), TRUE)
      BY <2>1, <3>1
    <3>. HIDE DEF s, u
    <3>3. Hid!OutPacket(u) = Hid!SetupReceived(u)
      BY <3>1 DEF Hid!OutPacket
    <3>4. Hid!SetupReceived(u) = Answer(h)
      <4>1. Asked(u).setup = u.out.req
        BY <3>1, AskedFacts
      <4>. QED BY <4>1, HidSame DEF Hid!SetupReceived, Asked
    <3>5. Handled(Asked(u), h)
      BY <3>1, AskedFacts, HidStandardHandled, HidClassHandled
    <3>. HIDE DEF h
    <3>6. SetupPoll(s, usb')
      BY <3>2, <3>3, <3>4, <3>5 DEF SetupPoll, u
    <3>. QED BY <1>3, <2>3, <3>6 DEF LibraryPolls, s
  <2>. QED BY <2>2, <2>3
<1>. QED BY <1>1, <1>2, <1>3

------------------------------------------------------------------------------
(* The devices. *)

(* The reports.  A host that knows of no device has seen none, and neither has *)
(* a host that is off.                                                         *)
ReportsOK ==
  /\ input \in [Hid!Devices -> Reports] /\ updated \in [Hid!Devices -> BOOLEAN]
  /\ fifo \in [Hid!Devices -> Seq(Reports)]
  /\ seen \in [Hid!Devices -> Reports \cup {Hid!NotSeen}]
  /\ Hid!ReportIsCurrent
  /\ ~usb.vbus \/ library = "com" => \A d \in Hid!Devices : seen[d] = Hid!NotSeen
  /\ host.phase = "off" => host.believes # "CONFIGURED"

DevicesOK == library \in {"com", "hid"} /\ ControlOK /\ BootOK /\ ReportsOK

(* A host that is off knows of no configuration. *)
LEMMA HostKnows ==
  ASSUME host \in Host, HostTransfers \/ BusDown,
         host.phase = "off" => host.believes # "CONFIGURED"
  PROVE  host'.phase = "off" => host'.believes # "CONFIGURED"
<1>1. CASE Attach \/ Suspend \/ Resume
  BY <1>1 DEF Attach, Suspend, Resume
<1>2. ASSUME NEW r \in Requests, Setup(r)
      PROVE  host'.phase # "off"
  BY <1>2 DEF Setup, Host
<1>3. CASE DataIn \/ DataOut \/ Status \/ Stalled
  BY <1>3 DEF DataIn, DataOut, Status, Stalled, Host
<1>4. CASE BusDown
  BY <1>4 DEF BusDown, Reset, Detach, Host
<1>. QED BY <1>1, <1>2, <1>3, <1>4 DEF HostTransfers

(* Only Detach unplugs the cable. *)
LEMMA CableStays ==
  ASSUME usb \in Usb, HostTransfers, usb.vbus
  PROVE  usb'.vbus
<1>1. CASE Attach \/ Suspend \/ Resume
  BY <1>1 DEF Attach, Suspend, Resume, Usb
<1>2. ASSUME NEW r \in Requests, Setup(r)
      PROVE  usb'.vbus
  BY <1>2 DEF Setup, Interrupt, Usb
<1>3. CASE DataIn \/ DataOut \/ Status \/ Stalled
  BY <1>3 DEF DataIn, DataOut, Status, Stalled, Interrupt, Usb
<1>. QED BY <1>1, <1>2, <1>3 DEF HostTransfers

(* The host is the same for both libraries. *)
LEMMA HidTransfers ==
  Hid!HostTransfers => HostTransfers
<1>1. Hid!Attach \/ Hid!Suspend \/ Hid!Resume => Attach \/ Suspend \/ Resume
  BY DEF Hid!Attach, Attach, Hid!Suspend, Suspend, Hid!Resume, Resume
<1>2. \A r \in Requests : Hid!Setup(r) => Setup(r)
  BY DEF Hid!Setup, Setup, Hid!Sensible, Sensible, Hid!Interrupt, Interrupt, Hid!Reads, Reads,
         Hid!HasData, HasData
<1>3. Hid!DataIn => DataIn
  BY DEF Hid!DataIn, DataIn, Hid!Interrupt, Interrupt
<1>4. Hid!DataOut => DataOut
  BY DEF Hid!DataOut, DataOut, Hid!Interrupt, Interrupt, Hid!Min2, Min2, Hid!NoPacket, NoPacket,
         Hid!NoRequest, NoRequest
<1>5. Hid!Status => Status
  BY DEF Hid!Status, Status, Hid!Interrupt, Interrupt, Hid!Reads, Reads, Hid!Achieved, Achieved
<1>6. Hid!Stalled => Stalled
  BY DEF Hid!Stalled, Stalled, Hid!Interrupt, Interrupt
<1>. QED BY <1>1, <1>2, <1>3, <1>4, <1>5, <1>6 DEF Hid!HostTransfers, HostTransfers

LEMMA AppendedLast ==
  ASSUME NEW q \in Seq(Reports), NEW v \in Reports, NEW t, t = Append(q, v)
  PROVE  t \in Seq(Reports) /\ t # <<>> /\ t[Len(t)] = v
OBVIOUS

LEMMA TailLast ==
  ASSUME NEW q \in Seq(Reports), q # <<>>, NEW t, t = Tail(q)
  PROVE  /\ t \in Seq(Reports) /\ Head(q) \in Reports
         /\ (IF t # <<>> THEN t[Len(t)] ELSE Head(q)) = q[Len(q)]
<1>1. t \in Seq(Reports) /\ Head(q) \in Reports /\ Head(q) = q[1] /\ Len(q) \in Nat \ {0}
      /\ Len(t) = Len(q) - 1 /\ \A i \in 1 .. Len(q) - 1 : t[i] = q[i + 1]
  OBVIOUS
<1>2. CASE t = <<>>
  <2>. DEFINE n == Len(q)
              m == Len(t)
  <2>1. Len(<<>>) = 0
    OBVIOUS
  <2>2. m = 0
    BY <1>2, <2>1, Zenon
  <2>3. n \in Nat \ {0} /\ m = n - 1
    BY <1>1
  <2>. HIDE DEF n, m
  <2>4. n = 1
    BY <2>2, <2>3
  <2>. QED BY <1>1, <1>2, <2>4 DEF n
<1>3. CASE t # <<>>
  <2>. DEFINE n == Len(q) - 1
  <2>1. Len(t) # 0
    BY <1>1, <1>3
  <2>2. n \in 1 .. n /\ n + 1 = Len(q) /\ Len(t) = n /\ \A i \in 1 .. n : t[i] = q[i + 1]
    BY <1>1, <2>1
  <2>. HIDE DEF n
  <2>3. t[n] = q[n + 1]
    BY <2>2
  <2>. QED BY <1>3, <2>2, <2>3
<1>. QED BY <1>2, <1>3

(* The newest report on its way to the host, or else the one it has seen. *)
Newest(d) == IF fifo[d] # <<>> THEN fifo[d][Len(fifo[d])] ELSE seen[d]

LEMMA Current ==
  /\ Hid!ReportIsCurrent <=>
       \A d \in Hid!Devices : ~updated[d] => Newest(d) \in {input[d], Hid!NotSeen}
  /\ Hid!ReportIsCurrent' <=>
       \A d \in Hid!Devices : ~updated'[d] => Newest(d)' \in {input'[d], Hid!NotSeen}
BY DEF Hid!ReportIsCurrent, Newest, Hid!NotSeen

(* What has been updated is reported when there is room, and then only is it *)
(* no longer to be reported.                                                 *)
LEMMA ReportServiced ==
  ASSUME DevicesOK, library' = library, Hid!usbHidService
  PROVE  ReportsOK'
<1>1. usb.vbus => usb'.vbus
  BY HidPolls, Polled DEF DevicesOK, ControlOK, Hid!usbHidService
<1>2. UNCHANGED <<host, input, seen>>
  BY DEF Hid!usbHidService
<1>3. /\ ~usb'.vbus \/ library' = "com" => \A d \in Hid!Devices : seen'[d] = Hid!NotSeen
      /\ host'.phase = "off" => host'.believes # "CONFIGURED"
  BY <1>1, <1>2 DEF DevicesOK, ReportsOK
<1>4. CASE Hid!Report
  <2>1. /\ fifo' = [d \in Hid!Devices |-> IF Hid!Due(d) THEN Append(fifo[d], input[d]) ELSE fifo[d]]
        /\ updated' = [d \in Hid!Devices |-> updated[d] /\ ~Hid!Due(d)]
    BY <1>4 DEF Hid!Report, Hid!Clears
  <2>2. updated' \in [Hid!Devices -> BOOLEAN]
    BY <2>1, Zenon
  <2>3. ASSUME NEW d \in Hid!Devices
        PROVE  fifo'[d] \in Seq(Reports)
               /\ (~updated'[d] => Newest(d)' \in {input'[d], Hid!NotSeen})
    <3>1. fifo[d] \in Seq(Reports) /\ input[d] \in Reports
      BY DEF DevicesOK, ReportsOK
    <3>2. CASE Hid!Due(d)
      <4>1. fifo'[d] = Append(fifo[d], input[d])
        BY <2>1, <3>2
      <4>2. fifo'[d] \in Seq(Reports) /\ fifo'[d] # <<>> /\ fifo'[d][Len(fifo'[d])] = input[d]
        BY <3>1, <4>1, AppendedLast
      <4>. QED BY <1>2, <4>2 DEF Newest
    <3>3. CASE ~Hid!Due(d)
      <4>1. fifo'[d] = fifo[d] /\ (~updated'[d] => ~updated[d])
        BY <2>1, <3>3
      <4>2. ~updated[d] => Newest(d) \in {input[d], Hid!NotSeen}
        BY Current DEF DevicesOK, ReportsOK
      <4>. QED BY <1>2, <3>1, <4>1, <4>2 DEF Newest
    <3>. QED BY <3>2, <3>3
  <2>4. fifo' \in [Hid!Devices -> Seq(Reports)]
    BY <2>1, <2>3
  <2>. QED BY <1>2, <1>3, <2>2, <2>3, <2>4, Current DEF DevicesOK, ReportsOK
<1>5. CASE UNCHANGED updated /\ fifo' = IF usb.vbus THEN fifo ELSE [d \in Hid!Devices |-> <<>>]
  <2>1. fifo' \in [Hid!Devices -> Seq(Reports)]
    BY <1>5 DEF DevicesOK, ReportsOK
  <2>2. ASSUME NEW d \in Hid!Devices, ~updated'[d]
        PROVE  Newest(d)' \in {input'[d], Hid!NotSeen}
    <3>1. CASE usb.vbus
      <4>1. Newest(d) \in {input[d], Hid!NotSeen}
        BY <1>5, <2>2, Current DEF DevicesOK, ReportsOK
      <4>. QED BY <1>2, <1>5, <3>1, <4>1 DEF Newest
    <3>2. CASE ~usb.vbus
      <4>1. seen[d] = Hid!NotSeen
        BY <3>2 DEF DevicesOK, ReportsOK
      <4>2. fifo'[d] = <<>>
        BY <1>5, <3>2
      <4>. QED BY <1>2, <4>1, <4>2 DEF Newest
    <3>. QED BY <3>1, <3>2
  <2>. QED BY <1>2, <1>3, <1>5, <2>1, <2>2, Current DEF DevicesOK, ReportsOK
<1>. QED BY <1>4, <1>5 DEF Hid!usbHidService

LEMMA ReportUpdated ==
  ASSUME DevicesOK, library' = library, NEW d \in Hid!Devices, Hid!UpdateReport(d)
  PROVE  ReportsOK'
<1>1. PICK v \in Reports : input' = [input EXCEPT ![d] = v]
  BY DEF Hid!UpdateReport
<1>2. updated' = [updated EXCEPT ![d] = TRUE] /\ UNCHANGED <<usb, host, fifo, seen>>
  BY DEF Hid!UpdateReport
<1>3. input' \in [Hid!Devices -> Reports] /\ updated' \in [Hid!Devices -> BOOLEAN]
  BY <1>1, <1>2 DEF DevicesOK, ReportsOK
<1>4. ASSUME NEW e \in Hid!Devices, ~updated'[e]
      PROVE  Newest(e)' \in {input'[e], Hid!NotSeen}
  <2>1. e # d /\ ~updated[e]
    BY <1>2, <1>4 DEF DevicesOK, ReportsOK
  <2>2. Newest(e) \in {input[e], Hid!NotSeen}
    BY <2>1, Current DEF DevicesOK, ReportsOK
  <2>3. input'[e] = input[e]
    BY <1>1, <2>1 DEF DevicesOK, ReportsOK
  <2>. QED BY <1>2, <2>2, <2>3 DEF Newest
<1>. QED BY <1>2, <1>3, <1>4, Current DEF DevicesOK, ReportsOK

LEMMA ReportPolled ==
  ASSUME DevicesOK, library = "hid", library' = library, NEW d \in Hid!Devices, Hid!HostPolls(d)
  PROVE  ReportsOK'
<1>1. /\ host.believes = "CONFIGURED" /\ fifo[d] # <<>>
      /\ seen' = [seen EXCEPT ![d] = Head(fifo[d])] /\ fifo' = [fifo EXCEPT ![d] = Tail(fifo[d])]
      /\ UNCHANGED <<usb, host, input, updated>>
  BY DEF Hid!HostPolls
<1>2. usb.vbus
  BY <1>1 DEF DevicesOK, ReportsOK, ControlOK, ControlInv, PhaseOK, On
<1>3. fifo[d] \in Seq(Reports)
  BY DEF DevicesOK, ReportsOK
<1>4. /\ Tail(fifo[d]) \in Seq(Reports) /\ Head(fifo[d]) \in Reports
      /\ (IF Tail(fifo[d]) # <<>> THEN Tail(fifo[d])[Len(Tail(fifo[d]))] ELSE Head(fifo[d]))
           = fifo[d][Len(fifo[d])]
  BY <1>1, <1>3, TailLast
<1>5. fifo' \in [Hid!Devices -> Seq(Reports)]
      /\ seen' \in [Hid!Devices -> Reports \cup {Hid!NotSeen}]
  BY <1>1, <1>4 DEF DevicesOK, ReportsOK
<1>6. ASSUME NEW e \in Hid!Devices
      PROVE  Newest(e)' = Newest(e)
  <2>1. CASE e = d
    <3>1. fifo'[d] = Tail(fifo[d]) /\ seen'[d] = Head(fifo[d])
      BY <1>1 DEF DevicesOK, ReportsOK
    <3>. QED BY <1>1, <1>4, <2>1, <3>1 DEF Newest
  <2>2. CASE e # d
    <3>1. fifo'[e] = fifo[e] /\ seen'[e] = seen[e]
      BY <1>1, <2>2 DEF DevicesOK, ReportsOK
    <3>. QED BY <3>1 DEF Newest
  <2>. QED BY <2>1, <2>2
<1>7. Hid!ReportIsCurrent'
  BY <1>1, <1>6, Current DEF DevicesOK, ReportsOK
<1>. QED BY <1>1, <1>2, <1>5, <1>7 DEF DevicesOK, ReportsOK

LEMMA ReportsForgotten ==
  ASSUME DevicesOK, library' = library, Hid!HidHostResets
  PROVE  ReportsOK'
<1>1. /\ seen' = [d \in Hid!Devices |-> Hid!NotSeen] /\ UNCHANGED <<input, updated>>
      /\ fifo' = IF usb'.vbus THEN [d \in Hid!Devices |-> <<>>] ELSE fifo
  BY DEF Hid!HidHostResets
<1>2. BusDown
  BY DEF Hid!HidHostResets, Hid!BusDown, BusDown, Hid!Reset, Reset, Hid!Detach, Detach
<1>3. host'.phase = "off" => host'.believes # "CONFIGURED"
  BY <1>2, HostKnows DEF DevicesOK, ReportsOK, ControlOK
<1>4. fifo' \in [Hid!Devices -> Seq(Reports)]
      /\ seen' \in [Hid!Devices -> Reports \cup {Hid!NotSeen}]
  BY <1>1 DEF DevicesOK, ReportsOK
<1>5. ASSUME NEW d \in Hid!Devices, ~updated'[d]
      PROVE  Newest(d)' \in {input'[d], Hid!NotSeen}
  <2>1. seen'[d] = Hid!NotSeen /\ (fifo'[d] = <<>> \/ fifo'[d] = fifo[d])
    BY <1>1
  <2>2. Newest(d) \in {input[d], Hid!NotSeen}
    BY <1>1, <1>5, Current DEF DevicesOK, ReportsOK
  <2>. QED BY <1>1, <2>1, <2>2 DEF Newest
<1>6. Hid!ReportIsCurrent'
  BY <1>5, Current
<1>. QED BY <1>1, <1>3, <1>4, <1>6 DEF DevicesOK, ReportsOK

(* A step of the serial port, or of the host's, that concerns no report. *)
LEMMA ReportsStay ==
  ASSUME DevicesOK, library' = library, UNCHANGED hidVars \/ UNCHANGED <<input, updated, fifo, seen>>,
         host'.phase = "off" => host'.believes # "CONFIGURED",
         library = "com" \/ (usb.vbus => usb'.vbus)
  PROVE  ReportsOK'
<1>1. UNCHANGED <<input, updated, fifo, seen>>
  BY DEF hidVars
<1>2. \A d \in Hid!Devices : Newest(d)' = Newest(d)
  BY <1>1 DEF Newest
<1>3. Hid!ReportIsCurrent'
  BY <1>1, <1>2, Current DEF DevicesOK, ReportsOK
<1>. QED BY <1>1, <1>3 DEF DevicesOK, ReportsOK

LEMMA ReportsStep ==
  ASSUME DevicesOK, [DevicesNext]_devicesVars
  PROVE  ReportsOK'
<1>1. library' = library
  BY DEF DevicesNext, devicesVars
<1>2. CASE UNCHANGED <<usb, host, input, updated, fifo, seen>>
  BY <1>1, <1>2, ReportsStay DEF DevicesOK, ReportsOK
<1>3. CASE library = "com" /\ Next /\ UNCHANGED hidVars
  <2>1. host'.phase = "off" => host'.believes # "CONFIGURED"
    <3>1. CASE HostGoesOn \/ HostResets
      BY <3>1, HostKnows DEF HostGoesOn, HostResets, DevicesOK, ReportsOK, ControlOK
    <3>2. CASE UNCHANGED host
      BY <3>2 DEF DevicesOK, ReportsOK
    <3>3. ASSUME Service \/ TxSend \/ RxReceive \/ ChangeSignals \/ HostReads \/ HostWrites
                  \/ HostIsTold \/ Tick
          PROVE  UNCHANGED host
      BY <3>3 DEF Service, TxSend, RxReceive, ChangeSignals, HostReads, HostWrites, HostIsTold, Tick
    <3>. QED BY <1>3, <3>1, <3>2, <3>3 DEF Next
  <2>. QED BY <1>1, <1>3, <2>1, ReportsStay
<1>4. CASE library = "hid" /\ Hid!Next
  <2>1. CASE Hid!usbHidService
    BY <1>1, <2>1, ReportServiced
  <2>2. CASE Hid!HidHostGoesOn
    <3>1. HostTransfers /\ UNCHANGED <<input, updated, fifo, seen>>
      BY <2>2, HidTransfers DEF Hid!HidHostGoesOn, Hid!hidVars
    <3>2. host'.phase = "off" => host'.believes # "CONFIGURED"
      BY <3>1, HostKnows DEF DevicesOK, ReportsOK, ControlOK
    <3>3. usb.vbus => usb'.vbus
      BY <3>1, CableStays DEF DevicesOK, ControlOK
    <3>. QED BY <1>1, <3>1, <3>2, <3>3, ReportsStay
  <2>3. CASE Hid!HidHostResets
    BY <1>1, <2>3, ReportsForgotten
  <2>4. CASE Hid!Millisecond
    BY <1>2, <2>4 DEF Hid!Millisecond
  <2>5. ASSUME NEW d \in Hid!Devices, Hid!UpdateReport(d) \/ Hid!HostPolls(d)
        PROVE  ReportsOK'
    BY <1>1, <1>4, <2>5, ReportUpdated, ReportPolled
  <2>. QED BY <1>4, <2>1, <2>2, <2>3, <2>4, <2>5 DEF Hid!Next
<1>. QED BY <1>2, <1>3, <1>4 DEF DevicesNext, devicesVars, vars, hidVars

LEMMA DevicesControl ==
  ASSUME DevicesOK, [DevicesNext]_devicesVars
  PROVE  ControlOK'
<1>1. CASE UNCHANGED usbVars
  BY <1>1, ControlKept DEF DevicesOK
<1>2. CASE Next
  BY <1>2, ControlStep DEF DevicesOK
<1>3. CASE Hid!usbHidService
  BY <1>3, HidPolls, Polled DEF Hid!usbHidService, DevicesOK, ControlOK
<1>4. CASE Hid!HidHostGoesOn
  BY <1>4, HidTransfers, HostKeeps DEF Hid!HidHostGoesOn, DevicesOK
<1>5. CASE Hid!HidHostResets
  <2>1. BusDown
    BY <1>5 DEF Hid!HidHostResets, Hid!BusDown, BusDown, Hid!Reset, Reset, Hid!Detach, Detach
  <2>. QED BY <2>1, HostKeeps DEF DevicesOK
<1>6. ASSUME Hid!Millisecond \/ \E d \in Hid!Devices : Hid!UpdateReport(d) \/ Hid!HostPolls(d)
      PROVE  UNCHANGED usbVars
  BY <1>6 DEF Hid!Millisecond, Hid!UpdateReport, Hid!HostPolls, usbVars
<1>7. ASSUME UNCHANGED devicesVars
      PROVE  UNCHANGED usbVars
  BY <1>7 DEF devicesVars, vars, usbVars
<1>. QED BY <1>1, <1>2, <1>3, <1>4, <1>5, <1>6, <1>7 DEF DevicesNext, Hid!Next

LEMMA DevicesBoot ==
  ASSUME DevicesOK, [DevicesNext]_devicesVars
  PROVE  BootOK'
<1>1. CASE Next
  BY <1>1, BootStep DEF DevicesOK
<1>2. CASE UNCHANGED bootVars
  BY <1>2 DEF bootVars, BootOK, DevicesOK
<1>. QED BY <1>1, <1>2 DEF DevicesNext, comVars, devicesVars, vars

THEOREM DevicesInvariant == DevicesSpec => []DevicesOK
<1>1. DevicesInit => DevicesOK
  <2>1. SUFFICES ASSUME DevicesInit PROVE DevicesOK
    OBVIOUS
  <2>2. ControlOK /\ BootOK
    BY <2>1, ControlInit, BootInit DEF DevicesInit
  <2>3. /\ input = [d \in Hid!Devices |-> CHOOSE v \in Reports : TRUE]
        /\ updated = [d \in Hid!Devices |-> FALSE] /\ fifo = [d \in Hid!Devices |-> <<>>]
        /\ seen = [d \in Hid!Devices |-> Hid!NotSeen] /\ library \in {"com", "hid"}
    BY <2>1 DEF DevicesInit, Hid!Init
  <2>4. (CHOOSE v \in Reports : TRUE) \in Reports
    BY HidAssumption DEF HidAssumption
  <2>5. updated \in [Hid!Devices -> BOOLEAN]
    BY <2>3
  <2>6. Hid!ReportIsCurrent
    BY <2>3, Current DEF Newest
  <2>7. host.believes # "CONFIGURED"
    BY <2>1 DEF DevicesInit, Init, UsbInit
  <2>. QED BY <2>2, <2>3, <2>4, <2>5, <2>6, <2>7 DEF DevicesOK, ReportsOK
<1>2. DevicesOK /\ [DevicesNext]_devicesVars => DevicesOK'
  <2>1. [DevicesNext]_devicesVars => library' = library
    BY DEF DevicesNext, devicesVars
  <2>. QED BY <2>1, DevicesControl, DevicesBoot, ReportsStep DEF DevicesOK
<1>. QED BY <1>1, <1>2, PTL DEF DevicesSpec

(* Whatever the library: host and device agree on the state of the device, *)
(* the newest report is the present state, and the bootloader starts in    *)
(* time (usb.c, usb_hid.c, usb_cdc_acm.c).                                 *)
THEOREM DeviceReported == DevicesSpec => []DeviceIsAsReported
<1>1. DevicesOK => DeviceIsAsReported
  BY Sizes DEF DevicesOK, ControlOK, ControlInv, BootOK, BootloaderInTime, ReportsOK,
               DeviceIsAsReported
<1>. QED BY <1>1, DevicesInvariant, PTL

(* Whatever the library: a SETUP packet is taken as a request and not as    *)
(* data, and the host reads the bytes it asked for, from the first to the   *)
(* last (usb.c).                                                            *)
THEOREM TransfersWhole == DevicesSpec => ControlTransfersAreWhole
<1>1. DevicesOK =>
        ((Service \/ Hid!usbHidService) /\ TakesPacket(usb) /\ usb.out.setup
           => usb'.setup = usb.out.req)
  BY ComPolls, HidPolls, Polled DEF DevicesOK, ControlOK, Service, Hid!usbHidService
<1>2. DevicesOK =>
        /\ DataIn => usb.in.src = Wanted(host.req) /\ usb.in.at = host.got
        /\ (Status /\ Reads(host.req)) =>
             host.got = Min2(host.req.len, Length[Wanted(host.req)])
  <2>1. ASSUME ControlOK, DataIn
        PROVE  usb.in.src = Wanted(host.req) /\ usb.in.at = host.got
    <3>1. host.phase = "in" /\ Flag("INPKT_RDY")
      BY <2>1 DEF DataIn, Flag
    <3>2. ~Pending
      BY <2>1, <3>1 DEF ControlOK, ControlInv, PendingOK
    <3>. QED BY <2>1, <3>1, <3>2 DEF ControlOK, ControlInv, InOK, Armed
  <2>2. ASSUME ControlOK, Status, Reads(host.req)
        PROVE  host.got = Min2(host.req.len, Length[Wanted(host.req)])
    BY <2>2 DEF Status, ControlOK, ControlInv, DoneOK, Total
  <2>. QED BY <2>1, <2>2 DEF DevicesOK
<1>. QED BY <1>1, <1>2, DevicesInvariant, PTL
       DEF DevicesSpec, ControlTransfersAreWhole, SetupIsNotData, ReadsAreExact

=============================================================================
