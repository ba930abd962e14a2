---------------------------- MODULE Descriptors ----------------------------
(***************************************************************************)
(* The descriptors by which the two USB devices present themselves         *)
(* (usb_cdc_acm.c, usb_hid.c), beside what the code does with the          *)
(* endpoints and the structs it sends.  Of a descriptor are left the       *)
(* fields that another part of the code must agree with.                   *)
(***************************************************************************)
EXTENDS Integers, Sequences, SequencesExt

Interface(number, endpoints, string) ==
  [is |-> "interface", number |-> number, endpoints |-> endpoints, string |-> string]
Endpoint(direction, number, size) ==
  [is |-> "endpoint", address |-> <<direction, number>>, size |-> size]
Functional(interfaces) == [is |-> "functional", interfaces |-> interfaces]
HidDescriptor(report) == [is |-> "hid", report |-> report]

\* usb_cdc_acm.c
ComDevice == [strings |-> <<1, 2, 3>>, usbStringDescriptorCount |-> 4]
ComConfiguration ==
  [bNumInterfaces |-> 2,
   parts |-> <<Interface(0, 1, 0), Functional({0, 1}), Endpoint("IN", 1, 10),
               Interface(1, 2, 0), Endpoint("OUT", 4, 64), Endpoint("IN", 4, 64)>>]

\* usb_hid.c
HidDevice == [strings |-> <<1, 2, 3>>, usbStringDescriptorCount |-> 7]
HidConfiguration ==
  [bNumInterfaces |-> 3,
   parts |-> <<Interface(0, 1, 4), HidDescriptor("keyboard"), Endpoint("IN", 1, 8),
               Interface(1, 1, 5), HidDescriptor("mouse"), Endpoint("IN", 2, 4),
               Interface(2, 1, 6), HidDescriptor("joystick"), Endpoint("IN", 3, 20)>>]

\* The main items of a report descriptor, with the global items in force.
Item(kind, count, size, min, max) ==
  [kind |-> kind, count |-> count, size |-> size, min |-> min, max |-> max]

keyboardReportDescriptor ==
  <<Item("input", 8, 1, 0, 1), Item("input", 1, 8, 0, 1), Item("output", 8, 1, 0, 1),
    Item("input", 6, 8, 0, 231)>>

mouseReportDescriptor == <<Item("input", 8, 1, 0, 1), Item("input", 3, 8, -127, 127)>>

\* Mutant: the axes have the bytes of the mouse.
joystickReportDescriptorBytes ==
  <<Item("input", 8, 8, -127, 127), Item("input", 32, 1, 0, 1)>>

joystickReportDescriptor ==
  <<Item("input", 8, 16, -32767, 32767), Item("input", 32, 1, 0, 1)>>

\* The structs of usb_hid.h: members of the same type, their bytes and sign.
Members(n, bytes, signed) == [n |-> n, bytes |-> bytes, signed |-> signed]
HID_KEYBOARD_IN_REPORT == <<Members(1, 1, FALSE), Members(1, 1, FALSE), Members(6, 1, FALSE)>>
HID_KEYBOARD_OUT_REPORT == <<Members(1, 1, FALSE)>>
HID_MOUSE_IN_REPORT == <<Members(1, 1, FALSE), Members(3, 1, TRUE)>>
HID_JOYSTICK_IN_REPORT == <<Members(8, 2, TRUE), Members(1, 4, FALSE)>>

\* usbCallbackInitEndpoints
ComEndpoints == {<<<<"IN", 1>>, 10>>, <<<<"IN", 4>>, 64>>, <<<<"OUT", 4>>, 64>>}
HidEndpoints == {<<<<"IN", 1>>, 8>>, <<<<"IN", 2>>, 4>>, <<<<"IN", 3>>, 20>>}

\* The FIFO memory of endpoints 1 to 5 of the CC2511, for two packets each way.
FifoMemory == <<32, 64, 128, 256, 512>>

-----------------------------------------------------------------------------
PartsOf(config, kind) == SelectSeq(config.parts, LAMBDA p : p.is = kind)
SizeOf(members) == FoldLeft(LAMBDA sum, m : sum + m.n * m.bytes, 0, members)

\* The interfaces are numbered in their order, each followed by as many
\* endpoints as it announces; every endpoint is set up with the size it
\* announces and has memory for two packets; every string exists.
DeviceAgrees(device, config, initialised) ==
  LET parts == config.parts
      interfaces == PartsOf(config, "interface")
      endpoints == PartsOf(config, "endpoint")
      next(i) == CHOOSE j \in i + 1..Len(parts) + 1 :
                   /\ j = Len(parts) + 1 \/ parts[j].is = "interface"
                   /\ \A k \in i + 1..j - 1 : parts[k].is # "interface"
  IN  /\ Len(interfaces) = config.bNumInterfaces
      /\ \A i \in DOMAIN interfaces : interfaces[i].number = i - 1
      /\ \A i \in DOMAIN parts : parts[i].is = "interface" =>
           Len(SelectSeq(SubSeq(parts, i, next(i) - 1), LAMBDA p : p.is = "endpoint"))
             = parts[i].endpoints
      /\ {<<endpoints[i].address, endpoints[i].size>> : i \in DOMAIN endpoints} = initialised
      /\ \A i, j \in DOMAIN endpoints : endpoints[i].address = endpoints[j].address => i = j
      /\ \A n \in 1..5 :
           2 * FoldLeft(LAMBDA sum, e : sum + (IF e.address[2] = n THEN e.size ELSE 0), 0, endpoints)
             <= FifoMemory[n]
      /\ \A i \in DOMAIN device.strings : device.strings[i] < device.usbStringDescriptorCount
      /\ \A i \in DOMAIN interfaces : interfaces[i].string < device.usbStringDescriptorCount

\* A report has the items of its struct, member by member, and fills the
\* packet of its endpoint.
ReportAgrees(items, struct, kind) ==
  LET ours == SelectSeq(items, LAMBDA i : i.kind = kind)
  IN  /\ Len(ours) = Len(struct)
      /\ \A i \in DOMAIN ours :
           /\ ours[i].count * ours[i].size = 8 * struct[i].n * struct[i].bytes
           /\ ours[i].size >= 8 => ours[i].size = 8 * struct[i].bytes
           /\ struct[i].signed <=> ours[i].min < 0
           /\ ours[i].max < 2^(ours[i].size - (IF struct[i].signed THEN 1 ELSE 0))

\* What the host reads of the two devices is what the code does.
DescriptorsAgree ==
  /\ DeviceAgrees(ComDevice, ComConfiguration, ComEndpoints)
  /\ DeviceAgrees(HidDevice, HidConfiguration, HidEndpoints)
  /\ ReportAgrees(keyboardReportDescriptor, HID_KEYBOARD_IN_REPORT, "input")
  /\ ReportAgrees(keyboardReportDescriptor, HID_KEYBOARD_OUT_REPORT, "output")
  /\ ReportAgrees(mouseReportDescriptor, HID_MOUSE_IN_REPORT, "input")
  /\ ReportAgrees(joystickReportDescriptor, HID_JOYSTICK_IN_REPORT, "input")
  /\ \A e \in {<<HID_KEYBOARD_IN_REPORT, 1>>, <<HID_MOUSE_IN_REPORT, 2>>, <<HID_JOYSTICK_IN_REPORT, 3>>} :
       <<<<"IN", e[2]>>, SizeOf(e[1])>> \in HidEndpoints
=============================================================================
