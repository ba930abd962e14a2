---------------------------- MODULE UsbTransfer ----------------------------
(***************************************************************************)
(* libraries/src/usb/usb.c: what a handler of SETUP packets may ask for.   *)
(* s is the record of the variables of usb.c (module UsbControl).          *)
(***************************************************************************)
EXTENDS Naturals, Sequences

usbControlRead(s, n, src) ==
  [s EXCEPT !.ct = "READ", !.left = n, !.src = src, !.at = 0]

usbControlWrite(s, n, dst) ==
  [s EXCEPT !.ct = "WRITE", !.left = n, !.src = dst, !.at = 0]

usbControlAcknowledge(s) == [s EXCEPT !.ct = "WRITE", !.left = 0]
=============================================================================
