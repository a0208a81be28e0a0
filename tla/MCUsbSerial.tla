---------------------------- MODULE MCUsbSerial ----------------------------
(* UsbSerial with its bounds given in UsbSerial.cfg. *)
EXTENDS UsbSerial
=============================================================================
