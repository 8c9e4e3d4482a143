----------------------------- MODULE MCUsbLink ------------------------------
(* The link with the senders and the bounds its configurations give it.    *)
EXTENDS UsbLink
=============================================================================
