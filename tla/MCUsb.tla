------------------------------- MODULE MCUsb -------------------------------
(* UsbStorage on two sectors. *)
EXTENDS UsbStorage
=============================================================================
