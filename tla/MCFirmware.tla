----------------------------- MODULE MCFirmware ---------------------------
(* A small instance of Firmware for TLC.                                   *)
EXTENDS Firmware
=============================================================================
