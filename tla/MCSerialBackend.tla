-------------------------- MODULE MCSerialBackend ---------------------------
(* A response of three bytes read in pieces of at most two, over either     *)
(* serial device.                                                           *)
EXTENDS SerialBackend
=============================================================================
