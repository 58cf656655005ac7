--------------------------- MODULE MCSerialDevice ---------------------------
(* A read and a write pending together, and a ring of four slots that five  *)
(* bytes overflow and wrap.                                                 *)
EXTENDS SerialDevice

\* The former owner of the port left its receive interrupt enabled.
MCEnables == {<<1, 0>>}
=============================================================================
