---------------------------- MODULE MCDosDriver -----------------------------
(* Two slots for a unit to move between, a cache smaller than what two     *)
(* requests fetch, and a line that keeps a reply back.                     *)
EXTENDS DosDriver
=============================================================================
