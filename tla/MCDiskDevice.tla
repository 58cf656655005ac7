---------------------------- MODULE MCDiskDevice ----------------------------
(* Three requests on one unit, so that a medium can change while two are    *)
(* registered, and that one can be held, registered or aborted while the    *)
(* others are served; one on a second unit.  Every command has a sender.    *)
EXTENDS DiskDevice

CONSTANTS a1, a2, a3, b1, unitA, unitB

MCRequests == {a1, a2, a3, b1}
MCUnits    == {unitA, unitB}
MCUnitOf   == [r \in MCRequests |-> IF r = b1 THEN unitB ELSE unitA]
MCUses     == [r \in MCRequests |->
                 CASE r = a1 -> {"MEDIA", "STATUS", "FLUSH"}
                   [] r = a2 -> {"ADDCHANGEINT", "STOP"}
                   [] r = a3 -> {"ADDCHANGEINT", "START"}
                   [] r = b1 -> {"DATA", "REMOVE", "STATUS"}]
=============================================================================
