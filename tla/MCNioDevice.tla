---------------------------- MODULE MCNioDevice ----------------------------
(* Two clients and an unload tool: enough for a request to be queued behind *)
(* one in progress, and for two expunges to overlap.                        *)
EXTENDS NioDevice, TLC

CONSTANTS c1, c2

MCClients == {c1, c2}
MCSymmetry == Permutations(MCClients)
=============================================================================
