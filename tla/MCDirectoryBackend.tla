------------------------- MODULE MCDirectoryBackend -------------------------
(* Five challenges and three packets: a packet, a failure, a recovery that  *)
(* fails, one that succeeds, a restart of the peer and a later packet.      *)
EXTENDS DirectoryBackend
=============================================================================
