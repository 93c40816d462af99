----------------------------- MODULE MCIoThread -----------------------------
(* IoThread with two clients, of which the first sends two packets.        *)
EXTENDS IoThread

ClientPackets == <<2, 1>>
============================================================================
