-------------------------- MODULE PresenceQueueMC --------------------------
(* PresenceQueue for TLC: messages are model values.  One of two may be        *)
(* answered badly, so that they are not symmetric.                             *)
EXTENDS PresenceQueue
=============================================================================
