----------------------------- MODULE MCHeartbeat -----------------------------
(* Heartbeats on a network that is as slow as PunctualAssumption allows.   *)
EXTENDS Heartbeat
=============================================================================
