------------------------------ MODULE MCUdpRelay ------------------------------
(* The relay, with datagrams that are empty, fit into a piece, do not fit  *)
(* into the connection, and do not fit into the buffers.                   *)
EXTENDS UdpRelay
=============================================================================
