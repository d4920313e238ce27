----------------------------- MODULE MCUdpTable -----------------------------
(***************************************************************************)
(* Names of the addresses in the model-checking runs of UdpTable.          *)
(***************************************************************************)
EXTENDS UdpTable

CONSTANTS a1, a2
=============================================================================
