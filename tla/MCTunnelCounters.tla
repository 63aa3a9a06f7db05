-------------------------- MODULE MCTunnelCounters --------------------------
(***************************************************************************)
(* Small instances of TunnelCounters for TLC.                              *)
(***************************************************************************)
EXTENDS TunnelCounters
=============================================================================
