---------------------------- MODULE MCNodeSessions ----------------------------
(***************************************************************************)
(* Small instances of NodeSessions for TLC.                                *)
(***************************************************************************)
EXTENDS NodeSessions

CONSTANTS h1, h2

TwoHandlers == {h1, h2}
===============================================================================
