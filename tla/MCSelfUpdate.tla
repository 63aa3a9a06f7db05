---------------------------- MODULE MCSelfUpdate ----------------------------
(***************************************************************************)
(* Small instances of SelfUpdate for TLC.                                  *)
(***************************************************************************)
EXTENDS SelfUpdate

CONSTANTS u1, u2

TwoUpdates == {u1, u2}
=============================================================================
