---------------------------- MODULE MCWebSessions ----------------------------
(***************************************************************************)
(* Small instances of WebSessions for TLC.                                 *)
(***************************************************************************)
EXTENDS WebSessions

CONSTANTS b1, b2

TwoBrowsers == {b1, b2}
==============================================================================
