--------------------------------- MODULE MCHub ---------------------------------
(***************************************************************************)
(* Small instances of Hub for TLC.                                         *)
(***************************************************************************)
EXTENDS Hub

CONSTANTS b1, b2

OneBrowser == {b1}
TwoBrowsers == {b1, b2}
================================================================================
