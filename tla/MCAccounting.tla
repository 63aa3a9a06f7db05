---------------------------- MODULE MCAccounting ----------------------------
(***************************************************************************)
(* Small instances of Accounting for TLC.                                  *)
(***************************************************************************)
EXTENDS Accounting

\* The last sample falls on the day after the others.
LastSampleNextDay == [i \in Samples |-> IF i = MaxSamples THEN 2 ELSE 1]
=============================================================================
