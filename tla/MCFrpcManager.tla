--------------------------- MODULE MCFrpcManager ---------------------------
(***************************************************************************)
(* Small instances of FrpcManager for TLC.                                 *)
(***************************************************************************)
EXTENDS FrpcManager, TLC

CONSTANTS c1, c2

Symmetry == Permutations({c1, c2})
TwoCallers == {c1, c2}
=============================================================================
