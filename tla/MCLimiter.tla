------------------------------ MODULE MCLimiter ------------------------------
(***************************************************************************)
(* Small instances of Limiter for TLC.                                     *)
(***************************************************************************)
EXTENDS Limiter, TLC

CONSTANTS a1, a2

TwoAddresses == {a1, a2}
Symmetric == Permutations({a1, a2})
===============================================================================
