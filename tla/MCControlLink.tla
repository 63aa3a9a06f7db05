--------------------------- MODULE MCControlLink ---------------------------
(***************************************************************************)
(* Small instances of ControlLink for TLC.                                 *)
(***************************************************************************)
EXTENDS ControlLink, TLC

CONSTANTS c1, c2

TwoCallers == {c1, c2}

\* Which of the callers does what is of no account.
Symmetry == Permutations(TwoCallers)
=============================================================================
