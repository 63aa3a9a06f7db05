----------------------------- MODULE MCMappings -----------------------------
(***************************************************************************)
(* Small instances of Mappings for TLC.                                    *)
(***************************************************************************)
EXTENDS Mappings, TLC

CONSTANTS e1, e2, n1

TwoEditors == {e1, e2}
OneNode == {n1}
Symmetric == Permutations({e1, e2})
=============================================================================
