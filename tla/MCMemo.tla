------------------------------- MODULE MCMemo -------------------------------
(* An instance of Memo for TLC.                                             *)
EXTENDS Memo, TLC

CONSTANTS e1, e2, e3, NULL, EXC

Symmetry == Permutations({e1, e2, e3})

=============================================================================
