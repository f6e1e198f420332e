--------------------------- MODULE MCStartupLock ---------------------------
(* Instances of StartupLock for TLC.                                        *)
EXTENDS StartupLock, TLC

CONSTANTS p, q, r, NULL

Symmetry == Permutations({p, q, r})

=============================================================================
