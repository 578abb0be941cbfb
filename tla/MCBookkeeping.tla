---------------------------- MODULE MCBookkeeping ----------------------------
(***************************************************************************)
(* Values for TLC.                                                         *)
(***************************************************************************)
EXTENDS Bookkeeping, TLC

CONSTANTS p1, p2

Goroutines == Permutations({p1, p2})
=============================================================================
