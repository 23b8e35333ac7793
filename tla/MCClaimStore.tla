---------------------------- MODULE MCClaimStore ----------------------------
(***************************************************************************)
(* Instances of ClaimStore for TLC.                                         *)
(***************************************************************************)
EXTENDS ClaimStore, TLC

\* The processes are interchangeable.
Symmetry == Permutations(Processes)
=============================================================================
