--------------------------- MODULE MCLocalCertStore ---------------------------
(***************************************************************************)
(* Instances of the local certificate store for TLC.                       *)
(***************************************************************************)
EXTENDS LocalCertRefinement, LocalCertClaims, TLC

ProcSymmetry == Permutations(Procs)
=============================================================================
