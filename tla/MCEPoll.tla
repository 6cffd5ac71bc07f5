------------------------------ MODULE MCEPoll ------------------------------
(***************************************************************************)
(* Instances of EPoll for TLC.                                             *)
(***************************************************************************)
EXTENDS EPoll, TLC

Symmetry == Permutations(FDs)
=============================================================================
