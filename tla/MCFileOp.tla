------------------------------ MODULE MCFileOp ------------------------------
(***************************************************************************)
(* Instances of FileOp for TLC.                                            *)
(***************************************************************************)
EXTENDS FileOp
=============================================================================
