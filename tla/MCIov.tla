------------------------------- MODULE MCIov -------------------------------
(***************************************************************************)
(* Instances of Iov for TLC.                                               *)
(***************************************************************************)
EXTENDS Iov
=============================================================================
