-------------------------- MODULE MCStringBuilder --------------------------
(***************************************************************************)
(* Instances of StringBuilder for TLC.                                     *)
(***************************************************************************)
EXTENDS StringBuilder

CONSTANTS a, b

MCChars == {a, b}

\* Lengths 0, more than minCapacity, and max_size().
MCTexts == {<<>>, <<a, b, b>>, <<b, a, b, a>>}
=============================================================================
