----------------------------- MODULE MCMessages -----------------------------
(***************************************************************************)
(* Arguments for TLC: an ordinary byte, and the start string itself, which *)
(* data may contain.                                                       *)
(***************************************************************************)
EXTENDS Messages

MCArguments == {<<2>>, <<Start1, Start2>>}
=============================================================================
