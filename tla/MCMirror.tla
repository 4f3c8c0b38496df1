------------------------------ MODULE MCMirror ------------------------------
(***************************************************************************)
(* A small instance of Mirror: an image of two pieces that is replaced     *)
(* once, by one as large.                                                  *)
(***************************************************************************)
EXTENDS Mirror

SameSize == <<2, 2>>
=============================================================================
