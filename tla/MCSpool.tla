------------------------------ MODULE MCSpool -------------------------------
(***************************************************************************)
(* A small instance of Spool: three things happen, the buffer holds two,   *)
(* one request or write fails, the service ends at most once.              *)
(***************************************************************************)
EXTENDS Spool
=============================================================================
