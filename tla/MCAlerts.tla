------------------------------ MODULE MCAlerts ------------------------------
(***************************************************************************)
(* A small instance of Alerts.  The rows of two blades never meet: one     *)
(* blade, seen by a pass that anything may happen during, is enough.       *)
(***************************************************************************)
EXTENDS Alerts

CONSTANT b1
MCBlade == {b1}
=============================================================================
