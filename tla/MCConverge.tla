----------------------------- MODULE MCConverge -----------------------------
(***************************************************************************)
(* A small instance of Converge: one changed file, one boot setting, the   *)
(* rules of the settings page, and a body that replaces a scope.           *)
(***************************************************************************)
EXTENDS Converge

MCPatches == {
    [scope |-> "blade",  set |-> [boot |-> 2, restart |-> 1], unset |-> {}],
    [scope |-> "global", set |-> [allow |-> 1], unset |-> {"restart"}]}
MCBodies == {
    [scope |-> "group", set |-> [file |-> 2]],
    [scope |-> "group", set |-> <<>>]}
MCOrders == {"reimage"}
MCWindows == {<<1, 0>>}
=============================================================================
