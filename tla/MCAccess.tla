------------------------------ MODULE MCAccess ------------------------------
(***************************************************************************)
(* A small instance of Access: two accounts, one browser, two requests at  *)
(* once, two machines.                                                     *)
(***************************************************************************)
EXTENDS Access, TLC

CONSTANTS ann, bob, h1, h2, m1, m2, s1

MCUser == {ann, bob}
MCSid == {s1}
MCHandler == {h1, h2}
MCMachine == {m1, m2}
MCSymmetry ==
    Permutations(MCUser) \cup Permutations(MCHandler) \cup Permutations(MCMachine)
=============================================================================
