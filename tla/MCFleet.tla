------------------------------ MODULE MCFleet -------------------------------
(***************************************************************************)
(* Small instances of Fleet: one blade, one slot, one image.  Blades meet  *)
(* only over slots (module Centre), so one is enough to see every order of *)
(* people, link, site, agent and installer.                                *)
(***************************************************************************)
EXTENDS Fleet

CONSTANTS b1, s1, i1
MCBlade == {b1}
MCSlot == {s1}
MCImage == {i1}
=============================================================================
