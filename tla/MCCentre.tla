------------------------------ MODULE MCCentre ------------------------------
(***************************************************************************)
(* Small instances of Centre.  One blade goes through everything the       *)
(* module allows; the second, its neighbour, only competes with it for the *)
(* slot there is.  The rows of two blades meet in nothing else.            *)
(***************************************************************************)
EXTENDS Centre

CONSTANTS b1, b2, s1, i1
MCBlade == {b1, b2}
MCSlot == {s1}
MCServed == {s1}
MCImage == {i1}

\* hBladeUpdate one column at a time: two columns at once are two calls.
Updates(b) ==
    \/ \E s \in Slot \cup {None} : hBladeUpdate(b, s, row[b].image, row[b].state)
    \/ \E i \in Image \cup {None} : hBladeUpdate(b, row[b].slot, i, row[b].state)
    \/ \E st \in State : hBladeUpdate(b, row[b].slot, row[b].image, st)

Placed(b) ==
    \/ \E s \in Slot : assign(b, s)
    \/ unassign(b)
    \/ Updates(b)
    \/ \E i \in Image \cup {None} : hUIBladeImage(b, i)
    \/ resetBlade(b)
    \/ forgetBlade(b)

Neighbour(b) ==
    \/ hEnroll(b)
    \/ \E s \in Slot : assign(b, s)
    \/ unassign(b)
    \/ forgetBlade(b)

MCNext == Placed(b1) \/ Orders(b1) \/ requestProbe(b1) \/ Loops(b1) \/ Wire(b1) \/ Neighbour(b2) \/ hDHCPSync

\* Queues of one command: two kinds in one queue never meet in a guard.
FewCommands == \A b \in Blade : Cardinality(cmds[b]) <= 1

MCSpec == Init /\ [][MCNext]_cvars
=============================================================================
