--------------------------- MODULE MCAddressPlan ----------------------------
(***************************************************************************)
(* Small instances of AddressPlan: sizes 1 and 2 for 2 to 20, a plan with  *)
(* a step as large as the largest size and one with a smaller step, two    *)
(* requests at a time.                                                     *)
(***************************************************************************)
EXTENDS AddressPlan, TLC

CONSTANTS s1, s2, r1, r2, b1, b2, q1, q2
MCSite == {s1, s2}
MCRack == {r1, r2}
MCBlade == {b1, b2}
MCRequest == {q1, q2}
Wide == [base |-> 1, step |-> 2]
Narrow == [base |-> 3, step |-> 1]
MCPlan == {Wide, Narrow}

Alike == Permutations(MCRack) \cup Permutations(MCBlade) \cup Permutations(MCRequest) \cup Permutations(MCSite)

\* No action reads mac but to write it: states that differ in MACs only are one.
NoMAC == <<site, rack, pos,
           [q \in MCRequest |-> IF req[q].do = "place" THEN <<req[q].blade, req[q].to>> ELSE req[q]]>>
=============================================================================
