------------------------ MODULE AddressPlan_proofs --------------------------
(***************************************************************************)
(* AddressPlan for any number of sites, BladeRunners, blades and requests, *)
(* any sizes and any plans.                                                *)
(***************************************************************************)
EXTENDS AddressPlan, WellFoundedInduction, TLAPS

-----------------------------------------------------------------------------
\* Arithmetic.

\* A set of numbers that is not empty has a least one.
LEMMA LeastExists ==
    ASSUME NEW S \in SUBSET Nat, S # {}
    PROVE  \E x \in S : \A y \in S : x <= y
<1> DEFINE Less == {p \in Nat \X Nat : p[1] < p[2]}
<1>1. IsWellFoundedOn(Less, Nat)
  BY NatLessThanWellFounded, Zenon DEF OpToRel
<1> HIDE DEF Less
<1>2. PICK x \in S : \A y \in S : ~(<<y, x>> \in Less)
  BY <1>1, WFMin, Zenon
<1>3. \A y \in S : x <= y
  <2>1. TAKE y \in S
  <2>2. ~(y < x)
    <3>1. <<y, x>> \notin Less
      BY <1>2
    <3> QED BY <3>1 DEF Less
  <2> QED BY <2>2
<1> QED BY <1>3

\* The k-th block has the number k: rackIndex undoes what nextRackOffset does.
LEMMA DivTimes ==
    ASSUME NEW k \in Nat, NEW m \in Nat \ {0}
    PROVE  (k * m) \div m = k
  OBVIOUS

\* A quotient of numbers is a number.
LEMMA DivNat ==
    ASSUME NEW x \in Nat, NEW m \in Nat \ {0}
    PROVE  x \div m \in Nat
  OBVIOUS

\* A block ends before the next one begins.
LEMMA StepApart ==
    ASSUME NEW k \in Nat, NEW j \in Nat, NEW m \in Nat, k < j
    PROVE  k * m + m <= j * m
  OBVIOUS

-----------------------------------------------------------------------------
\* The inductive invariant.

\* What a request may have decided.
Decision ==
    [do : {"nothing"}]
      \cup [do : {"create"}, rack : Rack, site : Site, size : Size, hand : BOOLEAN, off : Nat]
      \cup [do : {"move"}, rack : Rack, site : Site, off : Nat]
      \cup [do : {"resize"}, rack : Rack, size : Size]
      \cup [do : {"drop"}, rack : Rack]
      \cup [do : {"dropSite"}, site : Site]
      \cup [do : {"place"}, blade : Blade, to : Position, mac : MAC \cup {None, Own}]

OffsetsUnique ==
    \A r, q \in Rack : r # q /\ There(r) /\ There(q) /\ rack[r].site = rack[q].site
                         => rack[r].off # rack[q].off

SlotsUnique == \A b, c \in Blade : b # c /\ pos[b] # None => pos[b] # pos[c]

\* An offset that was handed out is a block of the site's plan, and stays one:
\* a plan never changes while the site is there.
Handed(s, o) == site[s] # New /\ (Open(s) => \E k \in Nat : o = Base(s) + k * Step(s))

Naming(w) == w.do = "move" \/ (w.do = "create" /\ ~w.hand)

OnPlan ==
    /\ \A r \in Rack : There(r) /\ ~rack[r].hand => Handed(rack[r].site, rack[r].off)
    /\ \A q \in Request : Naming(req[q]) => Handed(req[q].site, req[q].off)

AInv == ATypeOK /\ req \in [Request -> Decision] /\ OffsetsUnique /\ SlotsUnique /\ OnPlan

\* nextRackOffset returns a block of the plan whenever there is a free one.
LEMMA NextIsFree ==
    ASSUME ATypeOK, NEW s \in Site, Open(s), FreeBlocks(s) # {}
    PROVE  nextRackOffset(s) \in Nat /\ \E k \in Nat : nextRackOffset(s) = Base(s) + k * Step(s)
<1>1. Limit \in Nat
  BY PlanAssumption
<1>2. FreeBlocks(s) \in SUBSET Nat
  BY <1>1 DEF FreeBlocks, Blocks
<1>3. nextRackOffset(s) \in FreeBlocks(s)
  <2>1. \E x \in FreeBlocks(s) : \A y \in FreeBlocks(s) : x <= y
    BY <1>2, LeastExists
  <2> HIDE DEF FreeBlocks
  <2> QED BY <2>1, Zenon DEF nextRackOffset, Min
<1> QED BY <1>1, <1>2, <1>3 DEF FreeBlocks, Blocks

\* rackIndex counts from 1, below the base and after the end of the site too.
LEMMA IndexIsNumber ==
    ASSUME ATypeOK, NEW r \in Rack, There(r)
    PROVE  rackIndex(r) \in Nat \ {0}
<1> DEFINE p == IF Open(rack[r].site) THEN site[rack[r].site] ELSE Default
<1>1. p \in [base : Nat, step : Nat \ {0}] /\ rack[r].off \in Nat
  BY PlanAssumption DEF ATypeOK, There, Open, SiteRow, RackRow
<1>2. rackIndex(r) = IF rack[r].off < p.base THEN 1 ELSE (rack[r].off - p.base) \div p.step + 1
  BY DEF rackIndex
<1> HIDE DEF p
<1>3. CASE rack[r].off < p.base
  BY <1>2, <1>3
<1>4. CASE ~(rack[r].off < p.base)
  <2>1. rack[r].off - p.base \in Nat /\ p.step \in Nat \ {0}
    BY <1>1, <1>4
  <2>2. (rack[r].off - p.base) \div p.step \in Nat
    BY <2>1, DivNat
  <2> QED BY <1>2, <1>4, <2>2
<1> QED BY <1>3, <1>4

-----------------------------------------------------------------------------
\* Deciding: the tables stay, and what was decided fits them.

\* A decision that fits the plan keeps the invariant.
LEMMA DecideKeeps ==
    ASSUME AInv, NEW q \in Request, NEW what \in Decision,
           Naming(what) => Handed(what.site, what.off), Decide(q, what)
    PROVE  AInv'
<1>1. req' \in [Request -> Decision] /\ req' = [req EXCEPT ![q] = what]
  BY DEF AInv, Decide
<1>2. UNCHANGED <<site, rack, pos, mac>>
  BY DEF Decide
<1>3. ATypeOK' /\ OffsetsUnique' /\ SlotsUnique'
  BY <1>2 DEF AInv, ATypeOK, OffsetsUnique, SlotsUnique, There
<1>4. \A s, o : Handed(s, o)' <=> Handed(s, o)
  BY <1>2 DEF Handed, Open, Base, Step
<1>5. OnPlan'
  <2>1. \A r \in Rack : (There(r) /\ ~rack[r].hand)' => Handed(rack[r].site, rack[r].off)'
    BY <1>2, <1>4 DEF AInv, OnPlan, There
  <2>2. \A p \in Request : Naming(req'[p]) => Handed(req'[p].site, req'[p].off)
    BY <1>1 DEF AInv, OnPlan
  <2>3. \A p \in Request : Naming(req[p])' => Handed(req[p].site, req[p].off)'
    BY <1>2, <2>2 DEF Naming, Handed, Open, Base, Step
  <2> QED BY <2>1, <2>3 DEF OnPlan
<1> QED BY <1>1, <1>3, <1>5 DEF AInv

\* Every handler decides on something that fits.
LEMMA ReadsKeep ==
    ASSUME AInv, NEW q \in Request, Reads(q)
    PROVE  AInv'
<1> USE DEF Decision, Naming
<1>0. ATypeOK
  BY DEF AInv
<1>1. CASE \E r \in Rack, s \in Site, z \in Size, o \in {0} \cup ByHand : planRack(q, r, s, z, o)
  <2>1. PICK r \in Rack, s \in Site, z \in Size, o \in {0} \cup ByHand : planRack(q, r, s, z, o)
    BY <1>1
  <2> DEFINE what == [do |-> "create", rack |-> r, site |-> s, size |-> z, hand |-> o # 0,
                      off |-> IF o = 0 THEN nextRackOffset(s) ELSE o]
  <2>2. what.off \in Nat /\ (~what.hand => Handed(what.site, what.off))
    <3>1. CASE o = 0
      BY <1>0, <2>1, <3>1, NextIsFree DEF planRack, Handed, Open
    <3>2. CASE o # 0
      BY <3>2, PlanAssumption
    <3> QED BY <3>1, <3>2
  <2>3. what \in Decision
    BY <2>2
  <2>4. Decide(q, what)
    BY <2>1 DEF planRack
  <2>5. what.do = "create"
    OBVIOUS
  <2> HIDE DEF what, Decision
  <2> QED BY <2>2, <2>3, <2>4, <2>5, DecideKeeps
<1>2. CASE \E r \in Rack, s \in Site : planMove(q, r, s)
  <2>1. PICK r \in Rack, s \in Site : planMove(q, r, s)
    BY <1>2
  <2> DEFINE what == [do |-> "move", rack |-> r, site |-> s, off |-> nextRackOffset(s)]
  <2>2. what.off \in Nat /\ Handed(what.site, what.off)
    BY <1>0, <2>1, NextIsFree DEF planMove, Handed, Open
  <2>3. what \in Decision
    BY <2>2
  <2>4. Decide(q, what)
    BY <2>1 DEF planMove
  <2> HIDE DEF what, Decision
  <2> QED BY <2>2, <2>3, <2>4, DecideKeeps
<1>3. CASE \E r \in Rack, z \in Size : planResize(q, r, z)
  <2>1. PICK r \in Rack, z \in Size : planResize(q, r, z)
    BY <1>3
  <2> DEFINE what == [do |-> "resize", rack |-> r, size |-> z]
  <2>2. what \in Decision /\ ~Naming(what) /\ Decide(q, what)
    BY <2>1 DEF planResize
  <2> HIDE DEF what, Decision
  <2> QED BY <2>2, DecideKeeps
<1>4. CASE \E r \in Rack : planRackDelete(q, r)
  <2>1. PICK r \in Rack : planRackDelete(q, r)
    BY <1>4
  <2> DEFINE what == [do |-> "drop", rack |-> r]
  <2>2. what \in Decision /\ ~Naming(what) /\ Decide(q, what)
    BY <2>1 DEF planRackDelete
  <2> HIDE DEF what, Decision
  <2> QED BY <2>2, DecideKeeps
<1>5. CASE \E s \in Site : planSiteDelete(q, s)
  <2>1. PICK s \in Site : planSiteDelete(q, s)
    BY <1>5
  <2> DEFINE what == [do |-> "dropSite", site |-> s]
  <2>2. what \in Decision /\ ~Naming(what) /\ Decide(q, what)
    BY <2>1 DEF planSiteDelete
  <2> HIDE DEF what, Decision
  <2> QED BY <2>2, DecideKeeps
<1>6. CASE \E b \in Blade, r \in Rack, slot \in UNION {1..z : z \in Size}, api \in BOOLEAN :
             planPlace(q, b, r, slot, api)
  <2>1. PICK b \in Blade, r \in Rack, slot \in UNION {1..z : z \in Size}, api \in BOOLEAN :
             planPlace(q, b, r, slot, api)
    BY <1>6
  <2> DEFINE m == IF mac[b] = None \/ (mac[b] # Own /\ ~api) THEN bladeMAC(r, slot) ELSE mac[b]
             what == [do |-> "place", blade |-> b, to |-> [rack |-> r, slot |-> slot], mac |-> m]
  <2>2. slot \in Nat \ {0}
    BY PlanAssumption
  <2>3. m \in MAC \cup {None, Own}
    <3>1. There(r) /\ rack[r].site \in Site
      BY <1>0, <2>1 DEF planPlace, There, ATypeOK, RackRow
    <3>2. bladeMAC(r, slot) \in MAC
      BY <1>0, <2>2, <3>1, IndexIsNumber DEF bladeMAC, MAC
    <3>3. mac[b] \in MAC \cup {None, Own}
      BY <1>0 DEF ATypeOK
    <3> QED BY <3>2, <3>3
  <2> HIDE DEF m
  <2>4. what \in Decision /\ ~Naming(what)
    BY <2>2, <2>3 DEF Position
  <2>5. Decide(q, what)
    BY <2>1 DEF planPlace, m
  <2> HIDE DEF what, Decision
  <2> QED BY <2>4, <2>5, DecideKeeps
<1> QED BY <1>1, <1>2, <1>3, <1>4, <1>5, <1>6 DEF Reads

-----------------------------------------------------------------------------
\* Writing: what was decided meets tables that have moved on.

\* A request that is answered has nothing left to write.
LEMMA DoneKeeps ==
    ASSUME AInv, NEW q \in Request, Done(q)
    PROVE  /\ req' \in [Request -> Decision]
           /\ \A p \in Request : Naming(req'[p]) => req'[p] = req[p] /\ Naming(req[p])
  BY DEF AInv, Done, Idle, Decision, Naming

\* Every write, however late, keeps the invariant.
LEMMA WritesKeep ==
    ASSUME AInv, NEW q \in Request, Writes(q)
    PROVE  AInv'
<1> DEFINE w == req[q]
<1>0. ATypeOK /\ OffsetsUnique /\ SlotsUnique /\ OnPlan /\ w \in Decision
  BY DEF AInv
<1>a. Done(q)
  BY DEF Writes, createRack, moveRack, updateRack, deleteRack, deleteSite, place
<1>b. req' \in [Request -> Decision]
  BY <1>a, DoneKeeps
<1>c. ASSUME UNCHANGED site
      PROVE  \A p \in Request : Naming(req[p])' => Handed(req[p].site, req[p].off)'
  <2>1. \A p \in Request : Naming(req'[p]) => req'[p] = req[p] /\ Handed(req[p].site, req[p].off)
    BY <1>0, <1>a, DoneKeeps DEF OnPlan
  <2>2. \A p \in Request : Naming(req'[p]) => /\ req'[p] = req[p] /\ site' = site
                                              /\ Handed(req'[p].site, req'[p].off)
    BY <1>c, <2>1
  <2> QED BY <2>2 DEF Naming, Handed, Open, Base, Step
<1>1. CASE createRack(q)
  <2>1. w \in [do : {"create"}, rack : Rack, site : Site, size : Size, hand : BOOLEAN, off : Nat]
    BY <1>0, <1>1 DEF createRack, Decision
  <2>2. UNCHANGED <<site, pos, mac>>
    BY <1>1 DEF createRack
  <2> DEFINE new == [site |-> w.site, size |-> w.size, off |-> w.off, hand |-> w.hand]
  <2>3. \/ rack' = rack
        \/ rack' = [rack EXCEPT ![w.rack] = new] /\ OffsetFree(w.rack, w.site, w.off)
    BY <1>1 DEF createRack
  <2>4. new \in RackRow
    BY <2>1 DEF RackRow
  <2>5. ATypeOK'
    BY <1>0, <2>1, <2>2, <2>3, <2>4 DEF ATypeOK
  <2>6. OffsetsUnique'
    <3>1. CASE rack' = rack
      BY <1>0, <3>1 DEF OffsetsUnique, There
    <3>2. CASE rack' = [rack EXCEPT ![w.rack] = new] /\ OffsetFree(w.rack, w.site, w.off)
      BY <1>0, <2>1, <3>2 DEF OffsetsUnique, There, OffsetFree, Standing, ATypeOK
    <3> QED BY <2>3, <3>1, <3>2
  <2>7. SlotsUnique'
    BY <1>0, <2>2 DEF SlotsUnique
  <2>8. OnPlan'
    <3>1. ~w.hand => Handed(w.site, w.off)
      BY <1>0, <2>1 DEF OnPlan, Naming
    <3>2. \A r \in Rack : There(r)' /\ ~rack'[r].hand => Handed(rack'[r].site, rack'[r].off)
      BY <1>0, <2>1, <2>3, <3>1 DEF OnPlan, There, ATypeOK
    <3>3. \A r \in Rack : There(r)' /\ ~rack'[r].hand => Handed(rack[r].site, rack[r].off)'
      BY <2>2, <3>2 DEF Handed, Open, Base, Step
    <3> QED BY <1>c, <2>2, <3>3 DEF OnPlan
  <2> QED BY <1>b, <2>5, <2>6, <2>7, <2>8 DEF AInv
<1>2. CASE moveRack(q)
  <2>1. w \in [do : {"move"}, rack : Rack, site : Site, off : Nat]
    BY <1>0, <1>2 DEF moveRack, Decision
  <2>2. UNCHANGED <<site, pos, mac>>
    BY <1>2 DEF moveRack
  <2>3. \/ rack' = rack
        \/ /\ rack' = [rack EXCEPT ![w.rack] = [rack[w.rack] EXCEPT !.site = w.site, !.off = w.off,
                                                                   !.hand = FALSE]]
           /\ There(w.rack) /\ OffsetFree(w.rack, w.site, w.off)
    BY <1>0, <1>2, <2>1 DEF moveRack, ATypeOK
  <2> DEFINE new == [rack[w.rack] EXCEPT !.site = w.site, !.off = w.off, !.hand = FALSE]
  <2>4. There(w.rack) => /\ new \in RackRow
                         /\ new.site = w.site /\ new.off = w.off /\ new.hand = FALSE
    BY <1>0, <2>1 DEF ATypeOK, There, RackRow
  <2>x. \/ rack' = rack
        \/ rack' = [rack EXCEPT ![w.rack] = new] /\ There(w.rack) /\ OffsetFree(w.rack, w.site, w.off)
    BY <2>3
  <2> HIDE DEF new
  <2>5. ATypeOK'
    BY <1>0, <2>1, <2>2, <2>x, <2>4 DEF ATypeOK
  <2>6. OffsetsUnique'
    <3>1. CASE rack' = rack
      BY <1>0, <3>1 DEF OffsetsUnique, There
    <3>2. CASE rack' = [rack EXCEPT ![w.rack] = new] /\ There(w.rack) /\ OffsetFree(w.rack, w.site, w.off)
      BY <1>0, <2>1, <2>4, <3>2 DEF OffsetsUnique, There, OffsetFree, Standing, ATypeOK
    <3> QED BY <2>x, <3>1, <3>2
  <2>7. SlotsUnique'
    BY <1>0, <2>2 DEF SlotsUnique
  <2>8. OnPlan'
    <3>1. Handed(w.site, w.off)
      BY <1>0, <2>1 DEF OnPlan, Naming
    <3>2. \A r \in Rack : There(r)' /\ ~rack'[r].hand => Handed(rack'[r].site, rack'[r].off)
      BY <1>0, <2>1, <2>4, <2>x, <3>1 DEF OnPlan, There, ATypeOK
    <3>3. \A r \in Rack : There(r)' /\ ~rack'[r].hand => Handed(rack[r].site, rack[r].off)'
      BY <2>2, <3>2 DEF Handed, Open, Base, Step
    <3> QED BY <1>c, <2>2, <3>3 DEF OnPlan
  <2> QED BY <1>b, <2>5, <2>6, <2>7, <2>8 DEF AInv
<1>3. CASE updateRack(q)
  <2>1. w \in [do : {"resize"}, rack : Rack, size : Size]
    BY <1>0, <1>3 DEF updateRack, Decision
  <2>2. UNCHANGED <<site, pos, mac>>
    BY <1>3 DEF updateRack
  <2>3. \/ rack' = rack
        \/ There(w.rack) /\ rack' = [rack EXCEPT ![w.rack] = [rack[w.rack] EXCEPT !.size = w.size]]
    BY <1>0, <1>3, <2>1 DEF updateRack, ATypeOK
  <2>4. \A r \in Rack : /\ rack'[r] \in RackRow \cup {New, Gone}
                        /\ There(r)' => /\ There(r) /\ rack'[r].site = rack[r].site
                                        /\ rack'[r].off = rack[r].off /\ rack'[r].hand = rack[r].hand
    BY <1>0, <2>1, <2>3 DEF ATypeOK, There, RackRow
  <2>5. ATypeOK'
    BY <1>0, <2>2, <2>3, <2>4 DEF ATypeOK
  <2>6. OffsetsUnique'
    BY <1>0, <2>4 DEF OffsetsUnique
  <2>7. SlotsUnique'
    BY <1>0, <2>2 DEF SlotsUnique
  <2>8. OnPlan'
    <3>2. \A r \in Rack : There(r)' /\ ~rack'[r].hand => Handed(rack'[r].site, rack'[r].off)
      BY <1>0, <2>4 DEF OnPlan
    <3>3. \A r \in Rack : There(r)' /\ ~rack'[r].hand => Handed(rack[r].site, rack[r].off)'
      BY <2>2, <3>2 DEF Handed, Open, Base, Step
    <3> QED BY <1>c, <2>2, <3>3 DEF OnPlan
  <2> QED BY <1>b, <2>5, <2>6, <2>7, <2>8 DEF AInv
<1>4. CASE \E fk \in BOOLEAN : deleteRack(q, fk)
  <2>1. w \in [do : {"drop"}, rack : Rack]
    BY <1>0, <1>4 DEF deleteRack, Decision
  <2>2. UNCHANGED <<site, mac>> /\ rack' = [rack EXCEPT ![w.rack] = Gone]
    BY <1>4 DEF deleteRack
  <2>3. pos' \in [Blade -> Position \cup {None}] /\ \A b \in Blade : pos'[b] \in {pos[b], None}
    BY <1>0, <1>4 DEF deleteRack, ATypeOK
  <2>4. \A r \in Rack : There(r)' => There(r) /\ rack'[r] = rack[r]
    BY <1>0, <2>2 DEF There, ATypeOK
  <2>5. ATypeOK'
    BY <1>0, <2>1, <2>2, <2>3 DEF ATypeOK
  <2>6. OffsetsUnique'
    BY <1>0, <2>4 DEF OffsetsUnique
  <2>7. SlotsUnique'
    BY <1>0, <2>3 DEF SlotsUnique
  <2>8. OnPlan'
    <3>2. \A r \in Rack : There(r)' /\ ~rack'[r].hand => Handed(rack'[r].site, rack'[r].off)
      BY <1>0, <2>4 DEF OnPlan
    <3>3. \A r \in Rack : There(r)' /\ ~rack'[r].hand => Handed(rack[r].site, rack[r].off)'
      BY <2>2, <3>2 DEF Handed, Open, Base, Step
    <3> QED BY <1>c, <2>2, <3>3 DEF OnPlan
  <2> QED BY <1>b, <2>5, <2>6, <2>7, <2>8 DEF AInv
<1>5. CASE deleteSite(q)
  <2>1. w \in [do : {"dropSite"}, site : Site]
    BY <1>0, <1>5 DEF deleteSite, Decision
  <2>2. UNCHANGED <<rack, pos, mac>> /\ site' = [site EXCEPT ![w.site] = Gone]
    BY <1>5 DEF deleteSite
  <2>3. ATypeOK' /\ OffsetsUnique' /\ SlotsUnique'
    BY <1>0, <2>1, <2>2 DEF ATypeOK, OffsetsUnique, SlotsUnique, There
  <2>4. ASSUME NEW s \in Site, NEW o, Handed(s, o)
        PROVE  site'[s] # New /\ (site'[s] \notin {New, Gone} =>
                   \E k \in Nat : o = site'[s].base + k * site'[s].step)
    BY <1>0, <2>2, <2>4, PlanAssumption DEF Handed, Open, Base, Step, ATypeOK
  <2>5. \A r \in Rack : There(r) => rack[r].site \in Site
    BY <1>0 DEF ATypeOK, There, RackRow
  <2>6. \A p \in Request : Naming(req[p]) => req[p].site \in Site
    BY DEF AInv, Decision, Naming
  <2>7. \A r \in Rack : There(r)' /\ ~rack'[r].hand => Handed(rack[r].site, rack[r].off)'
    BY <1>0, <2>2, <2>4, <2>5 DEF OnPlan, There, Handed, Open, Base, Step
  <2>8. \A p \in Request : Naming(req'[p]) => req'[p] = req[p] /\ Handed(req[p].site, req[p].off)
                                                 /\ req[p].site \in Site
    BY <1>0, <1>a, <2>6, DoneKeeps DEF OnPlan
  <2>9. ASSUME NEW p \in Request, Naming(req[p])' PROVE Handed(req[p].site, req[p].off)'
    <3>1. req'[p] = req[p] /\ Handed(req[p].site, req[p].off) /\ req[p].site \in Site
      BY <2>8, <2>9 DEF Naming
    <3>2. site'[req[p].site] # New /\ (site'[req[p].site] \notin {New, Gone} =>
             \E k \in Nat : req[p].off = site'[req[p].site].base + k * site'[req[p].site].step)
      BY <2>4, <3>1
    <3> QED BY <3>1, <3>2 DEF Handed, Open, Base, Step
  <2> QED BY <1>b, <2>3, <2>7, <2>9 DEF AInv, OnPlan
<1>6. CASE place(q)
  <2>1. w \in [do : {"place"}, blade : Blade, to : Position, mac : MAC \cup {None, Own}]
    BY <1>0, <1>6 DEF place, Decision
  <2>2. UNCHANGED <<site, rack>>
    BY <1>6 DEF place
  <2>3. \/ /\ SlotFree(w.blade, w.to)
           /\ pos' = [pos EXCEPT ![w.blade] = w.to] /\ mac' = [mac EXCEPT ![w.blade] = w.mac]
        \/ UNCHANGED <<pos, mac>>
    BY <1>6 DEF place
  <2>4. ATypeOK'
    BY <1>0, <2>1, <2>2, <2>3 DEF ATypeOK
  <2>5. SlotsUnique'
    BY <1>0, <2>1, <2>3 DEF SlotsUnique, SlotFree, ATypeOK
  <2>6. OffsetsUnique'
    BY <1>0, <2>2 DEF OffsetsUnique, There
  <2>7. OnPlan'
    <3>3. \A r \in Rack : There(r)' /\ ~rack'[r].hand => Handed(rack[r].site, rack[r].off)'
      BY <1>0, <2>2 DEF OnPlan, There, Handed, Open, Base, Step
    <3> QED BY <1>c, <2>2, <3>3 DEF OnPlan
  <2> QED BY <1>b, <2>4, <2>5, <2>6, <2>7 DEF AInv
<1> QED BY <1>1, <1>2, <1>3, <1>4, <1>5, <1>6 DEF Writes

LEMMA InitHolds == AInit => AInv
<1> SUFFICES ASSUME AInit PROVE AInv
  OBVIOUS
<1> USE DEF AInit
<1>1. ATypeOK
  BY PlanAssumption DEF ATypeOK, SiteRow
<1>2. req \in [Request -> Decision]
  BY DEF Decision, Idle
<1>3. OffsetsUnique /\ SlotsUnique
  BY DEF OffsetsUnique, SlotsUnique, There
<1>4. OnPlan
  BY DEF OnPlan, Naming, There, Idle
<1> QED BY <1>1, <1>2, <1>3, <1>4 DEF AInv

\* So do the handlers that are one statement.
LEMMA SingleStatementsKeep ==
    ASSUME AInv,
           \/ \E s \in Site, p \in Plan : createSite(s, p)
           \/ \E b \in Blade : unplace(b) \/ showMAC(b)
    PROVE  AInv'
<1>0. ATypeOK /\ OffsetsUnique /\ SlotsUnique /\ OnPlan /\ req \in [Request -> Decision]
  BY DEF AInv
<1>1. CASE \E s \in Site, p \in Plan : createSite(s, p)
  <2>1. PICK s \in Site, p \in Plan : createSite(s, p)
    BY <1>1
  <2>2. site[s] = New /\ site' = [site EXCEPT ![s] = p] /\ UNCHANGED <<rack, pos, mac, req>>
    BY <2>1 DEF createSite
  <2>3. ATypeOK' /\ OffsetsUnique' /\ SlotsUnique' /\ req' \in [Request -> Decision]
    BY <1>0, <2>2 DEF ATypeOK, OffsetsUnique, SlotsUnique, There, SiteRow
  <2>4. \A t, o : t \in Site /\ Handed(t, o) => t # s /\ site'[t] = site[t]
    BY <1>0, <2>2 DEF Handed, ATypeOK
  <2>5. \A r \in Rack : There(r) => rack[r].site \in Site
    BY <1>0 DEF ATypeOK, There, RackRow
  <2>6. \A q \in Request : Naming(req[q]) => req[q].site \in Site
    BY <1>0 DEF Decision, Naming
  <2>7. \A r \in Rack : (There(r) /\ ~rack[r].hand)' => Handed(rack[r].site, rack[r].off)'
    BY <1>0, <2>2, <2>4, <2>5 DEF OnPlan, There, Handed, Open, Base, Step
  <2>8. \A q \in Request : Naming(req[q])' => Handed(req[q].site, req[q].off)'
    BY <1>0, <2>2, <2>4, <2>6 DEF OnPlan, Naming, Handed, Open, Base, Step
  <2> QED BY <2>3, <2>7, <2>8 DEF AInv, OnPlan
<1>2. CASE \E b \in Blade : unplace(b) \/ showMAC(b)
  <2>1. UNCHANGED <<site, rack, req>>
    BY <1>2 DEF unplace, showMAC
  <2>2. /\ pos' \in [Blade -> Position \cup {None}] /\ \A b \in Blade : pos'[b] \in {pos[b], None}
        /\ mac' \in [Blade -> MAC \cup {None, Own}]
    BY <1>0, <1>2 DEF unplace, showMAC, ATypeOK
  <2>3. ATypeOK' /\ OffsetsUnique'
    BY <1>0, <2>1, <2>2 DEF ATypeOK, OffsetsUnique, There
  <2>4. SlotsUnique'
    BY <1>0, <2>2 DEF SlotsUnique
  <2>5. OnPlan' /\ req' \in [Request -> Decision]
    BY <1>0, <2>1 DEF OnPlan, Naming, There, Handed, Open, Base, Step
  <2> QED BY <2>3, <2>4, <2>5 DEF AInv
<1> QED BY <1>1, <1>2

LEMMA NextKeeps == AInv /\ [ANext]_avars => AInv'
<1> SUFFICES ASSUME AInv, [ANext]_avars PROVE AInv'
  OBVIOUS
<1>1. CASE UNCHANGED avars
  BY <1>1 DEF avars, AInv, ATypeOK, OffsetsUnique, SlotsUnique, OnPlan, Naming, There, Handed, Open,
              Base, Step
<1>2. CASE \E q \in Request : Reads(q) \/ Writes(q)
  BY <1>2, ReadsKeep, WritesKeep
<1>3. CASE \/ \E s \in Site, p \in Plan : createSite(s, p)
           \/ \E b \in Blade : unplace(b) \/ showMAC(b)
  BY <1>3, SingleStatementsKeep
<1> QED BY <1>1, <1>2, <1>3 DEF ANext

-----------------------------------------------------------------------------
\* What the invariant gives.

LEMMA DistinctAddresses == AInv => AddressesDistinct
<1> SUFFICES ASSUME AInv, NEW b \in Blade, NEW c \in Blade, b # c, bladeIP(b) # 0,
                    bladeIP(b) = bladeIP(c), rack[pos[b].rack].site = rack[pos[c].rack].site
             PROVE  checkSite(rack[pos[b].rack].site)
  BY DEF AddressesDistinct
<1> DEFINE r == pos[b].rack
           q == pos[c].rack
<1>1. /\ Placed(b) /\ validSlot(r, pos[b].slot)
      /\ Placed(c) /\ validSlot(q, pos[c].slot)
      /\ rack[r].off + pos[b].slot = rack[q].off + pos[c].slot
  BY DEF bladeIP
<1>2. /\ pos[b] \in Position /\ pos[c] \in Position /\ There(r) /\ There(q)
      /\ r \in Rack /\ q \in Rack
  BY <1>1 DEF Placed, AInv, ATypeOK, Position
<1>3. rack[r] \in RackRow /\ rack[q] \in RackRow
  BY <1>2 DEF AInv, ATypeOK, There
<1>4. r # q
  <2> SUFFICES ASSUME r = q PROVE FALSE
    OBVIOUS
  <2>1. pos[b].slot = pos[c].slot
    BY <1>1, <1>2, <1>3 DEF RackRow, Position
  <2>2. pos[b] = pos[c]
    BY <1>2, <2>1 DEF Position
  <2> QED BY <1>1, <2>2 DEF AInv, SlotsUnique, Placed
<1>5. Size \subseteq Nat
  BY PlanAssumption
<1>6. Overlap(r, q)
  <2>1. /\ rack[r].off \in Nat /\ rack[q].off \in Nat
        /\ rack[r].size \in Nat /\ rack[q].size \in Nat
        /\ pos[b].slot \in Nat /\ pos[c].slot \in Nat
    BY <1>2, <1>3, <1>5 DEF RackRow, Position
  <2>2. /\ 1 <= pos[b].slot /\ pos[b].slot <= rack[r].size
        /\ 1 <= pos[c].slot /\ pos[c].slot <= rack[q].size
    BY <1>1, <2>1 DEF validSlot
  <2> HIDE DEF r, q
  <2> QED BY <1>1, <2>1, <2>2 DEF Overlap, Lo, Hi
<1> QED BY <1>2, <1>4, <1>6 DEF checkSite, Standing

\* Two blocks handed out in one site are different multiples of its step.
LEMMA DistinctBlocks ==
    ASSUME AInv, NEW s \in Site, Open(s), NEW r \in Standing(s), NEW q \in Standing(s), r # q,
           ~rack[r].hand, ~rack[q].hand
    PROVE  \E k, j \in Nat : /\ rack[r].off = Base(s) + k * Step(s)
                             /\ rack[q].off = Base(s) + j * Step(s)
                             /\ k # j
<1>1. r \in Rack /\ q \in Rack /\ There(r) /\ There(q) /\ rack[r].site = s /\ rack[q].site = s
  BY DEF Standing
<1>2. PICK k \in Nat : rack[r].off = Base(s) + k * Step(s)
  BY <1>1 DEF AInv, OnPlan, Handed
<1>3. PICK j \in Nat : rack[q].off = Base(s) + j * Step(s)
  BY <1>1 DEF AInv, OnPlan, Handed
<1>4. rack[r].off # rack[q].off
  BY <1>1 DEF AInv, OffsetsUnique
<1>5. k # j
  BY <1>2, <1>3, <1>4
<1> QED BY <1>2, <1>3, <1>5

LEMMA PlanNumbers ==
    ASSUME AInv, NEW s \in Site, Open(s)
    PROVE  Base(s) \in Nat /\ Step(s) \in Nat \ {0}
  BY PlanAssumption DEF AInv, ATypeOK, Open, Base, Step, SiteRow

LEMMA ApartBlocks == AInv => BlocksApart
<1> SUFFICES ASSUME AInv, NEW s \in Site, NEW r \in Standing(s), NEW q \in Standing(s), r # q,
                    Open(s), ~rack[r].hand, ~rack[q].hand, \A z \in Size : z <= Step(s)
             PROVE  ~Overlap(r, q)
  BY DEF BlocksApart
<1>1. PICK k \in Nat, j \in Nat : /\ rack[r].off = Base(s) + k * Step(s)
                                  /\ rack[q].off = Base(s) + j * Step(s)
                                  /\ k # j
  BY DistinctBlocks
<1>2. Base(s) \in Nat /\ Step(s) \in Nat
  BY PlanNumbers
<1>3. /\ rack[r].size \in Nat /\ rack[r].size <= Step(s)
      /\ rack[q].size \in Nat /\ rack[q].size <= Step(s)
  BY PlanAssumption DEF AInv, ATypeOK, Standing, There, RackRow
<1>4. k * Step(s) \in Nat /\ j * Step(s) \in Nat
  BY <1>1, <1>2
<1>5. k * Step(s) + Step(s) <= j * Step(s) \/ j * Step(s) + Step(s) <= k * Step(s)
  <2>1. CASE k < j
    BY <1>2, <2>1, StepApart
  <2>2. CASE j < k
    BY <1>2, <2>2, StepApart
  <2> QED BY <1>1, <2>1, <2>2
<1> QED BY <1>1, <1>2, <1>3, <1>4, <1>5 DEF Overlap, Lo, Hi

LEMMA DistinctNumbers == AInv => NumbersDistinct
<1> SUFFICES ASSUME AInv, NEW s \in Site, NEW r \in Standing(s), NEW q \in Standing(s), r # q,
                    Open(s), ~rack[r].hand, ~rack[q].hand
             PROVE  rackIndex(r) # rackIndex(q)
  BY DEF NumbersDistinct
<1>1. PICK k \in Nat, j \in Nat : /\ rack[r].off = Base(s) + k * Step(s)
                                  /\ rack[q].off = Base(s) + j * Step(s)
                                  /\ k # j
  BY DistinctBlocks
<1>2. Base(s) \in Nat /\ Step(s) \in Nat \ {0}
  BY PlanNumbers
<1>3. ASSUME NEW p \in Standing(s), NEW n \in Nat, rack[p].off = Base(s) + n * Step(s)
      PROVE  rackIndex(p) = n + 1
  <2>1. rackIndex(p) = IF rack[p].off < Base(s) THEN 1 ELSE (rack[p].off - Base(s)) \div Step(s) + 1
    BY DEF rackIndex, Standing, Base, Step
  <2>2. n * Step(s) \in Nat /\ (n * Step(s)) \div Step(s) = n
    BY <1>2, DivTimes
  <2>3. rack[p].off - Base(s) = n * Step(s) /\ ~(rack[p].off < Base(s))
    BY <1>2, <1>3, <2>2
  <2> QED BY <2>1, <2>2, <2>3
<1>4. rackIndex(r) = k + 1 /\ rackIndex(q) = j + 1
  BY <1>1, <1>3
<1> QED BY <1>1, <1>4

LEMMA AlwaysAInv == ASpec => []AInv
  BY InitHolds, NextKeeps, PTL DEF ASpec

\* Rows keep values the schema knows, and every generated MAC has a number from
\* 1 on, whatever requests run at the same time.
THEOREM PlanTypeCorrect == ASpec => []ATypeOK
<1>1. AInv => ATypeOK
  BY DEF AInv
<1> QED BY AlwaysAInv, <1>1, PTL

\* No two blades of a site have one address unless checkSite warns of blocks that
\* overlap (server/ipam.go bladeIP, checkSite).
THEOREM AddressesAreDistinct == ASpec => []AddressesDistinct
  BY AlwaysAInv, DistinctAddresses, PTL

\* Blocks nextRackOffset handed out never overlap where the step is as large as the
\* largest BladeRunner (server/db.go nextRackOffset, moveRack, updateRack).
THEOREM BlocksStayApart == ASpec => []BlocksApart
  BY AlwaysAInv, ApartBlocks, PTL

\* A BladeRunner's number means one BladeRunner of its site, with any plan
\* (server/ipam.go rackIndex).
THEOREM NumbersAreDistinct == ASpec => []NumbersDistinct
  BY AlwaysAInv, DistinctNumbers, PTL
=============================================================================
