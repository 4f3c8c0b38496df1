---------------------------- MODULE AddressPlan -----------------------------
(***************************************************************************)
(* Sites, BladeRunners and the addresses that follow from them             *)
(* (server/ipam.go, server/db.go, the rack and site handlers of api.go and *)
(* ui.go).  A blade's address is its BladeRunner's block offset plus its   *)
(* slot; the MAC it is given while it has not shown its own is made from   *)
(* site, BladeRunner number and slot.                                      *)
(*                                                                         *)
(* A handler reads, decides and then writes with one statement; the server *)
(* runs several at a time.  So every handler here is two steps, with the   *)
(* decision kept in req in between, and the write meets whatever the       *)
(* tables hold by then.  What holds must come from the schema's UNIQUE     *)
(* constraints or from the plan itself.                                    *)
(***************************************************************************)
EXTENDS Integers, FiniteSets, FiniteSetsExt

CONSTANTS
    Site, Rack, Blade,   \* row ids, each used once (AUTOINCREMENT), and serials
    Request,             \* handlers that may run at one time
    Size,                \* the sizes there are: 2, 4, 10 and 20
    Plan,                \* offset_base and offset_step a site may be created with
    ByHand,              \* block offsets somebody may name in the API
    Limit,               \* 250, the end of the last block
    Default,             \* the plan taken for a site that is not there
    None, Own,           \* no value; a MAC the blade has shown itself
    New, Gone            \* a row not yet inserted; one that was deleted

ASSUME PlanAssumption ==
    /\ Size \subseteq Nat \ {0}
    /\ Plan \subseteq [base : Nat, step : Nat \ {0}] /\ Default \in Plan
    /\ ByHand \subseteq Nat \ {0} /\ Limit \in Nat
    /\ New # Gone

VARIABLES
    site,   \* sites
    rack,   \* racks
    pos,    \* rack_id and slot of a blade, or None
    mac,    \* the MAC in its row: None, Own, or a generated one
    req     \* what each handler has decided and not yet written

avars == <<site, rack, pos, mac, req>>

SiteRow == Plan
RackRow == [site : Site, size : Size, off : Nat, hand : BOOLEAN]
Position == [rack : Rack, slot : Nat \ {0}]
MAC == [site : Site, idx : Nat \ {0}, slot : Nat \ {0}]
Idle == [do |-> "nothing"]

ATypeOK ==
    /\ site \in [Site -> SiteRow \cup {New, Gone}]
    /\ rack \in [Rack -> RackRow \cup {New, Gone}]
    /\ pos \in [Blade -> Position \cup {None}]
    /\ mac \in [Blade -> MAC \cup {None, Own}]

\* ensureDefaultSite of a new installation.
AInit ==
    \E s \in Site :
        /\ site = [t \in Site |-> IF t = s THEN Default ELSE New]
        /\ rack = [r \in Rack |-> New]
        /\ pos = [b \in Blade |-> None]
        /\ mac = [b \in Blade |-> None]
        /\ req = [q \in Request |-> Idle]

-----------------------------------------------------------------------------
\* What follows from the tables.

There(r) == rack[r] \notin {New, Gone}
Open(s) == site[s] \notin {New, Gone}
Standing(s) == {r \in Rack : There(r) /\ rack[r].site = s}

Base(s) == site[s].base
Step(s) == site[s].step

\* Mutant: the blocks follow each other without a step between them.
Blocks_Tight(s) == {o \in 0..Limit : o >= Base(s) /\ o < Limit}

\* The blocks of a site's plan, and those no BladeRunner holds.
Blocks(s) == {o \in 0..Limit : o + Step(s) <= Limit /\ \E k \in 0..Limit : o = Base(s) + k * Step(s)}
FreeBlocks(s) == Blocks(s) \ {rack[r].off : r \in Standing(s)}

nextRackOffset(s) == Min(FreeBlocks(s))

\* Mutant: by the plan of a new installation, whatever the site's is.
rackIndex_DefaultPlan(r) == (rack[r].off - Default.base) \div Default.step + 1

\* rackIndex: the number people see, by the block and not by the id.
rackIndex(r) ==
    LET p == IF Open(rack[r].site) THEN site[rack[r].site] ELSE Default
    IN  IF rack[r].off < p.base THEN 1 ELSE (rack[r].off - p.base) \div p.step + 1

bladeMAC(r, slot) == [site |-> rack[r].site, idx |-> rackIndex(r), slot |-> slot]

validSlot(r, slot) == slot \in 1..rack[r].size

\* bladeIP and decorate: 0 where there is no address.
Placed(b) == pos[b] # None /\ There(pos[b].rack)
bladeIP(b) == IF Placed(b) /\ validSlot(pos[b].rack, pos[b].slot)
              THEN rack[pos[b].rack].off + pos[b].slot ELSE 0

Lo(r) == rack[r].off + 1
Hi(r) == rack[r].off + rack[r].size
Overlap(r, q) == Lo(r) <= Hi(q) /\ Lo(q) <= Hi(r)

\* checkSite's warning about blocks.
checkSite(s) == \E r, q \in Standing(s) : r # q /\ Overlap(r, q)

-----------------------------------------------------------------------------
\* Handlers, first half: read and decide.

Decide(q, what) == req[q] = Idle /\ req' = [req EXCEPT ![q] = what] /\ UNCHANGED <<site, rack, pos, mac>>

\* hRacksCreate and hUIRackCreate.  Only the API may name the offset (o # 0);
\* then nobody asks whether the site exists.
planRack(q, r, s, z, o) ==
    /\ rack[r] = New
    /\ o = 0 => Open(s) /\ FreeBlocks(s) # {}
    /\ Decide(q, [do |-> "create", rack |-> r, site |-> s, size |-> z, hand |-> o # 0,
                  off |-> IF o = 0 THEN nextRackOffset(s) ELSE o])

planMove(q, r, s) ==
    /\ There(r) /\ rack[r].site # s
    /\ Open(s)
    /\ FreeBlocks(s) # {}
    /\ Decide(q, [do |-> "move", rack |-> r, site |-> s, off |-> nextRackOffset(s)])

\* updateRack: smaller only while no blade sits in a slot that would go.
planResize(q, r, z) ==
    /\ There(r)
    /\ z < rack[r].size => \A b \in Blade : pos[b] # None /\ pos[b].rack = r => pos[b].slot <= z
    /\ Decide(q, [do |-> "resize", rack |-> r, size |-> z])

planRackDelete(q, r) ==
    /\ There(r)
    /\ \A b \in Blade : pos[b] # None => pos[b].rack # r
    /\ Decide(q, [do |-> "drop", rack |-> r])

planSiteDelete(q, s) ==
    /\ Open(s)
    /\ Standing(s) = {}
    /\ \E t \in Site \ {s} : Open(t)
    /\ Decide(q, [do |-> "dropSite", site |-> s])

\* placeBlade, which derives the MAC anew unless the blade has shown its own,
\* and hBladeUpdate (api), which derives it only where there is none.
planPlace(q, b, r, slot, api) ==
    /\ There(r) /\ validSlot(r, slot)
    /\ \A c \in Blade \ {b} : pos[c] # [rack |-> r, slot |-> slot]
    /\ Decide(q, [do |-> "place", blade |-> b, to |-> [rack |-> r, slot |-> slot],
                  mac |-> IF mac[b] = None \/ (mac[b] # Own /\ ~api)
                          THEN bladeMAC(r, slot) ELSE mac[b]])

-----------------------------------------------------------------------------
\* Second half: the one statement that writes, against the schema.

\* UNIQUE (site_id, ip_offset), for a row r.
OffsetFree(r, s, o) == \A p \in Standing(s) \ {r} : rack[p].off # o

\* Mutant: the constraint is on the slot's blade instead of its position.
SlotFree_Own(b, to) == pos[b] # to

\* UNIQUE (rack_id, slot).
SlotFree(b, to) == \A c \in Blade \ {b} : pos[c] # to

Done(q) == req' = [req EXCEPT ![q] = Idle]

createRack(q) ==
    /\ req[q].do = "create"
    /\ LET w == req[q]
       IN  rack' = IF rack[w.rack] = New /\ OffsetFree(w.rack, w.site, w.off)
                   THEN [rack EXCEPT ![w.rack] =
                           [site |-> w.site, size |-> w.size, off |-> w.off, hand |-> w.hand]]
                   ELSE rack
    /\ Done(q) /\ UNCHANGED <<site, pos, mac>>

moveRack(q) ==
    /\ req[q].do = "move"
    /\ LET w == req[q]
       IN  rack' = IF There(w.rack) /\ OffsetFree(w.rack, w.site, w.off)
                   THEN [rack EXCEPT ![w.rack].site = w.site, ![w.rack].off = w.off,
                                     ![w.rack].hand = FALSE]
                   ELSE rack
    /\ Done(q) /\ UNCHANGED <<site, pos, mac>>

updateRack(q) ==
    /\ req[q].do = "resize"
    /\ rack' = IF There(req[q].rack) THEN [rack EXCEPT ![req[q].rack].size = req[q].size] ELSE rack
    /\ Done(q) /\ UNCHANGED <<site, pos, mac>>

\* foreign_keys is a setting of one connection out of four: a blade that was
\* placed in the meantime may or may not have its rack_id set to NULL.
deleteRack(q, fk) ==
    /\ req[q].do = "drop"
    /\ LET r == req[q].rack
       IN  /\ rack' = [rack EXCEPT ![r] = Gone]
           /\ pos' = [b \in Blade |-> IF fk /\ pos[b] # None /\ pos[b].rack = r THEN None ELSE pos[b]]
    /\ Done(q) /\ UNCHANGED <<site, mac>>

deleteSite(q) ==
    /\ req[q].do = "dropSite"
    /\ site' = [site EXCEPT ![req[q].site] = Gone]
    /\ Done(q) /\ UNCHANGED <<rack, pos, mac>>

place(q) ==
    /\ req[q].do = "place"
    /\ LET w == req[q]
       IN  \/ /\ SlotFree(w.blade, w.to)
              /\ pos' = [pos EXCEPT ![w.blade] = w.to]
              /\ mac' = [mac EXCEPT ![w.blade] = w.mac]
           \/ /\ ~SlotFree(w.blade, w.to) \/ ~There(w.to.rack)
              /\ UNCHANGED <<pos, mac>>
    /\ Done(q) /\ UNCHANGED <<site, rack>>

-----------------------------------------------------------------------------
\* Single statements.

createSite(s, p) ==
    /\ site[s] = New
    /\ site' = [site EXCEPT ![s] = p]
    /\ UNCHANGED <<rack, pos, mac, req>>

\* placeBlade without a position: the MAC stays.
unplace(b) ==
    /\ pos[b] # None
    /\ pos' = [pos EXCEPT ![b] = None]
    /\ UNCHANGED <<site, rack, mac, req>>

\* hEnroll of a known blade: it has shown its own MAC.
showMAC(b) ==
    /\ mac' = [mac EXCEPT ![b] = Own]
    /\ UNCHANGED <<site, rack, pos, req>>

Reads(q) ==
    \/ \E r \in Rack, s \in Site, z \in Size, o \in {0} \cup ByHand : planRack(q, r, s, z, o)
    \/ \E r \in Rack, s \in Site : planMove(q, r, s)
    \/ \E r \in Rack, z \in Size : planResize(q, r, z)
    \/ \E r \in Rack : planRackDelete(q, r)
    \/ \E s \in Site : planSiteDelete(q, s)
    \/ \E b \in Blade, r \in Rack, slot \in UNION {1..z : z \in Size}, api \in BOOLEAN :
         planPlace(q, b, r, slot, api)

Writes(q) == \/ createRack(q) \/ moveRack(q) \/ updateRack(q)
             \/ \E fk \in BOOLEAN : deleteRack(q, fk)
             \/ deleteSite(q) \/ place(q)

ANext ==
    \/ \E q \in Request : Reads(q) \/ Writes(q)
    \/ \E s \in Site, p \in Plan : createSite(s, p)
    \/ \E b \in Blade : unplace(b) \/ showMAC(b)

ASpec == AInit /\ [][ANext]_avars

-----------------------------------------------------------------------------
\* Two blades of one site have one address only where checkSite says that
\* blocks overlap: not through two people who place, move and resize at the
\* same time (server/ipam.go bladeIP, checkSite).
AddressesDistinct ==
    \A b, c \in Blade :
        b # c /\ bladeIP(b) # 0 /\ bladeIP(b) = bladeIP(c)
              /\ rack[pos[b].rack].site = rack[pos[c].rack].site
            => checkSite(rack[pos[b].rack].site)

\* Blocks nextRackOffset handed out never overlap in a site whose step is as
\* large as the largest BladeRunner, whatever is created, moved, resized and
\* removed: "that keeps addresses stable when a larger unit later takes its
\* place" (server/db.go nextRackOffset).
BlocksApart ==
    \A s \in Site : \A r, q \in Standing(s) :
        r # q /\ Open(s) /\ ~rack[r].hand /\ ~rack[q].hand /\ (\A z \in Size : z <= Step(s))
            => ~Overlap(r, q)

\* The number of a BladeRunner means one BladeRunner of its site, as long as
\* nobody named an offset (server/ipam.go rackIndex).
NumbersDistinct ==
    \A s \in Site : \A r, q \in Standing(s) :
        r # q /\ Open(s) /\ ~rack[r].hand /\ ~rack[q].hand
            => rackIndex(r) # rackIndex(q)
=============================================================================
