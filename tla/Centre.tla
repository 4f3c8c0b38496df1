------------------------------- MODULE Centre -------------------------------
(***************************************************************************)
(* The centre's row for a blade and every operation that changes it:       *)
(* what a person asks for, what a blade's agent and installer report, what  *)
(* the background loops do (server/db.go, api.go, ipam.go, netboot.go).     *)
(*                                                                         *)
(* One handler is one action.  A row keeps the columns the control flow    *)
(* reads; facts, health, names and the log are left out.  Time is only the *)
(* two expiries: an arming that runs out (probeFor) and a command that     *)
(* nobody took in time (commandTTL).                                       *)
(***************************************************************************)
EXTENDS Naturals, FiniteSets

CONSTANTS
    Blade,       \* serial numbers
    Slot,        \* positions: a BladeRunner and a slot number inside it
    Served,      \* those of the local site, with an address dnsmasq can hand out
    Image,       \* image names somebody may assign
    Catalogue,   \* those the catalogue has a row for
    None,        \* SQL NULL, or the empty string
    LocalDHCP    \* -local-dhcp: the centre writes the reservations itself

ASSUME CentreAssumption ==
    /\ Served \subseteq Slot
    /\ Catalogue \subseteq Image
    /\ None \notin Slot \cup Image
    /\ LocalDHCP \in BOOLEAN

VARIABLES
    row,    \* blades: one record per serial number
    cmds,   \* commands: the kinds queued and not yet taken
    sess,   \* netboot: the session of a blade seen booting over the network
    resv,   \* the reservation dnsmasq holds for the blade
    synced  \* the last syncDHCP came to its end (read by the properties only)

cvars == <<row, cmds, sess, resv, synced>>

Kind == {"reboot", "reimage", "shutdown"}
State == {"new", "enrolled", "provisioning", "online", "offline", "error"}
Install == {"idle", "pending", "done", "wipe"}

Row == [known   : BOOLEAN,
        slot    : Slot \cup {None},
        image   : Image \cup {None},
        state   : State,
        install : Install,
        probe   : {"none", "armed", "expired"},
        sent    : BOOLEAN,      \* probe_sent
        stored  : BOOLEAN]

\* A session is found by its MAC; linkNetboot gives it the serial number.
Session == [seen : BOOLEAN, linked : BOOLEAN, image : Image \cup {None}]

\* A reservation file without the netboot tag, one with it, or no file:
\* a host dnsmasq does not know is offered netboot through tag:!known.
Reservation == {"absent", "plain", "bootnet"}

\* The columns' defaults, which an INSERT that names only serial, token and
\* state leaves behind.
NewRow == [known |-> TRUE, slot |-> None, image |-> None, state |-> "new",
           install |-> "idle", probe |-> "none", sent |-> FALSE,
           stored |-> FALSE]

NoSession == [seen |-> FALSE, linked |-> FALSE, image |-> None]

TypeOK == /\ row \in [Blade -> Row]
          /\ cmds \in [Blade -> SUBSET Kind]
          /\ sess \in [Blade -> Session]
          /\ resv \in [Blade -> Reservation]
          /\ synced \in BOOLEAN

Init == /\ row = [b \in Blade |-> [NewRow EXCEPT !.known = FALSE]]
        /\ cmds = [b \in Blade |-> {}]
        /\ sess = [b \in Blade |-> NoSession]
        /\ resv = [b \in Blade |-> "absent"]
        /\ synced = TRUE

-----------------------------------------------------------------------------
\* What the wire has to offer a blade, read off its row.

\* probeArmed: a reading of the clock, so "expired" counts as not armed.
probeArmed(r) == r.probe = "armed"

\* The netboot switch: an installation, an erase or a firmware reading.
Netboot(r) == r.install \in {"pending", "wipe"} \/ probeArmed(r)

\* Blades of another site and blades without an address are skipped.
ReservationOf(r) ==
    CASE ~r.known \/ r.slot \notin Served -> "absent"
      [] r.known /\ r.slot \in Served /\ Netboot(r) -> "bootnet"
      [] OTHER -> "plain"

\* syncDHCP rewrites every reservation and removes what is left over ...
SyncEnds == /\ resv' = [b \in Blade |-> ReservationOf(row'[b])]
            /\ synced' = TRUE

\* ... unless it gives up on the way: no directory, no list of blades, a MAC
\* or a hostname dnsmasq would not take (the API checks neither), a file that
\* cannot be written.  Then some files are new and some old, the one being
\* written may be cut short, and nothing is removed.
SyncGivesUp ==
    /\ \E wrote \in SUBSET {b \in Blade : ReservationOf(row'[b]) \notin {"absent", resv[b]}} :
         \E cut \in SUBSET wrote :
            /\ Cardinality(cut) <= 1
            /\ resv' = [b \in Blade |-> CASE b \in cut -> "absent"
                                          [] b \in wrote \ cut -> ReservationOf(row'[b])
                                          [] OTHER -> resv[b]]
    /\ synced' = FALSE

\* Where a site owns the wire it does nothing.
syncDHCP == IF LocalDHCP THEN SyncEnds \/ SyncGivesUp ELSE UNCHANGED <<resv, synced>>

Update(b, r) == row' = [row EXCEPT ![b] = r]
queueCommand(b, kind) == cmds' = [cmds EXCEPT ![b] = @ \cup {kind}]

\* Mutant: only a blade that is online holds its slot.
Free_Online(b, s) == \A c \in Blade \ {b} : row[c].slot = s => row[c].state # "online"
Free(b, s) == \A c \in Blade \ {b} : row[c].slot # s

-----------------------------------------------------------------------------
\* What a person asks for.

\* hUIAssign: placeBlade with a position.  Back in a slot is back in service.
assign(b, s) ==
    /\ row[b].known
    /\ Free(b, s)
    /\ Update(b, [row[b] EXCEPT !.slot = s,
                                !.state = IF @ = "new" THEN "enrolled" ELSE @,
                                !.stored = FALSE])
    /\ syncDHCP
    /\ UNCHANGED <<cmds, sess>>

\* hUIUnassign: placeBlade without one.
unassign(b) ==
    /\ row[b].known
    /\ Update(b, [row[b] EXCEPT !.slot = None,
                                !.state = IF @ \in {"online", "enrolled"} THEN "new" ELSE @])
    /\ syncDHCP
    /\ UNCHANGED <<cmds, sess>>

\* hBladeUpdate, the API's own way to place a blade, to set its image and to
\* overrule its state; unlike placeBlade it leaves "stored" standing.
hBladeUpdate(b, s, i, st) ==
    /\ row[b].known
    /\ s # None => Free(b, s)
    /\ Update(b, [row[b] EXCEPT !.slot = s,
                                !.image = i,
                                !.state = IF st = "new" /\ s # None THEN "enrolled" ELSE st])
    /\ syncDHCP
    /\ UNCHANGED <<cmds, sess>>

\* hUIBladeImage: assigning triggers nothing, not even a new reservation.
hUIBladeImage(b, i) ==
    /\ row[b].known
    /\ Update(b, [row[b] EXCEPT !.image = i])
    /\ UNCHANGED <<cmds, sess, resv, synced>>

\* requestInstall, from the interface (commands = {}) or from the API, which
\* also queues the command that restarts the blade.
requestInstall(b, commands) ==
    /\ row[b].known
    /\ row[b].image # None
    /\ Update(b, [row[b] EXCEPT !.install = "pending"])
    /\ syncDHCP
    /\ cmds' = [cmds EXCEPT ![b] = @ \cup commands]
    /\ UNCHANGED sess

\* chooseImage: a choice in the netboot panel means "write this now", for a
\* blade the inventory has and can find: through the session's serial number,
\* or, before it is linked, through a MAC the row may or may not hold.
chooseImage(b, i) ==
    /\ sess[b].seen
    /\ sess' = [sess EXCEPT ![b].image = i]
    /\ \/ /\ row[b].known
          /\ Update(b, [row[b] EXCEPT !.image = i, !.install = "pending"])
          /\ syncDHCP
       \/ /\ ~row[b].known \/ ~sess[b].linked
          /\ UNCHANGED <<row, resv, synced>>
    /\ UNCHANGED cmds

\* hUIBladeWipe and requestWipe: the erase is armed, the slot is kept.  Where
\* the reservations could not be written no restart is queued.
requestWipe(b) ==
    /\ row[b].known
    /\ Update(b, [row[b] EXCEPT !.install = "wipe"])
    /\ syncDHCP
    /\ IF LocalDHCP /\ ~synced' THEN UNCHANGED cmds ELSE queueCommand(b, "reboot")
    /\ UNCHANGED sess

\* Mutant: called off in the row and still on the wire.
cancelInstall_NoSync(b) ==
    /\ row[b].known
    /\ row[b].install \in {"pending", "wipe"}
    /\ Update(b, [row[b] EXCEPT !.install = "idle"])
    /\ UNCHANGED <<cmds, sess, resv, synced>>

cancelInstall(b) ==
    /\ row[b].known
    /\ row[b].install \in {"pending", "wipe"}
    /\ Update(b, [row[b] EXCEPT !.install = "idle"])
    /\ syncDHCP
    /\ UNCHANGED <<cmds, sess>>

requestProbe(b) ==
    /\ row[b].known
    /\ row[b].install \notin {"pending", "wipe"}
    /\ Update(b, [row[b] EXCEPT !.probe = "armed", !.sent = FALSE])
    /\ syncDHCP
    /\ UNCHANGED <<cmds, sess>>

requestShutdown(b) ==
    /\ row[b].known
    /\ queueCommand(b, "shutdown")
    /\ UNCHANGED <<row, sess, resv, synced>>

\* The "reboot" action: nothing but the command.
requestReboot(b) ==
    /\ row[b].known
    /\ queueCommand(b, "reboot")
    /\ UNCHANGED <<row, sess, resv, synced>>

\* hDHCPSync, and every change to a site or a BladeRunner that ends in it.
hDHCPSync ==
    /\ UNCHANGED <<row, cmds, sess>>
    /\ syncDHCP

\* Mutant: the state is not looked at.
resetBlade_Any(b) ==
    /\ row[b].known
    /\ Update(b, [NewRow EXCEPT !.stored = TRUE])
    /\ cmds' = [cmds EXCEPT ![b] = {}]
    /\ syncDHCP
    /\ UNCHANGED sess

\* resetBlade: out of service, hardware, token and history kept.
resetBlade(b) ==
    /\ row[b].known
    /\ row[b].state # "provisioning"
    /\ Update(b, [NewRow EXCEPT !.stored = TRUE])
    /\ cmds' = [cmds EXCEPT ![b] = {}]
    /\ syncDHCP
    /\ UNCHANGED sess

\* Mutant: the row goes, the queued commands stay.
forgetBlade_RowOnly(b) ==
    /\ row[b].known
    /\ row[b].slot = None
    /\ row[b].install \notin {"pending", "wipe"}
    /\ row[b].state \notin {"provisioning", "online"}
    /\ Update(b, [NewRow EXCEPT !.known = FALSE])
    /\ sess' = [sess EXCEPT ![b] = IF @.linked THEN NoSession ELSE @]
    /\ syncDHCP
    /\ UNCHANGED cmds

\* forgetBlade: delete means delete, and only what is gone may be deleted.
forgetBlade(b) ==
    /\ row[b].known
    /\ row[b].slot = None
    /\ row[b].install \notin {"pending", "wipe"}
    /\ row[b].state \notin {"provisioning", "online"}
    /\ Update(b, [NewRow EXCEPT !.known = FALSE])
    /\ cmds' = [cmds EXCEPT ![b] = {}]
    /\ sess' = [sess EXCEPT ![b] = IF @.linked THEN NoSession ELSE @]
    /\ syncDHCP

-----------------------------------------------------------------------------
\* What the background loops do, and the clock.

\* Mutant: the arming is cleared, the mark of its restart is not.
ProbeCleared_KeepsSent(r) == [r EXCEPT !.probe = "none"]

\* clearProbe, on the row r and the commands c of one blade.
ProbeCleared(r) == [r EXCEPT !.probe = "none", !.sent = FALSE]
WithoutReboot(c) == c \ {"reboot"}

\* probeFor has passed since the arming.
ProbeTimeout(b) ==
    /\ row[b].probe = "armed"
    /\ Update(b, [row[b] EXCEPT !.probe = "expired"])
    /\ UNCHANGED <<cmds, sess, resv, synced>>

\* probeStep on a blade whose restart has not been sent: an arming that ran
\* out is taken away ...
probeExpire(b) ==
    /\ row[b].probe = "expired"
    /\ ~row[b].sent
    /\ Update(b, ProbeCleared(row[b]))
    /\ cmds' = [cmds EXCEPT ![b] = WithoutReboot(@)]
    /\ syncDHCP
    /\ UNCHANGED sess

\* ... and one whose tag has reached the wire is answered with the restart.
\* Whether it has is the caller's to say.
probeSend(b) ==
    /\ row[b].probe = "armed"
    /\ ~row[b].sent
    /\ queueCommand(b, "reboot")
    /\ Update(b, [row[b] EXCEPT !.sent = TRUE])
    /\ UNCHANGED <<sess, resv, synced>>

\* sweepOffline: the blade has not reported for too long.
sweepOffline(b) ==
    /\ row[b].known
    /\ row[b].state = "online"
    /\ Update(b, [row[b] EXCEPT !.state = "offline"])
    /\ UNCHANGED <<cmds, sess, resv, synced>>

-----------------------------------------------------------------------------
\* What a blade sends: its DHCP traffic, its agent, its installer.

\* touchNetboot: the log watcher sees the blade ask for an address.
touchNetboot(b) ==
    /\ sess' = [sess EXCEPT ![b].seen = TRUE]
    /\ UNCHANGED <<row, cmds, resv, synced>>

\* hEnroll: an unknown serial gets a row, a known one keeps what it has.
hEnroll(b) ==
    /\ row' = [row EXCEPT ![b] = IF @.known THEN @ ELSE NewRow]
    /\ UNCHANGED <<cmds, sess, resv, synced>>

hBladeStatus(b) ==
    /\ row[b].known
    /\ Update(b, [row[b] EXCEPT !.state = IF @ = "provisioning" THEN @ ELSE "online"])
    /\ UNCHANGED <<cmds, sess, resv, synced>>

\* hBladeCommands: what is still valid goes out, what is older than the TTL
\* is struck off; either way it is taken.
hBladeCommands(b, taken) ==
    /\ row[b].known
    /\ taken \subseteq cmds[b]
    /\ cmds' = [cmds EXCEPT ![b] = {}]
    /\ UNCHANGED <<row, sess, resv, synced>>

\* hProvision.  The installer's question carries the hardware it found, which
\* answers a standing firmware reading, and the MAC, which links the session
\* and adopts an image chosen there.
Checked(b) ==
    LET r == IF row[b].known THEN row[b] ELSE NewRow
        read == IF r.probe # "none" THEN ProbeCleared(r) ELSE r
    IN  IF sess[b].seen /\ read.image = None
        THEN [read EXCEPT !.image = sess[b].image] ELSE read

\* Mutant: a blade with an image is written, asked for or not.
AnswerFor_Unasked(r) ==
    CASE r.image = None -> "waiting"
      [] r.image # None /\ r.install = "wipe" -> "wipe"
      [] r.image # None /\ r.install = "done" -> "idle"
      [] OTHER -> "go"

\* Mutant: whether an installation was asked for is looked at first.
AnswerFor_InstallFirst(r) ==
    CASE r.image = None -> "waiting"
      [] r.image # None /\ r.install # "pending" -> "idle"
      [] r.image \in Image \ Catalogue /\ r.install = "pending" -> "failed"
      [] OTHER -> "go"

\* The answer follows from the row, in this order: no image, an erase, no
\* installation asked for, an image the catalogue does not have.
AnswerFor(r) ==
    CASE r.image = None -> "waiting"
      [] r.image # None /\ r.install = "wipe" -> "wipe"
      [] r.image # None /\ r.install \notin {"wipe", "pending"} -> "idle"
      [] r.image \in Image \ Catalogue /\ r.install = "pending" -> "failed"
      [] OTHER -> "go"

HandedOut(r) == IF AnswerFor(r) \in {"wipe", "go"}
                THEN [r EXCEPT !.state = "provisioning"] ELSE r

hProvision(b) ==
    /\ Update(b, HandedOut(Checked(b)))
    /\ sess' = [sess EXCEPT ![b].linked = @ \/ sess[b].seen]
    /\ IF row[b].known /\ row[b].probe # "none"
       THEN /\ cmds' = [cmds EXCEPT ![b] = WithoutReboot(@)]
            /\ syncDHCP
       ELSE UNCHANGED <<cmds, resv, synced>>

\* Mutants: an error re-arms, or spends the request.
Reported_Rearms(r, phase) ==
    IF phase = "error" THEN [r EXCEPT !.state = "error", !.install = "pending"] ELSE r
Reported_Spends(r, phase) ==
    CASE phase = "error" -> [r EXCEPT !.state = "error", !.install = "idle"]
      [] phase = "done"  -> [r EXCEPT !.state = "enrolled", !.install = "done"]
      [] OTHER -> r

\* hProvisionStatus, by what is reported.  An error leaves the job armed so
\* that a restart tries again; "wiped" is finishWipe; "done" spends the
\* request.  The statements are UPDATEs: a serial nobody knows changes nothing.
Reported(r, phase) ==
    CASE phase = "error" -> [r EXCEPT !.state = "error"]
      [] phase = "wiped" -> [r EXCEPT !.slot = None, !.image = None,
                                      !.install = "idle", !.state = "new"]
      [] phase = "done"  -> [r EXCEPT !.state = "enrolled", !.install = "done"]
      [] OTHER -> r

Phase == {"error", "wiped", "done"}

hProvisionStatus(b, phase) ==
    /\ row' = IF row[b].known THEN [row EXCEPT ![b] = Reported(@, phase)] ELSE row
    /\ IF phase \in {"wiped", "done"} THEN syncDHCP ELSE UNCHANGED <<resv, synced>>
    /\ UNCHANGED <<cmds, sess>>

-----------------------------------------------------------------------------
\* Assigning: positions, images, the record itself.
Assigns(b) ==
    \/ \E s \in Slot : assign(b, s)
    \/ unassign(b)
    \/ \E s \in Slot \cup {None}, i \in Image \cup {None}, st \in State : hBladeUpdate(b, s, i, st)
    \/ \E i \in Image \cup {None} : hUIBladeImage(b, i)
    \/ resetBlade(b)
    \/ forgetBlade(b)

\* Ordering: something the blade is to do.
Orders(b) ==
    \/ \E c \in {{}, {"reimage"}} : requestInstall(b, c)
    \/ \E i \in Image : chooseImage(b, i)
    \/ requestWipe(b)
    \/ cancelInstall(b)
    \/ requestShutdown(b)
    \/ requestReboot(b)

Person(b) == Assigns(b) \/ Orders(b) \/ requestProbe(b)

Loops(b) ==
    \/ ProbeTimeout(b)
    \/ probeExpire(b)
    \/ probeSend(b)
    \/ sweepOffline(b)

\* Any blade may send anything at any time: what the centre promises here it
\* promises whatever the blades and the network between them do.
Wire(b) ==
    \/ touchNetboot(b)
    \/ hEnroll(b)
    \/ hBladeStatus(b)
    \/ \E taken \in SUBSET Kind : hBladeCommands(b, taken)
    \/ hProvision(b)
    \/ \E phase \in Phase : hProvisionStatus(b, phase)

Next == (\E b \in Blade : Person(b) \/ Loops(b) \/ Wire(b)) \/ hDHCPSync

Spec == Init /\ [][Next]_cvars

-----------------------------------------------------------------------------
\* No two blades are recorded in the same position, whichever of the two
\* ways of placing one was used and whatever reports arrive in between
\* (server/ipam.go placeBlade, server/api.go hBladeUpdate).
OneBladePerSlot ==
    \A b, c \in Blade : b # c /\ row[b].slot # None => row[b].slot # row[c].slot

\* Where the centre writes the reservations, each one says what the row says,
\* of every blade and not only of the one just changed: every path that
\* changes a position or an armed job ends in syncDHCP, and one that came to
\* its end makes good whatever earlier ones left half done.  Between one that
\* gave up and the next nothing is claimed, and an arming that ran out by the
\* clock may be ahead of its reservation (server/ipam.go syncDHCP).
ReservationsFollow ==
    LocalDHCP /\ synced =>
        \A b \in Blade : row[b].probe # "expired" => resv[b] = ReservationOf(row[b])

\* A serial the centre does not know owns nothing: no position, no armed job,
\* no queued command, no session under its name and, once a syncDHCP has come
\* to its end, no reservation outlives forgetBlade.
ForgottenLeavesNothing ==
    \A b \in Blade : ~row[b].known =>
        /\ row[b].slot = None /\ ~Netboot(row[b])
        /\ cmds[b] = {}
        /\ ~sess[b].linked
        /\ LocalDHCP /\ synced => resv[b] = "absent"

\* A restart sent for a firmware reading belongs to a standing reading: the
\* mark never outlives the arming it was sent for (server/db.go probeStep,
\* clearProbe).
SentBelongsToProbe == \A b \in Blade : row[b].sent => row[b].probe # "none"

\* An installation or an erase is armed only by a person: no report, no poll
\* and no background loop turns one on (server/db.go "That is a deliberate
\* act").  The other direction is free: reports may spend a request.
ArmedByAPersonOnly ==
    [][\A b \in Blade :
         row'[b].install \in {"pending", "wipe"} /\ row'[b].install # row[b].install
             => Person(b)]_cvars
=============================================================================
