--------------------------- MODULE Centre_proofs ----------------------------
(***************************************************************************)
(* What holds of the centre's rows for every number of blades, slots and   *)
(* images: the invariants of module Centre, by one induction over its      *)
(* steps; and what holds of the whole loop of module Fleet, whose steps    *)
(* are steps of the centre with blades, installers and a site around it.   *)
(***************************************************************************)
EXTENDS Fleet, TLAPS

-----------------------------------------------------------------------------
\* The rows the operations are built from are rows: the columns' defaults,
\* what a report leaves behind, and what the installer's question leaves.
LEMMA NewRowTyped == NewRow \in Row
BY DEF NewRow, Row, State, Install

LEMMA ReportedTyped == ASSUME NEW r \in Row, NEW phase \in Phase
                       PROVE  Reported(r, phase) \in Row
<1>1. CASE phase = "error" BY <1>1 DEF Row, State, Reported
<1>2. CASE phase = "wiped"
  <2>1. Reported(r, phase) = [r EXCEPT !.slot = None, !.image = None,
                                       !.install = "idle", !.state = "new"]
    BY <1>2 DEF Reported
  <2> QED BY <2>1 DEF Row, State, Install
<1>3. CASE phase = "done"
  <2>1. Reported(r, phase) = [r EXCEPT !.state = "enrolled", !.install = "done"]
    BY <1>3 DEF Reported
  <2> QED BY <2>1 DEF Row, State, Install
<1> QED BY <1>1, <1>2, <1>3 DEF Phase

LEMMA ProbeClearedTyped == \A r \in Row : ProbeCleared(r) \in Row
BY DEF Row, ProbeCleared

LEMMA CheckedTyped == ASSUME TypeOK, NEW b \in Blade PROVE Checked(b) \in Row
<1> DEFINE r == IF row[b].known THEN row[b] ELSE NewRow
           read == IF r.probe # "none" THEN ProbeCleared(r) ELSE r
<1>1. read \in Row BY NewRowTyped, ProbeClearedTyped DEF TypeOK
<1>2. sess[b].image \in Image \cup {None} BY DEF TypeOK, Session
<1>3. [read EXCEPT !.image = sess[b].image] \in Row
  <2> HIDE DEF read
  <2> QED BY <1>1, <1>2 DEF Row
<1> QED BY <1>1, <1>3 DEF Checked

LEMMA HandedOutTyped == \A r \in Row : HandedOut(r) \in Row
BY DEF Row, State, HandedOut

\* A reservation is one of the three, whatever the row.
LEMMA ReservationTyped == \A r : ReservationOf(r) \in Reservation
BY DEF ReservationOf, Reservation

\* Writing a row for one blade keeps the table one of rows.
LEMMA UpdateTyped == ASSUME NEW b \in Blade, NEW r \in Row, TypeOK, Update(b, r)
                     PROVE  row' \in [Blade -> Row]
BY DEF TypeOK, Update

LEMMA SyncTyped == ASSUME TypeOK, syncDHCP
                   PROVE  resv' \in [Blade -> Reservation] /\ synced' \in BOOLEAN
<1>1. CASE SyncEnds BY <1>1, ReservationTyped DEF SyncEnds
<1>2. CASE SyncGivesUp
  <2>1. PICK wrote \in SUBSET Blade, cut \in SUBSET Blade :
          resv' = [b \in Blade |-> CASE b \in cut -> "absent"
                                    [] b \in wrote \ cut -> ReservationOf(row'[b])
                                    [] OTHER -> resv[b]]
    BY <1>2 DEF SyncGivesUp
  <2>2. "absent" \in Reservation /\ \A b \in Blade : resv[b] \in Reservation BY DEF TypeOK, Reservation
  <2>3. ASSUME NEW b \in Blade PROVE resv'[b] \in Reservation
    BY <2>1, <2>2, ReservationTyped
  <2>4. resv' \in [Blade -> Reservation] BY <2>1, <2>3
  <2> QED BY <1>2, <2>4 DEF SyncGivesUp
<1> QED BY <1>1, <1>2 DEF syncDHCP, TypeOK

LEMMA InitTyped == Init => TypeOK
<1>1. [NewRow EXCEPT !.known = FALSE] \in Row BY NewRowTyped DEF Row
<1> QED BY <1>1 DEF Init, TypeOK, NoSession, Session, Reservation

\* Every step keeps every column, queue, session and reservation in its type.
LEMMA TypeStep == TypeOK /\ [Next]_cvars => TypeOK'
<1> SUFFICES ASSUME TypeOK, [Next]_cvars PROVE TypeOK'
    OBVIOUS
<1>0. CASE UNCHANGED cvars
    BY <1>0 DEF TypeOK, cvars
<1>1. ASSUME NEW b \in Blade, Person(b) PROVE TypeOK'
  <2>1. ASSUME NEW s \in Slot, assign(b, s) PROVE TypeOK'
    <3>0. [row[b] EXCEPT !.slot = s, !.state = IF @ = "new" THEN "enrolled" ELSE @,
                                !.stored = FALSE] \in Row
      BY DEF TypeOK, Row, State
    <3>1. row' \in [Blade -> Row] BY <2>1, <3>0, UpdateTyped DEF assign
    <3> QED BY <2>1, <3>1, SyncTyped DEF TypeOK, assign
  <2>2. CASE unassign(b)
    <3>0. [row[b] EXCEPT !.slot = None,
                                !.state = IF @ \in {"online", "enrolled"} THEN "new" ELSE @] \in Row
      BY DEF TypeOK, Row, State
    <3>1. row' \in [Blade -> Row] BY <2>2, <3>0, UpdateTyped DEF unassign
    <3> QED BY <2>2, <3>1, SyncTyped DEF TypeOK, unassign
  <2>3. ASSUME NEW s \in Slot \cup {None}, NEW i \in Image \cup {None}, NEW st \in State,
               hBladeUpdate(b, s, i, st) PROVE TypeOK'
    <3>0. [row[b] EXCEPT !.slot = s, !.image = i,
                                !.state = IF st = "new" /\ s # None THEN "enrolled" ELSE st] \in Row
      <4>1. row[b] \in Row BY DEF TypeOK
      <4>2. (IF st = "new" /\ s # None THEN "enrolled" ELSE st) \in State BY DEF State
      <4> QED BY <4>1, <4>2 DEF Row
    <3>1. row' \in [Blade -> Row] BY <2>3, <3>0, UpdateTyped DEF hBladeUpdate
    <3> QED BY <2>3, <3>1, SyncTyped DEF TypeOK, hBladeUpdate
  <2>4. ASSUME NEW i \in Image \cup {None}, hUIBladeImage(b, i) PROVE TypeOK'
    <3>0. [row[b] EXCEPT !.image = i] \in Row BY DEF TypeOK, Row
    <3>1. row' \in [Blade -> Row] BY <2>4, <3>0, UpdateTyped DEF hUIBladeImage
    <3> QED BY <2>4, <3>1 DEF TypeOK, hUIBladeImage
  <2>5. ASSUME NEW c \in SUBSET Kind, requestInstall(b, c) PROVE TypeOK'
    <3>0. [row[b] EXCEPT !.install = "pending"] \in Row BY DEF TypeOK, Row, Install
    <3>1. row' \in [Blade -> Row] BY <2>5, <3>0, UpdateTyped DEF requestInstall
    <3>2. cmds' \in [Blade -> SUBSET Kind] BY <2>5 DEF TypeOK, requestInstall
    <3> QED BY <2>5, <3>1, <3>2, SyncTyped DEF TypeOK, requestInstall
  <2>6. ASSUME NEW i \in Image, chooseImage(b, i) PROVE TypeOK'
    <3>0. [row[b] EXCEPT !.image = i, !.install = "pending"] \in Row
      BY DEF TypeOK, Row, Install
    <3>1. row' \in [Blade -> Row] BY <2>6, <3>0, UpdateTyped DEF TypeOK, chooseImage
    <3>2. sess' \in [Blade -> Session] BY <2>6 DEF TypeOK, chooseImage, Session
    <3> QED BY <2>6, <3>1, <3>2, SyncTyped DEF TypeOK, chooseImage
  <2>7. CASE requestWipe(b)
    <3>0. [row[b] EXCEPT !.install = "wipe"] \in Row BY DEF TypeOK, Row, Install
    <3>1. row' \in [Blade -> Row] BY <2>7, <3>0, UpdateTyped DEF requestWipe
    <3>2. cmds' \in [Blade -> SUBSET Kind]
      BY <2>7 DEF TypeOK, requestWipe, queueCommand, Kind
    <3> QED BY <2>7, <3>1, <3>2, SyncTyped DEF TypeOK, requestWipe
  <2>8. CASE cancelInstall(b)
    <3>0. [row[b] EXCEPT !.install = "idle"] \in Row BY DEF TypeOK, Row, Install
    <3>1. row' \in [Blade -> Row] BY <2>8, <3>0, UpdateTyped DEF cancelInstall
    <3> QED BY <2>8, <3>1, SyncTyped DEF TypeOK, cancelInstall
  <2>9. CASE requestProbe(b)
    <3>0. [row[b] EXCEPT !.probe = "armed", !.sent = FALSE] \in Row
      BY DEF TypeOK, Row
    <3>1. row' \in [Blade -> Row] BY <2>9, <3>0, UpdateTyped DEF requestProbe
    <3> QED BY <2>9, <3>1, SyncTyped DEF TypeOK, requestProbe
  <2>10. CASE requestShutdown(b)
    BY <2>10 DEF TypeOK, requestShutdown, queueCommand, Kind
  <2>11. CASE requestReboot(b)
    BY <2>11 DEF TypeOK, requestReboot, queueCommand, Kind
  <2>12. CASE resetBlade(b)
    <3>0. [NewRow EXCEPT !.stored = TRUE] \in Row
      BY NewRowTyped DEF Row
    <3>1. row' \in [Blade -> Row] BY <2>12, <3>0, UpdateTyped DEF resetBlade
    <3>2. cmds' \in [Blade -> SUBSET Kind] BY <2>12 DEF TypeOK, resetBlade
    <3> QED BY <2>12, <3>1, <3>2, SyncTyped DEF TypeOK, resetBlade
  <2>13. CASE forgetBlade(b)
    <3>0. [NewRow EXCEPT !.known = FALSE] \in Row BY NewRowTyped DEF Row
    <3>1. row' \in [Blade -> Row] BY <2>13, <3>0, UpdateTyped DEF forgetBlade
    <3>2. cmds' \in [Blade -> SUBSET Kind] BY <2>13 DEF TypeOK, forgetBlade
    <3>3. sess' \in [Blade -> Session] BY <2>13 DEF TypeOK, forgetBlade, NoSession, Session
    <3> QED BY <2>13, <3>1, <3>2, <3>3, SyncTyped DEF TypeOK, forgetBlade
  <2> QED
    BY <1>1, <2>1, <2>2, <2>3, <2>4, <2>5, <2>6, <2>7, <2>8, <2>9, <2>10, <2>11, <2>12, <2>13
    DEF Person, Assigns, Orders, Kind
<1>2. ASSUME NEW b \in Blade, Loops(b) PROVE TypeOK'
  <2>1. CASE ProbeTimeout(b)
    <3>0. [row[b] EXCEPT !.probe = "expired"] \in Row BY DEF TypeOK, Row
    <3>1. row' \in [Blade -> Row] BY <2>1, <3>0, UpdateTyped DEF ProbeTimeout
    <3> QED BY <2>1, <3>1 DEF TypeOK, ProbeTimeout
  <2>2. CASE probeExpire(b)
    <3>1. row' \in [Blade -> Row]
      BY <2>2, ProbeClearedTyped DEF TypeOK, probeExpire, Update
    <3>2. cmds' \in [Blade -> SUBSET Kind] BY <2>2 DEF TypeOK, probeExpire, WithoutReboot
    <3> QED BY <2>2, <3>1, <3>2, SyncTyped DEF TypeOK, probeExpire
  <2>3. CASE probeSend(b)
    <3>0. [row[b] EXCEPT !.sent = TRUE] \in Row BY DEF TypeOK, Row
    <3>1. row' \in [Blade -> Row] BY <2>3, <3>0, UpdateTyped DEF probeSend
    <3> QED BY <2>3, <3>1 DEF TypeOK, probeSend, queueCommand, Kind
  <2>4. CASE sweepOffline(b)
    <3>0. [row[b] EXCEPT !.state = "offline"] \in Row BY DEF TypeOK, Row, State
    <3>1. row' \in [Blade -> Row] BY <2>4, <3>0, UpdateTyped DEF sweepOffline
    <3> QED BY <2>4, <3>1 DEF TypeOK, sweepOffline
  <2> QED BY <1>2, <2>1, <2>2, <2>3, <2>4 DEF Loops
<1>3. ASSUME NEW b \in Blade, Wire(b) PROVE TypeOK'
  <2>1. CASE touchNetboot(b)
    BY <2>1 DEF TypeOK, touchNetboot, Session
  <2>2. CASE hEnroll(b)
    BY <2>2, NewRowTyped DEF TypeOK, hEnroll
  <2>3. CASE hBladeStatus(b)
    <3>0. [row[b] EXCEPT !.state = IF @ = "provisioning" THEN @ ELSE "online"] \in Row
      BY DEF TypeOK, Row, State
    <3>1. row' \in [Blade -> Row] BY <2>3, <3>0, UpdateTyped DEF hBladeStatus
    <3> QED BY <2>3, <3>1 DEF TypeOK, hBladeStatus
  <2>4. ASSUME NEW taken \in SUBSET Kind, hBladeCommands(b, taken) PROVE TypeOK'
    BY <2>4 DEF TypeOK, hBladeCommands
  <2>5. CASE hProvision(b)
    <3>1. row' \in [Blade -> Row]
      BY <2>5, CheckedTyped, HandedOutTyped DEF TypeOK, hProvision, Update
    <3>2. cmds' \in [Blade -> SUBSET Kind] BY <2>5 DEF TypeOK, hProvision, WithoutReboot
    <3>3. sess' \in [Blade -> Session] BY <2>5 DEF TypeOK, hProvision, Session
    <3> QED BY <2>5, <3>1, <3>2, <3>3, SyncTyped DEF TypeOK, hProvision
  <2>6. ASSUME NEW phase \in Phase, hProvisionStatus(b, phase) PROVE TypeOK'
    <3>1. row' \in [Blade -> Row]
      BY <2>6, ReportedTyped DEF TypeOK, hProvisionStatus
    <3> QED BY <2>6, <3>1, SyncTyped DEF TypeOK, hProvisionStatus
  <2> QED BY <1>3, <2>1, <2>2, <2>3, <2>4, <2>5, <2>6 DEF Wire
<1>4. CASE hDHCPSync
  BY <1>4, SyncTyped DEF TypeOK, hDHCPSync
<1> QED BY <1>0, <1>1, <1>2, <1>3, <1>4 DEF Next

\* Every value the centre keeps is one its columns allow, however people,
\* loops and blades interleave (server/db.go, the schema and the constants of
\* install_state).
THEOREM TypeCorrect == Spec => []TypeOK
BY InitTyped, TypeStep, PTL DEF Spec

-----------------------------------------------------------------------------
\* What one step may do to the blade it is about, as far as the invariants
\* can tell: the other rows, queues and sessions stay, a slot is kept, left or found
\* free, a sent restart has its arming, a row that is gone left nothing, and
\* the reservations are either written from the new rows or still agree.
Careful(b) ==
    /\ \A c \in Blade \ {b} : row'[c] = row[c] /\ cmds'[c] = cmds[c] /\ sess'[c] = sess[c]
    /\ row'[b].slot \in {row[b].slot, None} \/ Free(b, row'[b].slot)
    /\ row'[b].sent => row'[b].probe # "none"
    /\ ~row'[b].known => row'[b].slot = None /\ ~Netboot(row'[b]) /\ cmds'[b] = {} /\ ~sess'[b].linked
    /\ \/ syncDHCP
       \/ /\ resv' = resv /\ synced' = synced
          /\ LocalDHCP /\ synced =>
                          /\ ~row'[b].known => resv[b] = "absent"
                          /\ row'[b].probe # "expired" => resv[b] = ReservationOf(row'[b])

\* The induction hypothesis.  ReservationsFollow leans on ForgottenLeavesNothing
\* (a serial that enrols again starts without a reservation), which leans on
\* TypeOK and on nothing being armed for a row that is gone.
Safe == /\ TypeOK
        /\ OneBladePerSlot
        /\ ReservationsFollow
        /\ ForgottenLeavesNothing
        /\ SentBelongsToProbe

\* People, the loops and the wire are careful: one step per operation.
LEMMA PersonCareful == ASSUME Safe, NEW b \in Blade, Person(b) PROVE Careful(b)
<1> USE DEF Safe, TypeOK, Careful
<1>1. ASSUME NEW s \in Slot, assign(b, s) PROVE Careful(b)
  BY <1>1 DEF assign, Update, Row, SentBelongsToProbe
<1>2. CASE unassign(b)
  BY <1>2 DEF unassign, Update, Row, SentBelongsToProbe
<1>3. ASSUME NEW s \in Slot \cup {None}, NEW i \in Image \cup {None}, NEW st \in State, hBladeUpdate(b, s, i, st) PROVE Careful(b)
  BY <1>3 DEF hBladeUpdate, Update, Row, SentBelongsToProbe
<1>4. ASSUME NEW i \in Image \cup {None}, hUIBladeImage(b, i) PROVE Careful(b)
  BY <1>4 DEF hUIBladeImage, Update, Row, SentBelongsToProbe,
              ReservationsFollow, ReservationOf, Netboot, probeArmed
<1>5. ASSUME NEW c \in SUBSET Kind, requestInstall(b, c) PROVE Careful(b)
  BY <1>5 DEF requestInstall, Update, Row, SentBelongsToProbe
<1>6. ASSUME NEW i \in Image, chooseImage(b, i) PROVE Careful(b)
  <2>1. CASE /\ row[b].known
             /\ Update(b, [row[b] EXCEPT !.image = i, !.install = "pending"])
             /\ syncDHCP
    BY <1>6, <2>1 DEF chooseImage, Update, Row, Session, SentBelongsToProbe
  <2>2. CASE UNCHANGED <<row, resv, synced>>
    BY <1>6, <2>2 DEF chooseImage, Session, SentBelongsToProbe, ReservationsFollow,
                      ForgottenLeavesNothing
  <2> QED BY <1>6, <2>1, <2>2 DEF chooseImage
<1>7. CASE requestWipe(b)
  BY <1>7 DEF requestWipe, queueCommand, Update, Row, SentBelongsToProbe
<1>8. CASE cancelInstall(b)
  BY <1>8 DEF cancelInstall, Update, Row, SentBelongsToProbe
<1>9. CASE requestProbe(b)
  BY <1>9 DEF requestProbe, Update, Row
<1>10. CASE requestShutdown(b)
  BY <1>10 DEF requestShutdown, queueCommand, Update, Row, SentBelongsToProbe,
              ReservationsFollow, ReservationOf, Netboot, probeArmed
<1>11. CASE requestReboot(b)
  BY <1>11 DEF requestReboot, queueCommand, SentBelongsToProbe, ReservationsFollow
<1>12. CASE resetBlade(b)
  BY <1>12 DEF resetBlade, Update, NewRow, Netboot, probeArmed
<1>13. CASE forgetBlade(b)
  BY <1>13 DEF forgetBlade, Update, NewRow, NoSession, Netboot, probeArmed
<1> QED BY <1>1, <1>2, <1>3, <1>4, <1>5, <1>6, <1>7, <1>8, <1>9, <1>10, <1>11, <1>12, <1>13 DEF Person, Assigns, Orders, Kind

LEMMA LoopsCareful == ASSUME Safe, NEW b \in Blade, Loops(b) PROVE Careful(b)
<1> USE DEF Safe, TypeOK, Careful
<1>1. CASE ProbeTimeout(b)
  BY <1>1 DEF ProbeTimeout, Update, Row, ForgottenLeavesNothing, Netboot, probeArmed
<1>2. CASE probeExpire(b)
  BY <1>2 DEF probeExpire, ProbeCleared, WithoutReboot, Update, Row, ForgottenLeavesNothing, Netboot, probeArmed
<1>3. CASE probeSend(b)
  BY <1>3 DEF probeSend, queueCommand, Update, Row, ReservationsFollow, ReservationOf, Netboot, probeArmed, ForgottenLeavesNothing
<1>4. CASE sweepOffline(b)
  BY <1>4 DEF sweepOffline, Update, Row, SentBelongsToProbe,
              ReservationsFollow, ReservationOf, Netboot, probeArmed
<1> QED BY <1>1, <1>2, <1>3, <1>4 DEF Loops

LEMMA WireCareful == ASSUME Safe, NEW b \in Blade, Wire(b) PROVE Careful(b)
<1> USE DEF Safe, TypeOK, Careful
<1>1. CASE touchNetboot(b)
  BY <1>1 DEF touchNetboot, SentBelongsToProbe, ReservationsFollow, ForgottenLeavesNothing
<1>2. CASE hEnroll(b)
  BY <1>2, CentreAssumption DEF hEnroll, NewRow, ReservationOf, Netboot, probeArmed,
              SentBelongsToProbe, ReservationsFollow, ForgottenLeavesNothing
<1>3. CASE hBladeStatus(b)
  BY <1>3 DEF hBladeStatus, Update, Row, SentBelongsToProbe,
              ReservationsFollow, ReservationOf, Netboot, probeArmed
<1>4. ASSUME NEW taken \in SUBSET Kind, hBladeCommands(b, taken) PROVE Careful(b)
  BY <1>4 DEF hBladeCommands, SentBelongsToProbe, ReservationsFollow
<1>5. CASE hProvision(b)
  <2>1. PICK r : r = HandedOut(Checked(b)) OBVIOUS
  <2>2. /\ r.known /\ (row[b].known => r.slot = row[b].slot) /\ (~row[b].known => r.slot = None)
        /\ r.install = IF row[b].known THEN row[b].install ELSE "idle"
        /\ r.probe = "none" /\ (row[b].known /\ row[b].probe = "none" => r.sent = row[b].sent)
        /\ (~row[b].known \/ row[b].probe # "none" => ~r.sent)
    BY <2>1 DEF HandedOut, Checked, ProbeCleared, NewRow, Row
  <2>3. row' = [row EXCEPT ![b] = r] /\ row'[b] = r BY <1>5, <2>1 DEF hProvision, Update
  <2>4. /\ \A c \in Blade \ {b} : row'[c] = row[c] /\ cmds'[c] = cmds[c] /\ sess'[c] = sess[c]
        /\ row'[b].slot \in {row[b].slot, None}
        /\ row'[b].sent => row'[b].probe # "none"
    BY <1>5, <2>2, <2>3 DEF hProvision, WithoutReboot, SentBelongsToProbe
  <2>5. CASE row[b].known /\ row[b].probe # "none"
    BY <1>5, <2>2, <2>3, <2>4, <2>5 DEF hProvision
  <2>6. CASE ~(row[b].known /\ row[b].probe # "none")
    <3>1. resv' = resv /\ synced' = synced BY <1>5, <2>6 DEF hProvision
    <3>2. ASSUME LocalDHCP, synced PROVE resv[b] = ReservationOf(r)
      <4>1. CASE row[b].known
        BY <2>2, <2>6, <3>2, <4>1 DEF ReservationsFollow, ReservationOf, Netboot, probeArmed
      <4>2. CASE ~row[b].known
        BY <2>2, <3>2, <4>2, CentreAssumption DEF ForgottenLeavesNothing, ReservationOf
      <4> QED BY <4>1, <4>2
    <3> QED BY <2>2, <2>3, <2>4, <3>1, <3>2
  <2> QED BY <2>5, <2>6
<1>6. ASSUME NEW phase \in Phase, hProvisionStatus(b, phase) PROVE Careful(b)
  BY <1>6 DEF hProvisionStatus, Reported, Phase, Row, ReservationOf, Netboot, probeArmed,
              SentBelongsToProbe, ReservationsFollow, ForgottenLeavesNothing
<1> QED BY <1>1, <1>2, <1>3, <1>4, <1>5, <1>6 DEF Wire

\* A careful step keeps the hypothesis.
LEMMA CarefulKeepsSafe == ASSUME Safe, TypeOK', NEW b \in Blade, Careful(b) PROVE Safe'
<1>1. OneBladePerSlot'
  BY DEF Safe, TypeOK, Careful, Free, OneBladePerSlot, Row
<1>2. SentBelongsToProbe'
  BY DEF Safe, Careful, SentBelongsToProbe
<1>3. ReservationsFollow'
  BY DEF Safe, TypeOK, Careful, syncDHCP, SyncEnds, SyncGivesUp, ReservationsFollow
<1>4. ForgottenLeavesNothing'
  BY DEF Safe, TypeOK, Careful, syncDHCP, SyncEnds, SyncGivesUp, ReservationOf, ForgottenLeavesNothing
<1> QED BY <1>1, <1>2, <1>3, <1>4 DEF Safe

LEMMA SafeStep == Safe /\ [Next]_cvars => Safe'
<1> SUFFICES ASSUME Safe, [Next]_cvars PROVE Safe'
    OBVIOUS
<1>1. TypeOK' BY TypeStep DEF Safe
<1>2. CASE UNCHANGED cvars
  BY <1>2 DEF cvars, Safe, TypeOK, OneBladePerSlot, ReservationsFollow,
              ForgottenLeavesNothing, SentBelongsToProbe
<1>3. ASSUME NEW b \in Blade, Person(b) \/ Loops(b) \/ Wire(b) PROVE Safe'
  <2>1. Careful(b) BY <1>3, PersonCareful, LoopsCareful, WireCareful
  <2> QED BY <1>1, <2>1, CarefulKeepsSafe
<1>4. CASE hDHCPSync
  <2>1. UNCHANGED <<row, cmds, sess>> BY <1>4 DEF hDHCPSync
  <2>2. ReservationsFollow' /\ ForgottenLeavesNothing'
    BY <1>4, <2>1 DEF Safe, TypeOK, hDHCPSync, syncDHCP, SyncEnds, SyncGivesUp, ReservationOf,
                      ReservationsFollow, ForgottenLeavesNothing
  <2> QED BY <1>1, <2>1, <2>2 DEF Safe, OneBladePerSlot, SentBelongsToProbe
<1> QED BY <1>2, <1>3, <1>4 DEF Next

LEMMA SafeAlways == Spec => []Safe
<1>1. Init => Safe
  BY InitTyped DEF Init, NoSession, Safe, OneBladePerSlot, ReservationsFollow, ForgottenLeavesNothing,
                   SentBelongsToProbe, NewRow, ReservationOf, Netboot, probeArmed
<1> QED BY <1>1, SafeStep, PTL DEF Spec

\* Two ways of placing a blade and every report in between: never two blades
\* in one position, for any number of both (server/ipam.go placeBlade,
\* server/api.go hBladeUpdate).
THEOREM SlotsAreExclusive == Spec => []OneBladePerSlot
BY SafeAlways, PTL DEF Safe

\* Where the centre owns the wire, and once a syncDHCP has come to its end,
\* what dnsmasq was given is what the rows say, whatever earlier calls left
\* half done (server/ipam.go syncDHCP at the end of every path that matters).
THEOREM ReservationsAreCurrent == Spec => []ReservationsFollow
BY SafeAlways, PTL DEF Safe

\* Delete means delete: a serial that is not in the table has no position, no
\* armed job, no command and, after a syncDHCP that came to its end, no
\* reservation (server/db.go forgetBlade).
THEOREM NothingOutlivesForget == Spec => []ForgottenLeavesNothing
BY SafeAlways, PTL DEF Safe

\* The mark of a sent restart never outlives its arming (server/db.go
\* probeStep, clearProbe).
THEOREM SentHasItsProbe == Spec => []SentBelongsToProbe
BY SafeAlways, PTL DEF Safe

-----------------------------------------------------------------------------
\* Neither a loop nor a blade touches another row, and what they write into
\* this one arms nothing.
Meek(b) ==
    /\ \A c \in Blade \ {b} : row'[c] = row[c]
    /\ row'[b].install \in {"pending", "wipe"} => row'[b].install = row[b].install

LEMMA LoopsMeek == ASSUME TypeOK, NEW b \in Blade, Loops(b) PROVE Meek(b)
<1> USE DEF TypeOK, Row, Meek, Update
<1>1. CASE ProbeTimeout(b) BY <1>1 DEF ProbeTimeout
<1>2. CASE probeExpire(b) BY <1>2 DEF probeExpire, ProbeCleared
<1>3. CASE probeSend(b) BY <1>3 DEF probeSend
<1>4. CASE sweepOffline(b) BY <1>4 DEF sweepOffline
<1> QED BY <1>1, <1>2, <1>3, <1>4 DEF Loops

LEMMA WireMeek == ASSUME Safe, NEW b \in Blade, Wire(b) PROVE Meek(b)
<1> USE DEF Safe, TypeOK, Row, Meek
<1>1. CASE touchNetboot(b) BY <1>1 DEF touchNetboot
<1>2. CASE hEnroll(b) BY <1>2 DEF hEnroll, NewRow, ForgottenLeavesNothing
<1>3. CASE hBladeStatus(b) BY <1>3 DEF hBladeStatus, Update
<1>4. ASSUME NEW taken \in SUBSET Kind, hBladeCommands(b, taken) PROVE Meek(b)
  BY <1>4 DEF hBladeCommands
<1>5. CASE hProvision(b)
  BY <1>5 DEF hProvision, HandedOut, Checked, ProbeCleared, Update, NewRow, ForgottenLeavesNothing
<1>6. ASSUME NEW phase \in Phase, hProvisionStatus(b, phase) PROVE Meek(b)
  <2>1. CASE phase = "wiped" BY <1>6, <2>1 DEF hProvisionStatus, Reported
  <2>2. CASE phase # "wiped" BY <1>6, <2>2 DEF hProvisionStatus, Reported, Phase
  <2> QED BY <2>1, <2>2
<1> QED BY <1>1, <1>2, <1>3, <1>4, <1>5, <1>6 DEF Wire

\* An installation or an erase is armed by a person and by nothing else, on
\* any number of blades (server/db.go requestInstall: "That is a deliberate
\* act").
THEOREM OnlyPeopleArm == Spec => ArmedByAPersonOnly
<1> DEFINE Armed == \A b \in Blade :
         row'[b].install \in {"pending", "wipe"} /\ row'[b].install # row[b].install
             => Person(b)
<1>1. Safe /\ [Next]_cvars => [Armed]_cvars
  <2> SUFFICES ASSUME Safe, Next PROVE Armed
      OBVIOUS
  <2>1. ASSUME NEW b \in Blade, Person(b) PROVE Armed
    <3>1. Careful(b) BY <2>1, PersonCareful
    <3> QED BY <2>1, <3>1 DEF Careful
  <2>2. ASSUME NEW b \in Blade, Loops(b) \/ Wire(b) PROVE Armed
    <3>1. Meek(b) BY <2>2, LoopsMeek, WireMeek DEF Safe
    <3> QED BY <3>1 DEF Meek
  <2>3. CASE hDHCPSync
    BY <2>3 DEF hDHCPSync
  <2> QED BY <2>1, <2>2, <2>3 DEF Next
<1> QED BY <1>1, SafeAlways, PTL DEF Spec, ArmedByAPersonOnly

-----------------------------------------------------------------------------
\* The whole loop.

\* Whoever is about to report the end of a job has done it.
Finished == \A b \in Blade : /\ pc[b] = "done" => disk[b] = "system"
                             /\ pc[b] = "wiped" => disk[b] = "blank"

Machines == /\ pc \in [Blade -> Doing]
            /\ disk \in [Blade -> {"blank", "system", "half"}]
            /\ auth \in [Blade -> BOOLEAN]
            /\ Finished

Copy == [held : BOOLEAN, netboot : BOOLEAN, image : Image \cup {None}, install : Install]

\* A hand-over has something to hand over, and where the centre owns the wire
\* no relay keeps anything.
Sites == /\ link \in BOOLEAN
         /\ cache \in [Blade -> Copy]
         /\ stamped \in [Blade -> BOOLEAN]
         /\ queue \in Seq(Report) /\ Len(queue) <= MaxQueue
         /\ draining \in BOOLEAN
         /\ draining => queue # <<>>
         /\ LocalDHCP => queue = <<>>

Budgets == asks \in 0..MaxAsks /\ faults \in 0..MaxFaults

FleetInv == Safe /\ Machines /\ Sites /\ Budgets

LEMMA SiteDesiredTyped == ASSUME NEW r \in Row PROVE siteDesired(r) \in Copy
<1>1. Netboot(r) \in BOOLEAN BY DEF Netboot
<1>2. r.image \in Image \cup {None} /\ r.install \in Install BY DEF Row
<1>3. NotHeld \in Copy BY DEF NotHeld, Copy, Install
<1>4. [held |-> TRUE, netboot |-> Netboot(r), image |-> r.image, install |-> r.install] \in Copy
  BY <1>1, <1>2 DEF Copy
<1> QED BY <1>3, <1>4 DEF siteDesired

LEMMA FleetInitially == FleetInit => FleetInv
<1> SUFFICES ASSUME FleetInit PROVE FleetInv
    OBVIOUS
<1>1. Safe
  <2>1. CASE Fresh
    <3>1. Init BY <2>1 DEF Fresh
    <3> QED
      BY <3>1, InitTyped DEF Init, NoSession, Safe, OneBladePerSlot, ReservationsFollow,
         ForgottenLeavesNothing, SentBelongsToProbe, NewRow, ReservationOf, Netboot, probeArmed
  <2>2. CASE InService
    <3>1. PICK at \in [Blade -> Served], i \in Catalogue :
            /\ \A b, c \in Blade : b # c => at[b] # at[c]
            /\ row = [b \in Blade |-> [NewRow EXCEPT !.slot = at[b], !.image = i,
                                                     !.state = "online", !.install = "done"]]
            /\ cmds = [b \in Blade |-> {}]
            /\ sess = [b \in Blade |-> [seen |-> TRUE, linked |-> TRUE, image |-> None]]
            /\ resv = [b \in Blade |-> "plain"]
            /\ synced = TRUE
      BY <2>2 DEF InService
    <3>2. ASSUME NEW b \in Blade
          PROVE  /\ row[b] \in Row /\ row[b].known /\ row[b].slot = at[b] /\ row[b].install = "done"
                 /\ row[b].probe = "none" /\ ~row[b].sent /\ at[b] \in Served
      <4>1. at[b] \in Slot /\ i \in Image /\ at[b] # None BY CentreAssumption
      <4>2. row[b] = [NewRow EXCEPT !.slot = at[b], !.image = i, !.state = "online", !.install = "done"]
        BY <3>1
      <4> QED BY <4>1, <4>2 DEF NewRow, Row, State, Install
    <3>3. TypeOK
      <4>1. row \in [Blade -> Row] BY <3>1, <3>2
      <4>2. cmds \in [Blade -> SUBSET Kind] BY <3>1
      <4>3. sess \in [Blade -> Session] BY <3>1 DEF Session
      <4>4. resv \in [Blade -> Reservation] BY <3>1 DEF Reservation
      <4> QED BY <3>1, <4>1, <4>2, <4>3, <4>4 DEF TypeOK
    <3>4. OneBladePerSlot
      <4> SUFFICES ASSUME NEW b \in Blade, NEW c \in Blade, b # c PROVE row[b].slot # row[c].slot
          BY DEF OneBladePerSlot
      <4>1. row[b].slot = at[b] /\ row[c].slot = at[c] BY <3>2
      <4>2. at[b] # at[c] BY <3>1
      <4> QED BY <4>1, <4>2
    <3>5. ReservationsFollow
      BY <3>1, <3>2 DEF ReservationsFollow, ReservationOf, Netboot, probeArmed
    <3>6. ForgottenLeavesNothing /\ SentBelongsToProbe
      BY <3>2 DEF ForgottenLeavesNothing, SentBelongsToProbe
    <3> QED BY <3>3, <3>4, <3>5, <3>6 DEF Safe
  <2> QED BY <2>1, <2>2 DEF FleetInit
<1>2. Machines
  BY DEF FleetInit, Fresh, InService, Machines, Finished, Doing
<1>3. Sites
  <2>1. cache \in [Blade -> Copy] BY <1>1, SiteDesiredTyped DEF FleetInit, Safe, TypeOK
  <2>2. queue \in Seq(Report) /\ Len(queue) <= MaxQueue /\ queue = <<>> /\ draining = FALSE
    BY FleetAssumption DEF FleetInit
  <2> QED BY <2>1, <2>2 DEF FleetInit, Sites
<1>4. Budgets
  BY FleetAssumption DEF FleetInit, Budgets
<1> QED BY <1>1, <1>2, <1>3, <1>4 DEF FleetInv

\* What a delivered report does is what the centre does with one.
LEMMA DeliverIsAWireStep ==
    ASSUME NEW q \in Report, Deliver(q)
    PROVE  q.blade \in Blade /\ (UNCHANGED cvars \/ Wire(q.blade))
<1>1. q.blade \in Blade /\ q.what \in Phase \cup {"status"} BY DEF Report
<1> QED BY <1>1 DEF Deliver, Wire

LEMMA HeadTyped == ASSUME Sites, draining PROVE Head(queue) \in Report /\ Tail(queue) \in Seq(Report)
                                                /\ Len(Tail(queue)) <= MaxQueue /\ ~LocalDHCP
<1>1. queue \in Seq(Report) /\ queue # <<>> /\ Len(queue) <= MaxQueue /\ MaxQueue \in Nat
  BY FleetAssumption DEF Sites
<1> QED BY <1>1 DEF Sites

\* Every step of the loop is a step of the centre or leaves it alone; only the
\* site's pass writes the reservations by itself.
LEMMA FleetStepOfCentre ==
    ASSUME FleetInv, FleetNext
    PROVE  [Next]_cvars \/ pass
<1>1. ASSUME NEW b \in Blade, Ask(b) \/ ProbeStep(b) \/ ProbeRunsOut(b) \/ Reap(b) PROVE Next
  BY <1>1 DEF Ask, ProbeStep, ProbeRunsOut, Reap, Next, Person, Loops
<1>9. ASSUME NEW b \in Blade, CommandsExpire(b) PROVE Next
  <2>1. hBladeCommands(b, {}) /\ {} \in SUBSET Kind BY <1>9 DEF CommandsExpire
  <2> QED BY <2>1 DEF Next, Wire
<1>2. ASSUME NEW b \in Blade, Boot(b) PROVE [Next]_cvars
  BY <1>2 DEF Boot, BootNet, BootDisk, Next, Wire
<1>3. ASSUME NEW b \in Blade, Agent(b) PROVE [Next]_cvars
  <2>1. cmds[b] \in SUBSET Kind BY DEF FleetInv, Safe, TypeOK
  <2> QED BY <1>3, <2>1 DEF Agent, report, runCommands, Next, Wire
<1>4. ASSUME NEW b \in Blade, Installer(b) PROVE [Next]_cvars
  BY <1>4 DEF Installer, waitForJob, idleRestart, startJob, finishJob, sayPhase, Next, Wire
<1>5. ASSUME NEW b \in Blade, Misfortune(b) PROVE [Next]_cvars
  <2>1. cmds[b] \in SUBSET Kind BY DEF FleetInv, Safe, TypeOK
  <2>2. CASE commandsLost(b)
    <3>1. PICK taken \in SUBSET cmds[b] : hBladeCommands(b, taken) BY <2>2 DEF commandsLost
    <3>2. taken \in SUBSET Kind BY <2>1
    <3> QED BY <3>1, <3>2 DEF Next, Wire
  <2>3. CASE ~commandsLost(b)
    BY <1>5, <2>3 DEF Misfortune, PowerCut, answerLost, checkTarget, failJob, reportLost, Next, Wire
  <2> QED BY <2>2, <2>3
<1>6. ASSUME NEW b \in Blade, PowerOn(b) PROVE [Next]_cvars
  BY <1>6 DEF PowerOn
<1>7. CASE drain \/ drainLost
  <2>1. Head(queue) \in Report /\ Deliver(Head(queue))
    BY <1>7, HeadTyped DEF FleetInv, drain, drainLost
  <2>2. Head(queue).blade \in Blade /\ (UNCHANGED cvars \/ Wire(Head(queue).blade))
    BY <2>1, DeliverIsAWireStep
  <2> QED BY <2>2 DEF Next
<1>8. CASE passLost \/ drainRefused \/ LinkDown \/ LinkUp
  BY <1>8 DEF passLost, drainRefused, LinkDown, LinkUp
<1> QED
  BY <1>1, <1>2, <1>3, <1>4, <1>5, <1>6, <1>7, <1>8, <1>9 DEF FleetNext, SitePass, SiteTrouble

LEMMA SafeInFleet == ASSUME FleetInv, FleetNext PROVE Safe'
<1>1. CASE [Next]_cvars
  BY <1>1, SafeStep DEF FleetInv
<1>2. CASE pass
  <2>1. UNCHANGED <<row, cmds, sess, synced>> /\ ~LocalDHCP /\ resv' = [b \in Blade |-> ReservationOf(row[b])]
    BY <1>2 DEF pass, Relayed
  <2>2. TypeOK'
    BY <2>1, ReservationTyped DEF FleetInv, Safe, TypeOK
  <2> QED
    BY <2>1, <2>2 DEF FleetInv, Safe, OneBladePerSlot, ReservationsFollow, ForgottenLeavesNothing,
                      SentBelongsToProbe
<1> QED BY <1>1, <1>2, FleetStepOfCentre

LEMMA FaultTyped == ASSUME Budgets, Fault PROVE faults' \in 0..MaxFaults
<1>1. MaxFaults \in Nat /\ faults \in 0..MaxFaults BY FleetAssumption DEF Budgets
<1>2. faults < MaxFaults /\ faults' = faults + 1 BY DEF Fault
<1> QED BY <1>1, <1>2

LEMMA BudgetsInFleet == ASSUME FleetInv, FleetNext PROVE Budgets'
<1>0. Budgets BY DEF FleetInv
<1>1. ASSUME NEW b \in Blade, Ask(b) PROVE Budgets'
  <2>1. MaxAsks \in Nat /\ asks \in 0..MaxAsks BY <1>0, FleetAssumption DEF Budgets
  <2>2. asks < MaxAsks /\ asks' = asks + 1 /\ faults' = faults BY <1>1 DEF Ask
  <2>3. asks' \in 0..MaxAsks BY <2>1, <2>2
  <2> QED BY <1>0, <2>2, <2>3 DEF Budgets
<1>2. CASE UNCHANGED <<asks, faults>>
  BY <1>0, <1>2 DEF Budgets
<1>3. CASE Fault /\ UNCHANGED asks
  BY <1>0, <1>3, FaultTyped DEF Budgets
<1>4. ASSUME NEW b \in Blade, \/ ProbeStep(b) \/ ProbeRunsOut(b) \/ Reap(b) \/ CommandsExpire(b)
                             \/ PowerOn(b) \/ Boot(b) \/ Agent(b)
      PROVE  UNCHANGED <<asks, faults>>
  BY <1>4 DEF ProbeStep, ProbeRunsOut, Reap, CommandsExpire, PowerOn, Boot, BootNet, BootDisk, Agent, report, runCommands
<1>5. ASSUME NEW b \in Blade, Installer(b) PROVE UNCHANGED <<asks, faults>>
  BY <1>5 DEF Installer, waitForJob, idleRestart, startJob, finishJob, sayPhase
<1>6. ASSUME NEW b \in Blade, Misfortune(b) PROVE Fault /\ UNCHANGED asks
  BY <1>6 DEF Misfortune, PowerCut, commandsLost, answerLost, checkTarget, failJob, reportLost
<1>7. CASE SitePass
  BY <1>2, <1>7 DEF SitePass, pass, drain
<1>8. CASE SiteTrouble
  BY <1>2, <1>3, <1>8 DEF SiteTrouble, passLost, drainLost, drainRefused, LinkDown, LinkUp
<1> QED BY <1>1, <1>2, <1>3, <1>4, <1>5, <1>6, <1>7, <1>8 DEF FleetNext

\* A blade that goes on with its disk as it is, and not to the end of a job.
LEMMA GoesOn ==
    ASSUME Machines, NEW b \in Blade, NEW where \in Doing \ {"done", "wiped"}, Goes(b, where),
           UNCHANGED disk, auth' \in [Blade -> BOOLEAN]
    PROVE  Machines'
<1>1. pc' \in [Blade -> Doing] /\ pc'[b] = where /\ \A c \in Blade : c # b => pc'[c] = pc[c]
  BY DEF Machines, Goes
<1>2. Finished' BY <1>1 DEF Machines, Finished
<1> QED BY <1>1, <1>2 DEF Machines

LEMMA SameMachines == ASSUME Machines, UNCHANGED <<pc, disk>>, auth' \in [Blade -> BOOLEAN] PROVE Machines'
BY DEF Machines, Finished

LEMMA MachinesInFleet == ASSUME FleetInv, FleetNext PROVE Machines'
<1>0. Machines /\ auth \in [Blade -> BOOLEAN] BY DEF FleetInv, Machines
<1>1. ASSUME NEW b \in Blade, Ask(b) PROVE Machines'
  <2>1. auth' = [auth EXCEPT ![b] = @ /\ row'[b].known] /\ UNCHANGED <<pc, disk>> BY <1>1 DEF Ask
  <2>2. auth' \in [Blade -> BOOLEAN] BY <1>0, <2>1
  <2> QED BY <1>0, <2>1, <2>2, SameMachines
<1>2. ASSUME UNCHANGED machine PROVE Machines'
  BY <1>0, <1>2, SameMachines DEF machine
<1>3. ASSUME NEW b \in Blade, NEW where \in Doing \ {"done", "wiped"}, Goes(b, where), UNCHANGED <<disk, auth>>
      PROVE  Machines'
  BY <1>0, <1>3, GoesOn
<1>4. ASSUME NEW b \in Blade, ProbeStep(b) \/ ProbeRunsOut(b) \/ Reap(b) \/ CommandsExpire(b)
      PROVE  UNCHANGED machine
  BY <1>4 DEF ProbeStep, ProbeRunsOut, Reap, CommandsExpire
<1>5. ASSUME NEW b \in Blade, PowerOn(b) \/ Boot(b) PROVE Machines'
  BY <1>3, <1>5 DEF PowerOn, Boot, BootNet, BootDisk, Doing
<1>6. ASSUME NEW b \in Blade, Agent(b) PROVE Machines'
  <2>1. CASE report(b)
    BY <1>3, <2>1 DEF report, Doing
  <2>2. CASE runCommands(b)
    BY <1>3, <2>2 DEF runCommands, GoesTo, Outcome, Doing
  <2> QED BY <1>6, <2>1, <2>2 DEF Agent
<1>7. ASSUME NEW b \in Blade, waitForJob(b) PROVE Machines'
  <2>1. \A a : Told(a) \in Doing \ {"done", "wiped"} BY DEF Told, Doing
  <2> QED BY <1>3, <1>7, <2>1 DEF waitForJob, GoesTo
<1>8. ASSUME NEW b \in Blade, idleRestart(b) PROVE Machines'
  BY <1>3, <1>8 DEF idleRestart, Doing
<1>9. ASSUME NEW b \in Blade, sayPhase(b) \/ reportLost(b) PROVE Machines'
  <2>1. After(pc[b]) \subseteq Doing \ {"done", "wiped"} BY DEF After, Doing
  <2> QED BY <1>3, <1>9, <2>1 DEF sayPhase, reportLost, GoesTo
<1>10. ASSUME NEW b \in Blade, startJob(b) PROVE Machines'
  <2>1. PICK where : where = IF pc[b] = "go" THEN "writing" ELSE "wiping" OBVIOUS
  <2>2. where \in Doing /\ where # "done" /\ where # "wiped" BY <2>1 DEF Doing
  <2>3. pc' = [pc EXCEPT ![b] = where] /\ disk' = [disk EXCEPT ![b] = "half"]
        /\ auth' = [auth EXCEPT ![b] = row[b].known]
    BY <1>10, <2>1 DEF startJob, Goes
  <2>4. row[b].known \in BOOLEAN BY DEF FleetInv, Safe, TypeOK, Row
  <2>5. pc' \in [Blade -> Doing] /\ disk' \in [Blade -> {"blank", "system", "half"}] /\ auth' \in [Blade -> BOOLEAN]
    BY <1>0, <2>2, <2>3, <2>4 DEF Machines
  <2>6. Finished' BY <1>0, <2>2, <2>3 DEF Machines, Finished
  <2> QED BY <2>5, <2>6 DEF Machines
<1>11. ASSUME NEW b \in Blade, finishJob(b) PROVE Machines'
  <2>1. pc[b] \in {"writing", "wiping"} /\ UNCHANGED auth BY <1>11 DEF finishJob
  <2>2. CASE pc[b] = "writing"
    <3>1. pc' = [pc EXCEPT ![b] = "done"] /\ disk' = [disk EXCEPT ![b] = "system"]
      BY <1>11, <2>2 DEF finishJob, Goes
    <3> QED BY <1>0, <2>1, <3>1 DEF Machines, Finished, Doing
  <2>3. CASE pc[b] = "wiping"
    <3>1. pc' = [pc EXCEPT ![b] = "wiped"] /\ disk' = [disk EXCEPT ![b] = "blank"]
      BY <1>11, <2>3 DEF finishJob, Goes
    <3> QED BY <1>0, <2>1, <3>1 DEF Machines, Finished, Doing
  <2> QED BY <2>1, <2>2, <2>3
<1>12. ASSUME NEW b \in Blade, Misfortune(b) PROVE Machines'
  <2>1. CASE PowerCut(b) \/ checkTarget(b) \/ failJob(b)
    BY <1>3, <2>1 DEF PowerCut, checkTarget, failJob, Doing
  <2>2. CASE commandsLost(b)
    BY <1>3, <2>2 DEF commandsLost, GoesTo, Outcome, Doing
  <2>3. CASE answerLost(b)
    BY <1>2, <2>3 DEF answerLost
  <2> QED BY <1>9, <1>12, <2>1, <2>2, <2>3 DEF Misfortune
<1>13. CASE SitePass \/ SiteTrouble
  BY <1>2, <1>13 DEF SitePass, pass, drain, SiteTrouble, passLost, drainLost, drainRefused, LinkDown, LinkUp
<1> QED
  BY <1>1, <1>2, <1>4, <1>5, <1>6, <1>7, <1>8, <1>9, <1>10, <1>11, <1>12, <1>13 DEF FleetNext, Installer

\* The relay's queue stays within its limit.
LEMMA KeepTyped ==
    ASSUME Sites, NEW b \in Blade, NEW what \in Phase \cup {"status"}, Keep(b, what)
    PROVE  queue' \in Seq(Report) /\ Len(queue') <= MaxQueue /\ queue' # <<>> /\ ~LocalDHCP
<1>1. PICK half : half = MaxQueue \div 2 OBVIOUS
<1>2. MaxQueue \in Nat \ {0} /\ half \in Nat /\ half < MaxQueue BY <1>1, FleetAssumption
<1>3. queue \in Seq(Report) /\ Len(queue) \in Nat /\ Len(queue) <= MaxQueue BY DEF Sites
<1>4. PICK kept : kept = IF Len(queue) >= MaxQueue
                         THEN SubSeq(queue, Len(queue) - half + 1, Len(queue)) ELSE queue
  OBVIOUS
<1>5. PICK r : r = [blade |-> b, what |-> what] OBVIOUS
<1>6. queue' = Append(kept, r) /\ ~LocalDHCP BY <1>1, <1>4, <1>5 DEF Keep, Relayed
<1>7. r \in Report BY <1>5 DEF Report
<1>8. kept \in Seq(Report) /\ Len(kept) < MaxQueue
  <2>1. CASE Len(queue) >= MaxQueue
    <3>1. Len(queue) = MaxQueue BY <1>2, <1>3, <2>1
    <3>2. Len(queue) - half + 1 \in 1..(Len(queue) + 1) BY <1>2, <3>1
    <3>3. kept = SubSeq(queue, Len(queue) - half + 1, Len(queue)) BY <1>4, <2>1
    <3>4. \A k \in (Len(queue) - half + 1)..Len(queue) : k \in 1..Len(queue) BY <1>3, <3>2
    <3>5. kept \in Seq(Report) /\ Len(kept) = half BY ONLY <1>2, <1>3, <3>1, <3>2, <3>3, <3>4
    <3> QED BY <1>2, <3>5
  <2>2. CASE ~(Len(queue) >= MaxQueue)
    BY <1>2, <1>3, <1>4, <2>2
  <2> QED BY <2>1, <2>2
<1> QED BY <1>2, <1>6, <1>7, <1>8

LEMMA SameSites == ASSUME Sites, UNCHANGED siteVars PROVE Sites'
BY DEF Sites, siteVars

LEMMA SitesInFleet == ASSUME FleetInv, FleetNext PROVE Sites'
<1>0. Sites BY DEF FleetInv
<1>1. ASSUME NEW b \in Blade, Ask(b) PROVE Sites'
  <2>1. stamped' \in [Blade -> BOOLEAN] BY <1>0, <1>1 DEF Ask, Sites
  <2> QED BY <1>0, <1>1, <2>1 DEF Ask, Sites
<1>2. ASSUME NEW b \in Blade, \/ ProbeStep(b) \/ ProbeRunsOut(b) \/ Reap(b) \/ CommandsExpire(b)
                             \/ PowerOn(b) \/ Boot(b)
      PROVE  UNCHANGED siteVars
  BY <1>2 DEF ProbeStep, ProbeRunsOut, Reap, CommandsExpire, PowerOn, Boot, BootNet, BootDisk
<1>3. ASSUME NEW b \in Blade, Misfortune(b) PROVE UNCHANGED siteVars
  BY <1>3 DEF Misfortune, PowerCut, commandsLost, answerLost, checkTarget, failJob, reportLost
<1>4. ASSUME UNCHANGED <<link, cache, stamped, draining>>,
             queue' = queue \/ \E b \in Blade, what \in Phase \cup {"status"} : Keep(b, what)
      PROVE  Sites'
  <2>1. CASE queue' = queue
    BY <1>0, <1>4, <2>1 DEF Sites
  <2>2. ASSUME NEW b \in Blade, NEW what \in Phase \cup {"status"}, Keep(b, what) PROVE Sites'
    <3>1. queue' \in Seq(Report) /\ Len(queue') <= MaxQueue /\ queue' # <<>> /\ ~LocalDHCP
      BY <1>0, <2>2, KeepTyped
    <3> QED BY <1>0, <1>4, <3>1 DEF Sites
  <2> QED BY <1>4, <2>1, <2>2
<1>5. ASSUME NEW b \in Blade, Agent(b) PROVE Sites'
  <2>1. CASE report(b)
    BY <1>4, <2>1 DEF report
  <2>2. CASE runCommands(b)
    BY <1>0, <2>2, SameSites DEF runCommands
  <2> QED BY <1>5, <2>1, <2>2 DEF Agent
<1>6. ASSUME NEW b \in Blade, Installer(b) PROVE Sites'
  <2>1. CASE sayPhase(b)
    BY <1>4, <2>1 DEF sayPhase
  <2>2. CASE waitForJob(b) \/ idleRestart(b) \/ startJob(b) \/ finishJob(b)
    BY <1>0, <2>2, SameSites DEF waitForJob, idleRestart, startJob, finishJob
  <2> QED BY <1>6, <2>1, <2>2 DEF Installer
<1>7. CASE pass
  <2>1. PICK d : d = [b \in Blade |-> siteDesired(row[b])] OBVIOUS
  <2>2. d \in [Blade -> Copy] BY <2>1, SiteDesiredTyped DEF FleetInv, Safe, TypeOK
  <2>3. cache' = d /\ stamped' \in {stamped, [b \in Blade |-> TRUE]} BY <1>7, <2>1 DEF pass
  <2>4. draining' = (queue # <<>>) /\ UNCHANGED <<link, queue>> BY <1>7 DEF pass
  <2> QED BY <1>0, <2>2, <2>3, <2>4 DEF Sites
<1>8. CASE drain \/ drainRefused
  <2>1. draining /\ queue' = Tail(queue) /\ draining' = (Tail(queue) # <<>>)
        /\ UNCHANGED <<link, cache, stamped>>
    BY <1>8 DEF drain, drainRefused
  <2>2. Tail(queue) \in Seq(Report) /\ Len(Tail(queue)) <= MaxQueue /\ ~LocalDHCP
    BY <1>0, <2>1, HeadTyped
  <2> QED BY <1>0, <2>1, <2>2 DEF Sites
<1>9. CASE passLost \/ drainLost \/ LinkDown \/ LinkUp
  <2>1. CASE passLost BY <1>0, <2>1 DEF passLost, Sites
  <2>2. CASE drainLost BY <1>0, <2>2 DEF drainLost, Sites
  <2>3. CASE LinkDown BY <1>0, <2>3 DEF LinkDown, Sites
  <2>4. CASE LinkUp BY <1>0, <2>4 DEF LinkUp, Sites
  <2> QED BY <1>9, <2>1, <2>2, <2>3, <2>4
<1> QED
  BY <1>0, <1>1, <1>2, <1>3, <1>5, <1>6, <1>7, <1>8, <1>9, SameSites DEF FleetNext, SitePass, SiteTrouble

LEMMA FleetStep == FleetInv /\ [FleetNext]_vars => FleetInv'
<1> SUFFICES ASSUME FleetInv, [FleetNext]_vars PROVE FleetInv'
    OBVIOUS
<1>1. CASE FleetNext
  BY <1>1, SafeInFleet, MachinesInFleet, SitesInFleet, BudgetsInFleet DEF FleetInv
<1>2. CASE UNCHANGED vars
  <2>1. Safe' BY <1>2, SafeStep DEF FleetInv, vars
  <2>2. Machines' BY <1>2, SameMachines DEF FleetInv, Machines, vars, machine
  <2>3. Sites' BY <1>2, SameSites DEF FleetInv, vars
  <2> QED BY <1>2, <2>1, <2>2, <2>3 DEF FleetInv, Budgets, vars
<1> QED BY <1>1, <1>2

\* In the whole loop, with a site or without one, the centre's invariants hold
\* as they do against arbitrary blades, whoever is about to report a finished
\* job has finished it, and the relay's queue keeps its limit.
THEOREM FleetInvariant == FleetSpec => []FleetInv
BY FleetInitially, FleetStep, PTL DEF FleetSpec

\* Rows, disks, copies and the queue keep their types in the whole loop, the
\* relay's limit among them (site/relay.go forwardOrQueue).
THEOREM FleetTypeCorrect == FleetSpec => []FleetTypeOK
<1>1. FleetInv => FleetTypeOK
  BY DEF FleetInv, Safe, Machines, Sites, Copy, Budgets, FleetTypeOK
<1> QED BY <1>1, FleetInvariant, PTL

\* Where the centre owns the wire, everything blades, agents and installers do
\* reaches its tables only through its own handlers and loops (server/api.go,
\* db.go): the loop implements the centre of module Centre, step by step.
THEOREM FleetImplementsCentre == ASSUME LocalDHCP PROVE FleetSpec => [][Next]_cvars
<1>1. FleetInv /\ [FleetNext]_vars => [Next]_cvars
  <2> SUFFICES ASSUME FleetInv, [FleetNext]_vars PROVE [Next]_cvars
      OBVIOUS
  <2>1. CASE FleetNext
    BY <2>1, FleetStepOfCentre DEF pass, Relayed
  <2>2. CASE UNCHANGED vars
    BY <2>2 DEF vars
  <2> QED BY <2>1, <2>2
<1> QED BY <1>1, FleetInvariant, PTL DEF FleetSpec

-----------------------------------------------------------------------------
\* Answers.

\* The centre hands out a job only where the row asks for it.
LEMMA AnswerNeedsTheRow ==
    ASSUME TypeOK, NEW b \in Blade
    PROVE  /\ AnswerFor(Checked(b)) = "go" => row[b].install = "pending"
           /\ AnswerFor(Checked(b)) = "wipe" => row[b].install = "wipe"
<1>1. PICK r : r = Checked(b) OBVIOUS
<1>2. r \in Row BY <1>1, CheckedTyped
<1>3. r.install = IF row[b].known THEN row[b].install ELSE "idle"
  BY <1>1 DEF Checked, ProbeCleared, NewRow, TypeOK, Row
<1>4. AnswerFor(r) = "go" => r.install = "pending" BY <1>2 DEF AnswerFor, Row
<1>5. AnswerFor(r) = "wipe" => r.install = "wipe" BY <1>2 DEF AnswerFor, Row
<1> QED BY <1>1, <1>3, <1>4, <1>5

\* A site whose copy is in step tells an installer what the centre would, for
\* any number of blades, images and slots and any catalogue (site/relay.go
\* provision: "the last decision the centre made").
THEOREM OfflineAsTheCentre == FleetSpec => []SameDecisionOffline
<1>1. FleetInv => SameDecisionOffline
  <2> SUFFICES ASSUME FleetInv, NEW b \in Blade, cache[b].held, cache[b] = siteDesired(row[b]),
                      row[b].image # None, ~probeArmed(row[b])
               PROVE  Told(SiteAnswer(cache[b])) = Told(AnswerFor(Checked(b)))
      BY DEF SameDecisionOffline
  <2>1. row[b] \in Row BY DEF FleetInv, Safe, TypeOK
  <2>2. row[b].known /\ row[b].slot \in Served BY DEF siteDesired, NotHeld
  <2>3. PICK d : d = cache[b] OBVIOUS
  <2>4. d.held /\ d.image = row[b].image /\ d.install = row[b].install
        /\ d.netboot = (row[b].install \in {"pending", "wipe"})
    BY <2>2, <2>3 DEF siteDesired, Netboot
  <2>5. PICK r : r = Checked(b) OBVIOUS
  <2>6. r.image = row[b].image /\ r.install = row[b].install
    BY <2>1, <2>2, <2>5 DEF Checked, ProbeCleared, Row
  <2>7. row[b].image \in Image /\ row[b].install \in Install BY <2>1 DEF Row
  <2>8. CASE row[b].install = "wipe"
    <3>1. SiteAnswer(d) = "wipe" BY <2>4, <2>8 DEF SiteAnswer
    <3>2. AnswerFor(r) = "wipe" BY <2>6, <2>7, <2>8 DEF AnswerFor
    <3> QED BY <2>3, <2>5, <3>1, <3>2
  <2>9. CASE row[b].install = "pending" /\ row[b].image \in Catalogue
    <3>1. SiteAnswer(d) = "go" BY <2>4, <2>9 DEF SiteAnswer
    <3>2. AnswerFor(r) = "go" BY <2>6, <2>7, <2>9 DEF AnswerFor
    <3> QED BY <2>3, <2>5, <3>1, <3>2
  <2>10. CASE row[b].install = "pending" /\ row[b].image \notin Catalogue
    <3>1. SiteAnswer(d) = "waiting" BY <2>4, <2>7, <2>10 DEF SiteAnswer
    <3>2. AnswerFor(r) = "failed" BY <2>6, <2>7, <2>10 DEF AnswerFor
    <3> QED BY <2>3, <2>5, <3>1, <3>2 DEF Told
  <2>11. CASE row[b].install \in {"idle", "done"}
    <3>1. SiteAnswer(d) = "idle" BY <2>4, <2>11 DEF SiteAnswer
    <3>2. AnswerFor(r) = "idle" BY <2>6, <2>7, <2>11 DEF AnswerFor
    <3> QED BY <2>3, <2>5, <3>1, <3>2
  <2> QED BY <2>7, <2>8, <2>9, <2>10, <2>11 DEF Install
<1> QED BY <1>1, FleetInvariant, PTL

\* Only the installer's question puts a job into a blade's hands.
LEMMA JobComesFromAnAnswer ==
    ASSUME FleetInv, FleetNext, NEW c \in Blade, pc'[c] # pc[c], pc'[c] \in {"go", "wipe"}
    PROVE  waitForJob(c)
<1>0. pc \in [Blade -> Doing] BY DEF FleetInv, Machines
<1>1. ASSUME NEW b \in Blade, NEW where \in Doing \ {"go", "wipe"}, Goes(b, where) PROVE FALSE
  BY <1>0, <1>1 DEF Goes
<1>2. CASE UNCHANGED pc
  BY <1>2
<1>3. ASSUME NEW b \in Blade, \/ Ask(b) \/ ProbeStep(b) \/ ProbeRunsOut(b)
                             \/ Reap(b) \/ CommandsExpire(b)
      PROVE  UNCHANGED pc
  BY <1>3 DEF Ask, ProbeStep, ProbeRunsOut, Reap, CommandsExpire, machine
<1>4. ASSUME NEW b \in Blade, PowerOn(b) \/ Boot(b) PROVE FALSE
  BY <1>1, <1>4 DEF PowerOn, Boot, BootNet, BootDisk, Doing
<1>5. ASSUME NEW b \in Blade, Agent(b) PROVE FALSE
  <2>1. CASE report(b) BY <1>1, <2>1 DEF report, Doing
  <2>2. CASE runCommands(b) BY <1>1, <2>2 DEF runCommands, GoesTo, Outcome, Doing
  <2> QED BY <1>5, <2>1, <2>2 DEF Agent
<1>6. ASSUME NEW b \in Blade, idleRestart(b) \/ startJob(b) \/ finishJob(b) PROVE FALSE
  BY <1>1, <1>6 DEF idleRestart, startJob, finishJob, Doing
<1>7. ASSUME NEW b \in Blade, sayPhase(b) \/ reportLost(b) PROVE FALSE
  <2>1. After(pc[b]) \subseteq Doing \ {"go", "wipe"} BY DEF After, Doing
  <2> QED BY <1>1, <1>7, <2>1 DEF sayPhase, reportLost, GoesTo
<1>8. ASSUME NEW b \in Blade, waitForJob(b) PROVE b = c
  BY <1>0, <1>8 DEF waitForJob, GoesTo, Goes
<1>9. ASSUME NEW b \in Blade, Misfortune(b) PROVE UNCHANGED pc
  <2>1. CASE PowerCut(b) \/ checkTarget(b) \/ failJob(b)
    BY <1>1, <2>1 DEF PowerCut, checkTarget, failJob, Doing
  <2>2. CASE commandsLost(b)
    BY <1>1, <2>2 DEF commandsLost, GoesTo, Outcome, Doing
  <2>3. CASE answerLost(b)
    BY <2>3 DEF answerLost, machine
  <2> QED BY <1>7, <1>9, <2>1, <2>2, <2>3 DEF Misfortune
<1>10. ASSUME SitePass \/ SiteTrouble PROVE UNCHANGED pc
  BY <1>10 DEF SitePass, pass, drain, SiteTrouble, passLost, drainLost, drainRefused, LinkDown, LinkUp, machine
<1> QED
  BY <1>2, <1>3, <1>4, <1>5, <1>6, <1>7, <1>8, <1>9, <1>10 DEF FleetNext, Installer

\* What the installer was told, and by whom.
LEMMA ToldBy ==
    ASSUME FleetInv, NEW c \in Blade, waitForJob(c)
    PROVE  \/ link /\ pc'[c] = Told(AnswerFor(Checked(c)))
           \/ ~link /\ ~LocalDHCP /\ \E a \in SiteAnswers(cache[c]) : pc'[c] = Told(a)
<1>0. pc \in [Blade -> Doing] BY DEF FleetInv, Machines
<1> QED BY <1>0 DEF waitForJob, Goes, GoesTo, Relayed

\* No blade takes an erase in hand that was not ordered, with the centre or
\* without it, for any number of blades (installer/main.go waitForJob,
\* site/relay.go provision).
THEOREM WipesAreOrdered == FleetSpec => WipeNeedsTheButton
<1> DEFINE Ordered == \A b \in Blade :
         pc[b] # "wipe" /\ pc'[b] = "wipe" =>
             \/ row[b].install = "wipe"
             \/ ~link /\ cache[b].install = "wipe"
<1>1. FleetInv /\ [FleetNext]_vars => [Ordered]_vars
  <2> SUFFICES ASSUME FleetInv, FleetNext, NEW b \in Blade, pc[b] # "wipe", pc'[b] = "wipe"
               PROVE  row[b].install = "wipe" \/ (~link /\ cache[b].install = "wipe")
      OBVIOUS
  <2>1. waitForJob(b) BY JobComesFromAnAnswer
  <2>2. CASE link /\ pc'[b] = Told(AnswerFor(Checked(b)))
    <3>1. AnswerFor(Checked(b)) = "wipe" BY <2>2 DEF Told
    <3> QED BY <3>1, AnswerNeedsTheRow DEF FleetInv, Safe
  <2>3. CASE ~link /\ \E a \in SiteAnswers(cache[b]) : pc'[b] = Told(a)
    <3>1. "wipe" \in SiteAnswers(cache[b]) BY <2>3 DEF Told
    <3>2. SiteAnswer(cache[b]) = "wipe" BY <3>1 DEF SiteAnswers
    <3>3. cache[b].install = "wipe" BY <3>2 DEF SiteAnswer
    <3> QED BY <2>3, <3>3
  <2> QED BY <2>1, <2>2, <2>3, ToldBy
<1> QED BY <1>1, FleetInvariant, PTL DEF FleetSpec, WipeNeedsTheButton

\* Where the centre owns the wire, no blade takes an installation in hand that
\* was not ordered (installer/main.go waitForJob: ""go" needs someone to press
\* the button").  Behind a site it does not hold: see the run of the offline
\* firmware reading.
THEOREM InstallationsAreOrdered == ASSUME LocalDHCP PROVE FleetSpec => GoNeedsTheButton
<1> DEFINE Ordered == \A b \in Blade :
         pc[b] # "go" /\ pc'[b] = "go" =>
             \/ row[b].install = "pending"
             \/ ~link /\ cache[b].install = "pending"
<1>1. FleetInv /\ [FleetNext]_vars => [Ordered]_vars
  <2> SUFFICES ASSUME FleetInv, FleetNext, NEW b \in Blade, pc[b] # "go", pc'[b] = "go"
               PROVE  row[b].install = "pending"
      OBVIOUS
  <2>1. waitForJob(b) BY JobComesFromAnAnswer
  <2>2. pc'[b] = Told(AnswerFor(Checked(b))) BY <2>1, ToldBy
  <2>3. AnswerFor(Checked(b)) = "go" BY <2>2 DEF Told
  <2> QED BY <2>3, AnswerNeedsTheRow DEF FleetInv, Safe
<1> QED BY <1>1, FleetInvariant, PTL DEF FleetSpec, GoNeedsTheButton

-----------------------------------------------------------------------------
\* Jobs, where the centre owns the wire.

\* What can change a blade's row: a person, a loop of the centre, its agent,
\* or its installer, which asks before a job and reports after one.
LEMMA WhoWritesTheRow ==
    ASSUME LocalDHCP, FleetInv, FleetNext, NEW c \in Blade
    PROVE  \/ row'[c] = row[c]
           \/ Asked(c) \/ Loops(c) \/ hBladeStatus(c)
           \/ hProvision(c) /\ pc[c] \in {"mini", "idle"}
           \/ hProvisionStatus(c, pc[c]) /\ pc[c] \in Phase
<1> DEFINE Goal == \/ row'[c] = row[c]
                   \/ Asked(c) \/ Loops(c) \/ hBladeStatus(c)
                   \/ hProvision(c) /\ pc[c] \in {"mini", "idle"}
                   \/ hProvisionStatus(c, pc[c]) /\ pc[c] \in Phase
<1>0. ASSUME NEW b \in Blade, b # c, Person(b) \/ Loops(b) \/ Wire(b) PROVE row'[c] = row[c]
  BY <1>0, PersonCareful, LoopsCareful, WireCareful DEF FleetInv, Careful
<1>1. ASSUME NEW b \in Blade, Ask(b) PROVE Goal
  <2>1. CASE Person(b)
    <3>1. asks' = asks + 1 BY <1>1 DEF Ask
    <3> QED BY <1>0, <2>1, <3>1 DEF Asked
  <2>2. CASE hDHCPSync
    BY <2>2 DEF hDHCPSync
  <2> QED BY <1>1, <2>1, <2>2 DEF Ask, Person
<1>7. ASSUME NEW b \in Blade, CommandsExpire(b) PROVE Goal
  BY <1>7 DEF CommandsExpire, hBladeCommands
<1>2. ASSUME NEW b \in Blade, ProbeStep(b) \/ ProbeRunsOut(b) \/ Reap(b) PROVE Goal
  <2>1. Loops(b) BY <1>2 DEF ProbeStep, ProbeRunsOut, Reap, Loops
  <2> QED BY <1>0, <2>1
<1>3. ASSUME NEW b \in Blade, PowerOn(b) \/ Boot(b) PROVE Goal
  BY <1>3 DEF PowerOn, Boot, BootNet, BootDisk, touchNetboot, cvars
<1>4. ASSUME NEW b \in Blade, Agent(b) PROVE Goal
  <2>1. CASE hBladeStatus(b)
    <3>1. Wire(b) BY <2>1 DEF Wire
    <3> QED BY <1>0, <2>1, <3>1
  <2>2. CASE row' = row
    BY <2>2
  <2>3. hBladeStatus(b) \/ row' = row
    BY <1>4 DEF Agent, report, runCommands, hBladeCommands, cvars
  <2> QED BY <2>1, <2>2, <2>3
<1>5. ASSUME NEW b \in Blade, Installer(b) \/ Misfortune(b) PROVE Goal
  <2>1. CASE hProvision(b) /\ pc[b] \in {"mini", "idle"}
    <3>1. Wire(b) BY <2>1 DEF Wire
    <3> QED BY <1>0, <2>1, <3>1
  <2>2. CASE hProvisionStatus(b, pc[b]) /\ pc[b] \in Phase
    <3>1. Wire(b) BY <2>2 DEF Wire
    <3> QED BY <1>0, <2>2, <3>1
  <2>3. CASE row' = row
    BY <2>3
  <2>4. ASSUME Installer(b)
        PROVE  \/ hProvision(b) /\ pc[b] \in {"mini", "idle"}
               \/ hProvisionStatus(b, pc[b]) /\ pc[b] \in Phase
               \/ row' = row
    BY <2>4 DEF Installer, waitForJob, idleRestart, startJob, finishJob, sayPhase, cvars
  <2>5. ASSUME Misfortune(b)
        PROVE  (hProvision(b) /\ pc[b] \in {"mini", "idle"}) \/ row' = row
    BY <2>5 DEF Misfortune, PowerCut, commandsLost, hBladeCommands, answerLost, checkTarget, failJob, reportLost, cvars
  <2> QED BY <1>5, <2>1, <2>2, <2>3, <2>4, <2>5
<1>6. CASE SitePass \/ SiteTrouble
  <2>1. ~draining BY DEF FleetInv, Sites
  <2> QED
    BY <1>6, <2>1 DEF SitePass, pass, drain, SiteTrouble, passLost, drainLost, drainRefused, LinkDown, LinkUp, Relayed, cvars
<1> QED BY <1>1, <1>2, <1>3, <1>4, <1>5, <1>6, <1>7 DEF FleetNext

\* Neither loop nor agent nor the installer's question spends a request or
\* ends a job.
LEMMA LoopsLeaveTheJob ==
    ASSUME TypeOK, NEW c \in Blade, Loops(c) \/ hBladeStatus(c)
    PROVE  /\ row'[c].install = row[c].install /\ row'[c].slot = row[c].slot
           /\ row'[c].known = row[c].known /\ row'[c].stored = row[c].stored
           /\ row[c].state = "provisioning" => row'[c].state = "provisioning"
<1> USE DEF TypeOK, Row, Update
<1>1. CASE ProbeTimeout(c) BY <1>1 DEF ProbeTimeout
<1>2. CASE probeExpire(c) BY <1>2 DEF probeExpire, ProbeCleared
<1>3. CASE probeSend(c) BY <1>3 DEF probeSend
<1>4. CASE sweepOffline(c) BY <1>4 DEF sweepOffline
<1>5. CASE hBladeStatus(c) BY <1>5 DEF hBladeStatus
<1> QED BY <1>1, <1>2, <1>3, <1>4, <1>5 DEF Loops

LEMMA QuestionLeavesTheJob ==
    ASSUME Safe, NEW c \in Blade, hProvision(c)
    PROVE  /\ row[c].install \in {"pending", "wipe"} => row'[c].install = row[c].install
           /\ row[c].slot # None => row'[c].slot = row[c].slot
BY DEF Safe, TypeOK, Row, hProvision, Update, HandedOut, Checked, ProbeCleared, NewRow,
       ForgottenLeavesNothing, Netboot

\* A disk that was left half-written keeps its job armed, for any number of
\* blades (server/api.go hProvisionStatus: "On failure the netboot stays armed
\* so a restart retries instead of booting from a half-written disk").
THEOREM HalfWrittenIsRetried == ASSUME LocalDHCP PROVE FleetSpec => HalfWrittenStaysArmed
<1> DEFINE Armed == \A b \in Blade :
         disk[b] = "half" /\ row[b].install \in {"pending", "wipe"}
             => row'[b].install \in {"pending", "wipe"} \/ Asked(b)
<1>1. FleetInv /\ [FleetNext]_vars => [Armed]_vars
  <2> SUFFICES ASSUME FleetInv, FleetNext, NEW b \in Blade,
                      disk[b] = "half", row[b].install \in {"pending", "wipe"}, ~Asked(b)
               PROVE  row'[b].install = row[b].install
      OBVIOUS
  <2>1. CASE Loops(b) \/ hBladeStatus(b) BY <2>1, LoopsLeaveTheJob DEF FleetInv, Safe
  <2>2. CASE hProvision(b) BY <2>2, QuestionLeavesTheJob DEF FleetInv
  <2>3. CASE hProvisionStatus(b, pc[b]) /\ pc[b] \in Phase
    <3>1. pc[b] = "error" BY <2>3 DEF Phase, FleetInv, Machines, Finished
    <3> QED BY <2>3, <3>1 DEF hProvisionStatus, Reported, FleetInv, Safe, TypeOK, Row
  <2> QED BY <2>1, <2>2, <2>3, WhoWritesTheRow
<1> QED BY <1>1, FleetInvariant, PTL DEF FleetSpec, HalfWrittenStaysArmed

\* The slot is freed only over an empty disk, or by a person (server/db.go
\* requestWipe, finishWipe).
THEOREM SlotsAreFreedEmpty == ASSUME LocalDHCP PROVE FleetSpec => SlotFreedWhenEmpty
<1> DEFINE Freed == \A b \in Blade :
         row[b].slot # None /\ row'[b].slot = None => Asked(b) \/ disk[b] = "blank"
<1>1. FleetInv /\ [FleetNext]_vars => [Freed]_vars
  <2> SUFFICES ASSUME FleetInv, FleetNext, NEW b \in Blade,
                      row[b].slot # None, row'[b].slot = None, ~Asked(b)
               PROVE  disk[b] = "blank"
      OBVIOUS
  <2>1. ~(Loops(b) \/ hBladeStatus(b)) BY LoopsLeaveTheJob DEF FleetInv, Safe
  <2>2. ~hProvision(b) BY QuestionLeavesTheJob DEF FleetInv
  <2>3. hProvisionStatus(b, pc[b]) /\ pc[b] \in Phase BY <2>1, <2>2, WhoWritesTheRow
  <2>4. pc[b] = "wiped"
    BY <2>3 DEF hProvisionStatus, Reported, Phase, FleetInv, Safe, TypeOK, Row
  <2> QED BY <2>4 DEF FleetInv, Machines, Finished
<1> QED BY <1>1, FleetInvariant, PTL DEF FleetSpec, SlotFreedWhenEmpty

\* What a person asks for may overrule the state of a busy blade, but neither
\* puts it aside nor forgets it.
LEMMA BusyBladesAreKept ==
    ASSUME TypeOK, NEW c \in Blade, Person(c), row[c].state = "provisioning", row[c].known
    PROVE  row'[c].known /\ (row'[c].stored => row[c].stored)
<1> DEFINE Kept == row'[c].known /\ (row'[c].stored => row[c].stored)
<1> USE DEF TypeOK, Row, Update
<1>1. ASSUME NEW s \in Slot, assign(c, s) PROVE Kept
  BY <1>1 DEF assign
<1>2. CASE unassign(c) BY <1>2 DEF unassign
<1>3. ASSUME NEW s \in Slot \cup {None}, NEW i \in Image \cup {None}, NEW st \in State,
             hBladeUpdate(c, s, i, st) PROVE Kept
  BY <1>3 DEF hBladeUpdate
<1>4. ASSUME NEW i \in Image \cup {None}, hUIBladeImage(c, i) PROVE Kept
  BY <1>4 DEF hUIBladeImage
<1>5. ASSUME resetBlade(c) \/ forgetBlade(c) PROVE FALSE
  BY <1>5 DEF resetBlade, forgetBlade
<1>6. ASSUME NEW k \in {{}, {"reimage"}}, requestInstall(c, k) PROVE Kept
  BY <1>6 DEF requestInstall
<1>7. ASSUME NEW i \in Image, chooseImage(c, i) PROVE Kept
  BY <1>7 DEF chooseImage
<1>8. CASE requestWipe(c) BY <1>8 DEF requestWipe
<1>9. CASE cancelInstall(c) BY <1>9 DEF cancelInstall
<1>10. CASE requestShutdown(c) \/ requestReboot(c) BY <1>10 DEF requestShutdown, requestReboot
<1>11. CASE requestProbe(c) BY <1>11 DEF requestProbe
<1> QED
  BY <1>1, <1>2, <1>3, <1>4, <1>5, <1>6, <1>7, <1>8, <1>9, <1>10, <1>11
  DEF Person, Assigns, Orders

\* While a job is in hand and the row says so, the blade is neither put aside
\* nor forgotten, and only a person overrules the state, for any number of
\* blades (server/db.go resetBlade, forgetBlade, server/api.go hBladeStatus).
THEOREM JobsAreProtected == ASSUME LocalDHCP PROVE FleetSpec => JobProtected
<1> DEFINE Busy(b) == pc[b] \in {"go", "wipe", "writing", "wiping"}
                          /\ row[b].known /\ row[b].state = "provisioning"
           Protected == \A b \in Blade : Busy(b) =>
             /\ row'[b].known
             /\ row'[b].stored => row[b].stored
             /\ row'[b].state = "provisioning" \/ Asked(b)
<1>1. FleetInv /\ [FleetNext]_vars => [Protected]_vars
  <2> SUFFICES ASSUME FleetInv, FleetNext, NEW b \in Blade, Busy(b)
               PROVE  /\ row'[b].known
                      /\ row'[b].stored => row[b].stored
                      /\ row'[b].state = "provisioning" \/ Asked(b)
      OBVIOUS
  <2>1. CASE Asked(b)
    BY <2>1, BusyBladesAreKept DEF Asked, FleetInv, Safe
  <2>2. CASE Loops(b) \/ hBladeStatus(b)
    BY <2>2, LoopsLeaveTheJob DEF FleetInv, Safe
  <2>3. pc[b] \notin {"mini", "idle"} /\ pc[b] \notin Phase BY DEF Phase
  <2>4. CASE row'[b] = row[b]
    BY <2>4
  <2> QED BY <2>1, <2>2, <2>3, <2>4, WhoWritesTheRow
<1> QED BY <1>1, FleetInvariant, PTL DEF FleetSpec, JobProtected
=============================================================================
