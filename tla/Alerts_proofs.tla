--------------------------- MODULE Alerts_proofs ----------------------------
(***************************************************************************)
(* Theorems about Alerts, for any number of blades, any hold time and any  *)
(* number of turns and troubles.                                           *)
(***************************************************************************)
EXTENDS Alerts, TLAPS

-----------------------------------------------------------------------------
\* The inductive invariant, blade by blade.

Silent == {"unknown", "gone"}
Listing == {"listed", "looking", "mail", "mark"}
Looking == {"looking", "mail", "mark"}

\* A row is never behind its own level: what was said is at least as bad.
Honest(al) == al.notified = "none" \/ ~worse(al.level, al.notified)

\* A row and the history as a finished pass leaves them.
Settled(b) ==
    /\ said[b] = rows[b].notified
    /\ rows[b] # NoAlert => rows[b].level = seen[b] /\ rows[b].age <= held[b]

\* A row, or the pass's copy of it, between the listing and the look at it.
Listed(b, al) ==
    /\ al.level = seen[b] => al.age <= held[b]
    /\ said[b] = IF worse(seen[b], al.notified) THEN "none" ELSE al.notified
    /\ seen[b] \in Silent => al = NoAlert

\* Where the pass is with this blade.
InStep(b) ==
    /\ at = "asleep" => Settled(b)
    /\ at = "awake" =>
          /\ said[b] = rows[b].notified
          /\ rows[b] # NoAlert => rows[b].level = seen[b] /\ rows[b].age <= Older(held[b])
    /\ at = "listed" => Listed(b, rows[b]) /\ (b \in left <=> seen[b] # "gone")
    /\ at \in Looking /\ b \in left => rows[b] = open[b] /\ Listed(b, open[b])
    /\ at = "mail" /\ b = about.blade => rows[b] = open[b] /\ Listed(b, open[b])
    /\ at = "mark" /\ b = about.blade =>
          /\ rows[b] = open[b] /\ (open[b].level = seen[b] => open[b].age <= held[b])
          /\ said[b] = IF seen[b] = "ok" THEN "none" ELSE seen[b]
    /\ at \in Looking /\ b \notin left /\ ~(at \in {"mail", "mark"} /\ b = about.blade) => Settled(b)

\* A blade without a verdict has no alert, and does not lose its verdict
\* behind the back of a pass.
Watched(b) ==
    /\ evalHealthWith(blade[b]) \in Silent => rows[b] = NoAlert
    /\ at \in Listing /\ seen[b] \notin Silent => evalHealthWith(blade[b]) \notin Silent

\* What the pass is writing about.
Writing ==
    at \in {"mail", "mark"} =>
        about.blade \notin left /\ about.level = seen[about.blade] /\ Due(open[about.blade], about.level)

OfBlade(b) ==
    /\ Honest(rows[b]) /\ (at \in Looking => Honest(open[b]))
    /\ blade[b].state = "online" => blade[b].health # "none"
    /\ ~blurred[b] => InStep(b) /\ Watched(b)

AlertsInv == AlertsTypeOK /\ Writing /\ \A b \in Blade : OfBlade(b)

-----------------------------------------------------------------------------
\* The world.

\* The verdict is one of the five.
LEMMA VerdictType ==
    ASSUME NEW s \in State
    PROVE  evalHealthWith(s) \in Verdict
  BY DEF evalHealthWith, State, Verdict, Bad

\* Nothing is said of one blade that a change of another touches.
LEMMA OtherBlade ==
    ASSUME NEW b \in Blade, OfBlade(b), UNCHANGED <<pass, held>>,
           blade'[b] = blade[b], rows'[b] = rows[b], said'[b] = said[b], blurred'[b] = blurred[b]
    PROVE  OfBlade(b)'
  BY DEF OfBlade, Honest, InStep, Settled, Listed, Watched, Due, pass

\* A turn of the world that types allow and that keeps what is said of its
\* blade keeps the invariant.
LEMMA TurnOfBlade ==
    ASSUME AlertsInv, Turn, NEW b \in Blade, NEW s \in State, Put(b, s), floor' = floor,
           \/ rows' = rows /\ said' = said
           \/ clearAlert(b) /\ said' = [said EXCEPT ![b] = "none"],
           \/ blurred' = blurred
           \/ \E yes \in BOOLEAN : blur(b, yes),
           OfBlade(b)'
    PROVE  AlertsInv'
  <1>1. blade' \in [Blade -> State] /\ \A c \in Blade \ {b} : blade'[c] = blade[c]
    BY DEF Put, AlertsInv, AlertsTypeOK
  <1>2. /\ rows' \in [Blade -> Alert \cup {NoAlert}] /\ said' \in [Blade -> {"none"} \cup Bad]
        /\ \A c \in Blade \ {b} : rows'[c] = rows[c] /\ said'[c] = said[c]
    BY DEF clearAlert, AlertsInv, AlertsTypeOK
  <1>3. blurred' \in [Blade -> BOOLEAN] /\ \A c \in Blade \ {b} : blurred'[c] = blurred[c]
    BY DEF blur, AlertsInv, AlertsTypeOK
  <1>4. turns' \in 0..MaxTurns /\ UNCHANGED <<pass, held, troubles>>
    BY AlertsAssumption DEF Turn, AlertsInv, AlertsTypeOK
  <1>5. AlertsTypeOK'
    BY <1>1, <1>2, <1>3, <1>4 DEF AlertsInv, AlertsTypeOK, pass
  <1>6. Writing'
    BY <1>4 DEF AlertsInv, Writing, pass, Due
  <1>7. \A c \in Blade : OfBlade(c)'
    <2>1. ASSUME NEW c \in Blade, c # b PROVE OfBlade(c)'
      BY <1>1, <1>2, <1>3, <1>4, <2>1, OtherBlade DEF AlertsInv
    <2> QED
      BY <2>1
  <1> QED
    BY <1>5, <1>6, <1>7 DEF AlertsInv

\* A turn that takes no verdict away: the watch need not know of it.
LEMMA VerdictStays ==
    ASSUME AlertsInv, Turn, NEW b \in Blade, NEW s \in State, Put(b, s), UNCHANGED <<floor, rows, said, blurred>>,
           evalHealthWith(s) \in Silent => evalHealthWith(blade[b]) \in Silent,
           s.state = "online" => s.health # "none"
    PROVE  AlertsInv'
  <1>1. blade'[b] = s
    BY DEF Put, AlertsInv, AlertsTypeOK
  <1>2. UNCHANGED <<pass, held>>
    BY DEF Turn
  <1>3. OfBlade(b)
    BY DEF AlertsInv
  <1>4. OfBlade(b)'
    BY <1>1, <1>2, <1>3 DEF OfBlade, Honest, InStep, Settled, Listed, Watched, Due, pass
  <1> QED
    BY <1>4, TurnOfBlade

\* A turn that does is noted, unless the watch sleeps and no alert is open.
LEMMA VerdictLost ==
    ASSUME AlertsInv, Turn, NEW b \in Blade, NEW s \in State, Put(b, s), UNCHANGED <<floor, rows, said>>,
           blur(b, rows[b] # NoAlert \/ at # "asleep"), s.state # "online"
    PROVE  AlertsInv'
  <1>1. blade'[b] = s /\ (blurred'[b] <=> blurred[b] \/ rows[b] # NoAlert \/ at # "asleep")
    BY DEF Put, blur, AlertsInv, AlertsTypeOK
  <1>2. UNCHANGED <<pass, held>>
    BY DEF Turn
  <1>3. OfBlade(b)
    BY DEF AlertsInv
  <1>4. OfBlade(b)'
    BY <1>1, <1>2, <1>3 DEF OfBlade, Honest, InStep, Settled, Listed, Watched, Due, pass, Listing, Looking
  <1>5. (rows[b] # NoAlert \/ at # "asleep") \in BOOLEAN
    OBVIOUS
  <1> QED
    BY <1>4, <1>5, TurnOfBlade

\* Setting a blade aside takes its alert down.
LEMMA SetAside ==
    ASSUME AlertsInv, NEW b \in Blade, NEW s \in State, setAside(b, s),
           s.state = "online" => s.health # "none"
    PROVE  AlertsInv'
  <1>1. /\ blade'[b] = s /\ rows'[b] = NoAlert /\ said'[b] = "none"
        /\ (blurred'[b] <=> blurred[b] \/ at # "asleep")
    BY DEF setAside, Put, clearAlert, blur, AlertsInv, AlertsTypeOK
  <1>2. UNCHANGED <<pass, held>>
    BY DEF setAside, Turn
  <1>3. OfBlade(b)
    BY DEF AlertsInv
  <1>4. OfBlade(b)'
    BY <1>1, <1>2, <1>3 DEF OfBlade, Honest, InStep, Settled, Listed, Watched, pass, Listing, Looking, NoAlert
  <1>5. (at # "asleep") \in BOOLEAN
    OBVIOUS
  <1> QED
    BY <1>4, <1>5, TurnOfBlade DEF setAside

LEMMA WorldSteps ==
    ASSUME AlertsInv, World
    PROVE  AlertsInv'
  <1>0. \A b \in Blade : blade[b] \in State /\ (blade[b].state = "online" => blade[b].health # "none")
    BY DEF AlertsInv, AlertsTypeOK, OfBlade
  <1>1. ASSUME NEW b \in Blade, NEW v \in {"ok"} \cup Bad, hBladeStatus(b, v) PROVE AlertsInv'
    <2> DEFINE s == [state |-> "online", health |-> v,
                     aside |-> IF blade[b].aside = "halted" THEN "no" ELSE blade[b].aside]
    <2>1. s \in State
      BY <1>0 DEF State, Bad
    <2>2. evalHealthWith(s) \in Silent => evalHealthWith(blade[b]) \in Silent
      BY <1>0, <1>1 DEF evalHealthWith, Silent, State, Bad, hBladeStatus
    <2>3. s.state = "online" => s.health # "none"
      BY DEF Bad
    <2>4. Turn /\ Put(b, s) /\ UNCHANGED <<floor, rows, said, blurred>>
      BY <1>1 DEF hBladeStatus
    <2> HIDE DEF s
    <2> QED
      BY <2>1, <2>2, <2>3, <2>4, VerdictStays
  <1>2. ASSUME NEW b \in Blade, NEW v \in {"ok"} \cup Bad, policyChanged(b, v) PROVE AlertsInv'
    <2> DEFINE s == [blade[b] EXCEPT !.health = v]
    <2>1. s \in State
      BY <1>0 DEF State, Bad
    <2>2. evalHealthWith(s) \in Silent => evalHealthWith(blade[b]) \in Silent
      BY <1>0, <1>2 DEF evalHealthWith, Silent, State, Bad, policyChanged
    <2>3. s.state = "online" => s.health # "none"
      BY <1>0 DEF Bad, State
    <2>4. Turn /\ Put(b, s) /\ UNCHANGED <<floor, rows, said, blurred>>
      BY <1>2 DEF policyChanged
    <2> HIDE DEF s
    <2> QED
      BY <2>1, <2>2, <2>3, <2>4, VerdictStays
  <1>3. ASSUME NEW b \in Blade, sweepOffline(b) PROVE AlertsInv'
    <2> DEFINE s == [blade[b] EXCEPT !.state = "offline"]
    <2>1. s \in State /\ s.state # "online"
      BY <1>0 DEF State
    <2>2. evalHealthWith(s) \in Silent => evalHealthWith(blade[b]) \in Silent
      BY <1>0, <1>3 DEF evalHealthWith, Silent, State, Bad, sweepOffline
    <2>3. Turn /\ Put(b, s) /\ UNCHANGED <<floor, rows, said, blurred>>
      BY <1>3 DEF sweepOffline
    <2> HIDE DEF s
    <2> QED
      BY <2>1, <2>2, <2>3, VerdictStays
  <1>4. ASSUME NEW b \in Blade, placeBlade(b) PROVE AlertsInv'
    <2> DEFINE s == [blade[b] EXCEPT !.aside = "no"]
    <2>1. s \in State /\ (s.state = "online" => s.health # "none")
      BY <1>0 DEF State
    <2>2. evalHealthWith(blade[b]) \in Silent
      BY <1>0, <1>4 DEF evalHealthWith, Silent, State, placeBlade
    <2>3. Turn /\ Put(b, s) /\ UNCHANGED <<floor, rows, said, blurred>>
      BY <1>4 DEF placeBlade
    <2> HIDE DEF s
    <2> QED
      BY <2>1, <2>2, <2>3, VerdictStays
  <1>5. ASSUME NEW b \in Blade, takeOut(b) PROVE AlertsInv'
    <2> DEFINE s == [blade[b] EXCEPT !.state = "new"]
    <2>1. s \in State /\ s.state # "online"
      BY <1>0 DEF State
    <2>2. evalHealthWith(s) \in Silent => evalHealthWith(blade[b]) \in Silent
      BY <1>0, <1>5 DEF evalHealthWith, Silent, State, Bad, takeOut
    <2>3. Turn /\ Put(b, s) /\ UNCHANGED <<floor, rows, said, blurred>>
      BY <1>5 DEF takeOut
    <2> HIDE DEF s
    <2> QED
      BY <2>1, <2>2, <2>3, VerdictStays
  <1>6. ASSUME NEW b \in Blade, finishWipe(b) PROVE AlertsInv'
    <2> DEFINE s == [blade[b] EXCEPT !.state = "new", !.health = "none"]
    <2>1. s \in State /\ s.state # "online"
      BY <1>0 DEF State
    <2>2. /\ Turn /\ Put(b, s) /\ UNCHANGED <<floor, rows, said>>
          /\ blur(b, rows[b] # NoAlert \/ at # "asleep")
      BY <1>6 DEF finishWipe
    <2> HIDE DEF s
    <2> QED
      BY <2>1, <2>2, VerdictLost
  <1>7. ASSUME NEW b \in Blade, discovered(b) PROVE AlertsInv'
    <2> DEFINE s == [state |-> "new", aside |-> "no", health |-> "none"]
    <2>1. s \in State /\ s.state # "online"
      BY DEF State
    <2>2. /\ Turn /\ Put(b, s) /\ UNCHANGED <<floor, rows, said>>
          /\ blur(b, rows[b] # NoAlert \/ at # "asleep")
      BY <1>7 DEF discovered, blur
    <2> HIDE DEF s
    <2> QED
      BY <2>1, <2>2, VerdictLost
  <1>8. ASSUME NEW b \in Blade, requestShutdown(b) \/ resetBlade(b) \/ forgetBlade(b) PROVE AlertsInv'
    <2>1. /\ [blade[b] EXCEPT !.aside = "halted"] \in State
          /\ [blade[b] EXCEPT !.aside = "halted"].state = blade[b].state
          /\ [blade[b] EXCEPT !.aside = "halted"].health = blade[b].health
      BY <1>0 DEF State
    <2>2. /\ [state |-> "new", aside |-> "stored", health |-> "none"] \in State
          /\ [state |-> "gone", aside |-> "no", health |-> "none"] \in State
      BY DEF State
    <2>3. CASE requestShutdown(b)
      BY <1>0, <2>1, <2>3, SetAside DEF requestShutdown
    <2>4. CASE resetBlade(b)
      BY <2>2, <2>4, SetAside DEF resetBlade
    <2>5. CASE forgetBlade(b)
      BY <2>2, <2>5, SetAside DEF forgetBlade
    <2> QED
      BY <1>8, <2>3, <2>4, <2>5
  <1>9. ASSUME NEW f \in {"off"} \cup Bad, hUINotifySave(f) PROVE AlertsInv'
    <2>1. UNCHANGED <<blade, rows, said, blurred, pass, held, troubles>> /\ floor' = f
      BY <1>9 DEF hUINotifySave, Turn
    <2>2. AlertsTypeOK'
      BY <1>9, <2>1, AlertsAssumption DEF hUINotifySave, Turn, AlertsInv, AlertsTypeOK, pass
    <2>3. Writing' /\ \A b \in Blade : OfBlade(b)'
      BY <2>1, OtherBlade DEF AlertsInv, Writing, pass, Due
    <2> QED
      BY <2>2, <2>3 DEF AlertsInv
  <1> QED
    BY <1>1, <1>2, <1>3, <1>4, <1>5, <1>6, <1>7, <1>8, <1>9 DEF World
-----------------------------------------------------------------------------
\* The watch.

\* What a row can hold.
LEMMA RowType ==
    ASSUME NEW al \in Alert \cup {NoAlert}
    PROVE  /\ al.level \in Bad \cup {"none"} /\ al.notified \in Bad \cup {"none"} /\ al.age \in 0..Hold
           /\ (al # NoAlert => al.level \in Bad)
           /\ (al = NoAlert => al.level = "none" /\ al.notified = "none" /\ al.age = 0)
  BY AlertsAssumption DEF Alert, NoAlert, Bad

LEMMA OlderType ==
    ASSUME NEW n \in 0..Hold
    PROVE  Older(n) \in 0..Hold /\ n <= Older(n)
  BY AlertsAssumption DEF Older

LEMMA OlderGrows ==
    ASSUME NEW m \in 0..Hold, NEW n \in 0..Hold, m <= n
    PROVE  Older(m) <= Older(n)
  BY AlertsAssumption DEF Older

\* The invariant's types, blade by blade.
LEMMA TypesOfBlade ==
    ASSUME AlertsInv, NEW b \in Blade
    PROVE  /\ blade[b] \in State /\ evalHealthWith(blade[b]) \in Verdict
           /\ rows[b] \in Alert \cup {NoAlert} /\ open[b] \in Alert \cup {NoAlert}
           /\ seen[b] \in Verdict /\ held[b] \in 0..Hold /\ said[b] \in {"none"} \cup Bad
           /\ blurred[b] \in BOOLEAN
           /\ OfBlade(b)
  BY VerdictType DEF AlertsInv, AlertsTypeOK

LEMMA WakeStep ==
    ASSUME AlertsInv, wake
    PROVE  AlertsInv'
  <1>1. ASSUME NEW b \in Blade
        PROVE  /\ rows'[b] \in Alert \cup {NoAlert}
               /\ rows'[b].level = rows[b].level /\ rows'[b].notified = rows[b].notified
               /\ (rows'[b] = NoAlert <=> rows[b] = NoAlert)
               /\ (rows[b] # NoAlert => rows'[b].age = Older(rows[b].age))
    <2>1. CASE rows[b] = NoAlert
      BY <2>1 DEF wake
    <2>2. CASE rows[b] # NoAlert
      <3>1. rows[b] \in Alert /\ rows[b].age \in 0..Hold
        BY <2>2, TypesOfBlade, RowType
      <3>2. Older(rows[b].age) \in 0..Hold
        BY <3>1, OlderType
      <3>3. rows'[b] = [rows[b] EXCEPT !.age = Older(@)]
        BY <2>2 DEF wake
      <3>4. /\ rows'[b] \in Alert /\ rows'[b].level = rows[b].level
            /\ rows'[b].notified = rows[b].notified /\ rows'[b].age = Older(rows[b].age)
        BY <3>1, <3>2, <3>3 DEF Alert
      <3>5. rows'[b] # NoAlert
        BY <3>4 DEF Alert, NoAlert, Bad
      <3> QED
        BY <2>2, <3>4, <3>5
    <2> QED
      BY <2>1, <2>2
  <1>2. /\ at = "asleep" /\ at' = "awake"
        /\ UNCHANGED <<seen, open, left, about, held, troubles, blade, floor, turns>>
    BY DEF wake, Watch, world
  <1>3. \A b \in Blade : /\ said'[b] = IF blurred[b] /\ rows[b] = NoAlert THEN "none" ELSE said[b]
                         /\ blurred'[b] = (blurred[b] /\ rows[b] # NoAlert)
    BY DEF wake
  <1>4. AlertsTypeOK'
    <2>1. rows' \in [Blade -> Alert \cup {NoAlert}]
      <3>1. rows' = [b \in Blade |-> rows'[b]]
        BY DEF wake
      <3> QED
        BY <1>1, <3>1
    <2>2. said' \in [Blade -> {"none"} \cup Bad] /\ blurred' \in [Blade -> BOOLEAN]
      BY DEF wake, AlertsInv, AlertsTypeOK
    <2>3. conf' \in {"off"} \cup Bad
      BY DEF wake, AlertsInv, AlertsTypeOK
    <2> QED
      BY <1>2, <2>1, <2>2, <2>3 DEF AlertsInv, AlertsTypeOK
  <1>5. Writing'
    BY <1>2 DEF Writing
  <1>6. ASSUME NEW b \in Blade PROVE OfBlade(b)'
    <2> USE <1>1, <1>2, <1>3
    <2>0. OfBlade(b)
      BY TypesOfBlade
    <2>1. Honest(rows'[b]) /\ at' \notin Looking
      BY <2>0 DEF OfBlade, Honest, Looking
    <2>2. blade'[b].state = "online" => blade'[b].health # "none"
      BY <2>0 DEF OfBlade
    <2>3. ASSUME ~blurred'[b] PROVE InStep(b)' /\ Watched(b)'
      <3>1. CASE blurred[b]
        <4>1. rows[b] = NoAlert /\ said'[b] = "none" /\ rows'[b] = NoAlert
          BY <2>3, <3>1
        <4> QED
          BY <4>1 DEF InStep, Watched, Looking, Listing, NoAlert
      <3>2. CASE ~blurred[b]
        <4>1. Settled(b) /\ Watched(b) /\ said'[b] = said[b]
          BY <2>0, <3>2 DEF OfBlade, InStep
        <4>2. rows[b] # NoAlert => rows'[b].age <= Older(held[b])
          BY <4>1, TypesOfBlade, RowType, OlderGrows DEF Settled
        <4> QED
          BY <4>1, <4>2 DEF InStep, Watched, Looking, Listing, Settled
      <3> QED
        BY <3>1, <3>2
    <2> QED
      BY <2>1, <2>2, <2>3 DEF OfBlade
  <1> QED
    BY <1>4, <1>5, <1>6 DEF AlertsInv

LEMMA ListBladesStep ==
    ASSUME AlertsInv, listBlades
    PROVE  AlertsInv'
  <1>1. /\ at = "awake" /\ at' = "listed"
        /\ UNCHANGED <<rows, conf, open, about, blurred, troubles, blade, floor, turns>>
    BY DEF listBlades, Watch, world
  <1>2. ASSUME NEW b \in Blade
        PROVE  /\ seen'[b] = evalHealthWith(blade[b])
               /\ held'[b] = IF seen'[b] = seen[b] THEN Older(held[b]) ELSE 0
               /\ said'[b] = IF worse(seen'[b], said[b]) THEN "none" ELSE said[b]
    BY DEF listBlades
  <1>3. AlertsTypeOK'
    <2>1. seen' \in [Blade -> Verdict]
      BY TypesOfBlade DEF listBlades
    <2>2. held' \in [Blade -> 0..Hold]
      <3>1. \A b \in Blade : Older(held[b]) \in 0..Hold /\ 0 \in 0..Hold
        BY TypesOfBlade, OlderType, AlertsAssumption
      <3> QED
        BY <3>1 DEF listBlades
    <2>3. said' \in [Blade -> {"none"} \cup Bad] /\ left' \subseteq Blade
      BY DEF listBlades, AlertsInv, AlertsTypeOK
    <2> QED
      BY <1>1, <2>1, <2>2, <2>3 DEF AlertsInv, AlertsTypeOK
  <1>4. Writing'
    BY <1>1 DEF Writing
  <1>6. \A b \in Blade : b \in left' <=> seen'[b] # "gone"
    BY DEF listBlades
  <1>5. ASSUME NEW b \in Blade PROVE OfBlade(b)'
    <2>0. OfBlade(b)
      BY TypesOfBlade
    <2>1. ASSUME ~blurred[b] PROVE InStep(b)' /\ Watched(b)'
      <3>1. /\ said[b] = rows[b].notified
            /\ rows[b] # NoAlert => rows[b].level = seen[b] /\ rows[b].age <= Older(held[b])
            /\ evalHealthWith(blade[b]) \in Silent => rows[b] = NoAlert
        BY <1>1, <2>0, <2>1 DEF OfBlade, InStep, Watched
      <3>2. rows[b].level = seen'[b] => rows[b].age <= held'[b]
        <4>1. rows[b].level = seen'[b] => rows[b] # NoAlert
          BY <1>2, TypesOfBlade DEF NoAlert, Verdict, Bad
        <4> QED
          BY <1>2, <3>1, <4>1
      <3> QED
        BY <1>1, <1>2, <1>6, <3>1, <3>2 DEF InStep, Looking, Listed, Watched
    <2> QED
      BY <1>1, <2>0, <2>1 DEF OfBlade, Looking
  <1> QED
    BY <1>3, <1>4, <1>5 DEF AlertsInv

LEMMA OpenAlertsStep ==
    ASSUME AlertsInv, openAlerts
    PROVE  AlertsInv'
  <1>1. /\ at = "listed" /\ at' = "looking" /\ open' = rows
        /\ UNCHANGED <<rows, conf, seen, left, about, held, said, blurred, troubles, blade, floor, turns>>
    BY DEF openAlerts, Watch, world, history
  <1>2. AlertsTypeOK' /\ Writing'
    BY <1>1 DEF AlertsInv, AlertsTypeOK, Writing
  <1>3. ASSUME NEW b \in Blade PROVE OfBlade(b)'
    <2>0. OfBlade(b)
      BY TypesOfBlade
    <2>1. ASSUME ~blurred[b] PROVE InStep(b)' /\ Watched(b)'
      <3>1. Listed(b, rows[b]) /\ Watched(b)
        BY <1>1, <2>0, <2>1 DEF OfBlade, InStep
      <3>2. b \notin left => seen[b] = "gone"
        BY <1>1, <2>0, <2>1 DEF OfBlade, InStep
      <3>3. b \notin left => Settled(b)
        BY <3>1, <3>2 DEF Listed, Settled, Silent, NoAlert, worse, Rank
      <3> QED
        BY <1>1, <3>1, <3>3 DEF InStep, Watched, Listed, Settled, Listing, Looking
    <2> QED
      BY <1>1, <2>0, <2>1 DEF OfBlade, Honest, Looking
  <1> QED
    BY <1>2, <1>3 DEF AlertsInv

\* The row a bad verdict leaves behind.
LEMMA RememberedRow ==
    ASSUME NEW cur \in Alert \cup {NoAlert}, NEW l \in Bad, Honest(cur)
    PROVE  /\ remembered(cur, l) \in Alert /\ remembered(cur, l).level = l /\ Honest(remembered(cur, l))
           /\ remembered(cur, l).age = (IF cur.level = l THEN cur.age ELSE 0)
           /\ remembered(cur, l).notified = IF worse(l, cur.notified) THEN "none" ELSE cur.notified
  <1>1. CASE cur = NoAlert
    <2>1. remembered(cur, l) = [level |-> l, age |-> 0, notified |-> "none"]
      BY <1>1 DEF remembered
    <2>2. cur.level # l /\ cur.notified = "none"
      BY <1>1 DEF NoAlert, Bad
    <2> QED
      BY <2>1, <2>2, AlertsAssumption DEF Alert, Honest
  <1>2. CASE cur # NoAlert /\ cur.level # l
    <2> DEFINE n == IF worse(l, cur.notified) THEN "none" ELSE cur.notified
    <2>1. remembered(cur, l) = [level |-> l, age |-> 0, notified |-> n]
      BY <1>2 DEF remembered
    <2>2. n \in Bad \cup {"none"} /\ (n = "none" \/ ~worse(l, n))
      BY RowType
    <2> HIDE DEF n
    <2>3. remembered(cur, l) \in Alert /\ Honest(remembered(cur, l))
      BY <2>1, <2>2, AlertsAssumption DEF Alert, Honest
    <2> QED
      BY <1>2, <2>1, <2>3 DEF n
  <1>3. CASE cur # NoAlert /\ cur.level = l
    <2>1. remembered(cur, l) = cur /\ cur \in Alert
      BY <1>3 DEF remembered
    <2>2. worse(l, cur.notified) => cur.notified = "none"
      BY <1>3 DEF Honest
    <2> QED
      BY <1>3, <2>1, <2>2
  <1> QED
    BY <1>1, <1>2, <1>3

\* Of a blade the step does not look at, the watch knows what it knew.
LEMMA NotLookedAt ==
    ASSUME NEW b \in Blade, OfBlade(b), at \in Looking, at' \in Looking,
           UNCHANGED <<blade, seen, open, held>>,
           rows'[b] = rows[b], said'[b] = said[b], blurred'[b] = blurred[b],
           b \in left' <=> b \in left,
           at \in {"mail", "mark"} => about.blade # b,
           at' \in {"mail", "mark"} => about'.blade # b
    PROVE  OfBlade(b)'
  <1>1. Honest(rows[b])' /\ Honest(open[b])'
    BY DEF OfBlade, Honest
  <1>2. (blade[b].state = "online" => blade[b].health # "none")'
    BY DEF OfBlade
  <1>3. ASSUME ~blurred[b] PROVE InStep(b)' /\ Watched(b)'
    BY <1>3 DEF OfBlade, InStep, Settled, Listed, Watched, Looking, Listing
  <1> QED
    BY <1>1, <1>2, <1>3 DEF OfBlade

\* A step of the pass on one blade.
LEMMA LookStep ==
    ASSUME AlertsInv, NEW b \in Blade, at \in Looking, at' \in Looking,
           UNCHANGED <<blade, floor, conf, seen, open, held, turns>>,
           troubles' \in 0..MaxTroubles, left' = left \ {b},
           at \in {"mail", "mark"} => about.blade = b,
           at' \in {"mail", "mark"} =>
              /\ about' = [blade |-> b, level |-> seen[b]]
              /\ seen[b] \in {"ok"} \cup Bad /\ Due(open[b], seen[b]),
           \/ rows' = rows
           \/ \E al \in Alert \cup {NoAlert} : rows' = [rows EXCEPT ![b] = al],
           \/ said' = said
           \/ \E l \in Bad \cup {"none"} : said' = [said EXCEPT ![b] = l],
           blurred' = blurred \/ blur(b, TRUE),
           Honest(rows'[b]),
           ~blurred'[b] => InStep(b)' /\ Watched(b)'
    PROVE  AlertsInv'
  <1>1. rows' \in [Blade -> Alert \cup {NoAlert}] /\ \A c \in Blade \ {b} : rows'[c] = rows[c]
    BY DEF AlertsInv, AlertsTypeOK
  <1>2. said' \in [Blade -> {"none"} \cup Bad] /\ \A c \in Blade \ {b} : said'[c] = said[c]
    BY DEF AlertsInv, AlertsTypeOK
  <1>3. blurred' \in [Blade -> BOOLEAN] /\ \A c \in Blade \ {b} : blurred'[c] = blurred[c]
    BY DEF AlertsInv, AlertsTypeOK, blur
  <1>4. at' \in {"mail", "mark"} => about' \in [blade : Blade, level : {"ok"} \cup Bad] /\ about'.blade = b
    <2>1. seen[b] \in {"ok"} \cup Bad => [blade |-> b, level |-> seen[b]] \in [blade : Blade, level : {"ok"} \cup Bad]
      OBVIOUS
    <2> QED
      BY <2>1
  <1>5. AlertsTypeOK'
    BY <1>1, <1>2, <1>3, <1>4 DEF AlertsInv, AlertsTypeOK, Looking
  <1>6. Writing'
    BY DEF Writing, Due
  <1>7. OfBlade(b)'
    BY TypesOfBlade DEF OfBlade, Honest
  <1>8. ASSUME NEW c \in Blade, c # b PROVE OfBlade(c)'
    BY <1>1, <1>2, <1>3, <1>4, <1>8, NotLookedAt, TypesOfBlade
  <1> QED
    BY <1>5, <1>6, <1>7, <1>8 DEF AlertsInv

LEMMA HealthPassStep ==
    ASSUME AlertsInv, NEW b \in Blade, healthPass(b)
    PROVE  AlertsInv'
  <1>1. /\ at = "looking" /\ b \in left /\ left' = left \ {b}
        /\ UNCHANGED <<blade, floor, conf, seen, open, held, said, blurred, turns, troubles>>
    BY DEF healthPass, Watch, world, history
  <1>2. /\ seen[b] \in Verdict /\ open[b] \in Alert \cup {NoAlert} /\ rows[b] \in Alert \cup {NoAlert}
        /\ held[b] \in 0..Hold /\ OfBlade(b) /\ Honest(open[b]) /\ Honest(rows[b])
        /\ troubles \in 0..MaxTroubles
    BY <1>1, TypesOfBlade DEF OfBlade, Looking, AlertsInv, AlertsTypeOK
  <1>3. ~blurred[b] => /\ rows[b] = open[b] /\ Listed(b, open[b]) /\ Watched(b)
    BY <1>1, <1>2 DEF OfBlade, InStep, Looking
  <1>4. CASE seen[b] = "unknown" /\ UNCHANGED <<rows, at, about>>
    <2>1. ~blurred[b] => Settled(b)
      BY <1>3, <1>4 DEF Listed, Settled, Silent, NoAlert, worse, Rank
    <2>2. ~blurred'[b] => InStep(b)' /\ Watched(b)'
      BY <1>1, <1>3, <1>4, <2>1 DEF InStep, Watched, Settled, Looking, Listing
    <2> QED
      BY <1>1, <1>2, <1>4, <2>2, LookStep DEF Looking
  <1>5. CASE /\ seen[b] # "unknown" /\ Due(open[b], seen[b])
             /\ at' = "mail" /\ about' = [blade |-> b, level |-> seen[b]] /\ rows' = rows
    <2>1. seen[b] \in {"ok"} \cup Bad
      BY <1>5 DEF Due
    <2>2. ~blurred'[b] => InStep(b)' /\ Watched(b)'
      BY <1>1, <1>3, <1>5 DEF InStep, Watched, Listed, Looking, Listing
    <2> QED
      BY <1>1, <1>2, <1>5, <2>1, <2>2, LookStep DEF Looking
  <1>6. CASE /\ seen[b] = "ok" /\ ~Due(open[b], "ok")
             /\ IF open[b] = NoAlert THEN UNCHANGED rows ELSE clearAlert(b)
             /\ UNCHANGED <<at, about>>
    <2>1. open[b].notified = "none"
      BY <1>6 DEF Due
    <2>2. \/ rows' = rows /\ open[b] = NoAlert
          \/ rows' = [rows EXCEPT ![b] = NoAlert] /\ rows'[b] = NoAlert
      BY <1>6 DEF clearAlert, AlertsInv, AlertsTypeOK
    <2>3. Honest(rows'[b])
      BY <1>2, <2>2 DEF Honest, NoAlert
    <2>4. ~blurred[b] => rows'[b] = NoAlert /\ said[b] = "none"
      BY <1>3, <1>6, <2>1, <2>2 DEF Listed
    <2>5. ~blurred'[b] => InStep(b)' /\ Watched(b)'
      BY <1>1, <1>3, <1>6, <2>4 DEF InStep, Watched, Settled, Looking, Listing, NoAlert
    <2> QED
      BY <1>1, <1>2, <1>6, <2>2, <2>3, <2>5, LookStep DEF Looking
  <1>7. CASE /\ seen[b] \in Bad /\ ~Due(open[b], seen[b])
             /\ raiseAlert(b, remembered(open[b], seen[b]))
             /\ UNCHANGED <<at, about>>
    <2> DEFINE al == remembered(open[b], seen[b])
    <2>1. /\ al \in Alert /\ al.level = seen[b] /\ Honest(al)
          /\ al.age = (IF open[b].level = seen[b] THEN open[b].age ELSE 0)
          /\ al.notified = IF worse(seen[b], open[b].notified) THEN "none" ELSE open[b].notified
      BY <1>2, <1>7, RememberedRow
    <2>2. rows' = [rows EXCEPT ![b] = al]
      BY <1>7 DEF raiseAlert
    <2> HIDE DEF al
    <2>3. rows'[b] = al
      BY <2>2 DEF AlertsInv, AlertsTypeOK
    <2>4. ~blurred[b] => said[b] = al.notified /\ al.age <= held[b]
      BY <1>2, <1>3, <2>1 DEF Listed
    <2>5. ~blurred'[b] => InStep(b)' /\ Watched(b)'
      <3>1. ~blurred[b] => Settled(b)'
        BY <1>1, <2>1, <2>3, <2>4 DEF Settled
      <3>2. ~blurred[b] => Watched(b)'
        BY <1>1, <1>3, <1>7, <2>3 DEF Watched, Listing, Silent, Bad
      <3> QED
        BY <1>1, <1>7, <3>1, <3>2 DEF InStep, Looking
    <2> QED
      BY <1>1, <1>2, <1>7, <2>1, <2>2, <2>3, <2>5, LookStep DEF Looking
  <1> QED
    BY <1>4, <1>5, <1>6, <1>7 DEF healthPass

\* What the pass knows of the blade it is writing about.
LEMMA AboutBlade ==
    ASSUME AlertsInv, at \in {"mail", "mark"}
    PROVE  /\ about.blade \in Blade /\ about.level \in {"ok"} \cup Bad
           /\ about = [blade |-> about.blade, level |-> seen[about.blade]]
           /\ left = left \ {about.blade} /\ about.level = seen[about.blade]
           /\ Due(open[about.blade], about.level)
           /\ at \in Looking
  BY DEF AlertsInv, AlertsTypeOK, Writing, Looking

LEMMA MailedStep ==
    ASSUME AlertsInv, mailed
    PROVE  AlertsInv'
  <1>0. PICK b \in Blade : b = about.blade
    BY AboutBlade DEF mailed
  <1> DEFINE l == IF about.level = "ok" THEN "none" ELSE about.level
  <1>1. /\ at = "mail" /\ at' = "mark" /\ said' = [said EXCEPT ![b] = l]
        /\ UNCHANGED <<blade, floor, rows, conf, seen, open, left, about, held, blurred, turns, troubles>>
    BY <1>0 DEF mailed, Watch, world
  <1>2. /\ b \in Blade /\ about.level \in {"ok"} \cup Bad /\ about = [blade |-> b, level |-> seen[b]]
        /\ left = left \ {b} /\ about.level = seen[b] /\ Due(open[b], about.level) /\ at \in Looking
    BY <1>0, <1>1, AboutBlade
  <1>3. OfBlade(b) /\ Honest(rows[b]) /\ troubles \in 0..MaxTroubles
    BY <1>2, TypesOfBlade DEF OfBlade, AlertsInv, AlertsTypeOK
  <1>4. l \in Bad \cup {"none"} /\ said'[b] = l
    BY <1>1, <1>2 DEF AlertsInv, AlertsTypeOK
  <1>5. ~blurred[b] => rows[b] = open[b] /\ Listed(b, open[b]) /\ Watched(b)
    BY <1>0, <1>1, <1>3 DEF OfBlade, InStep
  <1>6. ~blurred'[b] => InStep(b)' /\ Watched(b)'
    BY <1>0, <1>1, <1>2, <1>4, <1>5 DEF InStep, Watched, Listed, Looking, Listing
  <1> HIDE DEF l
  <1>7. at' \in Looking /\ Honest(rows'[b]) /\ seen[b] \in {"ok"} \cup Bad /\ Due(open[b], seen[b])
    BY <1>1, <1>2, <1>3 DEF Looking
  <1>8. at \in {"mail", "mark"} => about.blade = b
    BY <1>0
  <1> QED
    BY <1>1, <1>2, <1>3, <1>4, <1>6, <1>7, <1>8, LookStep

LEMMA MarkStep ==
    ASSUME AlertsInv, mark
    PROVE  AlertsInv'
  <1>0. PICK b \in Blade : b = about.blade
    BY AboutBlade DEF mark
  <1> DEFINE al == IF about.level = "ok" THEN NoAlert ELSE marked(open[b], about.level)
  <1>1. /\ at = "mark" /\ at' = "looking" /\ rows' = [rows EXCEPT ![b] = al]
        /\ UNCHANGED <<blade, floor, conf, seen, open, left, about, held, said, blurred, turns, troubles>>
    BY <1>0 DEF mark, Watch, world, history, clearAlert, raiseAlert
  <1>2. /\ b \in Blade /\ about.level \in {"ok"} \cup Bad
        /\ left = left \ {b} /\ about.level = seen[b] /\ Due(open[b], about.level) /\ at \in Looking
    BY <1>0, <1>1, AboutBlade
  <1>3. OfBlade(b) /\ open[b].age \in 0..Hold /\ troubles \in 0..MaxTroubles
    BY <1>2, TypesOfBlade, RowType DEF AlertsInv, AlertsTypeOK
  <1>4. rows'[b] = al
    BY <1>1, <1>2 DEF AlertsInv, AlertsTypeOK
  <1>5. CASE about.level = "ok"
    <2>1. al = NoAlert
      BY <1>5
    <2>2. al \in Alert \cup {NoAlert} /\ Honest(al)
      BY <2>1 DEF Honest, NoAlert
    <2>3. ~blurred[b] => said[b] = "none" /\ Watched(b)
      BY <1>0, <1>1, <1>2, <1>3, <1>5 DEF OfBlade, InStep
    <2>4. ~blurred'[b] => InStep(b)' /\ Watched(b)'
      BY <1>0, <1>1, <1>2, <1>4, <2>1, <2>3 DEF InStep, Watched, Settled, Looking, Listing, NoAlert
    <2> HIDE DEF al
    <2>5. at \in {"mail", "mark"} => about.blade = b
      BY <1>0
    <2> QED
      BY <1>1, <1>2, <1>3, <1>4, <2>2, <2>4, <2>5, LookStep DEF Looking
  <1>6. CASE about.level # "ok"
    <2>1. al = [level |-> seen[b], age |-> open[b].age, notified |-> seen[b]] /\ seen[b] \in Bad
      BY <1>2, <1>6 DEF marked
    <2>2. al \in Alert /\ Honest(al)
      BY <1>3, <2>1 DEF Alert, Honest, worse, Rank
    <2>3. open[b].level = seen[b]
      BY <1>2, <1>6 DEF Due
    <2>4. ~blurred[b] => said[b] = seen[b] /\ open[b].age <= held[b] /\ Watched(b)
      BY <1>0, <1>1, <1>2, <1>3, <1>6, <2>3 DEF OfBlade, InStep
    <2>5. ~blurred[b] => Settled(b)'
      BY <1>1, <1>4, <2>1, <2>4 DEF Settled
    <2>6. ~blurred[b] => Watched(b)'
      BY <1>1, <2>1, <2>4 DEF Watched, Listing, Silent, Bad
    <2>7. ~blurred'[b] => InStep(b)' /\ Watched(b)'
      BY <1>0, <1>1, <1>2, <2>5, <2>6 DEF InStep, Looking
    <2> HIDE DEF al
    <2>8. at \in {"mail", "mark"} => about.blade = b
      BY <1>0
    <2> QED
      BY <1>1, <1>2, <1>3, <1>4, <2>2, <2>7, <2>8, LookStep DEF Looking
  <1> QED
    BY <1>5, <1>6

LEMMA MailFailsStep ==
    ASSUME AlertsInv, mailFails
    PROVE  AlertsInv'
  <1>0. PICK b \in Blade : b = about.blade
    BY AboutBlade DEF mailFails
  <1>1. /\ at = "mail" /\ at' = "looking" /\ blur(b, TRUE)
        /\ rows' = rows \/ rows' = [rows EXCEPT ![b] = NoAlert]
        /\ UNCHANGED <<blade, floor, conf, seen, open, left, about, held, said, turns>>
    BY <1>0 DEF mailFails, Trouble, Watch, world, clearAlert
  <1>2. b \in Blade /\ left = left \ {b} /\ at \in Looking
    BY <1>0, <1>1, AboutBlade
  <1>3. troubles' \in 0..MaxTroubles
    BY AlertsAssumption DEF mailFails, Trouble, AlertsInv, AlertsTypeOK
  <1>4. blurred'[b]
    BY <1>1, <1>2 DEF blur, AlertsInv, AlertsTypeOK
  <1>5. Honest(rows'[b])
    <2>1. rows'[b] = rows[b] \/ rows'[b] = NoAlert
      BY <1>1, <1>2 DEF AlertsInv, AlertsTypeOK
    <2>2. Honest(rows[b]) /\ Honest(NoAlert)
      BY <1>2, TypesOfBlade DEF OfBlade, Honest, NoAlert
    <2> QED
      BY <2>1, <2>2
  <1>6. at \in {"mail", "mark"} => about.blade = b
    BY <1>0
  <1> QED
    BY <1>1, <1>2, <1>3, <1>4, <1>5, <1>6, LookStep DEF Looking

LEMMA StraysStep ==
    ASSUME AlertsInv, strays
    PROVE  AlertsInv'
  <1>1. /\ at = "looking" /\ left = {} /\ at' = "asleep"
        /\ UNCHANGED <<blade, floor, conf, seen, open, left, about, held, said, blurred, turns, troubles>>
    BY DEF strays, Watch, world, history
  <1>2. \A b \in Blade : rows'[b] = IF seen[b] = "gone" /\ open[b] # NoAlert THEN NoAlert ELSE rows[b]
    BY DEF strays
  <1>3. AlertsTypeOK' /\ Writing'
    <2>1. rows' \in [Blade -> Alert \cup {NoAlert}]
      BY DEF strays, AlertsInv, AlertsTypeOK
    <2> QED
      BY <1>1, <2>1 DEF AlertsInv, AlertsTypeOK, Writing
  <1>4. ASSUME NEW b \in Blade PROVE OfBlade(b)'
    <2>1. OfBlade(b) /\ rows[b] \in Alert \cup {NoAlert}
      BY TypesOfBlade
    <2>2. Honest(rows'[b])
      BY <1>2, <2>1 DEF OfBlade, Honest, NoAlert
    <2>3. ASSUME ~blurred[b] PROVE Settled(b) /\ Watched(b) /\ rows'[b] = rows[b]
      <3>1. Settled(b) /\ Watched(b)
        BY <1>1, <2>1, <2>3 DEF OfBlade, InStep, Looking
      <3>2. seen[b] = "gone" => rows[b] = NoAlert
        BY <2>1, <3>1, RowType DEF Settled, Bad
      <3> QED
        BY <1>2, <3>1, <3>2
    <2>4. ~blurred'[b] => InStep(b)' /\ Watched(b)'
      BY <1>1, <2>3 DEF InStep, Watched, Settled, Looking, Listing
    <2> QED
      BY <1>1, <2>1, <2>2, <2>4 DEF OfBlade, Looking
  <1> QED
    BY <1>3, <1>4 DEF AlertsInv

LEMMA ListFailsStep ==
    ASSUME AlertsInv, listFails
    PROVE  AlertsInv'
  <1>1. /\ at \in {"awake", "listed"} /\ at' = "asleep" /\ left' = {}
        /\ UNCHANGED <<blade, floor, rows, conf, seen, open, about, said, turns>>
    BY DEF listFails, Trouble, Watch, world
  <1>2. \A b \in Blade : Older(held[b]) \in 0..Hold
    BY TypesOfBlade, AlertsAssumption DEF Older
  <1>3. AlertsTypeOK' /\ Writing'
    <2>1. troubles' \in 0..MaxTroubles /\ blurred' \in [Blade -> BOOLEAN]
      BY AlertsAssumption DEF listFails, Trouble, AlertsInv, AlertsTypeOK
    <2>2. held' \in [Blade -> 0..Hold]
      BY <1>2 DEF listFails, AlertsInv, AlertsTypeOK
    <2> QED
      BY <1>1, <2>1, <2>2 DEF AlertsInv, AlertsTypeOK, Writing
  <1>4. ASSUME NEW b \in Blade PROVE OfBlade(b)'
    <2>1. OfBlade(b)
      BY DEF AlertsInv
    <2>2. Honest(rows[b])' /\ (blade[b].state = "online" => blade[b].health # "none")'
      BY <1>1, <2>1 DEF OfBlade, Honest
    <2>3. ~blurred'[b] => at = "awake" /\ ~blurred[b] /\ held'[b] = Older(held[b])
      BY <1>1 DEF listFails
    <2>4. ~blurred'[b] => InStep(b)' /\ Watched(b)'
      BY <1>1, <2>1, <2>3 DEF OfBlade, InStep, Settled, Watched, Looking, Listing
    <2> QED
      BY <1>1, <2>2, <2>4 DEF OfBlade, Looking
  <1> QED
    BY <1>3, <1>4 DEF AlertsInv

LEMMA RestartStep ==
    ASSUME AlertsInv, NEW long \in BOOLEAN, restart(long)
    PROVE  AlertsInv'
  <1>1. /\ at' = "asleep" /\ left' = {}
        /\ UNCHANGED <<blade, floor, conf, seen, open, about, held, said, turns>>
    BY DEF restart, Trouble, Watch, world
  <1>2. ASSUME NEW b \in Blade
        PROVE  /\ rows'[b] \in Alert \cup {NoAlert} /\ Honest(rows'[b]) /\ blurred'[b]
    <2>1. OfBlade(b) /\ rows[b] \in Alert \cup {NoAlert} /\ blurred'[b]
      BY TypesOfBlade DEF restart
    <2>2. CASE long /\ rows[b] # NoAlert
      <3>1. rows'[b] = [rows[b] EXCEPT !.age = Hold] /\ rows[b] \in Alert
        BY <2>1, <2>2 DEF restart
      <3>2. rows'[b] \in Alert /\ rows'[b].level = rows[b].level /\ rows'[b].notified = rows[b].notified
        BY <3>1, AlertsAssumption DEF Alert
      <3> QED
        BY <2>1, <3>2 DEF OfBlade, Honest
    <2>3. CASE ~(long /\ rows[b] # NoAlert)
      BY <2>1, <2>3 DEF restart, OfBlade, Honest
    <2> QED
      BY <2>2, <2>3
  <1>3. AlertsTypeOK' /\ Writing'
    <2>1. rows' \in [Blade -> Alert \cup {NoAlert}]
      <3>1. rows' = [b \in Blade |-> rows'[b]]
        BY DEF restart
      <3> QED
        BY <1>2, <3>1
    <2>2. troubles' \in 0..MaxTroubles /\ blurred' \in [Blade -> BOOLEAN]
      BY AlertsAssumption DEF restart, Trouble, AlertsInv, AlertsTypeOK
    <2> QED
      BY <1>1, <2>1, <2>2 DEF AlertsInv, AlertsTypeOK, Writing
  <1>4. ASSUME NEW b \in Blade PROVE OfBlade(b)'
    BY <1>1, <1>2, TypesOfBlade DEF OfBlade, Looking
  <1> QED
    BY <1>3, <1>4 DEF AlertsInv

-----------------------------------------------------------------------------
LEMMA AlertsStart ==
    ASSUME AlertsInit
    PROVE  AlertsInv
  <1>1. [state |-> "new", aside |-> "no", health |-> "none"] \in State
    BY DEF State
  <1>2. AlertsTypeOK
    BY <1>1, AlertsAssumption DEF AlertsInit, AlertsTypeOK, Verdict, Bad
  <1>3. Writing
    BY DEF AlertsInit, Writing
  <1>4. ASSUME NEW b \in Blade PROVE OfBlade(b)
    <2>1. rows[b] = NoAlert /\ said[b] = "none" /\ at = "asleep" /\ blade[b].state = "new"
      BY DEF AlertsInit
    <2> QED
      BY <2>1 DEF OfBlade, Honest, InStep, Settled, Watched, Looking, Listing, NoAlert
  <1> QED
    BY <1>2, <1>3, <1>4 DEF AlertsInv

LEMMA AlertsKept ==
    ASSUME AlertsInv, [AlertsNext]_lvars
    PROVE  AlertsInv'
  <1>1. CASE World
    BY <1>1, WorldSteps
  <1>2. CASE watchHealth
    BY <1>2, WakeStep, ListBladesStep, OpenAlertsStep, StraysStep, MailedStep, MarkStep, HealthPassStep
       DEF watchHealth
  <1>3. CASE listFails \/ mailFails \/ \E long \in BOOLEAN : restart(long)
    BY <1>3, ListFailsStep, MailFailsStep, RestartStep
  <1>4. CASE UNCHANGED lvars
    <2>1. UNCHANGED <<blade, floor, rows, pass, held, said, blurred, turns, troubles>>
      BY <1>4 DEF lvars, world, history
    <2>2. AlertsTypeOK' /\ Writing'
      BY <2>1 DEF AlertsInv, AlertsTypeOK, Writing, pass, Due
    <2>3. \A b \in Blade : OfBlade(b)'
      BY <2>1, OtherBlade DEF AlertsInv
    <2> QED
      BY <2>2, <2>3 DEF AlertsInv
  <1> QED
    BY <1>1, <1>2, <1>3, <1>4 DEF AlertsNext

\* The watch, the world and the rows stay in step (healthPass), whatever the
\* reports, the people, the mail server and the restarts do.
THEOREM AlertsInvariant == AlertsSpec => []AlertsInv
  BY AlertsStart, AlertsKept, PTL DEF AlertsSpec

\* Every row of the alerts table, and every step of the pass over it, is of
\* the kind healthPass writes.
THEOREM AlertsTypeCorrect == AlertsSpec => []AlertsTypeOK
  <1>1. AlertsInv => AlertsTypeOK
    BY DEF AlertsInv
  <1> QED
    BY <1>1, AlertsInvariant, PTL

\* healthPass writes about a bad blade only when every pass of the whole hold
\* time found it at that very level.
THEOREM HoldTimeIsKept == AlertsSpec => []HeldBeforeSaid
  <1>1. AlertsInv => HeldBeforeSaid
    <2> SUFFICES ASSUME AlertsInv, at = "mail", about.level # "ok", ~blurred[about.blade]
                 PROVE  seen[about.blade] = about.level /\ held[about.blade] >= Hold
      BY DEF HeldBeforeSaid
    <2> DEFINE b == about.blade
    <2>1. b \in Blade /\ about.level = seen[b] /\ Due(open[b], about.level)
      BY AboutBlade
    <2>2. open[b].age \in 0..Hold /\ held[b] \in 0..Hold /\ OfBlade(b)
      BY <2>1, TypesOfBlade, RowType
    <2>3. open[b].level = seen[b] /\ open[b].age >= Hold
      BY <2>1 DEF Due
    <2>4. open[b].age <= held[b]
      BY <2>2, <2>3 DEF OfBlade, InStep, Listed
    <2> QED
      BY <2>1, <2>2, <2>3, <2>4, AlertsAssumption
  <1> QED
    BY <1>1, AlertsInvariant, PTL

\* sendAlert says a level once, and a recovery only of what was said.
THEOREM NothingIsSaidTwice == AlertsSpec => []SaidOnce
  <1>1. AlertsInv => SaidOnce
    <2> SUFFICES ASSUME AlertsInv, at = "mail", ~blurred[about.blade]
                 PROVE  /\ about.level # said[about.blade]
                        /\ about.level = "ok" => said[about.blade] # "none"
      BY DEF SaidOnce
    <2> DEFINE b == about.blade
    <2>1. /\ b \in Blade /\ about.level \in {"ok"} \cup Bad /\ about.level = seen[b]
          /\ Due(open[b], about.level)
      BY AboutBlade
    <2>2. open[b].notified \in Bad \cup {"none"} /\ OfBlade(b)
      BY <2>1, TypesOfBlade, RowType
    <2>3. said[b] = IF worse(seen[b], open[b].notified) THEN "none" ELSE open[b].notified
      BY <2>2 DEF OfBlade, InStep, Listed
    <2>4. CASE about.level = "ok"
      BY <2>1, <2>2, <2>3, <2>4 DEF Due, worse, Rank, Bad
    <2>5. CASE about.level \in Bad
      BY <2>1, <2>2, <2>3, <2>5 DEF Due, Bad
    <2> QED
      BY <2>1, <2>4, <2>5
  <1> QED
    BY <1>1, AlertsInvariant, PTL
=============================================================================
