------------------------------- MODULE Alerts -------------------------------
(***************************************************************************)
(* Saying something when a blade goes bad (server/notify.go, the alerts    *)
(* table of server/db.go).  One goroutine runs a pass a minute: it lists   *)
(* the blades, then the open alerts, and works through the list with what  *)
(* it read; reports, the sweep for silent blades and people change the     *)
(* blades, and take alerts down, while it does.  The rows survive a        *)
(* restart of the server, the pass does not.                               *)
(*                                                                         *)
(* Time passes while watchHealth sleeps, a minute each time; what a pass   *)
(* itself takes comes on top and only makes an alert later.  Ages stop     *)
(* counting at Hold, where every comparison with them is decided.          *)
(***************************************************************************)
EXTENDS Naturals, FiniteSets

CONSTANTS
    Blade,
    Hold,        \* notify_hold_min, in passes
    MaxTurns,    \* reports, sweeps and acts of people
    MaxTroubles  \* lists that fail, mails that fail and restarts of the server

ASSUME AlertsAssumption ==
    /\ Hold \in Nat \ {0}
    /\ MaxTurns \in Nat /\ MaxTroubles \in Nat

VARIABLES
    blade,    \* the blades table, as far as the verdict reads it
    rows,     \* the alerts table
    floor,    \* the mail settings: "off", or the least level that is mailed
    at,       \* where watchHealth is
    conf,     \* the settings the pass started with
    seen,     \* the verdict on the blades as the pass listed them
    open,     \* the alerts as the pass listed them
    left,     \* the blades it has yet to look at
    about,    \* the blade it is writing to people about, and the level
    held,     \* history: minutes no list showed another verdict
    said,     \* history: what was said last, "none" once the blade recovered
              \* or was found worse
    blurred,  \* history: something the watch cannot see came between
    turns, troubles

world == <<blade, floor>>
pass == <<at, conf, seen, open, left, about>>
history == <<held, said, blurred>>
lvars == <<world, rows, pass, history, turns, troubles>>

Bad == {"warn", "crit"}
Verdict == {"gone", "unknown", "ok"} \cup Bad

\* health is what the reported values come to under the site's policy.
State == [state : {"gone", "new", "online", "offline"},
          aside : {"no", "halted", "stored"},
          health : {"none", "ok"} \cup Bad]

NoAlert == [level |-> "none", age |-> 0, notified |-> "none"]
Alert == [level : Bad, age : 0..Hold, notified : Bad \cup {"none"}]

AlertsTypeOK ==
    /\ blade \in [Blade -> State]
    /\ rows \in [Blade -> Alert \cup {NoAlert}]
    /\ floor \in {"off"} \cup Bad
    /\ at \in {"asleep", "awake", "listed", "looking", "mail", "mark"}
    /\ conf \in {"off"} \cup Bad
    /\ seen \in [Blade -> Verdict]
    /\ open \in [Blade -> Alert \cup {NoAlert}]
    /\ left \subseteq Blade
    /\ at \in {"mail", "mark"} => about \in [blade : Blade, level : {"ok"} \cup Bad]
    /\ held \in [Blade -> 0..Hold]
    /\ said \in [Blade -> {"none"} \cup Bad]
    /\ blurred \in [Blade -> BOOLEAN]
    /\ turns \in 0..MaxTurns /\ troubles \in 0..MaxTroubles

-----------------------------------------------------------------------------
\* The verdict: off on purpose, or put aside, is nothing to speak of;
\* silent is critical; without values there is no verdict.
evalHealthWith(s) ==
    CASE s.state = "gone" -> "gone"
      [] s.state # "gone" /\ s.aside # "no" -> "unknown"
      [] s.state = "offline" /\ s.aside = "no" -> "crit"
      [] OTHER -> IF s.health = "none" THEN "unknown" ELSE s.health

Rank(l) == CASE l = "crit" -> 2 [] l = "warn" -> 1 [] OTHER -> 0
worse(a, b) == Rank(a) > Rank(b)

worthSending(l, min) == min # "off" /\ (l = "ok" \/ Rank(l) >= Rank(min))

Older(n) == IF n < Hold THEN n + 1 ELSE n

raiseAlert(b, al) == rows' = [rows EXCEPT ![b] = al]
clearAlert(b) == rows' = [rows EXCEPT ![b] = NoAlert]

-----------------------------------------------------------------------------
\* The world.  A change of a blade's place on the watch's list while the
\* watch is at work, or one that leaves an open alert behind, is noted.

Turn == turns < MaxTurns /\ turns' = turns + 1 /\ UNCHANGED <<pass, troubles, held>>

blur(b, yes) == blurred' = [blurred EXCEPT ![b] = @ \/ yes]

Put(b, s) == blade' = [blade EXCEPT ![b] = s]

\* hBladeStatus: the agent's values; it ends "halted", never "stored".
hBladeStatus(b, v) ==
    /\ Turn
    /\ blade[b].state # "gone"
    /\ Put(b, [state |-> "online", health |-> v,
               aside |-> IF blade[b].aside = "halted" THEN "no" ELSE blade[b].aside])
    /\ UNCHANGED <<floor, rows, said, blurred>>

\* The thresholds of the site are changed: another verdict on old values.
policyChanged(b, v) ==
    /\ Turn
    /\ blade[b].state # "gone" /\ blade[b].health # "none"
    /\ Put(b, [blade[b] EXCEPT !.health = v])
    /\ UNCHANGED <<floor, rows, said, blurred>>

sweepOffline(b) ==
    /\ Turn
    /\ blade[b].state = "online"
    /\ Put(b, [blade[b] EXCEPT !.state = "offline"])
    /\ UNCHANGED <<floor, rows, said, blurred>>

\* requestShutdown and resetBlade take the alert down with the blade.
setAside(b, s) ==
    /\ Turn
    /\ blade[b].state # "gone"
    /\ Put(b, s)
    /\ clearAlert(b)
    /\ said' = [said EXCEPT ![b] = "none"]
    /\ blur(b, at # "asleep")
    /\ UNCHANGED floor

requestShutdown(b) == setAside(b, [blade[b] EXCEPT !.aside = "halted"])

resetBlade(b) == setAside(b, [state |-> "new", aside |-> "stored", health |-> "none"])

placeBlade(b) ==
    /\ Turn
    /\ blade[b].aside = "stored"
    /\ Put(b, [blade[b] EXCEPT !.aside = "no"])
    /\ UNCHANGED <<floor, rows, said, blurred>>

\* Out of its slot it is "new" again, and no longer swept.
takeOut(b) ==
    /\ Turn
    /\ blade[b].state = "online"
    /\ Put(b, [blade[b] EXCEPT !.state = "new"])
    /\ UNCHANGED <<floor, rows, said, blurred>>

\* finishWipe empties the values and leaves the alert where it is.
finishWipe(b) ==
    /\ Turn
    /\ blade[b].state # "gone"
    /\ Put(b, [blade[b] EXCEPT !.state = "new", !.health = "none"])
    /\ blur(b, rows[b] # NoAlert \/ at # "asleep")
    /\ UNCHANGED <<floor, rows, said>>

\* forgetBlade: not while it reports.
forgetBlade(b) ==
    /\ blade[b].state \in {"new", "offline"}
    /\ setAside(b, [state |-> "gone", aside |-> "no", health |-> "none"])

discovered(b) ==
    /\ Turn
    /\ blade[b].state = "gone"
    /\ Put(b, [state |-> "new", aside |-> "no", health |-> "none"])
    /\ blur(b, at # "asleep" \/ rows[b] # NoAlert)
    /\ UNCHANGED <<floor, rows, said>>

\* hUINotifySave writes one setting after the other and mailConf reads
\* them so: a mixture is what a save of only some of them would be.
hUINotifySave(f) ==
    /\ Turn
    /\ floor' = f
    /\ UNCHANGED <<blade, rows, said, blurred>>

-----------------------------------------------------------------------------
\* The watch.

Watch == UNCHANGED <<world, turns>>

Trouble == troubles < MaxTroubles /\ troubles' = troubles + 1 /\ Watch

\* The minute is over: the settings are read.  What the watch has lost
\* sight of counts as over when no alert is left of it.
wake ==
    /\ at = "asleep"
    /\ at' = "awake"
    /\ conf' = floor
    /\ rows' = [b \in Blade |->
                  IF rows[b] = NoAlert THEN NoAlert
                  ELSE [rows[b] EXCEPT !.age = Older(@)]]
    /\ said' = [b \in Blade |-> IF blurred[b] /\ rows[b] = NoAlert THEN "none" ELSE said[b]]
    /\ blurred' = [b \in Blade |-> blurred[b] /\ rows[b] # NoAlert]
    /\ UNCHANGED <<seen, open, left, about, held, troubles>> /\ Watch

listBlades ==
    /\ at = "awake"
    /\ at' = "listed"
    /\ seen' = [b \in Blade |-> evalHealthWith(blade[b])]
    /\ held' = [b \in Blade |-> IF seen'[b] = seen[b] THEN Older(held[b]) ELSE 0]
    /\ left' = {b \in Blade : seen'[b] # "gone"}
    /\ said' = [b \in Blade |-> IF worse(seen'[b], said[b]) THEN "none" ELSE said[b]]
    /\ UNCHANGED <<rows, conf, open, about, blurred, troubles>> /\ Watch

openAlerts ==
    /\ at = "listed"
    /\ at' = "looking"
    /\ open' = rows
    /\ UNCHANGED <<rows, conf, seen, left, about, history, troubles>> /\ Watch

\* healthPass: one of the two lists cannot be read, and the pass is over.
listFails ==
    /\ at \in {"awake", "listed"}
    /\ at' = "asleep"
    /\ held' = IF at = "awake" THEN [b \in Blade |-> Older(held[b])] ELSE held
    /\ blurred' = [b \in Blade |-> blurred[b] \/ at = "listed"]
    /\ left' = {}
    /\ Trouble
    /\ UNCHANGED <<rows, conf, seen, open, about, said>>

\* Mutant: another level inherits the clock of the one before.
remembered_OldClock(cur, l) ==
    IF cur = NoAlert THEN [level |-> l, age |-> 0, notified |-> "none"]
    ELSE [level |-> l, age |-> cur.age,
          notified |-> IF worse(l, cur.notified) THEN "none" ELSE cur.notified]

\* Mutant: every pass starts the clock again.
remembered_Restarts(cur, l) ==
    [level |-> l, age |-> 0, notified |-> IF cur = NoAlert THEN "none" ELSE cur.notified]

\* What healthPass does about a bad verdict it has no mail to write for:
\* the row it wants.
remembered(cur, l) ==
    CASE cur = NoAlert -> [level |-> l, age |-> 0, notified |-> "none"]
      [] cur # NoAlert /\ cur.level # l ->
            [level |-> l, age |-> 0,
             notified |-> IF worse(l, cur.notified) THEN "none" ELSE cur.notified]
      [] OTHER -> cur

\* Something is to be said: a level that held, or a recovery from one that
\* was said.
Due(cur, l) ==
    \/ l = "ok" /\ cur.notified # "none"
    \/ l \in Bad /\ cur.level = l /\ cur.notified # l /\ cur.age >= Hold

healthPass(b) ==
    /\ at = "looking" /\ b \in left
    /\ left' = left \ {b}
    /\ \/ /\ seen[b] = "unknown"
          /\ UNCHANGED <<rows, at, about>>
       \/ /\ seen[b] # "unknown" /\ Due(open[b], seen[b])
          /\ at' = "mail"
          /\ about' = [blade |-> b, level |-> seen[b]]
          /\ UNCHANGED rows
       \/ /\ seen[b] = "ok" /\ ~Due(open[b], "ok")
          /\ IF open[b] = NoAlert THEN UNCHANGED rows ELSE clearAlert(b)
          /\ UNCHANGED <<at, about>>
       \/ /\ seen[b] \in Bad /\ ~Due(open[b], seen[b])
          /\ raiseAlert(b, remembered(open[b], seen[b]))
          /\ UNCHANGED <<at, about>>
    /\ UNCHANGED <<conf, seen, open, history, troubles>> /\ Watch

\* sendAlert without a failure: mailed, or logged where no mail is wanted.
mailed ==
    /\ at = "mail"
    /\ at' = "mark"
    /\ said' = [said EXCEPT ![about.blade] = IF about.level = "ok" THEN "none" ELSE about.level]
    /\ UNCHANGED <<rows, conf, seen, open, left, about, held, blurred, troubles>> /\ Watch

\* Mutant: that it was said is not written down.
marked_Unsaid(al, l) == [level |-> l, age |-> al.age, notified |-> al.notified]

\* After it: the level that was said goes into the row; a recovery takes
\* the row away.
marked(al, l) == [level |-> l, age |-> al.age, notified |-> l]

mark ==
    /\ at = "mark"
    /\ at' = "looking"
    /\ LET b == about.blade IN
       IF about.level = "ok" THEN clearAlert(b)
       ELSE raiseAlert(b, marked(open[b], about.level))
    /\ UNCHANGED <<conf, seen, open, left, about, history, troubles>> /\ Watch

\* The mail server refuses, or breaks off when the mail is already taken:
\* the row stays as it is for the next pass, but for a recovery, whose row
\* goes away all the same.
mailFails ==
    /\ at = "mail" /\ worthSending(about.level, conf)
    /\ at' = "looking"
    /\ IF about.level = "ok" THEN clearAlert(about.blade) ELSE UNCHANGED rows
    /\ blur(about.blade, TRUE)
    /\ Trouble
    /\ UNCHANGED <<conf, seen, open, left, about, held, said>>

\* What is left of the open alerts belongs to blades that are gone.
strays ==
    /\ at = "looking" /\ left = {}
    /\ at' = "asleep"
    /\ rows' = [b \in Blade |-> IF seen[b] = "gone" /\ open[b] # NoAlert THEN NoAlert ELSE rows[b]]
    /\ UNCHANGED <<conf, seen, open, left, about, history, troubles>> /\ Watch

\* The server ends and comes back, a moment or an hour later.
restart(long) ==
    /\ at' = "asleep"
    /\ rows' = [b \in Blade |->
                  IF long /\ rows[b] # NoAlert THEN [rows[b] EXCEPT !.age = Hold] ELSE rows[b]]
    /\ left' = {}
    /\ blurred' = [b \in Blade |-> TRUE]
    /\ Trouble
    /\ UNCHANGED <<conf, seen, open, about, held, said>>

-----------------------------------------------------------------------------
AlertsInit ==
    /\ blade \in [Blade -> {[state |-> "new", aside |-> "no", health |-> "none"]}]
    /\ rows = [b \in Blade |-> NoAlert]
    /\ floor = "off" /\ conf = "off"
    /\ at = "asleep"
    /\ seen = [b \in Blade |-> "gone"]
    /\ open = [b \in Blade |-> NoAlert]
    /\ left = {}
    /\ about \in [blade : {CHOOSE b \in Blade : TRUE}, level : {"ok"}]
    /\ held = [b \in Blade |-> 0]
    /\ said = [b \in Blade |-> "none"]
    /\ blurred = [b \in Blade |-> FALSE]
    /\ turns = 0 /\ troubles = 0

World ==
    \/ \E b \in Blade, v \in {"ok"} \cup Bad : hBladeStatus(b, v) \/ policyChanged(b, v)
    \/ \E b \in Blade : \/ sweepOffline(b) \/ requestShutdown(b) \/ resetBlade(b)
                        \/ placeBlade(b) \/ takeOut(b) \/ finishWipe(b) \/ forgetBlade(b) \/ discovered(b)
    \/ \E f \in {"off"} \cup Bad : hUINotifySave(f)

watchHealth ==
    \/ wake \/ listBlades \/ openAlerts \/ strays \/ mailed \/ mark
    \/ \E b \in Blade : healthPass(b)

AlertsNext ==
    \/ World
    \/ watchHealth
    \/ listFails \/ mailFails
    \/ \E long \in BOOLEAN : restart(long)

AlertsSpec == AlertsInit /\ [][AlertsNext]_lvars

\* The goroutine runs; the mail server answers in the end, one way or the
\* other, and finitely often with an error.
FairAlertsSpec == AlertsSpec /\ WF_lvars(watchHealth)

-----------------------------------------------------------------------------
\* A blade is written about only when the watch has found it at that level
\* for the whole hold time, in every pass since that could list the blades,
\* whatever level it had before and whatever stood in the row (healthPass).
HeldBeforeSaid ==
    at = "mail" /\ about.level # "ok" /\ ~blurred[about.blade] =>
        seen[about.blade] = about.level /\ held[about.blade] >= Hold

\* What went bad is said once, and a recovery only of what was said: a
\* level is not said again, through any number of passes and turns, until
\* another has been said, the blade has recovered or it was found worse in
\* between (healthPass, sendAlert).
SaidOnce ==
    at = "mail" /\ ~blurred[about.blade] =>
        /\ about.level # said[about.blade]
        /\ about.level = "ok" => said[about.blade] # "none"

\* When a blade's state stays as it is, the table comes to agree with it
\* and stays so: a bad level is there and said, a blade that is well or
\* gone has no alert, also one that a pass wrote after the blade was
\* forgotten (healthPass).
AlertsSettle ==
    \A b \in Blade :
        /\ \A l \in Bad :
             <>[](evalHealthWith(blade[b]) = l) =>
                 <>[](rows[b].level = l /\ rows[b].notified = l)
        /\ <>[](evalHealthWith(blade[b]) \in {"ok", "gone"}) => <>[](rows[b] = NoAlert)
=============================================================================
