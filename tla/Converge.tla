------------------------------ MODULE Converge ------------------------------
(***************************************************************************)
(* One blade following its configuration.  The centre merges three scopes  *)
(* (server/api.go mergedConfig); the agent fetches the result, directly or *)
(* through its site, which answers from a copy while the centre is away    *)
(* (site/relay.go bladeConfig), and brings the host in line step by step   *)
(* (agent/main.go syncConfig, agent/apply.go applyConfig).                 *)
(*                                                                         *)
(* A version is a hash of the merged document, so it stands for the        *)
(* document here.  Of the settings those are kept that differ in how they  *)
(* reach the host: "file" for the files and binaries a unit runs from,     *)
(* "boot" for what only the firmware reads, "allow" and "restart" for the  *)
(* agent's own rules.  Hostname, time zone, keys and packages are one      *)
(* step that works or does not (broken).                                   *)
(***************************************************************************)
EXTENDS Integers, FiniteSets

CONSTANTS
    Patches,      \* what the API and the settings page are asked to change
    Bodies,       \* scopes and what they are replaced by
    Orders,       \* commands people queue
    Windows,      \* maintenance windows <<from, to>>
    Day,          \* the length of a day on the clock
    MaxEdits,     \* changes people make
    MaxTroubles   \* outages, failed steps on the host, unordered ends of the agent

Scope == {"global", "group", "blade"}
Key == {"file", "boot", "allow", "restart"}
None == [none |-> TRUE]

Document == UNION {[D -> {1, 2}] : D \in SUBSET Key}

ASSUME ConvergeAssumption ==
    /\ \A p \in Patches : p.scope \in Scope /\ p.set \in Document /\ p.unset \subseteq Key
    /\ \A b \in Bodies : b.scope \in Scope /\ b.set \in Document
    /\ Orders \subseteq {"reimage", "reboot"}
    /\ Day \in Nat \ {0}
    /\ \A w \in Windows : w[1] \in 0..(Day - 1) /\ w[2] \in 0..(Day - 1)
    /\ MaxEdits \in Nat /\ MaxTroubles \in Nat

VARIABLES
    cfgs,      \* the configs table
    edit,      \* a patch that has read its scope and not yet written it
    copy,      \* the document the site holds for this blade
    down,      \* the line to the centre or the site service, if one is down
    host,      \* what is on the blade: see Host
    ag,        \* the agent's memory: see Fresh
    noted,     \* the version in the agent's scratch note
    addr,      \* the address in the seed, "centre" or "site"
    orders,    \* commands queued for the blade
    leaving,   \* a restart is on its way
    window, hour, broken,
    edits, troubles,
    begun,     \* history: the last document the agent set out to apply
    upset      \* history: what went wrong on the way, see Upset

centre == <<cfgs, edit, orders>>
net == <<copy, down>>
clock == <<window, hour>>
vars == <<centre, net, host, ag, noted, addr, leaving, clock, broken, edits, troubles, begun, upset>>

-----------------------------------------------------------------------------
Version == Document \cup {None}
Step == {"idle", "fetch", "files", "boot", "mark", "units", "record"}

\* file: what the unit is started from; unit: what it runs, if it is active;
\* boot: config.txt; firmware: what the firmware has read; marker: the note in
\* /run.
Stopped == 3
Host == [file: 0..2, unit: (0..2) \cup {Stopped}, boot: 0..2, firmware: 0..2, marker: BOOLEAN]
Pol == [allow: BOOLEAN, restart: BOOLEAN]
\* "unit": the restart of the unit failed or was left out after a failure, or
\* the agent ended before it;
\* "marker": the note was not written, or the agent ended before it.
Upset == SUBSET {"unit", "marker"}

ConvergeTypeOK ==
    /\ cfgs \in [Scope -> Document]
    /\ copy \in Version /\ noted \in Version /\ begun \in Version
    /\ down \in {"nothing", "line", "site"} /\ leaving \in BOOLEAN
    /\ host \in Host
    /\ ag.applied \in Version /\ ag.want \in Version /\ ag.pol \in Pol /\ ag.doing \in Step
    /\ addr \in {"centre", "site"}
    /\ orders \subseteq Orders
    /\ window \in Windows /\ hour \in 0..(Day - 1) /\ upset \in Upset

\* The agent as it starts: readState gives the version, the rules are those of
\* an empty policy.
Fresh(v) ==
    [applied |-> v, want |-> None, pol |-> [allow |-> TRUE, restart |-> FALSE],
     doing |-> "idle", failed |-> FALSE, unitsChanged |-> FALSE]

ConvergeInit ==
    /\ cfgs = [s \in Scope |-> IF s = "global" THEN [file |-> 1] ELSE <<>>]
    /\ edit = None /\ copy = None
    /\ down = "nothing"
    /\ host = [file |-> 0, unit |-> 0, boot |-> 0, firmware |-> 0, marker |-> FALSE]
    /\ ag = Fresh(None) /\ noted = None
    /\ addr \in {"centre", "site"}
    /\ orders = {} /\ leaving = FALSE
    /\ window \in Windows /\ hour = 0
    /\ broken \in BOOLEAN
    /\ edits = 0 /\ troubles = 0
    /\ begun = None /\ upset = {}

-----------------------------------------------------------------------------
\* One document laid over another, key by key.
mergeInto(dst, src) ==
    [k \in DOMAIN dst \cup DOMAIN src |-> IF k \in DOMAIN src THEN src[k] ELSE dst[k]]

\* The three scopes, the more particular one winning.
mergedConfig == mergeInto(mergeInto(cfgs["global"], cfgs["group"]), cfgs["blade"])

\* What hConfigPatch, hSettingsSave and hUIBladeTarget make of a scope.
patched(seen, p) ==
    mergeInto([k \in DOMAIN seen \ p.unset |-> seen[k]], p.set)

editReads(p) ==
    /\ edit = None /\ edits < MaxEdits
    /\ edits' = edits + 1
    /\ edit' = [patch |-> p, seen |-> cfgs[p.scope]]
    /\ UNCHANGED <<cfgs, orders, net, host, ag, noted, addr, leaving, clock, broken, troubles, begun, upset>>

editWrites ==
    /\ edit # None
    /\ cfgs' = [cfgs EXCEPT ![edit.patch.scope] = patched(edit.seen, edit.patch)]
    /\ edit' = None
    /\ UNCHANGED <<orders, net, host, ag, noted, addr, leaving, clock, broken, edits, troubles, begun, upset>>

hConfigPut(b) ==
    /\ edits < MaxEdits
    /\ edits' = edits + 1
    /\ cfgs' = [cfgs EXCEPT ![b.scope] = b.set]
    /\ UNCHANGED <<edit, orders, net, host, ag, noted, addr, leaving, clock, broken, troubles, begun, upset>>

queueCommand(k) ==
    /\ k \notin orders /\ edits < MaxEdits
    /\ edits' = edits + 1
    /\ orders' = orders \cup {k}
    /\ UNCHANGED <<cfgs, edit, net, host, ag, noted, addr, leaving, clock, broken, troubles, begun, upset>>

-----------------------------------------------------------------------------
\* The site's pass takes the blade's document along; its line comes and goes.
sitePass ==
    /\ down = "nothing"
    /\ copy' = mergedConfig
    /\ UNCHANGED <<centre, down, host, ag, noted, addr, leaving, clock, broken, edits, troubles, begun, upset>>

Trouble == troubles < MaxTroubles /\ troubles' = troubles + 1

outage(what) ==
    /\ down = "nothing" /\ Trouble
    /\ down' = what
    /\ UNCHANGED <<centre, copy, host, ag, noted, addr, leaving, clock, broken, edits, begun, upset>>

outageEnds ==
    /\ down # "nothing" /\ down' = "nothing"
    /\ UNCHANGED <<centre, copy, host, ag, noted, addr, leaving, clock, broken, edits, troubles, begun, upset>>

At(where) == ag.doing = where

\* A pass is short on this clock.
tickClock ==
    /\ At("idle")
    /\ hour' = (hour + 1) % Day
    /\ UNCHANGED <<centre, net, host, ag, noted, addr, leaving, window, broken, edits, troubles, begun, upset>>

-----------------------------------------------------------------------------
\* Whom the agent talks to answers, and what with.
Answers(who) == down # (IF who = "site" THEN "site" ELSE "line")
Reached == Answers(addr) /\ down # "line"

\* bladeConfig and hBladeConfig.
Offered ==
    IF ~Answers(addr) THEN None
    ELSE IF Reached THEN mergedConfig ELSE copy

readAgentPolicy(c) ==
    [allow |-> "allow" \notin DOMAIN c, restart |-> "restart" \in DOMAIN c]

\* A window that ends before it begins goes over midnight.
inWindow ==
    LET from == window[1]
        to == window[2]
    IN  IF from <= to THEN hour >= from /\ hour < to ELSE hour >= from \/ hour < to

\* maybeRestart, with the agent as it is at the end of the pass.
Due(pol) == pol.restart /\ host.marker /\ inWindow

\* Mutant: nothing restarts for a configuration that did not apply in full.
endPass_Early(a) ==
    /\ ag' = [a EXCEPT !.doing = "idle", !.pol.restart = @ /\ ~(Due(a.pol) /\ ~a.failed)]
    /\ leaving' = (leaving \/ (Due(a.pol) /\ ~a.failed))

endPass(a) ==
    /\ ag' = [a EXCEPT !.doing = "idle", !.pol.restart = @ /\ ~Due(a.pol)]
    /\ leaving' = (leaving \/ Due(a.pol))

Goes(where) == ag' = [ag EXCEPT !.doing = where]

\* tick: the report comes first, and a pass without one is no pass; then
\* runCommands, those the policy allows.  Both kinds end in a restart.
runCommands ==
    /\ At("idle") /\ Answers(addr)
    /\ Goes("fetch")
    /\ orders' = IF Reached THEN {} ELSE orders
    /\ leaving' = (leaving \/ (Reached /\ \E k \in orders : k = "reimage" => ag.pol.allow))
    /\ UNCHANGED <<cfgs, edit, net, host, noted, addr, clock, broken, edits, troubles, begun, upset>>

\* syncConfig with nothing new: the answer is 304, or there is none.
unchanged ==
    /\ At("fetch")
    /\ Offered \in {None, ag.applied}
    /\ IF Offered = None THEN Goes("idle") /\ UNCHANGED leaving ELSE endPass(ag)
    /\ UNCHANGED <<centre, net, host, noted, addr, clock, broken, edits, troubles, begun, upset>>

\* syncConfig with a new document: the rules are read and the address is
\* adopted if it answers.  The site's is in every document of this blade.
changed ==
    /\ At("fetch")
    /\ Offered \notin {None, ag.applied}
    /\ ag' = [ag EXCEPT !.want = Offered, !.pol = readAgentPolicy(Offered), !.doing = "files",
                        !.failed = FALSE, !.unitsChanged = FALSE]
    /\ addr' = IF Answers("site") THEN "site" ELSE addr
    /\ begun' = Offered
    /\ UNCHANGED <<centre, net, host, noted, leaving, clock, broken, edits, troubles, upset>>

-----------------------------------------------------------------------------
\* applyConfig, in its order: only what the document names is looked at.
Named(k) == k \in DOMAIN ag.want
Differs(k) == Named(k) /\ host[k] # ag.want[k]

\* Hostname, time zone and keys, then files and binaries.
files ==
    /\ At("files")
    /\ host' = IF Differs("file") THEN [host EXCEPT !.file = ag.want["file"]] ELSE host
    /\ ag' = [ag EXCEPT !.doing = "boot", !.failed = broken, !.unitsChanged = Differs("file")]
    /\ UNCHANGED <<centre, net, noted, addr, leaving, clock, broken, edits, troubles, begun, upset>>

\* One of them fails, before it is written or at its mode afterwards.
filesFail ==
    /\ At("files") /\ Differs("file") /\ Trouble
    /\ ag' = [ag EXCEPT !.doing = "boot", !.failed = TRUE]
    /\ \/ UNCHANGED <<host, upset>>
       \/ /\ host' = [host EXCEPT !.file = ag.want["file"]]
          /\ upset' = upset \cup {"unit"}
    /\ UNCHANGED <<centre, net, noted, addr, leaving, clock, broken, edits, begun>>

\* applyBootConfig; the note is left in a step of its own.
boot ==
    /\ At("boot")
    /\ host' = IF Differs("boot") THEN [host EXCEPT !.boot = ag.want["boot"]] ELSE host
    /\ Goes(IF Differs("boot") THEN "mark" ELSE "units")
    /\ UNCHANGED <<centre, net, noted, addr, leaving, clock, broken, edits, troubles, begun, upset>>

bootFails ==
    /\ At("boot") /\ Differs("boot") /\ Trouble
    /\ ag' = [ag EXCEPT !.doing = "units", !.failed = TRUE]
    /\ UNCHANGED <<centre, net, host, noted, addr, leaving, clock, broken, edits, begun, upset>>

\* Mutant: the note only where nothing failed before.
markRebootPending_IfClean ==
    /\ At("mark")
    /\ host' = [host EXCEPT !.marker = @ \/ ~ag.failed]
    /\ Goes("units")
    /\ UNCHANGED <<centre, net, noted, addr, leaving, clock, broken, edits, troubles, begun, upset>>

markRebootPending ==
    /\ At("mark")
    /\ host' = [host EXCEPT !.marker = TRUE]
    /\ Goes("units")
    /\ UNCHANGED <<centre, net, noted, addr, leaving, clock, broken, edits, troubles, begun, upset>>

\* The note cannot be written, which nobody notices.
markFails ==
    /\ At("mark") /\ Trouble
    /\ Goes("units")
    /\ upset' = upset \cup {"marker"}
    /\ UNCHANGED <<centre, net, host, noted, addr, leaving, clock, broken, edits, begun>>

\* Mutant: a unit that runs is left alone.
units_Running ==
    /\ At("units")
    /\ host' = IF host.unit = Stopped THEN [host EXCEPT !.unit = host.file] ELSE host
    /\ Goes("record")
    /\ UNCHANGED <<centre, net, noted, addr, leaving, clock, broken, edits, troubles, begun, upset>>

\* daemon-reload and applyUnit: a restart where files changed in this pass, a
\* start where the unit is not active.
StartsUnit == ag.unitsChanged \/ host.unit = Stopped

units ==
    /\ At("units")
    /\ host' = IF StartsUnit THEN [host EXCEPT !.unit = host.file] ELSE host
    /\ Goes("record")
    /\ upset' = IF StartsUnit THEN upset \ {"unit"} ELSE upset
    /\ UNCHANGED <<centre, net, noted, addr, leaving, clock, broken, edits, troubles, begun>>

\* systemctl fails, and the unit runs on as it was or is down.
unitsFail ==
    /\ At("units") /\ StartsUnit /\ Trouble
    /\ ag' = [ag EXCEPT !.doing = "record", !.failed = TRUE]
    /\ \E u \in {host.unit, Stopped} : host' = [host EXCEPT !.unit = u]
    /\ upset' = upset \cup {"unit"}
    /\ UNCHANGED <<centre, net, noted, addr, leaving, clock, broken, edits, begun>>

\* Mutant: the version is recorded whatever became of it.
record_Always ==
    /\ At("record")
    /\ noted' = ag.want
    /\ endPass([ag EXCEPT !.applied = ag.want])
    /\ UNCHANGED <<centre, net, host, addr, clock, broken, edits, troubles, begun, upset>>

\* The end of syncConfig: a version that applied in full is recorded, in
\* memory and in the scratch note.
record ==
    /\ At("record")
    /\ noted' = IF ag.failed THEN noted ELSE ag.want
    /\ endPass(IF ag.failed THEN ag ELSE [ag EXCEPT !.applied = ag.want])
    /\ UNCHANGED <<centre, net, host, addr, clock, broken, edits, troubles, begun, upset>>

-----------------------------------------------------------------------------
\* The unit's files were changed in this pass and it was not restarted yet.
RestartDue == ag.doing \in {"boot", "mark", "units"} /\ ag.unitsChanged

\* The agent ends and systemd starts it again.
agentStops ==
    /\ Trouble
    /\ ag' = Fresh(noted)
    /\ leaving' = FALSE
    /\ upset' = upset \cup {u \in {"marker"} : At("mark")} \cup {u \in {"unit"} : RestartDue}
    /\ UNCHANGED <<centre, net, host, noted, addr, clock, broken, edits, begun>>

\* delayedReboot: the firmware reads config.txt, every unit starts from what
\* is on disk and /run is empty again.
Rebooted == [host EXCEPT !.firmware = host.boot, !.unit = host.file, !.marker = FALSE]

reboot ==
    /\ leaving
    /\ leaving' = FALSE
    /\ host' = Rebooted
    /\ ag' = Fresh(noted)
    /\ upset' = {}
    /\ UNCHANGED <<centre, net, noted, addr, clock, broken, edits, troubles, begun>>

-----------------------------------------------------------------------------
People ==
    \/ \E p \in Patches : editReads(p)
    \/ \E b \in Bodies : hConfigPut(b)
    \/ \E k \in Orders : queueCommand(k)

Apply == files \/ boot \/ markRebootPending \/ units \/ record
Tick == runCommands \/ unchanged \/ changed \/ Apply
HostFails == filesFail \/ bootFails \/ markFails \/ unitsFail

ConvergeNext ==
    \/ People \/ editWrites
    \/ sitePass \/ outage("line") \/ outage("site") \/ outageEnds \/ tickClock
    \/ Tick \/ HostFails
    \/ agentStops \/ reboot

ConvergeSpec == ConvergeInit /\ [][ConvergeNext]_vars

\* The agent keeps asking and the clock keeps going; outages end; a pass a
\* minute does not miss every window, which lasts longer.
FairConvergeSpec ==
    /\ ConvergeSpec
    /\ WF_vars(Tick) /\ WF_vars(editWrites) /\ WF_vars(sitePass) /\ WF_vars(outageEnds)
    /\ SF_vars(tickClock) /\ WF_vars(reboot)
    /\ SF_vars(runCommands /\ inWindow)

-----------------------------------------------------------------------------
OnDisk(c) == \A k \in {"file", "boot"} \cap DOMAIN c : host[k] = c[k]
Between == ag.doing \in {"idle", "fetch"}

\* Once the document the agent last set out to apply is recorded, its files
\* and its boot settings are on the disk, whatever failed or was cut short on
\* the way (agent/main.go: "do NOT record the version, so the next pass tries
\* again").
AppliedIsOnDisk == noted # None /\ noted = begun /\ Between => OnDisk(noted)

\* A boot setting the firmware has not read is announced: the marker stands,
\* also where something else failed in the same pass, unless the agent ended
\* exactly between the two or the note could not be written (agent/apply.go:
\* "so the interface can say so instead of quietly showing a blade that is
\* configured but is not yet running that configuration").
RestartIsOwed ==
    host.boot # host.firmware /\ ~At("mark") /\ "marker" \notin upset => host.marker

\* A unit runs what is on the disk once the pass that wrote it is over, through
\* passes that fail elsewhere, that find the file already there or that change
\* it again (agent/apply.go: "a unit whose binary changed has to be restarted,
\* otherwise the old one keeps running and the report claims otherwise").  From
\* a write or a restart that failed, or an end of the agent between the two,
\* until the unit is started again nothing is claimed.
UnitRunsTheFile == Between /\ "unit" \notin upset => host.unit = host.file

\* What the blade is told reaches its disk, through outages, failed steps and
\* ends of the agent (agent/main.go: "converges by itself after every
\* reboot").  Two ways round it are left out: a step that can never work, and
\* a document taken back after it was half applied, which the agent answers
\* for with the version it still has recorded.
TakenBack == noted = mergedConfig /\ begun # noted
Converges == <>[](broken \/ TakenBack \/ OnDisk(mergedConfig))

\* A blade that may restart itself for a boot setting does so in its window,
\* also where the rest of the document does not apply (agent/main.go: "a blade
\* whose hostname could not be set sat forever with an unapplied firmware
\* setting"), as long as the agent that read the rule lives.
RestartComes ==
    (host.marker /\ Between /\ ag.pol.restart /\ window[1] # window[2])
        ~> (leaving \/ ~host.marker \/ ~ag.pol.restart)

\* What the document it was given and has recorded forbids, the blade does
\* not do (agent/policy.go:
\* "the restriction exists for the blade that must never be reimaged by
\* accident").
AllowHolds ==
    [][(At("idle") /\ orders = {"reimage"} /\ ~leaving /\ leaving')
          => ~(noted = begun /\ "allow" \in DOMAIN noted)]_vars
=============================================================================
