-------------------------- MODULE Converge_proofs ---------------------------
(***************************************************************************)
(* Theorems about Converge, for any patches, bodies, orders and windows,   *)
(* and any number of edits and troubles.                                   *)
(***************************************************************************)
EXTENDS Converge, Sequences, TLAPS

-----------------------------------------------------------------------------
\* Documents.

LEMMA DocumentForm ==
    ASSUME NEW f
    PROVE  f \in Document <=> f \in [DOMAIN f -> {1, 2}] /\ DOMAIN f \subseteq Key
  <1>1. ASSUME f \in Document PROVE f \in [DOMAIN f -> {1, 2}] /\ DOMAIN f \subseteq Key
    BY <1>1 DEF Document
  <1>2. ASSUME f \in [DOMAIN f -> {1, 2}], DOMAIN f \subseteq Key PROVE f \in Document
    BY <1>2 DEF Document
  <1> QED
    BY <1>1, <1>2

\* One document laid over another is a document (server/api.go mergeInto).
LEMMA Merged ==
    ASSUME NEW f \in Document, NEW g \in Document
    PROVE  mergeInto(f, g) \in Document
  <1>1. /\ f \in [DOMAIN f -> {1, 2}] /\ DOMAIN f \subseteq Key
        /\ g \in [DOMAIN g -> {1, 2}] /\ DOMAIN g \subseteq Key
    BY DocumentForm
  <1>2. mergeInto(f, g) \in [DOMAIN f \cup DOMAIN g -> {1, 2}]
    BY <1>1 DEF mergeInto
  <1> QED
    BY <1>1, <1>2 DEF Document

\* So is what a patch makes of a scope (server/api.go hConfigPatch).
LEMMA PatchedIsDocument ==
    ASSUME NEW seen \in Document, NEW p \in Patches
    PROVE  patched(seen, p) \in Document
  <1> DEFINE rest == [k \in DOMAIN seen \ p.unset |-> seen[k]]
  <1>1. seen \in [DOMAIN seen -> {1, 2}] /\ DOMAIN seen \subseteq Key
    BY DocumentForm
  <1>2. rest \in [DOMAIN seen \ p.unset -> {1, 2}]
    BY <1>1
  <1>3. rest \in Document
    BY <1>1, <1>2 DEF Document
  <1>4. p.set \in Document
    BY ConvergeAssumption
  <1> QED
    BY <1>3, <1>4, Merged DEF patched

-----------------------------------------------------------------------------
\* The inductive invariant.

\* The centre, the site and the line.
EnvironmentOK ==
    /\ cfgs \in [Scope -> Document]
    /\ edit # None => edit.patch \in Patches /\ edit.seen \in Document
    /\ copy \in Version
    /\ down \in {"nothing", "line", "site"} /\ leaving \in BOOLEAN
    /\ addr \in {"centre", "site"}
    /\ orders \subseteq Orders
    /\ window \in Windows /\ hour \in 0..(Day - 1)
    /\ broken \in BOOLEAN

\* The blade.
Agent == [applied: Version, want: Version, pol: Pol, doing: Step, failed: BOOLEAN, unitsChanged: BOOLEAN]

BladeOK ==
    /\ host \in Host /\ ag \in Agent
    /\ noted \in Version /\ begun \in Version
    /\ upset \in Upset

\* The version in memory is the one in the note; a pass that applies something
\* applies what it set out with, and that is not what the note says.
PassKnowsWhatItApplies ==
    /\ ag.applied = noted
    /\ ~Between => ag.want \in Document /\ ag.want = begun /\ begun # noted

\* What the pass has behind it and did not fail at is on the disk.
FileDone == "file" \in DOMAIN ag.want => host.file = ag.want["file"]
BootDone == "boot" \in DOMAIN ag.want => host.boot = ag.want["boot"]

DoneSoFar ==
    /\ ag.doing = "boot" /\ ~ag.failed => FileDone
    /\ ag.doing \in {"mark", "units", "record"} /\ ~ag.failed => FileDone /\ BootDone

\* A unit that does not run its file is restarted in this pass, or something
\* went wrong.
UnitKnown == "unit" \notin upset => host.unit = host.file \/ RestartDue

BladeInv ==
    /\ BladeOK
    /\ PassKnowsWhatItApplies /\ DoneSoFar
    /\ AppliedIsOnDisk /\ RestartIsOwed /\ UnitKnown

ConvergeInv == EnvironmentOK /\ BladeInv

\* What the agent is offered is a document or nothing.
LEMMA OfferedIsVersion ==
    ASSUME EnvironmentOK
    PROVE  mergedConfig \in Document /\ Offered \in Version
  <1>1. cfgs["global"] \in Document /\ cfgs["group"] \in Document /\ cfgs["blade"] \in Document
    BY DEF EnvironmentOK, Scope
  <1>2. mergeInto(cfgs["global"], cfgs["group"]) \in Document
    BY <1>1, Merged
  <1>3. mergedConfig \in Document
    BY <1>1, <1>2, Merged DEF mergedConfig
  <1> QED
    BY <1>3 DEF Offered, EnvironmentOK, Version

\* Nothing that leaves the blade alone disturbs what is said of it.
LEMMA BladeAlone ==
    ASSUME BladeInv, UNCHANGED <<host, ag, noted, begun, upset>>
    PROVE  BladeInv'
  BY DEF BladeInv, BladeOK, PassKnowsWhatItApplies, DoneSoFar, FileDone, BootDone, UnitKnown, RestartDue,
         AppliedIsOnDisk, RestartIsOwed, OnDisk, Between, At

-----------------------------------------------------------------------------
\* The centre, the site and the clock.
LEMMA EnvironmentSteps ==
    ASSUME ConvergeInv,
           \/ People \/ editWrites \/ sitePass \/ outage("line") \/ outage("site")
           \/ outageEnds \/ tickClock
    PROVE  ConvergeInv'
  <1>1. UNCHANGED <<host, ag, noted, begun, upset>>
    BY DEF People, editReads, hConfigPut, queueCommand, editWrites, sitePass, outage, outageEnds, tickClock
  <1>2. BladeInv'
    BY <1>1, BladeAlone DEF ConvergeInv
  <1>3. EnvironmentOK'
    <2>1. ASSUME NEW p \in Patches, editReads(p) PROVE EnvironmentOK'
      <3>1. cfgs[p.scope] \in Document
        BY ConvergeAssumption DEF ConvergeInv, EnvironmentOK
      <3> QED
        BY <2>1, <3>1 DEF ConvergeInv, EnvironmentOK, editReads, clock, net
    <2>2. ASSUME NEW b \in Bodies, hConfigPut(b) PROVE EnvironmentOK'
      BY <2>2, ConvergeAssumption DEF ConvergeInv, EnvironmentOK, hConfigPut, clock, net
    <2>3. ASSUME NEW k \in Orders, queueCommand(k) PROVE EnvironmentOK'
      BY <2>3 DEF ConvergeInv, EnvironmentOK, queueCommand, clock, net
    <2>4. CASE editWrites
      <3>1. edit.patch \in Patches /\ patched(edit.seen, edit.patch) \in Document
        BY <2>4, PatchedIsDocument DEF editWrites, ConvergeInv, EnvironmentOK
      <3> QED
        BY <2>4, <3>1, ConvergeAssumption DEF ConvergeInv, EnvironmentOK, editWrites, clock, net
    <2>5. CASE sitePass
      BY <2>5, OfferedIsVersion DEF ConvergeInv, EnvironmentOK, sitePass, clock, centre, Version
    <2>6. CASE outage("line") \/ outage("site") \/ outageEnds
      BY <2>6 DEF ConvergeInv, EnvironmentOK, outage, outageEnds, clock, centre
    <2>7. CASE tickClock
      <3>1. Day \in Nat \ {0} /\ hour \in Nat
        BY ConvergeAssumption DEF ConvergeInv, EnvironmentOK
      <3>2. (hour + 1) % Day \in 0..(Day - 1)
        BY <3>1
      <3> QED
        BY <2>7, <3>2 DEF ConvergeInv, EnvironmentOK, tickClock, centre, net
    <2> QED
      BY <2>1, <2>2, <2>3, <2>4, <2>5, <2>6, <2>7 DEF People
  <1> QED
    BY <1>2, <1>3 DEF ConvergeInv

\* The agent leaves the rest of the world in order.
LEMMA AgentLeavesEnvironment ==
    ASSUME ConvergeInv, Tick \/ HostFails \/ agentStops \/ reboot
    PROVE  EnvironmentOK'
  <1>1. UNCHANGED <<cfgs, edit, copy, down, window, hour, broken>>
    BY DEF Tick, HostFails, Apply, runCommands, unchanged, changed, files, boot, markRebootPending, units, record,
           filesFail, bootFails, markFails, unitsFail, agentStops, reboot, centre, net, clock
  <1>2. addr' \in {"centre", "site"} /\ orders' \subseteq Orders
    BY DEF ConvergeInv, EnvironmentOK, Tick, HostFails, Apply, runCommands, unchanged, changed, files, boot,
           markRebootPending, units, record, filesFail, bootFails, markFails, unitsFail, agentStops, reboot, centre
  <1>3. leaving' \in BOOLEAN
    BY DEF ConvergeInv, EnvironmentOK, Tick, HostFails, Apply, runCommands, unchanged, changed, files, boot,
           markRebootPending, units, record, filesFail, bootFails, markFails, unitsFail, agentStops, reboot, endPass
  <1> QED
    BY <1>1, <1>2, <1>3 DEF ConvergeInv, EnvironmentOK

-----------------------------------------------------------------------------
\* The agent between two documents: it keeps its hands off the host.

\* What a pass that ends without a document leaves of the agent.
LEMMA EndedPass ==
    ASSUME NEW a \in Agent, endPass(a)
    PROVE  /\ ag' \in Agent /\ ag'.doing = "idle"
           /\ ag'.applied = a.applied /\ ag'.want = a.want
  <1>1. a.pol.restart \in BOOLEAN /\ a.pol.allow \in BOOLEAN
    BY DEF Agent, Pol
  <1>2. [a.pol EXCEPT !.restart = @ /\ ~Due(a.pol)] \in Pol
    BY <1>1 DEF Pol, Agent
  <1>3. ag' = [a EXCEPT !.doing = "idle", !.pol = [a.pol EXCEPT !.restart = @ /\ ~Due(a.pol)]]
    BY DEF endPass, Agent
  <1> QED
    BY <1>2, <1>3 DEF Agent, Step

\* Once the agent is between two documents, with its host as it was.
LEMMA BackBetween ==
    ASSUME BladeInv, UNCHANGED <<host, noted, begun, upset>>,
           ag' \in Agent, ag'.doing \in {"idle", "fetch"}, ag'.applied = noted,
           ~At("mark"), ~RestartDue
    PROVE  BladeInv'
  <1>1. BladeOK'
    BY DEF BladeInv, BladeOK
  <1>2. PassKnowsWhatItApplies' /\ DoneSoFar' /\ UnitKnown'
    BY DEF BladeInv, PassKnowsWhatItApplies, DoneSoFar, UnitKnown, RestartDue, Between
  <1>3. AppliedIsOnDisk'
    BY DEF BladeInv, AppliedIsOnDisk, OnDisk, PassKnowsWhatItApplies, Between
  <1>4. RestartIsOwed'
    BY DEF BladeInv, RestartIsOwed, At
  <1> QED
    BY <1>1, <1>2, <1>3, <1>4 DEF BladeInv

LEMMA IdleSteps ==
    ASSUME ConvergeInv, runCommands \/ unchanged
    PROVE  BladeInv'
  <1>1. ag \in Agent /\ ag.applied = noted
    BY DEF ConvergeInv, BladeInv, BladeOK, PassKnowsWhatItApplies
  <1>2. UNCHANGED <<host, noted, begun, upset>> /\ ~At("mark") /\ ~RestartDue
    BY DEF runCommands, unchanged, At, RestartDue
  <1>3. ag' \in Agent /\ ag'.doing \in {"idle", "fetch"} /\ ag'.applied = noted
    <2>1. CASE runCommands
      BY <1>1, <2>1 DEF runCommands, Goes, Agent, Step
    <2>2. CASE At("fetch") /\ Goes("idle")
      BY <1>1, <2>2 DEF Goes, Agent, Step
    <2>3. CASE endPass(ag)
      BY <1>1, <2>3, EndedPass
    <2> QED
      BY <2>1, <2>2, <2>3 DEF unchanged
  <1> QED
    BY <1>1, <1>2, <1>3, BackBetween DEF ConvergeInv

\* The agent sets out to apply a document.
LEMMA ChangedStep ==
    ASSUME ConvergeInv, changed
    PROVE  BladeInv'
  <1>1. Offered \in Document /\ Offered # noted
    BY OfferedIsVersion DEF changed, ConvergeInv, BladeInv, PassKnowsWhatItApplies, Version
  <1>2. readAgentPolicy(Offered) \in Pol
    BY DEF readAgentPolicy, Pol
  <1>3. /\ ag \in Agent /\ ag.doing = "fetch"
        /\ ag' = [ag EXCEPT !.want = Offered, !.pol = readAgentPolicy(Offered), !.doing = "files",
                            !.failed = FALSE, !.unitsChanged = FALSE]
        /\ begun' = Offered /\ UNCHANGED <<host, noted, upset>>
    BY DEF changed, At, ConvergeInv, BladeInv, BladeOK
  <1>4. /\ ag' \in Agent /\ ag'.doing = "files" /\ ag'.want = Offered /\ ag'.applied = ag.applied
    BY <1>1, <1>2, <1>3 DEF Agent, Version, Step
  <1>5. BladeOK'
    BY <1>1, <1>3, <1>4 DEF ConvergeInv, BladeInv, BladeOK, Version
  <1>6. PassKnowsWhatItApplies' /\ DoneSoFar' /\ UnitKnown' /\ AppliedIsOnDisk' /\ RestartIsOwed'
    BY <1>1, <1>3, <1>4 DEF ConvergeInv, BladeInv, PassKnowsWhatItApplies, DoneSoFar, UnitKnown, RestartDue, AppliedIsOnDisk,
                            RestartIsOwed, Between, At
  <1> QED
    BY <1>5, <1>6 DEF BladeInv

-----------------------------------------------------------------------------
\* The agent applies a document.  Outside Between nothing is claimed of the
\* note but what the pass knows.

\* A step within the pass.
LEMMA WithinPass ==
    ASSUME BladeInv, ~Between, UNCHANGED <<noted, begun>>,
           ag' \in Agent, ag'.doing \in Step \ {"idle", "fetch"},
           ag'.applied = ag.applied, ag'.want = ag.want,
           host' \in Host, upset' \in Upset, DoneSoFar', UnitKnown', RestartIsOwed'
    PROVE  BladeInv'
  <1>1. BladeOK'
    BY DEF BladeInv, BladeOK
  <1>2. PassKnowsWhatItApplies' /\ AppliedIsOnDisk'
    BY DEF BladeInv, PassKnowsWhatItApplies, AppliedIsOnDisk, Between
  <1> QED
    BY <1>1, <1>2 DEF BladeInv

\* What a document names for the host is a value the host can have.
LEMMA WantedValue ==
    ASSUME BladeInv, ~Between, NEW k \in {"file", "boot"}, Named(k)
    PROVE  ag.want[k] \in 0..2
  <1>1. ag.want \in [DOMAIN ag.want -> {1, 2}]
    BY DocumentForm DEF BladeInv, PassKnowsWhatItApplies
  <1> QED
    BY <1>1 DEF Named

LEMMA FilesSteps ==
    ASSUME BladeInv, broken \in BOOLEAN, files \/ filesFail
    PROVE  BladeInv'
  <1>1. ag \in Agent /\ host \in Host /\ upset \in Upset /\ ag.doing = "files" /\ ~Between
    BY DEF BladeInv, BladeOK, files, filesFail, At, Between
  <1>2. CASE files
    <2>1. /\ host' = IF Differs("file") THEN [host EXCEPT !.file = ag.want["file"]] ELSE host
          /\ ag' = [ag EXCEPT !.doing = "boot", !.failed = broken, !.unitsChanged = Differs("file")]
          /\ UNCHANGED <<noted, begun, upset>>
      BY <1>2 DEF files
    <2>2. Differs("file") \in BOOLEAN
      BY DEF Differs, Named
    <2>3. /\ ag' \in Agent /\ ag'.doing = "boot" /\ ag'.applied = ag.applied /\ ag'.want = ag.want
          /\ ag'.unitsChanged = Differs("file")
      BY <1>1, <2>1, <2>2 DEF Agent, Step
    <2>4. Differs("file") => ag.want["file"] \in 0..2
      BY <1>1, WantedValue DEF Differs
    <2>5. /\ host' \in Host /\ host'.unit = host.unit /\ host'.boot = host.boot
          /\ host'.firmware = host.firmware /\ host'.marker = host.marker
          /\ host'.file = IF Differs("file") THEN ag.want["file"] ELSE host.file
      BY <1>1, <2>1, <2>4 DEF Host
    <2>6. upset' \in Upset
      BY <1>1, <2>1 DEF Upset
    <2>7. DoneSoFar'
      BY <2>3, <2>5 DEF DoneSoFar, FileDone, Differs, Named
    <2>8. UnitKnown' /\ RestartIsOwed'
      BY <1>1, <2>1, <2>3, <2>5 DEF BladeInv, UnitKnown, RestartDue, RestartIsOwed, At
    <2> QED
      BY <1>1, <2>1, <2>3, <2>5, <2>6, <2>7, <2>8, WithinPass DEF Step
  <1>3. CASE filesFail
    <2>1. /\ ag' = [ag EXCEPT !.doing = "boot", !.failed = TRUE] /\ UNCHANGED <<noted, begun>>
          /\ \/ UNCHANGED <<host, upset>>
             \/ host' = [host EXCEPT !.file = ag.want["file"]] /\ upset' = upset \cup {"unit"}
      BY <1>3 DEF filesFail
    <2>2. ag' \in Agent /\ ag'.doing = "boot" /\ ag'.failed /\ ag'.applied = ag.applied /\ ag'.want = ag.want
      BY <1>1, <2>1 DEF Agent, Step
    <2>3. ag.want["file"] \in 0..2
      BY <1>1, <1>3, WantedValue DEF filesFail, Differs
    <2>4. /\ host' \in Host /\ host'.boot = host.boot /\ host'.firmware = host.firmware
          /\ host'.marker = host.marker
      BY <1>1, <2>1, <2>3 DEF Host
    <2>5. upset' \in Upset /\ upset \subseteq upset'
      BY <1>1, <2>1 DEF Upset
    <2>6. DoneSoFar' /\ RestartIsOwed'
      BY <1>1, <2>2, <2>4, <2>5 DEF BladeInv, DoneSoFar, RestartIsOwed, At
    <2>7. UnitKnown'
      BY <1>1, <2>1, <2>2 DEF BladeInv, UnitKnown, RestartDue
    <2> QED
      BY <1>1, <2>1, <2>2, <2>4, <2>5, <2>6, <2>7, WithinPass DEF Step
  <1> QED
    BY <1>2, <1>3

LEMMA BootSteps ==
    ASSUME BladeInv, boot \/ bootFails \/ markRebootPending \/ markFails
    PROVE  BladeInv'
  <1>1. ag \in Agent /\ host \in Host /\ upset \in Upset /\ ~Between
    BY DEF BladeInv, BladeOK, boot, bootFails, markRebootPending, markFails, At, Between
  <1>2. CASE boot
    <2>1. /\ host' = IF Differs("boot") THEN [host EXCEPT !.boot = ag.want["boot"]] ELSE host
          /\ ag' = [ag EXCEPT !.doing = IF Differs("boot") THEN "mark" ELSE "units"]
          /\ ag.doing = "boot" /\ UNCHANGED <<upset, noted, begun>>
      BY <1>2 DEF boot, Goes, At
    <2>2. /\ ag' \in Agent /\ ag'.doing = (IF Differs("boot") THEN "mark" ELSE "units")
          /\ ag'.failed = ag.failed /\ ag'.applied = ag.applied /\ ag'.want = ag.want
      BY <1>1, <2>1 DEF Agent, Step
    <2>3. Differs("boot") => ag.want["boot"] \in 0..2
      BY <1>1, WantedValue DEF Differs
    <2>4. /\ host' \in Host /\ host'.unit = host.unit /\ host'.file = host.file
          /\ host'.firmware = host.firmware /\ host'.marker = host.marker
          /\ host'.boot = IF Differs("boot") THEN ag.want["boot"] ELSE host.boot
      BY <1>1, <2>1, <2>3 DEF Host
    <2>5. DoneSoFar'
      BY <2>1, <2>2, <2>4 DEF BladeInv, DoneSoFar, FileDone, BootDone, Differs, Named
    <2>6. UnitKnown' /\ RestartIsOwed'
      BY <2>1, <2>2, <2>4 DEF BladeInv, UnitKnown, RestartDue, RestartIsOwed, At
    <2> QED
      BY <1>1, <2>1, <2>2, <2>4, <2>5, <2>6, WithinPass DEF Step
  <1>3. CASE bootFails
    <2>1. /\ ag' = [ag EXCEPT !.doing = "units", !.failed = TRUE]
          /\ ag.doing = "boot" /\ UNCHANGED <<host, upset, noted, begun>>
      BY <1>3 DEF bootFails, At
    <2>2. ag' \in Agent /\ ag'.doing = "units" /\ ag'.failed /\ ag'.applied = ag.applied /\ ag'.want = ag.want
      BY <1>1, <2>1 DEF Agent, Step
    <2>3. DoneSoFar' /\ UnitKnown' /\ RestartIsOwed'
      BY <1>1, <2>1, <2>2 DEF BladeInv, DoneSoFar, UnitKnown, RestartDue, RestartIsOwed, At
    <2> QED
      BY <1>1, <2>1, <2>2, <2>3, WithinPass DEF Step
  <1>4. CASE markRebootPending
    <2>1. /\ host' = [host EXCEPT !.marker = TRUE] /\ ag' = [ag EXCEPT !.doing = "units"]
          /\ ag.doing = "mark" /\ UNCHANGED <<upset, noted, begun>>
      BY <1>4 DEF markRebootPending, Goes, At
    <2>2. /\ ag' \in Agent /\ ag'.doing = "units"
          /\ ag'.failed = ag.failed /\ ag'.applied = ag.applied /\ ag'.want = ag.want
      BY <1>1, <2>1 DEF Agent, Step
    <2>3. /\ host' \in Host /\ host'.unit = host.unit /\ host'.file = host.file
          /\ host'.boot = host.boot /\ host'.marker
      BY <1>1, <2>1 DEF Host
    <2>4. DoneSoFar' /\ UnitKnown' /\ RestartIsOwed'
      BY <2>1, <2>2, <2>3 DEF BladeInv, DoneSoFar, FileDone, BootDone, UnitKnown, RestartDue, RestartIsOwed
    <2> QED
      BY <1>1, <2>1, <2>2, <2>3, <2>4, WithinPass DEF Step
  <1>5. CASE markFails
    <2>1. /\ ag' = [ag EXCEPT !.doing = "units"] /\ ag.doing = "mark"
          /\ upset' = upset \cup {"marker"} /\ UNCHANGED <<host, noted, begun>>
      BY <1>5 DEF markFails, Goes, At
    <2>2. /\ ag' \in Agent /\ ag'.doing = "units" /\ ag'.unitsChanged = ag.unitsChanged
          /\ ag'.failed = ag.failed /\ ag'.applied = ag.applied /\ ag'.want = ag.want
      BY <1>1, <2>1 DEF Agent, Step
    <2>3. upset' \in Upset
      BY <1>1, <2>1 DEF Upset
    <2>4. DoneSoFar' /\ UnitKnown' /\ RestartIsOwed'
      BY <2>1, <2>2 DEF BladeInv, DoneSoFar, FileDone, BootDone, UnitKnown, RestartDue, RestartIsOwed
    <2> QED
      BY <1>1, <2>1, <2>2, <2>3, <2>4, WithinPass DEF Step
  <1> QED
    BY <1>2, <1>3, <1>4, <1>5

LEMMA UnitsSteps ==
    ASSUME BladeInv, units \/ unitsFail
    PROVE  BladeInv'
  <1>1. ag \in Agent /\ host \in Host /\ upset \in Upset /\ ag.doing = "units" /\ ~Between
    BY DEF BladeInv, BladeOK, units, unitsFail, At, Between
  <1>2. CASE units
    <2>1. /\ host' = IF StartsUnit THEN [host EXCEPT !.unit = host.file] ELSE host
          /\ ag' = [ag EXCEPT !.doing = "record"]
          /\ upset' = IF StartsUnit THEN upset \ {"unit"} ELSE upset
          /\ UNCHANGED <<noted, begun>>
      BY <1>2 DEF units, Goes
    <2>2. /\ ag' \in Agent /\ ag'.doing = "record"
          /\ ag'.failed = ag.failed /\ ag'.applied = ag.applied /\ ag'.want = ag.want
      BY <1>1, <2>1 DEF Agent, Step
    <2>3. /\ host' \in Host /\ host'.file = host.file /\ host'.boot = host.boot
          /\ host'.firmware = host.firmware /\ host'.marker = host.marker
          /\ host'.unit = IF StartsUnit THEN host.file ELSE host.unit
      BY <1>1, <2>1 DEF Host
    <2>4. upset' \in Upset
      BY <1>1, <2>1 DEF Upset
    <2>5. DoneSoFar'
      BY <1>1, <2>2, <2>3 DEF BladeInv, DoneSoFar, FileDone, BootDone
    <2>6. UnitKnown' /\ RestartIsOwed'
      BY <1>1, <2>1, <2>2, <2>3 DEF BladeInv, UnitKnown, RestartDue, StartsUnit, RestartIsOwed, At
    <2> QED
      BY <1>1, <2>1, <2>2, <2>3, <2>4, <2>5, <2>6, WithinPass DEF Step
  <1>3. CASE unitsFail
    <2>1. /\ ag' = [ag EXCEPT !.doing = "record", !.failed = TRUE]
          /\ upset' = upset \cup {"unit"} /\ UNCHANGED <<noted, begun>>
      BY <1>3 DEF unitsFail
    <2>2. PICK u \in {host.unit, Stopped} : host' = [host EXCEPT !.unit = u]
      BY <1>3 DEF unitsFail
    <2>3. ag' \in Agent /\ ag'.doing = "record" /\ ag'.failed /\ ag'.applied = ag.applied /\ ag'.want = ag.want
      BY <1>1, <2>1 DEF Agent, Step
    <2>4. /\ host' \in Host /\ host'.boot = host.boot
          /\ host'.firmware = host.firmware /\ host'.marker = host.marker
      BY <1>1, <2>2 DEF Host
    <2>5. upset' \in Upset /\ "unit" \in upset' /\ upset \subseteq upset'
      BY <1>1, <2>1 DEF Upset
    <2>6. DoneSoFar' /\ UnitKnown' /\ RestartIsOwed'
      BY <1>1, <2>3, <2>4, <2>5 DEF BladeInv, DoneSoFar, UnitKnown, RestartIsOwed, At
    <2> QED
      BY <1>1, <2>1, <2>3, <2>4, <2>5, <2>6, WithinPass DEF Step
  <1> QED
    BY <1>2, <1>3

\* The pass ends; what it did not fail at is recorded.
LEMMA RecordStep ==
    ASSUME BladeInv, record
    PROVE  BladeInv'
  <1>1. /\ ag \in Agent /\ host \in Host /\ upset \in Upset /\ ag.doing = "record"
        /\ ag.applied = noted /\ ag.want = begun /\ begun # noted
    BY DEF BladeInv, BladeOK, PassKnowsWhatItApplies, record, At, Between
  <1>2. CASE ag.failed
    <2>1. endPass(ag) /\ UNCHANGED <<host, noted, begun, upset>> /\ ~At("mark") /\ ~RestartDue
      BY <1>1, <1>2 DEF record, At, RestartDue
    <2>2. ag' \in Agent /\ ag'.doing = "idle" /\ ag'.applied = noted
      BY <1>1, <2>1, EndedPass
    <2> QED
      BY <2>1, <2>2, BackBetween
  <1>3. CASE ~ag.failed
    <2>1. /\ endPass([ag EXCEPT !.applied = ag.want]) /\ noted' = ag.want
          /\ UNCHANGED <<host, begun, upset>>
      BY <1>3 DEF record
    <2>2. [ag EXCEPT !.applied = ag.want] \in Agent /\ [ag EXCEPT !.applied = ag.want].applied = ag.want
      BY <1>1 DEF Agent
    <2>3. ag' \in Agent /\ ag'.doing = "idle" /\ ag'.applied = noted'
      BY <2>1, <2>2, EndedPass
    <2>4. FileDone /\ BootDone
      BY <1>1, <1>3 DEF BladeInv, DoneSoFar
    <2>5. OnDisk(ag.want)
      BY <2>4 DEF OnDisk, FileDone, BootDone
    <2>6. BladeOK'
      BY <1>1, <2>1, <2>3 DEF BladeInv, BladeOK, Agent
    <2>7. PassKnowsWhatItApplies' /\ DoneSoFar' /\ UnitKnown' /\ RestartIsOwed'
      BY <1>1, <2>1, <2>3 DEF BladeInv, PassKnowsWhatItApplies, DoneSoFar, UnitKnown, RestartDue, RestartIsOwed, Between, At
    <2>8. AppliedIsOnDisk'
      BY <2>1, <2>5 DEF AppliedIsOnDisk, OnDisk
    <2> QED
      BY <2>6, <2>7, <2>8 DEF BladeInv
  <1> QED
    BY <1>2, <1>3

-----------------------------------------------------------------------------
\* The agent ends, or the whole blade does.
LEMMA StartsAgain ==
    ASSUME BladeInv, agentStops \/ reboot
    PROVE  BladeInv'
  <1>1. /\ ag \in Agent /\ host \in Host /\ upset \in Upset /\ noted \in Version
        /\ ~Between => begun # noted
    BY DEF BladeInv, BladeOK, PassKnowsWhatItApplies
  <1>2. /\ Fresh(noted) \in Agent /\ Fresh(noted).doing = "idle" /\ Fresh(noted).applied = noted
    BY <1>1 DEF Fresh, Agent, Pol, Step, Version
  <1>3. ag' = Fresh(noted) /\ UNCHANGED <<noted, begun>>
    BY DEF agentStops, reboot
  <1>4. /\ host' \in Host /\ upset' \in Upset /\ host'.file = host.file /\ host'.boot = host.boot
    BY <1>1 DEF agentStops, reboot, Rebooted, Host, Upset
  <1>5. BladeOK'
    BY <1>2, <1>3, <1>4 DEF BladeInv, BladeOK
  <1>6. PassKnowsWhatItApplies' /\ DoneSoFar'
    BY <1>2, <1>3 DEF PassKnowsWhatItApplies, DoneSoFar, Between
  <1>7. AppliedIsOnDisk'
    <2>1. AppliedIsOnDisk
      BY DEF BladeInv
    <2>2. SUFFICES ASSUME noted # None, noted = begun PROVE OnDisk(noted)'
      BY <1>3 DEF AppliedIsOnDisk
    <2>3. OnDisk(noted)
      BY <1>1, <2>1, <2>2 DEF AppliedIsOnDisk
    <2> QED
      BY <1>1, <1>3, <1>4, <2>3 DEF OnDisk, Host
  <1>8. UnitKnown' /\ RestartIsOwed'
    <2>1. CASE agentStops
      BY <1>2, <1>3, <2>1 DEF agentStops, BladeInv, UnitKnown, RestartDue, RestartIsOwed, At
    <2>2. CASE reboot
      BY <1>1, <2>2 DEF reboot, Rebooted, Host, UnitKnown, RestartDue, RestartIsOwed
    <2> QED
      BY <2>1, <2>2
  <1> QED
    BY <1>5, <1>6, <1>7, <1>8 DEF BladeInv

-----------------------------------------------------------------------------
LEMMA ConvergeStart == ConvergeInit => ConvergeInv
  <1>1. SUFFICES ASSUME ConvergeInit PROVE ConvergeInv
    OBVIOUS
  <1>2. <<>> \in Document
    <2>1. <<>> \in [{} -> {1, 2}]
      <3>1. <<>> \in Seq({1, 2}) /\ Len(<<>>) = 0
        OBVIOUS
      <3>2. <<>> \in [1..0 -> {1, 2}] /\ 1..0 = {}
        BY <3>1
      <3> QED
        BY <3>2
    <2>2. {} \in SUBSET Key
      OBVIOUS
    <2> QED
      BY <2>1, <2>2 DEF Document
  <1>3. [file |-> 1] \in Document
    <2>1. [file |-> 1] = [k \in {"file"} |-> 1]
      OBVIOUS
    <2>2. [k \in {"file"} |-> 1] \in [{"file"} -> {1, 2}] /\ {"file"} \in SUBSET Key
      BY DEF Key
    <2> QED
      BY <2>1, <2>2 DEF Document
  <1>4. EnvironmentOK
    <2>1. cfgs \in [Scope -> Document]
      BY <1>1, <1>2, <1>3 DEF ConvergeInit
    <2>2. hour \in 0..(Day - 1)
      BY <1>1, ConvergeAssumption DEF ConvergeInit
    <2>3. copy \in Version
      BY <1>1 DEF ConvergeInit, Version
    <2> QED
      BY <1>1, <2>1, <2>2, <2>3 DEF ConvergeInit, EnvironmentOK
  <1>5. Fresh(None) \in Agent /\ Fresh(None).doing = "idle" /\ Fresh(None).applied = None
    <2>1. [allow |-> TRUE, restart |-> FALSE] \in Pol
      BY DEF Pol
    <2>2. None \in Version /\ "idle" \in Step
      BY DEF Version, Step
    <2> QED
      BY <2>1, <2>2 DEF Fresh, Agent
  <1>6. host \in Host
    BY <1>1 DEF ConvergeInit, Host
  <1>7. BladeInv
    BY <1>1, <1>5, <1>6 DEF ConvergeInit, BladeInv, BladeOK, PassKnowsWhatItApplies, DoneSoFar, UnitKnown, RestartDue,
           AppliedIsOnDisk, RestartIsOwed, Between, Version, Upset
  <1> QED
    BY <1>4, <1>7 DEF ConvergeInv

LEMMA ConvergeKept == ConvergeInv /\ [ConvergeNext]_vars => ConvergeInv'
  <1>1. SUFFICES ASSUME ConvergeInv, [ConvergeNext]_vars PROVE ConvergeInv'
    OBVIOUS
  <1>2. CASE Tick \/ HostFails \/ agentStops \/ reboot
    <2>1. BladeInv /\ broken \in BOOLEAN
      BY <1>1 DEF ConvergeInv, EnvironmentOK
    <2>2. BladeInv'
      BY <1>1, <1>2, <2>1, IdleSteps, ChangedStep, FilesSteps, BootSteps, UnitsSteps, RecordStep, StartsAgain
      DEF Tick, Apply, HostFails
    <2> QED
      BY <1>1, <1>2, <2>2, AgentLeavesEnvironment DEF ConvergeInv
  <1>3. CASE UNCHANGED vars
    <2>1. EnvironmentOK'
      BY <1>1, <1>3 DEF ConvergeInv, EnvironmentOK, vars, centre, net, clock
    <2> QED
      BY <1>1, <1>3, <2>1, BladeAlone DEF ConvergeInv, vars
  <1> QED
    BY <1>1, <1>2, <1>3, EnvironmentSteps DEF ConvergeNext

\* The two halves of the invariant hold in every state of every behaviour.
THEOREM ConvergeInvariant == ConvergeSpec => []ConvergeInv
  BY ConvergeStart, ConvergeKept, PTL DEF ConvergeSpec

\* Every variable keeps its type (server/api.go: what is merged and patched
\* stays a document; agent/main.go: what is recorded is one).
THEOREM ConvergeTypeCorrect == ConvergeSpec => []ConvergeTypeOK
  <1>1. ConvergeInv => ConvergeTypeOK
    BY DEF ConvergeInv, EnvironmentOK, BladeInv, BladeOK, Agent, ConvergeTypeOK
  <1> QED
    BY <1>1, ConvergeInvariant, PTL

\* What the agent recorded of the document it last set out with is on the disk
\* (agent/main.go syncConfig), for any documents and any number of failures.
THEOREM RecordedIsOnDisk == ConvergeSpec => []AppliedIsOnDisk
  <1>1. ConvergeInv => AppliedIsOnDisk
    BY DEF ConvergeInv, BladeInv
  <1> QED
    BY <1>1, ConvergeInvariant, PTL

\* A boot setting the firmware has not read is announced (agent/apply.go
\* applyBootConfig, markRebootPending).
THEOREM RestartIsAnnounced == ConvergeSpec => []RestartIsOwed
  <1>1. ConvergeInv => RestartIsOwed
    BY DEF ConvergeInv, BladeInv
  <1> QED
    BY <1>1, ConvergeInvariant, PTL

\* A unit runs what is on the disk, unless its restart failed or was cut off
\* (agent/apply.go applyUnit).
THEOREM UnitsRunTheirFiles == ConvergeSpec => []UnitRunsTheFile
  <1>1. ConvergeInv => UnitRunsTheFile
    BY DEF ConvergeInv, BladeInv, UnitKnown, RestartDue, Between, UnitRunsTheFile
  <1> QED
    BY <1>1, ConvergeInvariant, PTL
=============================================================================
