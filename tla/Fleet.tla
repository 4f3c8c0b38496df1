------------------------------- MODULE Fleet --------------------------------
(***************************************************************************)
(* The whole loop a blade lives in: the centre (module Centre), the wire   *)
(* it boots from, the agent on its disk, the installer in the netbooted    *)
(* mini OS, and, where a site stands between them (~LocalDHCP), the site's *)
(* copy of the desired state, its reservations and the reports it keeps    *)
(* while the link to the centre is down (site/site.go, relay.go, dhcp.go,  *)
(* agent/main.go, installer/main.go).                                      *)
(*                                                                         *)
(* A step is one request and its answer, so everything that can happen     *)
(* between two requests does: a power cut, an outage, a person pressing a  *)
(* button.  People and faults are bounded (MaxAsks, MaxFaults), which also *)
(* says that both stop at some time.                                       *)
(***************************************************************************)
EXTENDS Centre, Sequences

CONSTANTS
    Refused,     \* the commands the policy on the blades does not allow
    MaxAsks,     \* how many things people ask for
    MaxFaults,   \* how many power cuts, outages, losses and late answers there are
    MaxQueue     \* reports the relay holds at one time (maxPending, scaled down)

ASSUME FleetAssumption ==
    /\ Refused \subseteq Kind
    /\ MaxAsks \in Nat /\ MaxFaults \in Nat
    /\ MaxQueue \in Nat \ {0}

VARIABLES
    pc,        \* what the blade is doing
    disk,      \* what its disk holds
    auth,      \* the token on the disk is the one in the row
    link,      \* the centre can be reached
    cache,     \* the site's copy of the desired state
    stamped,   \* desired_at is later than the blade's arming
    queue,     \* relay.pending: reports nobody could take yet
    draining,  \* a pass is handing the queue over
    asks, faults

machine == <<pc, disk, auth>>
siteVars == <<link, cache, stamped, queue, draining>>
vars == <<cvars, machine, siteVars, asks, faults>>

Relayed == ~LocalDHCP

Doing ==
    {"off", "halted",              \* without power, or stopped by a command
     "boot",                       \* asking DHCP what to boot
     "up", "fetch",                \* the agent, before its report and after it
     "mini", "idle",               \* the installer asking; last told "idle"
     "go", "wipe",                 \* a job in hand
     "writing", "wiping",
     "done", "wiped", "error",     \* about to report
     "parked",                     \* stays put until somebody cuts the power
     "broken"}                     \* started from a half-written disk

Report == [blade : Blade, what : Phase \cup {"status"}]

\* What the site is told about a blade: those that stand in one of its slots.
NotHeld == [held |-> FALSE, netboot |-> FALSE, image |-> None, install |-> "idle"]
siteDesired(r) ==
    IF r.known /\ r.slot \in Served
    THEN [held |-> TRUE, netboot |-> Netboot(r), image |-> r.image, install |-> r.install]
    ELSE NotHeld

FleetTypeOK ==
    /\ TypeOK
    /\ pc \in [Blade -> Doing]
    /\ disk \in [Blade -> {"blank", "system", "half"}]
    /\ auth \in [Blade -> BOOLEAN]
    /\ link \in BOOLEAN
    /\ cache \in [Blade -> [held : BOOLEAN, netboot : BOOLEAN,
                            image : Image \cup {None}, install : Install]]
    /\ stamped \in [Blade -> BOOLEAN]
    /\ queue \in Seq(Report) /\ Len(queue) <= MaxQueue
    /\ draining \in BOOLEAN
    /\ asks \in 0..MaxAsks /\ faults \in 0..MaxFaults

\* A blade out of its box, or one in service with the site in step.
Fresh == /\ Init
         /\ pc = [b \in Blade |-> "off"]
         /\ disk = [b \in Blade |-> "blank"]
         /\ auth = [b \in Blade |-> FALSE]

InService ==
    \E at \in [Blade -> Served], i \in Catalogue :
        /\ \A b, c \in Blade : b # c => at[b] # at[c]
        /\ row = [b \in Blade |-> [NewRow EXCEPT !.slot = at[b], !.image = i,
                                                 !.state = "online", !.install = "done"]]
        /\ cmds = [b \in Blade |-> {}]
        /\ sess = [b \in Blade |-> [seen |-> TRUE, linked |-> TRUE, image |-> None]]
        /\ resv = [b \in Blade |-> "plain"]
        /\ synced = TRUE
        /\ pc = [b \in Blade |-> "up"]
        /\ disk = [b \in Blade |-> "system"]
        /\ auth = [b \in Blade |-> TRUE]

FleetInit ==
    /\ Fresh \/ InService
    /\ link = TRUE
    /\ cache = [b \in Blade |-> siteDesired(row[b])]
    /\ stamped = [b \in Blade |-> FALSE]
    /\ queue = <<>> /\ draining = FALSE
    /\ asks = 0 /\ faults = 0

-----------------------------------------------------------------------------
\* Helpers: where a blade goes next, and the budget of faults.

Goes(b, where) == pc' = [pc EXCEPT ![b] = where]
GoesTo(b, places) == \E p \in places : Goes(b, p)
Fault == faults < MaxFaults /\ faults' = faults + 1

\* forwardOrQueue with the link down: the relay keeps the report, at the limit
\* in place of the older half of the queue.
Keep(b, what) ==
    /\ Relayed /\ ~link
    /\ LET kept == IF Len(queue) >= MaxQueue
                   THEN SubSeq(queue, Len(queue) - MaxQueue \div 2 + 1, Len(queue))
                   ELSE queue
       IN  queue' = Append(kept, [blade |-> b, what |-> what])

-----------------------------------------------------------------------------
\* People, and the centre's own loops.

\* A new arming is later than any stamp there is.
Ask(b) ==
    /\ asks < MaxAsks
    /\ asks' = asks + 1
    /\ \/ Assigns(b) /\ UNCHANGED stamped
       \/ Orders(b) /\ UNCHANGED stamped
       \/ requestProbe(b) /\ stamped' = [stamped EXCEPT ![b] = FALSE]
       \/ hDHCPSync /\ UNCHANGED stamped
    /\ auth' = [auth EXCEPT ![b] = @ /\ row'[b].known]
    /\ UNCHANGED <<pc, disk, link, cache, queue, draining, faults>>

\* probeStep: the site has fetched since the arming, or no site ever fetches
\* and the arming has stood for a minute.
ProbeStep(b) ==
    /\ \/ probeExpire(b)
       \/ (Relayed => stamped[b]) /\ probeSend(b)
    /\ UNCHANGED <<machine, siteVars, asks, faults>>

\* Half an hour without the blade coming up in the mini OS.
ProbeRunsOut(b) ==
    /\ ProbeTimeout(b)
    /\ UNCHANGED <<machine, siteVars, asks, faults>>

\* The reaper, for a blade that has stopped reporting.
Reap(b) ==
    /\ pc[b] \notin {"up", "fetch"} \/ ~link
    /\ sweepOffline(b)
    /\ UNCHANGED <<machine, siteVars, asks, faults>>

-----------------------------------------------------------------------------
\* The site.  pass() fetches, applies what it got and then drains the queue;
\* the network calls are separate steps.

\* fetch, setState, saveState and writeReservations.  A body is sent, and
\* desired_at stamped, only if the document changed.
pass ==
    /\ Relayed /\ link
    /\ LET d == [b \in Blade |-> siteDesired(row[b])]
       IN  /\ cache' = d
           /\ resv' = [b \in Blade |-> ReservationOf(row[b])]
           /\ stamped' = IF d = cache THEN stamped ELSE [b \in Blade |-> TRUE]
    /\ draining' = (queue # <<>>)
    /\ UNCHANGED <<row, cmds, sess, synced, machine, link, queue, asks, faults>>

\* The centre stamped and answered; the answer did not arrive.
passLost ==
    /\ Relayed /\ link /\ Fault
    /\ \E b \in Blade : siteDesired(row[b]) # cache[b]
    /\ stamped' = [b \in Blade |-> TRUE]
    /\ UNCHANGED <<cvars, machine, link, cache, queue, draining, asks>>

\* drain: the oldest report reaches the centre ...
Deliver(q) ==
    IF q.what = "status"
    THEN IF auth[q.blade] /\ row[q.blade].known
         THEN hBladeStatus(q.blade) ELSE UNCHANGED cvars
    ELSE hProvisionStatus(q.blade, q.what)

drain ==
    /\ draining /\ link
    /\ Deliver(Head(queue))
    /\ queue' = Tail(queue)
    /\ draining' = (Tail(queue) # <<>>)
    /\ UNCHANGED <<machine, link, cache, stamped, asks, faults>>

\* ... and where only its answer is lost it is put back and sent again.
drainLost ==
    /\ draining /\ link /\ Fault
    /\ Deliver(Head(queue))
    /\ draining' = FALSE
    /\ UNCHANGED <<machine, link, cache, stamped, queue, asks>>

\* A report the centre answers with an error: any answer counts as delivered.
drainRefused ==
    /\ draining /\ link /\ Fault
    /\ queue' = Tail(queue)
    /\ draining' = (Tail(queue) # <<>>)
    /\ UNCHANGED <<cvars, machine, link, cache, stamped, asks>>

LinkDown ==
    /\ link /\ Fault
    /\ link' = FALSE /\ draining' = FALSE
    /\ UNCHANGED <<cvars, machine, cache, stamped, queue, asks>>

LinkUp ==
    /\ ~link /\ link' = TRUE
    /\ UNCHANGED <<cvars, machine, cache, stamped, queue, draining, asks, faults>>

-----------------------------------------------------------------------------
\* Power and the boot loader.

PowerOn(b) ==
    /\ pc[b] \in {"off", "halted"}
    /\ Goes(b, "boot")
    /\ UNCHANGED <<cvars, disk, auth, siteVars, asks, faults>>

PowerCut(b) ==
    /\ pc[b] # "off" /\ Fault
    /\ Goes(b, "off")
    /\ UNCHANGED <<cvars, disk, auth, siteVars, asks>>

\* A host without a reservation, or with the tag in it, is offered netboot.
BootNet(b) ==
    /\ pc[b] = "boot"
    /\ resv[b] \in {"absent", "bootnet"}
    /\ IF link THEN touchNetboot(b) ELSE UNCHANGED cvars
    /\ Goes(b, "mini")
    /\ UNCHANGED <<disk, auth, siteVars, asks, faults>>

\* Without the offer the boot loader falls through to the disk; from an empty
\* one it comes back and asks again.
BootDisk(b) ==
    /\ pc[b] = "boot"
    /\ resv[b] = "plain"
    /\ disk[b] # "blank"
    /\ Goes(b, IF disk[b] = "system" THEN "up" ELSE "broken")
    /\ UNCHANGED <<cvars, disk, auth, siteVars, asks, faults>>

-----------------------------------------------------------------------------
\* The agent's tick: report first, then fetch commands.

report(b) ==
    /\ pc[b] = "up"
    /\ \/ /\ link /\ auth[b]
          /\ hBladeStatus(b)
          /\ UNCHANGED queue
       \/ /\ Keep(b, "status")
          /\ UNCHANGED cvars
    /\ Goes(b, "fetch")
    /\ UNCHANGED <<disk, auth, link, cache, stamped, draining, asks, faults>>

\* What a batch of commands ends in: those the blade's policy does not allow
\* are skipped, a restart and a shutdown in one batch are two timers of the
\* same length.
Outcome(taken) ==
    LET run == taken \ Refused
    IN  IF run = {} THEN {"up"}
        ELSE {IF k = "shutdown" THEN "halted" ELSE "boot" : k \in run}

runCommands(b) ==
    /\ pc[b] = "fetch"
    /\ IF link /\ auth[b]
       THEN hBladeCommands(b, cmds[b]) /\ GoesTo(b, Outcome(cmds[b]))
       ELSE UNCHANGED cvars /\ Goes(b, "up")
    /\ UNCHANGED <<disk, auth, siteVars, asks, faults>>

\* A blade that does not fetch, switched off, in the installer or cut off, for
\* longer than commandTTL: what was queued before is struck off when it does.
CommandsExpire(b) ==
    /\ cmds[b] # {}
    /\ pc[b] \notin {"up", "fetch"} \/ ~link \/ ~auth[b]
    /\ hBladeCommands(b, {})
    /\ UNCHANGED <<machine, siteVars, asks, faults>>

\* Commands that were marked as taken and are not carried out: lost with the
\* answer, or too old by the blade's own clock.
commandsLost(b) ==
    /\ pc[b] = "fetch" /\ link /\ auth[b] /\ Fault
    /\ \E taken \in SUBSET cmds[b] :
         /\ taken # cmds[b]
         /\ hBladeCommands(b, taken)
         /\ GoesTo(b, Outcome(taken))
    /\ UNCHANGED <<disk, auth, siteVars, asks>>

-----------------------------------------------------------------------------
\* The installer.

\* Mutants: an image is enough to write, or a tag is enough to erase.
SiteAnswer_AnyImage(d) ==
    CASE ~d.held -> "waiting"
      [] d.held /\ d.install = "wipe" -> "wipe"
      [] d.held /\ d.install # "wipe" /\ d.image = None -> "idle"
      [] OTHER -> "go"
SiteAnswer_AnyTag(d) ==
    CASE ~d.held -> "waiting"
      [] d.held /\ d.netboot /\ d.install # "pending" -> "wipe"
      [] d.held /\ ~(d.netboot /\ d.install # "pending") /\ d.image = None -> "idle"
      [] OTHER -> "go"

\* relay.provision with the centre out of reach: the site answers from its
\* copy.
SiteAnswer(d) ==
    CASE ~d.held -> "waiting"
      [] d.held /\ d.install = "wipe" -> "wipe"
      [] d.held /\ d.install # "wipe" /\ (d.image = None \/ ~d.netboot) -> "idle"
      [] d.held /\ d.install # "wipe" /\ d.image \in Image \ Catalogue /\ d.netboot -> "waiting"
      [] OTHER -> "go"

\* An image that has not arrived at the site yet is waited for.
SiteAnswers(d) == {SiteAnswer(d)} \cup IF SiteAnswer(d) = "go" THEN {"waiting"} ELSE {}

\* Mutant: "idle" taken for "waiting".
Told_Patient(answer) == IF answer \in {"go", "wipe"} THEN answer ELSE "mini"

Told(answer) == IF answer \in {"go", "wipe", "idle"} THEN answer ELSE "mini"

\* waitForJob: one question to whoever answers.
waitForJob(b) ==
    /\ pc[b] \in {"mini", "idle"}
    /\ \/ link /\ hProvision(b) /\ Goes(b, Told(AnswerFor(Checked(b))))
       \/ Relayed /\ ~link /\ UNCHANGED cvars /\ GoesTo(b, {Told(a) : a \in SiteAnswers(cache[b])})
    /\ UNCHANGED <<disk, auth, siteVars, asks, faults>>

\* The centre answered and the answer was lost.
answerLost(b) ==
    /\ pc[b] \in {"mini", "idle"} /\ link /\ Fault
    /\ hProvision(b)
    /\ UNCHANGED <<machine, siteVars, asks>>

\* A minute of "idle" with a system on the disk.
idleRestart(b) ==
    /\ pc[b] = "idle"
    /\ disk[b] # "blank"
    /\ Goes(b, "boot")
    /\ UNCHANGED <<cvars, disk, auth, siteVars, asks, faults>>

\* checkTarget refused: an installation stops without a word, an erase says so.
checkTarget(b) ==
    /\ pc[b] \in {"go", "wipe"} /\ Fault
    /\ Goes(b, IF pc[b] = "go" THEN "parked" ELSE "error")
    /\ UNCHANGED <<cvars, disk, auth, siteVars, asks>>

\* writeImage and wipeDisk, from the first block ...
startJob(b) ==
    /\ pc[b] \in {"go", "wipe"}
    /\ disk' = [disk EXCEPT ![b] = "half"]
    /\ auth' = [auth EXCEPT ![b] = row[b].known]
    /\ Goes(b, IF pc[b] = "go" THEN "writing" ELSE "wiping")
    /\ UNCHANGED <<cvars, siteVars, asks, faults>>

\* ... to the last (the token that came with the job is seeded) ...
finishJob(b) ==
    /\ pc[b] \in {"writing", "wiping"}
    /\ disk' = [disk EXCEPT ![b] = IF pc[b] = "writing" THEN "system" ELSE "blank"]
    /\ Goes(b, IF pc[b] = "writing" THEN "done" ELSE "wiped")
    /\ UNCHANGED <<cvars, auth, siteVars, asks, faults>>

\* Mutant: the error is swallowed and the end reported.
failJob_Swallowed(b) ==
    /\ pc[b] \in {"writing", "wiping"} /\ Fault
    /\ Goes(b, IF pc[b] = "writing" THEN "done" ELSE "wiped")
    /\ UNCHANGED <<cvars, disk, auth, siteVars, asks>>

\* ... or to an error on the way.
failJob(b) ==
    /\ pc[b] \in {"writing", "wiping"} /\ Fault
    /\ Goes(b, "error")
    /\ UNCHANGED <<cvars, disk, auth, siteVars, asks>>

\* After the last report: "after" decides between restarting and staying.
After(phase) == IF phase = "error" THEN {"parked"} ELSE {"boot", "parked"}

\* report and runWipe's end: the report arrives or is kept by the relay.
sayPhase(b) ==
    /\ pc[b] \in Phase
    /\ \/ link /\ hProvisionStatus(b, pc[b]) /\ UNCHANGED queue
       \/ Keep(b, pc[b]) /\ UNCHANGED cvars
    /\ GoesTo(b, After(pc[b]))
    /\ UNCHANGED <<disk, auth, link, cache, stamped, draining, asks, faults>>

\* Nothing took it, or it was answered with an error, and the installer does
\* not try again.
reportLost(b) ==
    /\ pc[b] \in Phase
    /\ Fault
    /\ GoesTo(b, After(pc[b]))
    /\ UNCHANGED <<cvars, disk, auth, siteVars, asks>>

-----------------------------------------------------------------------------
Installer(b) == waitForJob(b) \/ idleRestart(b) \/ startJob(b) \/ finishJob(b) \/ sayPhase(b)
Agent(b) == report(b) \/ runCommands(b)
Boot(b) == BootNet(b) \/ BootDisk(b)
Misfortune(b) == \/ PowerCut(b) \/ commandsLost(b) \/ answerLost(b)
                 \/ checkTarget(b) \/ failJob(b) \/ reportLost(b)

SitePass == pass \/ drain
SiteTrouble == passLost \/ drainLost \/ drainRefused \/ LinkDown \/ LinkUp

FleetNext ==
    \/ \E b \in Blade : Ask(b) \/ ProbeStep(b) \/ ProbeRunsOut(b) \/ Reap(b) \/ CommandsExpire(b)
    \/ \E b \in Blade : PowerOn(b) \/ Boot(b) \/ Agent(b) \/ Installer(b) \/ Misfortune(b)
    \/ SitePass
    \/ SiteTrouble

FleetSpec == FleetInit /\ [][FleetNext]_vars

\* Machines keep going: powered blades boot, report and carry out what they
\* were given, the site passes every thirty seconds, probeStep every ten, an
\* outage ends.  Nobody has to press anything and nothing has to fail.
Fairness ==
    /\ WF_vars(pass) /\ WF_vars(drain) /\ WF_vars(LinkUp)
    /\ \A b \in Blade :
         /\ WF_vars(Boot(b)) /\ WF_vars(Agent(b)) /\ WF_vars(PowerOn(b))
         /\ WF_vars(waitForJob(b)) /\ WF_vars(startJob(b) \/ finishJob(b) \/ sayPhase(b))
         /\ SF_vars(idleRestart(b))
         /\ WF_vars(ProbeStep(b)) /\ WF_vars(ProbeRunsOut(b))

FairFleetSpec == FleetSpec /\ Fairness

-----------------------------------------------------------------------------
\* Safety.

\* A person's request about this blade, and not a step that only looks like
\* one.
Asked(b) == Person(b) /\ asks' = asks + 1

\* A disk that was left half-written keeps its job armed: what disarms it is
\* a person or the report of a finished job, never a report about some other
\* state of the disk (server/api.go: "On failure the netboot stays armed so a
\* restart retries instead of booting from a half-written disk").
HalfWrittenStaysArmed ==
    [][\A b \in Blade :
         disk[b] = "half" /\ row[b].install \in {"pending", "wipe"}
             => row'[b].install \in {"pending", "wipe"} \/ Asked(b)]_vars

\* The slot is freed when the installer says the disk is empty, and then it
\* is (server/db.go requestWipe, finishWipe).
SlotFreedWhenEmpty ==
    [][\A b \in Blade :
         row[b].slot # None /\ row'[b].slot = None => Asked(b) \/ disk[b] = "blank"]_vars

\* While a job is in hand and the row says so, the blade can neither be put
\* aside nor forgotten, by whomever, and nothing but a person's overruling of
\* the state ends that: no report of its old system, no loop, no answer
\* (server/db.go err.busyinstall, server/api.go hBladeStatus).
JobProtected ==
    [][\A b \in Blade :
         pc[b] \in {"go", "wipe", "writing", "wiping"}
                 /\ row[b].known /\ row[b].state = "provisioning" =>
             /\ row'[b].known
             /\ row'[b].stored => row[b].stored
             /\ row'[b].state = "provisioning" \/ Asked(b)]_vars

\* A blade takes an installation in hand only where a request for one stands
\* at whoever answered: nothing else ever writes (installer/main.go
\* waitForJob: "only "go" ever writes, and "go" needs someone to press the
\* button").
GoNeedsTheButton ==
    [][\A b \in Blade :
         pc[b] # "go" /\ pc'[b] = "go" =>
             \/ row[b].install = "pending"
             \/ ~link /\ cache[b].install = "pending"]_vars

\* The same for the erase.
WipeNeedsTheButton ==
    [][\A b \in Blade :
         pc[b] # "wipe" /\ pc'[b] = "wipe" =>
             \/ row[b].install = "wipe"
             \/ ~link /\ cache[b].install = "wipe"]_vars

\* A site whose copy is in step answers an installer as the centre would:
\* "the last decision the centre made" (site/relay.go provision).  Left out
\* are a blade without an image and one armed only for a firmware reading.
SameDecisionOffline ==
    \A b \in Blade :
        cache[b].held /\ cache[b] = siteDesired(row[b])
                      /\ row[b].image # None /\ ~probeArmed(row[b])
            => Told(SiteAnswer(cache[b])) = Told(AnswerFor(Checked(b)))

-----------------------------------------------------------------------------
\* Liveness.

\* Once nothing fails any more, an erase that was ordered and has reached the
\* wire happens or is called off: the restart queued with it brings the blade
\* into the mini OS (server/ui.go hUIBladeWipe: "the agent reboots it, so
\* nobody has to walk to the rack").  Not claimed where the restart was struck
\* off during an outage, where the blade's policy refuses restarts, or where
\* the reservation could not be written: then somebody does.
WipeHappens ==
    \A b \in Blade :
        (/\ faults = MaxFaults /\ link
         /\ row[b].install = "wipe" /\ row[b].image # None /\ row[b].probe = "none"
         /\ resv[b] # "plain"
         /\ pc[b] = "up" /\ auth[b] /\ "reboot" \in cmds[b] \ Refused)
            ~> (row[b].install # "wipe" \/ row[b].image = None \/ row[b].slot = None)

\* A blade that was written and restarts ends up in its own system, even if
\* it slips into the installer once more (docs/INSTALLATION.md: "a blade that
\* slips through waits one minute and then boots correctly"), unless somebody
\* asks for something else or its disk is written again.
FinishedBladeBoots ==
    \A b \in Blade :
        (pc[b] = "boot" /\ disk[b] = "system" /\ row[b].install = "done" /\ row[b].slot # None)
            ~> \/ pc[b] \in {"up", "parked"}
               \/ row[b].install # "done" \/ row[b].slot = None \/ row[b].image = None
               \/ disk[b] # "system"
=============================================================================
