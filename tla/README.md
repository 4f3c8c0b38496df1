# Sheath: models, checks and proofs

Sheath manages Compute Modules ("blades") that stand in enclosures
("BladeRunners"): it gives them addresses, decides whether they boot from the
network, writes or erases their disks, and keeps them configured. This directory
models the part of it that can lose a disk, a machine or a record: who may order
what, what the machines in between do with the order, and what is left after a
power cut, an outage or a lost answer.

Paths below are relative to the repository (`server/db.go` is
`src/server/db.go` in the project's map).

## 1. The system

| Part | State | Operations | Talks to |
|---|---|---|---|
| **Centre** (`server/`) | SQLite: `sites`, `racks`, `blades`, `commands`, `netboot`, `alerts`, `images`, `users`; reservation files where it owns the wire | the interface (`ui.go`) and the API (`api.go`) for people; enrolment, status, commands and provisioning for blades; the loops `reaper`, `probes`, `watchHealth`, the image queue | browsers, agents, installers, sites |
| **Site** (`site/`) | last desired state (memory and file), reservation files, two buffers of things to tell the centre (memory and spool file), image mirror | `pass` every 30 s (fetch, apply, report, drain), the relay in front of the centre, spool ticker | centre above, blades below |
| **Agent** (`agent/`) | token and configuration on the disk | every minute: report, fetch commands, apply configuration | centre, or its site's relay |
| **Installer** (`installer/`) | none: it lives in a netbooted mini OS | ask for a job; write, erase or wait; report | centre, or its site's relay |
| **dnsmasq**, boot loader | reservations with or without the `bootnet` tag | answer DHCP; fall through to the disk without an offer | blades |

How they meet. A person's order changes the blade's row (`install_state`,
`probe`, `slot`, a queued command). Where the centre owns the wire
(`-local-dhcp`) `syncDHCP` turns rows into reservations at once; otherwise the
site does it when its next pass fetches `siteDesired`. A blade with the tag boots
the mini OS, the installer asks, the answer follows from the row, and its reports
change the row again. With the line to the centre down the relay answers from the
site's copy and keeps reports for later.

What is hard about it: the same fact (this blade is to be written) lives in
four places (row, site copy, reservation, installer) and travels by polling;
restarts are queued commands that race with the tag; every report may be late,
repeated or lost; the power may go at any time; a firmware reading uses the same
tag and the same restart command as an installation; the buffer that survives an
outage is itself shared by two passes and a ticker and has to survive a restart;
a download is resumed after the file behind its address was replaced; a document
is applied in steps of which any may fail; checks and the writes they are for are
two statements, with other requests in between.
`PROJECT.json` lists these hazards line by line.

What makes each part correct:

* *Rows and jobs.* One blade per position; once a sync has come to its end,
  reservations say what rows say; only people arm; nothing survives `forgetBlade`.
* *The loop of a blade.* Only a standing order writes or erases; a half-written
  disk goes back to the installer; a slot is given up only by a person or over an
  empty disk; a blade with a job in hand is not put aside; an erase whose restart
  waits for the agent happens; a written blade ends in its own system; offline
  answers are the centre's last decision.
* *Buffers.* What was accepted waits until the centre has it or answers it with an
  error; everything leaves in the end; no report is twice in the file; with one
  pass at a time, order is kept.
* *Address plan.* No two blades of a site have one address without a warning;
  blocks handed out never overlap; a BladeRunner's number means one BladeRunner.
* *Images.* One job at a time, beside scripts that were given up; what is offered
  as ready without a note is the file its row describes; an image that is in use stays; every job comes to an end.
* *Mirror and download.* What a site serves is a whole version; a resumed stream
  has every piece in its place; the site catches up; a blade that is switched on
  again whenever its installer has stopped gets installed.
* *Configuration.* What is recorded as applied is on the disk; an unread boot
  setting is announced; after a pass whose restart did not fail, units run
  what is on the disk; the blade converges and restarts in its window; what its configuration forbids it does not do.
* *Accounts and enrolment.* An administrator remains; a right taken away ends
  with its session; a code buys one enrolment.
* *Alerts.* Nothing is said before it has held, nothing twice, and the table
  settles on what is true.

## 2. Modules

| Module | Models | |
|---|---|---|
| `Centre` | the row, commands, netboot session and reservation of each blade; every handler and loop that changes them | `server/db.go`, `api.go`, `ui.go`, `ipam.go`, `netboot.go`, `main.go` |
| `Fleet` | extends `Centre` by blade, boot loader, agent, installer, and the site between them | `site/`, `agent/main.go`, `installer/` |
| `Centre_proofs` | the theorems about `Centre` and `Fleet` | |
| `Mailbox` | abstract: what was accepted waits until it has arrived | the promise of both buffers |
| `Spool` | the buffers as built: taken out, handed over, put back, trimmed, written by ticker and hand-over, read back at a start | `site/spool.go`, `site.go` `note`, `stageIP`, `flush`, `relay.go` `forwardOrQueue`, `drain` |
| `Spool_proofs` | the theorems about `Spool`, the refinement of `Mailbox` among them | |
| `AddressPlan` | sites, BladeRunners, positions, blocks of addresses and generated MACs, every check apart from its write | `server/ipam.go`, `db.go`, `api.go`, `ui.go` |
| `AddressPlan_proofs` | the theorems about `AddressPlan` | |
| `Images` | the catalogue, the queue and its goroutine, both scripts, removal, restart | `server/images.go`, `api.go` `hImagesCreate`, `tools/mirror-image.sh`, `prepare-image.sh` |
| `Images_proofs` | the theorems about `Images` | |
| `Mirror` | an image on its way: replaced at the centre, mirrored by two passes of a site, read by an installer | `site/site.go` `pass`, `fetch`, `site/images.go`, `installer/main.go` `resumingReader`, `writeImage` |
| `Mirror_proofs` | the theorems about `Mirror` | |
| `Converge` | one blade following its configuration | `server/api.go` `mergedConfig`, `hConfigPatch`, `site/relay.go` `bladeConfig`, `agent/main.go` `syncConfig`, `maybeRestart`, `agent/apply.go`, `policy.go`, `server.go` |
| `Converge_proofs` | the theorems about `Converge` | |
| `Accounts` | accounts, roles, sessions | `server/users.go`, `session.go`, `usersui.go` |
| `Enrolment` | codes, tokens and the two files of a machine | `server/enroll.go`, `site/enroll.go`, `site/main.go` |
| `Access` | composes the two: administrators issue codes, one clock, one server | |
| `Access_proofs` | the theorems about `Access` | |
| `Alerts` | the minute pass, the alerts table, mail | `server/notify.go`, `db.go`, `ipam.go` `evalHealthWith`, `policy.go` |
| `Alerts_proofs` | the theorems about `Alerts` | |
| `MCCentre`, `MCFleet`, `MCSpool`, `MCAddressPlan`, `MCImages`, `MCMirror`, `MCConverge`, `MCAccess`, `MCAlerts` | small instances | |

### Centre

`row[b]` keeps the columns the control flow reads: `known` (there is a row),
`slot` (`rack_id` and `slot` together), `image`, `state`, `install`
(`install_state`), `probe` (none, armed, run out by the clock), `sent`
(`probe_sent`), `stored`. `cmds[b]` is the set of kinds queued and not
taken: two queued restarts do what one does. `sess[b]` is the netboot session:
seen on the wire, linked to the serial number by `linkNetboot`, and the image
chosen for it. `resv[b]` is the reservation file: absent, plain, or with the
tag. `Served` are the positions the centre hands out addresses for; a blade
elsewhere, or nowhere, has no file.

`syncDHCP` comes to its end (`SyncEnds`) or gives up on the way (`SyncGivesUp`): a
directory or a file that cannot be written, a MAC or a hostname that dnsmasq would
not take. Some files are then new, some old, one may be cut short and nothing is
removed; the handlers go on, but for `hUIBladeWipe`, which then queues no restart.
`synced` remembers which of the two the last one was. `hDHCPSync` is a sync and
nothing else; a change to a site or a BladeRunner ends in one too.

One handler is one action, with every call it makes: `requestWipe` is
`hUIBladeWipe` with its `syncDHCP` and its queued restart, `hProvision` is the
whole question: the row of an unknown serial, the reading of hardware that
answers a firmware reading, the session that is linked, the image that is
adopted, the answer, and the state that says a job was handed out. A handler's
statements are one step. That is an abstraction: the database has four
connections and a handler is several statements. For positions the schema's
`UNIQUE (rack_id, slot)` stands behind the check, so nothing is hidden; two
`syncDHCP` at once (each lists the rows, then writes the files) are a listed
hazard and part of the plan. `requestInstall` may always be
refused by `checkTarget`; refusing changes nothing.

Time is two events: `ProbeTimeout` (half an hour since the arming) and, in
`hBladeCommands`, any part of the commands being older than the TTL.

In `Centre` alone the blades are unconstrained: any of them sends anything at
any time. What holds here holds whatever the network does.

### Fleet

`pc[b]` is what the machine is doing, from "off" through "boot", "mini" (the
installer asks), "go", "writing", "done" to "up" (the agent). `disk[b]` is blank,
a system, or half-written. `auth[b]`: the token on the disk is still the one in
the row. `cache`, `link`, `queue`, `draining` are the site's copy, the line, the
relay's kept reports and a hand-over under way; `stamped[b]` is `probeStep`'s
comparison `desired_at > probe`.

A step is one request with its answer; a lost answer is a step of its own
(`passLost`, `drainLost`, `commandsLost`, `answerLost`, `reportLost`), a report
that is handed over and answered with an error is `drainRefused`, and
between any two steps the power can go (`PowerCut`), the line can fail
(`LinkDown`) and a person can order something (`Ask`). Two switches share the
module: `LocalDHCP` TRUE is a centre that owns the wire, FALSE puts a site in
between.

Commands have two ends besides being carried out. A blade that does not fetch for
longer than the TTL finds them struck off (`CommandsExpire`, no fault: an outage
may take as long as it likes), and the policy on the blade may refuse a kind
(`Refused`). Either leaves an erase waiting without its restart, so `WipeHappens`
begins where the restart is queued, is allowed and the agent is about to fetch.

Downloading, checking and seeding are one step between `startJob` and
`finishJob`; what can go wrong in them is `failJob`.

### Spool

`doing` says where each of the three threads is: the pull loop's hand-over, the
one a finished installation starts beside it (`provisionStatus`, `go func`), and
the ticker. `batch` chooses the events' buffer (one request for everything)
or the reports' (one request each), `second` whether passes overlap; both are
chosen at the start and never change. `hand[d]` is what a thread took out;
`snap[w]` is the copy a writer has taken and not yet renamed into place. The
things that happen are numbered, so order and loss are visible.

An answer is not an acceptance. `drain` looks at no status: a report answered with
401, 500 or 502 leaves the hand as one that arrived does (`refuse`); `flush` looks
and puts its events back. `forwardOrQueue` passes an error on to the blade and
keeps nothing (`turnAway`). The mailbox has a step for it, `Refuse`, so that what
the code loses is named and nothing else may be lost.

### AddressPlan

`site[s]` is the plan of a site (`offset_base`, `offset_step`), `rack[r]` the
site, size and offset of a BladeRunner and whether somebody named the offset
(`hand`; only the API can), `pos[b]` the position of a blade, `mac[b]` its MAC:
none, its own, or one made from site, number and slot. Ids are used once
(`AUTOINCREMENT`), so a row is `New`, there, or `Gone`.

Here a handler is two steps: `planRack`, `planMove`, `planResize`, `planPlace`
and the deletions read and decide, `createRack`, `moveRack`, ... write what was
decided, kept in `req[q]`, against whatever the tables hold by then and against
the schema's `UNIQUE` constraints. `fk` in `deleteRack`, and the refusal of
`place` for a BladeRunner that is gone, follow the `foreign_keys` pragma, which
`openDB` sets on one of four connections. The form that changes a BladeRunner
resizes it and then moves it; these are two requests. `nextRackOffset` is the
least free block of the plan. A site created through the API may have any
positive step; the negative steps it does not refuse are left out.

### Images

`rows` is the table; `local`, `sha256` and `bytes` of a row are one value, the
file they describe (`sum`), compared with what `disk` really holds. A request is
three steps (`checkFetch`, `enterRow`, `enqueueImage`), a removal two. `at[w]` is
where a goroutine of `runImageQueue` is; there could be several (`Worker`), and
that there is one at most is a property. Files have names, which the scripts derive
from the address (`mirrorName`, `preparedName`) and which two images may share.
`mirror-image.sh` puts the file in place and enters it; `prepare-image.sh` takes
the file the row names (`unpack`), replaces it and enters it again. Each may fail
at any of these, be answered with an error, which `curl` without `-f` takes for
success (`postRefused`), or be given up after ninety minutes (`giveUp`): `runTool`
signals `sudo`, which is root's, ignores that it may not, and the script goes on as
a `Stray` beside the next job. A preparation that fails leaves the row "ready" with
the note "not prepared". `restart` keeps rows and files and forgets the queue.
`upset` and `used = "late"` remember the crossings the properties leave out
(section 5); an image leaves `upset` when its next job begins.

### Mirror

The image is replaced under its name at the centre, file first (`place`), then
catalogue (`enter`). A version is a sequence of pieces, a file an *inode*: a
pass that still writes to `.part` when another pass has renamed it writes into
the image itself, and an installer keeps reading the inode it opened. `pass[p]`
is where each of two passes is, with the document it fetched, the file it has open
and where it is in the body; `etag`, `state`, `saved`, `stamp`, `stock` are the
site's fields and files. `blade` is the installer: the checksum it was told, where
it reads from, what it has. A failed reconnect is read as the end of the stream,
as `Read` does it, and caught by the checksum. After an error the installer reports
it and stops for good ("failed"); only a person who switches the blade off and on
(`switchOn`) or a power cut (`powerCut`) makes it ask again.

### Converge

A version is a hash of the merged document and stands for it. Four keys, one per
way a setting reaches the host: `file` (files and binaries a unit runs from),
`boot` (what only the firmware reads), `allow` and `restart` (the agent's own
rules). `host` is what is on the blade, with what the unit runs and what the
firmware has read beside what the disk says; the unit may be `Stopped`. `ag` is the agent's memory with the
step of `applyConfig` it is at; `noted` its scratch note. The agent may end at any
step, any step may fail, the line or the site may be away, and `broken` is a step
that never works. A patch reads its scope and writes it in two steps. `upset`
remembers two failures the code does not make good: a unit that was not restarted
over its changed file ("unit", until it is started again) and a marker that was
not written ("marker", until the reboot).

### Accounts, Enrolment, Access

`req[h]` is a request that has asked `wouldStrandUs` and not yet written, with
whether something was taken since (`stale`); `login[s]` a sign-in that has read
the account and is hashing the password. `lost[u]` counts the ticks since an
account last was an administrator. In `Enrolment`, `ask[m]` is a look-up that
waits for its write, and whether the machine still waits for the answer (`left`:
it does not); `mach[m]` is the machine with what is on its disk. `Access`
composes them: only a signed-in administrator issues codes and tokens.

### Alerts

`blade` is what the verdict reads, `rows` the alerts table, `at` and `left` where
the pass is, `seen` and `open` what it listed; a list that cannot be read ends
the pass (`listFails`). Reports, sweeps, shutdowns, resets,
erasures, removals and settings change the world between any two of its steps. A
minute passes while it sleeps. `held`, `said` and `blurred` are history: for how
many minutes no list showed another verdict, what was said last, and whether something
came between that the watch cannot see (a change during a pass, an erasure that
left the row, a failed mail, a pass cut short, a restart).

## 3. Runs

| Run | Instance | Shows |
|---|---|---|
| `centre` | 2 blades, 1 slot, 1 image | `OneBladePerSlot`, `ReservationsFollow`, `ForgottenLeavesNothing`, `SentBelongsToProbe`, `ArmedByAPersonOnly` |
| `fleet_direct` | 1 blade, 2 orders, 3 faults | `HalfWrittenStaysArmed`, `SlotFreedWhenEmpty`, `JobProtected`, `GoNeedsTheButton`; `WipeHappens` |
| `fleet_relayed` | 1 blade, a site, 2 orders, 2 faults, queue of 2, reimaging not allowed | `SameDecisionOffline`, `WipeNeedsTheButton`; `FinishedBladeBoots` |
| `spool` | 3 things, buffer of 2, two hand-overs, 1 fault, 1 stop or crash | `InOrder`, `IsMailbox` (refinement); `EverythingArrives` |
| `address_plan` | 2 sites, 2 BladeRunners, 2 blades, 2 requests at a time | `AddressesDistinct`, `BlocksApart`, `NumbersDistinct` |
| `images` | 1 image from 2 places under 3 file names, 2 requests at a time, 3 requests, 1 script given up at a time, 1 restart | `OneAtATime`, `ReadyIsWhole`, `UsedStays`; `QueueSettles` |
| `mirror` | 2 versions of 2 pieces, 2 passes, 2 drops, 1 restart | `HoldsWhatItSays`, `StreamInPlace`; `CatchesUp`, `BladeInstalled` |
| `converge` | 2 edits out of 4 and a reimage, 2 troubles, a window over midnight | `AppliedIsOnDisk`, `RestartIsOwed`, `UnitRunsTheFile`; `Converges`, `RestartComes` |
| `access` | 2 accounts, 1 cookie, 2 requests at a time, 7 requests, 2 machines, 1 code, 1 mishap | `AdminRemains`, `RightsExpire`, `CodeBuysOnce` |
| `alerts` | 1 blade, hold of 2 passes, 4 turns, 1 trouble | `HeldBeforeSaid`, `SaidOnce`; `AlertsSettle` |
| `fleet_offline_probe`, `converge_policy` | violations, on the smallest instance that shows them | section 5 |

The largest have between 300,000 and 800,000 distinct states (`spool`, `access`,
`converge`, `images`, `centre`) and take up to three minutes.

After the semicolon: liveness. Every module also has a type invariant; all of
them are proved (section 6), and so is every property before the semicolon, for
every value of the constants. What a run adds to the proof is a mutant that
breaks the property, and the cases the proof is about, really reached.

### Bounds

* *Blades.* Two rows meet only over a slot, so two blades and one slot are all
  the contention there is; in `MCCentre` the neighbour does only what touches
  slots, the blade under observation does everything. The proofs drop the bound.
  In `Fleet` one blade is enough: nothing a site, agent or installer does reads
  another blade's row.
* *Images.* One: the code compares an image with the empty string and with the
  catalogue, never two images with each other.
* *Orders and faults.* Every shortest counterexample met while building the
  models needed at most two orders and two faults. Two orders are one given while
  another is being carried out; where the centre owns the wire, three faults leave
  one to spare. (Three orders and two faults hold too, on 683,855 states.) Both
  budgets
  also say that people and faults stop some time, which the liveness properties
  need.
* *Queue.* Two, so that the cut to the newer half keeps one and loses one.
* *Spool.* Three things and a buffer of two reach the limit; one failed request
  is put back in front of something newer, or is refused; one stop is enough because a start
  forgets everything but the file.
* *Address plan.* Sizes 1 and 2 stand for 2 to 20; one plan has a step as large
  as the largest size and room for two blocks, the other a smaller step and a base
  above an offset that may be named by hand, so that blocks overlap, run out and
  lie below the base. Whatever goes wrong goes wrong between two BladeRunners, two
  blades and two requests. The run takes states that differ in MACs only for one
  (`NoMAC`): nothing but the MAC itself depends on them.
* *Images.* One image: another one is met in the order of the queue and over a
  file name, and both images are then `upset`; the proofs have any number. Two
  places and two requests are the least that can ask for it at once with different
  results; a third request removes it or assigns it. One place offers an archive,
  whose image has another name before it is prepared than after. There are two
  goroutines to choose from; the run takes the second when the first is busy
  (`FirstComesFirst`), which loses nothing, as one is as good as the other.
* *Mirror.* Two pieces, so that a download can break in the middle; two versions,
  so that what is resumed can be of another; two drops break one transfer of the
  site and one of the installer, or one transfer twice. Both versions are as large:
  with a smaller replacement the site does not catch up (section 5). One blade is
  installed, in as many attempts as people give it; its end starts the second pass.
* *Converge.* Two edits are one document and its replacement, or a document and an
  order; two troubles an outage and a failure, or two failures. A day of two hours
  and a window from one to zero go over midnight and open once a day.
* *Access.* Seven requests: sign in, make two accounts, let them ask at the same
  time, write, and sign in again. A session lasts one tick and a code less than
  one, so both can be before, at and past their end.
* *Alerts.* The rows of two blades never meet. A hold of two passes tells "held"
  from "seen twice"; four turns are bad, worse, well and bad again.

`CHECK_DEADLOCK FALSE` is set in all of them: once the budgets are spent and
every blade is parked or off, the system may rest.

### Fairness

`FairFleetSpec`: weak fairness for what is driven by a timer or by a machine that
simply goes on: the site's pass (every 30 s) and its hand-over, `probeStep` (every
10 s), the agent's tick, the installer's questions and its job, the boot loader,
the clock of a reading. `LinkUp` and `PowerOn` are fair: an outage ends and
somebody switches a blade back on. `idleRestart` has strong fairness: the
installer counts a minute of "idle" answers of its own accord, and every answer
in between takes it out of and back into the state in which it may restart.
Nothing a person does is fair, nor any fault, nor that commands expire or that a
sync comes to its end.

`FairSpoolSpec`: the pull loop, the ticker and `systemd`'s restart. Requests fail
at most `MaxFaults` times.

`FairImgSpec`: a request and a goroutine that have begun go on; a script ends, well
or badly, or is given up (`runTool` waits ninety minutes); of one that was given up
nothing is promised. `FairMirrorSpec`: the loop turns, a started pass goes on, an
installer that has not stopped goes on. Nobody is bound to switch a blade on again:
`BladeInstalled` says that an attempt ends and that, if the blade does not stay
stopped, one of them succeeds. `FairConvergeSpec`: the
agent ticks, the site passes, outages end, the clock goes on. Two strong
conditions: the clock (`tickClock`), which a pass only interrupts, and a pass
that begins inside the window, because the agent comes by every minute and
the window is longer than that. `FairAlertsSpec`: the
goroutine of `watchHealth` alone; this includes that the mail server answers one
way or the other, which `sendMail`, having no timeout, leaves to it.

## 4. Refinement

`IsMailbox` states that `Spool` implements `Mailbox` with *waiting* = what is in
the buffer or in a hand, *arrived* = what the centre was given, *dropped* = what
was cut off at the limit, *refused* = what the centre answered with an error,
*running* = the service is up. It is checked with two
concurrent hand-overs, failures, refusals and a stop or a crash; a restart may find less on
disk than was waiting, which the mailbox allows in that step and in no other.
`SpoolIsAMailbox` proves the same for every value of the constants.

`FleetImplementsCentre` is a refinement by composition: where the centre owns
the wire, a step of `Fleet` is, on the centre's variables, a step of `Centre` or
none. `Centre` alone lets a blade send anything; `Fleet` shows that blades,
agents and installers as they are written send nothing outside that. Behind a
site the one step outside it is the site's pass, which writes the reservations.

## 5. Where the code and its comments disagree

Two of these are runs that TLC refutes with what the code does; `PROJECT.json`
quotes the lines.

1. `fleet_offline_probe`: a blade armed for a *firmware reading* only, with an
   image assigned and the centre out of reach, is told "go" by its site and
   writes its disk. `relay.provision` looks at the `Netboot` flag, which a reading
   sets too, and not at `InstallState == "pending"`.
2. `converge_policy`: the agent reads its rules (`allow`, the window, whether it
   may restart itself) only from a document with a new version. After a restart the
   version comes from the scratch note, the answer is 304 and the rules are those
   of an empty policy: every command is allowed until the configuration changes.

### Known departures

Met while modelling; each is excluded from a property by name, so that what the
property says is still checked everywhere else.

*Jobs and wire.*
* `hProvisionStatus` believes "done" and "wiped" whatever job is running
  (`api.go:1256`). One that was kept during an outage, or repeated because its
  answer was lost, disarms a second job while it writes, or frees its slot.
* The agent reports, then fetches. The report clears `halted` (`api.go:883`), the
  fetch takes the shutdown: the blade that was switched off on purpose ends as an
  alert.
* The restart is queued with the erase (`ui.go:2731`). Behind a site the blade may
  take it before the site has the tag, boots from its disk, and nobody restarts it
  again. (`requestProbe` waits for the tag for just this reason.)
* `syncDHCP` gives up at the first row it cannot turn into a file (`ipam.go:311`;
  the API checks neither MAC nor hostname) and most callers ignore it: blades
  listed later keep the reservation they had.
* A restart that nobody fetched for fifteen minutes is struck off (`api.go:927`),
  one that the policy forbids is refused by the agent, and one whose answer was
  lost is gone: the erase it was queued for waits until somebody restarts the
  blade.
* `desired_at` and the arming of a reading are compared in whole seconds.
* `cancelInstall` is accepted while the installer writes; `clearProbe` strikes off
  a restart queued for an erase; a reading that runs out after its restart was sent
  leaves the tag in the centre's own reservation; the centre answers "waiting" for
  an erase of a blade without an image, where an offline site would erase it.

*Buffers.* `drain` drops a report that the centre answers with an error
(`relay.go:381`), though `drain` itself says that a report lost is a hole in the
record; so does `forwardOrQueue`, which tells the blade. The ticker writes the emptied buffer while a hand-over is under way
(`site.go:275`): a crash then loses what had been safely on disk. Two passes at
once deliver reports out of order, and can put back what they could not deliver
the wrong way round, in the buffer and in the file: `docs/INSTALLATION.md`'s
"queued in order ... oldest first" holds with one pass only. (This takes two
failed requests; it came to light when the invariant for `InOrder` was not
inductive.) A stop between the ticker's copy and its rename
writes nothing.

*Addresses.* `hBladeUpdate` derives a MAC only where there is none (`api.go:676`)
and `moveRack` not at all: two blades can carry one MAC. A BladeRunner that is
shrunk while a blade is being placed leaves the blade without an address; a site
can be deleted under a BladeRunner that is being created in it.

*Images.* A row at "working" when the server ends is busy for ever
(`images.go:391`): it can be neither fetched again nor removed. Between taking a
job and saying "working" the image counts as idle, so a removal can slip in. A
preparation that fails after it replaced the file leaves an image that is "ready",
"on disk and usable" (`images.go:103`), with a checksum that no longer fits; only
the note tells. A script given up after ninety minutes goes on beside the next job
(`images.go:137`), against the queue's "one at a time", and may write over what a
later job has fetched. A POST answered with an error ends a script with success
(`mirror-image.sh:97`, `prepare-image.sh:170`): "ready" without the entry. Files
are named after the address, so two images can share one, and removing either
removes it. A blade given an image between the check and the removal keeps an image
that is gone (`used = "late"`). The cache of partition tables is not cleared when a
file is replaced (`parttable.go:104`).

*Mirror.* The installer stops for good after any error; the blade then needs a hand
(`docs/INSTALLATION.md` says so). A `.part` longer than a smaller replacement is asked for beyond its end
and refused (416) in every pass (`images.go:118`). Two passes can leave the older
document under the newer tag (`site.go:228`). After a restart with no `desired.json`
an answer of "not modified" ends the service (a nil document). The stamp is written
before the rename: a crash between them vouches for the older file if it is as
large.

*Configuration.* A document that was half applied and then taken back is answered
with "not modified": the half stays. A unit restart that failed is not tried again
while the unit is active, since the next pass finds nothing changed; one that is
down is started. An agent that ends between `config.txt` and its marker forgets the
restart, and so does one whose marker cannot be written (`apply.go:463`). A window whose ends are equal never opens. An
older copy at an offline site takes a blade back to it. Two patches of one scope
at once: the later write undoes the earlier.

*Accounts and enrolment.* Two requests that both ask before either writes can
leave no administrator (`users.go:271`). A changed password does not end sessions.
Two machines with one code whose look-ups overlap both get a token, the first of
which is void; a look-up that waits can wipe out a newer code; a lost answer spends
the code. A machine that ends between its two files never starts again without
`-site`.

*Alerts.* `finishWipe` leaves the open alert (`db.go:976`), so the next bad report
inherits its clock. A pass that listed before a shutdown or a reset writes the
alert back. A warning that was said, briefly critical, then well: `notified` was
emptied at "critical" (`notify.go:150`) and the recovery is never said. A recovery
mail that fails is dropped (`notify.go:133`). What was below the mailed level
counts as said, so its recovery is mailed. A mail server that never answers stops
the watch.

## 6. Proofs

Every invariant and every action property of a run is also a theorem. In each
case the property alone is not inductive; the paragraph after each table says
what had to be added and why. Each inductive invariant was checked by TLC on the
module's instance, or a larger one, before it was proved.

`Centre_proofs` proves, for any sets of blades, slots and images, any catalogue
among the images, and either setting of `LocalDHCP`, from `CentreAssumption`
alone (served positions are positions, the catalogue's images are images, `None` is
neither slot nor image):

| Theorem | |
|---|---|
| `TypeCorrect` | `Spec => []TypeOK` |
| `SlotsAreExclusive` | `Spec => []OneBladePerSlot` |
| `ReservationsAreCurrent` | `Spec => []ReservationsFollow` |
| `NothingOutlivesForget` | `Spec => []ForgottenLeavesNothing` |
| `SentHasItsProbe` | `Spec => []SentBelongsToProbe` |
| `OnlyPeopleArm` | `Spec => ArmedByAPersonOnly` |

The argument. `Safe` is the conjunction of the five invariants and is inductive
as a whole, not in its parts: that a serial which enrols again has a correct
reservation needs that it was left with none (`ForgottenLeavesNothing`), and that
needs that nothing was armed for a row that is gone. A sync that gives up makes the
two statements about reservations void until one comes to its end, and leaves the
rest alone. The proof does not go through every action five times. `Careful(b)` says what a step may do to the one
blade it is about (the others are untouched; its slot is kept, left or found free;
the reservations are rewritten from the new rows or still agree); each action is
shown to be careful once, and `CarefulKeepsSafe` shows that a careful step keeps
`Safe`. The action property goes the same way over `Meek(b)`: what loops and
blades may do to a row.

`AddressPlan_proofs` proves, for any sets of sites, BladeRunners, blades and
concurrent requests and any sizes and plans, from `PlanAssumption` alone (sizes
and steps are positive, a row that is gone is not one still to come):

| Theorem | |
|---|---|
| `PlanTypeCorrect` | `ASpec => []ATypeOK` |
| `AddressesAreDistinct` | `ASpec => []AddressesDistinct` |
| `BlocksStayApart` | `ASpec => []BlocksApart` |
| `NumbersAreDistinct` | `ASpec => []NumbersDistinct` |

The argument. `AInv` adds three things to the types. `OffsetsUnique` and
`SlotsUnique` are the schema's constraints, kept because every write checks them
again. `OnPlan` says that every offset that was handed out, *written or still in
the hands of a request*, is `base + k * step` of its site for as long as that site
is there: it survives the time between the decision and the write because a plan
never changes and an id never comes back. Different offsets on one plan are then
different multiples of the step, so they are a step apart (`StepApart`) and have
different quotients (`DivTimes`). That `nextRackOffset` returns a block at all
rests on the least element of a set of numbers (`LeastExists`, from the library's
well-foundedness of the order).

`Access_proofs` proves, for any sets of accounts, cookies, requests and machines,
any session time and any number of codes, from `AccountsAssumption` and
`EnrolmentAssumption` (the bounds are numbers, no account is called "token"):

| Theorem | |
|---|---|
| `AccessInvariant` | `AccessSpec => [](AccountsInv /\ EnrolInv)`, the types among it |
| `AdministratorsRemain` | `AccessSpec => []AdminRemains` |
| `RightsDoExpire` | `AccessSpec => []RightsExpire` |
| `CodesBuyOnce` | `AccessSpec => []CodeBuysOnce` |

The argument. None of the three is inductive. `Guarded` says what a request that
has asked `wouldStrandUs` may rely on until it writes: another administrator is
there, or something was written since and the request is marked stale.
`AdminsFresh` and `LoginsFresh` say that an administrator, and a sign-in between
`authenticate` and `create`, has lost nothing yet; a session then starts with its
whole time and loses one of it with every tick in which the right has been gone
one longer. For the codes, `LookUpsHold` ties a look-up that is not stale to the
code in the row, and `CurrentUnspent` says that the code in the row has bought
nothing. `StepsSeen` shows what each half sees of a step of the composition, so
each half is proved once and neither needs the other's invariant.

`Centre_proofs` goes on to `Fleet`: any number of blades, any number of orders
and faults, any limit of the relay's queue, from `CentreAssumption` and
`FleetAssumption` (what the policy refuses are commands, the budgets are numbers,
the limit is not zero).

| Theorem | |
|---|---|
| `FleetInvariant`, `FleetTypeCorrect` | `FleetSpec => []FleetInv`, the types among it |
| `OfflineAsTheCentre` | `FleetSpec => []SameDecisionOffline` |
| `WipesAreOrdered` | `FleetSpec => WipeNeedsTheButton` |
| `FleetImplementsCentre` | with `LocalDHCP`: `FleetSpec => [][Next]_cvars` |
| `InstallationsAreOrdered` | with `LocalDHCP`: `FleetSpec => GoNeedsTheButton` |
| `HalfWrittenIsRetried` | with `LocalDHCP`: `FleetSpec => HalfWrittenStaysArmed` |
| `SlotsAreFreedEmpty` | with `LocalDHCP`: `FleetSpec => SlotFreedWhenEmpty` |
| `JobsAreProtected` | with `LocalDHCP`: `FleetSpec => JobProtected` |

The argument. `FleetInv` is `Safe`, which survives because a step of the loop is
handlers of the centre, plus what blades and site are known to have done: an
installer that reports "done" has written a system and one that reports "wiped"
has emptied the disk (`Finished`), a hand-over under way has something to hand
over, and where the centre owns the wire nothing is ever kept for later.
`WhoWritesTheRow` says once which steps change a blade's row; the action
properties need only look at those. For `JobProtected`, which excuses a person's
overruling of the state and nothing that puts a blade aside or forgets it,
`BusyBladesAreKept` looks at what `resetBlade` and `forgetBlade` refuse. The last five need `LocalDHCP` because
they are false without it: behind a site a report can be late (section 5,
*Jobs and wire*) and a firmware reading can be taken for an installation
(finding 1). The run `fleet_direct` checks the properties under the same switch.

`Spool_proofs`, from `SpoolAssumption` (the bounds are numbers, the buffer has
room): any number of things, any limit, any number of failed and refused requests,
stops and crashes, either kind of buffer, one pass or two.

| Theorem | |
|---|---|
| `SpoolInvariant`, `SpoolTypeCorrect` | `SpoolSpec => []SpoolInv`, the types among it |
| `DeliveredInOrder` | `SpoolSpec => []InOrder` |
| `SpoolIsAMailbox` | `SpoolSpec => IsMailbox` |

The argument. Each thing is in one place, the buffer or one hand, once; file and
the copies not yet renamed have no thing twice (`OnePlace`) and nothing that the
service did not know (`Saved`). With one pass, buffer, hand, copies and file are
each in order and what is in the buffer is younger than what is in the hand
(`Ordered`), which is why putting the hand back in front keeps the order; what
waits is younger than what the centre has, unless the centre has it too because
an answer was lost (`Younger`). With two passes both are false. For the refinement, every step that moves a thing between buffer and hand
leaves their union alone and is a stuttering step of the mailbox; a refusal takes
one thing out and names it, and a restart is the one that may lose unnamed.

`Images_proofs`, from `ImagesAssumption` (the bounds are numbers; every job has a
file name; "no row", "no file" and "no request" are not rows, files or requests):
any number of images, places to fetch from, requests at a time, would-be
goroutines, scripts given up and restarts, any naming of files.

| Theorem | |
|---|---|
| `ImagesInvariant`, `ImagesTypeCorrect` | `ImgSpec => []ImgInv`, the types among it |
| `QueueRunsOneJob` | `ImgSpec => []OneAtATime` |
| `NeededImageStays` | `ImgSpec => []UsedStays` |
| `ReadyImageIsWhole` | `ImgSpec => []ReadyIsWhole` |

The argument. `OneRunner`: the flag `running` is set exactly while a goroutine is
there. `Needed`: of an image that is in use, no removal has passed its check.
`Filed`, of every image that is not `upset`, follows a fetch from its entry to its
end: a row that says "ready" without a note is whole or about to be fetched
(`ReadyOrComing`), and what the goroutine has behind it is in place (`Progress`),
under the name the job gives it. A second request for the same image under another
address is why `Progress` ties the row's address to the job only until such a
request is `Coming`. A script that was given up touches only what is `upset` by it
(`StrayStep`).

`Mirror_proofs`, from `MirrorAssumption` (there is a version, no version is empty,
the bounds are numbers): any number of versions of any sizes, also different ones,
and any number of dropped transfers, restarts and returning installers.

| Theorem | |
|---|---|
| `MirrorInvariant`, `MirrorTypeCorrect` | `MirrorSpec => []MirrorInv`, the types among it |
| `SiteHoldsWhatItSays` | `MirrorSpec => []HoldsWhatItSays` |
| `ResumedInPlace` | `MirrorSpec => []StreamInPlace` |

The argument. `Shape` holds with one pass or two: the file a pass has open and
where it is in the body fit the step it is at, a writer never stands behind a gap
in its file, and the image and its `.part` are different files. While no two passes
have overlapped, `Alone` adds that every file has each piece in its place
(`InPlace`), what each step of the one pass may rely on (`Stage`: the
`.part` it is to rename is whole, the stamp it wrote is that of the document), and
that the image is a whole version. `FreshInode` shows that the model's four
inodes are enough: whatever is open or named, one is free.

`Converge_proofs`, from `ConvergeAssumption` (patches and bodies are documents of
known scopes, the window lies within the day, the bounds are numbers): any
patches, orders and windows, any number of edits and troubles.

| Theorem | |
|---|---|
| `ConvergeInvariant`, `ConvergeTypeCorrect` | `ConvergeSpec => []ConvergeInv`, the types among it |
| `RecordedIsOnDisk` | `ConvergeSpec => []AppliedIsOnDisk` |
| `RestartIsAnnounced` | `ConvergeSpec => []RestartIsOwed` |
| `UnitsRunTheirFiles` | `ConvergeSpec => []UnitRunsTheFile` |

The argument. `PassKnowsWhatItApplies`: version in memory and note agree, and a
pass that applies something applies what it set out with, which is not what is
noted. `DoneSoFar`: as long as nothing has failed, what the pass has behind it is
on the disk, so that it is all there when the version is recorded. `UnitKnown`: the
unit runs its file, or the pass at work has changed it and is still to restart the
unit (`RestartDue`), unless a restart failed or was left out since the unit was last
started. That it carries over from pass to pass rests on `unitsChanged` being set in
the very step that changes the file. That patching and merging give documents (`Merged`,
`PatchedIsDocument`) is proved for every document.

`Alerts_proofs`, from `AlertsAssumption` (the hold is at least one pass, the bounds
are numbers): any number of blades, any hold, any number of turns and troubles.

| Theorem | |
|---|---|
| `AlertsInvariant`, `AlertsTypeCorrect` | `AlertsSpec => []AlertsInv`, the types among it |
| `HoldTimeIsKept` | `AlertsSpec => []HeldBeforeSaid` |
| `NothingIsSaidTwice` | `AlertsSpec => []SaidOnce` |

The argument goes blade by blade. `InStep` relates a row to the history at each
step of the pass: as a finished pass leaves it (`Settled`), one minute older, between
the listing and the look at it (`Listed`), and while the mail about it is
under way. `Watched` says that a blade without a verdict has no alert and does not
lose its verdict behind the back of a pass; that is where the changes come in
which the watch cannot see, and a blade that met one is `blurred` until its row is
gone. `OtherBlade` shows that a change of one blade says nothing of another.

Only model-checked: liveness, because fairness and ENABLED are outside the
prover's reach: `WipeHappens`, `FinishedBladeBoots`, `EverythingArrives`,
`QueueSettles`, `CatchesUp`, `BladeInstalled`, `Converges`, `RestartComes`,
`AlertsSettle`; and the two refutations, which are about single behaviours.

## 7. Abstractions worth knowing

* In `Centre` a position is one value; the enclosure, its size and the address
  behind it are `AddressPlan`'s, where in turn a blade is only a position and a MAC.
* `hBladeUpdate` may set any state the schema knows; the code does not check the
  string at all.
* An assigned image outside the catalogue is in the model (`Image \ Catalogue`)
  and in the proofs; the runs use catalogued images only.
* A pass is one step in `Fleet`; `Mirror` has its steps, and two passes at once.
* Passwords, codes and tokens are values; hashing, alphabets and normalisation have
  no state and are left out.
* In `Alerts` a settings save is one step: the mixture a half-finished one leaves is
  what a save of only some settings would be.
* The hold time is a constant of `Alerts`; a change of `notify_hold_min` while an
  alert is open is left out.
* A report larger than `maxQueuedBody` is refused, not kept: it is `reportLost` in
  `Fleet`, `turnAway` in `Spool`.
* The agent ignores commands older than its own TTL: `commandsLost`. Those the
  centre strikes off are `CommandsExpire`.
* A unit in `Converge` is enabled. (For one that is active and not enabled the code
  calls `enable --now`, which does not restart it.)
* In `Enrolment` a machine that ended and asks again is not looked up before its
  earlier request is through.

## 8. Plan

Done: all modules of section 2, and a theorem for every safety property of a run.
Next, in this order:

1. `ReservationSync` (`ipam.go` `syncDHCP`): two handlers that list the rows and
   write the files at the same time, against `ReservationsFollow`.
2. The rest of the site's pass on the pattern of `Mirror`: `ensureBoot`,
   `ensureBinaries`, `pruneImages` against what a blade is reading.
3. What `Fleet` still promises behind a site, in the place of the four theorems
   that need the centre to own the wire.

## 9. Not modelled

Reading and formatting of hardware facts, pages and translations, mail text, FAT
and partition table code, backups, seeding of a written disk: conversions or file
work without a protocol. `ensureBoot`, `ensureBinaries`, `pruneImages` and
`ensureRange` of a site, host names and the dynamic pool of the address plan:
possible, and in part in the plan.
