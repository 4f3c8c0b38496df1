------------------------------- MODULE Mirror -------------------------------
(***************************************************************************)
(* The site's own copy of an image, from the centre's catalogue to a       *)
(* blade's disk: the pass of the site service (site/site.go pass, fetch,   *)
(* setState, saveState), the mirror of the file (site/images.go            *)
(* ensureImages, haveImage, fetchImage) and the download of the installer  *)
(* (installer/main.go writeImage, resumingReader), which continues over a  *)
(* dropped line while the file under it may be replaced.                   *)
(*                                                                         *)
(* The image is replaced at the centre under its name: version v of it is  *)
(* a file of Size[v] pieces.  A file is an inode, because a pass that      *)
(* still writes to ".part" when another has renamed it writes to the image *)
(* itself.  A finished installation starts a pass beside the loop's.       *)
(***************************************************************************)
EXTENDS Naturals, Sequences, FiniteSetsExt

CONSTANTS
    Size,        \* pieces of each version
    MaxDrops,    \* requests that fail and transfers that break off
    MaxStops,    \* restarts of the site service
    MaxRefresh   \* passes started by a finished installation

Version == DOMAIN Size
Inode == 1..4
Piece == Version \X Nat
Full(v) == [k \in 1..Size[v] |-> <<v, k>>]

ASSUME MirrorAssumption ==
    /\ Size \in Seq(Nat \ {0}) /\ Size # <<>>
    /\ MaxDrops \in Nat /\ MaxStops \in Nat /\ MaxRefresh \in Nat

VARIABLES
    served,    \* the version of the file at the centre
    cat,       \* the version its catalogue states
    etag, state,   \* site.etag, site.state: versions, 0 for none
    saved,     \* desired.json
    ino,       \* what each inode holds
    live, part,    \* the inodes of the image and of its ".part", 0 for none
    stamp,     \* ".verified"
    stock,     \* what the site says it holds: ready, error, or nothing yet
    pass,      \* where each pass is
    blade,     \* where the installer is
    overlap,   \* two passes were under way at once
    drops, stops, refreshes

centre == <<served, cat>>
memory == <<etag, state, stock>>
files == <<saved, ino, live, part, stamp>>
mvars == <<centre, memory, files, pass, blade, overlap, drops, stops, refreshes>>

Pass == {"loop", "refresh"}
NoPass == [at |-> "idle", doc |-> 0, changed |-> FALSE, fd |-> 0, appends |-> FALSE, body |-> 0, next |-> 1]
NoBlade == [at |-> "idle", sum |-> 0, from |-> "site", body |-> 0, got |-> <<>>]

PassState ==
    [at : {"idle", "start", "fetched", "look", "copy", "stamped"}, doc : Version \cup {0},
     changed : BOOLEAN, fd : Inode \cup {0}, appends : BOOLEAN, body : Version \cup {0}, next : Nat]
BladeState ==
    [at : {"idle", "reading", "check", "done", "failed"}, sum : Version \cup {0},
     from : {"site", "centre"}, body : Nat, got : Seq(Piece)]

MirrorTypeOK ==
    /\ served \in Version /\ cat \in Version
    /\ {etag, state, saved, stamp} \subseteq Version \cup {0}
    /\ ino \in [Inode -> Seq(Piece)]
    /\ {live, part} \subseteq Inode \cup {0}
    /\ stock \in {"", "ready", "error"}
    /\ pass \in [Pass -> PassState]
    /\ blade \in BladeState
    /\ overlap \in BOOLEAN /\ drops \in 0..MaxDrops /\ stops \in 0..MaxStops /\ refreshes \in 0..MaxRefresh

MirrorInit ==
    /\ served = 1 /\ cat = 1
    /\ etag = 0 /\ state = 0 /\ stock = ""
    /\ saved = 0 /\ ino = [n \in Inode |-> <<>>]
    /\ live = 0 /\ part = 0 /\ stamp = 0
    /\ pass = [p \in Pass |-> NoPass]
    /\ blade = NoBlade
    /\ overlap = FALSE /\ drops = 0 /\ stops = 0 /\ refreshes = 0

-----------------------------------------------------------------------------
\* The centre: mirror-image.sh puts a new file in place, then enters it.
place ==
    /\ served = cat /\ served < Len(Size)
    /\ served' = served + 1
    /\ UNCHANGED <<cat, memory, files, pass, blade, drops, overlap, stops, refreshes>>

enter ==
    /\ cat # served
    /\ cat' = served
    /\ UNCHANGED <<served, memory, files, pass, blade, drops, overlap, stops, refreshes>>

-----------------------------------------------------------------------------
Fault == drops < MaxDrops /\ drops' = drops + 1
Set(p, r) == pass' = [pass EXCEPT ![p] = r]
Ends(p, said) == Set(p, NoPass) /\ stock' = said
Starts(p) ==
    /\ pass[p].at = "start" \/ (p = "loop" /\ pass[p].at = "idle")
    /\ overlap' = (overlap \/ \E q \in Pass \ {p} : pass[q].at \notin {"idle", "start"})

\* fetch: the document, or 304 and what the site holds anyway.  The tag is
\* kept here, the document in a step of its own.
fetch(p) ==
    /\ Starts(p)
    /\ etag' = cat
    /\ Set(p, [NoPass EXCEPT !.at = "fetched", !.changed = (etag # cat),
                             !.doc = IF etag = cat THEN state ELSE cat])
    /\ UNCHANGED <<centre, state, stock, files, blade, drops, stops, refreshes>>

\* fetch that fails: what is held, or else what was saved, or nothing at all.
fetchFails(p) ==
    LET d == IF state # 0 THEN state ELSE saved IN
    /\ Starts(p) /\ Fault
    /\ state' = d
    /\ Set(p, IF d = 0 THEN NoPass ELSE [NoPass EXCEPT !.at = "look", !.doc = d])
    /\ UNCHANGED <<centre, etag, stock, files, blade, stops, refreshes>>

\* setState, and saveState for a document that is new.
setState(p) ==
    /\ pass[p].at = "fetched" /\ pass[p].doc # 0
    /\ state' = pass[p].doc
    /\ saved' = IF pass[p].changed THEN pass[p].doc ELSE saved
    /\ Set(p, [pass[p] EXCEPT !.at = "look", !.changed = FALSE])
    /\ UNCHANGED <<centre, etag, stock, ino, live, part, stamp, blade, drops, overlap, stops, refreshes>>

-----------------------------------------------------------------------------
\* haveImage: right size, and either the stamp says so or the checksum does.
SizeFits(d) == live # 0 /\ Len(ino[live]) = Size[d]

\* Mutant: the stamp of any version will do.
Have_AnyStamp(d) == SizeFits(d) /\ (stamp # 0 \/ ino[live] = Full(d))

Have(d) == SizeFits(d) /\ (stamp = d \/ ino[live] = Full(d))

haveImage(p) ==
    /\ pass[p].at = "look" /\ Have(pass[p].doc)
    /\ stamp' = pass[p].doc
    /\ Ends(p, "ready")
    /\ UNCHANGED <<centre, etag, state, saved, ino, live, part, blade, drops, overlap, stops, refreshes>>

\* An inode nobody has.
Fresh == Min({n \in Inode : n \notin {live, part} \cup {pass[p].fd : p \in Pass}
                            /\ ~(blade.from = "site" /\ blade.body = n)})

\* fetchImage continues the ".part" that is there with a Range request; the
\* centre answers with the rest (206) of what it holds by now, or with the
\* whole file (200) where there is nothing to continue ...
openPart(p) ==
    LET from == IF part = 0 THEN 0 ELSE Len(ino[part])
        n == IF part = 0 THEN Fresh ELSE part
    IN  /\ pass[p].at = "look" /\ ~Have(pass[p].doc)
        /\ from < Size[served]
        /\ part' = n
        /\ ino' = IF from = 0 THEN [ino EXCEPT ![n] = <<>>] ELSE ino
        /\ Set(p, [pass[p] EXCEPT !.at = "copy", !.fd = n, !.appends = (from > 0),
                                  !.body = served, !.next = from + 1])
        /\ UNCHANGED <<centre, memory, saved, live, stamp, blade, drops, overlap, stops, refreshes>>

\* ... or refuses the range (416): the ".part" stays.
refused(p) ==
    /\ pass[p].at = "look" /\ ~Have(pass[p].doc)
    /\ part # 0 /\ Len(ino[part]) >= Size[served]
    /\ Ends(p, "error")
    /\ UNCHANGED <<centre, etag, state, files, blade, drops, overlap, stops, refreshes>>

\* io.Copy, at the end of the file or at its own place.
At(s, n, c) == [k \in 1..Max({Len(s), n}) |-> IF k = n THEN c ELSE IF k <= Len(s) THEN s[k] ELSE <<0, 0>>]

copy(p) ==
    LET q == pass[p] IN
    /\ q.at = "copy" /\ q.next <= Size[q.body]
    /\ ino' = [ino EXCEPT ![q.fd] =
                  IF q.appends THEN Append(@, <<q.body, q.next>>)
                  ELSE At(@, q.next, <<q.body, q.next>>)]
    /\ Set(p, [q EXCEPT !.next = @ + 1])
    /\ UNCHANGED <<centre, memory, saved, live, part, stamp, blade, drops, overlap, stops, refreshes>>

\* The line breaks, before the answer or in the middle of the file.
copyFails(p) ==
    /\ \/ pass[p].at = "look" /\ ~Have(pass[p].doc)
       \/ pass[p].at = "copy" /\ pass[p].next <= Size[pass[p].body]
    /\ Fault
    /\ Ends(p, "error")
    /\ UNCHANGED <<centre, etag, state, files, blade, overlap, stops, refreshes>>

\* Mutant: whatever arrived is taken.
verify_Trusting(p) ==
    LET q == pass[p] IN
    /\ q.at = "copy" /\ q.next > Size[q.body]
    /\ IF part # 0
       THEN stamp' = q.doc /\ Set(p, [q EXCEPT !.at = "stamped"])
            /\ UNCHANGED <<part, stock>>
       ELSE Ends(p, "error") /\ UNCHANGED <<stamp, part>>
    /\ UNCHANGED <<centre, etag, state, saved, ino, live, blade, drops, overlap, stops, refreshes>>

\* Mutant: what does not fit the checksum stays where it is.
verify_Keeps(p) ==
    LET q == pass[p] IN
    /\ q.at = "copy" /\ q.next > Size[q.body]
    /\ IF part # 0 /\ ino[part] = Full(q.doc)
       THEN stamp' = q.doc /\ Set(p, [q EXCEPT !.at = "stamped"])
            /\ UNCHANGED <<part, stock>>
       ELSE Ends(p, "error") /\ UNCHANGED <<stamp, part>>
    /\ UNCHANGED <<centre, etag, state, saved, ino, live, blade, drops, overlap, stops, refreshes>>

\* The checksum of what ".part" is by now: wrong, it is removed; right, the
\* stamp is written ...
verify(p) ==
    LET q == pass[p] IN
    /\ q.at = "copy" /\ q.next > Size[q.body]
    /\ IF part # 0 /\ ino[part] = Full(q.doc)
       THEN stamp' = q.doc /\ Set(p, [q EXCEPT !.at = "stamped"])
            /\ UNCHANGED <<part, stock>>
       ELSE part' = 0 /\ Ends(p, "error") /\ UNCHANGED stamp
    /\ UNCHANGED <<centre, etag, state, saved, ino, live, blade, drops, overlap, stops, refreshes>>

\* ... and only then the file takes the image's place.
rename(p) ==
    /\ pass[p].at = "stamped"
    /\ IF part # 0
       THEN live' = part /\ part' = 0 /\ Ends(p, "ready")
       ELSE UNCHANGED <<live, part>> /\ Ends(p, "error")
    /\ UNCHANGED <<centre, etag, state, saved, ino, stamp, blade, drops, overlap, stops, refreshes>>

-----------------------------------------------------------------------------
\* The service ends and starts again: memory is gone, the files are not, and
\* a blade that reads from it is cut off.
Restarted ==
    /\ etag' = 0 /\ state' = 0 /\ stock' = ""
    /\ pass' = [p \in Pass |-> NoPass]
    /\ blade' = IF blade.at = "reading" /\ blade.from = "site"
                THEN [blade EXCEPT !.at = "check", !.body = 0] ELSE blade
    /\ UNCHANGED <<centre, files, overlap, drops, refreshes>>

crash == stops < MaxStops /\ stops' = stops + 1 /\ Restarted

\* 304 before any document is held: the pass works on nothing and the service
\* ends with a panic.
nilDocument(p) ==
    /\ pass[p].at = "fetched" /\ pass[p].doc = 0
    /\ stops' = stops
    /\ Restarted

-----------------------------------------------------------------------------
\* The installer is told to write (site/relay.go provision): the checksum is
\* the centre's, or the one of the document held while the centre does not
\* answer; the file is the site's where there is one.
told(b) == blade' = b /\ UNCHANGED <<centre, memory, files, pass, overlap, stops, refreshes>>

answerWithLocalImage ==
    /\ blade.at = "idle"
    /\ told([at |-> "reading", sum |-> cat, got |-> <<>>,
             from |-> IF live # 0 THEN "site" ELSE "centre",
             body |-> IF live # 0 THEN live ELSE served])
    /\ UNCHANGED drops

answerOffline ==
    /\ blade.at = "idle" /\ Fault
    /\ state # 0 /\ live # 0
    /\ told([at |-> "reading", sum |-> state, got |-> <<>>, from |-> "site", body |-> live])

\* resumingReader: the stream goes on, or is at its end ...
Source(b) == IF b.from = "site" THEN ino[b.body] ELSE Full(b.body)

read ==
    LET n == Len(blade.got) + 1 IN
    /\ blade.at = "reading"
    /\ told(IF n <= Len(Source(blade))
            THEN [blade EXCEPT !.got = Append(@, Source(blade)[n])]
            ELSE [blade EXCEPT !.at = "check"])
    /\ UNCHANGED drops

\* Mutant: the answer to the Range request is read from its first byte.
resume_Again ==
    LET b == [blade EXCEPT !.body = IF blade.from = "site" THEN live ELSE served] IN
    /\ blade.at = "reading" /\ Fault
    /\ b.body # 0
    /\ told([b EXCEPT !.got = IF @ = <<>> THEN @ ELSE Append(@, <<b.body, 1>>)])

\* ... or breaks: it is continued in the file that has the name by now ...
resume ==
    LET b == [blade EXCEPT !.body = IF blade.from = "site" THEN live ELSE served] IN
    /\ blade.at = "reading" /\ Fault
    /\ b.body # 0 /\ (b.got = <<>> \/ Len(b.got) < Len(Source(b)))
    /\ told(b)

\* ... and a reconnect that fails leaves an empty body, which reads as the end.
resumeFails ==
    /\ blade.at = "reading" /\ Fault
    /\ told([blade EXCEPT !.at = "check", !.body = 0])

\* writeImage compares the checksum of what it read.  An error is reported and
\* the installer parks for good; "done" makes the relay start a pass.
writeImage ==
    /\ blade.at = "check"
    /\ IF blade.got = Full(blade.sum)
       THEN /\ blade' = [blade EXCEPT !.at = "done", !.body = 0]
            /\ IF pass["refresh"].at = "idle" /\ refreshes < MaxRefresh
               THEN /\ Set("refresh", [NoPass EXCEPT !.at = "start"])
                    /\ refreshes' = refreshes + 1
               ELSE UNCHANGED <<pass, refreshes>>
       ELSE blade' = [NoBlade EXCEPT !.at = "failed"] /\ UNCHANGED <<pass, refreshes>>
    /\ UNCHANGED <<centre, memory, files, overlap, drops, stops>>

\* Somebody switches a blade that has parked off and on again; it boots into
\* the installer, the order still stands.
switchOn ==
    /\ blade.at = "failed"
    /\ told(NoBlade)
    /\ UNCHANGED drops

\* Its power is cut while it writes, and comes back.
powerCut ==
    /\ blade.at \in {"reading", "check"} /\ Fault
    /\ told(NoBlade)

-----------------------------------------------------------------------------
Turns(p) ==
    \/ fetch(p) \/ setState(p) \/ haveImage(p) \/ openPart(p) \/ refused(p)
    \/ copy(p) \/ verify(p) \/ rename(p)
Breaks(p) == fetchFails(p) \/ copyFails(p) \/ nilDocument(p)
Installs == answerWithLocalImage \/ read \/ writeImage
Unlucky == answerOffline \/ resume \/ resumeFails \/ powerCut

MirrorNext ==
    \/ place \/ enter
    \/ \E p \in Pass : Turns(p) \/ Breaks(p)
    \/ crash
    \/ Installs \/ Unlucky
    \/ switchOn

MirrorSpec == MirrorInit /\ [][MirrorNext]_mvars

\* The loop keeps turning, a started pass goes on, the script at the centre
\* ends, and an installer that has not parked goes on.  Nobody is bound to
\* switch on a blade that has parked.
FairMirrorSpec ==
    /\ MirrorSpec
    /\ WF_mvars(enter)
    /\ \A p \in Pass : WF_mvars(Turns(p))
    /\ WF_mvars(Installs)

-----------------------------------------------------------------------------
\* What the site serves as the image is a whole version of it, at every moment
\* of every download, restart and replacement at the centre (site/images.go
\* fetchImage: "A wrong image is worse than no image"), while one pass runs at
\* a time; and a site that says "ready" holds the version of the document it
\* works from, or is about to look again (haveImage: "whether the file on disk
\* is the wanted one"), as long as no restart fell between stamp and file.
HoldsWhatItSays ==
    /\ ~overlap /\ live # 0 => \E v \in Version : ino[live] = Full(v)
    /\ ~overlap /\ stops = 0 /\ stock = "ready" /\ (\A p \in Pass : pass[p].at \in {"idle", "start"})
          => ino[live] = Full(state)

\* The installer's stream has every piece in its place, however often the line
\* broke and whatever replaced the file meanwhile (installer/main.go
\* resumingReader: "exactly where it stopped").
StreamInPlace == ~overlap => \A k \in DOMAIN blade.got : blade.got[k][2] = k

\* When nothing is replaced any more, the site comes to hold the centre's
\* version (site/images.go ensureImages), if one pass runs at a time and no
\* restart interrupts it.
CatchesUp ==
    [](stops = 0 /\ ~overlap) => <>[](live # 0 /\ ino[live] = Full(cat))

\* An attempt of the installer comes to an end, with the image on the disk or
\* parked (installer/main.go main: "This blade now stops here"); and a blade
\* that somebody switches on again whenever it has parked is installed in the
\* end, from whichever files and checksums it was given on the way, if one pass
\* runs at a time and the site's service is not restarted.
BladeInstalled ==
    [](stops = 0 /\ ~overlap) =>
        /\ blade.at = "reading" ~> blade.at \in {"done", "failed", "idle"}
        /\ []<>(blade.at # "failed") => (blade.at = "idle" ~> blade.at = "done")
=============================================================================
