--------------------------- MODULE Mirror_proofs ----------------------------
(***************************************************************************)
(* Theorems about Mirror, for any versions of any sizes and any number of  *)
(* broken lines, restarts and finished installations.                      *)
(***************************************************************************)
EXTENDS Mirror, TLAPS

-----------------------------------------------------------------------------
\* The inductive invariant.

\* What a pass has in hand fits the step it is at.  One that writes at its own
\* place is never behind a gap.
PassOK(p) ==
    /\ pass[p].at \in {"look", "copy", "stamped"} => pass[p].doc \in Version
    /\ pass[p].fd # 0 <=> pass[p].at \in {"copy", "stamped"}
    /\ pass[p].at = "copy" => pass[p].body \in Version
    /\ pass[p].at = "copy" /\ ~pass[p].appends => pass[p].next \in 1..(Len(ino[pass[p].fd]) + 1)

\* An installer that reads has something open.
BladeOK ==
    blade.at = "reading" =>
        /\ blade.from = "site" => blade.body \in Inode
        /\ blade.from = "centre" => blade.body \in Version

Apart == live # 0 => live # part

Shape == (\A p \in Pass : PassOK(p)) /\ BladeOK /\ Apart

\* Only one pass is under way.
Active(p) == pass[p].at \notin {"idle", "start"}
Single == \A p, q \in Pass : Active(p) /\ Active(q) => p = q

InPlace(s) == \A k \in DOMAIN s : s[k][2] = k

\* Where the pass under way is with the document the site works from.
Stage(p) ==
    /\ pass[p].at \in {"look", "copy", "stamped"} => state = pass[p].doc
    /\ pass[p].at = "copy" => pass[p].fd = part /\ pass[p].next = Len(ino[part]) + 1
    /\ pass[p].at = "stamped" => part # 0 /\ stamp = pass[p].doc /\ ino[part] = Full(pass[p].doc)

WholeImage == live # 0 => \E v \in Version : ino[live] = Full(v)

\* Without a restart the stamp is true outside the step from stamp to rename,
\* and "ready" between passes.
Stamped == stamp # 0 /\ (\A p \in Pass : pass[p].at # "stamped") => live # 0 /\ ino[live] = Full(stamp)
Ready == stock = "ready" /\ (\A p \in Pass : ~Active(p)) => live # 0 /\ state # 0 /\ ino[live] = Full(state)

Alone ==
    /\ Single
    /\ \A n \in Inode : InPlace(ino[n])
    /\ \A p \in Pass : Stage(p)
    /\ WholeImage
    /\ stops = 0 => Stamped /\ Ready
    /\ InPlace(blade.got)

MirrorInv == MirrorTypeOK /\ Shape /\ (~overlap => Alone)

-----------------------------------------------------------------------------
\* Versions, files and inodes.

LEMMA Versions ==
    /\ Len(Size) \in Nat /\ Version = 1..Len(Size)
    /\ 1 \in Version /\ 0 \notin Version
    /\ \A v \in Version : Size[v] \in Nat \ {0} /\ v \in Nat
  BY MirrorAssumption DEF Version

LEMMA FullFile ==
    ASSUME NEW v \in Version
    PROVE  /\ Full(v) \in Seq(Piece) /\ Len(Full(v)) = Size[v]
           /\ \A k \in 1..Size[v] : Full(v)[k] = <<v, k>>
           /\ InPlace(Full(v))
  <1>1. Size[v] \in Nat
    BY Versions
  <1>2. \A k \in 1..Size[v] : <<v, k>> \in Piece
    BY <1>1 DEF Piece
  <1> QED
    BY <1>1, <1>2 DEF Full, InPlace

LEMMA AppendInPlace ==
    ASSUME NEW s \in Seq(Piece), InPlace(s), NEW c \in Piece, c[2] = Len(s) + 1
    PROVE  InPlace(Append(s, c))
  BY DEF InPlace

LEMMA MaxOfTwo ==
    ASSUME NEW a \in Nat, NEW b \in Nat
    PROVE  Max({a, b}) = IF a >= b THEN a ELSE b
  <1>1. \E x \in {a, b} : \A y \in {a, b} : x >= y
    OBVIOUS
  <1> QED
    BY <1>1 DEF Max

LEMMA WriteAt ==
    ASSUME NEW s \in Seq(Piece), NEW n \in 1..(Len(s) + 1), NEW c \in Piece
    PROVE  /\ At(s, n, c) \in Seq(Piece)
           /\ Len(At(s, n, c)) >= Len(s) /\ Len(At(s, n, c)) >= n
           /\ n = Len(s) + 1 => At(s, n, c) = Append(s, c)
  <1> DEFINE m == IF Len(s) >= n THEN Len(s) ELSE n
             f == [k \in 1..m |-> IF k = n THEN c ELSE IF k <= Len(s) THEN s[k] ELSE <<0, 0>>]
  <1>1. m \in Nat /\ m >= Len(s) /\ m >= n /\ (m = Len(s) \/ m = Len(s) + 1)
    OBVIOUS
  <1>2. At(s, n, c) = f
    BY MaxOfTwo DEF At
  <1>3. \A k \in 1..m : k # n => k \in 1..Len(s) /\ s[k] \in Piece
    OBVIOUS
  <1>4. f \in Seq(Piece) /\ Len(f) = m
    BY <1>1, <1>3
  <1>5. ASSUME n = Len(s) + 1 PROVE f = Append(s, c)
    <2>1. Append(s, c) \in Seq(Piece) /\ Len(Append(s, c)) = m
      BY <1>1, <1>5
    <2>2. \A k \in 1..m : f[k] = Append(s, c)[k]
      BY <1>1, <1>5
    <2> HIDE DEF f
    <2> QED
      BY <1>4, <2>1, <2>2
  <1> QED
    BY <1>1, <1>2, <1>4, <1>5

LEMMA SmallMin ==
    ASSUME NEW S \in SUBSET Inode, S # {}
    PROVE  Min(S) \in S
  <1>1. \E x \in S : \A y \in S : x <= y
    <2>1. CASE 1 \in S BY <2>1 DEF Inode
    <2>2. CASE 1 \notin S /\ 2 \in S BY <2>2 DEF Inode
    <2>3. CASE 1 \notin S /\ 2 \notin S /\ 3 \in S BY <2>3 DEF Inode
    <2>4. CASE 1 \notin S /\ 2 \notin S /\ 3 \notin S
      <3>1. \A y \in S : y = 4
        BY <2>4 DEF Inode
      <3> QED
        BY <3>1
    <2> QED
      BY <2>1, <2>2, <2>3, <2>4
  <1> QED
    BY <1>1 DEF Min

\* There is always an inode nobody has: four are enough for the image, the file
\* of the other pass and the one an installer reads.
LEMMA FreshInode ==
    ASSUME MirrorTypeOK, NEW p \in Pass, pass[p].fd = 0, part = 0
    PROVE  /\ Fresh \in Inode /\ Fresh # live
           /\ \A q \in Pass : Fresh # pass[q].fd
  <1> DEFINE S == {n \in Inode : n \notin {live, part} \cup {pass[q].fd : q \in Pass}
                                 /\ ~(blade.from = "site" /\ blade.body = n)}
  <1>1. PICK o \in Pass : \A q \in Pass : q = p \/ q = o
    BY DEF Pass
  <1>2. PICK n \in Inode : n # live /\ n # pass[o].fd /\ n # blade.body
    BY DEF Inode
  <1>3. n \in S
    BY <1>1, <1>2 DEF Inode
  <1>4. Min(S) \in S
    BY <1>3, SmallMin
  <1> QED
    BY <1>4 DEF Fresh

-----------------------------------------------------------------------------
\* Passes.

LEMMA NoPassType == NoPass \in PassState /\ NoPass.at = "idle" /\ NoPass.fd = 0 /\ NoPass.doc = 0
  BY DEF NoPass, PassState, Inode

LEMMA NoBladeType == NoBlade \in BladeState /\ NoBlade.at = "idle" /\ NoBlade.got = <<>>
  <1>1. <<>> \in Seq(Piece)
    OBVIOUS
  <1> QED
    BY <1>1 DEF NoBlade, BladeState

LEMMA SetPass ==
    ASSUME pass \in [Pass -> PassState], NEW p \in Pass, NEW r \in PassState, Set(p, r)
    PROVE  /\ pass' \in [Pass -> PassState] /\ pass'[p] = r
           /\ \A q \in Pass : q # p => pass'[q] = pass[q]
  BY DEF Set

\* A pass that works alone, whatever it does, leaves the other out of it.
LEMMA WorksAlone ==
    ASSUME NEW p \in Pass, \A q \in Pass : q # p => ~Active(q) /\ pass'[q] = pass[q]
    PROVE  /\ Single'
           /\ \A q \in Pass : q # p => Stage(q)' /\ ~Active(q)' /\ pass'[q].at # "stamped"
           /\ \A q \in Pass : q # p => pass[q].at # "stamped"
  BY DEF Active, Single, Stage

LEMMA OthersAreIdle ==
    ASSUME Single, NEW p \in Pass, Active(p)
    PROVE  \A q \in Pass : q # p => ~Active(q)
  BY DEF Single

-----------------------------------------------------------------------------
\* Steps that leave the passes and the files alone.

LEMMA SameSite ==
    ASSUME MirrorInv, UNCHANGED <<state, stock, stamp, ino, live, part, pass, overlap, stops>>
    PROVE  /\ (\A p \in Pass : PassOK(p))' /\ Apart'
           /\ ~overlap' =>
                 /\ Single'
                 /\ (\A n \in Inode : InPlace(ino[n]))'
                 /\ (\A p \in Pass : Stage(p))'
                 /\ WholeImage'
                 /\ (stops = 0 => Stamped /\ Ready)'
  <1>1. (\A p \in Pass : PassOK(p))' /\ Apart'
    BY DEF MirrorInv, Shape, PassOK, Apart
  <1>2. ASSUME ~overlap' PROVE Single' /\ (\A n \in Inode : InPlace(ino[n]))' /\ (\A p \in Pass : Stage(p))'
    BY <1>2 DEF MirrorInv, Alone, Single, Active, Stage, InPlace
  <1>3. ASSUME ~overlap' PROVE WholeImage' /\ (stops = 0 => Stamped /\ Ready)'
    BY <1>3 DEF MirrorInv, Alone, WholeImage, Stamped, Ready, Active
  <1> QED
    BY <1>1, <1>2, <1>3

\* The same when the installer is left alone too.
LEMMA SameSiteAndBlade ==
    ASSUME MirrorInv, MirrorTypeOK', UNCHANGED <<state, stock, stamp, ino, live, part, pass, overlap, stops, blade>>
    PROVE  MirrorInv'
  <1>1. BladeOK' /\ (~overlap' => InPlace(blade.got)')
    BY DEF MirrorInv, Shape, BladeOK, Alone, InPlace
  <1> QED
    BY <1>1, SameSite DEF MirrorInv, Shape, Alone

LEMMA CentreSteps == MirrorInv /\ (place \/ enter) => MirrorInv'
  <1> SUFFICES ASSUME MirrorInv, place \/ enter PROVE MirrorInv'
    OBVIOUS
  <1>1. served' \in Version /\ cat' \in Version
    <2>1. served \in Version /\ cat \in Version
      BY DEF MirrorInv, MirrorTypeOK
    <2> QED
      BY <2>1, Versions DEF place, enter
  <1>2. MirrorTypeOK'
    BY <1>1 DEF MirrorInv, MirrorTypeOK, place, enter, memory, files
  <1> QED
    BY <1>2, SameSiteAndBlade DEF place, enter, memory, files

LEMMA Stutter == MirrorInv /\ UNCHANGED mvars => MirrorInv'
  <1> SUFFICES ASSUME MirrorInv, UNCHANGED mvars PROVE MirrorInv'
    OBVIOUS
  <1>1. MirrorTypeOK'
    BY DEF MirrorInv, MirrorTypeOK, mvars, centre, memory, files
  <1> QED
    BY <1>1, SameSiteAndBlade DEF mvars, centre, memory, files

-----------------------------------------------------------------------------
\* The installer.

LEMMA ToldStep ==
    ASSUME MirrorInv, NEW b \in BladeState, told(b), drops' \in 0..MaxDrops,
           b.at = "reading" => /\ b.from = "site" => b.body \in Inode
                               /\ b.from = "centre" => b.body \in Version,
           ~overlap => InPlace(b.got)
    PROVE  MirrorInv'
  <1>1. UNCHANGED <<served, cat, etag, state, stock, saved, ino, live, part, stamp, pass, overlap, stops, refreshes>>
        /\ blade' = b
    BY DEF told, centre, memory, files
  <1>2. MirrorTypeOK'
    BY <1>1 DEF MirrorInv, MirrorTypeOK
  <1>3. BladeOK' /\ (~overlap' => InPlace(blade.got)')
    BY <1>1 DEF BladeOK, InPlace
  <1> QED
    BY <1>1, <1>2, <1>3, SameSite DEF MirrorInv, Shape, Alone

LEMMA FaultType == ASSUME MirrorInv, Fault PROVE drops' \in 0..MaxDrops
  <1>1. MaxDrops \in Nat /\ drops \in 0..MaxDrops
    BY MirrorAssumption DEF MirrorInv, MirrorTypeOK
  <1>2. drops < MaxDrops /\ drops' = drops + 1
    BY DEF Fault
  <1> QED
    BY <1>1, <1>2

LEMMA EmptyStream == <<>> \in Seq(Piece) /\ InPlace(<<>>)
  BY DEF InPlace

LEMMA answerWithLocalImageStep == MirrorInv /\ answerWithLocalImage => MirrorInv'
  <1> SUFFICES ASSUME MirrorInv, answerWithLocalImage PROVE MirrorInv'
    OBVIOUS
  <1>1. PICK b : b = [at |-> "reading", sum |-> cat, got |-> <<>>,
                      from |-> IF live # 0 THEN "site" ELSE "centre",
                      body |-> IF live # 0 THEN live ELSE served]
    OBVIOUS
  <1>2. told(b) /\ drops' \in 0..MaxDrops
    BY <1>1 DEF answerWithLocalImage, MirrorInv, MirrorTypeOK
  <1>3. cat \in Version /\ served \in Version /\ live \in Inode \cup {0}
    BY DEF MirrorInv, MirrorTypeOK
  <1>4. b \in BladeState
    BY <1>1, <1>3, EmptyStream, Versions DEF BladeState, Inode
  <1>5. b.at = "reading" => /\ b.from = "site" => b.body \in Inode
                            /\ b.from = "centre" => b.body \in Version
    BY <1>1, <1>3
  <1>6. InPlace(b.got)
    BY <1>1, EmptyStream
  <1> QED
    BY <1>2, <1>4, <1>5, <1>6, ToldStep

LEMMA answerOfflineStep == MirrorInv /\ answerOffline => MirrorInv'
  <1> SUFFICES ASSUME MirrorInv, answerOffline PROVE MirrorInv'
    OBVIOUS
  <1>1. PICK b : b = [at |-> "reading", sum |-> state, got |-> <<>>, from |-> "site", body |-> live]
    OBVIOUS
  <1>2. told(b) /\ drops' \in 0..MaxDrops
    BY <1>1, FaultType DEF answerOffline
  <1>3. state \in Version \cup {0} /\ live \in Inode
    BY DEF MirrorInv, MirrorTypeOK, answerOffline
  <1>4. b \in BladeState
    BY <1>1, <1>3, EmptyStream DEF BladeState, Inode
  <1>5. b.at = "reading" => /\ b.from = "site" => b.body \in Inode
                            /\ b.from = "centre" => b.body \in Version
    BY <1>1, <1>3
  <1>6. InPlace(b.got)
    BY <1>1, EmptyStream
  <1> QED
    BY <1>2, <1>4, <1>5, <1>6, ToldStep

\* What an installer can read is a file, and in place while one pass runs.
LEMMA SourceType ==
    ASSUME MirrorInv, NEW b \in BladeState,
           b.from = "site" => b.body \in Inode, b.from = "centre" => b.body \in Version
    PROVE  Source(b) \in Seq(Piece) /\ (~overlap => InPlace(Source(b)))
  <1>1. b.from \in {"site", "centre"}
    BY DEF BladeState
  <1>2. CASE b.from = "site"
    BY <1>2 DEF MirrorInv, MirrorTypeOK, Alone, Source
  <1>3. CASE b.from = "centre"
    BY <1>3, FullFile DEF Source
  <1> QED
    BY <1>1, <1>2, <1>3

LEMMA readStep == MirrorInv /\ read => MirrorInv'
  <1> SUFFICES ASSUME MirrorInv, read PROVE MirrorInv'
    OBVIOUS
  <1>1. PICK s : s = Source(blade)
    OBVIOUS
  <1>2. blade \in BladeState /\ blade.at = "reading" /\ blade.got \in Seq(Piece)
        /\ (blade.from = "site" => blade.body \in Inode)
        /\ (blade.from = "centre" => blade.body \in Version)
    BY DEF MirrorInv, MirrorTypeOK, Shape, BladeOK, read, BladeState
  <1>3. s \in Seq(Piece) /\ (~overlap => InPlace(s) /\ InPlace(blade.got))
    BY <1>1, <1>2, SourceType DEF MirrorInv, Alone
  <1>4. drops' \in 0..MaxDrops
    BY DEF MirrorInv, MirrorTypeOK, read
  <1>5. CASE Len(blade.got) + 1 <= Len(s)
    <2>1. PICK c : c = s[Len(blade.got) + 1]
      OBVIOUS
    <2>2. PICK b : b = [blade EXCEPT !.got = Append(@, c)]
      OBVIOUS
    <2>3. told(b)
      BY <1>1, <1>5, <2>1, <2>2 DEF read
    <2>4. Len(blade.got) + 1 \in DOMAIN s
      BY <1>2, <1>3, <1>5
    <2>5. c \in Piece
      BY <1>3, <2>1, <2>4
    <2>6. ~overlap => c[2] = Len(blade.got) + 1
      BY <1>3, <2>1, <2>4 DEF InPlace
    <2>7. Append(blade.got, c) \in Seq(Piece)
      BY <1>2, <2>5
    <2>8. b \in BladeState /\ b.got = Append(blade.got, c) /\ b.from = blade.from /\ b.body = blade.body
      BY <1>2, <2>2, <2>7 DEF BladeState
    <2>9. ~overlap => InPlace(b.got)
      BY <1>2, <1>3, <2>5, <2>6, <2>8, AppendInPlace
    <2> QED
      BY <1>2, <1>4, <2>3, <2>8, <2>9, ToldStep
  <1>6. CASE ~(Len(blade.got) + 1 <= Len(s))
    <2>1. PICK b : b = [blade EXCEPT !.at = "check"]
      OBVIOUS
    <2>2. told(b)
      BY <1>1, <1>6, <2>1 DEF read
    <2>3. b \in BladeState /\ b.got = blade.got /\ b.at = "check"
      BY <1>2, <2>1 DEF BladeState
    <2> QED
      BY <1>3, <1>4, <2>2, <2>3, ToldStep
  <1> QED
    BY <1>5, <1>6

LEMMA resumeStep == MirrorInv /\ resume => MirrorInv'
  <1> SUFFICES ASSUME MirrorInv, resume PROVE MirrorInv'
    OBVIOUS
  <1>1. PICK b : b = [blade EXCEPT !.body = IF blade.from = "site" THEN live ELSE served]
    OBVIOUS
  <1>2. told(b) /\ b.body # 0 /\ drops' \in 0..MaxDrops
    BY <1>1, FaultType DEF resume
  <1>3. blade \in BladeState /\ live \in Inode \cup {0} /\ served \in Version
    BY DEF MirrorInv, MirrorTypeOK
  <1>4. b \in BladeState /\ b.got = blade.got /\ b.from = blade.from
        /\ b.body = IF blade.from = "site" THEN live ELSE served
    BY <1>1, <1>3, Versions DEF BladeState, Inode
  <1>5. ~overlap => InPlace(b.got)
    BY <1>4 DEF MirrorInv, Alone
  <1> QED
    BY <1>2, <1>3, <1>4, <1>5, ToldStep

LEMMA resumeFailsStep == MirrorInv /\ resumeFails => MirrorInv'
  <1> SUFFICES ASSUME MirrorInv, resumeFails PROVE MirrorInv'
    OBVIOUS
  <1>1. PICK b : b = [blade EXCEPT !.at = "check", !.body = 0]
    OBVIOUS
  <1>2. told(b) /\ drops' \in 0..MaxDrops
    BY <1>1, FaultType DEF resumeFails
  <1>3. b \in BladeState /\ b.got = blade.got /\ b.at = "check"
    BY <1>1 DEF MirrorInv, MirrorTypeOK, BladeState
  <1>4. ~overlap => InPlace(b.got)
    BY <1>3 DEF MirrorInv, Alone
  <1> QED
    BY <1>2, <1>3, <1>4, ToldStep

\* The blade boots into the installer again.
LEMMA BootedStep ==
    ASSUME MirrorInv, told(NoBlade), drops' \in 0..MaxDrops
    PROVE  MirrorInv'
  <1>1. PICK b : b = NoBlade
    OBVIOUS
  <1>2. b \in BladeState /\ b.at # "reading" /\ InPlace(b.got) /\ told(b)
    BY <1>1, NoBladeType, EmptyStream
  <1> QED
    BY <1>2, ToldStep

LEMMA switchOnStep == MirrorInv /\ switchOn => MirrorInv'
  BY BootedStep DEF switchOn, MirrorInv, MirrorTypeOK

LEMMA powerCutStep == MirrorInv /\ powerCut => MirrorInv'
  BY BootedStep, FaultType DEF powerCut

LEMMA writeImageStep == MirrorInv /\ writeImage => MirrorInv'
  <1> SUFFICES ASSUME MirrorInv, writeImage PROVE MirrorInv'
    OBVIOUS
  <1>1. UNCHANGED <<served, cat, etag, state, stock, saved, ino, live, part, stamp, overlap, drops, stops>>
    BY DEF writeImage, centre, memory, files
  <1>2. blade' \in BladeState /\ blade'.at # "reading" /\ (~overlap => InPlace(blade'.got))
    <2>1. CASE blade' = [NoBlade EXCEPT !.at = "failed"]
      <3>1. blade' \in BladeState /\ blade'.at = "failed" /\ blade'.got = NoBlade.got
        BY <2>1, NoBladeType DEF BladeState
      <3> QED
        BY <3>1, NoBladeType, EmptyStream
    <2>2. CASE blade' = [blade EXCEPT !.at = "done", !.body = 0]
      <3>1. blade' \in BladeState /\ blade'.at = "done" /\ blade'.got = blade.got
        BY <2>2 DEF MirrorInv, MirrorTypeOK, BladeState
      <3> QED
        BY <3>1 DEF MirrorInv, Alone
    <2> QED
      BY <2>1, <2>2 DEF writeImage
  <1>3. BladeOK' /\ (~overlap' => InPlace(blade.got)')
    BY <1>1, <1>2 DEF BladeOK, InPlace
  <1>4. CASE UNCHANGED <<pass, refreshes>>
    <2>1. MirrorTypeOK'
      BY <1>1, <1>2, <1>4 DEF MirrorInv, MirrorTypeOK
    <2> QED
      BY <1>1, <1>3, <1>4, <2>1, SameSite DEF MirrorInv, Shape, Alone
  <1>5. CASE ~UNCHANGED <<pass, refreshes>>
    <2>1. PICK r : r = [NoPass EXCEPT !.at = "start"]
      OBVIOUS
    <2>2. r \in PassState /\ r.at = "start" /\ r.fd = 0
      BY <2>1, NoPassType DEF PassState
    <2>3. PICK p \in Pass : p = "refresh"
      BY DEF Pass
    <2>4. pass[p].at = "idle" /\ Set(p, r) /\ refreshes < MaxRefresh /\ refreshes' = refreshes + 1
      BY <1>5, <2>1, <2>3 DEF writeImage
    <2>5. pass \in [Pass -> PassState]
      BY DEF MirrorInv, MirrorTypeOK
    <2>6. pass' \in [Pass -> PassState] /\ pass'[p] = r /\ \A q \in Pass : q # p => pass'[q] = pass[q]
      BY <2>2, <2>4, <2>5, SetPass
    <2>7. refreshes' \in 0..MaxRefresh
      <3>1. refreshes \in 0..MaxRefresh /\ MaxRefresh \in Nat
        BY MirrorAssumption DEF MirrorInv, MirrorTypeOK
      <3> QED
        BY <2>4, <3>1
    <2>8. MirrorTypeOK'
      BY <1>1, <1>2, <2>6, <2>7 DEF MirrorInv, MirrorTypeOK
    <2>9. \A q \in Pass : \/ pass'[q].at = "start" /\ pass'[q].fd = 0 /\ pass[q].at = "idle"
                          \/ pass'[q] = pass[q]
      BY <2>2, <2>4, <2>6
    <2>10. Shape'
      <3>1. ASSUME NEW q \in Pass PROVE PassOK(q)'
        <4>1. PassOK(q)
          BY DEF MirrorInv, Shape
        <4> QED
          BY <1>1, <2>9, <4>1 DEF PassOK
      <3> QED
        BY <1>1, <1>3, <3>1 DEF MirrorInv, Shape, Apart
    <2>11. ASSUME ~overlap' PROVE Alone'
      <3>1. Alone
        BY <1>1, <2>11 DEF MirrorInv
      <3>2. \A q \in Pass : Active(q)' <=> Active(q)
        BY <2>9 DEF Active
      <3>3. Single'
        BY <3>1, <3>2 DEF Alone, Single
      <3>4. ASSUME NEW q \in Pass PROVE Stage(q)'
        <4>1. Stage(q)
          BY <3>1 DEF Alone
        <4> QED
          BY <1>1, <2>9, <4>1 DEF Stage
      <3>5. WholeImage' /\ (\A n \in Inode : InPlace(ino[n]))'
        BY <1>1, <3>1 DEF Alone, WholeImage, InPlace
      <3>6. (stops = 0 => Stamped /\ Ready)'
        <4>1. stops = 0 => Stamped /\ Ready
          BY <3>1 DEF Alone
        <4>2. \A q \in Pass : pass'[q].at = "stamped" <=> pass[q].at = "stamped"
          BY <2>9
        <4> QED
          BY <1>1, <3>2, <4>1, <4>2 DEF Stamped, Ready
      <3> QED
        BY <1>3, <2>11, <3>3, <3>4, <3>5, <3>6 DEF Alone
    <2> QED
      BY <2>8, <2>10, <2>11 DEF MirrorInv
  <1> QED
    BY <1>4, <1>5

-----------------------------------------------------------------------------
\* A pass.

\* The part of the invariant that is not about the pass that moves.
LEMMA PassMoves ==
    ASSUME MirrorInv, MirrorTypeOK', Apart', UNCHANGED blade, NEW p \in Pass, PassOK(p)',
           \A q \in Pass : q # p => PassOK(q)',
           ~overlap' => /\ Single'
                        /\ (\A n \in Inode : InPlace(ino[n]))'
                        /\ (\A q \in Pass : Stage(q))'
                        /\ WholeImage'
                        /\ (stops = 0 => Stamped /\ Ready)'
                        /\ ~overlap
    PROVE  MirrorInv'
  <1>1. BladeOK'
    BY DEF MirrorInv, Shape, BladeOK
  <1>2. ~overlap' => InPlace(blade.got)'
    BY DEF MirrorInv, Alone, InPlace
  <1> QED
    BY <1>1, <1>2 DEF MirrorInv, Shape, Alone

\* A pass that ends without anything new.
LEMMA ErrorStep ==
    ASSUME MirrorInv, NEW p \in Pass, Active(p), ~overlap => pass[p].at # "stamped",
           Ends(p, "error"), part' \in {part, 0}, drops' \in 0..MaxDrops,
           UNCHANGED <<served, cat, etag, state, saved, ino, live, stamp, blade, overlap, stops, refreshes>>
    PROVE  MirrorInv'
  <1>1. pass \in [Pass -> PassState] /\ Set(p, NoPass) /\ stock' = "error"
    BY DEF MirrorInv, MirrorTypeOK, Ends
  <1>2. pass' \in [Pass -> PassState] /\ pass'[p] = NoPass /\ \A q \in Pass : q # p => pass'[q] = pass[q]
    BY <1>1, NoPassType, SetPass
  <1>3. MirrorTypeOK'
    BY <1>1, <1>2 DEF MirrorInv, MirrorTypeOK
  <1>4. PassOK(p)'
    BY <1>2, NoPassType DEF PassOK
  <1>5. \A q \in Pass : q # p => PassOK(q)'
    BY <1>2 DEF MirrorInv, Shape, PassOK
  <1>6. Apart'
    BY DEF MirrorInv, Shape, Apart
  <1>7. ASSUME ~overlap' PROVE /\ Single'
                               /\ (\A n \in Inode : InPlace(ino[n]))'
                               /\ (\A q \in Pass : Stage(q))'
                               /\ WholeImage'
                               /\ (stops = 0 => Stamped /\ Ready)'
                               /\ ~overlap
    <2>1. ~overlap /\ Alone
      BY <1>7 DEF MirrorInv
    <2>2. \A q \in Pass : q # p => ~Active(q) /\ pass'[q] = pass[q]
      BY <1>2, <2>1, OthersAreIdle DEF Alone
    <2>3. Single' /\ (\A q \in Pass : q # p => Stage(q)' /\ pass[q].at # "stamped")
      BY <2>2, WorksAlone
    <2>4. Stage(p)'
      BY <1>2, NoPassType DEF Stage
    <2>5. WholeImage' /\ (\A n \in Inode : InPlace(ino[n]))'
      BY <2>1 DEF Alone, WholeImage, InPlace
    <2>6. (stops = 0 => Stamped /\ Ready)'
      <3>1. \A q \in Pass : pass[q].at # "stamped"
        BY <2>1, <2>3
      <3> QED
        BY <1>1, <2>1, <3>1 DEF Alone, Stamped, Ready
    <2> QED
      BY <2>1, <2>3, <2>4, <2>5, <2>6
  <1> QED
    BY <1>3, <1>4, <1>5, <1>6, <1>7, PassMoves

LEMMA refusedStep == ASSUME NEW p \in Pass PROVE MirrorInv /\ refused(p) => MirrorInv'
  <1> SUFFICES ASSUME MirrorInv, refused(p) PROVE MirrorInv'
    OBVIOUS
  <1>1. Active(p) /\ pass[p].at # "stamped" /\ Ends(p, "error")
    BY DEF refused, Active
  <1>2. UNCHANGED <<served, cat, etag, state, saved, ino, live, part, stamp, blade, overlap, drops, stops, refreshes>>
    BY DEF refused, centre, files
  <1>3. drops' \in 0..MaxDrops
    BY <1>2 DEF MirrorInv, MirrorTypeOK
  <1> QED
    BY <1>1, <1>2, <1>3, ErrorStep

LEMMA copyFailsStep == ASSUME NEW p \in Pass PROVE MirrorInv /\ copyFails(p) => MirrorInv'
  <1> SUFFICES ASSUME MirrorInv, copyFails(p) PROVE MirrorInv'
    OBVIOUS
  <1>1. Active(p) /\ pass[p].at # "stamped" /\ Ends(p, "error")
    BY DEF copyFails, Active
  <1>2. UNCHANGED <<served, cat, etag, state, saved, ino, live, part, stamp, blade, overlap, stops, refreshes>>
    BY DEF copyFails, centre, files
  <1>3. drops' \in 0..MaxDrops
    BY FaultType DEF copyFails
  <1> QED
    BY <1>1, <1>2, <1>3, ErrorStep

\* A restart: crash and nilDocument.
LEMMA RestartedStep ==
    ASSUME MirrorInv, Restarted, stops' \in 0..MaxStops,
           ~overlap /\ stops' = 0 => stops = 0 /\ \A q \in Pass : pass[q].at # "stamped"
    PROVE  MirrorInv'
  <1>1. UNCHANGED <<served, cat, saved, ino, live, part, stamp, overlap, drops, refreshes>>
        /\ etag' = 0 /\ state' = 0 /\ stock' = ""
    BY DEF Restarted, centre, files
  <1>2. pass' \in [Pass -> PassState] /\ \A q \in Pass : pass'[q] = NoPass
    BY NoPassType DEF Restarted
  <1>3. blade' \in BladeState /\ blade'.got = blade.got /\ (blade' = blade \/ blade'.at # "reading")
    BY DEF Restarted, MirrorInv, MirrorTypeOK, BladeState
  <1>4. MirrorTypeOK'
    BY <1>1, <1>2, <1>3 DEF MirrorInv, MirrorTypeOK
  <1>5. Shape'
    <2>1. BladeOK'
      BY <1>3 DEF MirrorInv, Shape, BladeOK
    <2>2. \A q \in Pass : PassOK(q)'
      BY <1>2, NoPassType DEF PassOK
    <2> QED
      BY <1>1, <2>1, <2>2 DEF MirrorInv, Shape, Apart
  <1>6. ASSUME ~overlap' PROVE Alone'
    <2>1. ~overlap /\ Alone
      BY <1>1, <1>6 DEF MirrorInv
    <2>2. Single' /\ \A q \in Pass : Stage(q)'
      BY <1>2, NoPassType DEF Single, Active, Stage
    <2>3. WholeImage' /\ (\A n \in Inode : InPlace(ino[n]))'
      BY <1>1, <2>1 DEF Alone, WholeImage, InPlace
    <2>4. InPlace(blade.got)'
      BY <1>3, <2>1 DEF Alone, InPlace
    <2>5. (stops = 0 => Stamped /\ Ready)'
      BY <1>1, <2>1 DEF Alone, Stamped, Ready
    <2> QED
      BY <2>2, <2>3, <2>4, <2>5 DEF Alone
  <1> QED
    BY <1>4, <1>5, <1>6 DEF MirrorInv

LEMMA crashStep == MirrorInv /\ crash => MirrorInv'
  <1> SUFFICES ASSUME MirrorInv, crash PROVE MirrorInv'
    OBVIOUS
  <1>1. stops \in 0..MaxStops /\ MaxStops \in Nat
    BY MirrorAssumption DEF MirrorInv, MirrorTypeOK
  <1>2. stops < MaxStops /\ stops' = stops + 1 /\ Restarted
    BY DEF crash
  <1>3. stops' \in 0..MaxStops /\ stops' # 0
    BY <1>1, <1>2
  <1> QED
    BY <1>2, <1>3, RestartedStep

LEMMA nilDocumentStep == ASSUME NEW p \in Pass PROVE MirrorInv /\ nilDocument(p) => MirrorInv'
  <1> SUFFICES ASSUME MirrorInv, nilDocument(p) PROVE MirrorInv'
    OBVIOUS
  <1>1. stops' = stops /\ stops \in 0..MaxStops /\ Restarted /\ pass[p].at = "fetched"
    BY DEF MirrorInv, MirrorTypeOK, nilDocument
  <1>2. ASSUME ~overlap PROVE \A q \in Pass : pass[q].at # "stamped"
    BY <1>1, <1>2, OthersAreIdle DEF MirrorInv, Alone, Active
  <1> QED
    BY <1>1, <1>2, RestartedStep

\* A pass that starts while the other one is not under way.
LEMMA StartsAlone ==
    ASSUME MirrorInv, NEW p \in Pass, Starts(p), ~overlap'
    PROVE  /\ ~overlap /\ Alone /\ ~Active(p)
           /\ \A q \in Pass : q # p => ~Active(q)
           /\ \A q \in Pass : pass[q].at # "stamped"
  BY DEF MirrorInv, Starts, Active

LEMMA fetchStep == ASSUME NEW p \in Pass PROVE MirrorInv /\ fetch(p) => MirrorInv'
  <1> SUFFICES ASSUME MirrorInv, fetch(p) PROVE MirrorInv'
    OBVIOUS
  <1>1. UNCHANGED <<served, cat, state, stock, saved, ino, live, part, stamp, blade, drops, stops, refreshes>>
        /\ etag' = cat /\ Starts(p)
    BY DEF fetch, centre, files
  <1>2. PICK r : r = [NoPass EXCEPT !.at = "fetched", !.changed = (etag # cat),
                                    !.doc = IF etag = cat THEN state ELSE cat]
    OBVIOUS
  <1>3. r \in PassState /\ r.at = "fetched" /\ r.fd = 0
    <2>1. {state, cat} \subseteq Version \cup {0} /\ (etag # cat) \in BOOLEAN
      BY DEF MirrorInv, MirrorTypeOK
    <2> QED
      BY <1>2, <2>1, NoPassType DEF PassState
  <1>4. pass \in [Pass -> PassState] /\ Set(p, r)
    BY <1>2 DEF MirrorInv, MirrorTypeOK, fetch
  <1>5. pass' \in [Pass -> PassState] /\ pass'[p] = r /\ \A q \in Pass : q # p => pass'[q] = pass[q]
    BY <1>3, <1>4, SetPass
  <1>6. overlap' \in BOOLEAN
    BY <1>1 DEF Starts, MirrorInv, MirrorTypeOK
  <1>7. MirrorTypeOK'
    BY <1>1, <1>5, <1>6 DEF MirrorInv, MirrorTypeOK
  <1>8. PassOK(p)' /\ Apart' /\ \A q \in Pass : q # p => PassOK(q)'
    BY <1>1, <1>3, <1>5 DEF MirrorInv, Shape, PassOK, Apart
  <1>9. ASSUME ~overlap' PROVE /\ Single'
                               /\ (\A n \in Inode : InPlace(ino[n]))'
                               /\ (\A q \in Pass : Stage(q))'
                               /\ WholeImage'
                               /\ (stops = 0 => Stamped /\ Ready)'
                               /\ ~overlap
    <2>1. ~overlap /\ Alone /\ (\A q \in Pass : q # p => ~Active(q)) /\ \A q \in Pass : pass[q].at # "stamped"
      BY <1>1, <1>9, StartsAlone
    <2>2. Single' /\ (\A q \in Pass : q # p => Stage(q)')
      BY <1>5, <2>1, WorksAlone
    <2>3. Stage(p)' /\ Active(p)'
      BY <1>3, <1>5 DEF Stage, Active
    <2>4. WholeImage' /\ (\A n \in Inode : InPlace(ino[n]))'
      BY <1>1, <2>1 DEF Alone, WholeImage, InPlace
    <2>5. (stops = 0 => Stamped /\ Ready)'
      BY <1>1, <2>1, <2>3 DEF Alone, Stamped, Ready
    <2> QED
      BY <2>1, <2>2, <2>3, <2>4, <2>5
  <1> QED
    BY <1>1, <1>7, <1>8, <1>9, PassMoves

LEMMA fetchFailsStep == ASSUME NEW p \in Pass PROVE MirrorInv /\ fetchFails(p) => MirrorInv'
  <1> SUFFICES ASSUME MirrorInv, fetchFails(p) PROVE MirrorInv'
    OBVIOUS
  <1>1. PICK d : d = IF state # 0 THEN state ELSE saved
    OBVIOUS
  <1>2. UNCHANGED <<served, cat, etag, stock, saved, ino, live, part, stamp, blade, stops, refreshes>>
        /\ state' = d /\ Starts(p)
    BY <1>1 DEF fetchFails, centre, files
  <1>3. drops' \in 0..MaxDrops /\ overlap' \in BOOLEAN
    BY FaultType DEF fetchFails, Starts, MirrorInv, MirrorTypeOK
  <1>4. PICK r : r = IF d = 0 THEN NoPass ELSE [NoPass EXCEPT !.at = "look", !.doc = d]
    OBVIOUS
  <1>5. d \in Version \cup {0}
    BY <1>1 DEF MirrorInv, MirrorTypeOK
  <1>6. r \in PassState /\ r.fd = 0 /\ (d = 0 => r.at = "idle") /\ (d # 0 => r.at = "look" /\ r.doc = d)
    BY <1>4, <1>5, NoPassType DEF PassState
  <1>7. pass \in [Pass -> PassState] /\ Set(p, r)
    BY <1>1, <1>4 DEF MirrorInv, MirrorTypeOK, fetchFails
  <1>8. pass' \in [Pass -> PassState] /\ pass'[p] = r /\ \A q \in Pass : q # p => pass'[q] = pass[q]
    BY <1>6, <1>7, SetPass
  <1>9. MirrorTypeOK'
    BY <1>2, <1>3, <1>5, <1>8 DEF MirrorInv, MirrorTypeOK
  <1>10. PassOK(p)' /\ Apart' /\ \A q \in Pass : q # p => PassOK(q)'
    BY <1>2, <1>5, <1>6, <1>8 DEF MirrorInv, Shape, PassOK, Apart
  <1>11. ASSUME ~overlap' PROVE /\ Single'
                                /\ (\A n \in Inode : InPlace(ino[n]))'
                                /\ (\A q \in Pass : Stage(q))'
                                /\ WholeImage'
                                /\ (stops = 0 => Stamped /\ Ready)'
                                /\ ~overlap
    <2>1. ~overlap /\ Alone /\ ~Active(p) /\ (\A q \in Pass : q # p => ~Active(q))
          /\ \A q \in Pass : pass[q].at # "stamped"
      BY <1>2, <1>11, StartsAlone
    <2>2. Single' /\ (\A q \in Pass : q # p => Stage(q)')
      BY <1>8, <2>1, WorksAlone
    <2>3. Stage(p)' /\ (d # 0 => Active(p)')
      BY <1>2, <1>6, <1>8 DEF Stage, Active
    <2>4. WholeImage' /\ (\A n \in Inode : InPlace(ino[n]))'
      BY <1>2, <2>1 DEF Alone, WholeImage, InPlace
    <2>5. (stops = 0 => Stamped)'
      BY <1>2, <2>1 DEF Alone, Stamped
    <2>6. (stops = 0 => Ready)'
      <3>1. CASE d # 0
        BY <2>3, <3>1 DEF Ready
      <3>2. CASE d = 0
        \* A site that said "ready" works from a document, and keeps it.
        BY <1>1, <1>2, <2>1, <3>2, Versions DEF Alone, Ready
      <3> QED
        BY <3>1, <3>2
    <2> QED
      BY <2>1, <2>2, <2>3, <2>4, <2>5, <2>6
  <1> QED
    BY <1>2, <1>9, <1>10, <1>11, PassMoves

LEMMA setStateStep == ASSUME NEW p \in Pass PROVE MirrorInv /\ setState(p) => MirrorInv'
  <1> SUFFICES ASSUME MirrorInv, setState(p) PROVE MirrorInv'
    OBVIOUS
  <1>1. UNCHANGED <<served, cat, etag, stock, ino, live, part, stamp, blade, drops, overlap, stops, refreshes>>
        /\ state' = pass[p].doc /\ saved' \in {pass[p].doc, saved}
        /\ pass[p].at = "fetched" /\ pass[p].doc # 0
    BY DEF setState, centre
  <1>2. PICK r : r = [pass[p] EXCEPT !.at = "look", !.changed = FALSE]
    OBVIOUS
  <1>3. pass \in [Pass -> PassState] /\ Set(p, r)
    BY <1>2 DEF MirrorInv, MirrorTypeOK, setState
  <1>4. pass[p] \in PassState /\ pass[p].doc \in Version
    BY <1>1, <1>3 DEF PassState
  <1>5. r \in PassState /\ r.at = "look" /\ r.doc = pass[p].doc /\ r.fd = pass[p].fd
    BY <1>2, <1>4 DEF PassState
  <1>6. pass' \in [Pass -> PassState] /\ pass'[p] = r /\ \A q \in Pass : q # p => pass'[q] = pass[q]
    BY <1>3, <1>5, SetPass
  <1>7. MirrorTypeOK'
    BY <1>1, <1>4, <1>6 DEF MirrorInv, MirrorTypeOK
  <1>8. PassOK(p)' /\ Apart' /\ \A q \in Pass : q # p => PassOK(q)'
    BY <1>1, <1>4, <1>5, <1>6 DEF MirrorInv, Shape, PassOK, Apart
  <1>9. ASSUME ~overlap' PROVE /\ Single'
                               /\ (\A n \in Inode : InPlace(ino[n]))'
                               /\ (\A q \in Pass : Stage(q))'
                               /\ WholeImage'
                               /\ (stops = 0 => Stamped /\ Ready)'
                               /\ ~overlap
    <2>1. ~overlap /\ Alone
      BY <1>1, <1>9 DEF MirrorInv
    <2>2. \A q \in Pass : q # p => ~Active(q) /\ pass'[q] = pass[q]
      BY <1>1, <1>6, <2>1, OthersAreIdle DEF Alone, Active
    <2>3. Single' /\ (\A q \in Pass : q # p => Stage(q)' /\ pass[q].at # "stamped")
      BY <2>2, WorksAlone
    <2>4. Stage(p)' /\ Active(p)'
      BY <1>1, <1>5, <1>6 DEF Stage, Active
    <2>5. WholeImage' /\ (\A n \in Inode : InPlace(ino[n]))'
      BY <1>1, <2>1 DEF Alone, WholeImage, InPlace
    <2>6. (stops = 0 => Stamped /\ Ready)'
      BY <1>1, <2>1, <2>3, <2>4 DEF Alone, Stamped, Ready
    <2> QED
      BY <2>1, <2>3, <2>4, <2>5, <2>6
  <1> QED
    BY <1>1, <1>7, <1>8, <1>9, PassMoves

LEMMA haveImageStep == ASSUME NEW p \in Pass PROVE MirrorInv /\ haveImage(p) => MirrorInv'
  <1> SUFFICES ASSUME MirrorInv, haveImage(p) PROVE MirrorInv'
    OBVIOUS
  <1>1. UNCHANGED <<served, cat, etag, state, saved, ino, live, part, blade, drops, overlap, stops, refreshes>>
        /\ stamp' = pass[p].doc /\ stock' = "ready" /\ Set(p, NoPass)
        /\ pass[p].at = "look" /\ Have(pass[p].doc)
    BY DEF haveImage, centre, Ends
  <1>2. pass \in [Pass -> PassState] /\ pass[p].doc \in Version
    BY <1>1 DEF MirrorInv, MirrorTypeOK, Shape, PassOK
  <1>3. pass' \in [Pass -> PassState] /\ pass'[p] = NoPass /\ \A q \in Pass : q # p => pass'[q] = pass[q]
    BY <1>1, <1>2, NoPassType, SetPass
  <1>4. MirrorTypeOK'
    BY <1>1, <1>2, <1>3 DEF MirrorInv, MirrorTypeOK
  <1>5. PassOK(p)' /\ Apart' /\ \A q \in Pass : q # p => PassOK(q)'
    BY <1>1, <1>3, NoPassType DEF MirrorInv, Shape, PassOK, Apart
  <1>6. ASSUME ~overlap' PROVE /\ Single'
                               /\ (\A n \in Inode : InPlace(ino[n]))'
                               /\ (\A q \in Pass : Stage(q))'
                               /\ WholeImage'
                               /\ (stops = 0 => Stamped /\ Ready)'
                               /\ ~overlap
    <2>1. ~overlap /\ Alone
      BY <1>1, <1>6 DEF MirrorInv
    <2>2. \A q \in Pass : q # p => ~Active(q) /\ pass'[q] = pass[q]
      BY <1>1, <1>3, <2>1, OthersAreIdle DEF Alone, Active
    <2>3. Single' /\ (\A q \in Pass : q # p => Stage(q)' /\ pass[q].at # "stamped")
      BY <2>2, WorksAlone
    <2>4. Stage(p)'
      BY <1>3, NoPassType DEF Stage
    <2>5. WholeImage' /\ (\A n \in Inode : InPlace(ino[n]))'
      BY <1>1, <2>1 DEF Alone, WholeImage, InPlace
    <2>6. (stops = 0 => Stamped /\ Ready)'
      <3>1. SUFFICES ASSUME stops = 0
                     PROVE  live # 0 /\ pass[p].doc # 0 /\ state = pass[p].doc /\ ino[live] = Full(pass[p].doc)
        BY <1>1 DEF Stamped, Ready
      <3>2. \A q \in Pass : pass[q].at # "stamped"
        BY <1>1, <2>3
      <3>3. state = pass[p].doc
        BY <1>1, <2>1 DEF Alone, Stage
      <3>4. pass[p].doc # 0
        BY <1>2, Versions
      <3> QED
        BY <1>1, <2>1, <3>1, <3>2, <3>3, <3>4 DEF Have, SizeFits, Alone, Stamped
    <2> QED
      BY <2>1, <2>3, <2>4, <2>5, <2>6
  <1> QED
    BY <1>1, <1>4, <1>5, <1>6, PassMoves

LEMMA verifyStep == ASSUME NEW p \in Pass PROVE MirrorInv /\ verify(p) => MirrorInv'
  <1> SUFFICES ASSUME MirrorInv, verify(p) PROVE MirrorInv'
    OBVIOUS
  <1>1. UNCHANGED <<served, cat, etag, state, saved, ino, live, blade, drops, overlap, stops, refreshes>>
        /\ pass[p].at = "copy"
    BY DEF verify, centre
  <1>2. CASE ~(part # 0 /\ ino[part] = Full(pass[p].doc))
    <2>1. part' = 0 /\ stamp' = stamp /\ Ends(p, "error")
      BY <1>2 DEF verify
    <2>2. drops' \in 0..MaxDrops
      BY <1>1 DEF MirrorInv, MirrorTypeOK
    <2>3. Active(p) /\ pass[p].at # "stamped"
      BY <1>1 DEF Active
    <2> QED
      BY <1>1, <2>1, <2>2, <2>3, ErrorStep
  <1>3. CASE part # 0 /\ ino[part] = Full(pass[p].doc)
    <2>1. PICK r : r = [pass[p] EXCEPT !.at = "stamped"]
      OBVIOUS
    <2>2. stamp' = pass[p].doc /\ Set(p, r) /\ part' = part /\ stock' = stock
      BY <1>3, <2>1 DEF verify
    <2>3. pass \in [Pass -> PassState] /\ pass[p] \in PassState /\ pass[p].doc \in Version /\ pass[p].fd # 0
      BY <1>1 DEF MirrorInv, MirrorTypeOK, Shape, PassOK
    <2>4. r \in PassState /\ r.at = "stamped" /\ r.doc = pass[p].doc /\ r.fd = pass[p].fd
      BY <2>1, <2>3 DEF PassState
    <2>5. pass' \in [Pass -> PassState] /\ pass'[p] = r /\ \A q \in Pass : q # p => pass'[q] = pass[q]
      BY <2>2, <2>3, <2>4, SetPass
    <2>6. MirrorTypeOK'
      BY <1>1, <2>2, <2>3, <2>5 DEF MirrorInv, MirrorTypeOK
    <2>7. PassOK(p)' /\ Apart' /\ \A q \in Pass : q # p => PassOK(q)'
      BY <1>1, <2>2, <2>3, <2>4, <2>5 DEF MirrorInv, Shape, PassOK, Apart
    <2>8. ASSUME ~overlap' PROVE /\ Single'
                                 /\ (\A n \in Inode : InPlace(ino[n]))'
                                 /\ (\A q \in Pass : Stage(q))'
                                 /\ WholeImage'
                                 /\ (stops = 0 => Stamped /\ Ready)'
                                 /\ ~overlap
      <3>1. ~overlap /\ Alone
        BY <1>1, <2>8 DEF MirrorInv
      <3>2. \A q \in Pass : q # p => ~Active(q) /\ pass'[q] = pass[q]
        BY <1>1, <2>5, <3>1, OthersAreIdle DEF Alone, Active
      <3>3. Single' /\ (\A q \in Pass : q # p => Stage(q)')
        BY <3>2, WorksAlone
      <3>4. Stage(p)' /\ Active(p)' /\ pass'[p].at = "stamped"
        BY <1>1, <1>3, <2>2, <2>4, <2>5, <3>1 DEF Stage, Active, Alone
      <3>5. WholeImage' /\ (\A n \in Inode : InPlace(ino[n]))'
        BY <1>1, <3>1 DEF Alone, WholeImage, InPlace
      <3>6. (stops = 0 => Stamped /\ Ready)'
        BY <3>4 DEF Stamped, Ready
      <3> QED
        BY <3>1, <3>3, <3>4, <3>5, <3>6
    <2> QED
      BY <1>1, <2>6, <2>7, <2>8, PassMoves
  <1> QED
    BY <1>2, <1>3

LEMMA renameStep == ASSUME NEW p \in Pass PROVE MirrorInv /\ rename(p) => MirrorInv'
  <1> SUFFICES ASSUME MirrorInv, rename(p) PROVE MirrorInv'
    OBVIOUS
  <1>1. UNCHANGED <<served, cat, etag, state, saved, ino, stamp, blade, drops, overlap, stops, refreshes>>
        /\ pass[p].at = "stamped"
    BY DEF rename, centre
  <1>2. CASE part = 0
    <2>1. live' = live /\ part' = part /\ Ends(p, "error")
      BY <1>2 DEF rename
    <2>2. drops' \in 0..MaxDrops
      BY <1>1 DEF MirrorInv, MirrorTypeOK
    <2>3. Active(p) /\ overlap
      BY <1>1, <1>2 DEF Active, MirrorInv, Alone, Stage
    <2> QED
      BY <1>1, <2>1, <2>2, <2>3, ErrorStep
  <1>3. CASE part # 0
    <2>1. live' = part /\ part' = 0 /\ stock' = "ready" /\ Set(p, NoPass)
      BY <1>3 DEF rename, Ends
    <2>2. pass \in [Pass -> PassState] /\ pass[p].doc \in Version
      BY <1>1 DEF MirrorInv, MirrorTypeOK, Shape, PassOK
    <2>3. pass' \in [Pass -> PassState] /\ pass'[p] = NoPass /\ \A q \in Pass : q # p => pass'[q] = pass[q]
      BY <2>1, <2>2, NoPassType, SetPass
    <2>4. MirrorTypeOK'
      BY <1>1, <2>1, <2>3 DEF MirrorInv, MirrorTypeOK
    <2>5. PassOK(p)' /\ Apart' /\ \A q \in Pass : q # p => PassOK(q)'
      BY <1>1, <1>3, <2>1, <2>3, NoPassType DEF MirrorInv, Shape, PassOK, Apart
    <2>6. ASSUME ~overlap' PROVE /\ Single'
                                 /\ (\A n \in Inode : InPlace(ino[n]))'
                                 /\ (\A q \in Pass : Stage(q))'
                                 /\ WholeImage'
                                 /\ (stops = 0 => Stamped /\ Ready)'
                                 /\ ~overlap
      <3>1. ~overlap /\ Alone
        BY <1>1, <2>6 DEF MirrorInv
      <3>2. \A q \in Pass : q # p => ~Active(q) /\ pass'[q] = pass[q]
        BY <1>1, <2>3, <3>1, OthersAreIdle DEF Alone, Active
      <3>3. Single' /\ (\A q \in Pass : q # p => Stage(q)')
        BY <3>2, WorksAlone
      <3>4. Stage(p)'
        BY <2>3, NoPassType DEF Stage
      <3>5. stamp = pass[p].doc /\ state = pass[p].doc /\ ino[part] = Full(pass[p].doc) /\ pass[p].doc # 0
        BY <1>1, <2>2, <3>1, Versions DEF Alone, Stage
      <3>6. WholeImage' /\ (\A n \in Inode : InPlace(ino[n]))'
        BY <1>1, <2>1, <2>2, <3>1, <3>5 DEF Alone, WholeImage, InPlace
      <3>7. (stops = 0 => Stamped /\ Ready)'
        BY <1>1, <1>3, <2>1, <3>5 DEF Stamped, Ready
      <3> QED
        BY <3>1, <3>3, <3>4, <3>6, <3>7
    <2> QED
      BY <1>1, <2>4, <2>5, <2>6, PassMoves
  <1> QED
    BY <1>2, <1>3

LEMMA openPartStep == ASSUME NEW p \in Pass PROVE MirrorInv /\ openPart(p) => MirrorInv'
  <1> SUFFICES ASSUME MirrorInv, openPart(p) PROVE MirrorInv'
    OBVIOUS
  <1>1. PICK from : from = IF part = 0 THEN 0 ELSE Len(ino[part])
    OBVIOUS
  <1>2. PICK n : n = IF part = 0 THEN Fresh ELSE part
    OBVIOUS
  <1>3. PICK r : r = [pass[p] EXCEPT !.at = "copy", !.fd = n, !.appends = (from > 0),
                                     !.body = served, !.next = from + 1]
    OBVIOUS
  <1>4. UNCHANGED <<served, cat, etag, state, stock, saved, live, stamp, blade, drops, overlap, stops, refreshes>>
        /\ pass[p].at = "look" /\ part' = n /\ Set(p, r)
        /\ ino' = IF from = 0 THEN [ino EXCEPT ![n] = <<>>] ELSE ino
    BY <1>1, <1>2, <1>3 DEF openPart, centre, memory
  <1>5. /\ pass \in [Pass -> PassState] /\ pass[p] \in PassState /\ pass[p].fd = 0 /\ pass[p].doc \in Version
        /\ ino \in [Inode -> Seq(Piece)] /\ part \in Inode \cup {0} /\ served \in Version
    BY <1>4 DEF MirrorInv, MirrorTypeOK, Shape, PassOK
  <1>6. n \in Inode /\ n # 0 /\ n # live /\ \A q \in Pass : n = pass[q].fd => part # 0
    <2>1. CASE part = 0
      BY <1>2, <1>5, <2>1, FreshInode DEF MirrorInv, Inode
    <2>2. CASE part # 0
      BY <1>2, <1>5, <2>2 DEF MirrorInv, Shape, Apart, Inode
    <2> QED
      BY <2>1, <2>2
  <1>7. from \in Nat
    BY <1>1, <1>5
  <1>8. /\ r \in PassState /\ r.at = "copy" /\ r.doc = pass[p].doc /\ r.fd = n
        /\ r.appends = (from > 0) /\ r.body = served /\ r.next = from + 1
    <2>1. (from > 0) \in BOOLEAN /\ from + 1 \in Nat
      BY <1>7
    <2> QED
      BY <1>3, <1>5, <1>6, <2>1 DEF PassState
  <1>9. pass' \in [Pass -> PassState] /\ pass'[p] = r /\ \A q \in Pass : q # p => pass'[q] = pass[q]
    BY <1>4, <1>5, <1>8, SetPass
  <1>10. ino' \in [Inode -> Seq(Piece)] /\ (from = 0 => ino'[n] = <<>>)
         /\ \A m \in Inode : ino'[m] = ino[m] \/ (m = n /\ from = 0)
    BY <1>4, <1>5, <1>6, EmptyStream
  <1>11. MirrorTypeOK'
    BY <1>4, <1>6, <1>9, <1>10 DEF MirrorInv, MirrorTypeOK
  <1>12. Len(ino'[n]) = from
    BY <1>1, <1>2, <1>4, <1>10
  <1>13. PassOK(p)'
    BY <1>5, <1>6, <1>7, <1>8, <1>9, <1>12 DEF PassOK
  <1>14. ASSUME NEW q \in Pass, q # p PROVE PassOK(q)'
    <2>1. PassOK(q)
      BY DEF MirrorInv, Shape
    <2>2. pass[q].fd # 0 => pass[q].fd \in Inode
      BY <1>5 DEF PassState
    <2>3. pass[q].fd # 0 => Len(ino'[pass[q].fd]) = Len(ino[pass[q].fd])
      <3>1. CASE pass[q].fd = n
        BY <1>1, <1>2, <1>6, <1>12, <3>1
      <3>2. CASE pass[q].fd # n
        BY <1>10, <2>2, <3>2
      <3> QED
        BY <3>1, <3>2
    <2> QED
      BY <1>9, <1>14, <2>1, <2>3 DEF PassOK
  <1>15. Apart'
    BY <1>4, <1>6 DEF Apart
  <1>16. ASSUME ~overlap' PROVE /\ Single'
                                /\ (\A m \in Inode : InPlace(ino[m]))'
                                /\ (\A q \in Pass : Stage(q))'
                                /\ WholeImage'
                                /\ (stops = 0 => Stamped /\ Ready)'
                                /\ ~overlap
    <2>1. ~overlap /\ Alone
      BY <1>4, <1>16 DEF MirrorInv
    <2>2. \A q \in Pass : q # p => ~Active(q) /\ pass'[q] = pass[q]
      BY <1>4, <1>9, <2>1, OthersAreIdle DEF Alone, Active
    <2>3. Single' /\ (\A q \in Pass : q # p => Stage(q)' /\ pass[q].at # "stamped")
      BY <2>2, WorksAlone
    <2>4. Stage(p)' /\ Active(p)'
      <3>1. state = pass[p].doc
        BY <1>4, <2>1 DEF Alone, Stage
      <3> QED
        BY <1>4, <1>8, <1>9, <1>12, <3>1 DEF Stage, Active
    <2>5. live # 0 => ino'[live] = ino[live]
      <3>1. live \in Inode \cup {0}
        BY DEF MirrorInv, MirrorTypeOK
      <3> QED
        BY <1>6, <1>10, <3>1
    <2>6. WholeImage'
      BY <1>4, <2>1, <2>5 DEF Alone, WholeImage
    <2>7. ASSUME NEW m \in Inode PROVE InPlace(ino'[m])
      <3>1. InPlace(ino[m])
        BY <2>1 DEF Alone
      <3> QED
        BY <1>10, <3>1, EmptyStream
    <2>8. (stops = 0 => Stamped /\ Ready)'
      BY <1>4, <2>1, <2>3, <2>4, <2>5 DEF Alone, Stamped, Ready
    <2> QED
      BY <2>1, <2>3, <2>4, <2>6, <2>7, <2>8
  <1> QED
    BY <1>4, <1>11, <1>13, <1>14, <1>15, <1>16, PassMoves

LEMMA copyStep == ASSUME NEW p \in Pass PROVE MirrorInv /\ copy(p) => MirrorInv'
  <1> SUFFICES ASSUME MirrorInv, copy(p) PROVE MirrorInv'
    OBVIOUS
  <1>1. PICK f : f = pass[p].fd
    OBVIOUS
  <1>2. PICK c : c = <<pass[p].body, pass[p].next>>
    OBVIOUS
  <1>3. PICK t : t = IF pass[p].appends THEN Append(ino[f], c) ELSE At(ino[f], pass[p].next, c)
    OBVIOUS
  <1>4. PICK r : r = [pass[p] EXCEPT !.next = @ + 1]
    OBVIOUS
  <1>5. /\ pass \in [Pass -> PassState] /\ pass[p] \in PassState /\ pass[p].at = "copy"
        /\ pass[p].doc \in Version /\ pass[p].body \in Version /\ pass[p].next \in Nat
        /\ ino \in [Inode -> Seq(Piece)] /\ f \in Inode
    <2>1. pass \in [Pass -> PassState] /\ ino \in [Inode -> Seq(Piece)] /\ pass[p].at = "copy" /\ PassOK(p)
      BY DEF copy, MirrorInv, MirrorTypeOK, Shape
    <2>2. pass[p] \in PassState
      BY <2>1
    <2> QED
      BY <1>1, <2>1, <2>2 DEF PassOK, PassState
  <1>6. UNCHANGED <<served, cat, etag, state, stock, saved, live, part, stamp, blade, drops, overlap, stops, refreshes>>
        /\ ino' = [ino EXCEPT ![f] = t] /\ Set(p, r)
    BY <1>1, <1>2, <1>3, <1>4, <1>5 DEF copy, centre, memory
  <1>7. ino[f] \in Seq(Piece) /\ c \in Piece /\ c[2] = pass[p].next
    BY <1>2, <1>5 DEF Piece
  <1>8. /\ t \in Seq(Piece) /\ Len(t) >= Len(ino[f])
        /\ ~pass[p].appends => pass[p].next \in Nat \ {0} /\ Len(t) >= pass[p].next
        /\ pass[p].next = Len(ino[f]) + 1 => t = Append(ino[f], c)
    <2>1. CASE pass[p].appends
      BY <1>3, <1>7, <2>1
    <2>2. CASE ~pass[p].appends
      <3>1. pass[p].next \in 1..(Len(ino[f]) + 1)
        BY <1>1, <1>5, <2>2 DEF MirrorInv, Shape, PassOK
      <3>2. t = At(ino[f], pass[p].next, c)
        BY <1>3, <2>2
      <3>3. /\ t \in Seq(Piece) /\ Len(t) >= Len(ino[f]) /\ Len(t) >= pass[p].next
            /\ pass[p].next = Len(ino[f]) + 1 => t = Append(ino[f], c)
        BY ONLY <1>7, <3>1, <3>2, WriteAt
      <3>4. pass[p].next \in Nat \ {0}
        BY ONLY <1>7, <3>1
      <3> QED
        BY <3>3, <3>4
    <2> QED
      BY <2>1, <2>2
  <1>9. /\ r \in PassState /\ r.at = "copy" /\ r.doc = pass[p].doc /\ r.fd = f /\ r.body = pass[p].body
        /\ r.appends = pass[p].appends /\ r.next = pass[p].next + 1
    BY <1>1, <1>4, <1>5 DEF PassState
  <1>10. pass' \in [Pass -> PassState] /\ pass'[p] = r /\ \A q \in Pass : q # p => pass'[q] = pass[q]
    BY <1>5, <1>6, <1>9, SetPass
  <1>11. ino' \in [Inode -> Seq(Piece)] /\ ino'[f] = t /\ \A m \in Inode : m # f => ino'[m] = ino[m]
    BY <1>5, <1>6, <1>8
  <1>12. MirrorTypeOK'
    BY <1>6, <1>10, <1>11 DEF MirrorInv, MirrorTypeOK
  <1>13. PassOK(p)'
    <2>1. f # 0 /\ Len(t) \in Nat
      BY <1>5, <1>8 DEF Inode
    <2>2. ~pass[p].appends => pass[p].next + 1 \in 1..(Len(t) + 1)
      BY <1>8, <2>1
    <2> QED
      BY <1>5, <1>9, <1>10, <1>11, <2>1, <2>2 DEF PassOK
  <1>14. ASSUME NEW q \in Pass, q # p PROVE PassOK(q)'
    <2>1. PassOK(q)
      BY DEF MirrorInv, Shape
    <2>2. pass[q].fd # 0 => pass[q].fd \in Inode
      BY <1>5 DEF PassState
    <2>3. pass[q].fd # 0 => /\ Len(ino'[pass[q].fd]) >= Len(ino[pass[q].fd])
                            /\ Len(ino'[pass[q].fd]) \in Nat /\ Len(ino[pass[q].fd]) \in Nat
      <3>1. CASE pass[q].fd = f
        BY <1>7, <1>8, <1>11, <3>1
      <3>2. CASE pass[q].fd # f
        BY <1>5, <1>11, <2>2, <3>2
      <3> QED
        BY <3>1, <3>2
    <2>4. pass[q].at = "copy" /\ ~pass[q].appends => pass[q].next \in 1..(Len(ino'[pass[q].fd]) + 1)
      BY <2>1, <2>3 DEF PassOK
    <2> QED
      BY <1>10, <1>14, <2>1, <2>4 DEF PassOK
  <1>15. Apart'
    BY <1>6 DEF MirrorInv, Shape, Apart
  <1>16. ASSUME ~overlap' PROVE /\ Single'
                                /\ (\A m \in Inode : InPlace(ino[m]))'
                                /\ (\A q \in Pass : Stage(q))'
                                /\ WholeImage'
                                /\ (stops = 0 => Stamped /\ Ready)'
                                /\ ~overlap
    <2>1. ~overlap /\ Alone
      BY <1>6, <1>16 DEF MirrorInv
    <2>2. \A q \in Pass : q # p => ~Active(q) /\ pass'[q] = pass[q]
      BY <1>5, <1>10, <2>1, OthersAreIdle DEF Alone, Active
    <2>3. Single' /\ (\A q \in Pass : q # p => Stage(q)' /\ pass[q].at # "stamped")
      BY <2>2, WorksAlone
    <2>4. f = part /\ pass[p].next = Len(ino[f]) + 1 /\ state = pass[p].doc
      BY <1>1, <1>5, <2>1 DEF Alone, Stage
    <2>5. t = Append(ino[f], c) /\ Len(t) = Len(ino[f]) + 1
      BY <1>7, <1>8, <2>4
    <2>6. Stage(p)' /\ Active(p)'
      BY <1>6, <1>9, <1>10, <1>11, <2>4, <2>5 DEF Stage, Active
    <2>7. live # 0 => ino'[live] = ino[live]
      <3>1. live \in Inode \cup {0} /\ (live # 0 => live # f)
        BY <2>4 DEF MirrorInv, MirrorTypeOK, Shape, Apart
      <3> QED
        BY <1>11, <3>1
    <2>8. WholeImage'
      BY <1>6, <2>1, <2>7 DEF Alone, WholeImage
    <2>9. ASSUME NEW m \in Inode PROVE InPlace(ino'[m])
      <3>1. InPlace(ino[m]) /\ InPlace(ino[f])
        BY <1>5, <2>1 DEF Alone
      <3>2. InPlace(t)
        BY <1>7, <2>4, <2>5, <3>1, AppendInPlace
      <3> QED
        BY <1>11, <3>1, <3>2
    <2>10. (stops = 0 => Stamped /\ Ready)'
      BY <1>5, <1>6, <2>1, <2>3, <2>6, <2>7 DEF Alone, Stamped, Ready
    <2> QED
      BY <2>1, <2>3, <2>6, <2>8, <2>9, <2>10
  <1> QED
    BY <1>6, <1>12, <1>13, <1>14, <1>15, <1>16, PassMoves

-----------------------------------------------------------------------------
LEMMA MirrorInitially == MirrorInit => MirrorInv
  <1> SUFFICES ASSUME MirrorInit PROVE MirrorInv
    OBVIOUS
  <1>1. MirrorTypeOK
    <2>1. ino \in [Inode -> Seq(Piece)] /\ pass \in [Pass -> PassState] /\ blade \in BladeState
      BY EmptyStream, NoPassType, NoBladeType DEF MirrorInit
    <2>2. 0 \in 0..MaxDrops /\ 0 \in 0..MaxStops /\ 0 \in 0..MaxRefresh
      BY MirrorAssumption
    <2> QED
      BY <2>1, <2>2, Versions DEF MirrorInit, MirrorTypeOK
  <1>2. \A p \in Pass : pass[p] = NoPass
    BY DEF MirrorInit
  <1>3. Shape
    BY <1>2, NoPassType, NoBladeType DEF MirrorInit, Shape, PassOK, BladeOK, Apart
  <1>4. Single /\ \A p \in Pass : Stage(p)
    BY <1>2, NoPassType DEF Single, Active, Stage
  <1>5. InPlace(blade.got) /\ \A n \in Inode : InPlace(ino[n])
    BY NoBladeType, EmptyStream DEF MirrorInit
  <1>6. WholeImage /\ Stamped /\ Ready
    BY DEF MirrorInit, WholeImage, Stamped, Ready
  <1> QED
    BY <1>1, <1>3, <1>4, <1>5, <1>6 DEF MirrorInv, Alone

\* Every step of the centre, of either pass, of a restart and of the installer
\* keeps the invariant.
LEMMA MirrorStep == MirrorInv /\ [MirrorNext]_mvars => MirrorInv'
  <1> SUFFICES ASSUME MirrorInv, [MirrorNext]_mvars PROVE MirrorInv'
    OBVIOUS
  <1>1. CASE place \/ enter
    BY <1>1, CentreSteps
  <1>2. ASSUME NEW p \in Pass, Turns(p) PROVE MirrorInv'
    BY <1>2, fetchStep, setStateStep, haveImageStep, openPartStep, refusedStep, copyStep, verifyStep, renameStep
       DEF Turns
  <1>3. ASSUME NEW p \in Pass, Breaks(p) PROVE MirrorInv'
    BY <1>3, fetchFailsStep, copyFailsStep, nilDocumentStep DEF Breaks
  <1>4. CASE crash
    BY <1>4, crashStep
  <1>5. CASE Installs
    BY <1>5, answerWithLocalImageStep, readStep, writeImageStep DEF Installs
  <1>6. CASE Unlucky
    BY <1>6, answerOfflineStep, resumeStep, resumeFailsStep, powerCutStep DEF Unlucky
  <1>8. CASE switchOn
    BY <1>8, switchOnStep
  <1>7. CASE UNCHANGED mvars
    BY <1>7, Stutter
  <1> QED
    BY <1>1, <1>2, <1>3, <1>4, <1>5, <1>6, <1>7, <1>8 DEF MirrorNext

-----------------------------------------------------------------------------
\* The inductive invariant holds in every behaviour of pass, fetchImage and
\* resumingReader together (site/site.go, site/images.go, installer/main.go).
THEOREM MirrorInvariant == MirrorSpec => []MirrorInv
  <1>1. MirrorInit => MirrorInv
    BY MirrorInitially
  <1>2. MirrorInv /\ [MirrorNext]_mvars => MirrorInv'
    BY MirrorStep
  <1> QED
    BY <1>1, <1>2, PTL DEF MirrorSpec

\* Files hold pieces of real versions even while two passes write to one file:
\* fetchImage never leaves a gap in a ".part" (site/images.go).
THEOREM MirrorTypeCorrect == MirrorSpec => []MirrorTypeOK
  <1>1. MirrorInv => MirrorTypeOK
    BY DEF MirrorInv
  <1> QED
    BY <1>1, MirrorInvariant, PTL

\* The image a site serves is a whole version, and "ready" is the version of
\* its document (site/images.go fetchImage, haveImage), for any sizes, any
\* number of replacements and of broken transfers.
THEOREM SiteHoldsWhatItSays == MirrorSpec => []HoldsWhatItSays
  <1>1. MirrorInv => HoldsWhatItSays
    <2> SUFFICES ASSUME MirrorInv PROVE HoldsWhatItSays
      OBVIOUS
    <2>1. ~overlap /\ live # 0 => \E v \in Version : ino[live] = Full(v)
      BY DEF MirrorInv, Alone, WholeImage
    <2>2. ~overlap /\ stops = 0 /\ stock = "ready" /\ (\A p \in Pass : pass[p].at \in {"idle", "start"})
             => ino[live] = Full(state)
      BY DEF MirrorInv, Alone, Ready, Active
    <2> QED
      BY <2>1, <2>2 DEF HoldsWhatItSays
  <1> QED
    BY <1>1, MirrorInvariant, PTL

\* A resumed download has every piece in its place (installer/main.go
\* resumingReader), whatever replaced the file under its name meanwhile.
THEOREM ResumedInPlace == MirrorSpec => []StreamInPlace
  <1>1. MirrorInv => StreamInPlace
    BY DEF MirrorInv, Alone, InPlace, StreamInPlace
  <1> QED
    BY <1>1, MirrorInvariant, PTL
=============================================================================
