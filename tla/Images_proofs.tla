--------------------------- MODULE Images_proofs ----------------------------
(***************************************************************************)
(* Theorems about Images, for any images, places, file names, requests at  *)
(* a time, goroutines, scripts given up and restarts.                      *)
(***************************************************************************)
EXTENDS Images, TLAPS

-----------------------------------------------------------------------------
\* The inductive invariant.

\* The flag of the queue says whether a goroutine is there; there is no second.
OneRunner ==
    /\ running <=> \E w \in Worker : at[w] # "none"
    /\ \A v, w \in Worker : at[v] # "none" /\ at[w] # "none" => v = w

\* Nobody is about to remove what a blade needs.
Needed(i) == used[i] = "yes" => rows[i] # None /\ ~Removing(i)

\* A fetch has entered its row and work on it has not begun.
Entered(r, i) == r # None /\ r.want = "fetch" /\ r.at = "entered" /\ r.job.id = i
Coming(i) ==
    \/ \E h \in Handler : Entered(req[h], i)
    \/ Waiting(i)
    \/ \E w \in Worker : at[w] = "taken" /\ job[w].id = i

Whole(i) ==
    /\ rows[i].local # None /\ disk[rows[i].local] # None
    /\ rows[i].sum = disk[rows[i].local]
    /\ rows[i].url = disk[rows[i].local].url

Says(i) == rows[i] # None /\ rows[i].state = "ready" /\ rows[i].note = ""
ReadyOrComing(i) == Says(i) => Whole(i) \/ Coming(i)

\* There is a file of that name, from where the goroutine's job says.
Fetched(w, n) == disk[n] # None /\ disk[n].url = job[w].url

\* What the goroutine has brought about so far with the image it has.
File(w) == mirrorName[job[w]]
Progress(w, i) ==
    /\ ~Says(i)
    /\ at[w] \in {"placed", "mirrored", "prepare"} => Fetched(w, File(w))
    /\ at[w] \notin Mirroring => rows[i] # None /\ (rows[i].url = job[w].url \/ Coming(i))
    /\ at[w] \in {"mirrored", "prepare"} => rows[i].local = File(w)
    /\ at[w] \in {"unpacked", "replaced"} =>
          got[w].file = File(w) /\ got[w].content.url = job[w].url
    /\ at[w] = "replaced" => Fetched(w, preparedName[File(w)])
    /\ at[w] = "done" =>
          /\ rows[i].local \in {File(w), preparedName[File(w)]}
          /\ Fetched(w, rows[i].local) /\ rows[i].sum = disk[rows[i].local]

Filed(i) ==
    /\ ReadyOrComing(i)
    /\ \A w \in Worker : at[w] \in AtWork /\ job[w].id = i => Progress(w, i)

Files == \A i \in Image \ upset : Filed(i)

ImgInv == ImgTypeOK /\ OneRunner /\ (\A i \in Image : Needed(i)) /\ Files

-----------------------------------------------------------------------------
\* Rows, requests and jobs.

RowState == {"", "queued", "working", "ready", "error"}
Notes == {"", "not prepared"}

LEMMA RequestType ==
    ASSUME NEW r \in Request
    PROVE  /\ r # None /\ r.job.id \in Image
           /\ r.want = "fetch" => r.job \in Job
           /\ r.want = "fetch" =>
                 /\ [r EXCEPT !.at = "entered"] \in Request
                 /\ [r EXCEPT !.at = "entered"].want = "fetch"
                 /\ [r EXCEPT !.at = "entered"].at = "entered"
                 /\ [r EXCEPT !.at = "entered"].job = r.job
  <1>1. CASE r \in [want : {"fetch"}, at : {"checked", "entered"}, job : Job]
    BY <1>1, ImagesAssumption DEF Request, Job
  <1>2. CASE r \in [want : {"remove"}, at : {"checked"}, job : [id : Image]]
    BY <1>2, ImagesAssumption DEF Request, Job
  <1> QED
    BY <1>1, <1>2 DEF Request

\* The types, piece by piece.
LEMMA Types ==
    ASSUME ImgTypeOK
    PROVE  /\ \A i \in Image : rows[i] \in Row \cup {None}
           /\ \A n \in Name : disk[n] \in Content \cup {None}
           /\ \A h \in Handler : req[h] # None => req[h] \in Request
           /\ \A p \in Process : at[p] \notin {"none", "loop"} =>
                 /\ job[p] \in Job /\ job[p].id \in Image /\ job[p].url \in URL
                 /\ mirrorName[job[p]] \in Name /\ preparedName[mirrorName[job[p]]] \in Name
           /\ \A p \in Process : at[p] \in {"unpacked", "replaced"} =>
                 /\ got[p] \in Unpacked /\ got[p].file \in Name /\ got[p].content \in Content
                 /\ preparedName[got[p].file] \in Name
           /\ Worker \subseteq Process /\ Stray \subseteq Process
           /\ \A w \in Worker, s \in Stray : w # s
  <1>1. ASSUME NEW p \in Process, at[p] \notin {"none", "loop"}
        PROVE  /\ job[p] \in Job /\ job[p].id \in Image /\ job[p].url \in URL
               /\ mirrorName[job[p]] \in Name /\ preparedName[mirrorName[job[p]]] \in Name
    <2>1. job[p] \in Job
      BY <1>1 DEF ImgTypeOK, WorkTypeOK
    <2> QED
      BY <2>1, ImagesAssumption DEF Job
  <1>2. ASSUME NEW p \in Process, at[p] \in {"unpacked", "replaced"}
        PROVE  /\ got[p] \in Unpacked /\ got[p].file \in Name /\ got[p].content \in Content
               /\ preparedName[got[p].file] \in Name
    <2>1. got[p] \in Unpacked
      BY <1>2 DEF ImgTypeOK, WorkTypeOK
    <2> QED
      BY <2>1, ImagesAssumption DEF Unpacked
  <1>3. /\ \A i \in Image : rows[i] \in Row \cup {None}
        /\ \A n \in Name : disk[n] \in Content \cup {None}
        /\ \A h \in Handler : req[h] # None => req[h] \in Request
    BY DEF ImgTypeOK
  <1>4. Worker \subseteq Process /\ Stray \subseteq Process /\ \A w \in Worker, s \in Stray : w # s
    BY ImagesAssumption DEF Process
  <1> QED
    BY <1>1, <1>2, <1>3, <1>4

\* setImageState touches the state of a row that is there, and no more.
LEMMA StateSet ==
    ASSUME ImgTypeOK, NEW i \in Image, NEW s \in RowState, NEW t \in Notes, setImageState(i, s, t)
    PROVE  /\ rows' \in [Image -> Row \cup {None}]
           /\ \A k \in Image \ {i} : rows'[k] = rows[k]
           /\ rows[i] = None => rows'[i] = None
           /\ rows[i] # None => /\ rows'[i] # None /\ rows'[i].state = s /\ rows'[i].note = t
                                /\ rows'[i].url = rows[i].url /\ rows'[i].sum = rows[i].sum
                                /\ rows'[i].local = rows[i].local
  <1>1. CASE rows[i] = None
    BY <1>1 DEF setImageState, ImgTypeOK
  <1>2. CASE rows[i] # None
    <2> DEFINE r == [rows[i] EXCEPT !.state = s, !.note = t]
    <2>1. rows[i] \in Row
      BY <1>2, Types
    <2>2. /\ r \in Row /\ r.state = s /\ r.note = t
          /\ r.url = rows[i].url /\ r.sum = rows[i].sum /\ r.local = rows[i].local
      BY <2>1 DEF Row, RowState, Notes
    <2>3. rows' = [rows EXCEPT ![i] = r]
      BY <1>2 DEF setImageState
    <2> HIDE DEF r
    <2>4. rows'[i] = r /\ rows' \in [Image -> Row \cup {None}]
          /\ \A k \in Image \ {i} : rows'[k] = rows[k]
      BY <2>2, <2>3 DEF ImgTypeOK
    <2>5. r # None
      BY <2>2, ImagesAssumption
    <2> QED
      BY <1>2, <2>2, <2>4, <2>5
  <1> QED
    BY <1>1, <1>2

\* hImagesCreate enters the file that is there.
LEMMA Created ==
    ASSUME ImgTypeOK, NEW i \in Image, NEW u \in URL, NEW n \in Name, hImagesCreate(i, u, n)
    PROVE  /\ rows' \in [Image -> Row \cup {None}]
           /\ \A k \in Image \ {i} : rows'[k] = rows[k]
           /\ rows'[i] # None /\ rows'[i].url = u /\ rows'[i].local = n /\ rows'[i].sum = disk[n]
           /\ rows'[i].state = IF rows[i] = None THEN "" ELSE rows[i].state
           /\ rows'[i].note = IF rows[i] = None THEN "" ELSE rows[i].note
  <1> DEFINE r == IF rows[i] = None
                  THEN [url |-> u, local |-> n, sum |-> disk[n], state |-> "", note |-> ""]
                  ELSE [rows[i] EXCEPT !.url = u, !.local = n, !.sum = disk[n]]
  <1>1. rows' = [rows EXCEPT ![i] = r]
    BY DEF hImagesCreate
  <1>2. disk[n] \in Content \cup {None} /\ rows[i] \in Row \cup {None}
    BY Types
  <1>3. /\ r \in Row /\ r.url = u /\ r.local = n /\ r.sum = disk[n]
        /\ r.state = IF rows[i] = None THEN "" ELSE rows[i].state
        /\ r.note = IF rows[i] = None THEN "" ELSE rows[i].note
    <2>1. CASE rows[i] = None
      BY <1>2, <2>1 DEF Row
    <2>2. CASE rows[i] # None
      <3>1. rows[i] \in Row
        BY <1>2, <2>2
      <3> QED
        BY <1>2, <2>2, <3>1 DEF Row
    <2> QED
      BY <2>1, <2>2
  <1> HIDE DEF r
  <1>4. rows' \in [Image -> Row \cup {None}] /\ rows'[i] = r /\ \A k \in Image \ {i} : rows'[k] = rows[k]
    BY <1>1, <1>3 DEF ImgTypeOK
  <1>5. r # None
    BY <1>3, ImagesAssumption
  <1> QED
    BY <1>3, <1>4, <1>5

\* A process goes on ...
LEMMA GoesOn ==
    ASSUME ImgTypeOK, NEW p \in Process, at[p] \notin {"none", "loop"}, NEW where \in AtWork,
           p \in Stray => where \in Mirroring \cup Preparing,
           where \in {"unpacked", "replaced"} => got[p] # None,
           Goes(p, where)
    PROVE  /\ WorkTypeOK' /\ at'[p] = where /\ UNCHANGED <<job, got>>
           /\ \A q \in Process \ {p} : at'[q] = at[q]
  BY DEF Goes, ImgTypeOK, WorkTypeOK

\* ... or is through with its job or script.
LEMMA EndsWell ==
    ASSUME ImgTypeOK, NEW p \in Process, Ends(p)
    PROVE  /\ WorkTypeOK' /\ at'[p] = (IF p \in Worker THEN "loop" ELSE "none")
           /\ \A q \in Process \ {p} : at'[q] = at[q] /\ job'[q] = job[q] /\ got'[q] = got[q]
  <1>1. p \in Stray => p \notin Worker
    BY ImagesAssumption
  <1> QED
    BY <1>1 DEF Ends, ImgTypeOK, WorkTypeOK

-----------------------------------------------------------------------------
\* What a step leaves alone.

\* An image keeps its standing when its row and the files that count for it
\* stay, nothing that is coming for it is lost, and the goroutine that has it
\* stays where it is.
LEMMA FiledStays ==
    ASSUME ImgTypeOK, NEW i \in Image, Filed(i), rows'[i] = rows[i],
           \A n \in Name : i \in Concerns(n) => disk'[n] = disk[n],
           Coming(i) => Coming(i)',
           \A w \in Worker : at'[w] \in AtWork /\ job'[w].id = i =>
               at'[w] = at[w] /\ job'[w] = job[w] /\ got'[w] = got[w]
    PROVE  Filed(i)'
  <1>1. ReadyOrComing(i)'
    <2> SUFFICES ASSUME Says(i), Whole(i) PROVE Whole(i)'
      BY DEF Filed, ReadyOrComing, Says
    <2>1. rows[i] # None /\ rows[i].local \in Name
      BY Types DEF Says, Whole, Row
    <2>2. i \in Concerns(rows[i].local)
      BY <2>1 DEF Concerns
    <2> QED
      BY <2>1, <2>2 DEF Whole
  <1>2. ASSUME NEW w \in Worker, at'[w] \in AtWork, job'[w].id = i PROVE Progress(w, i)'
    <2>1. at'[w] = at[w] /\ job'[w] = job[w] /\ got'[w] = got[w] /\ File(w)' = File(w)
      BY <1>2 DEF File
    <2>2. Progress(w, i)
      BY <1>2, <2>1 DEF Filed
    <2>3. File(w) \in Name /\ preparedName[File(w)] \in Name
      BY <1>2, <2>1, Types DEF File, AtWork, Mirroring, Preparing
    <2>4. i \in Concerns(File(w)) /\ i \in Concerns(preparedName[File(w)])
      BY <1>2, <2>1 DEF Concerns, File
    <2>5. disk'[File(w)] = disk[File(w)] /\ disk'[preparedName[File(w)]] = disk[preparedName[File(w)]]
      BY <2>3, <2>4
    <2>6. ~Says(i)' /\ (rows[i].url = job[w].url \/ Coming(i) => (rows[i].url = job[w].url \/ Coming(i))')
      BY <2>1, <2>2 DEF Progress, Says
    <2> QED
      BY <2>1, <2>2, <2>5, <2>6 DEF Progress, Fetched
  <1> QED
    BY <1>1, <1>2 DEF Filed

\* A blade keeps its image when the row stays and no removal comes up.
LEMMA NeededStays ==
    ASSUME NEW i \in Image, Needed(i), rows'[i] # None \/ rows'[i] = rows[i],
           used'[i] = "yes" => used[i] = "yes",
           Removing(i)' => Removing(i)
    PROVE  Needed(i)'
  BY DEF Needed

\* A step of the goroutine on the image it has: the rest of the queue, the
\* requests and the images it does not upset do not notice.
LEMMA WorkStep ==
    ASSUME ImgInv, NEW w \in Worker, NEW where \in AtWork \cup {"loop"},
           at[w] \notin {"none", "loop"},
           WorkTypeOK', at'[w] = where, where # "loop" => job'[w] = job[w],
           \A v \in Worker \ {w} : at'[v] = at[v] /\ job'[v] = job[v] /\ got'[v] = got[v],
           UNCHANGED <<used, queue, req, asks, stops>>,
           NEW i \in Image, i = job[w].id,
           rows' \in [Image -> Row \cup {None}], disk' \in [Name -> Content \cup {None}],
           upset' \subseteq Image, upset \ {i} \subseteq upset',
           \A k \in Image \ {i} : rows'[k] = rows[k],
           \A k \in Image \ {i}, n \in Name : k \in Concerns(n) \ upset' => disk'[n] = disk[n],
           rows[i] # None => rows'[i] # None,
           i \notin upset' => ReadyOrComing(i)' /\ (where # "loop" => Progress(w, i)')
    PROVE  ImgInv'
  <1>1. \A v \in Worker \ {w} : at'[v] = "none" /\ at[v] = "none"
    BY DEF ImgInv, OneRunner
  <1>2. ImgTypeOK'
    BY DEF ImgInv, ImgTypeOK, queue
  <1>3. OneRunner'
    <2>1. where # "none"
      BY DEF AtWork, Mirroring, Preparing
    <2> QED
      BY <1>1, <2>1 DEF ImgInv, OneRunner, queue
  <1>4. ASSUME NEW k \in Image PROVE Needed(k)'
    <2>1. Needed(k) /\ (rows'[k] # None \/ rows'[k] = rows[k]) /\ (Removing(k)' => Removing(k))
      BY DEF ImgInv, Removing
    <2> QED
      BY <2>1, NeededStays
  <1>5. Files'
    <2> SUFFICES ASSUME NEW k \in Image \ upset' PROVE Filed(k)'
      BY DEF Files
    <2>1. CASE k = i
      <3>1. ReadyOrComing(k)' /\ (where # "loop" => Progress(w, k)')
        BY <2>1
      <3> QED
        BY <1>1, <3>1 DEF Filed, AtWork, Mirroring, Preparing
    <2>2. CASE k # i
      <3>1. Filed(k) /\ ImgTypeOK /\ rows'[k] = rows[k] /\ \A n \in Name : k \in Concerns(n) => disk'[n] = disk[n]
        BY <2>2 DEF ImgInv, Files
      <3>2. Coming(k) => Coming(k)'
        BY <1>1, <2>2 DEF Coming, Waiting, queue
      <3>3. \A v \in Worker : at'[v] \in AtWork /\ job'[v].id = k =>
               at'[v] = at[v] /\ job'[v] = job[v] /\ got'[v] = got[v]
        BY <2>2 DEF AtWork, Mirroring, Preparing
      <3> QED
        BY <3>1, <3>2, <3>3, FiledStays
    <2> QED
      BY <2>1, <2>2
  <1> QED
    BY <1>2, <1>3, <1>4, <1>5 DEF ImgInv

\* A step of a stray: what it touches it upsets.
LEMMA StrayStep ==
    ASSUME ImgInv, WorkTypeOK',
           \A v \in Worker : at'[v] = at[v] /\ job'[v] = job[v] /\ got'[v] = got[v],
           UNCHANGED <<used, queue, req, asks, stops>>,
           rows' \in [Image -> Row \cup {None}], disk' \in [Name -> Content \cup {None}],
           upset' \subseteq Image, upset \subseteq upset',
           \A k \in Image : rows[k] # None => rows'[k] # None,
           \A k \in Image \ upset' : rows'[k] = rows[k],
           \A k \in Image \ upset', n \in Name : k \in Concerns(n) => disk'[n] = disk[n]
    PROVE  ImgInv'
  <1>1. ImgTypeOK'
    BY DEF ImgInv, ImgTypeOK, queue
  <1>2. OneRunner'
    BY DEF ImgInv, OneRunner, queue
  <1>3. ASSUME NEW k \in Image PROVE Needed(k)'
    BY DEF ImgInv, Needed, Removing
  <1>4. Files'
    <2> SUFFICES ASSUME NEW k \in Image \ upset' PROVE Filed(k)'
      BY DEF Files
    <2>1. Filed(k) /\ ImgTypeOK
      BY DEF ImgInv, Files
    <2>2. Coming(k) => Coming(k)'
      BY DEF Coming, Waiting, queue
    <2> QED
      BY <2>1, <2>2, FiledStays
  <1> QED
    BY <1>1, <1>2, <1>3, <1>4 DEF ImgInv

\* Where the goroutine is past the start of its work, what is coming for its
\* image stays to come.
LEMMA ComingStays ==
    ASSUME NEW w \in Worker, at[w] # "taken", NEW i,
           \A v \in Worker \ {w} : at'[v] = at[v] /\ job'[v] = job[v],
           UNCHANGED <<pending, req>>, Coming(i)
    PROVE  Coming(i)'
  BY DEF Coming, Waiting

LEMMA HadProgress ==
    ASSUME ImgInv, NEW w \in Worker, at[w] \in AtWork, NEW i \in Image \ upset, i = job[w].id
    PROVE  ReadyOrComing(i) /\ Progress(w, i)
  BY DEF ImgInv, Files, Filed

\* Of the files that count for other images, a script leaves those whose
\* images it does not upset.
LEMMA OthersKeep ==
    ASSUME NEW p \in Process, NEW n \in Name, NEW k \in Image, k \in Concerns(n), k # job[p].id
    PROVE  k \in Upsets(p, n)
  BY DEF Upsets

-----------------------------------------------------------------------------
\* The goroutine at work.

\* The goroutine says "working" of an image before it touches the file.
LEMMA StartWorkStep ==
    ASSUME ImgInv, NEW w \in Worker, startWork(w)
    PROVE  ImgInv'
  <1>0. PICK i \in Image : i = job[w].id
    BY Types DEF startWork, ImgInv
  <1>1. /\ at[w] = "taken" /\ Goes(w, "mirror") /\ setImageState(i, "working", "")
        /\ upset' = upset \ {i} /\ UNCHANGED <<disk, used, queue, req, asks, stops>>
    BY <1>0 DEF startWork
  <1>2. /\ rows' \in [Image -> Row \cup {None}] /\ (rows[i] # None => rows'[i] # None)
        /\ \A k \in Image \ {i} : rows'[k] = rows[k]
        /\ ~Says(i)'
    BY <1>1, StateSet DEF ImgInv, RowState, Notes, Says
  <1>3. /\ WorkTypeOK' /\ at'[w] = "mirror" /\ UNCHANGED <<job, got>>
        /\ \A v \in Worker \ {w} : at'[v] = at[v]
    BY <1>1, GoesOn, Types DEF ImgInv, AtWork, Mirroring
  <1>4. disk' \in [Name -> Content \cup {None}] /\ upset' \subseteq Image
    BY <1>1 DEF ImgInv, ImgTypeOK
  <1>5. ReadyOrComing(i)' /\ Progress(w, i)'
    BY <1>2, <1>3 DEF ReadyOrComing, Progress, Mirroring
  <1> QED
    BY <1>0, <1>1, <1>2, <1>3, <1>4, <1>5, WorkStep DEF AtWork, Mirroring

LEMMA PlaceStep ==
    ASSUME ImgInv, NEW w \in Worker, place(w)
    PROVE  ImgInv'
  <1>0. PICK i \in Image : i = job[w].id
    BY Types DEF place, ImgInv
  <1> DEFINE file == [url |-> job[w].url, prepared |-> FALSE]
  <1>1. /\ at[w] = "mirror" /\ Goes(w, "placed") /\ disk' = [disk EXCEPT ![File(w)] = file]
        /\ upset' = upset \cup Upsets(w, File(w))
        /\ UNCHANGED <<rows, used, queue, req, asks, stops>>
    BY DEF place, File
  <1>2. file \in Content /\ file.url = job[w].url /\ File(w) \in Name /\ w \in Process
    BY <1>1, Types DEF Content, ImgInv, File
  <1> HIDE DEF file
  <1>3. /\ disk' \in [Name -> Content \cup {None}] /\ disk'[File(w)] = file /\ file # None
        /\ \A n \in Name \ {File(w)} : disk'[n] = disk[n]
        /\ rows' \in [Image -> Row \cup {None}] /\ upset' \subseteq Image
    BY <1>1, <1>2, ImagesAssumption DEF ImgInv, ImgTypeOK, Upsets, Concerns
  <1>4. /\ WorkTypeOK' /\ at'[w] = "placed" /\ UNCHANGED <<job, got>>
        /\ \A v \in Worker \ {w} : at'[v] = at[v]
    BY <1>1, GoesOn, Types DEF ImgInv, AtWork, Mirroring
  <1>5. ASSUME NEW k \in Image \ {i}, NEW n \in Name, k \in Concerns(n) \ upset'
        PROVE  disk'[n] = disk[n]
    BY <1>0, <1>1, <1>2, <1>3, <1>5, OthersKeep
  <1>6. ASSUME i \notin upset' PROVE ReadyOrComing(i)' /\ Progress(w, i)'
    <2>1. ~Says(i)
      BY <1>0, <1>1, <1>6, HadProgress DEF Progress, AtWork, Mirroring
    <2>2. ~Says(i)' /\ File(w)' = File(w)
      BY <1>1, <1>4, <2>1 DEF Says, File
    <2>3. Fetched(w, File(w))'
      BY <1>2, <1>3, <1>4, <2>2 DEF Fetched
    <2> QED
      BY <1>4, <2>2, <2>3 DEF ReadyOrComing, Progress, Mirroring
  <1> QED
    BY <1>0, <1>1, <1>3, <1>4, <1>5, <1>6, WorkStep DEF AtWork, Mirroring

\* The script enters the file it has just put in place.
LEMMA PostMirrorStep ==
    ASSUME ImgInv, NEW w \in Worker, postMirror(w)
    PROVE  ImgInv'
  <1>0. PICK i \in Image : i = job[w].id
    BY Types DEF postMirror, ImgInv
  <1>1. /\ at[w] = "placed" /\ w \in Process /\ w \notin Stray
        /\ File(w) \in Name /\ job[w].url \in URL
    BY Types DEF postMirror, ImgInv, File
  <1>2. PICK where \in {"mirrored", "done"} :
          /\ Goes(w, where) /\ disk[File(w)] # None /\ hImagesCreate(i, job[w].url, File(w))
          /\ upset' = upset /\ UNCHANGED <<disk, used, queue, req, asks, stops>>
    BY <1>0, <1>1 DEF postMirror, Mirrored, Through, Enters, File
  <1>3. /\ rows' \in [Image -> Row \cup {None}] /\ rows'[i] # None
        /\ \A k \in Image \ {i} : rows'[k] = rows[k]
        /\ rows'[i].url = job[w].url /\ rows'[i].sum = disk[File(w)] /\ rows'[i].local = File(w)
        /\ Says(i)' => Says(i)
    <2>1. PICK n \in Name, u \in URL : n = File(w) /\ u = job[w].url
      BY <1>1
    <2>2. ImgTypeOK /\ hImagesCreate(i, u, n)
      BY <1>2, <2>1 DEF ImgInv
    <2>3. /\ rows' \in [Image -> Row \cup {None}] /\ rows'[i] # None
          /\ \A k \in Image \ {i} : rows'[k] = rows[k]
          /\ rows'[i].url = u /\ rows'[i].sum = disk[n] /\ rows'[i].local = n
          /\ Says(i)' => Says(i)
      <3>1. /\ rows' \in [Image -> Row \cup {None}]
            /\ \A k \in Image \ {i} : rows'[k] = rows[k]
            /\ rows'[i] # None /\ rows'[i].url = u /\ rows'[i].local = n /\ rows'[i].sum = disk[n]
            /\ rows'[i].state = IF rows[i] = None THEN "" ELSE rows[i].state
            /\ rows'[i].note = IF rows[i] = None THEN "" ELSE rows[i].note
        BY <2>2, Created
      <3> QED
        BY <3>1 DEF Says
    <2> QED
      BY <2>1, <2>3
  <1>4. /\ WorkTypeOK' /\ at'[w] = where /\ UNCHANGED <<job, got>>
        /\ \A v \in Worker \ {w} : at'[v] = at[v]
    BY <1>1, <1>2, GoesOn, Types DEF ImgInv, AtWork
  <1>5. disk' \in [Name -> Content \cup {None}] /\ upset' \subseteq Image
    BY <1>2 DEF ImgInv, ImgTypeOK
  <1>6. ASSUME i \notin upset' PROVE ReadyOrComing(i)' /\ Progress(w, i)'
    <2>1. ~Says(i) /\ Fetched(w, File(w))
      BY <1>0, <1>1, <1>2, <1>6, HadProgress DEF Progress, AtWork, Mirroring
    <2>2. ~Says(i)' /\ File(w)' = File(w) /\ Fetched(w, File(w))'
      BY <1>2, <1>3, <1>4, <2>1 DEF File, Fetched
    <2> QED
      BY <1>2, <1>3, <1>4, <2>2 DEF ReadyOrComing, Progress, Mirroring
  <1> QED
    BY <1>0, <1>1, <1>2, <1>3, <1>4, <1>5, <1>6, WorkStep DEF AtWork

LEMMA StartPrepareStep ==
    ASSUME ImgInv, NEW w \in Worker, startPrepare(w)
    PROVE  ImgInv'
  <1>0. PICK i \in Image : i = job[w].id
    BY Types DEF startPrepare, ImgInv
  <1>1. /\ at[w] = "mirrored" /\ Goes(w, "prepare") /\ setImageState(i, "working", "")
        /\ UNCHANGED <<upset, disk, used, queue, req, asks, stops>>
    BY <1>0 DEF startPrepare
  <1>2. /\ rows' \in [Image -> Row \cup {None}] /\ (rows[i] # None => rows'[i] # None)
        /\ \A k \in Image \ {i} : rows'[k] = rows[k]
        /\ rows[i] # None => rows'[i].url = rows[i].url /\ rows'[i].local = rows[i].local
        /\ ~Says(i)'
    BY <1>1, StateSet DEF ImgInv, RowState, Notes, Says
  <1>3. /\ WorkTypeOK' /\ at'[w] = "prepare" /\ UNCHANGED <<job, got>>
        /\ \A v \in Worker \ {w} : at'[v] = at[v]
    BY <1>1, GoesOn, Types DEF ImgInv, AtWork, Preparing
  <1>4. disk' \in [Name -> Content \cup {None}] /\ upset' \subseteq Image
    BY <1>1 DEF ImgInv, ImgTypeOK
  <1>5. ASSUME i \notin upset' PROVE ReadyOrComing(i)' /\ Progress(w, i)'
    <2>1. /\ rows[i] # None /\ (rows[i].url = job[w].url \/ Coming(i))
          /\ rows[i].local = File(w) /\ Fetched(w, File(w))
      BY <1>0, <1>1, <1>5, HadProgress DEF Progress, AtWork, Mirroring
    <2>2. Coming(i) => Coming(i)'
      BY <1>1, <1>3, ComingStays DEF queue
    <2>3. File(w)' = File(w) /\ Fetched(w, File(w))'
      BY <1>1, <1>3, <2>1 DEF File, Fetched
    <2> QED
      BY <1>2, <1>3, <2>1, <2>2, <2>3 DEF ReadyOrComing, Progress
  <1> QED
    BY <1>0, <1>1, <1>2, <1>3, <1>4, <1>5, WorkStep DEF AtWork, Preparing

LEMMA UnpackStep ==
    ASSUME ImgInv, NEW w \in Worker, unpack(w)
    PROVE  ImgInv'
  <1>0. PICK i \in Image : i = job[w].id
    BY Types DEF unpack, ImgInv
  <1> DEFINE u == [file |-> rows[i].local, content |-> disk[rows[i].local]]
  <1>1. /\ at[w] = "prepare" /\ rows[i] # None /\ rows[i].local # None /\ disk[rows[i].local] # None
        /\ got' = [got EXCEPT ![w] = u] /\ at' = [at EXCEPT ![w] = "unpacked"]
        /\ UNCHANGED <<upset, rows, disk, used, queue, job, req, asks, stops>>
    BY <1>0 DEF unpack
  <1>2. rows[i].local \in Name
    BY <1>1, Types DEF ImgInv, Row
  <1>3. /\ u \in Unpacked /\ u # None
        /\ u.file = rows[i].local /\ u.content = disk[rows[i].local]
    <2>1. disk[rows[i].local] \in Content
      BY <1>1, <1>2, Types DEF ImgInv
    <2>2. u \in Unpacked
      BY <1>2, <2>1 DEF Unpacked
    <2> QED
      BY <2>2, ImagesAssumption
  <1> HIDE DEF u
  <1>4. w \in Process /\ w \notin Stray
    BY ImagesAssumption DEF Process
  <1>5. /\ at'[w] = "unpacked" /\ got'[w] = u
        /\ \A q \in Process \ {w} : at'[q] = at[q] /\ got'[q] = got[q]
    BY <1>1, <1>4 DEF ImgInv, ImgTypeOK, WorkTypeOK
  <1>6. WorkTypeOK'
    <2>1. got' \in [Process -> Unpacked \cup {None}]
          /\ at' \in [Process -> {"none", "loop", "taken"} \cup AtWork]
      BY <1>1, <1>3, <1>4 DEF ImgInv, ImgTypeOK, WorkTypeOK, AtWork, Preparing
    <2>2. \A s \in Stray : at'[s] \in {"none"} \cup Mirroring \cup Preparing
      BY <1>4, <1>5 DEF ImgInv, ImgTypeOK, WorkTypeOK, Process
    <2>3. /\ job' \in [Process -> Job \cup {None}]
          /\ \A p \in Process : at'[p] \notin {"none", "loop"} => job'[p] # None
      BY <1>1, <1>4, <1>5 DEF ImgInv, ImgTypeOK, WorkTypeOK
    <2>4. \A p \in Process : at'[p] \in {"unpacked", "replaced"} => got'[p] # None
      BY <1>3, <1>4, <1>5 DEF ImgInv, ImgTypeOK, WorkTypeOK
    <2> QED
      BY <2>1, <2>2, <2>3, <2>4 DEF WorkTypeOK
  <1>7. /\ rows' \in [Image -> Row \cup {None}] /\ disk' \in [Name -> Content \cup {None}]
        /\ upset' \subseteq Image /\ \A v \in Worker \ {w} : at'[v] = at[v] /\ got'[v] = got[v]
    BY <1>1, <1>5 DEF ImgInv, ImgTypeOK, Process
  <1>8. ASSUME i \notin upset' PROVE ReadyOrComing(i)' /\ Progress(w, i)'
    <2>1. /\ rows[i] # None /\ (rows[i].url = job[w].url \/ Coming(i)) /\ ~Says(i)
          /\ rows[i].local = File(w) /\ Fetched(w, File(w))
      BY <1>0, <1>1, <1>8, HadProgress DEF Progress, AtWork, Preparing, Mirroring
    <2>2. Coming(i) => Coming(i)'
      BY <1>1, <1>7, ComingStays DEF queue
    <2>3. File(w)' = File(w) /\ ~Says(i)'
      BY <1>1, <2>1 DEF File, Says
    <2>4. got'[w].file = File(w) /\ got'[w].content.url = job[w].url
      BY <1>3, <1>5, <2>1 DEF Fetched
    <2> QED
      BY <1>1, <1>5, <2>1, <2>2, <2>3, <2>4 DEF ReadyOrComing, Progress
  <1> QED
    BY <1>0, <1>1, <1>5, <1>6, <1>7, <1>8, WorkStep DEF AtWork, Preparing

\* The prepared file takes the place of the one that was unpacked, or stands
\* beside it and that one goes.
LEMMA ReplaceStep ==
    ASSUME ImgInv, NEW w \in Worker, replace(w)
    PROVE  ImgInv'
  <1>0. PICK i \in Image : i = job[w].id
    BY Types DEF replace, ImgInv
  <1> DEFINE file == [got[w].content EXCEPT !.prepared = TRUE]
             n == preparedName[got[w].file]
  <1>1. /\ at[w] = "unpacked" /\ Goes(w, "replaced")
        /\ disk' = [f \in Name |-> CASE f = n -> file
                                     [] f # n /\ f = got[w].file -> None
                                     [] OTHER -> disk[f]]
        /\ upset' = upset \cup Upsets(w, n) \cup Upsets(w, got[w].file)
        /\ UNCHANGED <<rows, used, queue, req, asks, stops>>
    BY DEF replace
  <1>2. /\ n \in Name /\ got[w].file \in Name /\ got[w].content \in Content /\ got[w] # None
        /\ w \in Process
    BY <1>1, Types, ImagesAssumption DEF ImgInv
  <1>3. file \in Content /\ file.url = got[w].content.url
    BY <1>2 DEF Content
  <1> HIDE DEF file
  <1>4. /\ disk'[n] = file /\ file # None
        /\ \A f \in Name : f # n /\ f # got[w].file => disk'[f] = disk[f]
        /\ disk' \in [Name -> Content \cup {None}]
    <2>1. file # None
      BY <1>3, ImagesAssumption
    <2>2. \A f \in Name : disk[f] \in Content \cup {None}
      BY Types DEF ImgInv
    <2> HIDE DEF n
    <2> QED
      BY <1>1, <1>2, <1>3, <2>1, <2>2
  <1>5. rows' \in [Image -> Row \cup {None}] /\ upset' \subseteq Image
    BY <1>1 DEF ImgInv, ImgTypeOK, Upsets, Concerns
  <1>6. /\ WorkTypeOK' /\ at'[w] = "replaced" /\ UNCHANGED <<job, got>>
        /\ \A v \in Worker \ {w} : at'[v] = at[v]
    BY <1>1, <1>2, GoesOn, Types DEF ImgInv, AtWork, Preparing
  <1>7. ASSUME NEW k \in Image \ {i}, NEW f \in Name, k \in Concerns(f) \ upset'
        PROVE  disk'[f] = disk[f]
    BY <1>0, <1>1, <1>2, <1>4, <1>7, OthersKeep
  <1>8. ASSUME i \notin upset' PROVE ReadyOrComing(i)' /\ Progress(w, i)'
    <2>1. /\ rows[i] # None /\ (rows[i].url = job[w].url \/ Coming(i)) /\ ~Says(i)
          /\ got[w].file = File(w) /\ got[w].content.url = job[w].url
      BY <1>0, <1>1, <1>8, HadProgress DEF Progress, AtWork, Preparing, Mirroring
    <2>2. Coming(i) => Coming(i)'
      BY <1>1, <1>6, ComingStays DEF queue
    <2>3. File(w)' = File(w) /\ ~Says(i)'
      BY <1>1, <1>6, <2>1 DEF File, Says
    <2>4. Fetched(w, preparedName[File(w)])'
      BY <1>3, <1>4, <1>6, <2>1, <2>3 DEF Fetched
    <2> QED
      BY <1>1, <1>6, <2>1, <2>2, <2>3, <2>4 DEF ReadyOrComing, Progress
  <1> QED
    BY <1>0, <1>1, <1>4, <1>5, <1>6, <1>7, <1>8, WorkStep DEF AtWork, Preparing

\* The prepared file is entered with the url the row has by now.
LEMMA PostPrepareStep ==
    ASSUME ImgInv, NEW w \in Worker, postPrepare(w)
    PROVE  ImgInv'
  <1>0. PICK i \in Image : i = job[w].id
    BY Types DEF postPrepare, ImgInv
  <1>1. /\ at[w] = "replaced" /\ w \in Process /\ w \notin Stray
        /\ preparedName[got[w].file] \in Name /\ job[w].url \in URL
    BY Types DEF postPrepare, ImgInv
  <1>2. PICK n \in Name : n = preparedName[got[w].file]
    BY <1>1
  <1>u. PICK u \in URL : u = IF rows[i] = None THEN job[w].url ELSE rows[i].url
    BY <1>1, Types DEF ImgInv, Row
  <1>3. /\ Goes(w, "done") /\ disk[n] # None /\ hImagesCreate(i, u, n)
        /\ upset' = upset /\ UNCHANGED <<disk, used, queue, req, asks, stops>>
    BY <1>0, <1>1, <1>2, <1>u DEF postPrepare, Through, Enters
  <1>4. /\ rows' \in [Image -> Row \cup {None}] /\ rows'[i] # None
        /\ \A k \in Image \ {i} : rows'[k] = rows[k]
        /\ rows'[i].url = u /\ rows'[i].sum = disk[n] /\ rows'[i].local = n
        /\ Says(i)' => Says(i)
    <2>1. ImgTypeOK
      BY DEF ImgInv
    <2>2. /\ rows' \in [Image -> Row \cup {None}]
          /\ \A k \in Image \ {i} : rows'[k] = rows[k]
          /\ rows'[i] # None /\ rows'[i].url = u /\ rows'[i].local = n /\ rows'[i].sum = disk[n]
          /\ rows'[i].state = IF rows[i] = None THEN "" ELSE rows[i].state
          /\ rows'[i].note = IF rows[i] = None THEN "" ELSE rows[i].note
      BY <1>3, <2>1, Created
    <2> QED
      BY <2>2 DEF Says
  <1>5. /\ WorkTypeOK' /\ at'[w] = "done" /\ UNCHANGED <<job, got>>
        /\ \A v \in Worker \ {w} : at'[v] = at[v]
    BY <1>1, <1>3, GoesOn, Types DEF ImgInv, AtWork
  <1>6. disk' \in [Name -> Content \cup {None}] /\ upset' \subseteq Image
    BY <1>3 DEF ImgInv, ImgTypeOK
  <1>7. ASSUME i \notin upset' PROVE ReadyOrComing(i)' /\ Progress(w, i)'
    <2>1. /\ rows[i] # None /\ (rows[i].url = job[w].url \/ Coming(i)) /\ ~Says(i)
          /\ got[w].file = File(w) /\ Fetched(w, preparedName[File(w)])
      BY <1>0, <1>1, <1>3, <1>7, HadProgress DEF Progress, AtWork, Preparing, Mirroring
    <2>2. Coming(i) => Coming(i)'
      BY <1>1, <1>3, <1>5, ComingStays DEF queue
    <2>3. n = preparedName[File(w)] /\ File(w)' = File(w) /\ ~Says(i)' /\ u = rows[i].url
      BY <1>2, <1>u, <1>4, <1>5, <2>1 DEF File
    <2>4. Fetched(w, n)'
      BY <1>3, <1>5, <2>1, <2>3 DEF Fetched
    <2> QED
      BY <1>3, <1>4, <1>5, <2>1, <2>2, <2>3, <2>4 DEF ReadyOrComing, Progress
  <1> QED
    BY <1>0, <1>1, <1>3, <1>4, <1>5, <1>6, <1>7, WorkStep DEF AtWork

\* A POST that was answered with an error upsets the image.
LEMMA PostRefusedStep ==
    ASSUME ImgInv, NEW w \in Worker, postRefused(w)
    PROVE  ImgInv'
  <1>1. at[w] \in {"placed", "replaced"} /\ w \in Process /\ w \notin Stray
    BY Types DEF postRefused, ImgInv
  <1>2. PICK i \in Image : i = job[w].id
    BY <1>1, Types DEF ImgInv
  <1>3. PICK where \in {"mirrored", "done"} :
          /\ Goes(w, where) /\ upset' = upset \cup {i}
          /\ UNCHANGED <<rows, disk, used, queue, req, asks, stops>>
    BY <1>1, <1>2 DEF postRefused, Mirrored, Through
  <1>4. /\ WorkTypeOK' /\ at'[w] = where /\ UNCHANGED <<job, got>>
        /\ \A v \in Worker \ {w} : at'[v] = at[v]
    BY <1>1, <1>3, GoesOn, Types DEF ImgInv, AtWork
  <1>5. /\ rows' \in [Image -> Row \cup {None}] /\ disk' \in [Name -> Content \cup {None}]
        /\ upset' \subseteq Image
    BY <1>3 DEF ImgInv, ImgTypeOK
  <1> QED
    BY <1>1, <1>2, <1>3, <1>4, <1>5, WorkStep DEF AtWork

\* The goroutine is through with its job and says something of the image.
LEMMA LeavesStep ==
    ASSUME ImgInv, NEW w \in Worker, at[w] \in AtWork, NEW i \in Image, i = job[w].id,
           NEW s \in RowState, NEW t \in Notes, setImageState(i, s, t),
           WorkTypeOK', at'[w] = "loop",
           \A v \in Worker \ {w} : at'[v] = at[v] /\ job'[v] = job[v] /\ got'[v] = got[v],
           UNCHANGED <<upset, disk, used, queue, req, asks, stops>>,
           i \notin upset => ReadyOrComing(i)'
    PROVE  ImgInv'
  <1>1. /\ rows' \in [Image -> Row \cup {None}] /\ (rows[i] # None => rows'[i] # None)
        /\ \A k \in Image \ {i} : rows'[k] = rows[k]
    BY StateSet DEF ImgInv
  <1>2. disk' \in [Name -> Content \cup {None}] /\ upset' \subseteq Image
    BY DEF ImgInv, ImgTypeOK
  <1>3. at[w] \notin {"none", "loop"}
    BY DEF AtWork, Mirroring, Preparing
  <1> QED
    BY <1>1, <1>2, <1>3, WorkStep

LEMMA MirrorFailsStep ==
    ASSUME ImgInv, NEW w \in Worker, mirrorFails(w)
    PROVE  ImgInv'
  <1>0. w \in Process /\ at[w] \in AtWork /\ at[w] \notin {"none", "loop"}
    BY DEF Process, mirrorFails, AtWork, Mirroring
  <1>1. PICK i \in Image : i = job[w].id
    BY <1>0, Types DEF ImgInv
  <1>2. /\ Ends(w) /\ setImageState(i, "error", "")
        /\ UNCHANGED <<upset, disk, used, queue, req, asks, stops>>
    BY <1>1 DEF mirrorFails
  <1>3. /\ WorkTypeOK' /\ at'[w] = "loop"
        /\ \A v \in Worker \ {w} : at'[v] = at[v] /\ job'[v] = job[v] /\ got'[v] = got[v]
    BY <1>0, <1>2, EndsWell DEF ImgInv, Process
  <1>4. ReadyOrComing(i)'
    <2>1. ~Says(i)'
      BY <1>2, StateSet DEF ImgInv, RowState, Notes, Says
    <2> QED
      BY <2>1 DEF ReadyOrComing
  <1> QED
    BY <1>0, <1>1, <1>2, <1>3, <1>4, LeavesStep DEF RowState, Notes

LEMMA PrepareFailsStep ==
    ASSUME ImgInv, NEW w \in Worker, prepareFails(w)
    PROVE  ImgInv'
  <1>0. w \in Process /\ at[w] \in AtWork /\ at[w] \notin {"none", "loop"}
    BY DEF Process, prepareFails, AtWork, Preparing
  <1>1. PICK i \in Image : i = job[w].id
    BY <1>0, Types DEF ImgInv
  <1>2. /\ Ends(w) /\ setImageState(i, "ready", "not prepared")
        /\ UNCHANGED <<upset, disk, used, queue, req, asks, stops>>
    BY <1>1 DEF prepareFails
  <1>3. /\ WorkTypeOK' /\ at'[w] = "loop"
        /\ \A v \in Worker \ {w} : at'[v] = at[v] /\ job'[v] = job[v] /\ got'[v] = got[v]
    BY <1>0, <1>2, EndsWell DEF ImgInv, Process
  <1>4. ReadyOrComing(i)'
    <2>1. ~Says(i)'
      BY <1>2, StateSet DEF ImgInv, RowState, Notes, Says
    <2> QED
      BY <2>1 DEF ReadyOrComing
  <1> QED
    BY <1>0, <1>1, <1>2, <1>3, <1>4, LeavesStep DEF RowState, Notes

\* "ready" is said of the file that was entered, or another job will say more.
LEMMA ReadyStep ==
    ASSUME ImgInv, NEW w \in Worker, ready(w)
    PROVE  ImgInv'
  <1>0. w \in Process /\ at[w] = "done"
    BY DEF Process, ready
  <1>1. PICK i \in Image : i = job[w].id
    BY <1>0, Types DEF ImgInv
  <1>2. /\ Ends(w) /\ setImageState(i, "ready", "")
        /\ UNCHANGED <<upset, disk, used, queue, req, asks, stops>>
    BY <1>1 DEF ready
  <1>3. /\ WorkTypeOK' /\ at'[w] = "loop"
        /\ \A v \in Worker \ {w} : at'[v] = at[v] /\ job'[v] = job[v] /\ got'[v] = got[v]
    BY <1>0, <1>2, EndsWell DEF ImgInv, Process
  <1>4. ASSUME i \notin upset PROVE ReadyOrComing(i)'
    <2>1. /\ rows[i] # None /\ (rows[i].url = job[w].url \/ Coming(i))
          /\ rows[i].local \in {File(w), preparedName[File(w)]}
          /\ Fetched(w, rows[i].local) /\ rows[i].sum = disk[rows[i].local]
      BY <1>0, <1>1, <1>4, HadProgress DEF Progress, AtWork, Mirroring
    <2>2. Coming(i) => Coming(i)'
      BY <1>0, <1>2, <1>3, ComingStays DEF queue
    <2>3. /\ rows'[i].url = rows[i].url /\ rows'[i].sum = rows[i].sum
          /\ rows'[i].local = rows[i].local
      BY <1>2, <2>1, StateSet DEF ImgInv, RowState, Notes
    <2>4. rows[i].local # None
      BY <1>0, <2>1, Types, ImagesAssumption DEF ImgInv, File
    <2> QED
      BY <1>2, <2>1, <2>2, <2>3, <2>4 DEF ReadyOrComing, Whole, Fetched
  <1> QED
    BY <1>0, <1>1, <1>2, <1>3, <1>4, LeavesStep DEF RowState, Notes, AtWork

\* A script that is given up goes on as a stray.
LEMMA GiveUpStep ==
    ASSUME ImgInv, NEW w \in Worker, NEW s \in Stray, giveUp(w, s)
    PROVE  ImgInv'
  <1>0. /\ w \in Process /\ s \in Process /\ w # s /\ s \notin Worker /\ w \notin Stray
        /\ at[w] \in Mirroring \cup Preparing /\ at[w] \in AtWork /\ at[w] \notin {"none", "loop"}
    BY ImagesAssumption DEF Process, giveUp, AtWork, Mirroring, Preparing
  <1>1. PICK i \in Image : i = job[w].id
    BY <1>0, Types DEF ImgInv
  <1>2. /\ at' = [at EXCEPT ![w] = "loop", ![s] = at[w]]
        /\ job' = [job EXCEPT ![w] = None, ![s] = job[w]]
        /\ got' = [got EXCEPT ![w] = None, ![s] = got[w]]
        /\ UNCHANGED <<upset, disk, used, queue, req, asks, stops>>
        /\ \/ setImageState(i, "error", "") \/ setImageState(i, "ready", "not prepared")
    BY <1>1 DEF giveUp
  <1>3. /\ at'[w] = "loop" /\ at'[s] = at[w] /\ job'[s] = job[w] /\ got'[s] = got[w]
        /\ \A q \in Process \ {w, s} : at'[q] = at[q] /\ job'[q] = job[q] /\ got'[q] = got[q]
    BY <1>0, <1>2 DEF ImgInv, ImgTypeOK, WorkTypeOK
  <1>4. WorkTypeOK'
    <2>1. /\ at' \in [Process -> {"none", "loop", "taken"} \cup AtWork]
          /\ job' \in [Process -> Job \cup {None}] /\ got' \in [Process -> Unpacked \cup {None}]
      BY <1>0, <1>2 DEF ImgInv, ImgTypeOK, WorkTypeOK
    <2>2. \A q \in Stray : at'[q] \in {"none"} \cup Mirroring \cup Preparing
      BY <1>0, <1>3 DEF ImgInv, ImgTypeOK, WorkTypeOK, Process
    <2>3. \A p \in Process : at'[p] \notin {"none", "loop"} => job'[p] # None
      BY <1>0, <1>3 DEF ImgInv, ImgTypeOK, WorkTypeOK
    <2>4. \A p \in Process : at'[p] \in {"unpacked", "replaced"} => got'[p] # None
      BY <1>0, <1>3 DEF ImgInv, ImgTypeOK, WorkTypeOK
    <2> QED
      BY <2>1, <2>2, <2>3, <2>4 DEF WorkTypeOK
  <1>5. \A v \in Worker \ {w} : at'[v] = at[v] /\ job'[v] = job[v] /\ got'[v] = got[v]
    BY <1>0, <1>3 DEF Process
  <1>6. CASE setImageState(i, "error", "")
    <2>1. ReadyOrComing(i)'
      BY <1>6, StateSet DEF ImgInv, RowState, Notes, Says, ReadyOrComing
    <2> QED
      BY <1>0, <1>1, <1>2, <1>3, <1>4, <1>5, <1>6, <2>1, LeavesStep DEF RowState, Notes
  <1>7. CASE setImageState(i, "ready", "not prepared")
    <2>1. ReadyOrComing(i)'
      BY <1>7, StateSet DEF ImgInv, RowState, Notes, Says, ReadyOrComing
    <2> QED
      BY <1>0, <1>1, <1>2, <1>3, <1>4, <1>5, <1>7, <2>1, LeavesStep DEF RowState, Notes
  <1> QED
    BY <1>2, <1>6, <1>7

-----------------------------------------------------------------------------
\* A script that was given up.

\* It goes on with its script ...
LEMMA StrayScriptStep ==
    ASSUME ImgInv, NEW s \in Stray, Script(s)
    PROVE  ImgInv'
  <1>0. /\ s \in Process /\ s \notin Worker /\ \A v \in Worker : v \in Process \ {s}
        /\ ImgTypeOK
    BY ImagesAssumption DEF Process, ImgInv
  <1>1. CASE place(s)
    <2> DEFINE n == mirrorName[job[s]]
               file == [url |-> job[s].url, prepared |-> FALSE]
    <2>1. /\ at[s] = "mirror" /\ Goes(s, "placed") /\ disk' = [disk EXCEPT ![n] = file]
          /\ upset' = upset \cup Upsets(s, n) /\ UNCHANGED <<rows, used, queue, req, asks, stops>>
      BY <1>1 DEF place
    <2>2. file \in Content /\ n \in Name
      BY <1>0, <2>1, Types DEF Content
    <2> HIDE DEF n, file
    <2>3. /\ disk' \in [Name -> Content \cup {None}] /\ \A f \in Name \ {n} : disk'[f] = disk[f]
          /\ rows' \in [Image -> Row \cup {None}] /\ upset' \subseteq Image
      BY <1>0, <2>1, <2>2 DEF ImgTypeOK, Upsets, Concerns
    <2>4. WorkTypeOK' /\ UNCHANGED <<job, got>> /\ \A v \in Worker : at'[v] = at[v]
      BY <1>0, <2>1, GoesOn DEF AtWork, Mirroring
    <2>5. ASSUME NEW k \in Image \ upset', NEW f \in Name, k \in Concerns(f) PROVE disk'[f] = disk[f]
      BY <2>1, <2>3, <2>5 DEF Upsets
    <2> QED
      BY <2>1, <2>3, <2>4, <2>5, StrayStep
  <1>2. CASE postMirror(s) \/ postPrepare(s)
    <2>1. at[s] \in {"placed", "replaced"}
      BY <1>2 DEF postMirror, postPrepare
    <2>2. PICK i \in Image : i = job[s].id
      BY <1>0, <2>1, Types
    <2>3. PICK u \in URL, n \in Name : hImagesCreate(i, u, n)
      <3>1. CASE postMirror(s)
        BY <1>0, <2>1, <2>2, <3>1, Types DEF postMirror
      <3>2. CASE postPrepare(s)
        <4>1. at[s] = "replaced"
          BY <3>2 DEF postPrepare
        <4>2. preparedName[got[s].file] \in Name /\ job[s].url \in URL
          BY <1>0, <4>1, Types
        <4>3. (IF rows[i] = None THEN job[s].url ELSE rows[i].url) \in URL
          BY <1>0, <4>2, Types DEF Row
        <4> QED
          BY <2>2, <3>2, <4>2, <4>3 DEF postPrepare
      <3> QED
        BY <1>2, <3>1, <3>2
    <2>4. /\ Ends(s) /\ upset' = upset \cup {i} /\ UNCHANGED <<disk, used, queue, req, asks, stops>>
      BY <1>2, <2>2 DEF postMirror, postPrepare, Mirrored, Through, Enters
    <2>5. /\ rows' \in [Image -> Row \cup {None}] /\ rows'[i] # None
          /\ \A k \in Image \ {i} : rows'[k] = rows[k]
      BY <1>0, <2>3, Created
    <2>6. /\ WorkTypeOK'
          /\ \A v \in Worker : at'[v] = at[v] /\ job'[v] = job[v] /\ got'[v] = got[v]
      BY <1>0, <2>4, EndsWell
    <2>7. disk' \in [Name -> Content \cup {None}] /\ upset' \subseteq Image
      BY <1>0, <2>4 DEF ImgTypeOK
    <2> QED
      BY <2>4, <2>5, <2>6, <2>7, StrayStep
  <1>3. CASE unpack(s)
    <2>1. at[s] = "prepare" /\ UNCHANGED <<upset, rows, disk, used, queue, job, req, asks, stops>>
      BY <1>3 DEF unpack
    <2>2. PICK i \in Image : i = job[s].id
      BY <1>0, <2>1, Types
    <2> DEFINE u == [file |-> rows[i].local, content |-> disk[rows[i].local]]
    <2>3. /\ rows[i] # None /\ rows[i].local # None /\ disk[rows[i].local] # None
          /\ got' = [got EXCEPT ![s] = u] /\ at' = [at EXCEPT ![s] = "unpacked"]
      BY <1>3, <2>2 DEF unpack
    <2>4. rows[i].local \in Name
      BY <1>0, <2>3, Types DEF Row
    <2>5. disk[rows[i].local] \in Content
      BY <1>0, <2>3, <2>4, Types
    <2>6. u \in Unpacked
      BY <2>4, <2>5 DEF Unpacked
    <2> HIDE DEF u
    <2>7. u # None
      BY <2>6, ImagesAssumption
    <2>8. WorkTypeOK' /\ \A v \in Worker : at'[v] = at[v] /\ job'[v] = job[v] /\ got'[v] = got[v]
      <3>1. /\ got' \in [Process -> Unpacked \cup {None}]
            /\ at' \in [Process -> {"none", "loop", "taken"} \cup AtWork]
            /\ got'[s] = u /\ at'[s] = "unpacked"
            /\ \A q \in Process \ {s} : at'[q] = at[q] /\ got'[q] = got[q]
        BY <1>0, <2>3, <2>6 DEF ImgTypeOK, WorkTypeOK, AtWork, Preparing
      <3>2. \A q \in Stray : at'[q] \in {"none"} \cup Mirroring \cup Preparing
        BY <1>0, <3>1 DEF ImgTypeOK, WorkTypeOK, Preparing, Process
      <3>3. /\ job' \in [Process -> Job \cup {None}]
            /\ \A p \in Process : at'[p] \notin {"none", "loop"} => job'[p] # None
        BY <1>0, <2>1, <3>1 DEF ImgTypeOK, WorkTypeOK
      <3>4. \A p \in Process : at'[p] \in {"unpacked", "replaced"} => got'[p] # None
        BY <1>0, <2>7, <3>1 DEF ImgTypeOK, WorkTypeOK
      <3> QED
        BY <1>0, <2>1, <3>1, <3>2, <3>3, <3>4 DEF WorkTypeOK
    <2>9. /\ rows' \in [Image -> Row \cup {None}] /\ disk' \in [Name -> Content \cup {None}]
          /\ upset' \subseteq Image
      BY <1>0, <2>1 DEF ImgTypeOK
    <2> QED
      BY <2>1, <2>8, <2>9, StrayStep
  <1>4. CASE replace(s)
    <2> DEFINE n == preparedName[got[s].file]
               o == got[s].file
               file == [got[s].content EXCEPT !.prepared = TRUE]
    <2>1. /\ at[s] = "unpacked" /\ Goes(s, "replaced")
          /\ disk' = [f \in Name |-> CASE f = n -> file
                                       [] f # n /\ f = o -> None
                                       [] OTHER -> disk[f]]
          /\ upset' = upset \cup Upsets(s, n) \cup Upsets(s, o)
          /\ UNCHANGED <<rows, used, queue, req, asks, stops>>
      BY <1>4 DEF replace
    <2>2. got[s] \in Unpacked /\ got[s].content \in Content
      BY <1>0, <2>1, Types
    <2>3. file \in Content /\ got[s] # None
      BY <2>2, ImagesAssumption DEF Content
    <2> HIDE DEF n, o, file
    <2>4. \A f \in Name : f # n /\ f # o => disk'[f] = disk[f]
      BY <2>1
    <2>5. /\ disk' \in [Name -> Content \cup {None}] /\ rows' \in [Image -> Row \cup {None}]
          /\ upset' \subseteq Image
      <3>1. \A f \in Name : disk[f] \in Content \cup {None}
        BY <1>0, Types
      <3>2. disk' \in [Name -> Content \cup {None}]
        BY <2>1, <2>3, <3>1
      <3> QED
        BY <1>0, <2>1, <3>2 DEF ImgTypeOK, Upsets, Concerns
    <2>6. WorkTypeOK' /\ UNCHANGED <<job, got>> /\ \A v \in Worker : at'[v] = at[v]
      BY <1>0, <2>1, <2>3, GoesOn DEF AtWork, Preparing
    <2>7. ASSUME NEW k \in Image \ upset', NEW f \in Name, k \in Concerns(f) PROVE disk'[f] = disk[f]
      BY <2>1, <2>4, <2>7 DEF Upsets
    <2> QED
      BY <2>1, <2>5, <2>6, <2>7, StrayStep
  <1> QED
    BY <1>1, <1>2, <1>3, <1>4 DEF Script

\* ... or ends.
LEMMA StrayEndsStep ==
    ASSUME ImgInv, NEW s \in Stray, strayEnds(s)
    PROVE  ImgInv'
  <1>1. s \in Process /\ \A v \in Worker : v \in Process \ {s}
    BY ImagesAssumption DEF Process
  <1>2. Ends(s) /\ UNCHANGED <<upset, rows, disk, used, queue, req, asks, stops>>
    BY DEF strayEnds
  <1>3. /\ WorkTypeOK'
        /\ \A v \in Worker : at'[v] = at[v] /\ job'[v] = job[v] /\ got'[v] = got[v]
    BY <1>1, <1>2, EndsWell DEF ImgInv
  <1>4. /\ rows' \in [Image -> Row \cup {None}] /\ disk' \in [Name -> Content \cup {None}]
        /\ upset' \subseteq Image
    BY <1>2 DEF ImgInv, ImgTypeOK
  <1> QED
    BY <1>2, <1>3, <1>4, StrayStep

-----------------------------------------------------------------------------
\* The goroutine and the queue.

LEMMA TakeJobStep ==
    ASSUME ImgInv, NEW w \in Worker, takeJob(w)
    PROVE  ImgInv'
  <1>0. w \in Process /\ w \notin Stray /\ WorkTypeOK /\ ImgTypeOK
    BY ImagesAssumption DEF Process, ImgInv, ImgTypeOK
  <1>1. /\ at[w] = "loop" /\ pending # <<>> /\ pending \in Seq(Job)
        /\ pending' = Tail(pending) /\ job' = [job EXCEPT ![w] = Head(pending)]
        /\ at' = [at EXCEPT ![w] = "taken"]
        /\ UNCHANGED <<upset, rows, disk, used, running, got, req, asks, stops>>
    BY DEF takeJob, ImgInv, ImgTypeOK
  <1>2. pending' \in Seq(Job) /\ Head(pending) \in Job
    BY <1>1
  <1>3. /\ at'[w] = "taken" /\ job'[w] = Head(pending)
        /\ \A v \in Process \ {w} : at'[v] = at[v] /\ job'[v] = job[v]
        /\ \A v \in Worker \ {w} : at'[v] = at[v] /\ job'[v] = job[v] /\ got'[v] = got[v]
    BY <1>0, <1>1 DEF WorkTypeOK, Process
  <1>4. ImgTypeOK'
    <2>1. job' \in [Process -> Job \cup {None}] /\ job'[w] # None
      BY <1>0, <1>1, <1>2, <1>3, ImagesAssumption DEF WorkTypeOK
    <2>2. at' \in [Process -> {"none", "loop", "taken"} \cup AtWork]
      BY <1>0, <1>1 DEF WorkTypeOK
    <2>3. \A s \in Stray : at'[s] \in {"none"} \cup Mirroring \cup Preparing
      BY <1>0, <1>3 DEF WorkTypeOK, Process
    <2>4. WorkTypeOK'
      BY <1>0, <1>1, <1>3, <2>1, <2>2, <2>3 DEF WorkTypeOK
    <2> QED
      BY <1>0, <1>1, <1>2, <2>4 DEF ImgTypeOK
  <1>5. OneRunner'
    BY <1>1, <1>3 DEF ImgInv, OneRunner
  <1>6. \A i \in Image : Needed(i)'
    BY <1>1 DEF ImgInv, Needed, Removing
  <1>7. Files'
    <2> SUFFICES ASSUME NEW i \in Image \ upset PROVE Filed(i)'
      BY <1>1 DEF Files
    <2>1. Filed(i)
      BY DEF ImgInv, Files
    <2>2. ASSUME Waiting(i) PROVE Coming(i)'
      <3>1. PICK n \in DOMAIN pending : pending[n].id = i
        BY <2>2 DEF Waiting
      <3>2. n \in 1..Len(pending) /\ Len(pending) \in Nat
        BY <1>1
      <3>3. CASE n = 1
        <4>1. job'[w].id = i
          BY <1>1, <1>3, <3>1, <3>3
        <4> QED
          BY <1>3, <4>1 DEF Coming
      <3>4. CASE n # 1
        <4>1. n - 1 \in DOMAIN pending' /\ pending'[n - 1] = pending[n]
          BY <1>1, <3>2, <3>4
        <4> QED
          BY <3>1, <4>1 DEF Coming, Waiting
      <3> QED
        BY <3>3, <3>4
    <2>3. Coming(i) => Coming(i)'
      <3>1. ASSUME NEW v \in Worker, at[v] = "taken", job[v].id = i PROVE Coming(i)'
        BY <1>1, <1>3, <3>1 DEF Coming
      <3>2. ASSUME NEW h \in Handler, Entered(req[h], i) PROVE Coming(i)'
        BY <1>1, <3>2 DEF Coming
      <3> QED
        BY <2>2, <3>1, <3>2 DEF Coming
    <2>4. \A v \in Worker : at'[v] \in AtWork /\ job'[v].id = i =>
               at'[v] = at[v] /\ job'[v] = job[v] /\ got'[v] = got[v]
      BY <1>3 DEF AtWork, Mirroring, Preparing
    <2> QED
      BY <1>0, <1>1, <2>1, <2>3, <2>4, FiledStays
  <1> QED
    BY <1>4, <1>5, <1>6, <1>7 DEF ImgInv

LEMMA EndQueueStep ==
    ASSUME ImgInv, NEW w \in Worker, endQueue(w)
    PROVE  ImgInv'
  <1>0. w \in Process /\ w \notin Stray /\ WorkTypeOK /\ ImgTypeOK
    BY ImagesAssumption DEF Process, ImgInv, ImgTypeOK
  <1>1. /\ at[w] = "loop" /\ running' = FALSE /\ at' = [at EXCEPT ![w] = "none"]
        /\ UNCHANGED <<upset, rows, disk, used, pending, job, got, req, asks, stops>>
    BY DEF endQueue, Goes
  <1>2. at'[w] = "none" /\ \A v \in Process \ {w} : at'[v] = at[v]
    BY <1>0, <1>1 DEF WorkTypeOK
  <1>3. \A v \in Worker \ {w} : at'[v] = at[v] /\ at[v] = "none"
    BY <1>1, <1>2 DEF ImgInv, OneRunner, Process
  <1>4. ImgTypeOK'
    <2>1. WorkTypeOK'
      BY <1>0, <1>1, <1>2 DEF WorkTypeOK, Process
    <2> QED
      BY <1>0, <1>1, <2>1 DEF ImgTypeOK
  <1>5. OneRunner'
    BY <1>1, <1>2, <1>3 DEF OneRunner
  <1>6. \A i \in Image : Needed(i)'
    BY <1>1 DEF ImgInv, Needed, Removing
  <1>7. Files'
    <2> SUFFICES ASSUME NEW i \in Image \ upset PROVE Filed(i)'
      BY <1>1 DEF Files
    <2>1. Filed(i)
      BY DEF ImgInv, Files
    <2>2. Coming(i) => Coming(i)'
      BY <1>1, <1>2, <1>3 DEF Coming, Waiting
    <2>3. \A v \in Worker : at'[v] \in AtWork => at'[v] = at[v]
      BY <1>2, <1>3 DEF AtWork, Mirroring, Preparing
    <2> QED
      BY <1>0, <1>1, <2>1, <2>2, <2>3, FiledStays
  <1> QED
    BY <1>4, <1>5, <1>6, <1>7 DEF ImgInv

\* A restart forgets the queue and the requests, and upsets what it cut off.
LEMMA RestartStep ==
    ASSUME ImgInv, restart
    PROVE  ImgInv'
  <1>1. /\ pending' = <<>> /\ running' = FALSE /\ stops' = stops + 1 /\ stops < MaxStops
        /\ at' = [p \in Process |-> "none"] /\ job' = [p \in Process |-> None]
        /\ got' = [p \in Process |-> None] /\ req' = [h \in Handler |-> None]
        /\ upset' = upset \cup {i \in Image : InHand(i) \/ Asked(i)}
        /\ UNCHANGED <<rows, disk, used, asks>>
    BY DEF restart
  <1>2. Worker \subseteq Process /\ Stray \subseteq Process
    BY DEF Process
  <1>3. ImgTypeOK'
    <2>1. stops' \in 0..MaxStops /\ <<>> \in Seq(Job)
      BY <1>1, ImagesAssumption DEF ImgInv, ImgTypeOK
    <2>2. WorkTypeOK'
      BY <1>1, <1>2 DEF WorkTypeOK
    <2> QED
      BY <1>1, <2>1, <2>2 DEF ImgInv, ImgTypeOK
  <1>4. OneRunner'
    BY <1>1, <1>2 DEF OneRunner
  <1>5. \A i \in Image : Needed(i)'
    BY <1>1 DEF ImgInv, Needed, Removing
  <1>6. Files'
    <2> SUFFICES ASSUME NEW i \in Image \ upset' PROVE Filed(i)'
      BY DEF Files
    <2>1. Filed(i) /\ ImgTypeOK /\ ~InHand(i) /\ ~Asked(i)
      BY <1>1 DEF ImgInv, Files
    <2>2. ~Coming(i)
      BY <2>1 DEF Coming, Entered, InHand, Holds, Asked
    <2>3. \A v \in Worker : at'[v] \notin AtWork
      BY <1>1, <1>2 DEF AtWork, Mirroring, Preparing
    <2> QED
      BY <1>1, <2>1, <2>2, <2>3, FiledStays
  <1> QED
    BY <1>3, <1>4, <1>5, <1>6 DEF ImgInv

-----------------------------------------------------------------------------
\* People and their requests.

\* Where the queue and the processes are left alone.
LEMMA QueueKept ==
    ASSUME ImgInv, UNCHANGED <<queue, work>>
    PROVE  /\ OneRunner' /\ WorkTypeOK' /\ UNCHANGED <<pending, running, at, job, got>>
           /\ \A k : Waiting(k)' <=> Waiting(k)
  <1>1. UNCHANGED <<pending, running, at, job, got>>
    BY DEF queue, work
  <1> QED
    BY <1>1 DEF ImgInv, ImgTypeOK, WorkTypeOK, OneRunner, Waiting

\* A request that only looks.
LEMMA LookStep ==
    ASSUME ImgInv, NEW h \in Handler, NEW r \in Request, Ask(h), req' = [req EXCEPT ![h] = r],
           r.at = "checked", UNCHANGED <<upset, rows, disk, used, queue, work, stops>>,
           r.want = "remove" => used[r.job.id] = "no"
    PROVE  ImgInv'
  <1>1. req'[h] = r /\ req[h] = None /\ \A g \in Handler \ {h} : req'[g] = req[g]
    BY DEF ImgInv, ImgTypeOK, Ask
  <1>2. OneRunner' /\ WorkTypeOK' /\ UNCHANGED <<pending, running, at, job, got>>
    BY QueueKept
  <1>3. ImgTypeOK'
    <2>1. asks' \in 0..MaxAsks /\ req' \in [Handler -> Request \cup {None}]
      BY ImagesAssumption DEF Ask, ImgInv, ImgTypeOK
    <2> QED
      BY <1>2, <2>1 DEF ImgInv, ImgTypeOK
  <1>4. \A i \in Image : Needed(i)'
    BY <1>1 DEF ImgInv, Needed, Removing
  <1>5. Files'
    <2> SUFFICES ASSUME NEW i \in Image \ upset PROVE Filed(i)'
      BY DEF Files
    <2>1. Filed(i) /\ ImgTypeOK
      BY DEF ImgInv, Files
    <2>2. Coming(i) => Coming(i)'
      BY <1>1, <1>2 DEF Coming, Waiting, Entered
    <2> QED
      BY <1>2, <2>1, <2>2, FiledStays
  <1> QED
    BY <1>2, <1>3, <1>4, <1>5 DEF ImgInv

LEMMA CheckFetchStep ==
    ASSUME ImgInv, NEW h \in Handler, NEW i \in Image, NEW u \in URL, NEW prep \in BOOLEAN,
           checkFetch(h, i, u, prep)
    PROVE  ImgInv'
  <1> DEFINE j == [id |-> i, url |-> u, prepare |-> prep]
             r == [want |-> "fetch", at |-> "checked", job |-> j]
  <1>1. j \in Job
    BY DEF Job
  <1> HIDE DEF j
  <1>2. r \in Request /\ r.at = "checked" /\ r.want # "remove"
    BY <1>1 DEF Request
  <1>3. Ask(h) /\ req' = [req EXCEPT ![h] = r] /\ UNCHANGED <<upset, rows, disk, used, queue, work, stops>>
    BY DEF checkFetch, j
  <1> HIDE DEF r
  <1> QED
    BY <1>2, <1>3, LookStep

LEMMA CheckRemoveStep ==
    ASSUME ImgInv, NEW h \in Handler, NEW i \in Image, checkRemove(h, i)
    PROVE  ImgInv'
  <1> DEFINE r == [want |-> "remove", at |-> "checked", job |-> [id |-> i]]
  <1>1. [id |-> i] \in [id : Image] /\ [id |-> i].id = i
    OBVIOUS
  <1>2. r \in Request /\ r.at = "checked" /\ r.job = [id |-> i]
    BY <1>1 DEF Request
  <1>3. /\ Ask(h) /\ req' = [req EXCEPT ![h] = r] /\ used[i] = "no"
        /\ UNCHANGED <<upset, rows, disk, used, queue, work, stops>>
    BY DEF checkRemove
  <1> HIDE DEF r
  <1> QED
    BY <1>1, <1>2, <1>3, LookStep

\* The row is entered whatever it says by now; whoever works on the image
\* leaves it to the job that is coming.
LEMMA EnterRowStep ==
    ASSUME ImgInv, NEW h \in Handler, enterRow(h)
    PROVE  ImgInv'
  <1>1. req[h] \in Request /\ req[h].want = "fetch" /\ req[h].at = "checked"
    BY Types DEF enterRow, ImgInv
  <1>2. req[h].job \in Job
    BY <1>1, RequestType
  <1>3. PICK i \in Image : i = req[h].job.id
    BY <1>2 DEF Job
  <1> DEFINE row == [url |-> req[h].job.url, state |-> "queued", note |-> "",
                     local |-> IF rows[i] = None THEN None ELSE rows[i].local,
                     sum |-> IF rows[i] = None THEN None ELSE rows[i].sum]
             r == [req[h] EXCEPT !.at = "entered"]
  <1>4. /\ rows' = [rows EXCEPT ![i] = row] /\ req' = [req EXCEPT ![h] = r]
        /\ UNCHANGED <<upset, disk, used, queue, work, asks, stops>>
    BY <1>3 DEF enterRow
  <1>5. /\ row \in Row /\ row.state = "queued"
        /\ rows[i] # None => row.sum = rows[i].sum /\ row.local = rows[i].local
    <2>1. rows[i] # None => rows[i].sum \in Content \cup {None} /\ rows[i].local \in Name \cup {None}
      BY Types DEF Row, ImgInv
    <2> QED
      BY <1>2, <2>1 DEF Row, Job
  <1>6. r \in Request /\ r # None /\ r.want = "fetch" /\ r.at = "entered" /\ r.job.id = i
    BY <1>1, <1>3, RequestType
  <1> HIDE DEF row, r
  <1>7. /\ rows'[i] = row /\ row # None /\ \A k \in Image \ {i} : rows'[k] = rows[k]
        /\ req'[h] = r /\ \A g \in Handler \ {h} : req'[g] = req[g]
    BY <1>4, <1>5, ImagesAssumption DEF ImgInv, ImgTypeOK
  <1>8. /\ OneRunner' /\ WorkTypeOK' /\ UNCHANGED <<pending, running, at, job, got>>
        /\ \A k : Waiting(k)' <=> Waiting(k)
    BY <1>4, QueueKept
  <1>9. ImgTypeOK'
    <2>1. rows' \in [Image -> Row \cup {None}] /\ req' \in [Handler -> Request \cup {None}]
      BY <1>4, <1>5, <1>6 DEF ImgInv, ImgTypeOK
    <2> QED
      BY <1>4, <1>8, <2>1 DEF ImgInv, ImgTypeOK
  <1>10. ASSUME NEW k \in Image PROVE Needed(k)'
    BY <1>4, <1>6, <1>7 DEF ImgInv, Needed, Removing
  <1>11. Files'
    <2> SUFFICES ASSUME NEW k \in Image \ upset PROVE Filed(k)'
      BY <1>4 DEF Files
    <2>1. Filed(k) /\ ImgTypeOK
      BY DEF ImgInv, Files
    <2>2. CASE k # i
      <3>1. Coming(k) => Coming(k)'
        BY <1>1, <1>7, <1>8 DEF Coming, Waiting, Entered
      <3> QED
        BY <1>4, <1>7, <1>8, <2>1, <2>2, <3>1, FiledStays
    <2>3. CASE k = i
      <3>1. Coming(k)'
        BY <1>6, <1>7, <2>3 DEF Coming, Entered
      <3>2. ReadyOrComing(k)'
        BY <3>1 DEF ReadyOrComing
      <3>3. ASSUME NEW w \in Worker, at'[w] \in AtWork, job'[w].id = k PROVE Progress(w, k)'
        <4>1. Progress(w, k) /\ at'[w] = at[w] /\ File(w)' = File(w)
          BY <1>8, <2>1, <3>3 DEF Filed, File
        <4>2. /\ ~Says(k)' /\ rows'[k] # None
              /\ rows[k] # None => rows'[k].sum = rows[k].sum /\ rows'[k].local = rows[k].local
          BY <1>5, <1>7, <2>3 DEF Says
        <4>3. at[w] \in {"mirrored", "prepare", "done"} => rows[k] # None
          BY <4>1 DEF Progress, Mirroring
        <4> QED
          BY <1>4, <1>8, <3>1, <4>1, <4>2, <4>3 DEF Progress, Fetched
      <3> QED
        BY <3>2, <3>3 DEF Filed
    <2> QED
      BY <2>2, <2>3
  <1> QED
    BY <1>8, <1>9, <1>10, <1>11 DEF ImgInv

\* The job is handed over, to the goroutine that runs or to a new one.
LEMMA EnqueueStep ==
    ASSUME ImgInv, NEW h \in Handler, enqueueImage(h)
    PROVE  ImgInv'
  <1>0. WorkTypeOK /\ ImgTypeOK /\ \A w \in Worker : w \in Process /\ w \notin Stray
    BY ImagesAssumption DEF ImgInv, ImgTypeOK, Process
  <1>1. req[h] \in Request /\ req[h].want = "fetch" /\ req[h].at = "entered"
    BY Types DEF enqueueImage, ImgInv
  <1>2. req[h].job \in Job /\ pending \in Seq(Job)
    BY <1>1, RequestType DEF ImgInv, ImgTypeOK
  <1>3. /\ pending' = Append(pending, req[h].job) /\ running' = TRUE /\ req' = [req EXCEPT ![h] = None]
        /\ UNCHANGED <<upset, rows, disk, used, job, got, asks, stops>>
        /\ IF running THEN at' = at
           ELSE \E w \in Worker : at[w] = "none" /\ at' = [at EXCEPT ![w] = "loop"]
    BY DEF enqueueImage
  <1>4. pending' \in Seq(Job) /\ req' \in [Handler -> Request \cup {None}]
    BY <1>2, <1>3 DEF ImgInv, ImgTypeOK
  <1>5. req'[h] = None /\ \A g \in Handler \ {h} : req'[g] = req[g]
    BY <1>3 DEF ImgInv, ImgTypeOK
  <1>6. /\ at' \in [Process -> {"none", "loop", "taken"} \cup AtWork]
        /\ \A w \in Process : at'[w] = at[w] \/ (w \in Worker /\ at[w] = "none" /\ at'[w] = "loop")
    BY <1>0, <1>3 DEF WorkTypeOK
  <1>7. ImgTypeOK'
    <2>1. \A s \in Stray : s \in Process /\ at'[s] = at[s]
      BY <1>0, <1>6 DEF Process
    <2>2. WorkTypeOK'
      BY <1>0, <1>3, <1>6, <2>1 DEF WorkTypeOK
    <2> QED
      BY <1>0, <1>3, <1>4, <2>2 DEF ImgTypeOK
  <1>8. OneRunner'
    <2>1. CASE running
      BY <1>3, <2>1 DEF ImgInv, OneRunner
    <2>2. CASE ~running
      <3>1. PICK w \in Worker : at[w] = "none" /\ at' = [at EXCEPT ![w] = "loop"]
        BY <1>3, <2>2
      <3>2. \A v \in Worker : at[v] = "none"
        BY <2>2 DEF ImgInv, OneRunner
      <3>3. at'[w] = "loop" /\ \A v \in Worker \ {w} : at'[v] = "none"
        BY <1>0, <3>1, <3>2 DEF WorkTypeOK
      <3> QED
        BY <1>3, <3>3 DEF OneRunner
    <2> QED
      BY <2>1, <2>2
  <1>9. \A i \in Image : Needed(i)'
    BY <1>3, <1>5 DEF ImgInv, Needed, Removing
  <1>10. Files'
    <2> SUFFICES ASSUME NEW i \in Image \ upset PROVE Filed(i)'
      BY <1>3 DEF Files
    <2>1. Filed(i)
      BY DEF ImgInv, Files
    <2>2. ASSUME Entered(req[h], i) PROVE Waiting(i)'
      <3>1. Len(pending) + 1 \in DOMAIN pending' /\ pending'[Len(pending) + 1] = req[h].job
        BY <1>2, <1>3
      <3> QED
        BY <2>2, <3>1 DEF Waiting, Entered
    <2>3. ASSUME Waiting(i) PROVE Waiting(i)'
      <3>1. PICK n \in DOMAIN pending : pending[n].id = i
        BY <2>3 DEF Waiting
      <3>2. n \in DOMAIN pending' /\ pending'[n] = pending[n]
        BY <1>2, <1>3, <3>1
      <3> QED
        BY <3>1, <3>2 DEF Waiting
    <2>4. ASSUME NEW g \in Handler, Entered(req[g], i) PROVE Coming(i)'
      BY <1>5, <2>2, <2>4 DEF Coming
    <2>5. ASSUME NEW w \in Worker, at[w] = "taken", job[w].id = i PROVE Coming(i)'
      BY <1>0, <1>3, <1>6, <2>5 DEF Coming
    <2>6. Coming(i) => Coming(i)'
      BY <2>3, <2>4, <2>5 DEF Coming
    <2>7. \A w \in Worker : at'[w] \in AtWork => at'[w] = at[w]
      BY <1>0, <1>6 DEF AtWork, Mirroring, Preparing
    <2> QED
      BY <1>0, <1>3, <2>1, <2>6, <2>7, FiledStays
  <1> QED
    BY <1>7, <1>8, <1>9, <1>10 DEF ImgInv

\* A removal upsets the image if the goroutine has it, and every other image
\* for which the file counts.
LEMMA RemoveImageStep ==
    ASSUME ImgInv, NEW h \in Handler, removeImage(h)
    PROVE  ImgInv'
  <1>1. req[h] \in Request /\ req[h].want = "remove" /\ ImgTypeOK
    BY Types DEF removeImage, ImgInv
  <1>2. PICK i \in Image : i = req[h].job.id
    BY <1>1, RequestType
  <1> DEFINE files == {n \in Name : rows[i] # None /\ rows[i].local = n}
  <1>3. /\ rows' = [rows EXCEPT ![i] = None] /\ req' = [req EXCEPT ![h] = None]
        /\ disk' = [n \in Name |-> IF n \in files THEN None ELSE disk[n]]
        /\ upset' = upset \cup {k \in {i} : \E w \in Worker : Holds(w, k)}
                          \cup ((UNION {Concerns(n) : n \in files}) \ {i})
        /\ UNCHANGED <<used, queue, work, asks, stops>>
    BY <1>2 DEF removeImage
  <1>4. /\ rows'[i] = None /\ \A k \in Image \ {i} : rows'[k] = rows[k]
        /\ req'[h] = None /\ \A g \in Handler \ {h} : req'[g] = req[g]
    BY <1>1, <1>3 DEF ImgTypeOK
  <1> HIDE DEF files
  <1>5. OneRunner' /\ WorkTypeOK' /\ UNCHANGED <<pending, running, at, job, got>>
    BY <1>3, QueueKept
  <1>6. ASSUME NEW k \in Image \ upset', k # i, NEW n \in Name, k \in Concerns(n)
        PROVE  disk'[n] = disk[n]
    <2>1. n \notin files
      BY <1>3, <1>6
    <2> QED
      BY <1>3, <2>1
  <1>7. ImgTypeOK'
    <2>1. disk' \in [Name -> Content \cup {None}]
      BY <1>1, <1>3, Types
    <2>2. upset' \subseteq Image
      BY <1>1, <1>3 DEF ImgTypeOK, Concerns
    <2>3. rows' \in [Image -> Row \cup {None}] /\ req' \in [Handler -> Request \cup {None}]
      BY <1>1, <1>3 DEF ImgTypeOK
    <2> QED
      BY <1>1, <1>3, <1>5, <2>1, <2>2, <2>3 DEF ImgTypeOK
  <1>8. ASSUME NEW k \in Image PROVE Needed(k)'
    <2>1. Removing(i)
      BY <1>1, <1>2, RequestType DEF Removing
    <2> QED
      BY <1>3, <1>4, <2>1 DEF ImgInv, Needed, Removing
  <1>9. Files'
    <2> SUFFICES ASSUME NEW k \in Image \ upset' PROVE Filed(k)'
      BY DEF Files
    <2>1. Filed(k)
      BY <1>3 DEF ImgInv, Files
    <2>2. CASE k = i
      <3>1. \A w \in Worker : ~Holds(w, k)
        BY <1>3, <2>2
      <3>2. \A w \in Worker : ~(at[w] \in AtWork /\ job[w].id = k)
        BY <3>1 DEF Holds, AtWork, Mirroring, Preparing
      <3>3. ~Says(k)'
        BY <1>4, <2>2 DEF Says
      <3> QED
        BY <1>5, <3>2, <3>3 DEF Filed, ReadyOrComing
    <2>3. CASE k # i
      <3>1. Coming(k) => Coming(k)'
        BY <1>1, <1>4, <1>5 DEF Coming, Waiting, Entered
      <3> QED
        BY <1>1, <1>4, <1>5, <1>6, <2>1, <2>3, <3>1, FiledStays
    <2> QED
      BY <2>2, <2>3
  <1> QED
    BY <1>5, <1>7, <1>8, <1>9 DEF ImgInv

LEMMA BladeImageStep ==
    ASSUME ImgInv, NEW i \in Image, hUIBladeImage(i)
    PROVE  ImgInv'
  <1>1. /\ UNCHANGED <<upset, rows, disk, queue, work, req, stops>> /\ asks' \in 0..MaxAsks
        /\ used' \in [Image -> {"no", "yes", "late"}] /\ \A k \in Image \ {i} : used'[k] = used[k]
        /\ used'[i] = "yes" => rows[i] # None /\ ~Removing(i)
    <2>1. /\ UNCHANGED <<upset, rows, disk, queue, work, req, stops>> /\ asks' = asks + 1
          /\ asks < MaxAsks
          /\ \E a \in {"no", "yes", "late"} :
                /\ used' = [used EXCEPT ![i] = a]
                /\ a = "yes" => rows[i] # None /\ ~Removing(i)
      BY DEF hUIBladeImage
    <2>2. asks' \in 0..MaxAsks
      BY <2>1, ImagesAssumption DEF ImgInv, ImgTypeOK
    <2>3. used \in [Image -> {"no", "yes", "late"}]
      BY DEF ImgInv, ImgTypeOK
    <2> QED
      BY <2>1, <2>2, <2>3
  <1>2. OneRunner' /\ WorkTypeOK' /\ UNCHANGED <<pending, running, at, job, got>>
    BY <1>1, QueueKept
  <1>3. ImgTypeOK'
    BY <1>1, <1>2 DEF ImgInv, ImgTypeOK
  <1>4. \A k \in Image : Needed(k)'
    BY <1>1 DEF ImgInv, Needed, Removing
  <1>5. Files'
    <2> SUFFICES ASSUME NEW k \in Image \ upset PROVE Filed(k)'
      BY <1>1 DEF Files
    <2>1. Filed(k) /\ ImgTypeOK /\ (Coming(k) => Coming(k)')
      BY <1>1, <1>2 DEF ImgInv, Files, Coming, Waiting
    <2> QED
      BY <1>1, <1>2, <2>1, FiledStays
  <1> QED
    BY <1>2, <1>3, <1>4, <1>5 DEF ImgInv

-----------------------------------------------------------------------------
LEMMA ImagesStart ==
    ASSUME ImgInit
    PROVE  ImgInv
  <1>1. \A p \in Process : at[p] = "none"
    BY DEF ImgInit
  <1>2. ImgTypeOK
    <2>1. WorkTypeOK
      BY <1>1 DEF ImgInit, WorkTypeOK, Process
    <2>2. /\ rows \in [Image -> Row \cup {None}] /\ disk \in [Name -> Content \cup {None}]
          /\ req \in [Handler -> Request \cup {None}]
      BY DEF ImgInit
    <2>3. used \in [Image -> {"no", "yes", "late"}] /\ upset \subseteq Image /\ running \in BOOLEAN
      BY DEF ImgInit
    <2>4. asks \in 0..MaxAsks /\ stops \in 0..MaxStops /\ pending \in Seq(Job)
      BY ImagesAssumption DEF ImgInit
    <2> QED
      BY <2>1, <2>2, <2>3, <2>4 DEF ImgTypeOK
  <1>3. OneRunner
    BY <1>1 DEF ImgInit, OneRunner, Process
  <1>4. \A i \in Image : Needed(i)
    BY DEF ImgInit, Needed
  <1>5. Files
    BY <1>1 DEF ImgInit, Files, Filed, ReadyOrComing, Says, AtWork, Mirroring, Preparing, Process
  <1> QED
    BY <1>2, <1>3, <1>4, <1>5 DEF ImgInv

LEMMA ImagesKept ==
    ASSUME ImgInv, [ImgNext]_ivars
    PROVE  ImgInv'
  <1>1. CASE People
    BY <1>1, CheckFetchStep, CheckRemoveStep, BladeImageStep DEF People
  <1>2. CASE \E h \in Handler : Proceeds(h)
    BY <1>2, EnterRowStep, EnqueueStep, RemoveImageStep DEF Proceeds
  <1>3. CASE \E w \in Worker : Works(w)
    <2>1. PICK w \in Worker : Works(w)
      BY <1>3
    <2>2. CASE Script(w)
      BY <2>2, PlaceStep, PostMirrorStep, UnpackStep, ReplaceStep, PostPrepareStep DEF Script
    <2>3. CASE takeJob(w) \/ endQueue(w) \/ startWork(w) \/ startPrepare(w) \/ ready(w)
      BY <2>3, TakeJobStep, EndQueueStep, StartWorkStep, StartPrepareStep, ReadyStep
    <2>4. CASE postRefused(w) \/ mirrorFails(w) \/ prepareFails(w) \/ \E s \in Stray : giveUp(w, s)
      BY <2>4, PostRefusedStep, MirrorFailsStep, PrepareFailsStep, GiveUpStep
    <2> QED
      BY <2>1, <2>2, <2>3, <2>4 DEF Works
  <1>4. CASE \E s \in Stray : Script(s) \/ strayEnds(s)
    BY <1>4, StrayScriptStep, StrayEndsStep
  <1>5. CASE restart
    BY <1>5, RestartStep
  <1>6. CASE UNCHANGED ivars
    <2>1. /\ UNCHANGED <<rows, disk, used, upset, pending, running, at, job, got, req, asks, stops>>
          /\ UNCHANGED <<queue, work>>
      BY <1>6 DEF ivars, queue, work
    <2>2. OneRunner' /\ WorkTypeOK'
      BY <2>1, QueueKept
    <2>3. ImgTypeOK' /\ \A k \in Image : Needed(k)'
      BY <2>1, <2>2 DEF ImgInv, ImgTypeOK, Needed, Removing
    <2>4. Files'
      <3> SUFFICES ASSUME NEW i \in Image \ upset PROVE Filed(i)'
        BY <2>1 DEF Files
      <3>1. Filed(i) /\ ImgTypeOK /\ (Coming(i) => Coming(i)')
        BY <2>1 DEF ImgInv, Files, Coming, Waiting
      <3> QED
        BY <2>1, <3>1, FiledStays
    <2> QED
      BY <2>2, <2>3, <2>4 DEF ImgInv
  <1> QED
    BY <1>1, <1>2, <1>3, <1>4, <1>5, <1>6 DEF ImgNext

\* The queue, the requests, the rows and the files stay in step (images.go).
THEOREM ImagesInvariant == ImgSpec => []ImgInv
  BY ImagesStart, ImagesKept, PTL DEF ImgSpec

\* Rows, files, jobs and requests are of the kinds images.go writes.
THEOREM ImagesTypeCorrect == ImgSpec => []ImgTypeOK
  <1>1. ImgInv => ImgTypeOK
    BY DEF ImgInv
  <1> QED
    BY <1>1, ImagesInvariant, PTL

\* enqueueImage never starts a second goroutine, and of two scripts at work
\* runTool has given one up (images.go runImageQueue, runTool).
THEOREM QueueRunsOneJob == ImgSpec => []OneAtATime
  <1>1. ImgInv => OneAtATime
    <2> SUFFICES ASSUME ImgInv, NEW p \in Scripts, NEW q \in Scripts, p \notin Stray, q \notin Stray
                 PROVE  p = q
      BY DEF ImgInv, OneRunner, OneAtATime
    <2>1. p \in Worker /\ q \in Worker /\ at[p] # "none" /\ at[q] # "none"
      BY DEF Scripts, Process, Mirroring, Preparing
    <2> QED
      BY <2>1 DEF ImgInv, OneRunner
  <1> QED
    BY <1>1, ImagesInvariant, PTL

\* removeImage leaves the entry of an image that a blade was given in time.
THEOREM NeededImageStays == ImgSpec => []UsedStays
  <1>1. ImgInv => UsedStays
    BY DEF ImgInv, Needed, UsedStays
  <1> QED
    BY <1>1, ImagesInvariant, PTL

\* What workImage calls ready, without a note, is the file that the row
\* describes, however many fetches and removals of the image cross each other,
\* unless something outside its job came between since the job began: a restart,
\* a POST answered with an error, a script given up, another image's file.
THEOREM ReadyImageIsWhole == ImgSpec => []ReadyIsWhole
  <1>1. ImgInv => ReadyIsWhole
    <2> SUFFICES ASSUME ImgInv, NEW i \in Image \ upset, Says(i), ~InHand(i), ~Asked(i)
                 PROVE  Whole(i)
      BY DEF ReadyIsWhole, Whole, Says
    <2>1. ~Coming(i)
      BY DEF Coming, Entered, InHand, Holds, Asked
    <2> QED
      BY <2>1 DEF ImgInv, Files, Filed, ReadyOrComing
  <1> QED
    BY <1>1, ImagesInvariant, PTL
=============================================================================
