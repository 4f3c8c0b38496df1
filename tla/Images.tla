------------------------------- MODULE Images -------------------------------
(***************************************************************************)
(* The catalogue of images at the centre and the queue that fills it       *)
(* (server/images.go; hImagesCreate in server/api.go).  A person asks for  *)
(* an image: the handler looks whether it is busy, enters the row, and     *)
(* hands the job to the queue, three steps that other handlers may come    *)
(* between.  One goroutine takes the jobs one by one and runs              *)
(* mirror-image.sh and prepare-image.sh; the scripts put the file in place *)
(* and enter it in the catalogue over the API.  The queue is memory only.  *)
(*                                                                         *)
(* runTool waits ninety minutes for a script.  The process it then tries   *)
(* to kill is root's, the error is ignored: the script is given up and     *)
(* goes on, as a stray, beside the next job.                               *)
(*                                                                         *)
(* A file is known by where it came from and whether it was prepared;      *)
(* sha256 and bytes of a row are one value, the file they describe.        *)
(***************************************************************************)
EXTENDS Naturals, Sequences, SequencesExt, FiniteSets

CONSTANTS
    Image, URL,
    Name,          \* file names under images/
    Handler,       \* requests of people that are under way at the same time
    Worker,        \* goroutines that could run the queue
    Stray,         \* scripts that were given up and run at the same time
    mirrorName,    \* the name mirror-image.sh gives the file of a job
    preparedName,  \* the name prepare-image.sh gives it ("x.img": "x.img.xz")
    None,
    MaxAsks,       \* requests of people
    MaxStops       \* restarts of the server

Content == [url : URL, prepared : BOOLEAN]
Job == [id : Image, url : URL, prepare : BOOLEAN]
Row == [url : URL, local : Name \cup {None}, sum : Content \cup {None},
        state : {"", "queued", "working", "ready", "error"},
        note : {"", "not prepared"}]
Unpacked == [file : Name, content : Content]
Request == [want : {"fetch"}, at : {"checked", "entered"}, job : Job]
             \cup [want : {"remove"}, at : {"checked"}, job : [id : Image]]
Process == Worker \cup Stray

ASSUME ImagesAssumption ==
    /\ MaxAsks \in Nat /\ MaxStops \in Nat
    /\ Worker \cap Stray = {}
    /\ mirrorName \in [Job -> Name] /\ preparedName \in [Name -> Name]
    /\ None \notin Content \cup Job \cup Row \cup Request \cup Name \cup Unpacked

VARIABLES
    rows,      \* the images table
    disk,      \* the files
    used,      \* blades that are to be installed from an image
    upset,     \* images whose job, file or row something else came between
    pending,   \* imageQueue.pending
    running,   \* imageQueue.running
    at,        \* where each goroutine of runImageQueue and each stray is
    job,       \* the job it has taken
    got,       \* what its prepare-image.sh has unpacked
    req,       \* where each request is
    asks, stops

queue == <<pending, running>>
work == <<at, job, got>>
ivars == <<rows, disk, used, upset, queue, work, req, asks, stops>>

Mirroring == {"mirror", "placed"}
Preparing == {"prepare", "unpacked", "replaced"}
AtWork == Mirroring \cup {"mirrored"} \cup Preparing \cup {"done"}

WorkTypeOK ==
    /\ at \in [Process -> {"none", "loop", "taken"} \cup AtWork]
    /\ \A s \in Stray : at[s] \in {"none"} \cup Mirroring \cup Preparing
    /\ job \in [Process -> Job \cup {None}]
    /\ \A p \in Process : at[p] \notin {"none", "loop"} => job[p] # None
    /\ got \in [Process -> Unpacked \cup {None}]
    /\ \A p \in Process : at[p] \in {"unpacked", "replaced"} => got[p] # None

ImgTypeOK ==
    /\ rows \in [Image -> Row \cup {None}]
    /\ disk \in [Name -> Content \cup {None}]
    /\ used \in [Image -> {"no", "yes", "late"}]
    /\ upset \subseteq Image
    /\ pending \in Seq(Job)
    /\ running \in BOOLEAN
    /\ WorkTypeOK
    /\ req \in [Handler -> Request \cup {None}]
    /\ asks \in 0..MaxAsks /\ stops \in 0..MaxStops

ImgInit ==
    /\ rows = [i \in Image |-> None]
    /\ disk = [n \in Name |-> None]
    /\ used = [i \in Image |-> "no"] /\ upset = {}
    /\ pending = <<>> /\ running = FALSE
    /\ at = [p \in Process |-> "none"]
    /\ job = [p \in Process |-> None]
    /\ got = [p \in Process |-> None]
    /\ req = [h \in Handler |-> None]
    /\ asks = 0 /\ stops = 0

-----------------------------------------------------------------------------
\* imageBusy: in the queue, or the row says that it is being worked on.
Waiting(i) == \E n \in DOMAIN pending : pending[n].id = i
imageBusy(i) ==
    \/ Waiting(i)
    \/ rows[i] # None /\ rows[i].state = "working"

\* setImageState: an UPDATE, which does nothing to a row that is gone.
setImageState(i, state, note) ==
    rows' = IF rows[i] = None THEN rows
            ELSE [rows EXCEPT ![i] = [@ EXCEPT !.state = state, !.note = note]]

Ask(h) == req[h] = None /\ asks < MaxAsks /\ asks' = asks + 1

\* startImageFetch looks whether the image is busy ...
checkFetch(h, i, u, prep) ==
    /\ Ask(h) /\ ~imageBusy(i)
    /\ req' = [req EXCEPT ![h] = [want |-> "fetch", at |-> "checked",
                                  job |-> [id |-> i, url |-> u, prepare |-> prep]]]
    /\ UNCHANGED <<upset, rows, disk, used, queue, work, stops>>

\* ... enters it, whatever the row says by now ...
enterRow(h) ==
    LET j == req[h].job IN
    /\ req[h] # None /\ req[h].want = "fetch" /\ req[h].at = "checked"
    /\ rows' = [rows EXCEPT ![j.id] =
                    [url |-> j.url, state |-> "queued", note |-> "",
                     local |-> IF rows[j.id] = None THEN None ELSE rows[j.id].local,
                     sum |-> IF rows[j.id] = None THEN None ELSE rows[j.id].sum]]
    /\ req' = [req EXCEPT ![h].at = "entered"]
    /\ UNCHANGED <<upset, disk, used, queue, work, asks, stops>>

\* Mutant: a goroutine for every job.
enqueueImage_Always(h) ==
    /\ req[h] # None /\ req[h].want = "fetch" /\ req[h].at = "entered"
    /\ pending' = Append(pending, req[h].job)
    /\ running' = TRUE
    /\ \E w \in Worker : at[w] = "none" /\ at' = [at EXCEPT ![w] = "loop"]
    /\ req' = [req EXCEPT ![h] = None]
    /\ UNCHANGED <<upset, rows, disk, used, job, got, asks, stops>>

\* Mutant: the goroutine is not started again once it has ended.
enqueueImage_Never(h) ==
    /\ req[h] # None /\ req[h].want = "fetch" /\ req[h].at = "entered"
    /\ pending' = Append(pending, req[h].job)
    /\ UNCHANGED <<at, running>>
    /\ req' = [req EXCEPT ![h] = None]
    /\ UNCHANGED <<upset, rows, disk, used, job, got, asks, stops>>

\* ... and hands it over: enqueueImage, which starts the goroutine if none runs.
enqueueImage(h) ==
    /\ req[h] # None /\ req[h].want = "fetch" /\ req[h].at = "entered"
    /\ pending' = Append(pending, req[h].job)
    /\ running' = TRUE
    /\ IF running THEN UNCHANGED at
       ELSE \E w \in Worker : at[w] = "none" /\ at' = [at EXCEPT ![w] = "loop"]
    /\ req' = [req EXCEPT ![h] = None]
    /\ UNCHANGED <<upset, rows, disk, used, job, got, asks, stops>>

\* Mutant: nobody asks for the blades.
checkRemove_Unasked(h, i) ==
    /\ Ask(h) /\ rows[i] # None
    /\ ~imageBusy(i)
    /\ req' = [req EXCEPT ![h] = [want |-> "remove", at |-> "checked", job |-> [id |-> i]]]
    /\ UNCHANGED <<upset, rows, disk, used, queue, work, stops>>

\* removeImage looks whether it is busy and whether a blade needs it ...
checkRemove(h, i) ==
    /\ Ask(h) /\ rows[i] # None
    /\ ~imageBusy(i) /\ used[i] = "no"
    /\ req' = [req EXCEPT ![h] = [want |-> "remove", at |-> "checked", job |-> [id |-> i]]]
    /\ UNCHANGED <<upset, rows, disk, used, queue, work, stops>>

\* The goroutine has a job for it.
Holds(w, i) == at[w] \notin {"none", "loop"} /\ job[w].id = i

\* The images for which the file of that name counts: their row names it, or
\* the goroutine's job does.
Concerns(n) ==
    {i \in Image :
        \/ rows[i] # None /\ rows[i].local = n
        \/ \E w \in Worker : /\ at[w] \in AtWork /\ job[w].id = i
                             /\ n \in {mirrorName[job[w]], preparedName[mirrorName[job[w]]]}}

InHand(i) == Waiting(i) \/ \E w \in Worker : Holds(w, i)
Asked(i) == \E h \in Handler : req[h] # None /\ req[h].job.id = i

\* ... and deletes the row and the file it names, whoever else names it.
removeImage(h) ==
    LET i == req[h].job.id
        files == {n \in Name : rows[i] # None /\ rows[i].local = n} IN
    /\ req[h] # None /\ req[h].want = "remove"
    /\ disk' = [n \in Name |-> IF n \in files THEN None ELSE disk[n]]
    /\ rows' = [rows EXCEPT ![i] = None]
    /\ req' = [req EXCEPT ![h] = None]
    /\ upset' = upset \cup {k \in {i} : \E w \in Worker : Holds(w, k)}
                     \cup ((UNION {Concerns(n) : n \in files}) \ {i})
    /\ UNCHANGED <<used, queue, work, asks, stops>>

\* A blade is given an image of the list, or it is taken away again: "late"
\* when a removal has already looked.
Removing(i) == \E h \in Handler : req[h] # None /\ req[h].want = "remove" /\ req[h].job.id = i

hUIBladeImage(i) ==
    /\ \/ /\ used[i] = "no" /\ rows[i] # None
          /\ used' = [used EXCEPT ![i] = IF Removing(i) THEN "late" ELSE "yes"]
       \/ /\ used[i] # "no"
          /\ used' = [used EXCEPT ![i] = "no"]
    /\ asks < MaxAsks /\ asks' = asks + 1
    /\ UNCHANGED <<upset, rows, disk, queue, work, req, stops>>

-----------------------------------------------------------------------------
Goes(p, where) == at' = [at EXCEPT ![p] = where] /\ UNCHANGED <<job, got>>

\* The goroutine is through with its job, or a stray with its script.
Ends(p) ==
    /\ at' = [at EXCEPT ![p] = IF p \in Worker THEN "loop" ELSE "none"]
    /\ job' = [job EXCEPT ![p] = None]
    /\ got' = [got EXCEPT ![p] = None]

\* runImageQueue: the next job, or the end.
takeJob(w) ==
    /\ at[w] = "loop" /\ pending # <<>>
    /\ pending' = Tail(pending)
    /\ job' = [job EXCEPT ![w] = Head(pending)]
    /\ at' = [at EXCEPT ![w] = "taken"]
    /\ UNCHANGED <<upset, rows, disk, used, running, got, req, asks, stops>>

endQueue(w) ==
    /\ at[w] = "loop" /\ pending = <<>>
    /\ running' = FALSE
    /\ Goes(w, "none")
    /\ UNCHANGED <<upset, rows, disk, used, pending, req, asks, stops>>

\* workImage ...
startWork(w) ==
    /\ at[w] = "taken"
    /\ setImageState(job[w].id, "working", "")
    /\ Goes(w, "mirror")
    /\ upset' = upset \ {job[w].id}
    /\ UNCHANGED <<disk, used, queue, req, asks, stops>>

\* What a script that writes this file upsets: nothing of its own job, unless
\* it was given up.
Upsets(p, n) == {i \in Concerns(n) : p \in Stray \/ i # job[p].id}

\* ... mirror-image.sh: the file is put in place ...
place(p) ==
    LET n == mirrorName[job[p]] IN
    /\ at[p] = "mirror"
    /\ disk' = [disk EXCEPT ![n] = [url |-> job[p].url, prepared |-> FALSE]]
    /\ upset' = upset \cup Upsets(p, n)
    /\ Goes(p, "placed")
    /\ UNCHANGED <<rows, used, queue, req, asks, stops>>

\* Mutant: the checksum of an entry that has one is kept.
hImagesCreate_KeepsSum(i, url, n) ==
    rows' = [rows EXCEPT ![i] =
        IF rows[i] = None THEN [url |-> url, local |-> n, sum |-> disk[n], state |-> "", note |-> ""]
        ELSE [rows[i] EXCEPT !.url = url, !.local = n, !.sum = IF @ = None THEN disk[n] ELSE @]]

\* hImagesCreate, with what the scripts say of the file: only the fields the
\* caller knows, and a row of its own where there is none any more.
hImagesCreate(i, url, n) ==
    rows' = [rows EXCEPT ![i] =
        IF rows[i] = None THEN [url |-> url, local |-> n, sum |-> disk[n], state |-> "", note |-> ""]
        ELSE [rows[i] EXCEPT !.url = url, !.local = n, !.sum = disk[n]]]

\* A script has come to its end, with success.
Through(p, where) == IF p \in Stray THEN Ends(p) ELSE Goes(p, where)
Mirrored(p) == Through(p, IF job[p].prepare THEN "mirrored" ELSE "done")

\* ... and entered, by an owner of the row or by a stray ...
Enters(p) == upset' = upset \cup {i \in {job[p].id} : p \in Stray}

postMirror(p) ==
    LET n == mirrorName[job[p]] IN
    /\ at[p] = "placed" /\ disk[n] # None
    /\ hImagesCreate(job[p].id, job[p].url, n)
    /\ Enters(p)
    /\ Mirrored(p)
    /\ UNCHANGED <<disk, used, queue, req, asks, stops>>

\* ... or the server answers the POST with an error, which curl takes for
\* success; so it is after prepare-image.sh ...
postRefused(w) ==
    /\ \/ at[w] = "placed" /\ Mirrored(w)
       \/ at[w] = "replaced" /\ Through(w, "done")
    /\ upset' = upset \cup {job[w].id}
    /\ UNCHANGED <<rows, disk, used, queue, req, asks, stops>>

\* ... or the script ends with an error: no download, no file, no answer.
mirrorFails(w) ==
    /\ at[w] \in Mirroring
    /\ setImageState(job[w].id, "error", "")
    /\ Ends(w)
    /\ UNCHANGED <<upset, disk, used, queue, req, asks, stops>>

\* ... then prepare-image.sh, if there is something to install into it: it
\* unpacks the file the row names ...
startPrepare(w) ==
    /\ at[w] = "mirrored"
    /\ setImageState(job[w].id, "working", "")
    /\ Goes(w, "prepare")
    /\ UNCHANGED <<upset, disk, used, queue, req, asks, stops>>

unpack(p) ==
    LET i == job[p].id IN
    /\ at[p] = "prepare"
    /\ rows[i] # None /\ rows[i].local # None /\ disk[rows[i].local] # None
    /\ got' = [got EXCEPT ![p] = [file |-> rows[i].local, content |-> disk[rows[i].local]]]
    /\ at' = [at EXCEPT ![p] = "unpacked"]
    /\ UNCHANGED <<upset, rows, disk, used, queue, job, req, asks, stops>>

\* ... puts the changed one in its place, or beside it, and then it goes ...
replace(p) ==
    LET n == preparedName[got[p].file] IN
    /\ at[p] = "unpacked"
    /\ disk' = [f \in Name |->
                    CASE f = n -> [got[p].content EXCEPT !.prepared = TRUE]
                      [] f # n /\ f = got[p].file -> None
                      [] OTHER -> disk[f]]
    /\ upset' = upset \cup Upsets(p, n) \cup Upsets(p, got[p].file)
    /\ Goes(p, "replaced")
    /\ UNCHANGED <<rows, used, queue, req, asks, stops>>

\* ... and enters it with the url the catalogue has by now ...
postPrepare(p) ==
    LET i == job[p].id
        n == preparedName[got[p].file] IN
    /\ at[p] = "replaced" /\ disk[n] # None
    /\ hImagesCreate(i, IF rows[i] = None THEN job[p].url ELSE rows[i].url, n)
    /\ Enters(p)
    /\ Through(p, "done")
    /\ UNCHANGED <<disk, used, queue, req, asks, stops>>

\* ... a failure of which leaves the image ready, "fetched, but not prepared".
prepareFails(w) ==
    /\ at[w] \in Preparing
    /\ setImageState(job[w].id, "ready", "not prepared")
    /\ Ends(w)
    /\ UNCHANGED <<upset, disk, used, queue, req, asks, stops>>

ready(w) ==
    /\ at[w] = "done"
    /\ setImageState(job[w].id, "ready", "")
    /\ Ends(w)
    /\ UNCHANGED <<upset, disk, used, queue, req, asks, stops>>

\* runTool gives a script up after ninety minutes, which counts as a failure;
\* the script goes on.
giveUp(w, s) ==
    /\ at[w] \in Mirroring \cup Preparing /\ at[s] = "none"
    /\ IF at[w] \in Mirroring THEN setImageState(job[w].id, "error", "")
       ELSE setImageState(job[w].id, "ready", "not prepared")
    /\ at' = [at EXCEPT ![w] = "loop", ![s] = at[w]]
    /\ job' = [job EXCEPT ![w] = None, ![s] = job[w]]
    /\ got' = [got EXCEPT ![w] = None, ![s] = got[w]]
    /\ UNCHANGED <<upset, disk, used, queue, req, asks, stops>>

\* A stray ends without having entered anything.
strayEnds(s) ==
    /\ at[s] # "none"
    /\ Ends(s)
    /\ UNCHANGED <<upset, rows, disk, used, queue, req, asks, stops>>

\* The server is restarted: requests, queue, goroutine and scripts are gone,
\* the database and the files stay.  Nothing looks at the states again.
restart ==
    /\ stops < MaxStops
    /\ stops' = stops + 1
    /\ pending' = <<>> /\ running' = FALSE
    /\ at' = [p \in Process |-> "none"]
    /\ job' = [p \in Process |-> None]
    /\ got' = [p \in Process |-> None]
    /\ req' = [h \in Handler |-> None]
    /\ upset' = upset \cup {i \in Image : InHand(i) \/ Asked(i)}
    /\ UNCHANGED <<rows, disk, used, asks>>

-----------------------------------------------------------------------------
People ==
    \/ \E h \in Handler, i \in Image :
         \/ \E u \in URL, prep \in BOOLEAN : checkFetch(h, i, u, prep)
         \/ checkRemove(h, i)
    \/ \E i \in Image : hUIBladeImage(i)

Proceeds(h) == enterRow(h) \/ enqueueImage(h) \/ removeImage(h)

\* A script, run by the goroutine or given up by it.
Script(p) == place(p) \/ postMirror(p) \/ unpack(p) \/ replace(p) \/ postPrepare(p)

Works(w) ==
    \/ takeJob(w) \/ endQueue(w) \/ startWork(w) \/ startPrepare(w) \/ ready(w)
    \/ Script(w) \/ postRefused(w) \/ mirrorFails(w) \/ prepareFails(w)
    \/ \E s \in Stray : giveUp(w, s)

ImgNext ==
    \/ People
    \/ \E h \in Handler : Proceeds(h)
    \/ \E w \in Worker : Works(w)
    \/ \E s \in Stray : Script(s) \/ strayEnds(s)
    \/ restart

ImgSpec == ImgInit /\ [][ImgNext]_ivars

\* A handler finishes, and so does the goroutine: a script ends, or runTool
\* gives it up after ninety minutes.  Of a stray nothing is promised.
FairImgSpec ==
    /\ ImgSpec
    /\ \A h \in Handler : WF_ivars(Proceeds(h))
    /\ \A w \in Worker : WF_ivars(Works(w))

-----------------------------------------------------------------------------
\* One job at a time, however requests, the end of the queue and a restart
\* fall together (images.go imageQueue: "two chroots and two gigabyte
\* downloads at once on a Raspberry Pi is how a server stops answering"): of
\* two scripts at work at the same time one has been given up by runTool.
Scripts == {p \in Process : at[p] \in Mirroring \cup Preparing}
OneAtATime ==
    /\ \A v, w \in Worker : at[v] # "none" /\ at[w] # "none" => v = w
    /\ \A p, q \in Scripts : p # q => p \in Stray \/ q \in Stray

\* An image that says "ready" without a note, with nothing under way about it,
\* has the file that its name, checksum, size and url describe, whatever
\* fetches and removals of it were under way at the same time (images.go
\* startImageFetch, workImage, removeImage), unless something came between
\* since its last job began: a removal that had looked before the job did, a
\* restart, a POST answered with an error, a script given up earlier, or another
\* image whose file has the same name.
ReadyIsWhole ==
    \A i \in Image \ upset :
        /\ rows[i] # None /\ rows[i].state = "ready" /\ rows[i].note = ""
        /\ ~InHand(i) /\ ~Asked(i)
        => /\ rows[i].local # None /\ disk[rows[i].local] # None
           /\ rows[i].sum = disk[rows[i].local]
           /\ rows[i].url = disk[rows[i].local].url

\* The entry of an image that a blade is to be installed from stays, unless the
\* blade was given it after the removal had looked (images.go removeImage:
\* "removing the entry under it would leave a reinstall with nowhere to go").
UsedStays == \A i \in Image : used[i] = "yes" => rows[i] # None

\* What is in the queue comes to an end: the image is ready, or says why not,
\* or was removed (images.go runImageQueue), unless the server is restarted.
QueueSettles ==
    \A i \in Image, n \in 0..MaxStops :
        (InHand(i) /\ stops = n)
            ~> \/ rows[i] = None \/ stops > n
               \/ rows[i].state \in {"ready", "error"}
=============================================================================
