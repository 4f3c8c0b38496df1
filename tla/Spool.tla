------------------------------- MODULE Spool --------------------------------
(***************************************************************************)
(* A buffer of the site service and the file that is to carry it over a    *)
(* restart (site/spool.go).  There are two: the blades' reports, handed    *)
(* over one by one (site/relay.go forwardOrQueue, drain), and the site's   *)
(* own events, handed over in one request (site/site.go note, stageIP,     *)
(* flush).  batch says which.                                              *)
(*                                                                         *)
(* The pull loop hands over at the end of each pass; a finished            *)
(* installation starts a second pass beside it ("refresh", where second    *)
(* says one finishes).  Both write the file when they are through, and a   *)
(* ticker writes it every second.                                          *)
(***************************************************************************)
EXTENDS Naturals, Sequences, SequencesExt

CONSTANTS
    MaxItems,    \* things that happen at the site, numbered as they happen
    MaxQueue,    \* maxPending or maxQueued, scaled down
    MaxFaults,   \* requests and writes that fail, answers lost or an error
    MaxStops     \* crashes and orderly stops

ASSUME SpoolAssumption ==
    /\ MaxItems \in Nat /\ MaxQueue \in Nat \ {0} /\ MaxFaults \in Nat /\ MaxStops \in Nat

VARIABLES
    batch,     \* the events' buffer, not the reports'; never changes
    second,    \* installations finish, so that passes overlap; never changes
    pending,   \* the buffer
    hand,      \* what each hand-over has taken out of it
    doing,     \* where each hand-over and the ticker are
    dirty,     \* spool.dirty
    snap,      \* the copy each writer is about to put on disk
    file,      \* the spool file
    up,        \* the service runs
    count,     \* things that have happened
    kept,      \* those the buffer took
    sent,      \* what reached the centre, in that order
    dropped,   \* what was cut off at the limit
    refused,   \* what left the buffer on an answer that was an error
    faults, stops

fixed == <<batch, second>>
memory == <<pending, hand, doing, dirty, snap>>
vars == <<batch, second, memory, file, up, count, kept, sent, dropped, refused, faults, stops>>

Item == 1..MaxItems
Drainer == {"loop", "refresh"}
Writer == Drainer \cup {"ticker"}

SpoolTypeOK ==
    /\ batch \in BOOLEAN /\ second \in BOOLEAN
    /\ pending \in Seq(Item)
    /\ hand \in [Drainer -> Seq(Item)]
    /\ doing \in [Writer -> {"idle", "sending", "saving", "writing"}]
    /\ doing["ticker"] \in {"idle", "writing"}
    /\ dirty \in BOOLEAN
    /\ snap \in [Writer -> Seq(Item)]
    /\ file \in Seq(Item)
    /\ up \in BOOLEAN
    /\ count \in 0..MaxItems
    /\ kept \subseteq Item
    /\ sent \in Seq(Item)
    /\ dropped \subseteq Item /\ refused \subseteq Item
    /\ faults \in 0..MaxFaults /\ stops \in 0..MaxStops

\* Memory as a start finds it, with what the file holds.
Loaded(waiting) ==
    /\ pending' = waiting
    /\ hand' = [d \in Drainer |-> <<>>]
    /\ doing' = [w \in Writer |-> "idle"]
    /\ dirty' = FALSE
    /\ snap' = [w \in Writer |-> <<>>]

SpoolInit ==
    /\ batch \in BOOLEAN /\ second \in BOOLEAN
    /\ pending = <<>>
    /\ hand = [d \in Drainer |-> <<>>]
    /\ doing = [w \in Writer |-> "idle"]
    /\ dirty = FALSE
    /\ snap = [w \in Writer |-> <<>>]
    /\ file = <<>> /\ up = TRUE
    /\ count = 0 /\ kept = {} /\ sent = <<>> /\ dropped = {} /\ refused = {}
    /\ faults = 0 /\ stops = 0

-----------------------------------------------------------------------------
Fault == faults < MaxFaults /\ faults' = faults + 1
Stays(d, where) == doing' = [doing EXCEPT ![d] = where]

\* The newer half of what waits, at the limit.
Newer(s) == SubSeq(s, Len(s) - MaxQueue \div 2 + 1, Len(s))
Trimmed(s) == IF Len(s) >= MaxQueue THEN Newer(s) ELSE s

\* forwardOrQueue that gets through: no look at what is already waiting.
forward ==
    /\ up /\ ~batch /\ count < MaxItems
    /\ count' = count + 1
    /\ sent' = Append(sent, count')
    /\ UNCHANGED <<fixed, memory, file, up, kept, dropped, refused, faults, stops>>

\* forwardOrQueue that keeps nothing: the centre's answer is an error, or it
\* does not answer and the body is too large to buffer.  The blade is told.
turnAway ==
    /\ up /\ ~batch /\ count < MaxItems /\ Fault
    /\ count' = count + 1
    /\ UNCHANGED <<fixed, memory, file, up, kept, sent, dropped, refused, stops>>

\* forwardOrQueue that gets no answer, and note: the buffer takes it.
keep ==
    /\ up /\ count < MaxItems
    /\ count' = count + 1
    /\ pending' = Append(Trimmed(pending), count')
    /\ kept' = kept \cup {count'}
    /\ dropped' = dropped \cup (ToSet(pending) \ ToSet(pending'))
    /\ dirty' = TRUE
    /\ UNCHANGED <<fixed, hand, doing, snap, file, up, sent, refused, faults, stops>>

\* stageIP: an event that knows no limit.
stageIP ==
    /\ up /\ batch /\ count < MaxItems
    /\ count' = count + 1
    /\ pending' = Append(pending, count')
    /\ kept' = kept \cup {count'}
    /\ dirty' = TRUE
    /\ UNCHANGED <<fixed, hand, doing, snap, file, up, sent, dropped, refused, faults, stops>>

-----------------------------------------------------------------------------
\* drain and flush: the whole buffer is taken out ...
take(d) ==
    /\ up /\ doing[d] = "idle"
    /\ d = "refresh" => second
    /\ pending # <<>>
    /\ hand' = [hand EXCEPT ![d] = pending]
    /\ pending' = <<>>
    /\ dirty' = TRUE
    /\ Stays(d, "sending")
    /\ UNCHANGED <<fixed, snap, file, up, count, kept, sent, dropped, refused, faults, stops>>

\* ... handed over, one at a time or all at once ...
Part(s) == IF batch THEN s ELSE <<Head(s)>>
Rest(s) == IF batch THEN <<>> ELSE Tail(s)

deliver(d) ==
    /\ up /\ doing[d] = "sending"
    /\ sent' = sent \o Part(hand[d])
    /\ hand' = [hand EXCEPT ![d] = Rest(@)]
    /\ Stays(d, IF Rest(hand[d]) = <<>> THEN "saving" ELSE "sending")
    /\ UNCHANGED <<fixed, pending, dirty, snap, file, up, count, kept, dropped, refused, faults, stops>>

\* ... or, one at a time, answered with an error: drain looks at no status (a
\* request it cannot build is passed over too), and the report is gone.  flush
\* looks, and keeps its events.
refuse(d) ==
    /\ up /\ doing[d] = "sending" /\ ~batch /\ Fault
    /\ refused' = refused \cup {Head(hand[d])}
    /\ hand' = [hand EXCEPT ![d] = Tail(@)]
    /\ Stays(d, IF Tail(hand[d]) = <<>> THEN "saving" ELSE "sending")
    /\ UNCHANGED <<fixed, pending, dirty, snap, file, up, count, kept, sent, dropped, stops>>

\* Mutant: what could not be delivered goes to the end.
putBack_Behind(d, got) ==
    /\ up /\ doing[d] = "sending" /\ Fault
    /\ sent' = sent \o got
    /\ pending' = pending \o hand[d]
    /\ hand' = [hand EXCEPT ![d] = <<>>]
    /\ dirty' = TRUE
    /\ Stays(d, "saving")
    /\ UNCHANGED <<fixed, snap, file, up, count, kept, dropped, refused, stops>>

\* Mutant: the rest of the buffer is forgotten with the failed request.
putBack_Forgets(d, got) ==
    /\ up /\ doing[d] = "sending" /\ Fault
    /\ sent' = sent \o got
    /\ hand' = [hand EXCEPT ![d] = <<>>]
    /\ Stays(d, "saving")
    /\ UNCHANGED <<fixed, pending, dirty, snap, file, up, count, kept, dropped, refused, stops>>

\* ... and put back in front where the request failed: before it arrived
\* (got = <<>>), or after, with only the answer lost.  For the events, which
\* flush keeps unless the answer is 200, an error of the centre's is this too.
putBack(d, got) ==
    /\ up /\ doing[d] = "sending" /\ Fault
    /\ sent' = sent \o got
    /\ pending' = hand[d] \o pending
    /\ hand' = [hand EXCEPT ![d] = <<>>]
    /\ dirty' = TRUE
    /\ Stays(d, "saving")
    /\ UNCHANGED <<fixed, snap, file, up, count, kept, dropped, refused, stops>>

-----------------------------------------------------------------------------
\* writeIfDirty, by the ticker or by a hand-over that is through.  The flag
\* comes off and the copy is taken; the file is replaced in a later step.
MayWrite(w) == IF w = "ticker" THEN doing[w] = "idle" ELSE doing[w] = "saving"

snapshot(w) ==
    /\ up /\ MayWrite(w) /\ dirty
    /\ dirty' = FALSE
    /\ snap' = [snap EXCEPT ![w] = pending]
    /\ Stays(w, "writing")
    /\ UNCHANGED <<fixed, pending, hand, file, up, count, kept, sent, dropped, refused, faults, stops>>

clean(w) ==
    /\ up /\ w # "ticker" /\ MayWrite(w) /\ ~dirty
    /\ Stays(w, "idle")
    /\ UNCHANGED <<fixed, pending, hand, dirty, snap, file, up, count, kept, sent, dropped, refused, faults, stops>>

rename(w) ==
    /\ up /\ doing[w] = "writing"
    /\ file' = snap[w]
    /\ snap' = [snap EXCEPT ![w] = <<>>]
    /\ Stays(w, "idle")
    /\ UNCHANGED <<fixed, pending, hand, dirty, up, count, kept, sent, dropped, refused, faults, stops>>

writeFails(w) ==
    /\ up /\ doing[w] = "writing" /\ Fault
    /\ dirty' = TRUE
    /\ snap' = [snap EXCEPT ![w] = <<>>]
    /\ Stays(w, "idle")
    /\ UNCHANGED <<fixed, pending, hand, file, up, count, kept, sent, dropped, refused, stops>>

-----------------------------------------------------------------------------
\* The service ends: at once, or on a signal, which the pull loop sees between
\* two passes and answers with writeSpools.
crash ==
    /\ up /\ stops < MaxStops
    /\ stops' = stops + 1
    /\ up' = FALSE
    /\ UNCHANGED <<fixed, memory, file, count, kept, sent, dropped, refused, faults>>

stop ==
    /\ up /\ stops < MaxStops
    /\ doing["loop"] = "idle"
    /\ stops' = stops + 1
    /\ file' = IF dirty THEN pending ELSE file
    /\ up' = FALSE
    /\ UNCHANGED <<fixed, memory, count, kept, sent, dropped, refused, faults>>

\* newSite and newRelay read the file back.
start ==
    /\ ~up
    /\ up' = TRUE
    /\ Loaded(file)
    /\ UNCHANGED <<fixed, file, count, kept, sent, dropped, refused, faults, stops>>

-----------------------------------------------------------------------------
Happens == forward \/ turnAway \/ keep \/ stageIP
HandOver(d) == take(d) \/ deliver(d)
Fails(d) == refuse(d) \/ \E got \in {<<>>, Part(hand[d])} : putBack(d, got)
Save(w) == snapshot(w) \/ clean(w) \/ rename(w)

SpoolNext ==
    \/ Happens
    \/ \E d \in Drainer : HandOver(d) \/ (doing[d] = "sending" /\ Fails(d))
    \/ \E w \in Writer : Save(w) \/ writeFails(w)
    \/ crash \/ stop \/ start

SpoolSpec == SpoolInit /\ [][SpoolNext]_vars

\* The pull loop and the ticker keep turning and a stopped service is started
\* again (systemd); requests do not fail for ever.
FairSpoolSpec ==
    /\ SpoolSpec
    /\ WF_vars(start)
    /\ \A d \in Drainer : WF_vars(HandOver(d))
    /\ \A w \in Writer : WF_vars(Save(w))

-----------------------------------------------------------------------------
Held == ToSet(pending) \cup UNION {ToSet(hand[d]) : d \in Drainer}

Rising(s) == \A i, j \in DOMAIN s : i < j => s[i] < s[j]
Once(s) == \A i, j \in DOMAIN s : s[i] = s[j] => i = j

\* What was queued reaches the centre for the first time in the order it
\* happened (docs/INSTALLATION.md: "queued in order and delivered when it
\* answers again, oldest first") and is in that order in the file, as long as
\* one pass hands over at a time: two that put back what they could not deliver
\* may do so the wrong way round.  No report is twice in the file, with one
\* pass or with two, after any number of restarts (site/spool.go writeJSONFile).
InOrder ==
    /\ ~second =>
          /\ Rising(file)
          /\ stops = 0 =>
                \A j \in DOMAIN sent : \A i \in 1..(j - 1) :
                    sent[i] \in kept /\ sent[j] \in kept /\ sent[j] < sent[i]
                        => \E k \in 1..(i - 1) : sent[k] = sent[j]
    /\ Once(file)

\* After the last restart nothing waits for ever: it reaches the centre, or the
\* centre refuses it, or it is cut off at the limit (site/relay.go drain,
\* site/site.go flush).  An event is never refused.
EverythingArrives ==
    \A i \in Item :
        (up /\ stops = MaxStops /\ i \in Held)
            ~> (i \in ToSet(sent) \cup dropped \/ (~batch /\ i \in refused))

\* The buffer is a mailbox: what it took waits until the centre has it or has
\* refused it, or until a restart that finds less on disk.
Box == INSTANCE Mailbox WITH waiting <- Held, arrived <- ToSet(sent),
                        dropped <- dropped, refused <- refused, running <- up
IsMailbox == Box!MSpec
=============================================================================
