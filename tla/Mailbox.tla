------------------------------ MODULE Mailbox -------------------------------
(***************************************************************************)
(* What a site promises about the things it could not deliver: what it     *)
(* accepted waits until the centre has it or has turned it down.  The      *)
(* centre may be given it more than once; at the buffer's limit the oldest *)
(* may be dropped.  Only a restart may forget what waits, or bring back    *)
(* what is settled.                                                        *)
(***************************************************************************)
EXTENDS Naturals

CONSTANT MaxItems   \* how many things happen at the site

VARIABLES
    waiting,   \* accepted and not settled
    arrived,   \* what the centre has been given
    dropped,   \* given up at the limit
    refused,   \* turned down by the centre
    running    \* the service is up

mvars == <<waiting, arrived, dropped, refused, running>>

settled == arrived \cup dropped \cup refused

Item == 1..MaxItems

MInit ==
    /\ waiting = {} /\ arrived = {} /\ dropped = {} /\ refused = {}
    /\ running = TRUE

\* Something new is accepted; at the limit older things make room for it.
Accept(i, lost) ==
    /\ running
    /\ i \notin waiting \cup settled
    /\ lost \subseteq waiting
    /\ waiting' = (waiting \ lost) \cup {i}
    /\ dropped' = dropped \cup lost
    /\ UNCHANGED <<arrived, refused, running>>

\* The centre is given some of what waits, or something new at once.
Arrive(some) ==
    /\ running
    /\ some \cap ((dropped \cup refused) \ waiting) = {}
    /\ arrived' = arrived \cup some
    /\ UNCHANGED <<dropped, refused, running>>
    /\ waiting' \subseteq waiting
    /\ waiting \ waiting' \subseteq arrived'

\* The centre turns down something that waits; one thing at a time.
Refuse(i) ==
    /\ running
    /\ i \in waiting
    /\ waiting' = waiting \ {i}
    /\ refused' = refused \cup {i}
    /\ UNCHANGED <<arrived, dropped, running>>

\* The service ends, and comes back with some of what it ever took.
End ==
    /\ running /\ running' = FALSE
    /\ UNCHANGED <<waiting, arrived, dropped, refused>>

Return ==
    /\ ~running /\ running' = TRUE
    /\ waiting' \subseteq waiting \cup settled
    /\ UNCHANGED <<arrived, dropped, refused>>

MNext ==
    \/ \E i \in Item, some \in SUBSET Item : Accept(i, some) \/ Arrive(some)
    \/ \E i \in Item : Refuse(i)
    \/ End \/ Return

MSpec == MInit /\ [][MNext]_mvars
=============================================================================
