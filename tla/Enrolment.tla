----------------------------- MODULE Enrolment ------------------------------
(***************************************************************************)
(* How a machine becomes a site (server/enroll.go, site/enroll.go and the  *)
(* start of site/main.go): a code, good once and for an hour, is exchanged *)
(* for a token, which the machine writes to a file and the site's number   *)
(* to another.  The centre looks the code up and writes the row in two     *)
(* statements; the answer may be lost and the machine may end anywhere.    *)
(*                                                                         *)
(* One site; codes and tokens are numbered as they are made, 0 is none.    *)
(***************************************************************************)
EXTENDS Integers

CONSTANTS
    Machine,     \* machines that are given codes
    Hour,        \* enrollWindow, in ticks
    MaxCodes,    \* codes issued and tokens rotated
    MaxMishaps   \* answers lost, machines ended

ASSUME EnrolmentAssumption ==
    /\ Hour \in Nat /\ MaxCodes \in Nat /\ MaxMishaps \in Nat

VARIABLES
    site,      \* the row: code, ticks left, token
    tokens,    \* tokens made so far
    codes,     \* codes made so far
    mach,      \* each machine: see Machines
    ask,       \* the centre's side of each machine's request
    bought,    \* history: enrolments each code bought
    raced2,    \* history: a row was written on a look-up that was stale
    mishaps

evars == <<site, tokens, codes, mach, ask, bought, raced2, mishaps>>

-----------------------------------------------------------------------------
MaxTokens == MaxCodes + 2
Code == 0..MaxCodes
Token == 0..MaxTokens

\* "got" has the answer in memory, "written" the token on disk and not yet
\* the number of the site; flag is the -enroll of the unit file.
Machines ==
    [doing: {"off", "asking", "got", "written", "serving"},
     flag: Code, got: Token, token: Token, id: BOOLEAN]

\* A look-up that succeeded, with the row it found; stale once the row was
\* written since, left once the machine no longer waits for the answer.
Asks == [code: Code, expired: BOOLEAN, stale: BOOLEAN, left: BOOLEAN]
NoAsk == [code |-> 0, expired |-> FALSE, stale |-> FALSE, left |-> FALSE]
Asking(m) == ask[m].code # 0

EnrolmentTypeOK ==
    /\ site \in [code: Code, left: -1..Hour, token: Token]
    /\ tokens \in Token /\ codes \in Code
    /\ mach \in [Machine -> Machines]
    /\ ask \in [Machine -> Asks]
    /\ bought \in [1..MaxCodes -> 0..MaxTokens] /\ raced2 \in BOOLEAN
    /\ mishaps \in 0..MaxMishaps

EnrolmentInit ==
    /\ site = [code |-> 0, left |-> -1, token |-> 0]
    /\ tokens = 0 /\ codes = 0
    /\ mach = [m \in Machine |-> [doing |-> "off", flag |-> 0, got |-> 0, token |-> 0, id |-> FALSE]]
    /\ ask = [m \in Machine |-> NoAsk]
    /\ bought = [c \in 1..MaxCodes |-> 0]
    /\ raced2 = FALSE
    /\ mishaps = 0

-----------------------------------------------------------------------------
Mishap == mishaps < MaxMishaps /\ mishaps' = mishaps + 1

\* A write to the row: the look-ups that wait are no longer about this row.
Outdated == [n \in Machine |-> IF Asking(n) THEN [ask[n] EXCEPT !.stale = TRUE] ELSE NoAsk]

\* makeEnrollCode: a fresh code in place of whatever was there.
makeEnrollCode ==
    /\ codes < MaxCodes
    /\ codes' = codes + 1
    /\ site' = [site EXCEPT !.code = codes', !.left = Hour]
    /\ ask' = Outdated
    /\ UNCHANGED <<tokens, mach, bought, raced2, mishaps>>

\* hSiteToken: a new token, by hand.
hSiteToken ==
    /\ tokens < MaxTokens
    /\ tokens' = tokens + 1
    /\ site' = [site EXCEPT !.token = tokens']
    /\ UNCHANGED <<codes, mach, ask, bought, raced2, mishaps>>

\* Somebody puts a code into a machine's unit file.
giveCode(m) ==
    /\ mach[m].doing = "off" /\ mach[m].token = 0
    /\ site.code # 0 /\ mach[m].flag # site.code
    /\ mach' = [mach EXCEPT ![m].flag = site.code]
    /\ UNCHANGED <<site, tokens, codes, ask, bought, raced2, mishaps>>

-----------------------------------------------------------------------------
\* main: the token from its file, or from the code; without the site's number
\* beside the token there is no start.
start(m) ==
    /\ mach[m].doing = "off"
    /\ \/ mach[m].token = 0 /\ mach[m].flag # 0 /\ mach' = [mach EXCEPT ![m].doing = "asking"]
       \/ mach[m].token # 0 /\ mach[m].id /\ mach' = [mach EXCEPT ![m].doing = "serving"]
    /\ UNCHANGED <<site, tokens, codes, ask, bought, raced2, mishaps>>

\* hSiteEnroll reads the row and finds the code, or does not.
lookUp(m) ==
    /\ mach[m].doing = "asking" /\ ~Asking(m)
    /\ mach[m].flag = site.code
    /\ ask' = [ask EXCEPT ![m] = [code |-> site.code, expired |-> site.left < 0, stale |-> FALSE, left |-> FALSE]]
    /\ UNCHANGED <<site, tokens, codes, mach, bought, raced2, mishaps>>

refused(m) ==
    /\ mach[m].doing = "asking" /\ ~Asking(m)
    /\ mach[m].flag # site.code
    /\ mach' = [mach EXCEPT ![m].doing = "off"]
    /\ UNCHANGED <<site, tokens, codes, ask, bought, raced2, mishaps>>

\* hSiteEnroll with a code past its time: it is cleared.
expired(m) ==
    /\ Asking(m) /\ ask[m].expired
    /\ site' = [site EXCEPT !.code = 0, !.left = -1]
    /\ ask' = [Outdated EXCEPT ![m] = NoAsk]
    /\ raced2' = (raced2 \/ ask[m].stale)
    /\ mach' = [mach EXCEPT ![m].doing = IF ask[m].left THEN @ ELSE "off"]
    /\ UNCHANGED <<tokens, codes, bought, mishaps>>

\* Mutant: the code stays when the token is written.
Spent_Kept == [site EXCEPT !.token = tokens']

Spent == [code |-> 0, left |-> -1, token |-> tokens']

\* hSiteEnroll with a good one: the token is made, the code is spent; the
\* answer reaches the machine if it still waits for this one.
enrolled(m) ==
    /\ Asking(m) /\ ~ask[m].expired
    /\ tokens < MaxTokens /\ tokens' = tokens + 1
    /\ site' = Spent
    /\ bought' = [bought EXCEPT ![ask[m].code] = @ + 1]
    /\ raced2' = (raced2 \/ ask[m].stale)
    /\ ask' = [Outdated EXCEPT ![m] = NoAsk]
    /\ mach' = IF ask[m].left THEN mach
               ELSE [mach EXCEPT ![m].doing = "got", ![m].got = tokens']
    /\ UNCHANGED <<codes, mishaps>>

\* The line drops, or the machine ends, anywhere: enroll fails for good.
mishap(m) ==
    /\ mach[m].doing # "off" /\ Mishap
    /\ mach' = [mach EXCEPT ![m].doing = "off", ![m].got = 0]
    /\ ask' = [ask EXCEPT ![m].left = Asking(m)]
    /\ UNCHANGED <<site, tokens, codes, bought, raced2>>

\* enroll writes the token, then the number of the site.
writeToken(m) ==
    /\ mach[m].doing = "got"
    /\ mach' = [mach EXCEPT ![m].doing = "written", ![m].token = mach[m].got, ![m].got = 0]
    /\ UNCHANGED <<site, tokens, codes, ask, bought, raced2, mishaps>>

writeId(m) ==
    /\ mach[m].doing = "written"
    /\ mach' = [mach EXCEPT ![m].doing = "serving", ![m].id = TRUE]
    /\ UNCHANGED <<site, tokens, codes, ask, bought, raced2, mishaps>>

Older == [site EXCEPT !.left = IF @ >= 0 THEN @ - 1 ELSE @]

\* A tick; a request is short on this clock.
codeAges ==
    /\ \A m \in Machine : ~Asking(m)
    /\ site' = Older
    /\ UNCHANGED <<tokens, codes, mach, ask, bought, raced2, mishaps>>

-----------------------------------------------------------------------------
Centre(m) == lookUp(m) \/ refused(m) \/ expired(m) \/ enrolled(m)
Site(m) == start(m) \/ writeToken(m) \/ writeId(m)
Around(m) == giveCode(m) \/ mishap(m)

-----------------------------------------------------------------------------
\* A code buys one enrolment (server/enroll.go: "good once, and good for an
\* hour"), whatever answers are lost and whoever asks again with it.  It takes
\* two look-ups before the first write to get two.
CodeBuysOnce == \A c \in 1..MaxCodes : bought[c] <= 1 \/ raced2
=============================================================================
