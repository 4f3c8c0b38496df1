------------------------------ MODULE Accounts ------------------------------
(***************************************************************************)
(* The accounts of the centre and who is signed in (server/users.go,       *)
(* session.go, usersui.go).  Accounts are rows; sessions live in memory    *)
(* and carry a role that was read at sign-in.  A handler that takes rights *)
(* away first asks whether an administrator would be left and then writes: *)
(* two statements, between which other handlers run.                       *)
(*                                                                         *)
(* Time passes in ticks; a request is short on that clock.  The admin      *)
(* token is set: without it there is no sign-in at all.                    *)
(***************************************************************************)
EXTENDS Integers, FiniteSets

CONSTANTS
    User,       \* account names
    Sid,        \* session cookies
    Handler,    \* requests under way at the same time
    TTL,        \* sessionTTL, in ticks
    MaxActs     \* requests people make

ASSUME AccountsAssumption ==
    /\ TTL \in Nat /\ MaxActs \in Nat
    /\ User \cap {"token"} = {}

VARIABLES
    users,      \* the users table: see Account
    sess,       \* the sessions in memory
    req,        \* what each handler has checked and not yet written
    login,      \* a sign-in that has read the account, per cookie to be
    acts,
    had,        \* history: an administrator has existed
    raced,      \* history: a change was written on a check that was stale
    lost        \* history: ticks since an account last was an administrator

avars == <<users, sess, req, login, acts, had, raced, lost>>

-----------------------------------------------------------------------------
Role == {"admin", "operator"}
\* Without a role there is no account, no session and no sign-in.
Account == [role: Role \cup {"none"}, disabled: BOOLEAN]
Session == [name: User \cup {"token"}, role: Role \cup {"none"}, left: 0..TTL]
NoAccount == [role |-> "none", disabled |-> FALSE]
NoSession == [name |-> "token", role |-> "none", left |-> 0]

\* The ways to take rights away: all three ask wouldStrandUs first.
Taking == {"demote", "disable", "delete"}
Request == [user: User \cup {"token"}, kind: Taking \cup {"none"}, stale: BOOLEAN]
NoRequest == [user |-> "token", kind |-> "none", stale |-> FALSE]
Asked(h) == req[h].kind # "none"

AccountsTypeOK ==
    /\ users \in [User -> Account]
    /\ sess \in [Sid -> Session]
    /\ req \in [Handler -> Request]
    /\ login \in [Sid -> Session]
    /\ acts \in 0..MaxActs
    /\ had \in BOOLEAN /\ raced \in BOOLEAN
    /\ lost \in [User -> 0..(TTL + 1)]

AccountsInit ==
    /\ users = [u \in User |-> NoAccount]
    /\ sess = [s \in Sid |-> NoSession]
    /\ req = [h \in Handler |-> NoRequest]
    /\ login = [s \in Sid |-> NoSession]
    /\ acts = 0
    /\ had = FALSE /\ raced = FALSE
    /\ lost = [u \in User |-> TTL + 1]

-----------------------------------------------------------------------------
Act == acts < MaxActs /\ acts' = acts + 1

Exists(u) == users[u].role # "none"
IsAdmin(t, u) == t[u].role = "admin" /\ ~t[u].disabled
Admins(t) == {u \in User : IsAdmin(t, u)}

\* lookup: the role a cookie stands for, until it is past its time.
SignedIn(s) == sess[s].role # "none"
Caller(s) == sess[s].role = "admin"
Signed == \E s \in Sid : Caller(s)

\* What every write to the table does to the histories.
Written(t) ==
    /\ users' = t
    /\ had' = (had \/ Admins(t) # {})
    /\ lost' = [u \in User |-> IF IsAdmin(t, u) THEN 0 ELSE lost[u]]

\* A right was taken: the checks that wait are no longer about this table.
Stale(h) ==
    [g \in Handler |-> IF g = h \/ ~Asked(g) THEN NoRequest ELSE [req[g] EXCEPT !.stale = TRUE]]

-----------------------------------------------------------------------------
\* hUserCreate: the name must be free.
createUser(u, r) ==
    /\ Act /\ Signed
    /\ ~Exists(u)
    /\ Written([users EXCEPT ![u] = [role |-> r, disabled |-> FALSE]])
    /\ UNCHANGED <<sess, req, login, raced>>

\* setUserRole to administrator, setUserDisabled back on: nothing to ask.
Given(u, kind) ==
    IF kind = "promote" THEN [users[u] EXCEPT !.role = "admin"]
                        ELSE [users[u] EXCEPT !.disabled = FALSE]

giveRights(u, kind) ==
    /\ Act /\ Signed
    /\ Exists(u)
    /\ Written([users EXCEPT ![u] = Given(u, kind)])
    /\ UNCHANGED <<sess, req, login, raced>>

\* Mutant: every administrator counts, also one who cannot sign in.
wouldStrandUs_AnyAdmin(u) ==
    \A v \in User \ {u} : users[v].role # "admin"

\* wouldStrandUs: nobody else who could sign in as an administrator.
wouldStrandUs(u) == Admins(users) \ {u} = {}

\* setUserRole to operator, setUserDisabled, deleteUser: first the question ...
takeAsks(h, u, kind) ==
    /\ Act /\ Signed
    /\ ~Asked(h)
    /\ ~wouldStrandUs(u)
    /\ req' = [req EXCEPT ![h] = [user |-> u, kind |-> kind, stale |-> FALSE]]
    /\ UNCHANGED <<users, sess, login, had, raced, lost>>

Taken(u, kind) ==
    IF kind = "delete" \/ ~Exists(u) THEN NoAccount
    ELSE IF kind = "demote" THEN [users[u] EXCEPT !.role = "operator"]
    ELSE [users[u] EXCEPT !.disabled = TRUE]

\* ... then the statement.
takeWrites(h) ==
    /\ Asked(h)
    /\ Written([users EXCEPT ![req[h].user] = Taken(req[h].user, req[h].kind)])
    /\ req' = Stale(h)
    /\ raced' = (raced \/ req[h].stale)
    /\ UNCHANGED <<sess, login, acts>>

-----------------------------------------------------------------------------
\* hLoginPost with a name: authenticate reads the row, the session is made
\* later, after the password has been hashed.
authenticate(s, u) ==
    /\ Act
    /\ ~SignedIn(s) /\ login[s].role = "none"
    /\ Exists(u) /\ ~users[u].disabled
    /\ login' = [login EXCEPT ![s] = [name |-> u, role |-> users[u].role, left |-> TTL]]
    /\ UNCHANGED <<users, sess, req, had, raced, lost>>

createSession(s) ==
    /\ login[s].role # "none"
    /\ sess' = [sess EXCEPT ![s] = login[s]]
    /\ login' = [login EXCEPT ![s] = NoSession]
    /\ UNCHANGED <<users, req, acts, had, raced, lost>>

\* hLoginPost with the token alone.
tokenLogin(s) ==
    /\ Act
    /\ ~SignedIn(s) /\ login[s].role = "none"
    /\ sess' = [sess EXCEPT ![s] = [name |-> "token", role |-> "admin", left |-> TTL]]
    /\ UNCHANGED <<users, req, login, had, raced, lost>>

\* hLogout.
hLogout(s) ==
    /\ SignedIn(s)
    /\ sess' = [sess EXCEPT ![s] = NoSession]
    /\ UNCHANGED <<users, req, login, acts, had, raced, lost>>

\* Mutant: every page view starts the twelve hours again.
Aged_Sliding(s) == sess[s]

\* A session past its time is none: lookup refuses it and reap removes it.
Aged(s) ==
    IF sess[s].left = 0 THEN NoSession ELSE [sess[s] EXCEPT !.left = @ - 1]

\* A tick: sessions come closer to their end.
tick ==
    /\ \A h \in Handler : ~Asked(h)
    /\ \A s \in Sid : login[s].role = "none"
    /\ sess' = [s \in Sid |-> Aged(s)]
    /\ lost' = [u \in User |->
                  IF IsAdmin(users, u) THEN 0
                  ELSE IF lost[u] > TTL THEN lost[u] ELSE lost[u] + 1]
    /\ UNCHANGED <<users, req, login, acts, had, raced>>

\* The server starts again: sessions and requests are gone, rows are not.
restart ==
    /\ sess' = [s \in Sid |-> NoSession]
    /\ req' = [h \in Handler |-> NoRequest]
    /\ login' = [s \in Sid |-> NoSession]
    /\ UNCHANGED <<users, acts, had, raced, lost>>

-----------------------------------------------------------------------------
Manage ==
    \E u \in User :
        \/ \E r \in Role : createUser(u, r)
        \/ \E kind \in {"promote", "enable"} : giveRights(u, kind)
        \/ \E h \in Handler, kind \in Taking : takeAsks(h, u, kind)

SignIn ==
    \E s \in Sid :
        \/ tokenLogin(s) \/ createSession(s) \/ hLogout(s)
        \/ \E u \in User : authenticate(s, u)

AccountsStep == Manage \/ SignIn \/ \E h \in Handler : takeWrites(h)

AccountsNext == AccountsStep \/ tick \/ restart

AccountsSpec == AccountsInit /\ [][AccountsNext]_avars

-----------------------------------------------------------------------------
\* Once there is an administrator who can sign in, there always is one, in
\* whatever order people demote, disable and delete each other
\* (server/users.go setUserRole: "both refuse to leave the installation
\* without a way in").  It takes two requests that both ask before either
\* writes to get round it.
AdminRemains == had /\ ~raced => Admins(users) # {}

\* A right taken away is gone after twelve hours, however the sign-in, the
\* change and the deletion or renewal of the account fell together
\* (server/session.go: "a role taken away reaches someone at their next
\* sign-in, which is soon enough at twelve hours").
RightsExpire ==
    \A s \in Sid :
        Caller(s) /\ sess[s].name # "token"
            => lost[sess[s].name] + sess[s].left <= TTL
=============================================================================
