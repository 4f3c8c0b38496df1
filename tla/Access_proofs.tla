--------------------------- MODULE Access_proofs ----------------------------
(***************************************************************************)
(* Theorems about Access, for any number of accounts, cookies, requests,   *)
(* machines and codes.                                                     *)
(***************************************************************************)
EXTENDS Access, TLAPS

-----------------------------------------------------------------------------
\* What the accounts need on top of the properties.  A request that has asked
\* and is not stale has another administrator to leave behind; whoever is an
\* administrator has lost nothing; a sign-in under way carries a right that is
\* still fresh, since no tick falls into it.

Guarded ==
    ~raced => \A h \in Handler :
        Asked(h) /\ ~req[h].stale => \E v \in User : v # req[h].user /\ IsAdmin(users, v)

AdminsFresh == \A u \in User : IsAdmin(users, u) => lost[u] = 0

LoginsFresh ==
    \A s \in Sid : login[s].role = "admin" => login[s].name \in User /\ lost[login[s].name] = 0

AccountsInv ==
    /\ AccountsTypeOK
    /\ AdminRemains /\ Guarded
    /\ AdminsFresh /\ LoginsFresh /\ RightsExpire

\* Of a step of Access the accounts see one of these.
AccountsSee == AccountsStep \/ tick \/ restart \/ (Act /\ UNCHANGED <<users, sess, req, login, had, raced, lost>>)

-----------------------------------------------------------------------------
\* What every write to the table keeps, whatever it writes: rights only become
\* fresher, and the administrators of the new table are fresh (users.go).
LEMMA WrittenKeepsFresh ==
    ASSUME AccountsInv, NEW t \in [User -> Account], Written(t), login' = login, sess' = sess
    PROVE  /\ users' \in [User -> Account] /\ had' \in BOOLEAN
           /\ lost' \in [User -> 0..(TTL + 1)]
           /\ AdminsFresh' /\ LoginsFresh' /\ RightsExpire'
  <1>1. TTL \in Nat
    BY AccountsAssumption
  <1>2. lost \in [User -> 0..(TTL + 1)] /\ sess \in [Sid -> Session] /\ had \in BOOLEAN
    BY DEF AccountsInv, AccountsTypeOK
  <1>3. /\ users' = t /\ had' \in BOOLEAN
        /\ lost' = [u \in User |-> IF IsAdmin(t, u) THEN 0 ELSE lost[u]]
    BY <1>2 DEF Written
  <1>4. lost' \in [User -> 0..(TTL + 1)]
    BY <1>1, <1>2, <1>3
  <1>5. \A u \in User : lost'[u] = 0 \/ lost'[u] = lost[u]
    BY <1>3
  <1>6. AdminsFresh'
    BY <1>3 DEF AdminsFresh, IsAdmin
  <1>7. LoginsFresh'
    BY <1>5 DEF AccountsInv, LoginsFresh
  <1>8. RightsExpire'
    <2>1. SUFFICES ASSUME NEW s \in Sid, sess[s].role = "admin", sess[s].name # "token"
                   PROVE  lost'[sess[s].name] + sess[s].left <= TTL
      BY DEF RightsExpire, Caller
    <2>2. sess[s].name \in User /\ sess[s].left \in 0..TTL
      BY <1>2, <2>1 DEF Session
    <2>3. lost[sess[s].name] + sess[s].left <= TTL
      BY <2>1 DEF AccountsInv, RightsExpire, Caller
    <2> QED
      BY <1>1, <1>2, <1>5, <2>2, <2>3
  <1> QED
    BY <1>3, <1>4, <1>6, <1>7, <1>8

\* A table that has every administrator of the one before keeps what the
\* requests under way rely on (createUser, and rights given back).
LEMMA MoreAdmins ==
    ASSUME AccountsInv, NEW t \in [User -> Account], Written(t), req' = req, raced' = raced,
           \A u \in User : IsAdmin(users, u) => IsAdmin(t, u)
    PROVE  AdminRemains' /\ Guarded'
  <1>1. users' = t /\ had' = (had \/ Admins(t) # {})
    BY DEF Written
  <1>2. Admins(users) # {} => Admins(t) # {}
    BY DEF Admins
  <1>3. AdminRemains'
    BY <1>1, <1>2 DEF AccountsInv, AdminRemains, Admins, IsAdmin
  <1>4. Guarded'
    BY <1>1 DEF AccountsInv, Guarded, Asked, IsAdmin
  <1> QED
    BY <1>3, <1>4

LEMMA CreateKeeps ==
    ASSUME AccountsInv, NEW u \in User, NEW r \in Role, createUser(u, r)
    PROVE  AccountsInv'
  <1> DEFINE t == [users EXCEPT ![u] = [role |-> r, disabled |-> FALSE]]
  <1>1. t \in [User -> Account] /\ Written(t) /\ login' = login /\ sess' = sess /\ req' = req /\ raced' = raced
    BY DEF AccountsInv, AccountsTypeOK, createUser, Account
  <1>2. \A v \in User : IsAdmin(users, v) => IsAdmin(t, v)
    BY DEF AccountsInv, AccountsTypeOK, IsAdmin, createUser, Exists
  <1>3. acts' \in 0..MaxActs
    BY AccountsAssumption DEF createUser, Act, AccountsInv, AccountsTypeOK
  <1> QED
    BY <1>1, <1>2, <1>3, WrittenKeepsFresh, MoreAdmins DEF AccountsInv, AccountsTypeOK

LEMMA GiveKeeps ==
    ASSUME AccountsInv, NEW u \in User, NEW kind \in {"promote", "enable"}, giveRights(u, kind)
    PROVE  AccountsInv'
  <1> DEFINE t == [users EXCEPT ![u] = Given(u, kind)]
  <1>0. Given(u, kind) \in Account
    BY DEF AccountsInv, AccountsTypeOK, Given, Account, Role
  <1>1. t \in [User -> Account] /\ Written(t) /\ login' = login /\ sess' = sess /\ req' = req /\ raced' = raced
    BY <1>0 DEF AccountsInv, AccountsTypeOK, giveRights
  <1>2. \A v \in User : IsAdmin(users, v) => IsAdmin(t, v)
    BY DEF AccountsInv, AccountsTypeOK, IsAdmin, Given, Account
  <1>3. acts' \in 0..MaxActs
    BY AccountsAssumption DEF giveRights, Act, AccountsInv, AccountsTypeOK
  <1> QED
    BY <1>1, <1>2, <1>3, WrittenKeepsFresh, MoreAdmins DEF AccountsInv, AccountsTypeOK

LEMMA AskKeeps ==
    ASSUME AccountsInv, NEW h \in Handler, NEW u \in User, NEW kind \in Taking, takeAsks(h, u, kind)
    PROVE  AccountsInv'
  <1>1. acts' \in 0..MaxActs
    BY AccountsAssumption DEF takeAsks, Act, AccountsInv, AccountsTypeOK
  <1>2. req' \in [Handler -> Request]
    BY DEF takeAsks, AccountsInv, AccountsTypeOK, Request
  <1>3. Guarded'
    <2>1. SUFFICES ASSUME ~raced, NEW g \in Handler, Asked(g)', ~req'[g].stale
                   PROVE  \E v \in User : v # req'[g].user /\ IsAdmin(users, v)
      BY DEF Guarded, takeAsks, IsAdmin
    <2>2. CASE g = h
      BY <2>2 DEF takeAsks, wouldStrandUs, Admins, AccountsInv, AccountsTypeOK
    <2>3. CASE g # h
      BY <2>1, <2>3 DEF takeAsks, AccountsInv, AccountsTypeOK, Guarded, Asked
    <2> QED
      BY <2>2, <2>3
  <1>4. AdminRemains' /\ AdminsFresh' /\ LoginsFresh' /\ RightsExpire'
    BY DEF takeAsks, AccountsInv, AdminRemains, AdminsFresh, LoginsFresh, RightsExpire, Caller, Admins, IsAdmin
  <1> QED
    BY <1>1, <1>2, <1>3, <1>4 DEF takeAsks, AccountsInv, AccountsTypeOK

LEMMA TakeKeeps ==
    ASSUME AccountsInv, NEW h \in Handler, takeWrites(h)
    PROVE  AccountsInv'
  <1> DEFINE u == req[h].user
             t == [users EXCEPT ![u] = Taken(u, req[h].kind)]
  <1>1. req \in [Handler -> Request] /\ users \in [User -> Account]
    BY DEF AccountsInv, AccountsTypeOK
  <1>2. u \in User => Taken(u, req[h].kind) \in Account
    BY <1>1 DEF Taken, Account, Role, NoAccount
  <1>3. t \in [User -> Account] /\ Written(t) /\ login' = login /\ sess' = sess
    BY <1>1, <1>2 DEF takeWrites
  <1>4. req' \in [Handler -> Request] /\ \A g \in Handler : Asked(g)' => req'[g].stale
    BY <1>1 DEF takeWrites, Stale, Asked, Request, NoRequest
  <1>5. Guarded'
    BY <1>4 DEF Guarded
  <1>6. AdminRemains'
    <2>1. SUFFICES ASSUME ~raced' PROVE Admins(t) # {}
      BY <1>3 DEF AdminRemains, Written, Admins, IsAdmin
    <2>2. ~raced /\ ~req[h].stale /\ Asked(h)
      BY <2>1 DEF takeWrites
    <2>3. PICK v \in User : v # u /\ IsAdmin(users, v)
      BY <2>2 DEF AccountsInv, Guarded
    <2>4. IsAdmin(t, v)
      BY <1>1, <2>3 DEF IsAdmin
    <2> QED
      BY <2>4 DEF Admins
  <1>7. raced' \in BOOLEAN /\ acts' = acts
    BY <1>1 DEF takeWrites, AccountsInv, AccountsTypeOK, Request
  <1> QED
    BY <1>3, <1>4, <1>5, <1>6, <1>7, WrittenKeepsFresh DEF AccountsInv, AccountsTypeOK

LEMMA SignInKeeps ==
    ASSUME AccountsInv, SignIn
    PROVE  AccountsInv'
  <1>0. TTL \in Nat /\ MaxActs \in Nat /\ "token" \notin User
    BY AccountsAssumption
  <1>1. PICK s \in Sid : tokenLogin(s) \/ createSession(s) \/ hLogout(s) \/ \E u \in User : authenticate(s, u)
    BY DEF SignIn
  <1>2. UNCHANGED <<users, req, had, raced, lost>>
    BY <1>1 DEF tokenLogin, createSession, hLogout, authenticate
  <1>3. AdminRemains' /\ Guarded' /\ AdminsFresh'
    BY <1>2 DEF AccountsInv, AdminRemains, Guarded, AdminsFresh, Admins, IsAdmin, Asked
  <1>4. acts' \in 0..MaxActs
    BY <1>0, <1>1 DEF tokenLogin, createSession, hLogout, authenticate, Act, AccountsInv, AccountsTypeOK
  <1>5. /\ sess' \in [Sid -> Session] /\ login' \in [Sid -> Session]
        /\ LoginsFresh' /\ RightsExpire'
    <2>1. CASE tokenLogin(s)
      <3>1. login' = login /\ sess' = [sess EXCEPT ![s] = [name |-> "token", role |-> "admin", left |-> TTL]]
        BY <2>1 DEF tokenLogin
      <3> QED
        BY <1>0, <1>2, <3>1 DEF AccountsInv, AccountsTypeOK, Session, Role, LoginsFresh, RightsExpire, Caller
    <2>2. CASE createSession(s)
      <3>1. login' = [login EXCEPT ![s] = NoSession] /\ sess' = [sess EXCEPT ![s] = login[s]]
        BY <2>2 DEF createSession
      <3>2. login[s] \in Session
        BY DEF AccountsInv, AccountsTypeOK
      <3>3. sess' \in [Sid -> Session] /\ login' \in [Sid -> Session]
        BY <1>0, <3>1, <3>2 DEF AccountsInv, AccountsTypeOK, Session, Role, NoSession
      <3>4. LoginsFresh'
        BY <1>2, <3>1 DEF AccountsInv, AccountsTypeOK, LoginsFresh, NoSession
      <3>5. login[s].role = "admin" => lost[login[s].name] = 0 /\ login[s].left \in 0..TTL
        BY <3>2 DEF AccountsInv, LoginsFresh, Session
      <3>6. RightsExpire'
        BY <1>0, <1>2, <3>1, <3>5 DEF AccountsInv, AccountsTypeOK, RightsExpire, Caller
      <3> QED
        BY <3>3, <3>4, <3>6
    <2>3. CASE hLogout(s)
      <3>1. login' = login /\ sess' = [sess EXCEPT ![s] = NoSession]
        BY <2>3 DEF hLogout
      <3> QED
        BY <1>0, <1>2, <3>1 DEF AccountsInv, AccountsTypeOK, Session, Role, NoSession, LoginsFresh, RightsExpire, Caller
    <2>4. ASSUME NEW u \in User, authenticate(s, u)
          PROVE  /\ sess' \in [Sid -> Session] /\ login' \in [Sid -> Session]
                 /\ LoginsFresh' /\ RightsExpire'
      <3>1. /\ sess' = sess /\ ~users[u].disabled
            /\ login' = [login EXCEPT ![s] = [name |-> u, role |-> users[u].role, left |-> TTL]]
        BY <2>4 DEF authenticate
      <3>2. users[u].role \in Role \cup {"none"}
        BY DEF AccountsInv, AccountsTypeOK, Account
      <3>3. users[u].role = "admin" => lost[u] = 0
        BY <3>1 DEF AccountsInv, AdminsFresh, IsAdmin
      <3>4. LoginsFresh'
        BY <1>2, <3>1, <3>3 DEF AccountsInv, AccountsTypeOK, LoginsFresh
      <3> QED
        BY <1>0, <1>2, <3>1, <3>2, <3>4 DEF AccountsInv, AccountsTypeOK, Session, RightsExpire, Caller
    <2> QED
      BY <1>1, <2>1, <2>2, <2>3, <2>4
  <1> QED
    BY <1>2, <1>3, <1>4, <1>5 DEF AccountsInv, AccountsTypeOK

LEMMA TickKeeps ==
    ASSUME AccountsInv, tick
    PROVE  AccountsInv'
  <1>0. TTL \in Nat
    BY AccountsAssumption
  <1>1. /\ sess \in [Sid -> Session] /\ lost \in [User -> 0..(TTL + 1)]
        /\ sess' = [s \in Sid |-> Aged(s)]
        /\ lost' = [u \in User |-> IF IsAdmin(users, u) THEN 0
                                   ELSE IF lost[u] > TTL THEN lost[u] ELSE lost[u] + 1]
        /\ UNCHANGED <<users, req, login, acts, had, raced>>
    BY DEF tick, AccountsInv, AccountsTypeOK
  <1>2. sess' \in [Sid -> Session] /\ lost' \in [User -> 0..(TTL + 1)]
    BY <1>0, <1>1 DEF Aged, Session, NoSession, Role
  <1>3. AdminRemains' /\ Guarded'
    BY <1>1 DEF AccountsInv, AdminRemains, Guarded, Admins, IsAdmin, Asked
  <1>4. AdminsFresh'
    BY <1>1 DEF AdminsFresh, IsAdmin
  <1>5. LoginsFresh'
    BY <1>1 DEF tick, LoginsFresh
  <1>6. RightsExpire'
    <2>1. SUFFICES ASSUME NEW s \in Sid, sess'[s].role = "admin", sess'[s].name # "token"
                   PROVE  lost'[sess'[s].name] + sess'[s].left <= TTL
      BY DEF RightsExpire, Caller
    <2>2. sess[s] \in Session
      BY <1>1
    <2>3. sess[s].left # 0 /\ sess'[s] = [sess[s] EXCEPT !.left = @ - 1]
      BY <1>1, <2>1 DEF Aged, NoSession
    <2>4. /\ sess'[s].name = sess[s].name /\ sess'[s].left = sess[s].left - 1
          /\ sess[s].role = "admin" /\ sess[s].name \in User /\ sess[s].left \in 1..TTL
      BY <1>0, <2>1, <2>2, <2>3 DEF Session
    <2>5. lost[sess[s].name] + sess[s].left <= TTL
      BY <2>1, <2>4 DEF AccountsInv, RightsExpire, Caller
    <2> QED
      BY <1>0, <1>1, <2>4, <2>5
  <1> QED
    BY <1>1, <1>2, <1>3, <1>4, <1>5, <1>6 DEF AccountsInv, AccountsTypeOK

LEMMA RestartKeeps ==
    ASSUME AccountsInv, restart
    PROVE  AccountsInv'
  <1>1. TTL \in Nat
    BY AccountsAssumption
  <1>2. /\ sess' = [s \in Sid |-> NoSession] /\ login' = [s \in Sid |-> NoSession]
        /\ req' = [h \in Handler |-> NoRequest]
        /\ UNCHANGED <<users, acts, had, raced, lost>>
    BY DEF restart
  <1>3. sess' \in [Sid -> Session] /\ login' \in [Sid -> Session] /\ req' \in [Handler -> Request]
    BY <1>1, <1>2 DEF Session, Request, NoSession, NoRequest
  <1>4. AdminRemains' /\ AdminsFresh'
    BY <1>2 DEF AccountsInv, AdminRemains, AdminsFresh, Admins, IsAdmin
  <1>5. Guarded' /\ LoginsFresh' /\ RightsExpire'
    BY <1>2 DEF Guarded, LoginsFresh, RightsExpire, Asked, Caller, NoSession, NoRequest
  <1> QED
    BY <1>2, <1>3, <1>4, <1>5 DEF AccountsInv, AccountsTypeOK

\* Nothing the accounts see disturbs the invariant (server/users.go,
\* session.go).
LEMMA AccountsKept ==
    ASSUME AccountsInv, AccountsSee \/ UNCHANGED avars
    PROVE  AccountsInv'
  <1>1. CASE Manage
    BY <1>1, CreateKeeps, GiveKeeps, AskKeeps DEF Manage
  <1>2. CASE SignIn
    BY <1>2, SignInKeeps
  <1>3. CASE \E h \in Handler : takeWrites(h)
    BY <1>3, TakeKeeps
  <1>4. CASE tick
    BY <1>4, TickKeeps
  <1>5. CASE restart
    BY <1>5, RestartKeeps
  <1>6. CASE UNCHANGED <<users, sess, req, login, had, raced, lost>> /\ (Act \/ UNCHANGED acts)
    <2>1. acts' \in 0..MaxActs
      BY <1>6, AccountsAssumption DEF Act, AccountsInv, AccountsTypeOK
    <2>2. /\ AdminRemains' /\ Guarded' /\ AdminsFresh' /\ LoginsFresh' /\ RightsExpire'
      BY <1>6 DEF AccountsInv, AdminRemains, Guarded, AdminsFresh, LoginsFresh, RightsExpire,
                  Admins, IsAdmin, Asked, Caller
    <2> QED
      BY <1>6, <2>1, <2>2 DEF AccountsInv, AccountsTypeOK
  <1> QED
    BY <1>1, <1>2, <1>3, <1>4, <1>5, <1>6 DEF AccountsSee, AccountsStep, avars

LEMMA AccountsStart ==
    ASSUME AccountsInit
    PROVE  AccountsInv
  <1>1. TTL \in Nat /\ MaxActs \in Nat
    BY AccountsAssumption
  <1>2. AccountsTypeOK
    <2>1. NoAccount \in Account
      BY DEF NoAccount, Account
    <2>2. NoSession \in Session
      BY <1>1 DEF NoSession, Session
    <2>3. NoRequest \in Request
      BY DEF NoRequest, Request
    <2>4. had \in BOOLEAN /\ raced \in BOOLEAN
      BY DEF AccountsInit
    <2> QED
      BY <1>1, <2>1, <2>2, <2>3, <2>4 DEF AccountsInit, AccountsTypeOK
  <1>3. AdminRemains /\ Guarded /\ AdminsFresh /\ LoginsFresh /\ RightsExpire
    BY DEF AccountsInit, AdminRemains, Guarded, AdminsFresh, LoginsFresh, RightsExpire,
           IsAdmin, Asked, Caller, NoAccount, NoSession, NoRequest
  <1> QED
    BY <1>2, <1>3 DEF AccountsInv

-----------------------------------------------------------------------------
\* What the codes need on top of the property.  A code that was bought with is
\* no longer in the row, one that has not been made has bought nothing, and a
\* look-up that is not stale is about the row as it is.

Row == [code: Int, left: Int, token: Int]
LookUp == [code: Int, expired: BOOLEAN, stale: BOOLEAN, left: BOOLEAN]

EnrolTypes ==
    /\ site.code \in 0..codes /\ site \in Row
    /\ codes \in 0..MaxCodes /\ tokens \in Nat
    /\ ask \in [Machine -> LookUp]
    /\ \A m \in Machine : ask[m].code \in 0..codes
    /\ bought \in [1..MaxCodes -> Nat] /\ raced2 \in BOOLEAN

NotYetMade == \A c \in 1..MaxCodes : c > codes => bought[c] = 0
CurrentUnspent == ~raced2 => \A c \in 1..MaxCodes : bought[c] <= 1 /\ (c = site.code => bought[c] = 0)
LookUpsHold == \A m \in Machine : Asking(m) /\ ~ask[m].stale => ask[m].code = site.code

EnrolInv == EnrolTypes /\ NotYetMade /\ CurrentUnspent /\ LookUpsHold

\* Of a step of Access the codes see one of these.
EnrolSee ==
    \/ makeEnrollCode \/ hSiteToken \/ codeAges
    \/ \E m \in Machine : lookUp(m) \/ expired(m) \/ enrolled(m) \/ mishap(m)
    \/ UNCHANGED <<site, tokens, codes, bought, raced2>> /\ (ask' = ask \/ ask' = [m \in Machine |-> NoAsk])

\* The row that a write of the code leaves behind.
LEMMA RowWritten ==
    ASSUME NEW r \in Row, NEW c \in Int, NEW l \in Int
    PROVE  [r EXCEPT !.code = c, !.left = l] \in Row /\ [r EXCEPT !.code = c, !.left = l].code = c
  BY DEF Row

\* A write to the row leaves no look-up that is not stale.
LEMMA OutdatedIsStale ==
    ASSUME EnrolTypes
    PROVE  /\ Outdated \in [Machine -> LookUp]
           /\ \A m \in Machine : Outdated[m].code \in 0..codes
           /\ \A m \in Machine : Outdated[m].code # 0 => Outdated[m].stale
  BY DEF Outdated, NoAsk, Asking, EnrolTypes, LookUp

\* No look-up is one of them, and dropping one keeps what is said of the others.
LEMMA DroppedLookUp ==
    ASSUME NEW a \in [Machine -> LookUp], NEW n \in Nat, NEW m \in Machine,
           \A k \in Machine : a[k].code \in 0..n
    PROVE  /\ [a EXCEPT ![m] = NoAsk] \in [Machine -> LookUp]
           /\ \A k \in Machine : [a EXCEPT ![m] = NoAsk][k].code \in 0..n
           /\ NoAsk \in LookUp /\ NoAsk.code = 0
  <1>1. NoAsk \in LookUp /\ NoAsk.code = 0
    BY DEF NoAsk, LookUp
  <1> QED
    BY <1>1

LEMMA EnrolKept ==
    ASSUME EnrolInv, EnrolSee
    PROVE  EnrolInv'
  <1>0. MaxCodes \in Nat
    BY EnrolmentAssumption
  <1>1. CASE makeEnrollCode
    <2>1. /\ codes' = codes + 1 /\ codes < MaxCodes
          /\ site' = [site EXCEPT !.code = codes + 1, !.left = Hour]
          /\ ask' = Outdated /\ UNCHANGED <<tokens, bought, raced2>>
      BY <1>1 DEF makeEnrollCode
    <2>2. Hour \in Int
      BY EnrolmentAssumption
    <2>3. EnrolTypes'
      <3>1. EnrolTypes
        BY DEF EnrolInv
      <3>2. codes' \in 0..MaxCodes /\ codes + 1 \in Int /\ codes + 1 \in 0..codes'
        BY <1>0, <2>1, <3>1 DEF EnrolTypes
      <3>5. site' \in Row /\ site'.code = codes + 1
        BY <2>1, <2>2, <3>1, <3>2, RowWritten DEF EnrolTypes
      <3>3. ask' \in [Machine -> LookUp] /\ \A m \in Machine : ask'[m].code \in 0..codes
        BY <2>1, <3>1, OutdatedIsStale
      <3>4. \A m \in Machine : ask'[m].code \in 0..codes'
        BY <1>0, <2>1, <3>1, <3>3 DEF EnrolTypes
      <3> QED
        BY <2>1, <3>1, <3>2, <3>3, <3>4, <3>5 DEF EnrolTypes
    <2>4. NotYetMade'
      BY <1>0, <2>1 DEF EnrolInv, EnrolTypes, NotYetMade
    <2>5. CurrentUnspent'
      BY <1>0, <2>1 DEF EnrolInv, EnrolTypes, NotYetMade, CurrentUnspent
    <2>6. LookUpsHold'
      BY <2>1, OutdatedIsStale DEF EnrolInv, LookUpsHold, Asking
    <2> QED
      BY <2>3, <2>4, <2>5, <2>6 DEF EnrolInv
  <1>2. CASE hSiteToken
    <2>1. /\ tokens' = tokens + 1 /\ site' = [site EXCEPT !.token = tokens + 1]
          /\ UNCHANGED <<codes, ask, bought, raced2>>
      BY <1>2 DEF hSiteToken
    <2>2. EnrolTypes' /\ site'.code = site.code
      BY <2>1 DEF EnrolInv, EnrolTypes, Row
    <2> QED
      BY <2>1, <2>2 DEF EnrolInv, NotYetMade, CurrentUnspent, LookUpsHold, Asking
  <1>3. CASE codeAges
    <2>1. site' = Older /\ UNCHANGED <<codes, tokens, ask, bought, raced2>>
      BY <1>3 DEF codeAges
    <2>2. EnrolTypes' /\ site'.code = site.code
      BY <2>1 DEF EnrolInv, EnrolTypes, Older, Row
    <2> QED
      BY <2>1, <2>2 DEF EnrolInv, NotYetMade, CurrentUnspent, LookUpsHold, Asking
  <1>4. ASSUME NEW m \in Machine, lookUp(m) PROVE EnrolInv'
    <2>1. /\ ask' = [ask EXCEPT ![m] = [code |-> site.code, expired |-> site.left < 0, stale |-> FALSE, left |-> FALSE]]
          /\ UNCHANGED <<site, codes, tokens, bought, raced2>>
      BY <1>4 DEF lookUp
    <2>2. EnrolTypes'
      BY <2>1 DEF EnrolInv, EnrolTypes, LookUp, Row
    <2>3. LookUpsHold'
      BY <2>1 DEF EnrolInv, EnrolTypes, LookUpsHold, Asking
    <2> QED
      BY <2>1, <2>2, <2>3 DEF EnrolInv, NotYetMade, CurrentUnspent
  <1>5. ASSUME NEW m \in Machine, expired(m) PROVE EnrolInv'
    <2>1. /\ site' = [site EXCEPT !.code = 0, !.left = -1]
          /\ ask' = [Outdated EXCEPT ![m] = NoAsk] /\ raced2' = (raced2 \/ ask[m].stale)
          /\ UNCHANGED <<tokens, codes, bought>>
      BY <1>5 DEF expired
    <2>2. EnrolTypes'
      <3>1. EnrolTypes /\ codes \in Nat
        BY <1>0 DEF EnrolInv, EnrolTypes
      <3>2. site' \in Row /\ site'.code = 0
        <4>1. -1 \in Int /\ 0 \in Int /\ site \in Row
          BY <3>1 DEF EnrolTypes
        <4>2. site' = [site EXCEPT !.code = 0, !.left = -1]
          BY <2>1
        <4> QED
          BY <4>1, <4>2, RowWritten
      <3>3. ask' \in [Machine -> LookUp] /\ \A k \in Machine : ask'[k].code \in 0..codes
        BY <2>1, <3>1, OutdatedIsStale, DroppedLookUp
      <3>4. raced2' \in BOOLEAN
        BY <2>1, <3>1 DEF EnrolTypes, LookUp
      <3> QED
        BY <2>1, <3>1, <3>2, <3>3, <3>4 DEF EnrolTypes
    <2>3. CurrentUnspent' /\ NotYetMade'
      BY <2>1 DEF EnrolInv, EnrolTypes, CurrentUnspent, NotYetMade
    <2>4. LookUpsHold'
      BY <2>1, OutdatedIsStale DEF EnrolInv, LookUpsHold, Asking, NoAsk
    <2> QED
      BY <2>2, <2>3, <2>4 DEF EnrolInv
  <1>6. ASSUME NEW m \in Machine, enrolled(m) PROVE EnrolInv'
    <2>1. /\ tokens' = tokens + 1 /\ site' = [code |-> 0, left |-> -1, token |-> tokens + 1]
          /\ bought' = [bought EXCEPT ![ask[m].code] = @ + 1]
          /\ ask' = [Outdated EXCEPT ![m] = NoAsk] /\ raced2' = (raced2 \/ ask[m].stale)
          /\ Asking(m) /\ codes' = codes
      BY <1>6 DEF enrolled, Spent
    <2>2. ask[m].code \in 1..codes
      BY <2>1 DEF EnrolInv, EnrolTypes, Asking
    <2>3. EnrolTypes'
      <3>1. EnrolTypes /\ codes \in Nat
        BY <1>0 DEF EnrolInv, EnrolTypes
      <3>2. tokens' \in Nat
        BY <2>1, <3>1 DEF EnrolTypes
      <3>6. site' \in Row /\ site'.code = 0
        BY <2>1, <3>1 DEF EnrolTypes, Row
      <3>3. ask' \in [Machine -> LookUp] /\ \A k \in Machine : ask'[k].code \in 0..codes
        BY <2>1, <3>1, OutdatedIsStale, DroppedLookUp
      <3>4. bought' \in [1..MaxCodes -> Nat]
        BY <1>0, <2>1, <2>2, <3>1 DEF EnrolTypes
      <3>5. raced2' \in BOOLEAN
        BY <2>1, <3>1 DEF EnrolTypes, LookUp
      <3> QED
        BY <2>1, <3>1, <3>2, <3>3, <3>4, <3>5, <3>6 DEF EnrolTypes
    <2>4. NotYetMade'
      BY <1>0, <2>1, <2>2 DEF EnrolInv, EnrolTypes, NotYetMade
    <2>5. CurrentUnspent'
      <3>1. SUFFICES ASSUME ~raced2', NEW c \in 1..MaxCodes PROVE bought'[c] <= 1 /\ c # site'.code
        BY <2>1 DEF CurrentUnspent, EnrolInv, EnrolTypes
      <3>2. ~raced2 /\ ask[m].code = site.code
        BY <2>1, <3>1 DEF EnrolInv, LookUpsHold
      <3>3. bought[site.code] = 0 /\ bought[c] <= 1
        BY <1>0, <2>2, <3>2 DEF EnrolInv, EnrolTypes, CurrentUnspent
      <3> QED
        BY <1>0, <2>1, <2>2, <3>2, <3>3 DEF EnrolInv, EnrolTypes
    <2>6. LookUpsHold'
      BY <2>1, OutdatedIsStale DEF EnrolInv, LookUpsHold, Asking, NoAsk
    <2> QED
      BY <2>3, <2>4, <2>5, <2>6 DEF EnrolInv
  <1>7. CASE UNCHANGED <<site, tokens, codes, bought, raced2>> /\ (ask' = ask \/ ask' = [m \in Machine |-> NoAsk])
    <2>1. EnrolTypes'
      <3>1. EnrolTypes /\ codes \in Nat
        BY <1>0 DEF EnrolInv, EnrolTypes
      <3>2. NoAsk \in LookUp /\ NoAsk.code \in 0..codes
        BY <3>1 DEF NoAsk, LookUp
      <3>3. ask' \in [Machine -> LookUp] /\ \A k \in Machine : ask'[k].code \in 0..codes
        BY <1>7, <3>1, <3>2 DEF EnrolTypes
      <3> QED
        BY <1>7, <3>1, <3>3 DEF EnrolTypes
    <2>2. LookUpsHold'
      BY <1>7 DEF EnrolInv, LookUpsHold, Asking, NoAsk
    <2> QED
      BY <1>7, <2>1, <2>2 DEF EnrolInv, NotYetMade, CurrentUnspent
  <1>8. ASSUME NEW m \in Machine, mishap(m) PROVE EnrolInv'
    <2>1. /\ ask' = [ask EXCEPT ![m].left = Asking(m)]
          /\ UNCHANGED <<site, codes, tokens, bought, raced2>> /\ EnrolTypes
      BY <1>0, <1>8 DEF mishap, EnrolInv
    <2>2. \A k \in Machine : /\ ask'[k] \in LookUp
                            /\ ask'[k].code = ask[k].code /\ ask'[k].stale = ask[k].stale
      BY <2>1 DEF EnrolTypes, LookUp, Asking
    <2>3. ask' \in [Machine -> LookUp]
      BY <2>1, <2>2 DEF EnrolTypes
    <2>4. EnrolTypes' /\ LookUpsHold'
      BY <1>0, <2>1, <2>2, <2>3 DEF EnrolInv, EnrolTypes, LookUpsHold, Asking
    <2> QED
      BY <1>0, <2>1, <2>4 DEF EnrolInv, NotYetMade, CurrentUnspent
  <1> QED
    BY <1>1, <1>2, <1>3, <1>4, <1>5, <1>6, <1>7, <1>8 DEF EnrolSee

LEMMA EnrolStart ==
    ASSUME EnrolmentInit
    PROVE  EnrolInv
  <1>1. MaxCodes \in Nat
    BY EnrolmentAssumption
  <1>2. NoAsk \in LookUp /\ NoAsk.code = 0
    BY DEF NoAsk, LookUp
  <1>6. site \in Row /\ site.code = 0
    BY DEF EnrolmentInit, Row
  <1>7. raced2 \in BOOLEAN
    BY DEF EnrolmentInit
  <1>3. /\ site.code \in 0..codes
        /\ codes \in 0..MaxCodes /\ tokens \in Nat
        /\ bought \in [1..MaxCodes -> Nat]
    BY <1>1, <1>6 DEF EnrolmentInit
  <1>4. EnrolTypes
    BY <1>2, <1>3, <1>6, <1>7 DEF EnrolmentInit, EnrolTypes
  <1>5. NotYetMade /\ CurrentUnspent /\ LookUpsHold
    BY <1>1, <1>2 DEF EnrolmentInit, NotYetMade, CurrentUnspent, LookUpsHold, Asking
  <1> QED
    BY <1>4, <1>5 DEF EnrolInv

-----------------------------------------------------------------------------
\* Both halves of the system keep their invariant, whatever the other does
\* (server/main.go: one server, one clock).
LEMMA StepsSeen ==
    ASSUME [AccessNext]_accessVars
    PROVE  (AccountsSee \/ UNCHANGED avars) /\ EnrolSee
  <1>1. CASE AccountsStep /\ UNCHANGED evars
    BY <1>1 DEF AccountsSee, EnrolSee, evars
  <1>2. ASSUME NEW m \in Machine, Centre(m) \/ Site(m) \/ Around(m), UNCHANGED avars
        PROVE  EnrolSee
    <2>1. CASE lookUp(m) \/ expired(m) \/ enrolled(m) \/ mishap(m)
      BY <2>1 DEF EnrolSee
    <2>2. CASE refused(m) \/ Site(m) \/ giveCode(m)
      BY <2>2 DEF EnrolSee, refused, Site, start, writeToken, writeId, giveCode
    <2> QED
      BY <1>2, <2>1, <2>2 DEF Centre, Around
  <1>3. CASE issue
    BY <1>3 DEF issue, AccountsSee, EnrolSee
  <1>4. CASE ticks
    BY <1>4 DEF ticks, AccountsSee, EnrolSee
  <1>5. CASE serverRestart
    BY <1>5 DEF serverRestart, AccountsSee, EnrolSee
  <1>6. CASE UNCHANGED accessVars
    BY <1>6 DEF accessVars, EnrolSee, evars
  <1> QED
    BY <1>1, <1>2, <1>3, <1>4, <1>5, <1>6 DEF AccessNext

\* The two invariants together hold in every state.
THEOREM AccessInvariant == AccessSpec => [](AccountsInv /\ EnrolInv)
  <1>1. AccessInit => AccountsInv /\ EnrolInv
    BY AccountsStart, EnrolStart DEF AccessInit
  <1>2. AccountsInv /\ EnrolInv /\ [AccessNext]_accessVars => AccountsInv' /\ EnrolInv'
    BY AccountsKept, EnrolKept, StepsSeen
  <1> QED
    BY <1>1, <1>2, PTL DEF AccessSpec

\* Once there is an administrator who can sign in there always is one, for any
\* number of accounts and of requests at the same time, unless a change was
\* written on a check that another had overtaken (users.go wouldStrandUs).
THEOREM AdministratorsRemain == AccessSpec => []AdminRemains
  <1>1. AccountsInv => AdminRemains
    BY DEF AccountsInv
  <1> QED
    BY <1>1, AccessInvariant, PTL

\* No session holds an administrator's right longer than its time after the
\* account lost it (session.go lookup, create).
THEOREM RightsDoExpire == AccessSpec => []RightsExpire
  <1>1. AccountsInv => RightsExpire
    BY DEF AccountsInv
  <1> QED
    BY <1>1, AccessInvariant, PTL

\* A code buys one enrolment, for any number of codes and machines, unless two
\* look-ups came before the first write (enroll.go hSiteEnroll).
THEOREM CodesBuyOnce == AccessSpec => []CodeBuysOnce
  <1>1. EnrolInv => CodeBuysOnce
    BY DEF EnrolInv, CurrentUnspent, CodeBuysOnce
  <1> QED
    BY <1>1, AccessInvariant, PTL
=============================================================================
