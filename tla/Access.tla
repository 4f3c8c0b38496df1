------------------------------- MODULE Access -------------------------------
(***************************************************************************)
(* Accounts and enrolment together: codes and tokens for a site are made   *)
(* by people who are signed in as administrators (server/main.go, routes   *)
(* behind requireAdminUI), and both run on one clock and one server.       *)
(***************************************************************************)
EXTENDS Accounts, Enrolment

accessVars == <<avars, evars>>

AccessInit == AccountsInit /\ EnrolmentInit

\* hUISiteEnroll, hSiteEnrollCode and hSiteToken.
issue ==
    /\ Act /\ Signed
    /\ makeEnrollCode \/ hSiteToken
    /\ UNCHANGED <<users, sess, req, login, had, raced, lost>>

ticks == tick /\ codeAges

\* A start of the server loses the requests under way, on both sides.
serverRestart ==
    /\ Mishap /\ restart
    /\ ask' = [m \in Machine |-> NoAsk]
    /\ mach' = [m \in Machine |->
                  IF mach[m].doing = "asking" THEN [mach[m] EXCEPT !.doing = "off"] ELSE mach[m]]
    /\ UNCHANGED <<site, tokens, codes, bought, raced2>>

AccessNext ==
    \/ AccountsStep /\ UNCHANGED evars
    \/ (\E m \in Machine : Centre(m) \/ Site(m) \/ Around(m)) /\ UNCHANGED avars
    \/ issue \/ ticks \/ serverRestart

AccessSpec == AccessInit /\ [][AccessNext]_accessVars
=============================================================================
