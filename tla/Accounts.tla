------------------------------ MODULE Accounts ------------------------------
(***************************************************************************)
(* Accounts of the three roles: register, verify the e-mail address, log    *)
(* in, reset a forgotten password, log out and be authenticated, as HTTP    *)
(* requests over the role's table, the Redis blacklist and the mail broker. *)
(*                                                                         *)
(* Sellers, partners and clients share UserService; each has its own table  *)
(* and routes.  An account is named by the request that registered it, an   *)
(* access token by the request that logged in.                              *)
(***************************************************************************)
EXTENDS Naturals, FiniteSets

CONSTANTS
  Req,          \* identities of HTTP requests, each served once
  Turn,         \* the order in which they arrive
  Roles, Emails, Passwords,
  Shipments,    \* shipments whose signed review link was mailed
  MaxInFlight,  \* bound: requests served at the same time
  Faults,       \* whether the broker is down at times and the process dies
  None

ASSUME SetsAssumption ==
  /\ None \notin Req \cup Roles \cup Emails \cup Passwords \cup Shipments
  /\ Req \cap Shipments = {}
  /\ IsFiniteSet(Req) /\ Turn \in [Req -> Nat]

ASSUME BoundAssumption == MaxInFlight \in Nat /\ Faults \in BOOLEAN

VARIABLES
  accounts,   \* rows of the role tables
  verified,   \* those with email_verified
  password,   \* whose hash is stored
  mails,      \* signed links handed to the mail broker
  expired,    \* links and tokens past their lifetime
  tokenOf,    \* the account an access token was issued to
  blacklist,  \* Redis db 0: logged-out tokens
  pc,         \* where a request stands
  call,       \* what it was asked
  seen        \* the account it loaded, with email_verified as it was then

database == <<accounts, verified, password>>
vars == <<accounts, verified, password, mails, expired, tokenOf, blacklist, pc, call, seen>>

\* Review and verification links carry the default salt, reset links their own.
Link == [salt : {"itsdangerous", "password_reset"}, id : Req \cup Shipments]

Operations == {"register", "verify", "login", "forgot", "reset", "logout", "visit"}

\* A reset with two different passwords has password None.
Call == [op : Operations, role : Roles, email : Emails \cup {None},
         password : Passwords \cup {None}, link : Link \cup {None},
         token : Req \cup {None}]

Loaded == [account : Req \cup {None}, verified : BOOLEAN, out : BOOLEAN]

Ended == {"ok", "refused", "failed"}

InFlight == {r \in Req : pc[r] \notin {"new"} \cup Ended}

Init ==
  /\ accounts = {} /\ verified = {}
  /\ password = [a \in Req |-> None]
  /\ mails = {[salt |-> "itsdangerous", id |-> s] : s \in Shipments}
  /\ expired = {}
  /\ tokenOf = [r \in Req |-> None]
  /\ blacklist = {}
  /\ pc = [r \in Req |-> "new"]
  /\ call = [r \in Req |-> None]
  /\ seen = [r \in Req |-> [account |-> None, verified |-> FALSE, out |-> FALSE]]

Goto(r, phase) == pc' = [pc EXCEPT ![r] = phase]

Ask(op, role, email, word, link, token) ==
  [op |-> op, role |-> role, email |-> email, password |-> word,
   link |-> link, token |-> token]

Arrive(r, c) ==
  /\ pc[r] = "new"
  /\ \A q \in Req : Turn[q] < Turn[r] => pc[q] # "new"
  /\ Cardinality(InFlight) < MaxInFlight
  /\ call' = [call EXCEPT ![r] = c]

See(r, a) == seen' = [seen EXCEPT ![r] =
  [account |-> a, verified |-> a \in verified, out |-> FALSE]]

\* The row of a role table with this address.
WithEmail(role, email) == {a \in accounts : call[a].role = role /\ call[a].email = email}

\* Mutant: the id is looked for in every role's table.
WithId_AnyRole(role, id) == {a \in accounts : a = id}

\* session.get: the row of a role table with this id.
WithId(role, id) == {a \in accounts : a = id /\ call[a].role = role}

(***************************************************************************)
(* Registration: INSERT and COMMIT, then the mail.                          *)
(***************************************************************************)

Taken(role, email) == WithEmail(role, email) # {}

Register(r) == \E role \in Roles, email \in Emails, word \in Passwords :
  /\ Arrive(r, Ask("register", role, email, word, None, None))
  /\ IF Taken(role, email)
     THEN Goto(r, "refused") /\ UNCHANGED <<accounts, password, seen>>
     ELSE /\ accounts' = accounts \cup {r}
          /\ password' = [password EXCEPT ![r] = word]
          /\ See(r, r)
          /\ Goto(r, "mail")
  /\ UNCHANGED <<verified, mails, expired, tokenOf, blacklist>>

\* The link of a mail: to the account just registered or asked for.
MailedLink(r) ==
  [salt |-> IF call[r].op = "forgot" THEN "password_reset" ELSE "itsdangerous",
   id |-> seen[r].account]

SendMail(r) ==
  /\ pc[r] = "mail"
  /\ mails' = mails \cup {MailedLink(r)}
  /\ Goto(r, "ok")
  /\ UNCHANGED <<database, expired, tokenOf, blacklist, call, seen>>

\* The broker is down: 500, the account of a registration stays.
MailFails(r) ==
  /\ Faults /\ pc[r] = "mail"
  /\ Goto(r, "failed")
  /\ UNCHANGED <<database, mails, expired, tokenOf, blacklist, call, seen>>

(***************************************************************************)
(* Signed links.                                                            *)
(***************************************************************************)
\* Mutant: one salt for all links.
Decodes_AnySalt(link, salt) == link \notin expired

Decodes(link, salt) == link.salt = salt /\ link \notin expired

\* What a link opens at the routes of a role: an account, or nothing.
Opens(link, salt, role) == IF Decodes(link, salt) THEN WithId(role, link.id) ELSE {}

FollowLink(r, c, salt) ==
  /\ Arrive(r, c)
  /\ IF (c.op = "reset" /\ c.password = None) \/ Opens(c.link, salt, c.role) = {}
     THEN Goto(r, "refused") /\ UNCHANGED seen
     ELSE See(r, c.link.id) /\ Goto(r, "save")
  /\ UNCHANGED <<database, mails, expired, tokenOf, blacklist>>

Verify(r) == \E role \in Roles, link \in mails :
  FollowLink(r, Ask("verify", role, None, None, link, None), "itsdangerous")

Reset(r) == \E role \in Roles, link \in mails, word \in Passwords \cup {None} :
  FollowLink(r, Ask("reset", role, None, word, link, None), "password_reset")

SaveVerified(r) ==
  /\ pc[r] = "save" /\ call[r].op = "verify"
  /\ verified' = verified \cup {seen[r].account}
  /\ Goto(r, "ok")
  /\ UNCHANGED <<accounts, password, mails, expired, tokenOf, blacklist, call, seen>>

\* The unit of work writes the columns that were assigned: the hash alone.
SavePassword(r) ==
  /\ pc[r] = "save" /\ call[r].op = "reset"
  /\ password' = [password EXCEPT ![seen[r].account] = call[r].password]
  /\ Goto(r, "ok")
  /\ UNCHANGED <<accounts, verified, mails, expired, tokenOf, blacklist, call, seen>>

Forgot(r) == \E role \in Roles, email \in Emails :
  /\ Arrive(r, Ask("forgot", role, email, None, None, None))
  /\ \/ /\ WithEmail(role, email) = {}
        /\ Goto(r, "refused") /\ UNCHANGED seen
     \/ /\ \E a \in WithEmail(role, email) : See(r, a)
        /\ Goto(r, "mail")
  /\ UNCHANGED <<database, mails, expired, tokenOf, blacklist>>

(***************************************************************************)
(* Access tokens.                                                           *)
(***************************************************************************)

MayLogIn(a, word) == password[a] = word /\ a \in verified

Login(r) == \E role \in Roles, email \in Emails, word \in Passwords :
  /\ Arrive(r, Ask("login", role, email, word, None, None))
  /\ \/ /\ \A a \in WithEmail(role, email) : ~MayLogIn(a, word)
        /\ Goto(r, "refused") /\ UNCHANGED <<tokenOf, seen>>
     \/ \E a \in WithEmail(role, email) :
          /\ MayLogIn(a, word)
          /\ tokenOf' = [tokenOf EXCEPT ![r] = a]
          /\ See(r, a) /\ Goto(r, "ok")
  /\ UNCHANGED <<database, mails, expired, blacklist>>

Tokens == {t \in Req : tokenOf[t] # None}

\* A request with a bearer token; the blacklist is asked first.
Present(r) == \E op \in {"logout", "visit"}, role \in Roles, t \in Tokens :
  /\ Arrive(r, Ask(op, role, None, None, None, t))
  /\ seen' = [seen EXCEPT ![r] = [account |-> None, verified |-> FALSE,
                                  out |-> t \in blacklist]]
  /\ Goto(r, "check")
  /\ UNCHANGED <<database, mails, expired, tokenOf, blacklist>>

Valid(t) == t \notin expired /\ t \notin blacklist

CheckToken(r) ==
  /\ pc[r] = "check"
  /\ Goto(r, IF Valid(call[r].token) THEN call[r].op ELSE "refused")
  /\ UNCHANGED <<database, mails, expired, tokenOf, blacklist, call, seen>>

\* The token names no role: any role's logout takes it.
Logout(r) ==
  /\ pc[r] = "logout"
  /\ blacklist' = blacklist \cup {call[r].token}
  /\ Goto(r, "ok")
  /\ UNCHANGED <<database, mails, expired, tokenOf, call, seen>>

\* A route of a role looks the account up in the role's own table.
Visit(r) ==
  /\ pc[r] = "visit"
  /\ Goto(r, IF WithId(call[r].role, tokenOf[call[r].token]) = {} THEN "refused" ELSE "ok")
  /\ UNCHANGED <<database, mails, expired, tokenOf, blacklist, call, seen>>

Expire == \E x \in mails \cup Tokens :
  /\ x \notin expired
  /\ expired' = expired \cup {x}
  /\ UNCHANGED <<database, mails, tokenOf, blacklist, pc, call, seen>>

\* The process dies: rows are committed or not, mails queued or not.
Crash ==
  /\ Faults /\ InFlight # {}
  /\ pc' = [r \in Req |-> IF r \in InFlight THEN "failed" ELSE pc[r]]
  /\ UNCHANGED <<database, mails, expired, tokenOf, blacklist, call, seen>>

Receive(r) ==
  Register(r) \/ Verify(r) \/ Forgot(r) \/ Reset(r) \/ Login(r) \/ Present(r)

Serve(r) ==
  \/ SendMail(r) \/ SaveVerified(r) \/ SavePassword(r)
  \/ CheckToken(r) \/ Logout(r) \/ Visit(r)

Next ==
  \/ \E r \in Req : Receive(r) \/ Serve(r) \/ MailFails(r)
  \/ Expire \/ Crash

Spec == Init /\ [][Next]_vars

(***************************************************************************)
(* Properties.                                                              *)
(***************************************************************************)
TypeOK ==
  /\ accounts \in SUBSET Req /\ verified \in SUBSET accounts
  /\ password \in [Req -> Passwords \cup {None}]
  /\ mails \in SUBSET Link
  /\ expired \in SUBSET (Link \cup Req)
  /\ tokenOf \in [Req -> Req \cup {None}]
  /\ blacklist \in SUBSET Req
  /\ pc \in [Req -> {"new", "mail", "save", "check", "logout", "visit"} \cup Ended]
  /\ call \in [Req -> Call \cup {None}]
  /\ seen \in [Req -> Loaded]

\* login() can never pick between two accounts: an address registers once per
\* role, however registrations overlap.
UniqueEmail == \A a, b \in accounts :
  call[a].role = call[b].role /\ call[a].email = call[b].email => a = b

\* An address only counts as verified after a verification link for this very
\* account was mailed; reset and review links, or links of another role, never
\* verify it although they are signed with the same secret.
VerifiedByItsLink == \A a \in verified : [salt |-> "itsdangerous", id |-> a] \in mails

\* A password only ever changes through a reset link mailed for this account.
ResetByItsLink == \A a \in accounts :
  password[a] # call[a].password => [salt |-> "password_reset", id |-> a] \in mails

\* Every access token belongs to an account that is verified, now and for good:
\* saving a password never undoes a verification that was saved meanwhile.
SessionsAreVerified == \A t \in Tokens : tokenOf[t] \in verified

\* A request is only served as a user of its route's role, and not with a token
\* that had been logged out when the request arrived.
ServedIsLoggedIn == \A r \in Req : pc[r] = "ok" /\ call[r].op = "visit" =>
  /\ call[tokenOf[call[r].token]].role = call[r].role
  /\ ~seen[r].out

\* "A verification email will be sent upon registration": an account whose
\* registration is over has its link in the mail broker.
MailedOnRegistration == \A a \in accounts :
  pc[a] \in Ended => [salt |-> "itsdangerous", id |-> a] \in mails

\* What a link proves, it proves of one account: it verifies or resets the
\* account it was mailed for, and no other.
LinksProve == VerifiedByItsLink /\ ResetByItsLink

\* What a token proves: its account is verified and was the only one the login
\* could find, and who is served with it is of the route's role and had not
\* logged out.
SessionsHold == UniqueEmail /\ SessionsAreVerified /\ ServedIsLoggedIn

(***************************************************************************)
(* The inductive invariant behind the safety properties.                    *)
(***************************************************************************)
\* What was asked stays known, so an account keeps its role and address.
ArrivedInv ==
  /\ \A r \in Req : pc[r] # "new" => call[r] \in Call
  /\ \A a \in accounts \cup Tokens : pc[a] # "new"

\* A request about to save holds the account whose link it followed.
SaveInv == \A r \in Req : pc[r] = "save" =>
  /\ call[r].op \in {"verify", "reset"} /\ seen[r].account \in accounts
  /\ [salt |-> IF call[r].op = "verify" THEN "itsdangerous" ELSE "password_reset",
      id |-> seen[r].account] \in mails

MailInv == \A r \in Req : pc[r] = "mail" =>
  call[r].op \in {"register", "forgot"} /\ seen[r].account \in accounts

\* A token handed to a route exists, and was checked before it is used.
PresentInv == \A r \in Req :
  /\ pc[r] \in {"check", "logout", "visit"} \/ (pc[r] = "ok" /\ call[r].op = "visit") =>
       call[r].token \in Tokens
  /\ pc[r] = "check" => call[r].op \in {"logout", "visit"}
  /\ pc[r] \in {"logout", "visit"} => call[r].op = pc[r] /\ ~seen[r].out
  /\ pc[r] = "check" /\ seen[r].out => call[r].token \in blacklist

AccountsInv ==
  /\ TypeOK /\ ArrivedInv /\ SaveInv /\ MailInv /\ PresentInv
  /\ UniqueEmail /\ VerifiedByItsLink /\ ResetByItsLink /\ SessionsAreVerified
  /\ ServedIsLoggedIn
=============================================================================
