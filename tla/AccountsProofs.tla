--------------------------- MODULE AccountsProofs ---------------------------
(***************************************************************************)
(* The safety properties of Accounts, for any sets of requests, roles,      *)
(* addresses, passwords and shipments, and any number of requests at once.  *)
(***************************************************************************)
EXTENDS Accounts, TLAPS

LEMMA InitEstablishes == Init => AccountsInv
BY SetsAssumption DEF Init, AccountsInv, TypeOK, ArrivedInv, SaveInv, MailInv, PresentInv,
  UniqueEmail, VerifiedByItsLink, ResetByItsLink, SessionsAreVerified, ServedIsLoggedIn,
  Link, Loaded, Tokens, Ended

\* A request that arrives is none of the accounts or tokens there are.
LEMMA ArrivingIsNew ==
  ASSUME AccountsInv, NEW r \in Req, NEW c, Arrive(r, c)
  PROVE  /\ r \notin accounts \cup Tokens
         /\ \A a \in accounts : call'[a] = call[a]
         /\ \A q \in Req : q # r => call'[q] = call[q]
         /\ call'[r] = c
BY DEF AccountsInv, TypeOK, ArrivedInv, Arrive, Tokens

LEMMA SeesALoadedRow ==
  ASSUME NEW r \in Req, NEW a \in Req, See(r, a)
  PROVE  \E v \in Loaded : v.account = a /\ seen' = [seen EXCEPT ![r] = v]
<1> DEFINE v == [account |-> a, verified |-> a \in verified, out |-> FALSE]
<1>1. v \in Loaded /\ v.account = a
  BY DEF Loaded
<1>2. seen' = [seen EXCEPT ![r] = v]
  BY DEF See
<1> QED
  BY <1>1, <1>2

LEMMA RegisterKeeps ==
  ASSUME AccountsInv, NEW r \in Req, Register(r)
  PROVE  AccountsInv'
<1>1. PICK role \in Roles, email \in Emails, word \in Passwords :
        Register(r)!(role, email, word)
  BY DEF Register
<1> DEFINE c == Ask("register", role, email, word, None, None)
<1>2. /\ c \in Call /\ c.role = role /\ c.email = email /\ c.password = word
      /\ c.op = "register"
  BY DEF Ask, Call, Operations
<1>3. /\ Arrive(r, c)
      /\ UNCHANGED <<verified, mails, expired, tokenOf, blacklist>>
      /\ pc[r] = "new" /\ call' = [call EXCEPT ![r] = c]
  BY <1>1 DEF Arrive
<1> HIDE DEF c
<1>4. /\ r \notin accounts \cup Tokens
      /\ \A a \in accounts : call'[a] = call[a]
      /\ \A q \in Req : q # r => call'[q] = call[q]
      /\ call'[r] = c
  BY <1>3, ArrivingIsNew
<1>5. CASE Taken(role, email)
  <2>1. pc' = [pc EXCEPT ![r] = "refused"] /\ UNCHANGED <<accounts, password, seen>>
    BY <1>1, <1>5 DEF Goto
  <2> QED
    BY <1>2, <1>3, <1>4, <2>1 DEF AccountsInv, TypeOK, ArrivedInv, SaveInv, MailInv, PresentInv,
      UniqueEmail, VerifiedByItsLink, ResetByItsLink, SessionsAreVerified, ServedIsLoggedIn,
      Tokens, Ended
<1>6. CASE ~Taken(role, email)
  <2> DEFINE v == [account |-> r, verified |-> r \in verified, out |-> FALSE]
  <2>1. /\ pc' = [pc EXCEPT ![r] = "mail"] /\ accounts' = accounts \cup {r}
        /\ password' = [password EXCEPT ![r] = word]
        /\ seen' = [seen EXCEPT ![r] = v]
        /\ v \in Loaded /\ v.account = r
    BY <1>1, <1>6 DEF Goto, See, Loaded
  <2>2. \A a \in accounts : ~(call[a].role = role /\ call[a].email = email)
    BY <1>6 DEF Taken, WithEmail
  <2> HIDE DEF v
  <2>3. TypeOK'
    BY <1>2, <1>3, <2>1 DEF AccountsInv, TypeOK, Ended
  <2>4. ArrivedInv'
    BY <1>2, <1>3, <2>1 DEF AccountsInv, TypeOK, ArrivedInv, Tokens
  <2>5. SaveInv' /\ MailInv'
    BY <1>2, <1>3, <1>4, <2>1 DEF AccountsInv, TypeOK, SaveInv, MailInv
  <2>6. PresentInv'
    BY <1>2, <1>3, <1>4, <2>1 DEF AccountsInv, TypeOK, PresentInv, Tokens
  <2>7. UniqueEmail'
    BY <1>2, <1>4, <2>1, <2>2 DEF AccountsInv, TypeOK, UniqueEmail
  <2>8. VerifiedByItsLink' /\ ResetByItsLink' /\ SessionsAreVerified'
    BY <1>2, <1>3, <1>4, <2>1 DEF AccountsInv, TypeOK, VerifiedByItsLink, ResetByItsLink,
      SessionsAreVerified, Tokens
  <2>9. ServedIsLoggedIn'
    BY <1>2, <1>3, <1>4, <2>1 DEF AccountsInv, TypeOK, ServedIsLoggedIn, PresentInv,
      SessionsAreVerified, Tokens
  <2> QED
    BY <2>3, <2>4, <2>5, <2>6, <2>7, <2>8, <2>9 DEF AccountsInv
<1> QED
  BY <1>5, <1>6

LEMMA SendMailKeeps ==
  ASSUME AccountsInv, NEW r \in Req, SendMail(r) \/ MailFails(r)
  PROVE  AccountsInv'
<1> DEFINE l == MailedLink(r)
<1>1. l \in Link
  BY DEF MailedLink, Link, AccountsInv, MailInv, TypeOK, SendMail, MailFails
<1>2. /\ mails' = mails \cup {l} \/ mails' = mails
      /\ pc[r] = "mail"
      /\ pc' = [pc EXCEPT ![r] = "ok"] \/ pc' = [pc EXCEPT ![r] = "failed"]
      /\ UNCHANGED <<accounts, verified, password, expired, tokenOf, blacklist, call, seen>>
  BY DEF SendMail, MailFails, Goto, database
<1>3. ~(call[r].op = "visit" /\ pc'[r] = "ok")
  BY <1>2 DEF AccountsInv, MailInv, TypeOK, PresentInv
<1> HIDE DEF l
<1> QED
  BY <1>1, <1>2, <1>3 DEF AccountsInv, TypeOK, ArrivedInv, SaveInv, MailInv, PresentInv, UniqueEmail,
    VerifiedByItsLink, ResetByItsLink, SessionsAreVerified, ServedIsLoggedIn, Tokens, Ended

LEMMA FollowLinkKeeps ==
  ASSUME AccountsInv, NEW r \in Req, NEW c \in Call, c.link \in mails,
         c.op \in {"verify", "reset"},
         NEW salt, salt = IF c.op = "verify" THEN "itsdangerous" ELSE "password_reset",
         FollowLink(r, c, salt)
  PROVE  AccountsInv'
<1>1. /\ Arrive(r, c) /\ pc[r] = "new" /\ call' = [call EXCEPT ![r] = c]
      /\ UNCHANGED <<accounts, verified, password, mails, expired, tokenOf, blacklist>>
  BY DEF FollowLink, Arrive, database
<1>2. /\ r \notin accounts \cup Tokens
      /\ \A a \in accounts : call'[a] = call[a]
      /\ \A q \in Req : q # r => call'[q] = call[q]
      /\ call'[r] = c
  BY <1>1, ArrivingIsNew
<1> DEFINE v == [account |-> c.link.id, verified |-> c.link.id \in verified, out |-> FALSE]
<1>3. \/ pc' = [pc EXCEPT ![r] = "refused"] /\ seen' = seen
      \/ /\ pc' = [pc EXCEPT ![r] = "save"] /\ seen' = [seen EXCEPT ![r] = v]
         /\ c.link.id \in accounts /\ c.link.salt = salt
  BY DEF FollowLink, Goto, See, Opens, Decodes, WithId
<1>4. /\ v \in [account : Req \cup Shipments \cup {None}, verified : BOOLEAN, out : BOOLEAN]
      /\ v.account = c.link.id
      /\ c.link.id \in accounts => v \in Loaded
      /\ c.link.salt = salt => [salt |-> salt, id |-> v.account] = c.link
  BY DEF AccountsInv, TypeOK, Link, Loaded
<1> HIDE DEF v
<1>5. TypeOK' /\ ArrivedInv'
  BY <1>1, <1>2, <1>3, <1>4 DEF AccountsInv, TypeOK, ArrivedInv, Tokens, Ended
<1>6. SaveInv'
  BY <1>1, <1>2, <1>3, <1>4 DEF AccountsInv, TypeOK, SaveInv
<1>7. MailInv' /\ PresentInv'
  BY <1>1, <1>2, <1>3, <1>4 DEF AccountsInv, TypeOK, MailInv, PresentInv, Tokens
<1>8. UniqueEmail' /\ VerifiedByItsLink' /\ ResetByItsLink' /\ SessionsAreVerified'
  BY <1>1, <1>2 DEF AccountsInv, TypeOK, UniqueEmail, VerifiedByItsLink,
    ResetByItsLink, SessionsAreVerified, Tokens
<1>9. ServedIsLoggedIn'
  BY <1>1, <1>2, <1>3 DEF AccountsInv, TypeOK, ServedIsLoggedIn, PresentInv, SessionsAreVerified, Tokens
<1> QED
  BY <1>5, <1>6, <1>7, <1>8, <1>9 DEF AccountsInv

LEMMA VerifyKeeps ==
  ASSUME AccountsInv, NEW r \in Req, Verify(r)
  PROVE  AccountsInv'
<1>1. PICK role \in Roles, link \in mails :
        FollowLink(r, Ask("verify", role, None, None, link, None), "itsdangerous")
  BY DEF Verify
<1> DEFINE c == Ask("verify", role, None, None, link, None)
<1>2. c \in Call /\ c.link \in mails /\ c.op = "verify"
  BY DEF Ask, Call, Operations, AccountsInv, TypeOK
<1> HIDE DEF c
<1>3. FollowLink(r, c, "itsdangerous")
  BY <1>1 DEF c
<1> QED
  BY <1>2, <1>3, FollowLinkKeeps

LEMMA ResetKeeps ==
  ASSUME AccountsInv, NEW r \in Req, Reset(r)
  PROVE  AccountsInv'
<1>1. PICK role \in Roles, link \in mails, word \in Passwords \cup {None} :
        FollowLink(r, Ask("reset", role, None, word, link, None), "password_reset")
  BY DEF Reset
<1> DEFINE c == Ask("reset", role, None, word, link, None)
<1>2. c \in Call /\ c.link \in mails /\ c.op = "reset"
  BY DEF Ask, Call, Operations, AccountsInv, TypeOK
<1> HIDE DEF c
<1>3. FollowLink(r, c, "password_reset")
  BY <1>1 DEF c
<1> QED
  BY <1>2, <1>3, FollowLinkKeeps

LEMMA SaveKeeps ==
  ASSUME AccountsInv, NEW r \in Req, SaveVerified(r) \/ SavePassword(r)
  PROVE  AccountsInv'
<1>1. CASE SaveVerified(r)
  <2>1. /\ seen[r].account \in accounts /\ r \notin {a \in Req : pc[a] = "new"}
        /\ [salt |-> "itsdangerous", id |-> seen[r].account] \in mails
        /\ call[r].op = "verify"
    BY <1>1 DEF SaveVerified, AccountsInv, SaveInv
  <2> QED
    BY <1>1, <2>1 DEF SaveVerified, Goto, AccountsInv, TypeOK, ArrivedInv, SaveInv, MailInv, PresentInv,
      UniqueEmail, VerifiedByItsLink, ResetByItsLink, SessionsAreVerified, ServedIsLoggedIn,
      Tokens, Ended
<1>2. CASE SavePassword(r)
  <2>1. /\ seen[r].account \in accounts
        /\ [salt |-> "password_reset", id |-> seen[r].account] \in mails
        /\ call[r].op = "reset" /\ call[r].password \in Passwords \cup {None}
    BY <1>2 DEF SavePassword, AccountsInv, SaveInv, ArrivedInv, Call
  <2> QED
    BY <1>2, <2>1 DEF SavePassword, Goto, AccountsInv, TypeOK, ArrivedInv, SaveInv, MailInv, PresentInv,
      UniqueEmail, VerifiedByItsLink, ResetByItsLink, SessionsAreVerified, ServedIsLoggedIn,
      Tokens, Ended
<1> QED
  BY <1>1, <1>2

LEMMA ForgotKeeps ==
  ASSUME AccountsInv, NEW r \in Req, Forgot(r)
  PROVE  AccountsInv'
<1>1. PICK role \in Roles, email \in Emails : Forgot(r)!(role, email)
  BY DEF Forgot
<1> DEFINE c == Ask("forgot", role, email, None, None, None)
<1>2. c \in Call /\ c.op = "forgot"
  BY DEF Ask, Call, Operations
<1>3. /\ Arrive(r, c) /\ pc[r] = "new" /\ call' = [call EXCEPT ![r] = c]
      /\ UNCHANGED <<accounts, verified, password, mails, expired, tokenOf, blacklist>>
      /\ \/ pc' = [pc EXCEPT ![r] = "refused"] /\ seen' = seen
         \/ /\ pc' = [pc EXCEPT ![r] = "mail"]
            /\ \E a \in accounts, v \in Loaded : v.account = a /\ seen' = [seen EXCEPT ![r] = v]
  BY <1>1, SeesALoadedRow DEF Arrive, Goto, database, WithEmail, AccountsInv, TypeOK
<1> HIDE DEF c
<1>4. /\ r \notin accounts \cup Tokens
      /\ \A a \in accounts : call'[a] = call[a]
      /\ \A q \in Req : q # r => call'[q] = call[q]
      /\ call'[r] = c
  BY <1>3, ArrivingIsNew
<1>5. TypeOK' /\ ArrivedInv'
  BY <1>2, <1>3, <1>4 DEF AccountsInv, TypeOK, ArrivedInv, Loaded, Tokens, Ended
<1>6. SaveInv' /\ MailInv' /\ PresentInv'
  BY <1>2, <1>3, <1>4 DEF AccountsInv, TypeOK, SaveInv, MailInv, PresentInv, Tokens
<1>7. UniqueEmail' /\ VerifiedByItsLink' /\ ResetByItsLink' /\ SessionsAreVerified'
  BY <1>3, <1>4 DEF AccountsInv, TypeOK, UniqueEmail, VerifiedByItsLink,
    ResetByItsLink, SessionsAreVerified, Tokens
<1>8. ServedIsLoggedIn'
  BY <1>2, <1>3, <1>4 DEF AccountsInv, TypeOK, ServedIsLoggedIn, PresentInv, SessionsAreVerified,
    Tokens
<1> QED
  BY <1>5, <1>6, <1>7, <1>8 DEF AccountsInv

LEMMA LoginKeeps ==
  ASSUME AccountsInv, NEW r \in Req, Login(r)
  PROVE  AccountsInv'
<1>1. PICK role \in Roles, email \in Emails, word \in Passwords :
        Login(r)!(role, email, word)
  BY DEF Login
<1> DEFINE c == Ask("login", role, email, word, None, None)
<1>2. c \in Call /\ c.op = "login"
  BY DEF Ask, Call, Operations
<1>3. /\ Arrive(r, c) /\ pc[r] = "new" /\ call' = [call EXCEPT ![r] = c]
      /\ UNCHANGED <<accounts, verified, password, mails, expired, blacklist>>
      /\ \/ pc' = [pc EXCEPT ![r] = "refused"] /\ seen' = seen /\ tokenOf' = tokenOf
         \/ /\ pc' = [pc EXCEPT ![r] = "ok"]
            /\ \E a \in verified, v \in Loaded :
                 seen' = [seen EXCEPT ![r] = v] /\ tokenOf' = [tokenOf EXCEPT ![r] = a]
  BY <1>1, SeesALoadedRow DEF Arrive, Goto, database, MayLogIn, AccountsInv, TypeOK
<1> HIDE DEF c
<1>4. /\ r \notin accounts \cup Tokens
      /\ \A a \in accounts : call'[a] = call[a]
      /\ \A q \in Req : q # r => call'[q] = call[q]
      /\ call'[r] = c
  BY <1>3, ArrivingIsNew
<1>5. \A t \in Req : t # r => tokenOf'[t] = tokenOf[t]
  BY <1>3 DEF AccountsInv, TypeOK
<1>6. Tokens \subseteq Tokens' /\ Tokens' \subseteq Tokens \cup {r}
  BY <1>4, <1>5 DEF Tokens
<1>7. /\ tokenOf' \in [Req -> Req \cup {None}] /\ seen' \in [Req -> Loaded]
      /\ pc' \in [Req -> {"new", "mail", "save", "check", "logout", "visit"} \cup Ended]
  BY <1>3 DEF AccountsInv, TypeOK, Ended
<1>8. TypeOK' /\ ArrivedInv'
  <2>1. TypeOK'
    BY <1>2, <1>3, <1>7 DEF AccountsInv, TypeOK
  <2>2. \A q \in Req : q # r => pc'[q] = pc[q] /\ call'[q] = call[q]
    BY <1>3, <1>4 DEF AccountsInv, TypeOK
  <2>3. pc'[r] # "new" /\ r \in Req
    BY <1>3 DEF AccountsInv, TypeOK
  <2> QED
    BY <1>2, <1>3, <1>4, <1>6, <2>1, <2>2, <2>3 DEF AccountsInv, TypeOK, ArrivedInv, Tokens
<1>9. SaveInv' /\ MailInv' /\ PresentInv'
  BY <1>2, <1>3, <1>4, <1>6 DEF AccountsInv, TypeOK, SaveInv, MailInv, PresentInv
<1>10. UniqueEmail' /\ VerifiedByItsLink' /\ ResetByItsLink' /\ SessionsAreVerified'
  BY <1>3, <1>4, <1>5 DEF AccountsInv, TypeOK, UniqueEmail, VerifiedByItsLink,
    ResetByItsLink, SessionsAreVerified, Tokens
<1>11. ServedIsLoggedIn'
  BY <1>2, <1>3, <1>4, <1>5 DEF AccountsInv, TypeOK, ServedIsLoggedIn, PresentInv, SessionsAreVerified,
    Tokens
<1> QED
  BY <1>8, <1>9, <1>10, <1>11 DEF AccountsInv

LEMMA PresentKeeps ==
  ASSUME AccountsInv, NEW r \in Req, Present(r)
  PROVE  AccountsInv'
<1>1. PICK op \in {"logout", "visit"}, role \in Roles, t \in Tokens :
        Present(r)!(op, role, t)
  BY DEF Present
<1> DEFINE c == Ask(op, role, None, None, None, t)
           v == [account |-> None, verified |-> FALSE, out |-> t \in blacklist]
<1>2. c \in Call /\ c.token = t /\ c.op \in {"logout", "visit"}
  BY DEF Ask, Call, Operations, Tokens
<1>3. v \in Loaded /\ (v.out => t \in blacklist)
  <2>1. v \in Loaded
    BY DEF Loaded
  <2>2. CASE t \in blacklist
    BY <2>1, <2>2
  <2>3. CASE t \notin blacklist
    <3>1. (t \in blacklist) = FALSE
      BY <2>3
    <3>2. v = [account |-> None, verified |-> FALSE, out |-> FALSE]
      BY <3>1, Zenon
    <3> QED
      BY <2>1, <3>2
  <2> QED
    BY <2>2, <2>3
<1>4. /\ Arrive(r, c) /\ pc[r] = "new" /\ call' = [call EXCEPT ![r] = c]
      /\ pc' = [pc EXCEPT ![r] = "check"] /\ seen' = [seen EXCEPT ![r] = v]
      /\ UNCHANGED <<accounts, verified, password, mails, expired, tokenOf, blacklist>>
  BY <1>1 DEF Arrive, Goto, database
<1> HIDE DEF c, v
<1>5. /\ r \notin accounts \cup Tokens
      /\ \A a \in accounts : call'[a] = call[a]
      /\ \A q \in Req : q # r => call'[q] = call[q]
      /\ call'[r] = c
  BY <1>4, ArrivingIsNew
<1>6. TypeOK' /\ ArrivedInv'
  BY <1>2, <1>3, <1>4, <1>5 DEF AccountsInv, TypeOK, ArrivedInv, Tokens, Ended
<1>7. SaveInv' /\ MailInv' /\ PresentInv'
  BY <1>2, <1>3, <1>4, <1>5 DEF AccountsInv, TypeOK, SaveInv, MailInv, PresentInv, Tokens
<1>8. UniqueEmail' /\ VerifiedByItsLink' /\ ResetByItsLink' /\ SessionsAreVerified'
  BY <1>4, <1>5 DEF AccountsInv, TypeOK, UniqueEmail, VerifiedByItsLink,
    ResetByItsLink, SessionsAreVerified, Tokens
<1>9. ServedIsLoggedIn'
  BY <1>2, <1>3, <1>4, <1>5 DEF AccountsInv, TypeOK, ServedIsLoggedIn, PresentInv, SessionsAreVerified,
    Tokens
<1> QED
  BY <1>6, <1>7, <1>8, <1>9 DEF AccountsInv

\* A token that is checked, used to log out or to visit.
LEMMA BearerKeeps ==
  ASSUME AccountsInv, NEW r \in Req, CheckToken(r) \/ Logout(r) \/ Visit(r)
  PROVE  AccountsInv'
<1>1. CASE CheckToken(r)
  <2>1. /\ \/ pc' = [pc EXCEPT ![r] = call[r].op] /\ ~seen[r].out
           \/ pc' = [pc EXCEPT ![r] = "refused"]
        /\ pc[r] = "check" /\ call[r].op \in {"logout", "visit"}
        /\ UNCHANGED <<accounts, verified, password, mails, expired, tokenOf, blacklist, call, seen>>
    BY <1>1 DEF CheckToken, Goto, Valid, database, AccountsInv, PresentInv
  <2> QED
    BY <2>1 DEF AccountsInv, TypeOK, ArrivedInv, SaveInv, MailInv, PresentInv, UniqueEmail,
      VerifiedByItsLink, ResetByItsLink, SessionsAreVerified, ServedIsLoggedIn, Tokens, Ended
<1>2. CASE Logout(r)
  <2>1. /\ pc[r] = "logout" /\ call[r].op = "logout" /\ call[r].token \in Req
        /\ blacklist' = blacklist \cup {call[r].token}
        /\ pc' = [pc EXCEPT ![r] = "ok"]
        /\ UNCHANGED <<accounts, verified, password, mails, expired, tokenOf, call, seen>>
    BY <1>2 DEF Logout, Goto, database, AccountsInv, PresentInv, Tokens
  <2> QED
    BY <2>1 DEF AccountsInv, TypeOK, ArrivedInv, SaveInv, MailInv, PresentInv, UniqueEmail,
      VerifiedByItsLink, ResetByItsLink, SessionsAreVerified, ServedIsLoggedIn, Tokens, Ended
<1>3. CASE Visit(r)
  <2>1. /\ pc[r] = "visit" /\ call[r].op = "visit" /\ ~seen[r].out
        /\ \/ pc' = [pc EXCEPT ![r] = "refused"]
           \/ /\ pc' = [pc EXCEPT ![r] = "ok"]
              /\ call[tokenOf[call[r].token]].role = call[r].role
        /\ UNCHANGED <<accounts, verified, password, mails, expired, tokenOf, blacklist, call, seen>>
    BY <1>3 DEF Visit, Goto, database, WithId, AccountsInv, PresentInv
  <2> QED
    BY <2>1 DEF AccountsInv, TypeOK, ArrivedInv, SaveInv, MailInv, PresentInv, UniqueEmail,
      VerifiedByItsLink, ResetByItsLink, SessionsAreVerified, ServedIsLoggedIn, Tokens, Ended
<1> QED
  BY <1>1, <1>2, <1>3

\* Expiry, the death of the process and stuttering.
LEMMA EnvironmentKeeps ==
  ASSUME AccountsInv, Expire \/ Crash \/ UNCHANGED vars
  PROVE  AccountsInv'
<1>1. CASE Expire
  <2>1. PICK x \in mails \cup Tokens : expired' = expired \cup {x}
    BY <1>1 DEF Expire
  <2>2. x \in Link \cup Req
    BY DEF AccountsInv, TypeOK, Tokens
  <2>3. UNCHANGED <<accounts, verified, password, mails, tokenOf, blacklist, pc, call, seen>>
    BY <1>1 DEF Expire, database
  <2> QED
    BY <2>1, <2>2, <2>3 DEF AccountsInv, TypeOK, ArrivedInv, SaveInv, MailInv, PresentInv, UniqueEmail,
      VerifiedByItsLink, ResetByItsLink, SessionsAreVerified, ServedIsLoggedIn, Tokens
<1>2. CASE Crash
  <2>1. /\ \A r \in Req : pc'[r] \in {pc[r], "failed"} /\ (pc[r] = "new" => pc'[r] = "new")
        /\ \A a \in Req : pc[a] # "new" => pc'[a] # "new"
        /\ pc' \in [Req -> {"new", "mail", "save", "check", "logout", "visit"} \cup Ended]
    BY <1>2 DEF Crash, InFlight, AccountsInv, TypeOK, Ended
  <2>2. UNCHANGED <<accounts, verified, password, mails, expired, tokenOf, blacklist, call, seen>>
    BY <1>2 DEF Crash, database
  <2>3. TypeOK' /\ ArrivedInv' /\ SaveInv' /\ MailInv'
    BY <2>1, <2>2 DEF AccountsInv, TypeOK, ArrivedInv, SaveInv, MailInv, Tokens
  <2>4. PresentInv' /\ ServedIsLoggedIn'
    BY <2>1, <2>2 DEF AccountsInv, PresentInv, ServedIsLoggedIn, Tokens
  <2> QED
    BY <2>2, <2>3, <2>4 DEF AccountsInv, UniqueEmail, VerifiedByItsLink, ResetByItsLink,
      SessionsAreVerified, Tokens
<1>3. CASE UNCHANGED vars
  BY <1>3 DEF vars, database, AccountsInv, TypeOK, ArrivedInv, SaveInv, MailInv, PresentInv, UniqueEmail,
    VerifiedByItsLink, ResetByItsLink, SessionsAreVerified, ServedIsLoggedIn, Tokens
<1> QED
  BY <1>1, <1>2, <1>3

\* AccountsInv is inductive.
THEOREM AccountsInvariant == Spec => []AccountsInv
<1>1. AccountsInv /\ [Next]_vars => AccountsInv'
  <2> SUFFICES ASSUME AccountsInv, [Next]_vars PROVE AccountsInv'
    OBVIOUS
  <2>1. CASE \E r \in Req : Receive(r)
    BY <2>1, RegisterKeeps, VerifyKeeps, ForgotKeeps, ResetKeeps, LoginKeeps, PresentKeeps
       DEF Receive
  <2>2. CASE \E r \in Req : Serve(r) \/ MailFails(r)
    BY <2>2, SendMailKeeps, SaveKeeps, BearerKeeps DEF Serve
  <2>3. CASE Expire \/ Crash \/ UNCHANGED vars
    BY <2>3, EnvironmentKeeps
  <2> QED
    BY <2>1, <2>2, <2>3 DEF Next
<1> QED
  BY <1>1, InitEstablishes, PTL DEF Spec

\* An address registers once per role, so a login finds one account.
THEOREM EmailsAreUnique == Spec => []UniqueEmail
BY AccountsInvariant, PTL DEF AccountsInv

\* A verification or reset link acts on the account it was mailed for only.
THEOREM LinksProveOneAccount == Spec => []LinksProve
<1>1. AccountsInv => LinksProve
  BY DEF AccountsInv, LinksProve
<1> QED
  BY <1>1, AccountsInvariant, PTL

\* A token proves a verified account found by an address of its own, and
\* routes serve accounts of their own role and no token that was logged out,
\* whatever overlaps.
THEOREM TokensProveSession == Spec => []SessionsHold
<1>1. AccountsInv => SessionsHold
  BY DEF AccountsInv, SessionsHold
<1> QED
  BY <1>1, AccountsInvariant, PTL
=============================================================================
