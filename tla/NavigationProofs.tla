-------------------------- MODULE NavigationProofs --------------------------
(***************************************************************************)
(* Proofs about the tabs of one browser, for any number of tabs, accounts   *)
(* and requests, and a storage that may fail: page changes implement         *)
(* PageSwap, no session without both calls of a log in, and requests with   *)
(* the token of the tab's log in unless the tab was parted from the storage. *)
(***************************************************************************)
EXTENDS Navigation, TLAPS

LoginJob == [kind : {"login"}, tab : Tabs, from : Paths, step : {"token", "profile"},
             who : Accounts, bearer : Accounts \cup {None}, live : BOOLEAN]

SubmitJob == [kind : {"submit"}, tab : Tabs, from : Paths, step : {"post", "redirect"},
              shown : Session \cup {None}, apart : BOOLEAN,
              bearer : Accounts \cup {None}, live : BOOLEAN]

JobsOK == job \in [Job -> LoginJob \cup SubmitJob \cup {None}]

\* A tab is busy while something covers its page, and then it has a destination.
LoaderOK ==
  /\ screen \in [Tabs -> {"none", "gun", "cover", "fading", "reveal"}]
  /\ destination \in [Tabs -> Paths \cup {None}]
  /\ busy \in [Tabs -> BOOLEAN]
  /\ \A t \in Tabs : /\ busy[t] <=> screen[t] # "none"
                     /\ screen[t] # "none" => destination[t] \in Paths

PagesOK == path \in [Tabs -> Paths] /\ came \in [Tabs -> Paths \cup {None}]

\* Sessions name accounts that are known, and so does a profile that is asked for.
KnownSession == [who : known, token : known]

SessionsOK ==
  /\ known \subseteq Accounts
  /\ storage \in KnownSession \cup {None}
  /\ user \in [Tabs -> KnownSession \cup {None}]

BearersOK == \A j \in Job :
  job[j] # None /\ job[j].kind = "login" /\ job[j].step = "profile" =>
    job[j].bearer \in known \cup {job[j].who}

(***************************************************************************)
(* What the parts of a handler do.                                          *)
(***************************************************************************)
LEMMA PathsKnown ==
  /\ "/" \in Paths /\ "/login" \in Paths /\ Submit \in Paths
  /\ \A r : DashboardFor(r) \in Paths
  /\ \A u : Links(u) \subseteq Paths
BY DEF Paths, Links, DashboardFor, Submit

LEMMA GuardShows ==
  ASSUME NEW p \in Paths, NEW u
  PROVE  Shown(p, u) \in Paths /\ Shown(p, u) \in {p, "/login"}
BY PathsKnown DEF Shown

\* go begins a change of page in a tab that is idle, or does nothing.
LEMMA GoBegins ==
  ASSUME LoaderOK, NEW t \in Tabs, NEW to \in Paths, NEW from, Go(t, to, from)
  PROVE  /\ LoaderOK'
         /\ \/ UNCHANGED loader
            \/ /\ screen[t] = "none" /\ screen'[t] \in {"gun", "cover"}
               /\ destination'[t] = to
               /\ \A u \in Tabs \ {t} : screen'[u] = screen[u] /\ destination'[u] = destination[u]
<1>1. CASE UNCHANGED loader
  BY <1>1 DEF loader, LoaderOK
<1>2. CASE ~ UNCHANGED loader
  <2>1. PICK s \in {"gun", "cover"} :
          /\ ~busy[t]
          /\ screen' = [screen EXCEPT ![t] = s]
          /\ destination' = [destination EXCEPT ![t] = to]
          /\ busy' = [busy EXCEPT ![t] = TRUE]
    BY <1>2 DEF Go
  <2>2. QED
    BY <2>1 DEF LoaderOK
<1>3. QED
  BY <1>1, <1>2

\* A page that is left takes no job from another tab and changes none's account.
LEMMA UnmountKeeps ==
  ASSUME JobsOK, NEW t
  PROVE  Unmounted(job, t) \in [Job -> LoginJob \cup SubmitJob \cup {None}]
<1> DEFINE Mine == {j \in Job : job[j] # None /\ job[j].tab = t /\ job[j].live}
<1> SUFFICES ASSUME NEW j \in Job
             PROVE  (IF j \notin Mine THEN job[j]
                     ELSE IF job[j].step = "redirect" THEN None
                     ELSE [job[j] EXCEPT !.live = FALSE]) \in LoginJob \cup SubmitJob \cup {None}
  BY DEF Unmounted
<1>1. job[j] \in LoginJob \cup SubmitJob \cup {None}
  BY DEF JobsOK
<1>2. ASSUME job[j] \in LoginJob
      PROVE  [job[j] EXCEPT !.live = FALSE] \in LoginJob
  BY <1>2 DEF LoginJob
<1>3. ASSUME job[j] \in SubmitJob
      PROVE  [job[j] EXCEPT !.live = FALSE] \in SubmitJob
  BY <1>3 DEF SubmitJob
<1>4. QED
  BY <1>1, <1>2, <1>3

LEMMA VisitShows ==
  ASSUME JobsOK, PagesOK, NEW t \in Tabs, NEW p \in Paths, Visit(t, p, job)
  PROVE  /\ path' = [path EXCEPT ![t] = Shown(p, user'[t])]
         /\ path' \in [Tabs -> Paths] /\ path'[t] \in {p, "/login"}
         /\ JobsOK'
<1>1. path' = [path EXCEPT ![t] = Shown(p, user'[t])]
  BY DEF Visit
<1>2. job' = job \/ job' = Unmounted(job, t)
  BY DEF Visit
<1>3. path' \in [Tabs -> Paths] /\ path'[t] \in {p, "/login"}
  BY <1>1, GuardShows DEF PagesOK
<1>4. JobsOK'
  BY <1>2, UnmountKeeps DEF JobsOK
<1>5. QED
  BY <1>1, <1>3, <1>4

(***************************************************************************)
(* Every step keeps the invariants.                                         *)
(***************************************************************************)
LEMMA StepLoader == LoaderOK /\ JobsOK /\ [Next]_vars => LoaderOK'
<1> SUFFICES ASSUME LoaderOK, JobsOK, [Next]_vars PROVE LoaderOK'
  OBVIOUS
<1>1. ASSUME NEW t \in Tabs, Click(t) PROVE LoaderOK'
  BY <1>1, GoBegins, PathsKnown DEF Click
<1>2. ASSUME NEW t \in Tabs, Open(t) PROVE LoaderOK'
  BY <1>2 DEF Open, LoaderOK
<1>3. ASSUME NEW t \in Tabs, Arrive(t) PROVE LoaderOK'
  BY <1>3 DEF Arrive, LoaderOK
<1>4. ASSUME NEW t \in Tabs, Finish(t) PROVE LoaderOK'
  BY <1>4 DEF Finish, LoaderOK
<1>5. ASSUME NEW t \in Tabs, LogOut(t) PROVE LoaderOK'
  BY <1>5, GoBegins, PathsKnown DEF LogOut
<1>6. ASSUME NEW j \in Job, ProfileGiven(j) \/ Redirect(j) PROVE LoaderOK'
  <2>1. job[j].tab \in Tabs
    BY <1>6 DEF ProfileGiven, Redirect, JobsOK, LoginJob, SubmitJob
  <2>2. QED
    BY <1>6, <2>1, GoBegins, PathsKnown DEF ProfileGiven, Redirect
<1>7. CASE UNCHANGED loader
  BY <1>7 DEF loader, LoaderOK
<1>8. QED
  BY <1>1, <1>2, <1>3, <1>4, <1>5, <1>6, <1>7
     DEF Next, vars, Back, Switch, SignIn, Post, TokenGiven, Fail, Created

LEMMA StepPages == PagesOK /\ LoaderOK /\ JobsOK /\ [Next]_vars => PagesOK'
<1> SUFFICES ASSUME PagesOK, LoaderOK, JobsOK, [Next]_vars PROVE PagesOK'
  OBVIOUS
<1>1. ASSUME NEW t \in Tabs, Back(t) PROVE PagesOK'
  <2>1. came[t] \in Paths
    BY <1>1 DEF Back, PagesOK
  <2>2. path' \in [Tabs -> Paths]
    BY <1>1, <2>1, VisitShows DEF Back
  <2>3. QED
    BY <1>1, <2>2 DEF Back, PagesOK
<1>2. ASSUME NEW t \in Tabs, Open(t) PROVE PagesOK'
  <2>1. PICK p \in Paths : path' = [path EXCEPT ![t] = Shown(p, storage)]
    BY <1>2, PathsKnown DEF Open
  <2>2. QED
    BY <1>2, <2>1, GuardShows DEF Open, PagesOK
<1>3. ASSUME NEW t \in Tabs, Arrive(t) PROVE PagesOK'
  <2>1. destination[t] \in Paths
    BY <1>3 DEF Arrive, LoaderOK
  <2>2. path' \in [Tabs -> Paths]
    BY <1>3, <2>1, VisitShows DEF Arrive
  <2>3. came' \in [Tabs -> Paths \cup {None}]
    BY <1>3 DEF Arrive, Push, PagesOK
  <2>4. QED
    BY <2>2, <2>3 DEF PagesOK
<1>4. ASSUME NEW t \in Tabs, LogOut(t) PROVE PagesOK'
  <2>1. path' \in [Tabs -> Paths]
    BY <1>4, VisitShows DEF LogOut, PagesOK
  <2>2. QED
    BY <1>4, <2>1 DEF LogOut, PagesOK
<1>5. CASE UNCHANGED <<path, came>>
  BY <1>5 DEF PagesOK
<1>6. QED
  BY <1>1, <1>2, <1>3, <1>4, <1>5
     DEF Next, vars, Click, Switch, Finish, SignIn, Post, TokenGiven, Fail, ProfileGiven, Created, Redirect

LEMMA SessionTypes ==
  ASSUME SessionsOK
  PROVE  /\ \A t \in Tabs : user[t] \in Session \cup {None}
         /\ TokenOf(storage) \in Accounts \cup {None}
BY DEF SessionsOK, KnownSession, Session, TokenOf

LEMMA StepJobs == JobsOK /\ PagesOK /\ LoaderOK /\ SessionsOK /\ [Next]_vars => JobsOK'
<1> SUFFICES ASSUME JobsOK, PagesOK, LoaderOK, SessionsOK, [Next]_vars
             PROVE  JobsOK'
  OBVIOUS
<1>1. ASSUME NEW t \in Tabs, Back(t) \/ Arrive(t) \/ LogOut(t) PROVE JobsOK'
  <2>1. PICK p \in Paths : Visit(t, p, job)
    BY <1>1 DEF Back, Arrive, LogOut, PagesOK, LoaderOK
  <2>2. QED
    BY <2>1, VisitShows
<1>2. ASSUME NEW t \in Tabs, Open(t) PROVE JobsOK'
  BY <1>2 DEF Open, JobsOK
<1>3. ASSUME NEW t \in Tabs, NEW j \in Job, SignIn(t, j) PROVE JobsOK'
  <2>1. PICK a \in Accounts : job' = [job EXCEPT ![j] = [kind |-> "login", tab |-> t, from |-> path[t],
       step |-> "token", who |-> a, bearer |-> None, live |-> TRUE]]
    BY <1>3 DEF SignIn
  <2> DEFINE new == [kind |-> "login", tab |-> t, from |-> path[t],
                     step |-> "token", who |-> a, bearer |-> None, live |-> TRUE]
  <2>2. new \in LoginJob
    BY DEF LoginJob, PagesOK
  <2> HIDE DEF new
  <2>3. QED
    BY <2>1, <2>2 DEF JobsOK, new
<1>4. ASSUME NEW t \in Tabs, NEW j \in Job, Post(t, j) PROVE JobsOK'
  <2> DEFINE new == [kind |-> "submit", tab |-> t, from |-> Submit,
       step |-> "post", shown |-> user[t], apart |-> t \in parted,
       bearer |-> TokenOf(storage), live |-> TRUE]
  <2>1. user[t] \in Session \cup {None} /\ TokenOf(storage) \in Accounts \cup {None}
    BY SessionTypes
  <2>2. (t \in parted) \in BOOLEAN
    OBVIOUS
  <2>3. new \in SubmitJob
    BY <2>1, <2>2, PathsKnown DEF SubmitJob
  <2>4. job' = [job EXCEPT ![j] = new]
    BY <1>4 DEF Post
  <2> HIDE DEF new
  <2>5. QED
    BY <2>3, <2>4 DEF JobsOK
<1>5. ASSUME NEW j \in Job, TokenGiven(j) PROVE JobsOK'
  <2> DEFINE b == IF storage = None THEN job[j].who ELSE storage.token
  <2>1. job[j] \in LoginJob
    BY <1>5 DEF TokenGiven, AskProfile, JobsOK, SubmitJob
  <2>2. b \in Accounts
    BY <2>1, SessionTypes DEF LoginJob, TokenOf, SessionsOK, KnownSession
  <2>3. job' = [job EXCEPT ![j] = [job[j] EXCEPT !.step = "profile", !.bearer = b]]
    BY <1>5 DEF TokenGiven, AskProfile, JobsOK
  <2> HIDE DEF b
  <2>4. [job[j] EXCEPT !.step = "profile", !.bearer = b] \in LoginJob
    BY <2>1, <2>2 DEF LoginJob
  <2>5. QED
    BY <2>3, <2>4 DEF JobsOK
<1>6. ASSUME NEW j \in Job, Created(j) PROVE JobsOK'
  <2>1. job[j] \in SubmitJob
    BY <1>6 DEF Created, JobsOK, LoginJob
  <2>2. [job[j] EXCEPT !.step = "redirect"] \in SubmitJob
    BY <2>1 DEF SubmitJob
  <2>3. job' = [job EXCEPT ![j] = [job[j] EXCEPT !.step = "redirect"]]
    BY <1>6 DEF Created, Step, JobsOK
  <2>4. QED
    BY <2>2, <2>3 DEF JobsOK
<1>7. ASSUME NEW j \in Job, Fail(j) \/ ProfileGiven(j) \/ Redirect(j) PROVE JobsOK'
  BY <1>7 DEF Fail, ProfileGiven, Redirect, Over, JobsOK
<1>8. CASE UNCHANGED job
  BY <1>8 DEF JobsOK
<1>9. QED
  BY <1>1, <1>2, <1>3, <1>4, <1>5, <1>6, <1>7, <1>8 DEF Next, vars, Click, Switch, Finish

\* What becomes of a job: it is new, or asks for a profile, or stays what it is
\* but for its step and whether its page is there.
Same(i) ==
  /\ job[i] # None /\ job'[i].kind = job[i].kind /\ job'[i].bearer = job[i].bearer
  /\ job[i].kind = "login" => job'[i].who = job[i].who /\ job'[i].step = job[i].step
  /\ job[i].kind = "submit" => job'[i].shown = job[i].shown /\ job'[i].apart = job[i].apart

LEMMA JobMoves ==
  ASSUME JobsOK, [Next]_vars, NEW i \in Job, job'[i] # None
  PROVE  \/ Same(i) \/ TokenGiven(i)
         \/ \E t \in Tabs : SignIn(t, i) \/ Post(t, i)
<1>0. job[i] \in LoginJob \cup SubmitJob \cup {None}
  BY DEF JobsOK
<1>1. ASSUME job'[i] = job[i] PROVE Same(i)
  BY <1>1 DEF Same
<1>2. ASSUME NEW t \in Tabs, NEW p, Visit(t, p, job) PROVE Same(i)
  <2>1. CASE job' = Unmounted(job, t)
    <3>1. job'[i] = job[i] \/ job'[i] = [job[i] EXCEPT !.live = FALSE]
      BY <2>1 DEF Unmounted
    <3>2. job[i] # None
      BY <2>1 DEF Unmounted
    <3>3. QED
      BY <1>0, <1>1, <3>1, <3>2 DEF Same, LoginJob, SubmitJob
  <2>2. QED
    BY <1>1, <1>2, <2>1 DEF Visit, Same
<1>3. ASSUME NEW t \in Tabs, Open(t) PROVE Same(i)
  BY <1>1, <1>3 DEF Open, Same
<1>4. ASSUME NEW j \in Job, Fail(j) \/ ProfileGiven(j) \/ Redirect(j) PROVE Same(i)
  BY <1>1, <1>4 DEF Fail, ProfileGiven, Redirect, Over, JobsOK, Same
<1>5. ASSUME NEW j \in Job, Created(j) PROVE Same(i)
  <2>1. CASE i = j
    <3>1. job[i] \in SubmitJob /\ job'[i] = [job[i] EXCEPT !.step = "redirect"] /\ job[i] # None
      BY <1>5, <2>1 DEF Created, Step, JobsOK, LoginJob
    <3>2. QED
      BY <3>1 DEF Same, SubmitJob
  <2>2. CASE i # j
    <3>1. job' = [job EXCEPT ![j].step = "redirect"]
      BY <1>5 DEF Created, Step
    <3>2. job'[i] = job[i]
      BY <2>2, <3>1 DEF JobsOK
    <3>3. QED
      BY <1>1, <3>2
  <2>3. QED
    BY <2>1, <2>2
<1>6. ASSUME NEW j \in Job, TokenGiven(j) PROVE Same(i) \/ TokenGiven(i)
  BY <1>1, <1>6 DEF TokenGiven, AskProfile, JobsOK, Same
<1>7. ASSUME NEW t \in Tabs, NEW j \in Job, SignIn(t, j) \/ Post(t, j)
      PROVE  Same(i) \/ SignIn(t, i) \/ Post(t, i)
  BY <1>1, <1>7 DEF SignIn, Post, JobsOK, Same
<1>8. CASE UNCHANGED job
  BY <1>1, <1>8 DEF Same
<1>9. QED
  BY <1>2, <1>3, <1>4, <1>5, <1>6, <1>7, <1>8
     DEF Next, vars, Click, Switch, Finish, Back, Arrive, LogOut

LEMMA KnownGrows == JobsOK /\ [Next]_vars => known \subseteq known'
BY DEF Next, vars, session, Click, Back, Open, Switch, Arrive, Finish, LogOut, SignIn, Post,
       TokenGiven, Fail, ProfileGiven, Created, Redirect

LEMMA StepBearers == BearersOK /\ SessionsOK /\ JobsOK /\ [Next]_vars => BearersOK'
<1> SUFFICES ASSUME BearersOK, SessionsOK, JobsOK, [Next]_vars, NEW i \in Job,
                    job'[i] # None, job'[i].kind = "login", job'[i].step = "profile"
             PROVE  job'[i].bearer \in known' \cup {job'[i].who}
  BY DEF BearersOK
<1>1. CASE Same(i)
  BY <1>1, KnownGrows DEF Same, BearersOK
<1>2. CASE TokenGiven(i)
  <2> DEFINE b == IF storage = None THEN job[i].who ELSE storage.token
  <2>1. job[i] \in LoginJob
    BY <1>2 DEF TokenGiven, AskProfile, JobsOK, SubmitJob
  <2>2. b \in known \cup {job[i].who}
    BY DEF SessionsOK, KnownSession
  <2>3. job'[i] = [job[i] EXCEPT !.step = "profile", !.bearer = b]
    BY <1>2 DEF TokenGiven, AskProfile, JobsOK
  <2> HIDE DEF b
  <2>4. job'[i].bearer = b /\ job'[i].who = job[i].who
    BY <2>1, <2>3 DEF LoginJob
  <2>5. QED
    BY <2>2, <2>4, KnownGrows
<1>3. ASSUME NEW t \in Tabs, SignIn(t, i) \/ Post(t, i) PROVE FALSE
  BY <1>3 DEF SignIn, Post, JobsOK
<1>4. QED
  BY <1>1, <1>2, <1>3, JobMoves

LEMMA StepSessions == SessionsOK /\ BearersOK /\ JobsOK /\ [Next]_vars => SessionsOK'
<1> SUFFICES ASSUME SessionsOK, BearersOK, JobsOK, [Next]_vars PROVE SessionsOK'
  OBVIOUS
<1>1. ASSUME NEW t \in Tabs, Open(t) \/ LogOut(t) PROVE SessionsOK'
  BY <1>1 DEF Open, LogOut, SessionsOK, KnownSession
<1>2. ASSUME NEW j \in Job, ProfileGiven(j) PROVE SessionsOK'
  <2> DEFINE s == [who |-> job[j].bearer, token |-> job[j].who]
  <2>1. job[j] \in LoginJob /\ job[j].step = "profile" /\ job[j] # None
    BY <1>2 DEF ProfileGiven, JobsOK, SubmitJob
  <2>2. job[j].who \in Accounts /\ job[j].bearer \in known \cup {job[j].who}
    BY <2>1 DEF BearersOK, LoginJob
  <2>3. /\ known' = known \cup {job[j].who}
        /\ storage' \in {s, storage}
        /\ user' = [user EXCEPT ![job[j].tab] = s]
    BY <1>2 DEF ProfileGiven, Written
  <2>4. s \in KnownSession' /\ KnownSession \subseteq KnownSession'
    BY <2>2, <2>3 DEF KnownSession
  <2> HIDE DEF s
  <2>5. known' \subseteq Accounts
    BY <2>2, <2>3 DEF SessionsOK
  <2>6. storage' \in KnownSession' \cup {None}
    BY <2>3, <2>4 DEF SessionsOK
  <2>7. user' \in [Tabs -> KnownSession' \cup {None}]
    BY <2>3, <2>4 DEF SessionsOK
  <2>8. QED
    BY <2>5, <2>6, <2>7 DEF SessionsOK
<1>3. CASE UNCHANGED <<storage, user, known>>
  BY <1>3 DEF SessionsOK, KnownSession
<1>4. QED
  BY <1>1, <1>2, <1>3
     DEF Next, vars, session, Click, Back, Switch, Arrive, Finish, SignIn, Post, TokenGiven, Fail,
         Created, Redirect

NavigationInv == LoaderOK /\ PagesOK /\ JobsOK /\ SessionsOK /\ BearersOK

LEMMA NavigationInvariant == Spec => []NavigationInv
<1>1. Init => NavigationInv
  BY PathsKnown DEF Init, NavigationInv, LoaderOK, PagesOK, JobsOK, SessionsOK, BearersOK
<1>2. NavigationInv /\ [Next]_vars => NavigationInv'
  BY StepLoader, StepPages, StepJobs, StepSessions, StepBearers DEF NavigationInv
<1>3. QED
  BY <1>1, <1>2, PTL DEF Spec

\* No tab is ever signed in, by whatever mixture of log ins, log outs, reloads and
\* failing storage, as an account whose profile never answered a log in
\* (Login.jsx stores the session after both calls).
THEOREM NobodyHalfSignedIn == Spec => []NoHalfSession
<1>1. NavigationInv => NoHalfSession
  BY DEF NavigationInv, SessionsOK, KnownSession, NoHalfSession, Names
<1>2. QED
  BY <1>1, NavigationInvariant, PTL

(***************************************************************************)
(* Changes of page implement PageSwap in every tab.                         *)
(***************************************************************************)
LEMMA BeginsOrRests ==
  ASSUME LoaderOK, NEW t \in Tabs, NEW to \in Paths, NEW from, Go(t, to, from), NEW u \in Tabs,
         path'[u] \in {path[u], "/login"}, UNCHANGED path \/ u = t, path'[u] \in Paths
  PROVE  Change(u)!Next \/ UNCHANGED Change(u)!vars
<1>1. CASE UNCHANGED loader
  <2>1. Change(u)!Elsewhere
    BY <1>1 DEF loader, Stage, Change!Elsewhere
  <2>2. QED
    BY <2>1 DEF Change!Next
<1>2. CASE u = t /\ screen[t] = "none" /\ screen'[t] \in {"gun", "cover"} /\ destination'[t] = to
  <2>1. Change(u)!Begin
    BY <1>2 DEF Stage, Change!Begin
  <2>2. QED
    BY <2>1 DEF Change!Next
<1>3. CASE u # t /\ screen'[u] = screen[u] /\ destination'[u] = destination[u]
  BY <1>3 DEF Stage, Change!vars
<1>4. QED
  BY <1>1, <1>2, <1>3, GoBegins

LEMMA StepSwaps ==
  ASSUME NavigationInv, [Next]_vars, NEW u \in Tabs
  PROVE  Change(u)!Next \/ UNCHANGED Change(u)!vars
<1> USE DEF NavigationInv
<1>1. ASSUME NEW t \in Tabs, Click(t) PROVE Change(u)!Next \/ UNCHANGED Change(u)!vars
  <2>1. PICK to \in Links(user[t]) : Go(t, to, path[t])
    BY <1>1 DEF Click
  <2>2. to \in Paths /\ path' = path /\ path[u] \in Paths
    BY <1>1, <2>1, PathsKnown DEF Click, PagesOK
  <2>3. QED
    BY <2>1, <2>2, BeginsOrRests
<1>2. ASSUME NEW t \in Tabs, Back(t) PROVE Change(u)!Next \/ UNCHANGED Change(u)!vars
  <2>1. came[t] \in Paths /\ Visit(t, came[t], job)
    BY <1>2 DEF Back, PagesOK
  <2>2. path'[u] \in Paths
    BY <2>1, VisitShows
  <2>3. Change(u)!Elsewhere
    BY <1>2, <2>2 DEF Back, loader, Stage, Change!Elsewhere
  <2>4. QED
    BY <2>3 DEF Change!Next
<1>3. ASSUME NEW t \in Tabs, Open(t) PROVE Change(u)!Next \/ UNCHANGED Change(u)!vars
  <2>1. CASE u = t
    <3>1. path'[t] \in Paths
      <4>1. PICK p \in Paths : path' = [path EXCEPT ![t] = Shown(p, storage)]
        BY <1>3, PathsKnown DEF Open
      <4>2. QED
        BY <1>3, <4>1, GuardShows DEF Open, PagesOK
    <3>2. Change(u)!Reload
      BY <1>3, <2>1, <3>1 DEF Open, Stage, Change!Reload, LoaderOK
    <3>3. QED
      BY <3>2 DEF Change!Next
  <2>2. CASE u # t
    BY <1>3, <2>2 DEF Open, Stage, Change!vars, LoaderOK, PagesOK
  <2>3. QED
    BY <2>1, <2>2
<1>4. ASSUME NEW t \in Tabs, Arrive(t) PROVE Change(u)!Next \/ UNCHANGED Change(u)!vars
  <2>1. destination[t] \in Paths /\ Visit(t, destination[t], job) /\ UNCHANGED destination
    BY <1>4 DEF Arrive, LoaderOK
  <2>2. /\ path' = [path EXCEPT ![t] = Shown(destination[t], user'[t])]
        /\ path'[t] \in {destination[t], "/login"}
    BY <2>1, VisitShows
  <2>3. CASE u = t
    <3>1. screen[t] \in {"gun", "cover"} /\ screen'[t] \in {"fading", "reveal"}
      BY <1>4 DEF Arrive, LoaderOK
    <3>2. Change(u)!Swap
      BY <2>1, <2>2, <2>3, <3>1 DEF Stage, Change!Swap
    <3>3. QED
      BY <3>2 DEF Change!Next
  <2>4. CASE u # t
    BY <1>4, <2>1, <2>2, <2>4 DEF Arrive, Stage, Change!vars, LoaderOK, PagesOK
  <2>5. QED
    BY <2>3, <2>4
<1>5. ASSUME NEW t \in Tabs, Finish(t) PROVE Change(u)!Next \/ UNCHANGED Change(u)!vars
  <2>1. CASE u = t
    <3>1. Change(u)!End
      BY <1>5, <2>1 DEF Finish, Stage, Change!End, LoaderOK
    <3>2. QED
      BY <3>1 DEF Change!Next
  <2>2. CASE u # t
    BY <1>5, <2>2 DEF Finish, Stage, Change!vars, LoaderOK
  <2>3. QED
    BY <2>1, <2>2
<1>6. ASSUME NEW t \in Tabs, LogOut(t) PROVE Change(u)!Next \/ UNCHANGED Change(u)!vars
  <2>1. /\ path' = [path EXCEPT ![t] = Shown(path[t], user'[t])]
        /\ path' \in [Tabs -> Paths] /\ path'[t] \in {path[t], "/login"}
    BY <1>6, VisitShows DEF LogOut, PagesOK
  <2>2. Go(t, "/login", path[t]) /\ "/login" \in Paths
    BY <1>6, PathsKnown DEF LogOut
  <2>3. CASE u = t
    BY <2>1, <2>2, <2>3, BeginsOrRests
  <2>4. CASE u # t
    <3>1. path'[u] = path[u]
      BY <2>1, <2>4 DEF PagesOK
    <3>2. screen'[u] = screen[u] /\ destination'[u] = destination[u]
      BY <2>2, <2>4, GoBegins DEF loader
    <3>3. QED
      BY <3>1, <3>2 DEF Stage, Change!vars
  <2>5. QED
    BY <2>3, <2>4
<1>7. ASSUME NEW j \in Job, ProfileGiven(j) \/ Redirect(j)
      PROVE  Change(u)!Next \/ UNCHANGED Change(u)!vars
  <2>1. job[j].tab \in Tabs /\ path' = path /\ path[u] \in Paths
    BY <1>7 DEF ProfileGiven, Redirect, JobsOK, LoginJob, SubmitJob, PagesOK
  <2>2. PICK to \in Paths : Go(job[j].tab, to, job[j].from)
    BY <1>7, PathsKnown DEF ProfileGiven, Redirect
  <2>3. QED
    BY <2>1, <2>2, BeginsOrRests
<1>8. CASE UNCHANGED <<path, loader>>
  BY <1>8 DEF loader, Stage, Change!vars
<1>9. QED
  BY <1>1, <1>2, <1>3, <1>4, <1>5, <1>6, <1>7, <1>8
     DEF Next, vars, Switch, SignIn, Post, TokenGiven, Fail, Created

\* Whatever is clicked, answered, reloaded or left, and in however many tabs: each
\* tab goes to one page at a time, which appears once and under a screen that is
\* given back (LoadingNavProvider.jsx refuses a second change while one runs).
THEOREM TabsSwapPages == Spec => PagesSwap
<1>1. Init => \A t \in Tabs : Change(t)!Init
  BY PathsKnown DEF Init, Change!Init, Stage
<1>2. NavigationInv /\ [Next]_vars =>
        [\A t \in Tabs : Change(t)!Next \/ UNCHANGED Change(t)!vars]_vars
  BY StepSwaps
<1>3. QED
  BY <1>1, <1>2, NavigationInvariant, PTL DEF Spec, PagesSwap

(***************************************************************************)
(* Several tabs, and a storage that may fail.                               *)
(***************************************************************************)
\* What a tab that was not parted from the storage shows is what is stored, and a
\* submission keeps what it left with.
TogetherInv ==
  /\ \A t \in Tabs : t \notin parted => user[t] = storage
  /\ SentAsLoggedIn

LEMMA StepTogether == NavigationInv /\ TogetherInv /\ [Next]_vars => TogetherInv'
<1> SUFFICES ASSUME NavigationInv, TogetherInv, [Next]_vars PROVE TogetherInv'
  OBVIOUS
<1> USE DEF NavigationInv
<1>1. ASSUME NEW u \in Tabs, u \notin parted' PROVE user'[u] = storage'
  <2>1. ASSUME NEW t \in Tabs, Open(t) \/ LogOut(t) PROVE user'[u] = storage'
    BY <1>1, <2>1 DEF Open, LogOut, TogetherInv, SessionsOK
  <2>2. ASSUME NEW j \in Job, ProfileGiven(j) PROVE user'[u] = storage'
    <3> DEFINE s == [who |-> job[j].bearer, token |-> job[j].who]
    <3>1. user' = [user EXCEPT ![job[j].tab] = s] /\ Written(job[j].tab, s)
      BY <2>2 DEF ProfileGiven
    <3> HIDE DEF s
    <3>2. QED
      BY <1>1, <3>1 DEF Written, TogetherInv, SessionsOK
  <2>3. CASE UNCHANGED session
    BY <1>1, <2>3 DEF TogetherInv, session
  <2>4. QED
    BY <2>1, <2>2, <2>3
       DEF Next, vars, Click, Back, Switch, Arrive, Finish, SignIn, Post, TokenGiven, Fail, Created, Redirect
<1>2. ASSUME NEW i \in Job, job'[i] # None, job'[i].kind = "submit", ~job'[i].apart
      PROVE  job'[i].bearer = TokenOf(job'[i].shown)
  <2>1. CASE Same(i)
    BY <1>2, <2>1 DEF Same, TogetherInv, SentAsLoggedIn, Submissions
  <2>2. CASE TokenGiven(i)
    <3>1. job[i] \in LoginJob /\ job[i] # None
      BY <2>2 DEF TokenGiven, AskProfile, JobsOK, SubmitJob
    <3>2. job'[i].kind = job[i].kind
      BY <2>2, <3>1 DEF TokenGiven, AskProfile, JobsOK, LoginJob
    <3>3. QED
      BY <1>2, <3>1, <3>2 DEF LoginJob
  <2>3. ASSUME NEW t \in Tabs, Post(t, i) PROVE job'[i].bearer = TokenOf(job'[i].shown)
    <3>1. /\ job'[i].bearer = TokenOf(storage)
          /\ job'[i].shown = user[t]
          /\ job'[i].apart = (t \in parted)
      BY <2>3 DEF Post, JobsOK
    <3>2. QED
      BY <1>2, <3>1 DEF TogetherInv
  <2>4. ASSUME NEW t \in Tabs, SignIn(t, i) PROVE FALSE
    BY <1>2, <2>4 DEF SignIn, JobsOK
  <2>5. QED
    BY <1>2, <2>1, <2>2, <2>3, <2>4, JobMoves
<1>3. QED
  BY <1>1, <1>2 DEF TogetherInv, SentAsLoggedIn, Submissions

\* However log ins, log outs, reloads, failing writes and submissions interleave, in
\* however many tabs: a request carries the token of its tab's own log in
\* (client.js:22 reads it off the storage when the request leaves) unless its tab
\* was parted from the storage before.
THEOREM SendsAsLoggedIn == Spec => []SentAsLoggedIn
<1>1. Init => TogetherInv
  BY DEF Init, TogetherInv, SentAsLoggedIn, Submissions
<1>2. NavigationInv /\ TogetherInv /\ [Next]_vars => TogetherInv'
  BY StepTogether
<1>3. TogetherInv => SentAsLoggedIn
  BY DEF TogetherInv
<1>4. QED
  BY <1>1, <1>2, <1>3, NavigationInvariant, PTL DEF Spec
=============================================================================
