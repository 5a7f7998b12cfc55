----------------------------- MODULE Navigation -----------------------------
(***************************************************************************)
(* The single page application in the tabs of one browser: the session in   *)
(* React state and in localStorage, the pages a session may reach, the       *)
(* loading screen that covers a change of page, and the log in and submit    *)
(* requests that are answered while the user goes elsewhere.                 *)
(***************************************************************************)
EXTENDS FiniteSets

CONSTANTS
  Tabs, Accounts,
  Watched,      \* bound: tabs whose changes of page are followed; in the others
                \* users only log in and out
  RoleOf,       \* the role of an account: "seller" or "partner"
  Job,          \* requests and timers a page may have outstanding
  BackTo,       \* bound: the pages users go back to
  Hides,        \* bound: whether users put a tab out of sight
  StorageFails, \* whether a write to localStorage can fail (private mode, quota)
  None

ASSUME RoleAssumption == RoleOf \in [Accounts -> {"seller", "partner"}]

ASSUME StorageAssumption == StorageFails \in BOOLEAN

ASSUME WatchedAssumption == Watched \subseteq Tabs

ASSUME HidesAssumption == Hides \in BOOLEAN

VARIABLES
  storage,      \* localStorage["fastship.session"]
  user,         \* AuthProvider's state in each tab
  parted,       \* history: tabs whose session is not stored, because its write
                \* failed or another tab logged in or out since
  path, came,   \* the page of a tab, and the entry behind it, of BackTo
  screen,       \* what covers the page: none, gun, fading, cover, reveal
  destination, busy,
  visible,      \* whether the tab is in front: no frame is drawn in a hidden one
  job,          \* submissions of a page that are not over
  known         \* history: accounts whose profile answered a log in

loader == <<screen, destination, busy>>
session == <<storage, user, parted, known>>
vars == <<session, path, came, loader, visible, job>>

\* A session shows the profile of one account (who) and holds a token of one.
Session == [who : Accounts, token : Accounts]

TokenOf(s) == IF s = None THEN None ELSE s.token

DashboardFor(role) == IF role = "seller" THEN "/seller/dashboard" ELSE "/partner/dashboard"

Submit == "/seller/submit-shipment"

Paths == {"/", "/login", Submit} \cup {DashboardFor(r) : r \in {"seller", "partner"}}

ASSUME BackToAssumption == BackTo \subseteq Paths

Protected == Paths \ {"/", "/login"}

\* RequireAuth: a protected page without a session turns into /login.
Shown(p, u) == IF p \in Protected /\ u = None THEN "/login" ELSE p

Links(u) ==
  IF u = None THEN {"/", "/login"}
  ELSE {"/", DashboardFor(RoleOf[u.token])} \cup (IF RoleOf[u.token] = "seller" THEN {Submit} ELSE {})

\* A job has a kind (login or submit), its tab, the path it started from, the
\* step it is at (token, profile; post, redirect), whose token its request
\* carries (bearer), and whether its page is still mounted (live).  A log in
\* knows who logs in; a submission what session its tab shows (shown) and
\* whether that one was parted from the storage when the request left (apart).

Outstanding(t) == {j \in Job : job[j] # None /\ job[j].tab = t}

\* The submit button is disabled while its page waits for an answer.
Idle(t) == \A j \in Outstanding(t) : ~job[j].live

Init ==
  /\ storage = None
  /\ user = [t \in Tabs |-> None]
  /\ parted = {}
  /\ path = [t \in Tabs |-> IF t \in Watched THEN "/" ELSE "/login"]
  /\ came = [t \in Tabs |-> None]
  /\ screen = [t \in Tabs |-> "none"]
  /\ destination = [t \in Tabs |-> None] /\ busy = [t \in Tabs |-> FALSE]
  /\ visible = [t \in Tabs |-> TRUE]
  /\ job = [j \in Job |-> None]
  /\ known = {}

\* Mutant: a request in flight does not stop the next click.
Go_Reentrant(t, to, from) ==
  \E s \in {"gun", "cover"} :
    /\ screen' = [screen EXCEPT ![t] = s]
    /\ destination' = [destination EXCEPT ![t] = to]
    /\ busy' = [busy EXCEPT ![t] = TRUE]

\* go: from is the path the calling handler closed over when it was rendered.
Go(t, to, from) ==
  IF busy[t] \/ to = from \/ t \notin Watched THEN UNCHANGED loader
  ELSE \E s \in {"gun", "cover"} :
    /\ screen' = [screen EXCEPT ![t] = s]
    /\ destination' = [destination EXCEPT ![t] = to]
    /\ busy' = [busy EXCEPT ![t] = TRUE]

\* A page that is left clears its redirect timer; its requests go on.
Unmounted(js, t) == LET Mine == {j \in Job : js[j] # None /\ js[j].tab = t /\ js[j].live} IN
  [j \in Job |-> IF j \notin Mine THEN js[j]
                 ELSE IF js[j].step = "redirect" THEN None
                 ELSE [js[j] EXCEPT !.live = FALSE]]

\* <main key={pathname}>: another path mounts another page.
Visit(t, p, js) ==
  /\ path' = [path EXCEPT ![t] = Shown(p, user'[t])]
  /\ job' = IF path'[t] = path[t] THEN js ELSE Unmounted(js, t)

Push(t) == came' = [came EXCEPT ![t] =
  IF path'[t] = path[t] THEN @ ELSE IF path[t] \in BackTo THEN path[t] ELSE None]

Click(t) ==
  /\ \E to \in Links(user[t]) : Go(t, to, path[t])
  /\ UNCHANGED <<session, path, came, visible, job>>

Back(t) ==
  /\ came[t] # None
  /\ UNCHANGED <<session, loader, visible>>
  /\ Visit(t, came[t], job)
  /\ came' = [came EXCEPT ![t] = None]

\* A URL typed or reloaded starts the application again from localStorage.
Open(t) ==
  /\ user' = [user EXCEPT ![t] = storage]
  /\ parted' = parted \ {t}
  /\ \E p \in IF t \in Watched THEN Paths ELSE {"/login"} :
       path' = [path EXCEPT ![t] = Shown(p, storage)]
  /\ came' = [came EXCEPT ![t] = None]
  /\ screen' = [screen EXCEPT ![t] = "none"]
  /\ destination' = [destination EXCEPT ![t] = None] /\ busy' = [busy EXCEPT ![t] = FALSE]
  /\ job' = [j \in Job |-> IF j \in Outstanding(t) THEN None ELSE job[j]]
  /\ UNCHANGED <<storage, visible, known>>

Switch(t) ==
  /\ Hides /\ t \in Watched
  /\ visible' = [visible EXCEPT ![t] = ~@]
  /\ UNCHANGED <<session, path, came, loader, job>>

-----------------------------------------------------------------------------
(* The loading screen *)

\* Mutant: the turret's fade out forgets that the loader is free again.
Finish_Busy(t) ==
  /\ screen[t] \in {"fading", "reveal"}
  /\ screen' = [screen EXCEPT ![t] = "none"]
  /\ destination' = [destination EXCEPT ![t] = None]
  /\ UNCHANGED <<busy, session, path, came, visible, job>>

\* 100% of the turret, seen in a frame, or the wave's swap timer.
Arrive(t) ==
  /\ \/ screen[t] = "gun" /\ visible[t] /\ screen' = [screen EXCEPT ![t] = "fading"]
     \/ screen[t] = "cover" /\ screen' = [screen EXCEPT ![t] = "reveal"]
  /\ UNCHANGED <<destination, busy, session, visible>>
  /\ Visit(t, destination[t], job)
  /\ Push(t)

Finish(t) ==
  /\ screen[t] \in {"fading", "reveal"}
  /\ screen' = [screen EXCEPT ![t] = "none"]
  /\ destination' = [destination EXCEPT ![t] = None]
  /\ busy' = [busy EXCEPT ![t] = FALSE]
  /\ UNCHANGED <<session, path, came, visible, job>>

-----------------------------------------------------------------------------
(* The session *)

Step(j, s) == job' = [job EXCEPT ![j].step = s]

Over(j) == [job EXCEPT ![j] = None]

SignIn(t, j) == \E a \in Accounts :
  /\ path[t] = "/login" /\ Idle(t) /\ job[j] = None
  /\ job' = [job EXCEPT ![j] = [kind |-> "login", tab |-> t, from |-> path[t],
       step |-> "token", who |-> a, bearer |-> None, live |-> TRUE]]
  /\ UNCHANGED <<session, path, came, loader, visible>>

\* The second call of a log in leaves: the interceptor puts the stored token in
\* the place of the one the call was given.
AskProfile(j) ==
  /\ job[j] # None /\ job[j].step = "token"
  /\ job' = [job EXCEPT ![j].step = "profile",
                        ![j].bearer = IF storage = None THEN job[j].who ELSE storage.token]

\* Mutant: the session is stored as soon as there is a token.
TokenGiven_Stored(j) ==
  /\ AskProfile(j)
  /\ storage' = [who |-> job[j].who, token |-> job[j].who]
  /\ UNCHANGED <<user, parted, known, path, came, loader, visible>>

TokenGiven(j) ==
  /\ AskProfile(j)
  /\ UNCHANGED <<session, path, came, loader, visible>>

Fail(j) ==
  /\ job[j] # None /\ job[j].step \in {"token", "profile", "post"}
  /\ job' = Over(j)
  /\ UNCHANGED <<session, path, came, loader, visible>>

\* Mutant: a stored session is kept when another account logs in.
Written_Kept(t, s) ==
  /\ storage' = IF storage = None THEN s ELSE storage
  /\ parted' = Tabs \ {t}

\* What writeSession leaves in the storage, and which tabs it parts from it.
Written(t, s) ==
  \/ storage' = s /\ parted' = Tabs \ {t}
  \/ StorageFails /\ storage' = storage /\ parted' = parted \cup {t}

\* The routes of a role refuse a token of the other one.
ProfileGiven(j) == LET t == job[j].tab
                       s == [who |-> job[j].bearer, token |-> job[j].who] IN
  /\ job[j] # None /\ job[j].step = "profile"
  /\ RoleOf[s.who] = RoleOf[s.token]
  /\ known' = known \cup {job[j].who}
  /\ Written(t, s)
  /\ user' = [user EXCEPT ![t] = s]
  /\ Go(t, DashboardFor(RoleOf[job[j].who]), job[j].from)
  /\ job' = Over(j)
  /\ UNCHANGED <<path, came, visible>>

LogOut(t) ==
  /\ user[t] # None
  /\ storage' = None /\ parted' = Tabs \ {t}
  /\ user' = [user EXCEPT ![t] = None]
  /\ Visit(t, path[t], job)
  /\ Go(t, "/login", path[t])
  /\ UNCHANGED <<came, visible, known>>

-----------------------------------------------------------------------------
(* The submit page: the interceptor reads the token when a request leaves. *)

Post(t, j) ==
  /\ path[t] = Submit /\ Idle(t) /\ job[j] = None
  /\ job' = [job EXCEPT ![j] = [kind |-> "submit", tab |-> t, from |-> Submit,
       step |-> "post", shown |-> user[t], apart |-> t \in parted,
       bearer |-> TokenOf(storage), live |-> TRUE]]
  /\ UNCHANGED <<session, path, came, loader, visible>>

Created(j) ==
  /\ job[j] # None /\ job[j].step = "post"
  /\ job[j].bearer # None /\ RoleOf[job[j].bearer] = "seller"
  /\ Step(j, "redirect")
  /\ UNCHANGED <<session, path, came, loader, visible>>

Redirect(j) ==
  /\ job[j] # None /\ job[j].step = "redirect"
  /\ Go(job[j].tab, DashboardFor("seller"), job[j].from)
  /\ job' = Over(j)
  /\ UNCHANGED <<session, path, came, visible>>

Next ==
  \/ \E t \in Tabs : Click(t) \/ Back(t) \/ Open(t) \/ Switch(t) \/ Arrive(t) \/ Finish(t) \/ LogOut(t)
  \/ \E t \in Tabs, j \in Job : SignIn(t, j) \/ Post(t, j)
  \/ \E j \in Job : TokenGiven(j) \/ Fail(j) \/ ProfileGiven(j) \/ Created(j) \/ Redirect(j)

Spec == Init /\ [][Next]_vars

\* Timers run, and a tab in front draws frames; nothing is assumed of the user.
FairSpec == Spec /\ \A t \in Tabs : WF_vars(Arrive(t)) /\ WF_vars(Finish(t))

-----------------------------------------------------------------------------
(* Properties *)

Submissions == {j \in Job : job[j] # None /\ job[j].kind = "submit"}

\* React state and localStorage are written by two different calls and read at
\* different times, in tabs that do not hear of each other: a request goes out
\* with the token that its tab logged in with, unless the tab was parted from
\* the storage, by a write that failed or by a log in or log out of another
\* tab, and did not start anew since.
SentAsLoggedIn == \A j \in Submissions : ~job[j].apart => job[j].bearer = TokenOf(job[j].shown)

\* "A failed login can't leave a half-session that RequireAuth would accept":
\* no tab ever shows an account, or acts for one, not even after a reload or in
\* another tab, of which no log in ever got past both calls.
Names(s) == IF s = None THEN {} ELSE {s.who, s.token}

NoHalfSession == \A t \in Tabs : Names(storage) \cup Names(user[t]) \subseteq known

\* A loading screen ends, and the navigation bar works again, unless the tab
\* is put out of sight: whatever is clicked or answered in the meantime.
LoadingEnds == \A t \in Tabs : busy[t] ~> ~busy[t] \/ ~visible[t]

\* What PageSwap promises, of each tab: whatever is clicked, answered or left
\* meanwhile, one page at a time is being gone to, it appears once and under a
\* screen, and a guard may only put the log in page in its place.
Stage(t) == IF screen[t] = "none" THEN "idle"
            ELSE IF screen[t] \in {"gun", "cover"} THEN "covering" ELSE "revealing"

Change(t) == INSTANCE PageSwap WITH Pages <- Paths, Entrances <- {"/login"},
  page <- path[t], destination <- destination[t], stage <- Stage(t),
  hidden <- screen[t] # "none"

\* For every tab Change(t)!Spec.
PagesSwap ==
  /\ \A t \in Tabs : Change(t)!Init
  /\ [][\A t \in Tabs : Change(t)!Next \/ UNCHANGED Change(t)!vars]_vars

\* SubmitShipment.jsx:63, "Don't fire the redirect if the user navigates
\* away first": a pending redirect belongs to a page that is still there.
RedirectOnlyIfStaying ==
  \A j \in Job : job[j] # None /\ job[j].step = "redirect" => job[j].live

\* AuthProvider.jsx:15, "Pass token explicitly": the profile that a session shows
\* is of the account whose token it holds.
ProfileIsOfToken == \A s \in {storage} \cup {user[t] : t \in Tabs} : s # None => s.who = s.token

\* A request goes out in the name of the account that the page shows.
SentAsShown == \A j \in Submissions : job[j].shown # None => job[j].bearer = job[j].shown.who
=============================================================================
