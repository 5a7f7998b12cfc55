-------------------------------- MODULE Forms --------------------------------
(***************************************************************************)
(* The forms of one tab: log in with its forgotten password panel, the three *)
(* sign-ups, the submission of a shipment and the look-up of one.  A page is *)
(* mounted with an empty form and takes it along when it is left; what was   *)
(* sent meanwhile is answered, or not, later.                                *)
(***************************************************************************)
EXTENDS FormChecks

CONSTANTS
  Job,        \* requests outstanding at a time
  Elsewhere,  \* pages without one of these forms
  Typed,      \* what may be typed into the fields of each form
  Autofilled, \* what the browser fills in when a page appears, by field
  MaxUnheard, \* bound: answers lost during one visit of a page
  Welcome     \* bound: the role of the one account that can be registered

ASSUME PagesAssumption ==
  Forms \cap Elsewhere = {} /\ {Dashboard[r] : r \in Roles} \cup {"signup", "tracking"} \subseteq Elsewhere
ASSUME BoundsAssumption == MaxUnheard \in Nat /\ Welcome \in Roles

VARIABLES
  page, heading,          \* the page shown, and the one a loading screen leads to
  values, wrong,          \* the fields of its form, those with a message
  formError, busy, told,  \* told: the account or the shipment was created
  role, panel,            \* of the log in form: the card picked, forgotten password
  timer,                  \* redirects: "mine" of this page, "late" of one that is gone
  job,
  session,                \* whose role the browser is logged in with
  accounts,               \* of the server: registered <<role, address>>
  heard                   \* history: what the server did for this visit's requests,
                          \* and how often the page did not get to know

form == <<values, wrong, formError, busy, told, role, panel>>
vars == <<page, heading, form, timer, job, session, accounts, heard>>

Closed == [open |-> FALSE, email |-> Blank, error |-> FALSE, sent |-> FALSE, busy |-> FALSE]

Empty(p) == [f \in IF p \in Forms THEN Fields[p] ELSE {} |->
               IF f \in DOMAIN Autofilled THEN Autofilled[f] ELSE Blank]

Nothing == [made |-> 0, mailed |-> 0, unheard |-> 0]

Fresh(p) ==
  /\ values' = Empty(p) /\ wrong' = {}
  /\ formError' = FALSE /\ busy' = FALSE /\ told' = FALSE
  /\ role' = None /\ panel' = Closed

Init ==
  /\ page = "signup" /\ heading = None
  /\ values = Empty(page) /\ wrong = {}
  /\ formError = FALSE /\ busy = FALSE /\ told = FALSE
  /\ role = None /\ panel = Closed
  /\ timer = {} /\ job = [j \in Job |-> None]
  /\ session = None /\ accounts = {} /\ heard = Nothing

-----------------------------------------------------------------------------
(* What is on the page: the controls that are rendered and not disabled. *)

LoginControls ==
  {"card", "field", "forgot", "link"}
  \cup {c \in {"submit"} : ~busy}
  \cup {c \in {"reset field"} : panel.open}
  \cup {c \in {"send"} : panel.open /\ ~panel.busy}

\* Once registered, the fields and their button give way to a notice.
SignupControls ==
  {"link"} \cup {c \in {"field"} : ~told} \cup {c \in {"submit"} : ~told /\ ~busy}

\* Mutant: the button is there again as soon as there is an answer.
SubmitControls_Again == {"field"} \cup {c \in {"submit"} : ~busy}

SubmitControls == {"field"} \cup {c \in {"submit"} : ~busy /\ ~told}

TrackControls == {"field", "submit"}

Controls ==
  CASE page = "login" -> LoginControls
    [] page \in Roles -> SignupControls
    [] page = "submit" -> SubmitControls
    [] page = "track" -> TrackControls
    [] OTHER -> {}

-----------------------------------------------------------------------------
(* Moving *)

\* RequireAuth: these pages turn into /login for a guest.
Shown(p) == IF p \in Protected /\ session = None THEN "login" ELSE p

\* Mutant: the timer of a page that is left runs on.
Mount_Ticking(p) ==
  IF Shown(p) = page THEN UNCHANGED <<page, form, timer, job, heard>>
  ELSE /\ page' = Shown(p) /\ Fresh(page') /\ UNCHANGED timer
       /\ job' = [j \in Job |-> IF job[j] = None THEN None ELSE [job[j] EXCEPT !.live = FALSE]]
       /\ heard' = Nothing

\* Another path mounts another page; the one that is left clears its timer.
Mount(p) ==
  IF Shown(p) = page THEN UNCHANGED <<page, form, timer, job, heard>>
  ELSE /\ page' = Shown(p) /\ Fresh(page')
       /\ timer' = timer \ {"mine"}
       /\ job' = [j \in Job |-> IF job[j] = None THEN None ELSE [job[j] EXCEPT !.live = FALSE]]
       /\ heard' = Nothing

\* A tab of the navigation bar, a bookmark within the application, "back".
Visit == \E p \in (Forms \cup Elsewhere) \ {"tracking"} :
  /\ Mount(p)
  /\ UNCHANGED <<heading, session, accounts>>

\* go: ignored while a loading screen is up.
Go(p) == heading' = IF heading = None THEN p ELSE heading

\* The end of a loading screen.  The tracking page is the server's: with it
\* the application is gone, and whatever it waited for.
Arrive ==
  /\ heading # None /\ heading' = None
  /\ IF heading = "tracking"
     THEN /\ page' = heading /\ Fresh(page') /\ timer' = {}
          /\ job' = [j \in Job |-> None] /\ heard' = Nothing
     ELSE Mount(heading)
  /\ UNCHANGED <<session, accounts>>

\* [SIGN UP], LOGIN and [ GO TO LOGIN ].
Follow ==
  /\ "link" \in Controls
  /\ Go(IF page # "login" THEN "login" ELSE IF role = None THEN "signup" ELSE role)
  /\ UNCHANGED <<page, form, timer, job, session, accounts, heard>>

-----------------------------------------------------------------------------
(* Filling in *)

\* Mutant: a message stays until the next submission.
Type_Keeps(f) ==
  /\ "field" \in Controls
  /\ \E t \in Typed[page][f] : values' = [values EXCEPT ![f] = t]
  /\ formError' = FALSE
  /\ UNCHANGED <<page, heading, wrong, busy, told, role, panel, timer, job, session, accounts, heard>>

\* Typing takes the message of that field away, and the one of the form.
Type(f) ==
  /\ "field" \in Controls
  /\ \E t \in Typed[page][f] : values' = [values EXCEPT ![f] = t]
  /\ wrong' = wrong \ {f}
  /\ formError' = FALSE
  /\ UNCHANGED <<page, heading, busy, told, role, panel, timer, job, session, accounts, heard>>

\* A card; picked again, it is given up.
Pick(r) ==
  /\ "card" \in Controls
  /\ role' = IF role = r THEN None ELSE r
  /\ formError' = FALSE
  /\ wrong' = wrong \ {"accountType"}
  /\ UNCHANGED <<page, heading, values, busy, told, panel, timer, job, session, accounts, heard>>

-----------------------------------------------------------------------------
(* Sending *)

Send(j, op, r, email, payload) ==
  /\ job[j] = None
  /\ job' = [job EXCEPT ![j] = [op |-> op, role |-> r, email |-> email,
                                payload |-> payload, step |-> "sent", live |-> TRUE]]

Request(j) ==
  CASE page = "login" -> Send(j, "login", role, values.email, <<>>)
    [] page \in Roles -> Send(j, "register", page, values.email, Payload(page, values))
    [] page = "submit" -> Send(j, "post", session, Blank, Payload(page, values))

Submit(j) ==
  /\ page # "track" /\ "submit" \in Controls
  /\ wrong' = Wrong(page, values, role)
  /\ formError' = FALSE
  /\ IF wrong' = {} THEN busy' = TRUE /\ Request(j) ELSE UNCHANGED <<busy, job>>
  /\ UNCHANGED <<page, heading, values, told, role, panel, timer, session, accounts, heard>>

\* An odd looking id (one that is no amount) is remarked upon, and looked up
\* all the same.
TrackOrder ==
  /\ page = "track" /\ "submit" \in Controls
  /\ wrong' = wrong \cup Wrong(page, values, role)
  /\ formError' = (formError \/ (wrong' = {} /\ ~Digits(values.shipmentId)))
  /\ heading' = IF values.shipmentId # Blank THEN "tracking" ELSE heading
  /\ UNCHANGED <<page, values, busy, told, role, panel, timer, job, session, accounts, heard>>

\* FORGOT PASSWORD? opens and closes the panel, which starts with the address above.
OpenReset ==
  /\ "forgot" \in Controls
  /\ panel' = [Closed EXCEPT !.open = ~panel.open, !.email = values.email, !.busy = panel.busy]
  /\ UNCHANGED <<page, heading, values, wrong, formError, busy, told, role, timer, job, session, accounts, heard>>

TypeReset ==
  /\ "reset field" \in Controls
  /\ \E t \in Typed.login.email : panel' = [panel EXCEPT !.email = t, !.error = FALSE]
  /\ UNCHANGED <<page, heading, values, wrong, formError, busy, told, role, timer, job, session, accounts, heard>>

SendReset(j) ==
  /\ "send" \in Controls
  /\ LET refused == panel.email = Blank \/ role = None IN
     /\ panel' = [panel EXCEPT !.sent = FALSE, !.error = refused, !.busy = ~refused]
     /\ IF refused THEN UNCHANGED job ELSE Send(j, "reset", role, panel.email, <<>>)
  /\ UNCHANGED <<page, heading, values, wrong, formError, busy, told, role, timer, session, accounts, heard>>

-----------------------------------------------------------------------------
(* Answers *)

Outstanding(j, steps) == job[j] # None /\ job[j].step \in steps

\* The server takes the request, or does not want it.
Serve(j) == LET q == job[j] who == <<q.role, q.email>> IN
  /\ Outstanding(j, {"sent"})
  /\ LET willing == CASE q.op = "register" -> /\ who \notin accounts /\ Accepted(q.payload)
                                            /\ accounts = {} /\ q.role = Welcome
                      [] q.op = "post" -> q.role = "seller" /\ Accepted(q.payload)
                      [] OTHER -> who \in accounts
     IN \E done \in {FALSE, willing} :
          /\ job' = [job EXCEPT ![j].step = IF done THEN "done" ELSE "refused"]
          /\ accounts' = IF done /\ q.op = "register" THEN accounts \cup {who} ELSE accounts
          /\ heard' = IF ~done \/ ~q.live THEN heard
                      ELSE CASE q.op = "reset" -> [heard EXCEPT !.mailed = 1]
                             [] q.op = "login" -> heard
                             [] OTHER -> [heard EXCEPT !.made = @ + 1]
  /\ UNCHANGED <<page, heading, form, timer, session>>

\* Mutant: only a success gives the button back.
Over_Busy(j, done) == LET q == job[j] IN
  /\ job' = [job EXCEPT ![j] = None]
  /\ IF ~q.live THEN UNCHANGED form
     ELSE IF q.op = "reset"
     THEN /\ panel' = [panel EXCEPT !.busy = FALSE, !.sent = done, !.error = ~done]
          /\ UNCHANGED <<values, wrong, formError, busy, told, role>>
     ELSE /\ busy' = ~done
          /\ told' = (told \/ (done /\ q.op # "login"))
          /\ formError' = (formError \/ ~done)
          /\ UNCHANGED <<values, wrong, role, panel>>

\* What the page shows when the request is over: nothing, if it is gone.
Over(j, done) == LET q == job[j] IN
  /\ job' = [job EXCEPT ![j] = None]
  /\ IF ~q.live THEN UNCHANGED form
     ELSE IF q.op = "reset"
     THEN /\ panel' = [panel EXCEPT !.busy = FALSE, !.sent = done, !.error = ~done]
          /\ UNCHANGED <<values, wrong, formError, busy, told, role>>
     ELSE /\ busy' = FALSE
          /\ told' = (told \/ (done /\ q.op # "login"))
          /\ formError' = (formError \/ ~done)
          /\ UNCHANGED <<values, wrong, role, panel>>

\* Mutant: the page goes where the card picked by now belongs.
Answer_Picked(j) == LET q == job[j] IN
  /\ Outstanding(j, {"done"})
  /\ Over(j, TRUE)
  /\ timer' = IF q.op # "post" THEN timer
              ELSE timer \cup {IF q.live THEN "mine" ELSE "late"}
  /\ IF q.op = "login" THEN session' = q.role /\ Go(IF role = None THEN "login" ELSE Dashboard[role])
     ELSE UNCHANGED <<session, heading>>
  /\ UNCHANGED <<page, accounts, heard>>

Answer(j) == LET q == job[j] IN
  /\ Outstanding(j, {"done"})
  /\ Over(j, TRUE)
  /\ timer' = IF q.op # "post" THEN timer
              ELSE timer \cup {IF q.live THEN "mine" ELSE "late"}
  /\ IF q.op = "login" THEN session' = q.role /\ Go(Dashboard[q.role])
     ELSE UNCHANGED <<session, heading>>
  /\ UNCHANGED <<page, accounts, heard>>

\* Refused, or the connection is lost on the way there or back.
Fail(j) == LET q == job[j] unheard == q.step = "done" /\ q.live IN
  /\ Outstanding(j, {"sent", "done", "refused"})
  /\ unheard => heard.unheard < MaxUnheard
  /\ Over(j, FALSE)
  /\ heard' = IF unheard THEN [heard EXCEPT !.unheard = @ + 1] ELSE heard
  /\ UNCHANGED <<page, heading, timer, session, accounts>>

Redirect == \E t \in timer :
  /\ timer' = timer \ {t}
  /\ Go(Dashboard["seller"])
  /\ UNCHANGED <<page, form, job, session, accounts, heard>>

Filling ==
  \/ \E f \in DOMAIN values : Type(f)
  \/ \E r \in Roles : Pick(r)
  \/ \E j \in Job : Submit(j) \/ SendReset(j)
  \/ TrackOrder \/ OpenReset \/ TypeReset

Next ==
  \/ Visit \/ Arrive \/ Follow \/ Filling \/ Redirect
  \/ \E j \in Job : Serve(j) \/ Answer(j) \/ Fail(j)

Spec == Init /\ [][Next]_vars

\* A request ends somehow, timers fire, loading screens end.
Ends(j) == job[j] # None /\ job' = [job EXCEPT ![j] = None]

Fires == \E t \in timer : timer' = timer \ {t}

Lifts == heading # None /\ heading' = None

Fairness == (\A j \in Job : WF_job(Ends(j))) /\ WF_timer(Fires) /\ WF_heading(Lifts)

FairSpec == Spec /\ Fairness

-----------------------------------------------------------------------------
(* Properties *)

\* What is said next to a field is so, whatever was typed and picked since:
\* only the comparison of the passwords outlives a change, of the other one.
MessagesCurrent == wrong \subseteq Wrong(page, values, role) \cup {"confirm"}

\* What a page says was done, the server did, for a request of this visit.
\* "Don't fire the redirect if the user navigates away first": a redirect set
\* while its page was there belongs to the page that is shown.
ToldIsTrue ==
  /\ told => heard.made > 0
  /\ panel.sent => heard.mailed > 0
  /\ "mine" \in timer => page = "submit" /\ told

\* "Fields are replaced (not just disabled)", "RETURNING TO DASHBOARD": one
\* visit of a form makes one account or shipment, and another one for each
\* time that the answer was lost and the user tried again.
OneUnlessUnheard == heard.made <= 1 + heard.unheard

\* "Catch here, not as a bare 422": every amount that the checks let through is
\* one that the schema takes and that makes sense.  What it may still refuse is
\* an address or a content, which the checks only want to be there.
PayloadFits ==
  \A j \in Job : job[j] # None =>
    /\ Refused(job[j].payload) \subseteq {"email", "client_contact_email", "content"}
    /\ \A c \in DOMAIN job[j].payload \cap {"weight", "max_handling_capacity"} :
         \A n \in job[j].payload[c] : n > 0

\* No 422 at all: what the checks let through, the schema takes.
NoBare422 == \A j \in Job : job[j] # None => Accepted(job[j].payload)

\* Log in leads to the dashboard of the role that was logged in, whatever card
\* is picked and whatever page is shown when the answer comes, unless a
\* loading screen is up already.
LandsAsLoggedIn ==
  [][session' # session =>
       heading' = IF heading = None THEN Dashboard[session'] ELSE heading]_vars

\* A button that waits is given back, and RETURNING TO DASHBOARD comes true.
Settles ==
  /\ busy ~> ~busy
  /\ panel.busy ~> ~panel.busy
  /\ (page = "submit" /\ told) ~> ~(page = "submit" /\ told)
=============================================================================
