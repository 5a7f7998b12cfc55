----------------------------- MODULE DeskProofs -----------------------------
(***************************************************************************)
(* Proofs about the forms and the profile editors of a tab, for any number   *)
(* of requests at a time and whatever is typed.                              *)
(***************************************************************************)
EXTENDS Desk, SequenceTheorems, TLAPS

(***************************************************************************)
(* A tab with forms takes the steps of the forms, one with an editor those  *)
(* of the editor.                                                           *)
(***************************************************************************)
LEMMA TabHasForms == DeskSpec => Init /\ [][Next]_vars
<1>1. DeskInit => Init
  BY DEF DeskInit
<1>2. [AtForms \/ AtEditor]_<<vars, desk>> => [Next]_vars
  BY DEF AtForms, AtEditor
<1>3. QED
  BY <1>1, <1>2, PTL DEF DeskSpec

(***************************************************************************)
(* What the messages are about.                                             *)
(***************************************************************************)

\* The page, its fields and the card picked.
Entered == <<page, values, role>>

\* The fields of a form are there as long as its page.
FieldsOK == DOMAIN values = DOMAIN Empty(page)

MessagesInv == FieldsOK /\ MessagesCurrent

\* Whether a message is due depends on its own field, but for the comparison
\* of the passwords and the card.
LEMMA WrongIsLocal ==
  ASSUME NEW p, NEW v, NEW w, NEW r, NEW s, DOMAIN v = DOMAIN w,
         NEW g \in Wrong(p, v, r), g # "confirm",
         g \in DOMAIN v => w[g] = v[g], g = "accountType" => r = s
  PROVE  g \in Wrong(p, w, s)
<1>1. CASE g \in {f \in {"accountType"} : p = "login" /\ r = None}
  BY <1>1 DEF Wrong
<1>2. CASE g \in DOMAIN v \ Optional /\ v[g] = Blank
  BY <1>2 DEF Wrong
<1>3. CASE g \in DOMAIN v \ Optional /\ g \in Malformed(p, v)
  <2>1. g \in Malformed(p, w)
    BY <1>3 DEF Malformed
  <2>2. QED
    BY <1>3, <2>1 DEF Wrong
<1>4. g \notin Mismatched(p, v)
  BY DEF Mismatched
<1>5. QED
  BY <1>1, <1>2, <1>3, <1>4 DEF Wrong

\* A page that appears has no messages; one that stays keeps them.
LEMMA MountIsFresh ==
  ASSUME NEW p, Mount(p), MessagesInv
  PROVE  MessagesInv'
<1>1. CASE Shown(p) = page
  BY <1>1 DEF Mount, MessagesInv, FieldsOK, MessagesCurrent, form, Empty
<1>2. CASE Shown(p) # page
  BY <1>2 DEF Mount, Fresh, MessagesInv, FieldsOK, MessagesCurrent, Empty
<1>3. QED
  BY <1>1, <1>2

\* An answer is no reason for a message next to a field.
LEMMA AnswersKeepFields ==
  ASSUME NEW j \in Job, Serve(j) \/ Answer(j) \/ Fail(j)
  PROVE  UNCHANGED <<Entered, wrong>>
BY DEF Serve, Answer, Fail, Over, Entered, form

LEMMA MessagesStep == MessagesInv /\ [Next]_vars => MessagesInv'
<1> SUFFICES ASSUME MessagesInv, [Next]_vars PROVE MessagesInv'
  OBVIOUS
<1> USE DEF MessagesInv, FieldsOK, MessagesCurrent
<1>1. CASE UNCHANGED <<Entered, wrong>>
  BY <1>1 DEF Entered, Empty
<1>2. CASE Visit
  BY <1>2, MountIsFresh DEF Visit
<1>3. CASE Arrive
  <2>1. CASE heading = "tracking"
    BY <1>3, <2>1 DEF Arrive, Fresh, Empty
  <2>2. CASE heading # "tracking"
    BY <1>3, <2>2, MountIsFresh DEF Arrive
  <2>3. QED
    BY <2>1, <2>2
<1>4. ASSUME NEW f \in DOMAIN values, Type(f) PROVE MessagesInv'
  <2>1. /\ page' = page /\ role' = role /\ wrong' = wrong \ {f}
        /\ \E t : values' = [values EXCEPT ![f] = t]
    BY <1>4 DEF Type
  <2>2. FieldsOK'
    BY <2>1 DEF Empty
  <2>3. ASSUME NEW g \in wrong', g # "confirm" PROVE g \in Wrong(page, values', role)
    <3>1. g \in Wrong(page, values, role) /\ g # f
      BY <2>1, <2>3
    <3>2. DOMAIN values' = DOMAIN values /\ (g \in DOMAIN values => values'[g] = values[g])
      BY <2>1, <3>1
    <3>3. QED
      BY <2>3, <3>1, <3>2, WrongIsLocal
  <2>4. QED
    BY <2>1, <2>2, <2>3
<1>5. ASSUME NEW r \in Roles, Pick(r) PROVE MessagesInv'
  <2>1. UNCHANGED <<page, values>> /\ wrong' = wrong \ {"accountType"}
    BY <1>5 DEF Pick
  <2>2. ASSUME NEW g \in wrong', g # "confirm" PROVE g \in Wrong(page, values, role')
    BY <2>1, <2>2, WrongIsLocal
  <2>3. QED
    BY <2>1, <2>2 DEF Empty
<1>6. ASSUME NEW j \in Job, Submit(j) PROVE MessagesInv'
  BY <1>6 DEF Submit, Empty
<1>7. CASE TrackOrder
  BY <1>7 DEF TrackOrder, Empty
<1>8. ASSUME NEW j \in Job, SendReset(j) PROVE UNCHANGED <<Entered, wrong>>
  BY <1>8 DEF SendReset, Entered
<1>9. ASSUME Follow \/ OpenReset \/ TypeReset \/ Redirect \/ UNCHANGED vars
      PROVE  UNCHANGED <<Entered, wrong>>
  BY <1>9 DEF Follow, OpenReset, TypeReset, Redirect, vars, form, Entered
<1>10. QED
  BY <1>1, <1>2, <1>3, <1>4, <1>5, <1>6, <1>7, <1>8, <1>9, AnswersKeepFields DEF Next, Filling

\* A message next to a field is so for what the field holds now, whatever was
\* typed, picked, sent and answered since it appeared.
THEOREM MessagesStayCurrent == DeskSpec => []MessagesCurrent
<1>1. Init => MessagesInv
  BY DEF Init, MessagesInv, FieldsOK, MessagesCurrent, Empty
<1>2. MessagesInv => MessagesCurrent
  BY DEF MessagesInv
<1>3. QED
  BY <1>1, <1>2, MessagesStep, TabHasForms, PTL

(***************************************************************************)
(* What a visit of a page is told, and what the server did for it.          *)
(***************************************************************************)
Live(j) == job[j] # None /\ job[j].live

\* A request of this visit that makes an account or a shipment.
Making(j) == Live(j) /\ job[j].op \in {"register", "post"}

VisitTypes ==
  /\ busy \in BOOLEAN /\ told \in BOOLEAN
  /\ DOMAIN panel = DOMAIN Closed /\ panel.sent \in BOOLEAN
  /\ heard \in [made : Nat, mailed : 0..1, unheard : Nat]

JobsOK ==
  /\ DOMAIN job = Job
  /\ \A j \in Job : job[j] # None =>
       /\ DOMAIN job[j] = {"op", "role", "email", "payload", "step", "live"}
       /\ job[j].op \in {"login", "register", "post", "reset"}
       /\ job[j].step \in {"sent", "done", "refused"}
       /\ job[j].live \in BOOLEAN

\* A live request was sent from the page that is shown.
FromHere == \A j \in Job : Live(j) =>
  /\ job[j].op \in {"login", "reset"} => page = "login"
  /\ job[j].op = "register" => page \in Roles
  /\ job[j].op = "post" => page = "submit"

\* What is done of a visit's requests the server remembers.
DoneIsHeard == \A j \in Job : Live(j) /\ job[j].step = "done" =>
  /\ Making(j) => heard.made > 0
  /\ job[j].op = "reset" => heard.mailed > 0

\* There is one button, and it waits: nothing else is made meanwhile, and
\* nothing once it was told.
OneAtATime == \A j \in Job : Making(j) =>
  busy /\ ~told /\ \A k \in Job : Making(k) => k = j

\* All that was made was told, is about to be, or went unheard.
Counted ==
  \/ heard.made <= heard.unheard
  \/ /\ heard.made = heard.unheard + 1
     /\ page # "login" /\ (told \/ busy)
     /\ \A j \in Job : Making(j) => job[j].step = "done"

VisitInv ==
  VisitTypes /\ JobsOK /\ FromHere /\ DoneIsHeard /\ OneAtATime /\ Counted /\ ToldIsTrue

\* What VisitInv looks at.
Visited == <<page, busy, told, panel, timer, job, heard>>

LEMMA VisitKept == VisitInv /\ UNCHANGED Visited => VisitInv'
BY DEF Visited, VisitInv, VisitTypes, JobsOK, FromHere, DoneIsHeard, OneAtATime, Counted,
       ToldIsTrue, Live, Making

\* A page that appears knows nothing of what was asked before.
LEMMA VisitBegins ==
  ASSUME JobsOK', \A j \in Job : ~Live(j)',
         Fresh(page'), "mine" \notin timer', heard' = Nothing
  PROVE  VisitInv'
<1>1. busy' = FALSE /\ told' = FALSE /\ panel' = Closed
  BY DEF Fresh
<1>2. panel'.sent = FALSE
  BY <1>1 DEF Closed
<1>3. heard' \in [made : Nat, mailed : 0..1, unheard : Nat] /\ heard'.made = 0 /\ heard'.unheard = 0
  BY DEF Nothing
<1>4. VisitTypes' /\ ~told' /\ ~panel'.sent
  BY <1>1, <1>2, <1>3 DEF VisitTypes
<1>5. QED
  BY <1>3, <1>4 DEF VisitInv, FromHere, DoneIsHeard, OneAtATime, Counted, ToldIsTrue, Making

LEMMA MountBegins ==
  ASSUME NEW p, Mount(p), VisitInv
  PROVE  VisitInv'
<1>1. CASE Shown(p) = page
  BY <1>1, VisitKept DEF Mount, form, Visited
<1>2. CASE Shown(p) # page
  <2>1. /\ Fresh(page') /\ timer' = timer \ {"mine"} /\ heard' = Nothing
        /\ job' = [j \in Job |-> IF job[j] = None THEN None ELSE [job[j] EXCEPT !.live = FALSE]]
    BY <1>2 DEF Mount
  <2>2. ASSUME NEW j \in Job, job'[j] # None
        PROVE  job[j] # None /\ job'[j] = [job[j] EXCEPT !.live = FALSE]
    BY <2>1, <2>2
  <2>3. JobsOK' /\ \A j \in Job : ~Live(j)'
    BY <2>1, <2>2, ZenonT(60) DEF VisitInv, JobsOK, Live
  <2>4. QED
    BY <2>1, <2>3, VisitBegins
<1>3. QED
  BY <1>1, <1>2

LEMMA ArriveBegins == VisitInv /\ Arrive => VisitInv'
<1> SUFFICES ASSUME VisitInv, Arrive PROVE VisitInv'
  OBVIOUS
<1>1. CASE heading = "tracking"
  <2>1. Fresh(page') /\ timer' = {} /\ heard' = Nothing /\ job' = [j \in Job |-> None]
    BY <1>1 DEF Arrive
  <2>2. JobsOK' /\ \A j \in Job : ~Live(j)'
    BY <2>1 DEF JobsOK, Live
  <2>3. QED
    BY <2>1, <2>2, VisitBegins
<1>2. CASE heading # "tracking"
  BY <1>2, MountBegins DEF Arrive
<1>3. QED
  BY <1>1, <1>2

\* A request that is sent, from the form or from the panel.
LEMMA SendAdds ==
  ASSUME JobsOK, NEW j \in Job, NEW op \in {"login", "register", "post", "reset"},
         NEW r, NEW e, NEW q, Send(j, op, r, e, q)
  PROVE  /\ job[j] = None /\ JobsOK'
         /\ job'[j].op = op /\ job'[j].step = "sent" /\ job'[j].live
         /\ job'[j].payload = q
         /\ \A k \in Job \ {j} : job'[k] = job[k]
<1> DEFINE new == [op |-> op, role |-> r, email |-> e, payload |-> q, step |-> "sent", live |-> TRUE]
<1>1. /\ DOMAIN new = {"op", "role", "email", "payload", "step", "live"}
      /\ new.op = op /\ new.step = "sent" /\ new.live = TRUE /\ new.payload = q
  OBVIOUS
<1>2. job' = [job EXCEPT ![j] = new] /\ job[j] = None
  BY DEF Send
<1> HIDE DEF new
<1>3. job'[j] = new /\ DOMAIN job' = Job /\ \A k \in Job \ {j} : job'[k] = job[k]
  BY <1>2 DEF JobsOK
<1>4. QED
  BY <1>1, <1>2, <1>3 DEF JobsOK

\* The request of a form, named for its page.
LEMMA RequestSends ==
  ASSUME NEW j, page \in Roles \cup {"login", "submit"}, Request(j)
  PROVE  \E op \in {"login", "register", "post"} : \E r, e, q :
           /\ Send(j, op, r, e, q) /\ q \in {<<>>, Payload(page, values)}
           /\ op = "login" => page = "login"
           /\ op = "register" => page \in Roles
           /\ op = "post" => page = "submit"
<1>1. CASE page = "login"
  <2>1. Send(j, "login", role, values.email, <<>>)
    BY <1>1 DEF Request, Roles
  <2>2. QED
    BY <1>1, <2>1
<1>2. CASE page \in Roles
  <2>1. Send(j, "register", page, values.email, Payload(page, values))
    BY <1>2 DEF Request, Roles
  <2>2. QED
    BY <1>2, <2>1
<1>3. CASE page = "submit"
  <2>1. Send(j, "post", session, Blank, Payload(page, values))
    BY <1>3 DEF Request, Roles
  <2>2. QED
    BY <1>3, <2>1
<1>4. QED
  BY <1>1, <1>2, <1>3

LEMMA SubmitCounts == ASSUME VisitInv, NEW j \in Job, Submit(j) PROVE VisitInv'
<1>1. /\ ~told \/ page = "login"
      /\ page \in Roles \cup {"login", "submit"}
      /\ UNCHANGED <<page, told, panel, timer, heard>>
  BY DEF Submit, Controls, LoginControls, SignupControls, SubmitControls, TrackControls
<1>2. ~busy
  BY DEF Submit, Controls, LoginControls, SignupControls, SubmitControls, TrackControls
<1>3. CASE UNCHANGED <<busy, job>>
  BY <1>1, <1>3, VisitKept DEF Visited
<1>4. CASE busy' = TRUE /\ Request(j)
  <2> PICK op \in {"login", "register", "post"} : \E r, e, q :
          /\ Send(j, op, r, e, q)
          /\ op = "login" => page = "login"
          /\ op = "register" => page \in Roles
          /\ op = "post" => page = "submit"
    BY <1>1, <1>4, RequestSends
  <2>1. PICK r, e, q :
          /\ Send(j, op, r, e, q)
          /\ op = "login" => page = "login"
          /\ op = "register" => page \in Roles
          /\ op = "post" => page = "submit"
    OBVIOUS
  <2>2. /\ job[j] = None /\ JobsOK'
        /\ job'[j].op = op /\ job'[j].step = "sent" /\ job'[j].live
        /\ \A k \in Job \ {j} : job'[k] = job[k]
    BY <2>1, SendAdds DEF VisitInv
  <2>3. \A k \in Job : ~Making(k)
    BY <1>2 DEF VisitInv, OneAtATime
  <2>4. \A k \in Job \ {j} : (Live(k)' <=> Live(k)) /\ ~Making(k)'
    BY <2>2, <2>3 DEF Live, Making
  <2>5. Making(j)' => ~told
    BY <1>1, <2>1, <2>2 DEF Making, Roles
  <2>6. VisitTypes' /\ ToldIsTrue'
    BY <1>1, <1>4 DEF VisitInv, VisitTypes, ToldIsTrue
  <2>7. FromHere'
    BY <1>1, <2>1, <2>2, <2>4 DEF VisitInv, FromHere
  <2>8. DoneIsHeard'
    BY <1>1, <2>2, <2>4 DEF VisitInv, DoneIsHeard
  <2>9. OneAtATime'
    BY <1>1, <1>4, <2>4, <2>5 DEF OneAtATime
  <2>10. Counted'
    BY <1>1, <1>2, <2>3 DEF VisitInv, Counted
  <2>11. QED
    BY <2>2, <2>6, <2>7, <2>8, <2>9, <2>10 DEF VisitInv
<1>5. QED
  BY <1>3, <1>4 DEF Submit

\* The panel asks for a mail, or not.
LEMMA ResetCounts == ASSUME VisitInv, NEW j \in Job, SendReset(j) PROVE VisitInv'
<1> DEFINE refused == panel.email = Blank \/ role = None
<1>1. page = "login" /\ UNCHANGED <<page, busy, told, timer, heard>>
  BY DEF SendReset, Controls, SignupControls, SubmitControls, TrackControls
<1>2. /\ panel' = [panel EXCEPT !.sent = FALSE, !.error = refused, !.busy = ~refused]
      /\ IF refused THEN UNCHANGED job ELSE Send(j, "reset", role, panel.email, <<>>)
  BY DEF SendReset
<1> HIDE DEF refused
<1>3. DOMAIN panel' = DOMAIN panel /\ panel'.sent = FALSE
  BY <1>2 DEF VisitInv, VisitTypes, Closed
<1>4. VisitTypes' /\ ToldIsTrue'
  BY <1>1, <1>3 DEF VisitInv, VisitTypes, ToldIsTrue
<1>5. CASE UNCHANGED job
  BY <1>1, <1>4, <1>5
     DEF VisitInv, JobsOK, FromHere, DoneIsHeard, OneAtATime, Counted, Live, Making
<1>6. CASE Send(j, "reset", role, panel.email, <<>>)
  <2>1. /\ job[j] = None /\ JobsOK'
        /\ job'[j].op = "reset" /\ job'[j].step = "sent" /\ job'[j].live
        /\ \A k \in Job \ {j} : job'[k] = job[k]
    BY <1>6, SendAdds DEF VisitInv
  <2>2. \A k \in Job \ {j} : (Live(k)' <=> Live(k)) /\ (Making(k)' <=> Making(k))
    BY <2>1 DEF Live, Making
  <2>3. ~Making(j)' /\ ~Making(j)
    BY <2>1 DEF Making, Live
  <2>4. FromHere'
    BY <1>1, <2>1, <2>2 DEF VisitInv, FromHere
  <2>5. DoneIsHeard'
    BY <1>1, <2>1, <2>2 DEF VisitInv, DoneIsHeard
  <2>6. OneAtATime'
    BY <1>1, <2>2, <2>3 DEF VisitInv, OneAtATime
  <2>7. Counted'
    BY <1>1, <2>1, <2>2, <2>3 DEF VisitInv, Counted
  <2>8. QED
    BY <1>4, <2>1, <2>4, <2>5, <2>6, <2>7 DEF VisitInv
<1>7. QED
  BY <1>2, <1>5, <1>6

\* The server answers one request of a visit, or of one that is over.
LEMMA ServeCounts == ASSUME VisitInv, NEW j \in Job, Serve(j) PROVE VisitInv'
<1>1. job[j] # None /\ job[j].step = "sent" /\ UNCHANGED <<page, busy, told, panel, timer>>
  BY DEF Serve, Outstanding, form
<1>2. PICK done \in BOOLEAN :
        /\ job' = [job EXCEPT ![j].step = IF done THEN "done" ELSE "refused"]
        /\ heard' = IF ~done \/ ~job[j].live THEN heard
                    ELSE CASE job[j].op = "reset" -> [heard EXCEPT !.mailed = 1]
                           [] job[j].op = "login" -> heard
                           [] OTHER -> [heard EXCEPT !.made = @ + 1]
  <2> DEFINE willing ==
        CASE job[j].op = "register" -> /\ <<job[j].role, job[j].email>> \notin accounts
                                       /\ Accepted(job[j].payload)
                                       /\ accounts = {} /\ job[j].role = Welcome
          [] job[j].op = "post" -> job[j].role = "seller" /\ Accepted(job[j].payload)
          [] OTHER -> <<job[j].role, job[j].email>> \in accounts
  <2>1. \E done \in {FALSE, willing} :
        /\ job' = [job EXCEPT ![j].step = IF done THEN "done" ELSE "refused"]
        /\ heard' = IF ~done \/ ~job[j].live THEN heard
                    ELSE CASE job[j].op = "reset" -> [heard EXCEPT !.mailed = 1]
                           [] job[j].op = "login" -> heard
                           [] OTHER -> [heard EXCEPT !.made = @ + 1]
    BY DEF Serve
  <2> HIDE DEF willing
  <2>2. QED
    BY <2>1
<1> DEFINE answer == IF done THEN "done" ELSE "refused"
<1>3. /\ JobsOK'
      /\ job'[j].step = answer /\ job'[j].op = job[j].op /\ job'[j].live = job[j].live
      /\ job'[j] # None => job[j] # None
      /\ \A k \in Job \ {j} : job'[k] = job[k]
  <2> DEFINE new == [job[j] EXCEPT !.step = answer]
  <2>1. /\ DOMAIN new = DOMAIN job[j] /\ new.step = answer
        /\ new.op = job[j].op /\ new.live = job[j].live
    BY <1>1 DEF VisitInv, JobsOK
  <2>2. answer \in {"sent", "done", "refused"}
    OBVIOUS
  <2>3. job' = [job EXCEPT ![j] = new]
    BY <1>2
  <2> HIDE DEF new, answer
  <2>4. job'[j] = new /\ DOMAIN job' = Job /\ \A k \in Job \ {j} : job'[k] = job[k]
    BY <2>3 DEF VisitInv, JobsOK
  <2>5. QED
    BY <1>1, <2>1, <2>2, <2>4 DEF VisitInv, JobsOK
<1>4. /\ \A k \in Job : Live(k)' => Live(k)
      /\ \A k \in Job : Making(k)' => Making(k)
  BY <1>1, <1>3 DEF Live, Making
<1>5. job[j].op \in {"login", "register", "post", "reset"} /\ job[j].live \in BOOLEAN
  BY <1>1 DEF VisitInv, JobsOK
<1>6. heard.made \in Nat /\ heard.unheard \in Nat /\ heard.mailed \in 0..1
  BY DEF VisitInv, VisitTypes
<1>7. OneAtATime' /\ FromHere'
  BY <1>1, <1>3, <1>4 DEF VisitInv, OneAtATime, FromHere
<1>8. CASE done /\ Making(j)
  <2>1. heard' = [heard EXCEPT !.made = @ + 1]
    BY <1>2, <1>5, <1>8 DEF Making, Live
  <2>2. /\ heard' \in [made : Nat, mailed : 0..1, unheard : Nat]
        /\ heard'.made = heard.made + 1
        /\ heard'.unheard = heard.unheard /\ heard'.mailed = heard.mailed
    BY <2>1 DEF VisitInv, VisitTypes
  <2>3. heard.made <= heard.unheard
    BY <1>1, <1>8 DEF VisitInv, Counted
  <2>4. busy /\ page # "login" /\ \A k \in Job : Making(k) => k = j
    BY <1>8 DEF VisitInv, OneAtATime, FromHere, Making, Roles
  <2>5. VisitTypes' /\ ToldIsTrue'
    BY <1>1, <1>6, <2>2 DEF VisitInv, VisitTypes, ToldIsTrue
  <2>6. DoneIsHeard'
    <3>1. job[j].op # "reset" /\ heard'.made > 0
      BY <1>6, <1>8, <2>2 DEF Making
    <3>2. QED
      BY <1>3, <1>4, <2>2, <3>1 DEF VisitInv, DoneIsHeard
  <2>7. Counted'
    BY <1>1, <1>3, <1>4, <1>6, <1>8, <2>2, <2>3, <2>4 DEF Counted
  <2>8. QED
    BY <1>3, <1>7, <2>5, <2>6, <2>7 DEF VisitInv
<1>9. CASE ~(done /\ Making(j))
  <2>1. /\ heard' \in [made : Nat, mailed : 0..1, unheard : Nat]
        /\ heard'.made = heard.made /\ heard'.unheard = heard.unheard
        /\ heard'.mailed >= heard.mailed
        /\ done /\ job[j].live /\ job[j].op = "reset" => heard'.mailed = 1
    <3>1. CASE done /\ job[j].live /\ job[j].op = "reset"
      <4>1. heard' = [heard EXCEPT !.mailed = 1]
        BY <1>2, <3>1
      <4>2. QED
        BY <1>6, <3>1, <4>1 DEF VisitInv, VisitTypes
    <3>2. CASE ~(done /\ job[j].live /\ job[j].op = "reset")
      <4>1. heard' = heard
        BY <1>1, <1>2, <1>5, <1>9, <3>2 DEF Making, Live
      <4>2. QED
        BY <1>6, <3>2, <4>1 DEF VisitInv, VisitTypes
    <3>3. QED
      BY <3>1, <3>2
  <2>2. VisitTypes' /\ ToldIsTrue'
    BY <1>1, <1>6, <2>1 DEF VisitInv, VisitTypes, ToldIsTrue
  <2>3. ASSUME NEW k \in Job, Live(k)', job'[k].step = "done"
        PROVE  /\ Making(k)' => heard'.made > 0
               /\ job'[k].op = "reset" => heard'.mailed > 0
    <3>1. CASE k = j
      BY <1>1, <1>3, <1>9, <2>1, <2>3, <3>1 DEF Live, Making
    <3>2. CASE k # j
      BY <1>3, <1>4, <1>6, <2>1, <2>3, <3>2 DEF VisitInv, DoneIsHeard
    <3>3. QED
      BY <3>1, <3>2
  <2>4. DoneIsHeard'
    BY <2>3 DEF DoneIsHeard
  <2>5. ASSUME NEW k \in Job, Making(k)', Making(k) => job[k].step = "done"
        PROVE  job'[k].step = "done"
    BY <1>1, <1>3, <1>4, <2>5
  <2>6. Counted'
    BY <1>1, <2>1, <2>5 DEF VisitInv, Counted
  <2>7. QED
    BY <1>3, <1>7, <2>2, <2>4, <2>6 DEF VisitInv
<1>10. QED
  BY <1>8, <1>9

\* The answer, or the lack of one, comes to the page that asked.
LEMMA OverSettles ==
  ASSUME VisitInv, NEW j \in Job, job[j] # None, NEW done \in BOOLEAN, Over(j, done)
  PROVE  /\ JobsOK' /\ ~Live(j)'
         /\ \A k \in Job \ {j} : job'[k] = job[k]
         /\ DOMAIN panel' = DOMAIN Closed /\ panel'.sent \in BOOLEAN
         /\ busy' \in BOOLEAN /\ told' \in BOOLEAN
         /\ panel'.sent => panel.sent \/ (done /\ job[j].live /\ job[j].op = "reset")
         /\ told' <=> told \/ (done /\ Making(j))
         /\ busy' => busy
         /\ busy /\ ~busy' => job[j].live /\ job[j].op # "reset"
<1>1. job' = [job EXCEPT ![j] = None]
  BY DEF Over
<1>2. JobsOK' /\ ~Live(j)' /\ \A k \in Job \ {j} : job'[k] = job[k]
  BY <1>1 DEF VisitInv, JobsOK, Live
<1>3. job[j].op \in {"login", "register", "post", "reset"}
  BY DEF VisitInv, JobsOK
<1>4. VisitTypes
  BY DEF VisitInv
<1>5. CASE ~job[j].live
  <2>1. UNCHANGED <<busy, told, panel>>
    BY <1>5 DEF Over, form
  <2>2. QED
    BY <1>2, <1>4, <1>5, <2>1 DEF VisitTypes, Making, Live
<1>6. CASE job[j].live /\ job[j].op = "reset"
  <2>1. /\ panel' = [panel EXCEPT !.busy = FALSE, !.sent = done, !.error = ~done]
        /\ UNCHANGED <<busy, told>>
    BY <1>6 DEF Over
  <2>2. DOMAIN panel' = DOMAIN panel /\ panel'.sent = done
    BY <1>4, <2>1 DEF VisitTypes, Closed
  <2>3. QED
    BY <1>2, <1>4, <1>6, <2>1, <2>2 DEF VisitTypes, Making, Live
<1>7. CASE job[j].live /\ job[j].op # "reset"
  <2>1. /\ busy' = FALSE /\ told' = (told \/ (done /\ job[j].op # "login"))
        /\ UNCHANGED panel
    BY <1>7 DEF Over
  <2>2. Making(j) <=> job[j].op # "login"
    BY <1>3, <1>7 DEF Making, Live
  <2>3. QED
    BY <1>2, <1>4, <1>7, <2>1, <2>2 DEF VisitTypes
<1>8. QED
  BY <1>5, <1>6, <1>7

LEMMA OthersAsBefore ==
  ASSUME VisitInv, NEW j \in Job, page' = page, ~Live(j)', \A k \in Job \ {j} : job'[k] = job[k]
  PROVE  /\ FromHere'
         /\ \A k \in Job : Making(k)' => Making(k) /\ k # j /\ job'[k] = job[k]
<1>1. \A k \in Job : Live(k)' => Live(k) /\ k # j /\ job'[k] = job[k]
  BY DEF Live
<1>2. QED
  BY <1>1 DEF VisitInv, FromHere, Making

LEMMA AnswerCounts == ASSUME VisitInv, NEW j \in Job, Answer(j) PROVE VisitInv'
<1>1. /\ job[j] # None /\ job[j].step = "done" /\ Over(j, TRUE)
      /\ page' = page /\ heard' = heard
  BY DEF Answer, Outstanding
<1>2. /\ JobsOK' /\ ~Live(j)' /\ \A k \in Job \ {j} : job'[k] = job[k]
      /\ DOMAIN panel' = DOMAIN Closed /\ panel'.sent \in BOOLEAN
      /\ busy' \in BOOLEAN /\ told' \in BOOLEAN
      /\ panel'.sent => panel.sent \/ (job[j].live /\ job[j].op = "reset")
      /\ told' <=> told \/ Making(j)
      /\ busy /\ ~busy' => job[j].live /\ job[j].op # "reset"
  BY <1>1, OverSettles
<1>3. /\ FromHere'
      /\ \A k \in Job : Making(k)' => Making(k) /\ k # j /\ job'[k] = job[k]
  BY <1>1, <1>2, OthersAsBefore
<1>4. VisitTypes'
  BY <1>1, <1>2 DEF VisitInv, VisitTypes
<1>5. DoneIsHeard'
  BY <1>1, <1>2, <1>3 DEF VisitInv, DoneIsHeard, Live
<1>6. OneAtATime'
  <2>1. ASSUME NEW k \in Job, Making(k)' PROVE busy' /\ ~told'
    <3>1. Making(k) /\ k # j /\ ~Making(j) /\ busy /\ ~told
      BY <1>3, <2>1 DEF VisitInv, OneAtATime
    <3>2. page # "login"
      BY <3>1 DEF VisitInv, FromHere, Making, Roles
    <3>3. job[j].live => job[j].op = "reset"
      BY <1>1, <3>1, <3>2 DEF VisitInv, JobsOK, FromHere, Making, Live
    <3>4. QED
      BY <1>2, <3>1, <3>3
  <2>2. QED
    BY <1>3, <2>1 DEF VisitInv, OneAtATime
<1>7. Counted'
  <2>1. CASE heard.made <= heard.unheard
    BY <1>1, <2>1 DEF Counted
  <2>2. CASE ~(heard.made <= heard.unheard)
    <3>1. /\ heard.made = heard.unheard + 1 /\ page # "login" /\ (told \/ busy)
          /\ \A k \in Job : Making(k) => job[k].step = "done"
      BY <2>2 DEF VisitInv, Counted
    <3>2. told' \/ busy'
      <4>1. job[j].live /\ job[j].op # "reset" => Making(j)
        BY <1>1, <3>1 DEF VisitInv, JobsOK, FromHere, Making, Live
      <4>2. QED
        BY <1>2, <3>1, <4>1
    <3>3. QED
      BY <1>1, <1>3, <3>1, <3>2 DEF Counted
  <2>3. QED
    BY <2>1, <2>2
<1>8. ToldIsTrue'
  <2>1. told' => heard.made > 0
    BY <1>1, <1>2 DEF VisitInv, ToldIsTrue, DoneIsHeard, Making
  <2>2. panel'.sent => heard.mailed > 0
    BY <1>1, <1>2 DEF VisitInv, ToldIsTrue, DoneIsHeard, Live
  <2>3. "mine" \in timer' => "mine" \in timer \/ (job[j].op = "post" /\ job[j].live)
    BY DEF Answer
  <2>4. "mine" \in timer' => page = "submit" /\ told'
    BY <1>1, <1>2, <2>3 DEF VisitInv, ToldIsTrue, FromHere, Making, Live
  <2>5. QED
    BY <1>1, <2>1, <2>2, <2>4 DEF ToldIsTrue
<1>9. QED
  BY <1>2, <1>3, <1>4, <1>5, <1>6, <1>7, <1>8 DEF VisitInv

LEMMA FailCounts == ASSUME VisitInv, NEW j \in Job, Fail(j) PROVE VisitInv'
<1> DEFINE unheard == job[j].step = "done" /\ job[j].live
<1>1. /\ job[j] # None /\ Over(j, FALSE) /\ page' = page /\ timer' = timer
      /\ heard' = IF unheard THEN [heard EXCEPT !.unheard = @ + 1] ELSE heard
  BY DEF Fail, Outstanding
<1> HIDE DEF unheard
<1>2. /\ JobsOK' /\ ~Live(j)' /\ \A k \in Job \ {j} : job'[k] = job[k]
      /\ DOMAIN panel' = DOMAIN Closed /\ panel'.sent \in BOOLEAN
      /\ busy' \in BOOLEAN /\ told' \in BOOLEAN
      /\ panel'.sent => panel.sent
      /\ told' <=> told
      /\ busy /\ ~busy' => job[j].live /\ job[j].op # "reset"
  BY <1>1, OverSettles
<1>3. /\ FromHere'
      /\ \A k \in Job : Making(k)' => Making(k) /\ k # j /\ job'[k] = job[k]
  BY <1>1, <1>2, OthersAsBefore
<1>4. /\ heard' \in [made : Nat, mailed : 0..1, unheard : Nat]
      /\ heard'.made = heard.made /\ heard'.mailed = heard.mailed
      /\ heard'.unheard = heard.unheard + IF unheard THEN 1 ELSE 0
  BY <1>1 DEF VisitInv, VisitTypes
<1>5. VisitTypes' /\ ToldIsTrue'
  BY <1>1, <1>2, <1>4 DEF VisitInv, VisitTypes, ToldIsTrue
<1>6. DoneIsHeard'
  BY <1>2, <1>3, <1>4 DEF VisitInv, DoneIsHeard, Live
<1>7. OneAtATime'
  <2>1. ASSUME NEW k \in Job, Making(k)' PROVE busy' /\ ~told'
    <3>1. Making(k) /\ k # j /\ ~Making(j) /\ busy /\ ~told
      BY <1>3, <2>1 DEF VisitInv, OneAtATime
    <3>2. page # "login"
      BY <3>1 DEF VisitInv, FromHere, Making, Roles
    <3>3. job[j].live => job[j].op = "reset"
      BY <1>1, <3>1, <3>2 DEF VisitInv, JobsOK, FromHere, Making, Live
    <3>4. QED
      BY <1>2, <3>1, <3>3
  <2>2. QED
    BY <1>3, <2>1 DEF VisitInv, OneAtATime
<1>8. Counted'
  <2>1. CASE heard.made <= heard.unheard \/ unheard
    BY <1>4, <2>1 DEF VisitInv, VisitTypes, Counted
  <2>2. CASE ~(heard.made <= heard.unheard \/ unheard)
    <3>1. /\ heard.made = heard.unheard + 1 /\ page # "login" /\ (told \/ busy)
          /\ \A k \in Job : Making(k) => job[k].step = "done"
      BY <2>2 DEF VisitInv, Counted
    <3>2. ~(job[j].live /\ job[j].op # "reset")
      BY <1>1, <2>2, <3>1 DEF VisitInv, JobsOK, FromHere, Making, Live, unheard
    <3>3. told' \/ busy'
      BY <1>2, <3>1, <3>2
    <3>4. QED
      BY <1>1, <1>3, <1>4, <2>2, <3>1, <3>3 DEF Counted
  <2>3. QED
    BY <2>1, <2>2
<1>9. QED
  BY <1>2, <1>3, <1>5, <1>6, <1>7, <1>8 DEF VisitInv

\* The panel opens, closes and is typed into; a redirect fires.
LEMMA PanelCounts == VisitInv /\ (OpenReset \/ TypeReset \/ Redirect) => VisitInv'
<1> SUFFICES ASSUME VisitInv, OpenReset \/ TypeReset \/ Redirect PROVE VisitInv'
  OBVIOUS
<1>1. UNCHANGED <<page, busy, told, job, heard>> /\ timer' \subseteq timer
  BY DEF OpenReset, TypeReset, Redirect, form
<1>2. DOMAIN panel' = DOMAIN Closed /\ panel'.sent \in BOOLEAN /\ (panel'.sent => panel.sent)
  <2>1. CASE OpenReset
    <3>1. panel' = [Closed EXCEPT !.open = ~panel.open, !.email = values.email, !.busy = panel.busy]
      BY <2>1 DEF OpenReset
    <3>2. QED
      BY <3>1 DEF Closed
  <2>2. CASE TypeReset
    <3>1. PICK t : panel' = [panel EXCEPT !.email = t, !.error = FALSE]
      BY <2>2 DEF TypeReset
    <3>2. DOMAIN panel = DOMAIN Closed /\ panel.sent \in BOOLEAN
      BY DEF VisitInv, VisitTypes
    <3>3. QED
      BY <3>1, <3>2 DEF Closed
  <2>3. CASE Redirect
    BY <2>3 DEF Redirect, form, VisitInv, VisitTypes
  <2>4. QED
    BY <2>1, <2>2, <2>3
<1>3. VisitTypes' /\ ToldIsTrue'
  BY <1>1, <1>2 DEF VisitInv, VisitTypes, ToldIsTrue
<1>4. QED
  BY <1>1, <1>3
     DEF VisitInv, JobsOK, FromHere, DoneIsHeard, OneAtATime, Counted, Live, Making

LEMMA VisitStep == VisitInv /\ [Next]_vars => VisitInv'
<1> SUFFICES ASSUME VisitInv, [Next]_vars PROVE VisitInv'
  OBVIOUS
<1>1. CASE Visit
  BY <1>1, MountBegins DEF Visit
<1>2. ASSUME Follow \/ TrackOrder \/ UNCHANGED vars PROVE UNCHANGED Visited
  BY <1>2 DEF Follow, TrackOrder, vars, form, Visited
<1>3. ASSUME NEW f, Type(f) PROVE UNCHANGED Visited
  BY <1>3 DEF Type, Visited
<1>4. ASSUME NEW r, Pick(r) PROVE UNCHANGED Visited
  BY <1>4 DEF Pick, Visited
<1>5. QED
  BY <1>1, <1>2, <1>3, <1>4, VisitKept, ArriveBegins, SubmitCounts, ResetCounts, PanelCounts,
     ServeCounts, AnswerCounts, FailCounts DEF Next, Filling

LEMMA VisitInit == Init => VisitInv
<1> SUFFICES ASSUME Init PROVE VisitInv
  OBVIOUS
<1>1. busy = FALSE /\ told = FALSE /\ panel = Closed /\ timer = {} /\ heard = Nothing
  BY DEF Init
<1>2. panel.sent = FALSE
  BY <1>1 DEF Closed
<1>3. heard \in [made : Nat, mailed : 0..1, unheard : Nat] /\ heard.made = 0 /\ heard.unheard = 0
  BY <1>1 DEF Nothing
<1>4. VisitTypes
  BY <1>1, <1>2, <1>3 DEF VisitTypes
<1>5. ~told /\ ~panel.sent /\ "mine" \notin timer /\ heard.made <= heard.unheard
  BY <1>1, <1>2, <1>3
<1>6. JobsOK /\ \A j \in Job : ~Live(j)
  BY DEF Init, JobsOK, Live
<1>7. QED
  BY <1>4, <1>5, <1>6 DEF VisitInv, FromHere, DoneIsHeard, OneAtATime, Making, ToldIsTrue, Counted

LEMMA VisitAlways == DeskSpec => []VisitInv
BY VisitInit, VisitStep, TabHasForms, PTL

\* What a page says was done, the server did for a request of this visit, and
\* the redirect that is set belongs to the page that is shown.
THEOREM WhatIsToldIsTrue == DeskSpec => []ToldIsTrue
<1>1. VisitInv => ToldIsTrue
  BY DEF VisitInv
<1>2. QED
  BY <1>1, VisitAlways, PTL

\* One visit of a form makes one account or shipment, and one more at most for
\* each time that the answer was lost.
THEOREM OneVisitMakesOne == DeskSpec => []OneUnlessUnheard
<1>1. VisitInv => OneUnlessUnheard
  BY DEF VisitInv, VisitTypes, Counted, OneUnlessUnheard
<1>2. QED
  BY <1>1, VisitAlways, PTL

(***************************************************************************)
(* What the forms let through.                                              *)
(***************************************************************************)
Fits(q) ==
  /\ Refused(q) \subseteq {"email", "client_contact_email", "content"}
  /\ \A c \in DOMAIN q \cap {"weight", "max_handling_capacity"} : \A n \in q[c] : n > 0

LEMMA DigitsAreNumbers == ASSUME NEW t, Digits(t) PROVE Number(t) \in {0, 5, 30} /\ Number(t) # NaN
<1>1. t # Blank /\ t[1] \in {"nought", "five", "thirty"}
  BY DEF Digits, Amount, Blank
<1>2. Number(t) = Amount[t[1]]
  BY <1>1 DEF Number
<1>3. Number(t) \in {0, 5, 30}
  BY <1>1, <1>2 DEF Amount
<1>4. QED
  BY <1>3, NaNAssumption

\* A form without messages sends amounts that the schemas take.
LEMMA UnmarkedFits ==
  ASSUME NEW v, NEW r, NEW p \in Roles \cup {"login", "submit"}, DOMAIN v = Fields[p],
         Wrong(p, v, r) = {}
  PROVE  Fits(Payload(p, v))
<1>1. \A g \in DOMAIN v \ Optional : g \notin Malformed(p, v)
  BY DEF Wrong
<1>2. CASE p = "seller"
  <2>1. Digits(v.zip)
    BY <1>1, <1>2 DEF Malformed, Fields, Optional
  <2>2. Payload(p, v) = [email |-> {v.email}, zipcode |-> {Number(v.zip)}]
    BY <1>2 DEF Payload
  <2>3. QED
    BY <2>1, <2>2, DigitsAreNumbers DEF Fits, Refused
<1>3. CASE p = "partner"
  <2>1. /\ Digits(v.baseZip) /\ Digits(v.capacity) /\ ~(Number(v.capacity) < 1)
        /\ ~badZips(v.serviceZips)
    BY <1>1, <1>3 DEF Malformed, Fields, Optional
  <2>2. Payload(p, v) =
          [email |-> {v.email},
           zipcode |-> {Number(v.baseZip)}, max_handling_capacity |-> {Number(v.capacity)},
           serviceable_zip_codes |-> {Number(<<z>>) : z \in zipList(v.serviceZips)}]
    BY <1>3 DEF Payload
  <2>3. \A z \in zipList(v.serviceZips) : Number(<<z>>) # NaN
    BY <2>1, DigitsAreNumbers DEF badZips
  <2>4. Number(v.baseZip) # NaN /\ Number(v.capacity) # NaN /\ Number(v.capacity) > 0
    BY <2>1, DigitsAreNumbers
  <2> DEFINE codes == {Number(<<z>>) : z \in zipList(v.serviceZips)}
  <2>5. NaN \notin codes
    BY <2>3
  <2> HIDE DEF codes
  <2>6. /\ DOMAIN Payload(p, v) = {"email", "zipcode", "max_handling_capacity", "serviceable_zip_codes"}
        /\ Payload(p, v).zipcode = {Number(v.baseZip)}
        /\ Payload(p, v).max_handling_capacity = {Number(v.capacity)}
        /\ Payload(p, v).serviceable_zip_codes = codes
    BY <2>2 DEF codes
  <2>7. Refused(Payload(p, v)) \subseteq {"email"}
    BY <2>4, <2>5, <2>6 DEF Refused
  <2>8. QED
    BY <2>4, <2>6, <2>7 DEF Fits
<1>4. CASE p = "submit"
  <2>1. Digits(v.destination) /\ Digits(v.weight) /\ Number(v.weight) \in 1..25
    <3>1. Malformed(p, v) =
            {f \in {"destination"} : ~Digits(v[f])}
            \cup {f \in {"weight"} : ~Digits(v[f]) \/ Number(v[f]) \notin 1..25}
      BY <1>4 DEF Malformed
    <3>2. "destination" \notin Malformed(p, v) /\ "weight" \notin Malformed(p, v)
      BY <1>1, <1>4 DEF Fields, Optional
    <3>3. QED
      BY <3>1, <3>2
  <2>2. Payload(p, v) =
          [content |-> {v.content}, client_contact_email |-> {v.clientEmail},
           destination |-> {Number(v.destination)}, weight |-> {Number(v.weight)}]
    BY <1>4 DEF Payload
  <2>3. QED
    BY <2>1, <2>2, DigitsAreNumbers DEF Fits, Refused
<1>5. CASE p = "client"
  <2>1. Payload(p, v) = [email |-> {v.email}]
    BY <1>5 DEF Payload
  <2>2. QED
    BY <2>1 DEF Fits, Refused
<1>6. CASE p = "login"
  BY <1>6 DEF Payload, Fits, Refused
<1>7. QED
  BY <1>2, <1>3, <1>4, <1>5, <1>6 DEF Roles

\* Under way, a request does not change.
LEMMA PayloadKept ==
  ASSUME JobsOK, Visit \/ Arrive \/ \E j \in Job : Serve(j) \/ Answer(j) \/ Fail(j)
  PROVE  \A k \in Job : job'[k] # None => job[k] # None /\ job'[k].payload = job[k].payload
<1>1. ASSUME NEW p, Mount(p), NEW k \in Job, job'[k] # None
      PROVE  job[k] # None /\ job'[k].payload = job[k].payload
  <2>1. CASE Shown(p) = page
    BY <1>1, <2>1 DEF Mount
  <2>2. CASE Shown(p) # page
    <3>1. job[k] # None /\ job'[k] = [job[k] EXCEPT !.live = FALSE]
      BY <1>1, <2>2 DEF Mount
    <3>2. QED
      BY <3>1 DEF JobsOK
  <2>3. QED
    BY <2>1, <2>2
<1>2. ASSUME Arrive, NEW k \in Job, job'[k] # None
      PROVE  job[k] # None /\ job'[k].payload = job[k].payload
  BY <1>1, <1>2 DEF Arrive
<1>3. ASSUME NEW j \in Job, Serve(j), NEW k \in Job, job'[k] # None
      PROVE  job[k] # None /\ job'[k].payload = job[k].payload
  <2>1. job[j] # None
    BY <1>3 DEF Serve, Outstanding
  <2>2. PICK s : job' = [job EXCEPT ![j] = [job[j] EXCEPT !.step = s]]
    BY <1>3 DEF Serve
  <2>3. QED
    BY <1>3, <2>1, <2>2 DEF JobsOK
<1>4. ASSUME NEW j \in Job, Answer(j) \/ Fail(j), NEW k \in Job, job'[k] # None
      PROVE  job[k] # None /\ job'[k].payload = job[k].payload
  <2>1. job' = [job EXCEPT ![j] = None]
    BY <1>4 DEF Answer, Fail, Over
  <2>2. QED
    BY <1>4, <2>1 DEF JobsOK
<1>5. QED
  BY <1>1, <1>2, <1>3, <1>4 DEF Visit

LEMMA PayloadStep == FieldsOK /\ JobsOK /\ PayloadFits /\ [Next]_vars => PayloadFits'
<1> SUFFICES ASSUME FieldsOK, JobsOK, PayloadFits, [Next]_vars PROVE PayloadFits'
  OBVIOUS
<1> USE DEF Fits
<1>1. CASE Visit \/ Arrive \/ \E j \in Job : Serve(j) \/ Answer(j) \/ Fail(j)
  BY <1>1, PayloadKept DEF PayloadFits
<1>2. ASSUME NEW j \in Job, NEW op \in {"login", "register", "post", "reset"}, NEW r, NEW e,
             NEW q, Send(j, op, r, e, q), Fits(q)
      PROVE  PayloadFits'
  <2>1. job'[j].payload = q /\ \A k \in Job \ {j} : job'[k] = job[k]
    BY <1>2, SendAdds
  <2>2. QED
    BY <1>2, <2>1 DEF PayloadFits
<1>3. ASSUME NEW j \in Job, Submit(j) PROVE PayloadFits'
  <2>1. page \in Roles \cup {"login", "submit"}
    BY <1>3 DEF Submit, Controls, LoginControls, SignupControls, SubmitControls, TrackControls
  <2>2. CASE UNCHANGED job
    BY <2>2 DEF PayloadFits
  <2>3. CASE Wrong(page, values, role) = {} /\ Request(j)
    <3>1. DOMAIN values = Fields[page]
      BY <2>1 DEF FieldsOK, Empty, Forms, Fields, Roles
    <3>2. Fits(Payload(page, values)) /\ Fits(<<>>)
      BY <2>1, <2>3, <3>1, UnmarkedFits DEF Refused
    <3>3. \E op \in {"login", "register", "post"} : \E r, e, q :
            Send(j, op, r, e, q) /\ q \in {<<>>, Payload(page, values)}
      BY <2>1, <2>3, RequestSends
    <3>4. QED
      BY <1>2, <3>2, <3>3
  <2>4. QED
    BY <1>3, <2>2, <2>3 DEF Submit
<1>4. ASSUME NEW j \in Job, SendReset(j) PROVE PayloadFits'
  <2>1. Fits(<<>>)
    BY DEF Refused
  <2>2. UNCHANGED job \/ Send(j, "reset", role, panel.email, <<>>)
    BY <1>4 DEF SendReset
  <2>3. QED
    BY <1>2, <2>1, <2>2 DEF PayloadFits
<1>5. ASSUME NEW x, Type(x) \/ Pick(x) PROVE PayloadFits'
  BY <1>5 DEF Type, Pick, PayloadFits
<1>6. ASSUME Follow \/ TrackOrder \/ OpenReset \/ TypeReset \/ Redirect \/ UNCHANGED vars
      PROVE  PayloadFits'
  BY <1>6 DEF Follow, TrackOrder, OpenReset, TypeReset, Redirect, vars, PayloadFits
<1>7. QED
  BY <1>1, <1>3, <1>4, <1>5, <1>6 DEF Next, Filling

\* Every amount that the checks of a form let through the schemas take, and it
\* makes sense; no request is refused but for an address or a content.
THEOREM AmountsAreTaken == DeskSpec => []PayloadFits
<1>1. Init => MessagesInv /\ PayloadFits
  BY DEF Init, MessagesInv, FieldsOK, MessagesCurrent, Empty, PayloadFits
<1>2. MessagesInv /\ VisitInv => FieldsOK /\ JobsOK
  BY DEF MessagesInv, VisitInv
<1>3. QED
  BY <1>1, <1>2, MessagesStep, PayloadStep, VisitAlways, TabHasForms, PTL

\* The session changes only when the answer of a log in comes, and the tab then
\* heads for the dashboard of the role that was logged in.
THEOREM LogInLandsAtHome == DeskSpec => LandsAsLoggedIn
<1>1. ASSUME [Next]_vars, session' # session
      PROVE  heading' = IF heading = None THEN Dashboard[session'] ELSE heading
  <2>1. PICK j \in Job : Answer(j)
    BY <1>1 DEF Next, Filling, Visit, Arrive, Follow, Redirect, Type, Pick, Submit, TrackOrder,
               OpenReset, TypeReset, SendReset, Serve, Fail, vars
  <2>2. QED
    BY <1>1, <2>1 DEF Answer, Go
<1>2. QED
  BY <1>1, TabHasForms, PTL DEF LandsAsLoggedIn

(***************************************************************************)
(* The profile editors.                                                     *)
(***************************************************************************)
LEMMA TabHasEditor == DeskSpec => (\E r \in Roles \cup {Nobody} : Opened(r)) /\ [][EditorNext]_desk
<1>1. DeskInit => \E r \in Roles \cup {Nobody} : Opened(r)
  BY DEF DeskInit
<1>2. [AtForms \/ AtEditor]_<<vars, desk>> => [EditorNext]_desk
  BY DEF AtForms, AtEditor
<1>3. QED
  BY <1>1, <1>2, PTL DEF DeskSpec

ChipsOK == zips \in Seq(Zips) /\ draft \in Zips \cup {"", " "} /\ Repeated(zips) \subseteq Repeated(Served)

PictureOK ==
  /\ photo \in Nat /\ picks \in Nat
  /\ urls = IF editor = Nobody THEN {} ELSE {photo} \ {0}

\* A seller's or partner's form is not there before its profile; a client's
\* page never says that anything was captured.
FormOK ==
  /\ saved \in BOOLEAN
  /\ editor # "client" /\ waiting => entries = <<>> /\ stage # "form" /\ ~saved
  /\ editor = "client" => ~saved

EditorInv == ChipsOK /\ PictureOK /\ FormOK


LEMMA EmptyHasNothing == DOMAIN <<>> = {}
BY SMT

\* What is in a sequence more than once when it gets one element more, loses the
\* last one, or some.
LEMMA AppendRepeatsNothing ==
  ASSUME NEW S, NEW s \in Seq(S), NEW e \in S, e \notin Range(s)
  PROVE  /\ Append(s, e) \in Seq(S) /\ Repeated(Append(s, e)) \subseteq Repeated(s)
         /\ e \in Range(Append(s, e))
<1> DEFINE t == Append(s, e)
<1>1. /\ Len(s) \in Nat /\ DOMAIN s = 1..Len(s)
      /\ t \in Seq(S) /\ Len(t) = Len(s) + 1 /\ DOMAIN t = 1..Len(t)
      /\ \A i \in 1..Len(s) : t[i] = s[i]
      /\ t[Len(s) + 1] = e
  BY LenProperties, AppendProperties
<1> HIDE DEF t
<1>2. \A i \in 1..Len(s) : s[i] # e
  BY <1>1 DEF Range
<1>3. ASSUME NEW a \in DOMAIN t, NEW b \in DOMAIN t, a # b, t[a] = t[b]
      PROVE  t[a] \in Repeated(s)
  <2>1. (a \in 1..Len(s) \/ a = Len(s) + 1) /\ (b \in 1..Len(s) \/ b = Len(s) + 1)
    BY <1>1
  <2>2. a \in DOMAIN s /\ b \in DOMAIN s /\ s[a] = t[a] /\ s[b] = t[a]
    BY <1>1, <1>2, <1>3, <2>1
  <2>3. QED
    BY <1>3, <2>2 DEF Repeated, Range
<1>4. Repeated(t) \subseteq Repeated(s)
  BY <1>3 DEF Repeated
<1>5. Len(s) + 1 \in DOMAIN t
  BY <1>1
<1>6. e \in Range(t)
  BY <1>1, <1>5 DEF Range
<1>7. QED
  BY <1>1, <1>4, <1>6 DEF t

Part(t, s, n, at) ==
  /\ n \in Nat /\ at \in [1..n -> DOMAIN s]
  /\ \A k, l \in 1..n : k < l => at[k] < at[l]
  /\ t = [k \in 1..n |-> s[at[k]]]

LEMMA PartRepeatsNothing ==
  ASSUME NEW S, NEW s \in Seq(S), NEW n, NEW at, NEW t, Part(t, s, n, at)
  PROVE  t \in Seq(S) /\ Repeated(t) \subseteq Repeated(s)
<1> USE DEF Part
<1>1. DOMAIN s = 1..Len(s) /\ s \in [1..Len(s) -> S]
  BY LenProperties
<1>2. t \in Seq(S)
  BY <1>1
<1>3. ASSUME NEW k \in 1..n, NEW l \in 1..n, k # l, t[k] = t[l] PROVE t[k] \in Repeated(s)
  <2>1. at[k] \in DOMAIN s /\ at[l] \in DOMAIN s /\ s[at[k]] = t[k] /\ s[at[l]] = t[k]
    BY <1>3
  <2>2. at[k] # at[l]
    <3>1. at[k] \in Int /\ at[l] \in Int /\ (k < l \/ l < k)
      BY <1>1, <1>3
    <3>2. QED
      BY <3>1
  <2>3. QED
    BY <2>1, <2>2 DEF Repeated, Range
<1>4. Repeated(t) \subseteq Repeated(s)
  BY <1>3 DEF Repeated
<1>5. QED
  BY <1>2, <1>4

LEMMA FrontRepeatsNothing ==
  ASSUME NEW S, NEW s \in Seq(S), s # <<>>
  PROVE  Front(s) \in Seq(S) /\ Repeated(Front(s)) \subseteq Repeated(s)
<1>1. /\ Len(s) \in Nat \ {0} /\ DOMAIN s = 1..Len(s) /\ s \in [1..Len(s) -> S]
  BY LenProperties, EmptySeq
<1> DEFINE t == [i \in 1..(Len(s) - 1) |-> s[i]]
<1>2. Front(s) = t
  BY <1>1 DEF Front
<1>3. t \in Seq(S)
  BY <1>1
<1>4. Repeated(t) \subseteq Repeated(s)
  BY <1>1 DEF Repeated, Range
<1>5. QED
  BY <1>2, <1>3, <1>4

\* An empty box repeats nothing.
LEMMA NoneRepeatsNothing == <<>> \in Seq(Zips) /\ Repeated(<<>>) = {}
BY EmptySeq, EmptyHasNothing DEF Repeated

\* What is typed into the box is a code or blank, and is added once.
LEMMA CommitKeepsChips ==
  ASSUME ChipsOK, Commit
  PROVE  ChipsOK' /\ Clean(draft) \in Range(zips') \cup {""}
<1>1. CASE Clean(draft) = ""
  BY <1>1 DEF Commit, ChipsOK
<1>2. CASE Clean(draft) # "" /\ Clean(draft) \in Range(zips)
  BY <1>2 DEF Commit, ChipsOK
<1>3. CASE Clean(draft) # "" /\ Clean(draft) \notin Range(zips)
  <2>1. Clean(draft) \in Zips
    BY <1>3 DEF ChipsOK, Clean
  <2>2. zips' = Append(zips, Clean(draft)) /\ draft' = ""
    BY <1>3 DEF Commit
  <2>3. QED
    BY <1>3, <2>1, <2>2, AppendRepeatsNothing DEF ChipsOK
<1>4. QED
  BY <1>1, <1>2, <1>3

LEMMA RemovingKeepsChips ==
  ASSUME ChipsOK, NEW z, RemoveChip(z)
  PROVE  ChipsOK'
<1>1. PICK n \in 0..Len(zips) : \E at \in [1..n -> DOMAIN zips] :
        /\ \A k, l \in 1..n : k < l => at[k] < at[l]
        /\ zips' = [k \in 1..n |-> zips[at[k]]]
  BY DEF RemoveChip
<1>2. zips \in Seq(Zips) /\ draft \in Zips \cup {"", " "} /\ draft' = draft
  BY DEF ChipsOK, RemoveChip
<1>3. n \in Nat
  <2>1. Len(zips) \in Nat
    BY <1>2, LenProperties
  <2>2. n \in 0..Len(zips)
    OBVIOUS
  <2>3. QED
    BY <2>1, <2>2
<1>4. PICK at \in [1..n -> DOMAIN zips] :
        /\ \A k, l \in 1..n : k < l => at[k] < at[l]
        /\ zips' = [k \in 1..n |-> zips[at[k]]]
  BY <1>1
<1>5. Part(zips', zips, n, at)
  BY <1>3, <1>4 DEF Part
<1>6. zips' \in Seq(Zips) /\ Repeated(zips') \subseteq Repeated(zips)
  BY <1>2, <1>5, PartRepeatsNothing
<1>7. QED
  BY <1>2, <1>6 DEF ChipsOK

LEMMA ChipsStep == EditorInv /\ [EditorNext]_desk => ChipsOK'
<1> SUFFICES ASSUME EditorInv, [EditorNext]_desk PROVE ChipsOK'
  OBVIOUS
<1>1. zips \in Seq(Zips) /\ draft \in Zips \cup {"", " "} /\ Repeated(zips) \subseteq Repeated(Served)
  BY DEF EditorInv, ChipsOK
<1>2. ASSUME UNCHANGED <<zips, draft>> PROVE ChipsOK'
  BY <1>1, <1>2 DEF ChipsOK
<1>3. ASSUME \/ ClientLoaded \/ SellerLoaded \/ LoadFails \/ Save \/ PickPhoto \/ FocusBox
             \/ (\E f \in DOMAIN entries : Edit(f)) \/ UNCHANGED desk
      PROVE  UNCHANGED <<zips, draft>>
  BY <1>3 DEF ClientLoaded, SellerLoaded, LoadFails, Save, PickPhoto, FocusBox, Edit, desk, chips
<1>4. CASE PartnerLoaded
  BY <1>1, <1>4, ZipsAssumption DEF PartnerLoaded, ChipsOK
<1>5. CASE Close
  <2>1. zips' = <<>> /\ draft' = ""
    BY <1>5 DEF Close
  <2>2. QED
    BY <2>1, NoneRepeatsNothing DEF ChipsOK
<1>6. CASE TypeZip
  BY <1>1, <1>6 DEF TypeZip, ChipsOK
<1>7. CASE CommitKey \/ BlurBox
  BY <1>7, CommitKeepsChips DEF EditorInv, CommitKey, BlurBox
<1>8. CASE BackspaceKey
  BY <1>1, <1>8, FrontRepeatsNothing DEF BackspaceKey, ChipsOK
<1>9. ASSUME NEW z, RemoveChip(z) PROVE ChipsOK'
  BY <1>9, RemovingKeepsChips DEF EditorInv
<1>10. QED
  BY <1>2, <1>3, <1>4, <1>5, <1>6, <1>7, <1>8, <1>9 DEF EditorNext

LEMMA PictureStep == EditorInv /\ [EditorNext]_desk => PictureOK'
<1> SUFFICES ASSUME PictureOK, [EditorNext]_desk PROVE PictureOK'
  BY DEF EditorInv
<1>1. CASE PickPhoto
  <2>1. editor # Nobody /\ editor' = editor
    BY <1>1, NobodyAssumption DEF PickPhoto, Usable
  <2>2. picks' = picks + 1 /\ photo' = picks + 1 /\ urls' = (urls \ {photo}) \cup {picks + 1}
    BY <1>1 DEF PickPhoto
  <2>3. QED
    BY <2>1, <2>2 DEF PictureOK
<1>2. CASE Close
  BY <1>2 DEF Close, PictureOK
<1>3. CASE UNCHANGED <<editor, pictures>>
  BY <1>3 DEF PictureOK, pictures
<1>4. ASSUME NEW x, Edit(x) \/ RemoveChip(x) PROVE UNCHANGED <<editor, pictures>>
  BY <1>4 DEF Edit, RemoveChip
<1>5. ASSUME \/ ClientLoaded \/ SellerLoaded \/ PartnerLoaded \/ LoadFails \/ Save \/ FocusBox
             \/ TypeZip \/ CommitKey \/ BackspaceKey \/ BlurBox \/ UNCHANGED desk
      PROVE  UNCHANGED <<editor, pictures>>
  BY <1>5 DEF ClientLoaded, SellerLoaded, PartnerLoaded, LoadFails, Save, FocusBox, TypeZip,
             CommitKey, BackspaceKey, BlurBox, desk
<1>6. QED
  BY <1>1, <1>2, <1>3, <1>4, <1>5 DEF EditorNext

LEMMA FormStep == EditorInv /\ [EditorNext]_desk => FormOK'
<1> SUFFICES ASSUME FormOK, [EditorNext]_desk PROVE FormOK'
  BY DEF EditorInv
<1> USE DEF FormOK
<1>1. CASE UNCHANGED <<editor, saved, waiting, entries, stage>>
  BY <1>1
<1>2. ASSUME PickPhoto \/ FocusBox \/ TypeZip \/ UNCHANGED desk
      PROVE  UNCHANGED <<editor, saved, waiting, entries, stage>>
  BY <1>2 DEF PickPhoto, FocusBox, TypeZip, desk, profile
<1>3. CASE ClientLoaded \/ SellerLoaded \/ PartnerLoaded \/ LoadFails
  BY <1>3 DEF ClientLoaded, SellerLoaded, PartnerLoaded, LoadFails
<1>4. ASSUME NEW f, Usable(f), editor # "client" PROVE stage = "form"
  BY <1>4 DEF Usable, SellerControls, PartnerControls
<1>5. CASE Save
  BY <1>4, <1>5 DEF Save, profile
<1>6. ASSUME NEW f, Edit(f) PROVE FormOK'
  BY <1>4, <1>6 DEF Edit
<1>7. CASE Close
  BY <1>7 DEF Close
<1>8. ASSUME UNCHANGED <<editor, profile>>, saved' = FALSE \/ saved' = saved PROVE FormOK'
  <2>1. saved' \in BOOLEAN
    BY <1>8
  <2>2. saved' => saved
    BY <1>8, Zenon
  <2>3. QED
    BY <1>8, <2>1, <2>2 DEF profile
<1>9. ASSUME NEW z, RemoveChip(z) PROVE FormOK'
  BY <1>8, <1>9 DEF RemoveChip
<1>10. CASE CommitKey \/ BackspaceKey \/ BlurBox
  BY <1>8, <1>10 DEF CommitKey, BackspaceKey, BlurBox, Commit
<1>11. QED
  BY <1>1, <1>2, <1>3, <1>5, <1>6, <1>7, <1>9, <1>10 DEF EditorNext

LEMMA EditorInit == ASSUME NEW r \in Roles \cup {Nobody}, Opened(r) PROVE EditorInv
<1>1. zips = <<>> /\ draft = "" /\ saved = FALSE /\ photo = 0 /\ urls = {} /\ picks = 0
  BY DEF Opened
<1>2. ChipsOK
  BY <1>1, NoneRepeatsNothing DEF ChipsOK
<1>3. PictureOK
  BY <1>1 DEF PictureOK
<1>4. FormOK
  BY <1>1 DEF Opened, FormOK
<1>5. QED
  BY <1>2, <1>3, <1>4 DEF EditorInv

LEMMA EditorAlways == DeskSpec => []EditorInv
<1>1. (\E r \in Roles \cup {Nobody} : Opened(r)) => EditorInv
  BY EditorInit
<1>2. EditorInv /\ [EditorNext]_desk => EditorInv'
  BY ChipsStep, PictureStep, FormStep DEF EditorInv
<1>3. QED
  BY <1>1, <1>2, TabHasEditor, PTL

\* Editing repeats no code, whatever codes the profile came with, and there is
\* one object URL at a time, the one the picture shows.
THEOREM NoCodeTwiceAndOnePicture == DeskSpec => []ChipsAndPicture
<1>1. EditorInv => ChipsAndPicture
  BY DEF EditorInv, ChipsOK, PictureOK, ChipsAndPicture
<1>2. QED
  BY <1>1, EditorAlways, PTL

\* What is typed on a profile page stays, but for a client's name and address
\* that the profile overtakes; and what is captured is what is shown.
THEOREM NothingTypedIsLost == DeskSpec => TypedIsKept
<1> DEFINE Keeps ==
      editor' = editor =>
       /\ \A f \in DOMAIN entries :
            entries[f] = "typed" /\ entries'[f] # "typed" =>
              editor = "client" /\ waiting /\ f \in PERSONAL
       /\ inBox /\ ~inBox' => Clean(draft) \in Range(zips') \cup {""}
       /\ saved /\ saved' => UNCHANGED <<entries, zips>>
<1>1. ASSUME EditorInv, [EditorNext]_desk PROVE Keeps
  <2> USE DEF FormOK
  <2>1. CASE ClientLoaded
    BY <1>1, <2>1 DEF EditorInv, ClientLoaded, chips
  <2>2. ASSUME SellerLoaded \/ PartnerLoaded PROVE Keeps
    <3>1. editor # "client" /\ waiting /\ inBox' = inBox
      BY <2>2 DEF SellerLoaded, PartnerLoaded, chips
    <3>2. ~saved /\ DOMAIN entries = {}
      BY <1>1, <3>1, EmptyHasNothing DEF EditorInv
    <3>3. QED
      BY <3>1, <3>2
  <2>3. ASSUME NEW f \in DOMAIN entries, Edit(f) PROVE Keeps
    BY <2>3 DEF Edit, chips
  <2>4. CASE BlurBox
    BY <1>1, <2>4, CommitKeepsChips DEF EditorInv, BlurBox, Commit, profile
  <2>5. CASE CommitKey
    BY <2>5 DEF CommitKey, Commit, profile
  <2>6. ASSUME NEW z, RemoveChip(z) PROVE Keeps
    BY <2>6 DEF RemoveChip, profile
  <2>7. CASE BackspaceKey
    BY <2>7 DEF BackspaceKey, profile
  <2>8. CASE Close
    BY <2>8 DEF Close
  <2>9. CASE LoadFails \/ Save \/ PickPhoto \/ FocusBox \/ TypeZip \/ UNCHANGED desk
    BY <2>9 DEF LoadFails, Save, PickPhoto, FocusBox, TypeZip, desk, profile, chips
  <2>10. QED
    BY <1>1, <2>1, <2>2, <2>3, <2>4, <2>5, <2>6, <2>7, <2>8, <2>9 DEF EditorNext
<1>2. QED
  BY <1>1, EditorAlways, TabHasEditor, PTL DEF TypedIsKept
=============================================================================
