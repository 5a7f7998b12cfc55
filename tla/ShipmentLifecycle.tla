-------------------------- MODULE ShipmentLifecycle --------------------------
(***************************************************************************)
(* The life of a shipment in the FastShip API: create, partner update,     *)
(* seller cancel and buyer review, as concurrent HTTP requests that share   *)
(* the Postgres tables (shipment, shipment_event, review), the Redis code   *)
(* store and the mail/SMS broker.                                           *)
(*                                                                         *)
(* A request is a process.  It stops at every await of the handler where    *)
(* another request may run: the two SELECTs of the authentication           *)
(* dependency, Redis GET / DEL / SET, the broker publish and the COMMIT.    *)
(* Its ORM session keeps the rows it loaded at authentication until it      *)
(* commits, so everything it decides after that is decided from seen[r].    *)
(*                                                                         *)
(* The partner that assign_shipment picks is PartnerOf[s] here; how it is   *)
(* picked is modelled in Assignment.                                        *)
(***************************************************************************)
EXTENDS Naturals, Sequences, FiniteSets

CONSTANTS
  Req,          \* HTTP requests, numbered in the order they arrive
  Shipments,    \* identities of shipments (uuid4)
  Sellers, Partners,
  Codes,        \* randint(100_000, 999_999): any code may be drawn, repeats too
  SellerOf,     \* the seller that submits a shipment
  PartnerOf,    \* the partner it is assigned to
  HasEmail,     \* shipments created with client_contact_email
  HasPhone,     \* shipments created with client_contact_phone
  Calls,        \* the requests clients may send
  MaxInFlight,  \* bound: requests served at the same time
  Faults,       \* whether crashes and broker outages happen
  None

Statuses == {"placed", "in_transit", "out_for_delivery", "delivered", "cancelled"}

Closed == {"delivered", "cancelled"}

Operations == {"create", "update", "cancel", "rate"}

\* What a client sends: who (user) does what (op) to which shipment, with the
\* body of ShipmentUpdate.  A flag tells whether an optional field is present.
CallType ==
  [op : Operations, user : Sellers \cup Partners \cup {None}, ship : Shipments,
   status : Statuses \cup {None}, location : BOOLEAN, description : BOOLEAN,
   eta : BOOLEAN, code : Codes \cup {None}]

ASSUME NoneAssumption == None \notin Statuses \cup Codes

ASSUME ReqAssumption == Req \subseteq Nat

ASSUME ShipmentAssumption ==
  /\ SellerOf \in [Shipments -> Sellers]
  /\ PartnerOf \in [Shipments -> Partners]
  /\ HasEmail \cup HasPhone = Shipments

\* create and cancel fix the event fields themselves: add() passes status and
\* location, cancel() passes the status only.
ASSUME CallAssumption ==
  /\ Calls \subseteq CallType
  /\ \A c \in Calls : c.op = "create" => c.status = "placed" /\ c.location
  /\ \A c \in Calls : c.op = "cancel" => c.status = "cancelled" /\ ~c.location

ASSUME BoundAssumption == MaxInFlight \in Nat /\ Faults \in BOOLEAN

VARIABLES
  status,    \* shipment.status, None while the row does not exist
  timeline,  \* shipment_event rows of a shipment in commit order
  reviews,   \* review requests whose row was inserted, per shipment
  otp,       \* Redis db 1: the stored code, None if absent
  outbox,    \* mails and texts handed to the broker
  pc,        \* where a request stands
  call,      \* what it was asked
  seen,      \* what its ORM session loaded
  target,    \* the status of the event it is adding
  issued,    \* the code it generated
  proved     \* whether it presented the stored code

database == <<status, timeline, reviews>>
vars == <<status, timeline, reviews, otp, outbox, pc, call, seen, target, issued, proved>>

Ended == {"ok", "refused", "failed"}
Phases == {"new", "refresh", "rows", "loaded", "burn", "event", "publish",
           "commit", "review"} \cup Ended

InFlight == {r \in Req : pc[r] \notin {"new"} \cup Ended}

Event == [status : Statuses, by : Req]
Snapshot == [status : Statuses \cup {None}, latest : Statuses \cup {None}, events : Nat]
Message == [ship : Shipments, channel : {"mail", "sms"}, kind : Statuses,
            code : Codes \cup {None}, by : Req]

LatestStatus(s) == IF timeline[s] = <<>> THEN None
                   ELSE timeline[s][Len(timeline[s])].status

Init ==
  /\ status = [s \in Shipments |-> None]
  /\ timeline = [s \in Shipments |-> <<>>]
  /\ reviews = [s \in Shipments |-> {}]
  /\ otp = [s \in Shipments |-> None]
  /\ outbox = {}
  /\ pc = [r \in Req |-> "new"]
  /\ call = [r \in Req |-> None]
  /\ seen = [r \in Req |-> [status |-> None, latest |-> None, events |-> 0]]
  /\ target = [r \in Req |-> None]
  /\ issued = [r \in Req |-> None]
  /\ proved = [r \in Req |-> FALSE]

Goto(r, phase) == pc' = [pc EXCEPT ![r] = phase]

\* The request c arrives and is given the next request identity r.
Arrive(r, c) ==
  /\ pc[r] = "new"
  /\ \A q \in Req : q < r => pc[q] # "new"
  /\ Cardinality(InFlight) < MaxInFlight
  /\ call' = [call EXCEPT ![r] = c]

(***************************************************************************)
(* Authentication: session.get(user) loads the user, the shipments the user *)
(* is party to and then, in a second SELECT, their timelines.  For another  *)
(* user's shipment the same two SELECTs run when the handler asks for it.   *)
(***************************************************************************)
RowOf(s) == [status |-> status[s], latest |-> None, events |-> Len(timeline[s])]

LoadRows(r, c) ==
  /\ c.op \in {"update", "cancel"}
  /\ Arrive(r, c)
  /\ seen' = [seen EXCEPT ![r] = RowOf(c.ship)]
  /\ Goto(r, "rows")
  /\ UNCHANGED <<database, otp, outbox, target, issued, proved>>

LoadTimeline(r) ==
  /\ pc[r] = "rows"
  /\ seen' = [seen EXCEPT ![r] = [status |-> @.status, events |-> @.events,
                                  latest |-> LatestStatus(call[r].ship)]]
  /\ Goto(r, "loaded")
  /\ UNCHANGED <<database, otp, outbox, call, target, issued, proved>>

(***************************************************************************)
(* ShipmentService.add: the shipment row is inserted and committed before   *)
(* its first event exists; the refresh then reloads the row.                *)
(***************************************************************************)
InsertShipment(r, c) ==
  /\ c.op = "create"
  /\ c.user = SellerOf[c.ship]
  /\ status[c.ship] = None
  /\ Arrive(r, c)
  /\ status' = [status EXCEPT ![c.ship] = "placed"]
  /\ Goto(r, "refresh")
  /\ UNCHANGED <<timeline, reviews, otp, outbox, seen, target, issued, proved>>

\* assign_shipment found nobody: 406, nothing was written.
NoPartnerAvailable(r, c) ==
  /\ c.op = "create"
  /\ Arrive(r, c)
  /\ Goto(r, "refused")
  /\ UNCHANGED <<database, otp, outbox, seen, target, issued, proved>>

\* Mutant: add() returns without the first event.
RefreshShipment_NoEvent(r) ==
  /\ pc[r] = "refresh"
  /\ Goto(r, "ok")
  /\ UNCHANGED <<database, otp, outbox, call, seen, target, issued, proved>>

RefreshShipment(r) ==
  /\ pc[r] = "refresh"
  /\ seen' = [seen EXCEPT ![r] = RowOf(call[r].ship)]
  /\ Goto(r, "event")
  /\ UNCHANGED <<database, otp, outbox, call, target, issued, proved>>

(***************************************************************************)
(* Checks of the handlers, on the loaded copy.                              *)
(***************************************************************************)
HasEventFields(c) == c.status # None \/ c.location \/ c.description

IsEmptyUpdate(c) == ~HasEventFields(c) /\ ~c.eta /\ c.code = None

\* Mutant: ownership is not checked.
IsAssigned_Anyone(r) == TRUE

IsAssigned(r) == call[r].user = PartnerOf[call[r].ship]

UpdateRefused(r) ==
  \/ IsEmptyUpdate(call[r])
  \/ seen[r].status = None
  \/ ~IsAssigned(r)

\* Mutant: the status of the shipment is not looked at.
CancelRefused_AnyStatus(r) ==
  \/ seen[r].status = None
  \/ call[r].user # SellerOf[call[r].ship]

CancelRefused(r) ==
  \/ seen[r].status = None
  \/ call[r].user # SellerOf[call[r].ship]
  \/ seen[r].status \in Closed

Refuse(r) ==
  /\ pc[r] = "loaded"
  /\ \/ call[r].op = "update" /\ UpdateRefused(r)
     \/ call[r].op = "cancel" /\ CancelRefused(r)
  /\ Goto(r, "refused")
  /\ UNCHANGED <<database, otp, outbox, call, seen, target, issued, proved>>

AcceptCancel(r) ==
  /\ pc[r] = "loaded" /\ call[r].op = "cancel"
  /\ ~CancelRefused(r)
  /\ Goto(r, "event")
  /\ UNCHANGED <<database, otp, outbox, call, seen, target, issued, proved>>

\* Only ShipmentUpdate.status asks for the code, not the inherited status.
NeedsCode(c) == c.status = "delivered"

AcceptUpdate(r) ==
  /\ pc[r] = "loaded" /\ call[r].op = "update"
  /\ ~UpdateRefused(r) /\ ~NeedsCode(call[r])
  /\ HasEventFields(call[r])
  /\ Goto(r, "event")
  /\ UNCHANGED <<database, otp, outbox, call, seen, target, issued, proved>>

\* Only estimated_delivery (or an unused code) was sent: one COMMIT of the row
\* that adds no event and leaves the status column alone.
UpdateRowOnly(r) ==
  /\ pc[r] = "loaded" /\ call[r].op = "update"
  /\ ~UpdateRefused(r) /\ ~HasEventFields(call[r])
  /\ Goto(r, "ok")
  /\ UNCHANGED <<database, otp, outbox, call, seen, target, issued, proved>>

(***************************************************************************)
(* The delivery code: GET and compare, then DEL.                            *)
(***************************************************************************)
\* Mutant: an absent code equals an absent code.
CodeAccepted_Absent(r) == otp[call[r].ship] = call[r].code
CodeAccepted(r) == /\ otp[call[r].ship] # None
                   /\ otp[call[r].ship] = call[r].code

VerifyCode(r) ==
  /\ pc[r] = "loaded" /\ call[r].op = "update"
  /\ ~UpdateRefused(r) /\ NeedsCode(call[r])
  /\ proved' = [proved EXCEPT ![r] = CodeAccepted(r)]
  /\ Goto(r, IF CodeAccepted(r) THEN "burn" ELSE "refused")
  /\ UNCHANGED <<database, otp, outbox, call, seen, target, issued>>

\* Mutants: the code is kept; DEL is repeated until it removes something.
BurnCode_Kept(r) ==
  /\ pc[r] = "burn"
  /\ Goto(r, "event")
  /\ UNCHANGED <<database, otp, outbox, call, seen, target, issued, proved>>

BurnCode(r) ==
  /\ pc[r] = "burn"
  /\ otp' = [otp EXCEPT ![call[r].ship] = None]
  /\ Goto(r, "event")
  /\ UNCHANGED <<database, outbox, call, seen, target, issued, proved>>

\* A stored code lives OTP_TTL_SECONDS.
ExpireCode(s) ==
  /\ otp[s] # None
  /\ otp' = [otp EXCEPT ![s] = None]
  /\ UNCHANGED <<database, outbox, pc, call, seen, target, issued, proved>>

(***************************************************************************)
(* ShipmentEventService.add: fields the request leaves out come from the    *)
(* latest event of the loaded timeline, IndexError if it is empty; then     *)
(* _notify composes the message, which stores a new code when the shipment  *)
(* goes out for delivery, and publishes it; then the event is committed.    *)
(***************************************************************************)

NeedsLatest(c) == c.status = None \/ ~c.location

EventStatus(r) == IF call[r].status = None THEN seen[r].latest ELSE call[r].status

NoLatestEvent(r) ==
  /\ pc[r] = "event"
  /\ NeedsLatest(call[r]) /\ seen[r].latest = None
  /\ Goto(r, "failed")
  /\ UNCHANGED <<database, otp, outbox, call, seen, target, issued, proved>>

ComposeEvent(r) ==
  /\ pc[r] = "event"
  /\ NeedsLatest(call[r]) => seen[r].latest # None
  /\ EventStatus(r) # "out_for_delivery"
  /\ target' = [target EXCEPT ![r] = EventStatus(r)]
  /\ Goto(r, "publish")
  /\ UNCHANGED <<database, otp, outbox, call, seen, issued, proved>>

ComposeDispatch(r) ==
  /\ pc[r] = "event"
  /\ NeedsLatest(call[r]) => seen[r].latest # None
  /\ EventStatus(r) = "out_for_delivery"
  /\ \E code \in Codes :
       /\ otp' = [otp EXCEPT ![call[r].ship] = code]
       /\ issued' = [issued EXCEPT ![r] = code]
  /\ target' = [target EXCEPT ![r] = "out_for_delivery"]
  /\ Goto(r, "publish")
  /\ UNCHANGED <<database, outbox, call, seen, proved>>

\* Mutant: the generated code never reaches the message.
MessageOf_NoCode(r, channel) ==
  [ship |-> call[r].ship, channel |-> channel, kind |-> target[r],
   code |-> None, by |-> r]

MessageOf(r, channel) ==
  [ship |-> call[r].ship, channel |-> channel, kind |-> target[r],
   code |-> issued[r], by |-> r]

\* The text goes out first, and only with a code; the mail follows.
Texts(r) == IF target[r] = "out_for_delivery" /\ call[r].ship \in HasPhone
            THEN {MessageOf(r, "sms")} ELSE {}

\* Mutant: the match has no case for a cancellation.
Mails_NotCancelled(r) ==
  IF call[r].ship \in HasEmail /\ target[r] # "cancelled"
  THEN {MessageOf(r, "mail")} ELSE {}

Mails(r) == IF call[r].ship \in HasEmail THEN {MessageOf(r, "mail")} ELSE {}

Publish(r) ==
  /\ pc[r] = "publish"
  /\ outbox' = outbox \cup Texts(r) \cup Mails(r)
  /\ Goto(r, "commit")
  /\ UNCHANGED <<database, otp, call, seen, target, issued, proved>>

\* .delay raises when the broker is down: 500 before the event is committed,
\* with the code already stored and perhaps the text already queued.
PublishFails(r) ==
  /\ Faults
  /\ pc[r] = "publish" /\ Texts(r) \cup Mails(r) # {}
  /\ \E sent \in {{}, Texts(r)} :
       /\ sent # Texts(r) \cup Mails(r)
       /\ outbox' = outbox \cup sent
  /\ Goto(r, "failed")
  /\ UNCHANGED <<database, otp, call, seen, target, issued, proved>>

\* The unit of work writes the status column only when it differs from the
\* value that was loaded.
\* Mutant: the denormalised column is not kept in sync.
StatusColumn_Kept(r) == status[call[r].ship]

StatusColumn(r) == IF target[r] = seen[r].status THEN status[call[r].ship]
                   ELSE target[r]

CommitEvent(r) ==
  /\ pc[r] = "commit"
  /\ status' = [status EXCEPT ![call[r].ship] = StatusColumn(r)]
  /\ timeline' = [timeline EXCEPT ![call[r].ship] =
                    Append(@, [status |-> target[r], by |-> r])]
  /\ Goto(r, "ok")
  /\ UNCHANGED <<reviews, otp, outbox, call, seen, target, issued, proved>>

(***************************************************************************)
(* ShipmentService.rate: the signed link of the delivery mail is the only   *)
(* credential; it stays valid for 30 days and may be used again.            *)
(***************************************************************************)

HoldsReviewLink(s) ==
  \E m \in outbox : m.ship = s /\ m.channel = "mail" /\ m.kind = "delivered"

\* Mutant: an existing review is not looked at.
AlreadyReviewed_Ignored(s) == FALSE

AlreadyReviewed(s) == reviews[s] # {}

ReadForReview(r, c) ==
  /\ c.op = "rate"
  /\ Arrive(r, c)
  /\ Goto(r, IF HoldsReviewLink(c.ship) /\ ~AlreadyReviewed(c.ship)
             THEN "review" ELSE "refused")
  /\ UNCHANGED <<database, otp, outbox, seen, target, issued, proved>>

CommitReview(r) ==
  /\ pc[r] = "review"
  /\ reviews' = [reviews EXCEPT ![call[r].ship] = @ \cup {r}]
  /\ Goto(r, "ok")
  /\ UNCHANGED <<status, timeline, otp, outbox, call, seen, target, issued, proved>>

\* The API process dies: open transactions are rolled back, what Redis and the
\* broker already took stays.
Crash ==
  /\ Faults /\ InFlight # {}
  /\ pc' = [r \in Req |-> IF r \in InFlight THEN "failed" ELSE pc[r]]
  /\ UNCHANGED <<database, otp, outbox, call, seen, target, issued, proved>>

Receive(r) == \E c \in Calls :
  \/ LoadRows(r, c) \/ InsertShipment(r, c) \/ NoPartnerAvailable(r, c)
  \/ ReadForReview(r, c)

Serve(r) ==
  \/ LoadTimeline(r) \/ RefreshShipment(r) \/ Refuse(r)
  \/ AcceptCancel(r) \/ AcceptUpdate(r) \/ UpdateRowOnly(r)
  \/ VerifyCode(r) \/ BurnCode(r)
  \/ NoLatestEvent(r) \/ ComposeEvent(r) \/ ComposeDispatch(r)
  \/ Publish(r) \/ CommitEvent(r) \/ CommitReview(r)

Next ==
  \/ \E r \in Req : Receive(r) \/ Serve(r) \/ PublishFails(r)
  \/ \E s \in Shipments : ExpireCode(s)
  \/ Crash

Spec == Init /\ [][Next]_vars

\* The event loop runs every request it accepted; clients promise nothing.
FairSpec == Spec /\ \A r \in Req : WF_vars(Serve(r))
=============================================================================
