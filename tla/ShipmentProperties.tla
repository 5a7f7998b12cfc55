------------------------- MODULE ShipmentProperties --------------------------
(* What the life of a shipment must and must not do. *)
EXTENDS ShipmentLifecycle

\* Every variable keeps the shape its comment gives it.
TypeOK ==
  /\ status \in [Shipments -> Statuses \cup {None}]
  /\ timeline \in [Shipments -> Seq(Event)]
  /\ reviews \in [Shipments -> SUBSET Req]
  /\ otp \in [Shipments -> Codes \cup {None}]
  /\ outbox \in SUBSET Message
  /\ pc \in [Req -> Phases]
  /\ call \in [Req -> Calls \cup {None}]
  /\ seen \in [Req -> Snapshot]
  /\ target \in [Req -> Statuses \cup {None}]
  /\ issued \in [Req -> Codes \cup {None}]
  /\ proved \in [Req -> BOOLEAN]

\* The shipments for which some request presented a code that a dispatch of
\* this very shipment had generated.
HandedOver == {s \in Shipments : \E r, q \in Req :
  /\ proved[r] /\ call[r].ship = s
  /\ issued[q] # None /\ call[q].ship = s
  /\ issued[q] = call[r].code}

(***************************************************************************)
(* Safety, under any interleaving, crash or broker outage.                  *)
(***************************************************************************)
\* A delivered event is never recorded, not even by inheriting the status of
\* an older event, unless the buyer's code for this shipment was presented
\* (ShipmentService.update asks for it before the event is added).
DeliveredIsHandedOver ==
  \A s \in Shipments : \A i \in 1..Len(timeline[s]) :
    timeline[s][i].status = "delivered" => s \in HandedOver

\* A review can only exist where a hand-over took place, although rate() looks
\* at neither the status nor the timeline: the review link is composed only on
\* a path behind the code check.
ReviewedIsHandedOver == \A s \in Shipments : reviews[s] # {} => s \in HandedOver

\* What the tables show of the promise: shipments a code was generated for,
\* shipments with a delivered event, shipments with a review.
Coded == {s \in Shipments : \E r \in Req : issued[r] # None /\ call[r].ship = s}
Delivered == {s \in Shipments :
  \E i \in 1..Len(timeline[s]) : timeline[s][i].status = "delivered"}
Reviewed == {s \in Shipments : reviews[s] # {}}

Promise == INSTANCE DeliveryPromise WITH
  coded <- Coded, shown <- HandedOver, delivered <- Delivered, reviewed <- Reviewed

\* The API implements the promise of the delivery code: its requests, crashes,
\* outages and expiries only ever take a shipment from coded to shown, and from
\* shown to delivered or reviewed, one shipment and one step at a time.
HandoverKept == Promise!Spec

\* The shipment.status column differs from the latest event only if the
\* request that added this event had loaded the shipment before an earlier
\* event was committed; the next request that is not overtaken repairs it.
Drifted(s) == timeline[s] # <<>> /\ status[s] # LatestStatus(s)

DriftIsRaced == \A s \in Shipments : Drifted(s) =>
  seen[timeline[s][Len(timeline[s])].by].events < Len(timeline[s]) - 1

\* Only the seller of a shipment and the partner it is assigned to ever add
\* events, each through its own operations, and each request adds one at most.
EventsByParties ==
  \A s \in Shipments : \A i \in 1..Len(timeline[s]) :
    LET r == timeline[s][i].by IN
      /\ call[r].ship = s
      /\ call[r].user = IF call[r].op = "update" THEN PartnerOf[s] ELSE SellerOf[s]
      /\ \A j \in 1..Len(timeline[s]) : timeline[s][j].by = r => j = i

\* Every event of the timeline was announced to the buyer on every channel the
\* shipment has before it was recorded: _notify runs ahead of the commit.
Told(s, r, kind, channel) == \E m \in outbox :
  m.ship = s /\ m.channel = channel /\ m.kind = kind /\ m.by = r

Announced(s, r, kind) ==
  /\ s \in HasEmail => Told(s, r, kind, "mail")
  /\ s \in HasPhone /\ kind = "out_for_delivery" => Told(s, r, kind, "sms")

NoSilentEvent == \A s \in Shipments : \A i \in 1..Len(timeline[s]) :
  Announced(s, timeline[s][i].by, timeline[s][i].status)

\* cancel() refuses closed shipments, so a cancellation that follows a closing
\* event was decided before that event was recorded, or on a status column
\* that the closing event, itself recorded by an overtaken request, had left
\* behind.
Overtaken(s, i) == seen[timeline[s][i].by].events < i - 1

LateCancelIsRaced ==
  \A s \in Shipments : \A i \in 2..Len(timeline[s]) :
    /\ call[timeline[s][i].by].op = "cancel"
    /\ timeline[s][i-1].status \in Closed
    => Overtaken(s, i) \/ Overtaken(s, i - 1)

\* The code in Redis is one the buyer was told, or is about to be told; after a
\* broker outage or a crash it may be one nobody was told (which locks the
\* shipment until it is dispatched again or the code expires).
StoredCodeIsSent ==
  \A s \in Shipments : otp[s] # None => \E q \in Req :
    /\ issued[q] = otp[s] /\ call[q].ship = s
    /\ \/ pc[q] \in {"publish", "failed"}
       \/ \E m \in outbox : m.by = q /\ m.code = otp[s] /\ m.ship = s

\* The requests that delivered a shipment, and those that drew a code for it.
Delivering(s) == {r \in Req : proved[r] /\ pc[r] = "ok" /\ call[r].ship = s}
Generating(s) == {q \in Req : issued[q] # None /\ call[q].ship = s}

\* GET and DEL of a code are two calls, and so are the look for a review and its
\* insertion: of the requests in flight at the same time each may pass with one
\* code, but no more; and each may leave the review of a shipment, but none that
\* comes later.
DeliveriesPerCode == \A s \in Shipments :
  Cardinality(Delivering(s)) <= MaxInFlight * Cardinality(Generating(s))

ReviewsPerShipment == \A s \in Shipments : Cardinality(reviews[s]) <= MaxInFlight

(***************************************************************************)
(* What the code promises, which holds while requests do not overlap.       *)
(***************************************************************************)
\* README: the shipment column is kept in lockstep with the timeline.
Lockstep == \A s \in Shipments : ~Drifted(s)

\* "One code, one delivery": no more deliveries succeed than codes were issued.
OneCodeOneDelivery == \A s \in Shipments :
  Cardinality(Delivering(s)) <= Cardinality(Generating(s))

\* clear_otp burns the code "once it has been accepted": what it removes is the
\* code that was compared.
BurnsAcceptedCode == [][\A r \in Req : pc[r] = "burn" /\ pc'[r] = "event" =>
  otp[call[r].ship] \in {None, call[r].code}]_vars

\* "One review per shipment".
OneReviewPerShipment == \A s \in Shipments : Cardinality(reviews[s]) <= 1

\* cancel(): a parcel already handed over cannot be un-delivered, nor an order
\* cancelled twice: the seller's cancellation follows an open status.
CancelOnlyOpen ==
  \A s \in Shipments : \A i \in 1..Len(timeline[s]) :
    call[timeline[s][i].by].op = "cancel" =>
      i > 1 /\ timeline[s][i-1].status \notin Closed

\* submit_review: a review is "for a delivered shipment".
ReviewIsOfDelivered == \A s \in Shipments : reviews[s] # {} =>
  \E i \in 1..Len(timeline[s]) : timeline[s][i].status = "delivered"

\* "placed" is the state before the partner acts, never transitioned back into.
PlacedIsFirst == \A s \in Shipments : \A i \in 1..Len(timeline[s]) :
  timeline[s][i].status = "placed" => i = 1

(***************************************************************************)
(* Liveness.                                                                *)
(***************************************************************************)
\* Every request that arrives is answered; a creation that is answered well has
\* given its shipment the first event, without which it could be neither
\* cancelled nor updated in part.
Answered == \A r \in Req : pc[r] # "new" ~>
  /\ pc[r] \in Ended
  /\ pc[r] = "ok" /\ call[r].op = "create" => timeline[call[r].ship] # <<>>
=============================================================================
