------------------------- MODULE ShipmentInvariants --------------------------
(***************************************************************************)
(* Inductive invariants behind the safety properties of a shipment: what    *)
(* has to be true of the requests in flight, of Redis and of the broker     *)
(* for the tables to stay right.                                            *)
(***************************************************************************)
EXTENDS ShipmentProperties

\* The calls of requests that arrived, and the status of those past _notify.
PhaseOK == \A r \in Req :
  /\ pc[r] # "new" => call[r] \in Calls
  /\ pc[r] \in {"publish", "commit"} => target[r] \in Statuses

Typed == TypeOK /\ PhaseOK

(***************************************************************************)
(* A hand-over is remembered once it happened, so whatever could make a     *)
(* shipment look delivered later - a loaded latest event, a status about to *)
(* be recorded, a mail in the broker - implies that it did happen.          *)
(***************************************************************************)
AfterCheck == {"burn", "event", "publish", "commit"} \cup Ended

\* Codes are generated in add(), presented codes compared before it; the code
\* in Redis was generated for the shipment it is stored under.
CodesInv ==
  /\ \A r \in Req : issued[r] # None => pc[r] \in {"publish", "commit"} \cup Ended
  /\ \A r \in Req : proved[r] => pc[r] \in AfterCheck /\ call[r].ship \in HandedOver
  /\ \A s \in Shipments : otp[s] # None =>
       \E q \in Req : issued[q] = otp[s] /\ call[q].ship = s

\* A request that will record "delivered" passed the check or inherits it.
DeliveryOK(r) ==
  /\ pc[r] = "refresh" => call[r].op = "create"
  /\ pc[r] = "burn" => proved[r]
  /\ pc[r] = "event" /\ call[r].status = "delivered" => proved[r]
  /\ seen[r].latest = "delivered" => pc[r] # "new" /\ call[r].ship \in HandedOver
  /\ pc[r] \in {"publish", "commit"} /\ target[r] = "delivered" =>
       call[r].ship \in HandedOver

DeliveriesInv == \A r \in Req : DeliveryOK(r)

\* So does a review link, and a request that is about to use one.
ReviewsInv ==
  /\ \A m \in outbox : m.kind = "delivered" => m.ship \in HandedOver
  /\ \A r \in Req : pc[r] = "review" => call[r].ship \in HandedOver
  /\ ReviewedIsHandedOver

HandoverInv == CodesInv /\ DeliveriesInv /\ ReviewsInv /\ DeliveredIsHandedOver

(***************************************************************************)
(* A request that loaded the shipment and was not overtaken by an event     *)
(* since still sees the status column as it is.                             *)
(***************************************************************************)
Loaded == {"rows", "loaded", "burn", "event", "publish", "commit"}

Accepted == {"burn", "event", "publish", "commit"}

FreshCopy(r) == seen[r].events = Len(timeline[call[r].ship])

SnapshotOK(r) ==
  /\ pc[r] \in Loaded => seen[r].events <= Len(timeline[call[r].ship])
  /\ pc[r] \in Loaded /\ FreshCopy(r) /\ seen[r].status # None =>
       seen[r].status = status[call[r].ship]
  /\ pc[r] \in Loaded /\ seen[r].status # None => status[call[r].ship] # None
  /\ pc[r] \in Accepted => seen[r].status # None

SnapshotInv == \A r \in Req : SnapshotOK(r)

\* Rows exist before events, and events belong to requests that succeeded.
EventsInv == \A s \in Shipments :
  /\ status[s] = None => timeline[s] = <<>>
  /\ \A r \in Req : pc[r] = "refresh" /\ call[r].ship = s => status[s] # None
  /\ \A i \in 1..Len(timeline[s]) : pc[timeline[s][i].by] = "ok"

DriftInv == SnapshotInv /\ EventsInv /\ DriftIsRaced

(***************************************************************************)
(* A request that may add an event is the right party's, and has not added  *)
(* one yet.                                                                 *)
(***************************************************************************)
PartyOf(r) == IF call[r].op = "update" THEN PartnerOf[call[r].ship]
              ELSE SellerOf[call[r].ship]

PartiesInv ==
  /\ \A r \in Req : pc[r] \in Accepted \cup {"refresh"} => call[r].user = PartyOf(r)
  /\ \A s \in Shipments : \A i \in 1..Len(timeline[s]) : pc[timeline[s][i].by] = "ok"
  /\ EventsByParties

(***************************************************************************)
(* A cancellation under way was decided on an open status.                  *)
(***************************************************************************)
OpenCancelInv == \A r \in Req :
  pc[r] \in Accepted /\ call[r].op = "cancel" => seen[r].status \notin Closed

(***************************************************************************)
(* What is about to be recorded has been announced, and the code a request  *)
(* generated is still to be sent, was sent, or its request failed.          *)
(***************************************************************************)
AnnouncedInv == \A r \in Req :
  pc[r] = "commit" => Announced(call[r].ship, r, target[r])

Sent(r) == \E m \in outbox : m.by = r /\ m.code = issued[r] /\ m.ship = call[r].ship

IssuedInv == \A r \in Req : issued[r] # None =>
  /\ pc[r] \in {"publish", "failed"} \/ Sent(r)
  /\ pc[r] = "publish" => target[r] = "out_for_delivery"

MailInv == AnnouncedInv /\ NoSilentEvent /\ IssuedInv

(***************************************************************************)
(* Requests in flight are few, and each of them may pass with one code:      *)
(* what was accepted before the code in Redis is bounded by the codes that   *)
(* are gone, what may still be accepted with it by the requests in flight.   *)
(***************************************************************************)
BusyInv ==
  /\ IsFiniteSet({r \in Req : pc[r] # "new"})
  /\ Cardinality(InFlight) <= MaxInFlight

\* The requests whose code for s was accepted, unless they broke off; and those
\* of them that are past DEL.
Accepting(s) == {r \in Req : proved[r] /\ pc[r] \in Accepted \cup {"ok"} /\ call[r].ship = s}

Settled(s) == {r \in Accepting(s) : pc[r] # "burn"}

CountOK(s) ==
  /\ otp[s] # None => Cardinality(Settled(s)) <= MaxInFlight * (Cardinality(Generating(s)) - 1)
  /\ otp[s] = None => Cardinality(Accepting(s)) <= MaxInFlight * Cardinality(Generating(s))

CountInv == \A s \in Shipments : CountOK(s)

\* Once a review exists nobody joins those who found none and still insert.
Reviewing(s) == {r \in Req : pc[r] = "review" /\ call[r].ship = s}

ReviewCountOK(s) ==
  /\ IsFiniteSet(reviews[s])
  /\ reviews[s] # {} => Cardinality(reviews[s] \cup Reviewing(s)) <= MaxInFlight

ReviewCountInv == \A s \in Shipments : ReviewCountOK(s)
=============================================================================
