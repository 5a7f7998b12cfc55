--------------------------- MODULE ShipmentProofs ---------------------------
(***************************************************************************)
(* Proofs about the shipment life cycle, for every set of requests,         *)
(* shipments, calls and codes: types, no delivery and no review without a   *)
(* hand-over, the promise of the delivery code that the API implements, and *)
(* the events: the status column and the timeline part only under a race,   *)
(* every event was added by the right party, none is recorded silently and  *)
(* no stored code is lost unnoticed.                                        *)
(***************************************************************************)
EXTENDS ShipmentInvariants, FiniteSetTheorems, TLAPS

(***************************************************************************)
(* Types.  TypeOK alone is not inductive: a request past its arrival has a  *)
(* call, and one past _notify has a status to record.                       *)
(***************************************************************************)
\* What a call carries: its shipment, its status and its code are of their type.
LEMMA CallFields ==
  ASSUME NEW c \in Calls
  PROVE  /\ c.ship \in Shipments
         /\ c.op \in Operations
         /\ c.status \in Statuses \cup {None}
         /\ c.code \in Codes \cup {None}
         /\ c.location \in BOOLEAN
  BY CallAssumption DEF CallType

LEMMA InitTyped == Init => Typed
  BY DEF Init, Typed, TypeOK, PhaseOK, Phases, Ended, Message, Snapshot

\* A non-empty timeline ends with an event.
LEMMA LastEvent ==
  ASSUME NEW t \in Seq(Event), t # <<>>
  PROVE  Len(t) \in 1..Len(t) /\ t[Len(t)] \in Event
  OBVIOUS

LEMMA LatestStatusType ==
  ASSUME Typed, NEW s \in Shipments
  PROVE  LatestStatus(s) \in Statuses \cup {None}
  <1>1. timeline[s] \in Seq(Event)
    BY DEF Typed, TypeOK
  <1>2. QED
    BY <1>1, LastEvent DEF LatestStatus, Event

\* The status a request is about to record is one of the five.
LEMMA EventStatusType ==
  ASSUME Typed, NEW r \in Req, pc[r] = "event",
         NeedsLatest(call[r]) => seen[r].latest # None
  PROVE  EventStatus(r) \in Statuses
  BY CallFields DEF Typed, TypeOK, PhaseOK, NeedsLatest, EventStatus, Snapshot

\* The messages of a request that publishes are well formed.
LEMMA MessagesType ==
  ASSUME Typed, NEW r \in Req, pc[r] = "publish"
  PROVE  /\ Texts(r) \in SUBSET Message
         /\ Mails(r) \in SUBSET Message
  BY CallFields DEF Typed, TypeOK, PhaseOK, Texts, Mails, MessageOf, Message

LEMMA StepTyped == Typed /\ [Next]_vars => Typed'
<1> SUFFICES ASSUME Typed, [Next]_vars PROVE Typed'
  OBVIOUS
<1> USE DEF Typed, TypeOK, PhaseOK, Goto, database
<1>1. ASSUME NEW r \in Req, NEW c \in Calls, LoadRows(r, c) PROVE Typed'
  <2>1. c.ship \in Shipments
    BY CallFields
  <2>2. seen' \in [Req -> Snapshot]
    BY <1>1, <2>1 DEF LoadRows, RowOf, Snapshot
  <2>3. /\ call' = [call EXCEPT ![r] = c] /\ pc' = [pc EXCEPT ![r] = "rows"]
        /\ UNCHANGED <<status, timeline, reviews, otp, outbox, target, issued, proved>>
    BY <1>1 DEF LoadRows, Arrive
  <2>4. QED
    BY <2>2, <2>3 DEF Phases, Ended
<1>2. ASSUME NEW r \in Req, NEW c \in Calls, InsertShipment(r, c) PROVE Typed'
  BY <1>2, CallFields DEF InsertShipment, Arrive, Phases, Ended, Statuses
<1>3. ASSUME NEW r \in Req, NEW c \in Calls, NoPartnerAvailable(r, c) PROVE Typed'
  BY <1>3, CallFields DEF NoPartnerAvailable, Arrive, Phases, Ended
<1>4. ASSUME NEW r \in Req, NEW c \in Calls, ReadForReview(r, c) PROVE Typed'
  BY <1>4, CallFields DEF ReadForReview, Arrive, Phases, Ended
<1>5. ASSUME NEW r \in Req, LoadTimeline(r) PROVE Typed'
  <2>1. LatestStatus(call[r].ship) \in Statuses \cup {None}
    BY <1>5, CallFields, LatestStatusType DEF LoadTimeline
  <2>2. seen' \in [Req -> Snapshot]
    <3>1. [status |-> seen[r].status, events |-> seen[r].events,
           latest |-> LatestStatus(call[r].ship)] \in Snapshot
      BY <2>1 DEF Snapshot
    <3>2. QED
      BY <1>5, <3>1 DEF LoadTimeline
  <2>3. /\ pc[r] = "rows" /\ pc' = [pc EXCEPT ![r] = "loaded"]
        /\ UNCHANGED <<status, timeline, reviews, otp, outbox, call, target, issued, proved>>
    BY <1>5 DEF LoadTimeline
  <2>4. QED
    BY <2>2, <2>3 DEF Phases, Ended
<1>6. ASSUME NEW r \in Req, RefreshShipment(r) PROVE Typed'
  <2>1. call[r].ship \in Shipments
    BY <1>6, CallFields DEF RefreshShipment
  <2>2. seen' \in [Req -> Snapshot]
    BY <1>6, <2>1 DEF RefreshShipment, RowOf, Snapshot
  <2>3. /\ pc[r] = "refresh" /\ pc' = [pc EXCEPT ![r] = "event"]
        /\ UNCHANGED <<status, timeline, reviews, otp, outbox, call, target, issued, proved>>
    BY <1>6 DEF RefreshShipment
  <2>4. QED
    BY <2>2, <2>3 DEF Phases, Ended
<1>7. ASSUME NEW r \in Req, Refuse(r) \/ AcceptCancel(r) \/ AcceptUpdate(r) \/ UpdateRowOnly(r)
      PROVE Typed'
  BY <1>7 DEF Refuse, AcceptCancel, AcceptUpdate, UpdateRowOnly, Phases, Ended
<1>8. ASSUME NEW r \in Req, VerifyCode(r) PROVE Typed'
  <2>1. CodeAccepted(r) \in BOOLEAN
    BY DEF CodeAccepted
  <2>2. QED
    BY <1>8, <2>1 DEF VerifyCode, Phases, Ended
<1>9. ASSUME NEW r \in Req, BurnCode(r) PROVE Typed'
  BY <1>9, CallFields DEF BurnCode, Phases, Ended
<1>10. ASSUME NEW r \in Req, NoLatestEvent(r) PROVE Typed'
  BY <1>10 DEF NoLatestEvent, Phases, Ended
<1>11. ASSUME NEW r \in Req, ComposeEvent(r) PROVE Typed'
  BY <1>11, EventStatusType DEF ComposeEvent, Phases, Ended
<1>12. ASSUME NEW r \in Req, ComposeDispatch(r) PROVE Typed'
  BY <1>12, CallFields DEF ComposeDispatch, Phases, Ended, Statuses
<1>13. ASSUME NEW r \in Req, Publish(r) PROVE Typed'
  BY <1>13, MessagesType DEF Publish, Phases, Ended
<1>14. ASSUME NEW r \in Req, PublishFails(r) PROVE Typed'
  BY <1>14, MessagesType DEF PublishFails, Phases, Ended
<1>15. ASSUME NEW r \in Req, CommitEvent(r) PROVE Typed'
  <2>1. StatusColumn(r) \in Statuses \cup {None}
    BY <1>15, CallFields DEF CommitEvent, StatusColumn
  <2>2. [status |-> target[r], by |-> r] \in Event
    BY <1>15 DEF CommitEvent, Event
  <2>3. QED
    BY <1>15, <2>1, <2>2, CallFields DEF CommitEvent, Phases, Ended
<1>16. ASSUME NEW r \in Req, CommitReview(r) PROVE Typed'
  BY <1>16, CallFields DEF CommitReview, Phases, Ended
<1>17. ASSUME NEW s \in Shipments, ExpireCode(s) PROVE Typed'
  BY <1>17 DEF ExpireCode
<1>18. CASE Crash
  BY <1>18 DEF Crash, InFlight, Phases, Ended
<1>19. CASE UNCHANGED vars
  BY <1>19 DEF vars
<1>20. QED
  BY <1>1, <1>2, <1>3, <1>4, <1>5, <1>6, <1>7, <1>8, <1>9, <1>10, <1>11, <1>12,
     <1>13, <1>14, <1>15, <1>16, <1>17, <1>18, <1>19 DEF Next, Receive, Serve

\* Every variable keeps its type whatever the requests do.
THEOREM TypeCorrect == Spec => []TypeOK
<1>1. Typed => TypeOK
  BY DEF Typed
<1>2. QED
  BY InitTyped, StepTyped, <1>1, PTL DEF Spec

-----------------------------------------------------------------------------
(* No delivery and no review without a hand-over.                          *)

(***************************************************************************)
(* What a step leaves alone: the call of a request that arrived, a proof    *)
(* that was given, a code that was generated.                               *)
(***************************************************************************)
LEMMA CallIsFixed ==
  ASSUME Typed, [Next]_vars, NEW r \in Req, pc[r] # "new"
  PROVE  call'[r] = call[r] /\ pc'[r] # "new"
<1> USE DEF Typed, TypeOK, Goto, Ended
<1>1. ASSUME NEW q \in Req, Receive(q)
      PROVE  call'[r] = call[r] /\ pc'[r] # "new"
  BY <1>1 DEF Receive, Arrive, LoadRows, InsertShipment, NoPartnerAvailable, ReadForReview
<1>2. ASSUME NEW q \in Req, LoadTimeline(q) \/ RefreshShipment(q)
      PROVE  call'[r] = call[r] /\ pc'[r] # "new"
  BY <1>2 DEF LoadTimeline, RefreshShipment
<1>3. ASSUME NEW q \in Req, Refuse(q) \/ AcceptCancel(q) \/ AcceptUpdate(q) \/ UpdateRowOnly(q)
      PROVE  call'[r] = call[r] /\ pc'[r] # "new"
  BY <1>3 DEF Refuse, AcceptCancel, AcceptUpdate, UpdateRowOnly
<1>4. ASSUME NEW q \in Req, VerifyCode(q) \/ BurnCode(q)
      PROVE  call'[r] = call[r] /\ pc'[r] # "new"
  BY <1>4 DEF VerifyCode, BurnCode
<1>5. ASSUME NEW q \in Req, NoLatestEvent(q) \/ ComposeEvent(q) \/ ComposeDispatch(q)
      PROVE  call'[r] = call[r] /\ pc'[r] # "new"
  BY <1>5 DEF NoLatestEvent, ComposeEvent, ComposeDispatch
<1>6. ASSUME NEW q \in Req, Publish(q) \/ PublishFails(q) \/ CommitEvent(q) \/ CommitReview(q)
      PROVE  call'[r] = call[r] /\ pc'[r] # "new"
  BY <1>6 DEF Publish, PublishFails, CommitEvent, CommitReview
<1>7. CASE Crash
  BY <1>7 DEF Crash, InFlight
<1>8. CASE UNCHANGED vars \/ \E s \in Shipments : ExpireCode(s)
  BY <1>8 DEF vars, ExpireCode
<1>9. QED
  BY <1>1, <1>2, <1>3, <1>4, <1>5, <1>6, <1>7, <1>8 DEF Next, Receive, Serve

LEMMA ProofIsKept ==
  ASSUME Typed, [Next]_vars, NEW r \in Req, pc[r] \in AfterCheck, proved[r]
  PROVE  proved'[r] /\ pc'[r] \in AfterCheck
<1> USE DEF Typed, TypeOK, Goto, AfterCheck, Ended
<1>1. ASSUME NEW q \in Req, Receive(q)
      PROVE  proved'[r] /\ pc'[r] \in AfterCheck
  BY <1>1 DEF Receive, Arrive, LoadRows, InsertShipment, NoPartnerAvailable, ReadForReview
<1>2. ASSUME NEW q \in Req, LoadTimeline(q) \/ RefreshShipment(q)
      PROVE  proved'[r] /\ pc'[r] \in AfterCheck
  BY <1>2 DEF LoadTimeline, RefreshShipment
<1>3. ASSUME NEW q \in Req, Refuse(q) \/ AcceptCancel(q) \/ AcceptUpdate(q) \/ UpdateRowOnly(q)
      PROVE  proved'[r] /\ pc'[r] \in AfterCheck
  BY <1>3 DEF Refuse, AcceptCancel, AcceptUpdate, UpdateRowOnly
<1>4. ASSUME NEW q \in Req, VerifyCode(q) \/ BurnCode(q)
      PROVE  proved'[r] /\ pc'[r] \in AfterCheck
  BY <1>4 DEF VerifyCode, BurnCode
<1>5. ASSUME NEW q \in Req, NoLatestEvent(q) \/ ComposeEvent(q) \/ ComposeDispatch(q)
      PROVE  proved'[r] /\ pc'[r] \in AfterCheck
  BY <1>5 DEF NoLatestEvent, ComposeEvent, ComposeDispatch
<1>6. ASSUME NEW q \in Req, Publish(q) \/ PublishFails(q) \/ CommitEvent(q) \/ CommitReview(q)
      PROVE  proved'[r] /\ pc'[r] \in AfterCheck
  BY <1>6 DEF Publish, PublishFails, CommitEvent, CommitReview
<1>7. CASE Crash
  BY <1>7 DEF Crash, InFlight
<1>8. CASE UNCHANGED vars \/ \E s \in Shipments : ExpireCode(s)
  BY <1>8 DEF vars, ExpireCode
<1>9. QED
  BY <1>1, <1>2, <1>3, <1>4, <1>5, <1>6, <1>7, <1>8 DEF Next, Receive, Serve

LEMMA CodeIsKept ==
  ASSUME Typed, [Next]_vars, NEW r \in Req, pc[r] \in {"publish", "commit"} \cup Ended
  PROVE  issued'[r] = issued[r] /\ pc'[r] \in {"publish", "commit"} \cup Ended
<1> USE DEF Typed, TypeOK, Goto, Ended
<1>1. ASSUME NEW q \in Req, Receive(q)
      PROVE  issued'[r] = issued[r] /\ pc'[r] \in {"publish", "commit"} \cup Ended
  BY <1>1 DEF Receive, Arrive, LoadRows, InsertShipment, NoPartnerAvailable, ReadForReview
<1>2. ASSUME NEW q \in Req, LoadTimeline(q) \/ RefreshShipment(q)
      PROVE  issued'[r] = issued[r] /\ pc'[r] \in {"publish", "commit"} \cup Ended
  BY <1>2 DEF LoadTimeline, RefreshShipment
<1>3. ASSUME NEW q \in Req, Refuse(q) \/ AcceptCancel(q) \/ AcceptUpdate(q) \/ UpdateRowOnly(q)
      PROVE  issued'[r] = issued[r] /\ pc'[r] \in {"publish", "commit"} \cup Ended
  BY <1>3 DEF Refuse, AcceptCancel, AcceptUpdate, UpdateRowOnly
<1>4. ASSUME NEW q \in Req, VerifyCode(q) \/ BurnCode(q)
      PROVE  issued'[r] = issued[r] /\ pc'[r] \in {"publish", "commit"} \cup Ended
  BY <1>4 DEF VerifyCode, BurnCode
<1>5. ASSUME NEW q \in Req, NoLatestEvent(q) \/ ComposeEvent(q) \/ ComposeDispatch(q)
      PROVE  issued'[r] = issued[r] /\ pc'[r] \in {"publish", "commit"} \cup Ended
  BY <1>5 DEF NoLatestEvent, ComposeEvent, ComposeDispatch
<1>6. ASSUME NEW q \in Req, Publish(q) \/ PublishFails(q) \/ CommitEvent(q) \/ CommitReview(q)
      PROVE  issued'[r] = issued[r] /\ pc'[r] \in {"publish", "commit"} \cup Ended
  BY <1>6 DEF Publish, PublishFails, CommitEvent, CommitReview
<1>7. CASE Crash
  BY <1>7 DEF Crash, InFlight
<1>8. CASE UNCHANGED vars \/ \E s \in Shipments : ExpireCode(s)
  BY <1>8 DEF vars, ExpireCode
<1>9. QED
  BY <1>1, <1>2, <1>3, <1>4, <1>5, <1>6, <1>7, <1>8 DEF Next, Receive, Serve

\* Once handed over, a shipment stays handed over.
LEMMA HandedOverIsKept ==
  ASSUME Typed, CodesInv, [Next]_vars, NEW s \in Shipments, s \in HandedOver
  PROVE  s \in HandedOver'
<1>1. PICK r \in Req, q \in Req :
        /\ proved[r] /\ call[r].ship = s
        /\ issued[q] # None /\ call[q].ship = s /\ issued[q] = call[r].code
  BY DEF HandedOver
<1>2. pc[r] \in AfterCheck /\ pc[r] # "new"
  BY <1>1 DEF CodesInv, AfterCheck, Ended
<1>3. pc[q] \in {"publish", "commit"} \cup Ended /\ pc[q] # "new"
  BY <1>1 DEF CodesInv, Ended
<1>4. proved'[r] /\ call'[r] = call[r]
  BY <1>1, <1>2, ProofIsKept, CallIsFixed
<1>5. issued'[q] = issued[q] /\ call'[q] = call[q]
  BY <1>1, <1>3, CodeIsKept, CallIsFixed
<1>6. QED
  BY <1>1, <1>4, <1>5 DEF HandedOver

(***************************************************************************)
(* Who makes a proof or a code: VerifyCode and ComposeDispatch only.        *)
(***************************************************************************)
LEMMA OnlyVerifyProves ==
  ASSUME Typed, [Next]_vars, NEW r \in Req, proved'[r], ~proved[r]
  PROVE  VerifyCode(r) /\ CodeAccepted(r)
<1> USE DEF Typed, TypeOK
<1>1. ASSUME NEW q \in Req, Receive(q) \/ Serve(q) \/ PublishFails(q), ~VerifyCode(q)
      PROVE  FALSE
  BY <1>1 DEF Receive, Serve, LoadRows, LoadTimeline, InsertShipment, NoPartnerAvailable,
     RefreshShipment, Refuse, AcceptCancel, AcceptUpdate, UpdateRowOnly, BurnCode,
     NoLatestEvent, ComposeEvent, ComposeDispatch, Publish, PublishFails, CommitEvent,
     ReadForReview, CommitReview
<1>2. ASSUME NEW q \in Req, VerifyCode(q)
      PROVE  VerifyCode(r) /\ CodeAccepted(r)
  <2>1. q = r
    BY <1>2 DEF VerifyCode
  <2>2. proved'[r] = CodeAccepted(r)
    BY <1>2, <2>1 DEF VerifyCode
  <2>3. QED
    BY <1>2, <2>1, <2>2
<1>3. CASE Crash \/ UNCHANGED vars \/ \E s \in Shipments : ExpireCode(s)
  BY <1>3 DEF Crash, vars, ExpireCode
<1>4. QED
  BY <1>1, <1>2, <1>3 DEF Next

LEMMA OnlyDispatchStores ==
  ASSUME Typed, [Next]_vars, NEW s \in Shipments, otp'[s] # otp[s], otp'[s] # None
  PROVE  \E r \in Req : ComposeDispatch(r) /\ call[r].ship = s /\ issued'[r] = otp'[s]
<1> USE DEF Typed, TypeOK
<1>1. ASSUME NEW q \in Req, Receive(q) \/ Serve(q) \/ PublishFails(q), ~ComposeDispatch(q)
      PROVE  FALSE
  BY <1>1 DEF Receive, Serve, LoadRows, LoadTimeline, InsertShipment, NoPartnerAvailable,
     RefreshShipment, Refuse, AcceptCancel, AcceptUpdate, UpdateRowOnly, BurnCode,
     NoLatestEvent, ComposeEvent, VerifyCode, Publish, PublishFails, CommitEvent,
     ReadForReview, CommitReview
<1>2. ASSUME NEW q \in Req, ComposeDispatch(q)
      PROVE  call[q].ship = s /\ issued'[q] = otp'[s]
  BY <1>2 DEF ComposeDispatch
<1>3. CASE Crash \/ UNCHANGED vars \/ \E t \in Shipments : ExpireCode(t)
  BY <1>3 DEF Crash, vars, ExpireCode
<1>4. QED
  BY <1>1, <1>2, <1>3 DEF Next

LEMMA InitHandover == Init => HandoverInv
<1> SUFFICES ASSUME Init PROVE HandoverInv
  OBVIOUS
<1>1. CodesInv
  BY DEF Init, CodesInv
<1>2. DeliveriesInv
  BY NoneAssumption DEF Init, DeliveriesInv, DeliveryOK, Statuses
<1>3. ReviewsInv
  BY DEF Init, ReviewsInv, ReviewedIsHandedOver
<1>4. DeliveredIsHandedOver
  BY DEF Init, DeliveredIsHandedOver
<1>5. QED
  BY <1>1, <1>2, <1>3, <1>4 DEF HandoverInv

(***************************************************************************)
(* The step, one conjunct of the invariant at a time.                       *)
(***************************************************************************)
LEMMA StepCodes == Typed /\ HandoverInv /\ [Next]_vars => CodesInv'
<1> SUFFICES ASSUME Typed, CodesInv, [Next]_vars PROVE CodesInv'
  BY DEF HandoverInv
<1>1. ASSUME NEW r \in Req, issued'[r] # None
      PROVE  pc'[r] \in {"publish", "commit"} \cup Ended
  <2> USE DEF Typed, TypeOK
  <2>1. CASE issued[r] # None
    BY <2>1, CodeIsKept DEF CodesInv
  <2>2. CASE issued[r] = None
    <3>1. ASSUME NEW q \in Req, Receive(q) \/ Serve(q) \/ PublishFails(q), ~ComposeDispatch(q)
          PROVE  FALSE
      BY <1>1, <2>2, <3>1 DEF Receive, Serve, LoadRows, LoadTimeline, InsertShipment,
         NoPartnerAvailable, RefreshShipment, Refuse, AcceptCancel, AcceptUpdate,
         UpdateRowOnly, BurnCode, NoLatestEvent, ComposeEvent, VerifyCode, Publish,
         PublishFails, CommitEvent, ReadForReview, CommitReview
    <3>2. ASSUME NEW q \in Req, ComposeDispatch(q) PROVE pc'[r] = "publish"
      BY <1>1, <2>2, <3>2 DEF ComposeDispatch, Goto
    <3>3. CASE Crash \/ UNCHANGED vars \/ \E t \in Shipments : ExpireCode(t)
      BY <1>1, <2>2, <3>3 DEF Crash, vars, ExpireCode
    <3>4. QED
      BY <3>1, <3>2, <3>3 DEF Next
  <2>3. QED
    BY <2>1, <2>2
<1>2. ASSUME NEW r \in Req, proved'[r]
      PROVE  pc'[r] \in AfterCheck /\ call'[r].ship \in HandedOver'
  <2>1. CASE proved[r]
    <3>1. pc[r] \in AfterCheck /\ call[r].ship \in HandedOver /\ pc[r] # "new"
      BY <2>1 DEF CodesInv, AfterCheck, Ended
    <3>2. call[r].ship \in Shipments
      BY <3>1 DEF HandedOver
    <3>3. QED
      BY <2>1, <3>1, <3>2, ProofIsKept, CallIsFixed, HandedOverIsKept
  <2>2. CASE ~proved[r]
    <3>1. VerifyCode(r) /\ CodeAccepted(r)
      BY <1>2, <2>2, OnlyVerifyProves
    <3>2. pc[r] # "new" /\ call[r].ship \in Shipments
      BY <3>1, CallFields DEF VerifyCode, Typed, PhaseOK
    <3>3. PICK q \in Req : issued[q] = otp[call[r].ship] /\ call[q].ship = call[r].ship
      BY <3>1, <3>2 DEF CodesInv, CodeAccepted
    <3>4. issued[q] # None /\ issued[q] = call[r].code
      BY <3>1, <3>3 DEF CodeAccepted
    <3>5. pc[q] # "new"
      BY <3>4 DEF CodesInv, Ended
    <3>6. issued' = issued /\ pc'[r] = "burn"
      BY <3>1 DEF VerifyCode, Goto, Typed, TypeOK
    <3>7. call'[q] = call[q] /\ call'[r] = call[r]
      BY <3>2, <3>5, CallIsFixed
    <3>8. QED
      BY <1>2, <3>2, <3>3, <3>4, <3>6, <3>7 DEF HandedOver, AfterCheck
  <2>3. QED
    BY <2>1, <2>2
<1>3. ASSUME NEW s \in Shipments, otp'[s] # None
      PROVE  \E q \in Req : issued'[q] = otp'[s] /\ call'[q].ship = s
  <2>1. CASE otp'[s] = otp[s]
    <3>1. PICK q \in Req : issued[q] = otp[s] /\ call[q].ship = s
      BY <1>3, <2>1 DEF CodesInv
    <3>2. pc[q] \in {"publish", "commit"} \cup Ended
      BY <1>3, <2>1, <3>1 DEF CodesInv
    <3>3. issued'[q] = issued[q] /\ call'[q] = call[q]
      BY <3>2, CodeIsKept, CallIsFixed DEF Ended
    <3>4. QED
      BY <2>1, <3>1, <3>3
  <2>2. CASE otp'[s] # otp[s]
    <3>1. PICK r \in Req : ComposeDispatch(r) /\ call[r].ship = s /\ issued'[r] = otp'[s]
      BY <1>3, <2>2, OnlyDispatchStores
    <3>2. call' = call
      BY <3>1 DEF ComposeDispatch
    <3>3. QED
      BY <3>1, <3>2
  <2>3. QED
    BY <2>1, <2>2
<1>4. QED
  BY <1>1, <1>2, <1>3 DEF CodesInv

LEMMA StepDeliveries == Typed /\ HandoverInv /\ [Next]_vars => DeliveriesInv'
<1> SUFFICES ASSUME Typed, HandoverInv, [Next]_vars, NEW r \in Req
             PROVE  DeliveryOK(r)'
  BY DEF DeliveriesInv
<1>1. HandedOver \subseteq HandedOver'
  <2>1. CodesInv
    BY DEF HandoverInv
  <2>2. QED
    BY <2>1, HandedOverIsKept DEF HandedOver
<1>2. DeliveryOK(r)
  BY DEF HandoverInv, DeliveriesInv
<1>3. \A q \in Req : proved[q] => call[q].ship \in HandedOver
  BY DEF HandoverInv, CodesInv
<1> USE DEF Typed, TypeOK, PhaseOK, DeliveryOK, Goto
<1>4. ASSUME NEW q \in Req, NEW c \in Calls,
             LoadRows(q, c) \/ InsertShipment(q, c) \/ NoPartnerAvailable(q, c) \/ ReadForReview(q, c)
      PROVE  DeliveryOK(r)'
  <2>1. pc[q] = "new" /\ seen' = [seen EXCEPT ![q] = seen'[q]] /\ target' = target /\ proved' = proved
    BY <1>4 DEF LoadRows, InsertShipment, NoPartnerAvailable, ReadForReview, Arrive
  <2>2. call' = [call EXCEPT ![q] = c]
    BY <1>4 DEF LoadRows, InsertShipment, NoPartnerAvailable, ReadForReview, Arrive
  <2>3. pc' = [pc EXCEPT ![q] = pc'[q]] /\ pc'[q] \in {"rows", "refresh", "refused", "review"}
    BY <1>4 DEF LoadRows, InsertShipment, NoPartnerAvailable, ReadForReview
  <2>4. pc'[q] = "refresh" => c.op = "create"
    BY <1>4 DEF LoadRows, InsertShipment, NoPartnerAvailable, ReadForReview
  <2>5. seen'[q].latest = seen[q].latest \/ seen'[q].latest = None
    BY <1>4 DEF LoadRows, InsertShipment, NoPartnerAvailable, ReadForReview, RowOf
  <2>6. CASE r # q
    BY <1>1, <1>2, <2>1, <2>2, <2>3, <2>6
  <2>7. CASE r = q
    <3>1. seen'[r].latest # "delivered"
      BY <1>2, <2>1, <2>5, <2>7, NoneAssumption DEF Statuses
    <3>2. QED
      BY <2>1, <2>2, <2>3, <2>4, <2>7, <3>1
  <2>8. QED
    BY <2>6, <2>7
<1>5. ASSUME NEW q \in Req, LoadTimeline(q) PROVE DeliveryOK(r)'
  <2>1. ASSUME LatestStatus(call[q].ship) = "delivered" PROVE call[q].ship \in HandedOver
    <3>1. call[q].ship \in Shipments
      BY <1>5, CallFields DEF LoadTimeline
    <3>2. timeline[call[q].ship] # <<>>
      BY <2>1, NoneAssumption DEF LatestStatus, Statuses
    <3>3. Len(timeline[call[q].ship]) \in 1..Len(timeline[call[q].ship])
      BY <3>1, <3>2, LastEvent
    <3>4. QED
      BY <2>1, <3>1, <3>2, <3>3 DEF LatestStatus, HandoverInv, DeliveredIsHandedOver
  <2>2. seen'[q].latest = LatestStatus(call[q].ship)
    BY <1>5 DEF LoadTimeline
  <2>3. /\ pc[q] = "rows" /\ pc' = [pc EXCEPT ![q] = "loaded"]
        /\ seen' = [seen EXCEPT ![q] = seen'[q]]
        /\ call' = call /\ target' = target /\ proved' = proved
    BY <1>5 DEF LoadTimeline
  <2>4. QED
    BY <1>1, <1>2, <2>1, <2>2, <2>3
<1>6. ASSUME NEW q \in Req, RefreshShipment(q) PROVE DeliveryOK(r)'
  BY <1>1, <1>2, <1>6, CallAssumption, NoneAssumption DEF RefreshShipment, RowOf, Statuses
<1>7. ASSUME NEW q \in Req, Refuse(q) \/ UpdateRowOnly(q) \/ AcceptUpdate(q) PROVE DeliveryOK(r)'
  BY <1>1, <1>2, <1>7 DEF Refuse, UpdateRowOnly, AcceptUpdate, NeedsCode, Ended
<1>8. ASSUME NEW q \in Req, AcceptCancel(q) PROVE DeliveryOK(r)'
  BY <1>1, <1>2, <1>8, CallAssumption DEF AcceptCancel
<1>9. ASSUME NEW q \in Req, VerifyCode(q) PROVE DeliveryOK(r)'
  BY <1>1, <1>2, <1>9 DEF VerifyCode
<1>10. ASSUME NEW q \in Req, BurnCode(q) PROVE DeliveryOK(r)'
  BY <1>1, <1>2, <1>10 DEF BurnCode
<1>11. ASSUME NEW q \in Req, ComposeEvent(q) PROVE DeliveryOK(r)'
  BY <1>1, <1>2, <1>3, <1>11 DEF ComposeEvent, EventStatus
<1>12. ASSUME NEW q \in Req, ComposeDispatch(q) \/ NoLatestEvent(q) PROVE DeliveryOK(r)'
  BY <1>1, <1>2, <1>12 DEF ComposeDispatch, NoLatestEvent
<1>13. ASSUME NEW q \in Req, Publish(q) \/ PublishFails(q) \/ CommitEvent(q) \/ CommitReview(q)
       PROVE DeliveryOK(r)'
  BY <1>1, <1>2, <1>13 DEF Publish, PublishFails, CommitEvent, CommitReview
<1>14. CASE Crash \/ UNCHANGED vars \/ \E t \in Shipments : ExpireCode(t)
  BY <1>1, <1>2, <1>14 DEF Crash, InFlight, Ended, vars, ExpireCode
<1>15. QED
  BY <1>4, <1>5, <1>6, <1>7, <1>8, <1>9, <1>10, <1>11, <1>12, <1>13, <1>14
     DEF Next, Receive, Serve

LEMMA StepReviews == Typed /\ HandoverInv /\ [Next]_vars => ReviewsInv'
<1> SUFFICES ASSUME Typed, HandoverInv, [Next]_vars PROVE ReviewsInv'
  OBVIOUS
<1>1. HandedOver \subseteq HandedOver'
  <2>1. CodesInv
    BY DEF HandoverInv
  <2>2. QED
    BY <2>1, HandedOverIsKept DEF HandedOver
<1>2. ReviewsInv /\ DeliveriesInv
  BY DEF HandoverInv
<1> USE DEF Typed, TypeOK, Goto
<1>3. ASSUME NEW m \in outbox', m.kind = "delivered" PROVE m.ship \in HandedOver'
  <2>1. CASE m \in outbox
    BY <1>1, <1>2, <1>3, <2>1 DEF ReviewsInv
  <2>2. CASE m \notin outbox
    <3>1. ASSUME NEW q \in Req, Receive(q) \/ Serve(q), ~Publish(q) PROVE FALSE
      BY <2>2, <3>1 DEF Receive, Serve, LoadRows, LoadTimeline, InsertShipment,
         NoPartnerAvailable, RefreshShipment, Refuse, AcceptCancel, AcceptUpdate,
         UpdateRowOnly, BurnCode, NoLatestEvent, ComposeEvent, ComposeDispatch,
         VerifyCode, CommitEvent, ReadForReview, CommitReview
    <3>2. ASSUME NEW q \in Req, Publish(q) \/ PublishFails(q) PROVE m.ship \in HandedOver'
      <4>1. pc[q] = "publish" /\ m \in Texts(q) \cup Mails(q)
        BY <2>2, <3>2 DEF Publish, PublishFails
      <4>2. m.ship = call[q].ship /\ m.kind = target[q]
        BY <4>1 DEF Texts, Mails, MessageOf
      <4>3. QED
        BY <1>1, <1>2, <1>3, <4>1, <4>2 DEF DeliveriesInv, DeliveryOK
    <3>3. CASE Crash \/ UNCHANGED vars \/ \E t \in Shipments : ExpireCode(t)
      BY <2>2, <3>3 DEF Crash, vars, ExpireCode
    <3>4. QED
      BY <3>1, <3>2, <3>3 DEF Next
  <2>3. QED
    BY <2>1, <2>2
<1>4. ASSUME NEW r \in Req, pc'[r] = "review" PROVE call'[r].ship \in HandedOver'
  <2>1. CASE pc[r] = "review"
    BY <1>1, <1>2, <2>1, CallIsFixed DEF ReviewsInv
  <2>2. CASE pc[r] # "review"
    <3>1. ASSUME NEW q \in Req, NEW c \in Calls, ReadForReview(q, c)
          PROVE  call'[r].ship \in HandedOver'
      <4>1. q = r /\ call'[r] = c /\ HoldsReviewLink(c.ship)
        BY <1>4, <2>2, <3>1 DEF ReadForReview, Arrive
      <4>2. QED
        BY <1>1, <1>2, <4>1 DEF HoldsReviewLink, ReviewsInv
    <3>2. ASSUME NEW q \in Req, NEW c \in Calls,
                 LoadRows(q, c) \/ InsertShipment(q, c) \/ NoPartnerAvailable(q, c)
          PROVE  FALSE
      BY <1>4, <2>2, <3>2 DEF LoadRows, InsertShipment, NoPartnerAvailable, Arrive
    <3>3. ASSUME NEW q \in Req, Serve(q) \/ PublishFails(q) PROVE FALSE
      BY <1>4, <2>2, <3>3 DEF Serve, LoadTimeline, RefreshShipment, Refuse, AcceptCancel,
         AcceptUpdate, UpdateRowOnly, VerifyCode, BurnCode, NoLatestEvent, ComposeEvent,
         ComposeDispatch, Publish, PublishFails, CommitEvent, CommitReview
    <3>4. CASE Crash \/ UNCHANGED vars \/ \E t \in Shipments : ExpireCode(t)
      BY <1>4, <2>2, <3>4 DEF Crash, vars, ExpireCode
    <3>5. QED
      BY <3>1, <3>2, <3>3, <3>4 DEF Next, Receive
  <2>3. QED
    BY <2>1, <2>2
<1>5. ReviewedIsHandedOver'
  <2> SUFFICES ASSUME NEW s \in Shipments, reviews'[s] # {} PROVE s \in HandedOver'
    BY DEF ReviewedIsHandedOver
  <2>1. CASE reviews[s] # {}
    BY <1>1, <1>2, <2>1 DEF ReviewsInv, ReviewedIsHandedOver
  <2>2. CASE reviews[s] = {}
    <3>1. ASSUME NEW q \in Req, CommitReview(q) PROVE s \in HandedOver'
      <4>1. call[q].ship = s /\ pc[q] = "review"
        BY <2>2, <3>1 DEF CommitReview
      <4>2. QED
        BY <1>1, <1>2, <4>1 DEF ReviewsInv
    <3>2. ASSUME NEW q \in Req, Receive(q) \/ Serve(q) \/ PublishFails(q), ~CommitReview(q)
          PROVE FALSE
      BY <2>2, <3>2 DEF Receive, Serve, LoadRows, LoadTimeline, InsertShipment,
         NoPartnerAvailable, RefreshShipment, Refuse, AcceptCancel, AcceptUpdate,
         UpdateRowOnly, BurnCode, NoLatestEvent, ComposeEvent, ComposeDispatch,
         VerifyCode, CommitEvent, ReadForReview, Publish, PublishFails, database
    <3>3. CASE Crash \/ UNCHANGED vars \/ \E t \in Shipments : ExpireCode(t)
      BY <2>2, <3>3 DEF Crash, vars, ExpireCode, database
    <3>4. QED
      BY <3>1, <3>2, <3>3 DEF Next
  <2>3. QED
    BY <2>1, <2>2
<1>6. QED
  BY <1>3, <1>4, <1>5 DEF ReviewsInv

LEMMA StepDelivered == Typed /\ HandoverInv /\ [Next]_vars => DeliveredIsHandedOver'
<1> SUFFICES ASSUME Typed, HandoverInv, [Next]_vars,
                    NEW s \in Shipments, NEW i \in 1..Len(timeline'[s]),
                    timeline'[s][i].status = "delivered"
             PROVE  s \in HandedOver'
  BY DEF DeliveredIsHandedOver
<1>1. HandedOver \subseteq HandedOver'
  <2>1. CodesInv
    BY DEF HandoverInv
  <2>2. QED
    BY <2>1, HandedOverIsKept DEF HandedOver
<1>2. CASE timeline'[s] = timeline[s]
  BY <1>1, <1>2 DEF HandoverInv, DeliveredIsHandedOver
<1>3. CASE timeline'[s] # timeline[s]
  <2> USE DEF Typed, TypeOK
  <2>1. ASSUME NEW q \in Req, CommitEvent(q) PROVE s \in HandedOver'
    <3>1. /\ call[q].ship = s /\ pc[q] = "commit"
          /\ timeline'[s] = Append(timeline[s], [status |-> target[q], by |-> q])
      BY <1>3, <2>1 DEF CommitEvent
    <3>2. timeline[s] \in Seq(Event)
      OBVIOUS
    <3>3. CASE i \in 1..Len(timeline[s])
      <4>1. timeline[s][i].status = "delivered"
        BY <3>1, <3>2, <3>3
      <4>2. QED
        BY <1>1, <3>3, <4>1 DEF HandoverInv, DeliveredIsHandedOver
    <3>4. CASE i = Len(timeline[s]) + 1
      <4>1. target[q] = "delivered"
        BY <3>1, <3>2, <3>4
      <4>2. QED
        BY <1>1, <3>1, <4>1 DEF HandoverInv, DeliveriesInv, DeliveryOK
    <3>5. QED
      BY <3>1, <3>2, <3>3, <3>4
  <2>2. ASSUME NEW q \in Req, Receive(q) \/ Serve(q) \/ PublishFails(q), ~CommitEvent(q)
        PROVE FALSE
    BY <1>3, <2>2 DEF Receive, Serve, LoadRows, LoadTimeline, InsertShipment,
       NoPartnerAvailable, RefreshShipment, Refuse, AcceptCancel, AcceptUpdate,
       UpdateRowOnly, BurnCode, NoLatestEvent, ComposeEvent, ComposeDispatch,
       VerifyCode, CommitReview, ReadForReview, Publish, PublishFails, database
  <2>3. CASE Crash \/ UNCHANGED vars \/ \E t \in Shipments : ExpireCode(t)
    BY <1>3, <2>3 DEF Crash, vars, ExpireCode, database
  <2>4. QED
    BY <2>1, <2>2, <2>3 DEF Next
<1>4. QED
  BY <1>2, <1>3

\* Typed and HandoverInv are inductive together.
LEMMA HandoverInvariant == Spec => [](Typed /\ HandoverInv)
<1>1. Init => Typed /\ HandoverInv
  BY InitTyped, InitHandover
<1>2. (Typed /\ HandoverInv) /\ [Next]_vars => (Typed /\ HandoverInv)'
  <2> SUFFICES ASSUME Typed, HandoverInv, [Next]_vars PROVE Typed' /\ HandoverInv'
    OBVIOUS
  <2>1. Typed'
    BY StepTyped
  <2>2. HandoverInv'
    BY StepCodes, StepDeliveries, StepReviews, StepDelivered DEF HandoverInv
  <2>3. QED
    BY <2>1, <2>2
<1>3. QED
  BY <1>1, <1>2, PTL DEF Spec

\* Whatever requests overlap, crash or fail: a delivered event is in a timeline
\* only if the buyer's code for that shipment was presented.
THEOREM NoDeliveryWithoutCode == Spec => []DeliveredIsHandedOver
<1>1. HandoverInv => DeliveredIsHandedOver
  BY DEF HandoverInv
<1>2. QED
  BY HandoverInvariant, <1>1, PTL

\* A review exists only for a shipment that was handed over, although rate()
\* checks neither the status nor the timeline.
THEOREM NoReviewWithoutCode == Spec => []ReviewedIsHandedOver
<1>1. HandoverInv => ReviewedIsHandedOver
  BY DEF HandoverInv, ReviewsInv
<1>2. QED
  BY HandoverInvariant, <1>1, PTL

-----------------------------------------------------------------------------
(* The API implements the promise of the delivery code.                    *)

(***************************************************************************)
(* What the promise sees depends on codes, proofs, calls and two tables.     *)
(***************************************************************************)
\* A request that only arrives changes nothing the promise sees.
LEMMA ArrivalIsUnseen ==
  ASSUME Typed, CodesInv, NEW r \in Req, NEW c \in Calls, Arrive(r, c),
         issued' = issued, proved' = proved
  PROVE  Coded' = Coded /\ HandedOver' = HandedOver
<1>1. /\ call' = [call EXCEPT ![r] = c]
      /\ issued[r] = None /\ ~proved[r]
  BY DEF Arrive, CodesInv, AfterCheck, Ended
<1>2. \A q \in Req : issued[q] # None \/ proved[q] => call'[q] = call[q]
  BY <1>1 DEF Typed, TypeOK
<1>3. Coded' = Coded
  BY <1>2 DEF Coded
<1>4. HandedOver' = HandedOver
  BY <1>2 DEF HandedOver
<1>5. QED
  BY <1>3, <1>4

\* A code that is drawn makes its shipment coded, and hands nothing over: a
\* proof that was given was given with a code drawn before.
LEMMA DrawnCode ==
  ASSUME Typed, HandoverInv, NEW r \in Req, ComposeDispatch(r), [Next]_vars
  PROVE  Coded' = Coded \cup {call[r].ship} /\ HandedOver' = HandedOver
<1>1. /\ issued' = [issued EXCEPT ![r] = issued'[r]] /\ issued'[r] \in Codes
      /\ call' = call /\ proved' = proved
  BY DEF ComposeDispatch, Typed, TypeOK
<1>2. call[r].ship \in Shipments /\ issued'[r] # None
  BY <1>1, CallFields, NoneAssumption DEF ComposeDispatch, Typed, PhaseOK
<1>3. Coded' = Coded \cup {call[r].ship}
  <2>1. \A q \in Req : q # r => issued'[q] = issued[q]
    BY DEF ComposeDispatch, Typed, TypeOK
  <2>2. issued[r] # None => call[r].ship \in Coded
    BY <1>2 DEF Coded
  <2>3. QED
    BY <1>1, <1>2, <2>1, <2>2 DEF Coded
<1>4. HandedOver \subseteq HandedOver'
  BY HandedOverIsKept DEF HandoverInv, HandedOver
<1>5. HandedOver' \subseteq HandedOver
  BY <1>1 DEF HandedOver, HandoverInv, CodesInv
<1>6. QED
  BY <1>3, <1>4, <1>5

\* A code that is compared hands over at most the shipment it was drawn for.
LEMMA ShownCode ==
  ASSUME Typed, HandoverInv, NEW r \in Req, VerifyCode(r), [Next]_vars
  PROVE  /\ Coded' = Coded
         /\ \/ HandedOver' = HandedOver
            \/ /\ HandedOver' = HandedOver \cup {call[r].ship}
               /\ call[r].ship \in Coded
<1>1. /\ issued' = issued /\ call' = call
      /\ proved' = [proved EXCEPT ![r] = CodeAccepted(r)]
  BY DEF VerifyCode
<1>2. Coded' = Coded
  BY <1>1 DEF Coded
<1>3. HandedOver \subseteq HandedOver'
  BY HandedOverIsKept DEF HandoverInv, HandedOver
<1>4. HandedOver' \subseteq HandedOver \cup {call[r].ship}
  BY <1>1 DEF HandedOver, Typed, TypeOK
<1>5. ASSUME call[r].ship \in HandedOver' PROVE call[r].ship \in Coded
  BY <1>1, <1>5 DEF HandedOver, Coded
<1>6. QED
  BY <1>2, <1>3, <1>4, <1>5

\* An event that is committed records at most a delivery that was handed over.
LEMMA RecordedEvent ==
  ASSUME Typed, HandoverInv, NEW r \in Req, CommitEvent(r), [Next]_vars
  PROVE  \/ Delivered' = Delivered
         \/ /\ Delivered' = Delivered \cup {call[r].ship}
            /\ call[r].ship \in HandedOver
<1> DEFINE s == call[r].ship
           e == [status |-> target[r], by |-> r]
<1>1. /\ timeline' = [timeline EXCEPT ![s] = Append(@, e)]
      /\ pc[r] = "commit"
  BY DEF CommitEvent
<1>2. s \in Shipments
  BY <1>1, CallFields DEF Typed, PhaseOK
<1>3. e \in Event /\ timeline[s] \in Seq(Event)
  BY <1>1, <1>2 DEF Typed, TypeOK, PhaseOK, Event
<1>4. timeline'[s] = Append(timeline[s], e)
  BY <1>1, <1>2 DEF Typed, TypeOK
<1>5. \A t \in Shipments : t # s => timeline'[t] = timeline[t]
  BY <1>1 DEF Typed, TypeOK
<1> HIDE DEF e
<1>6. /\ Len(timeline'[s]) = Len(timeline[s]) + 1
      /\ \A i \in 1..Len(timeline[s]) : timeline'[s][i] = timeline[s][i]
      /\ timeline'[s][Len(timeline[s]) + 1] = e
      /\ Len(timeline[s]) \in Nat
  BY <1>3, <1>4
<1>7. \A i : i \in 1..(Len(timeline[s]) + 1) <=>
              i \in 1..Len(timeline[s]) \/ i = Len(timeline[s]) + 1
  BY <1>6
<1>8. s \in Delivered' <=> s \in Delivered \/ e.status = "delivered"
  <2>1. s \in Delivered' <=>
          \E i \in 1..(Len(timeline[s]) + 1) : timeline'[s][i].status = "delivered"
    BY <1>2, <1>6 DEF Delivered
  <2>2. s \in Delivered <=> \E i \in 1..Len(timeline[s]) : timeline[s][i].status = "delivered"
    BY <1>2 DEF Delivered
  <2>3. QED
    BY <1>6, <1>7, <2>1, <2>2
<1>9. \A t \in Shipments : t # s => (t \in Delivered' <=> t \in Delivered)
  BY <1>5 DEF Delivered
<1>10. ASSUME e.status = "delivered" PROVE s \in HandedOver
  BY <1>1, <1>10 DEF e, HandoverInv, DeliveriesInv, DeliveryOK
<1>11. Delivered \subseteq Shipments /\ Delivered' \subseteq Shipments
  BY DEF Delivered
<1>12. QED
  BY <1>2, <1>8, <1>9, <1>10, <1>11

\* A review that is committed is of a shipment that was handed over.
LEMMA LeftReview ==
  ASSUME Typed, HandoverInv, NEW r \in Req, CommitReview(r)
  PROVE  /\ Reviewed' = Reviewed \cup {call[r].ship}
         /\ call[r].ship \in HandedOver
<1>1. /\ reviews' = [reviews EXCEPT ![call[r].ship] = @ \cup {r}]
      /\ pc[r] = "review"
  BY DEF CommitReview
<1>2. call[r].ship \in Shipments
  BY <1>1, CallFields DEF Typed, PhaseOK
<1>3. Reviewed' = Reviewed \cup {call[r].ship}
  BY <1>1, <1>2 DEF Reviewed, Typed, TypeOK
<1>4. QED
  BY <1>1, <1>3 DEF HandoverInv, ReviewsInv

(***************************************************************************)
(* Every step of the API is a step of the promise, or none of it.           *)
(***************************************************************************)
\* Steps that touch no code, proof, call or table.
LEMMA Unseen ==
  ASSUME issued' = issued, proved' = proved, call' = call,
         timeline' = timeline, reviews' = reviews
  PROVE  UNCHANGED Promise!vars
  BY DEF Promise!vars, Coded, HandedOver, Delivered, Reviewed

LEMMA ReceiveIsUnseen ==
  ASSUME Typed, HandoverInv, NEW r \in Req, Receive(r)
  PROVE  UNCHANGED Promise!vars
<1>1. PICK c \in Calls : LoadRows(r, c) \/ InsertShipment(r, c)
                          \/ NoPartnerAvailable(r, c) \/ ReadForReview(r, c)
  BY DEF Receive
<1>2. /\ Arrive(r, c) /\ issued' = issued /\ proved' = proved
      /\ timeline' = timeline /\ reviews' = reviews
  BY <1>1 DEF LoadRows, InsertShipment, NoPartnerAvailable, ReadForReview, database
<1>3. Coded' = Coded /\ HandedOver' = HandedOver
  BY <1>2, ArrivalIsUnseen DEF HandoverInv
<1>4. Delivered' = Delivered /\ Reviewed' = Reviewed
  BY <1>2 DEF Delivered, Reviewed
<1>5. QED
  BY <1>3, <1>4 DEF Promise!vars

LEMMA ServeKeeps ==
  ASSUME Typed, HandoverInv, [Next]_vars, NEW r \in Req, Serve(r)
  PROVE  [Promise!Next]_Promise!vars
<1>1. pc[r] # "new" => call[r].ship \in Shipments
  BY CallFields DEF Typed, PhaseOK
<1>2. CASE ComposeDispatch(r)
  <2>1. call[r].ship \in Shipments
    BY <1>1, <1>2 DEF ComposeDispatch
  <2>2. Delivered' = Delivered /\ Reviewed' = Reviewed
    BY <1>2 DEF ComposeDispatch, database, Delivered, Reviewed
  <2>3. Promise!DrawCode(call[r].ship)
    BY <1>2, <2>2, DrawnCode DEF Promise!DrawCode
  <2>4. QED
    BY <2>1, <2>3 DEF Promise!Next
<1>3. CASE VerifyCode(r)
  <2>1. call[r].ship \in Shipments
    BY <1>1, <1>3 DEF VerifyCode
  <2>2. Delivered' = Delivered /\ Reviewed' = Reviewed
    BY <1>3 DEF VerifyCode, database, Delivered, Reviewed
  <2>3. UNCHANGED Promise!vars \/ Promise!ShowCode(call[r].ship)
    BY <1>3, <2>2, ShownCode DEF Promise!ShowCode, Promise!vars
  <2>4. QED
    BY <2>1, <2>3 DEF Promise!Next
<1>4. CASE CommitEvent(r)
  <2>1. call[r].ship \in Shipments
    BY <1>1, <1>4 DEF CommitEvent
  <2>2. Coded' = Coded /\ HandedOver' = HandedOver /\ Reviewed' = Reviewed
    BY <1>4 DEF CommitEvent, Coded, HandedOver, Reviewed
  <2>3. UNCHANGED Promise!vars \/ Promise!RecordDelivery(call[r].ship)
    BY <1>4, <2>2, RecordedEvent DEF Promise!RecordDelivery, Promise!vars
  <2>4. QED
    BY <2>1, <2>3 DEF Promise!Next
<1>5. CASE CommitReview(r)
  <2>1. call[r].ship \in Shipments
    BY <1>1, <1>5 DEF CommitReview
  <2>2. Coded' = Coded /\ HandedOver' = HandedOver /\ Delivered' = Delivered
    BY <1>5 DEF CommitReview, Coded, HandedOver, Delivered
  <2>3. Promise!LeaveReview(call[r].ship)
    BY <1>5, <2>2, LeftReview DEF Promise!LeaveReview
  <2>4. QED
    BY <2>1, <2>3 DEF Promise!Next
<1>6. CASE LoadTimeline(r) \/ RefreshShipment(r) \/ Refuse(r) \/ AcceptCancel(r)
           \/ AcceptUpdate(r) \/ UpdateRowOnly(r)
  BY <1>6, Unseen DEF LoadTimeline, RefreshShipment, Refuse, AcceptCancel, AcceptUpdate,
     UpdateRowOnly, database
<1>7. CASE BurnCode(r) \/ NoLatestEvent(r) \/ ComposeEvent(r) \/ Publish(r)
  BY <1>7, Unseen DEF BurnCode, NoLatestEvent, ComposeEvent, Publish, database
<1>8. QED
  BY <1>2, <1>3, <1>4, <1>5, <1>6, <1>7 DEF Serve

LEMMA StepKeeps ==
  Typed /\ HandoverInv /\ [Next]_vars => [Promise!Next]_Promise!vars
<1> SUFFICES ASSUME Typed, HandoverInv, [Next]_vars PROVE [Promise!Next]_Promise!vars
  OBVIOUS
<1>1. ASSUME NEW r \in Req, Receive(r) PROVE [Promise!Next]_Promise!vars
  BY <1>1, ReceiveIsUnseen
<1>2. ASSUME NEW r \in Req, Serve(r) PROVE [Promise!Next]_Promise!vars
  BY <1>2, ServeKeeps
<1>3. ASSUME NEW r \in Req, PublishFails(r) PROVE [Promise!Next]_Promise!vars
  BY <1>3, Unseen DEF PublishFails, database
<1>4. CASE Crash \/ UNCHANGED vars \/ \E s \in Shipments : ExpireCode(s)
  BY <1>4, Unseen DEF Crash, vars, ExpireCode, database
<1>5. QED
  BY <1>1, <1>2, <1>3, <1>4 DEF Next

\* The API, with all its overlapping requests, crashes, outages and expiries,
\* implements the promise of the delivery code: no shipment is delivered or
\* reviewed before its own code was shown, and no delivery or review is lost.
THEOREM PromiseIsKept == Spec => HandoverKept
<1>1. Init => Promise!Init
  BY DEF Init, Promise!Init, Coded, HandedOver, Delivered, Reviewed
<1>2. QED
  BY HandoverInvariant, StepKeeps, <1>1, PTL DEF Spec, HandoverKept, Promise!Spec

(***************************************************************************)
(* Who changes the tables.                                                  *)
(***************************************************************************)
LEMMA TimelineChange ==
  ASSUME Typed, [Next]_vars, NEW s \in Shipments, timeline'[s] # timeline[s]
  PROVE  \E q \in Req : CommitEvent(q) /\ call[q].ship = s
<1> USE DEF Typed, TypeOK
<1>1. ASSUME NEW q \in Req, CommitEvent(q) PROVE call[q].ship = s
  BY <1>1 DEF CommitEvent
<1>2. ASSUME NEW q \in Req, Receive(q) \/ Serve(q) \/ PublishFails(q), ~CommitEvent(q)
      PROVE FALSE
  BY <1>2 DEF Receive, Serve, LoadRows, LoadTimeline, InsertShipment,
     NoPartnerAvailable, RefreshShipment, Refuse, AcceptCancel, AcceptUpdate,
     UpdateRowOnly, BurnCode, NoLatestEvent, ComposeEvent, ComposeDispatch,
     VerifyCode, CommitReview, ReadForReview, Publish, PublishFails, database
<1>3. CASE Crash \/ UNCHANGED vars \/ \E t \in Shipments : ExpireCode(t)
  BY <1>3 DEF Crash, vars, ExpireCode, database
<1>4. QED
  BY <1>1, <1>2, <1>3 DEF Next

LEMMA ColumnChange ==
  ASSUME Typed, [Next]_vars, NEW s \in Shipments, status'[s] # status[s]
  PROVE  \/ \E q \in Req : CommitEvent(q) /\ call[q].ship = s
         \/ status[s] = None /\ status'[s] = "placed"
<1> USE DEF Typed, TypeOK
<1>1. ASSUME NEW q \in Req, CommitEvent(q) PROVE call[q].ship = s
  BY <1>1 DEF CommitEvent
<1>2. ASSUME NEW q \in Req, NEW c \in Calls, InsertShipment(q, c)
      PROVE  status[s] = None /\ status'[s] = "placed"
  BY <1>2 DEF InsertShipment
<1>3. ASSUME NEW q \in Req, Receive(q) \/ Serve(q) \/ PublishFails(q), ~CommitEvent(q),
             ~\E c \in Calls : InsertShipment(q, c)
      PROVE FALSE
  BY <1>3 DEF Receive, Serve, LoadRows, LoadTimeline,
     NoPartnerAvailable, RefreshShipment, Refuse, AcceptCancel, AcceptUpdate,
     UpdateRowOnly, BurnCode, NoLatestEvent, ComposeEvent, ComposeDispatch,
     VerifyCode, CommitReview, ReadForReview, Publish, PublishFails, database
<1>4. CASE Crash \/ UNCHANGED vars \/ \E t \in Shipments : ExpireCode(t)
  BY <1>4 DEF Crash, vars, ExpireCode, database
<1>5. QED
  BY <1>1, <1>2, <1>3, <1>4 DEF Next

\* The events of a timeline carry the request that added them.
LEMMA EventAuthors ==
  ASSUME Typed, NEW s \in Shipments
  PROVE  \A j \in 1..Len(timeline[s]) : timeline[s][j].by \in Req
<1>1. timeline[s] \in Seq(Event)
  BY DEF Typed, TypeOK
<1>2. \A j \in 1..Len(timeline[s]) : timeline[s][j] \in Event
  BY <1>1
<1>3. QED
  BY <1>2 DEF Event

\* A commit appends the event of its request to the timeline of its shipment,
\* and only that timeline.
LEMMA CommitAppends ==
  ASSUME Typed, NEW q \in Req, CommitEvent(q), NEW s \in Shipments, call[q].ship = s
  PROVE  /\ Len(timeline'[s]) = Len(timeline[s]) + 1
         /\ timeline'[s] # <<>>
         /\ timeline'[s][Len(timeline'[s])] = [status |-> target[q], by |-> q]
         /\ \A i \in 1..Len(timeline[s]) : timeline'[s][i] = timeline[s][i]
         /\ status'[s] = StatusColumn(q)
         /\ \A t \in Shipments \ {s} : timeline'[t] = timeline[t] /\ status'[t] = status[t]
<1>1. timeline[s] \in Seq(Event) /\ [status |-> target[q], by |-> q] \in Event
  BY DEF Typed, TypeOK, PhaseOK, CommitEvent, Event
<1>2. timeline'[s] = Append(timeline[s], [status |-> target[q], by |-> q])
  BY DEF CommitEvent, Typed, TypeOK
<1>3. status'[s] = StatusColumn(q)
  BY DEF CommitEvent, Typed, TypeOK
<1>4. \A t \in Shipments \ {s} : timeline'[t] = timeline[t] /\ status'[t] = status[t]
  BY DEF CommitEvent, Typed, TypeOK
<1>5. QED
  BY <1>1, <1>2, <1>3, <1>4

\* The copy a request loaded is replaced only while it is loading.
LEMMA CopyIsFixed ==
  ASSUME Typed, [Next]_vars, NEW r \in Req, pc[r] \notin {"new", "refresh", "rows"}
  PROVE  seen'[r] = seen[r]
<1> USE DEF Typed, TypeOK
<1>1. ASSUME NEW q \in Req, Receive(q) \/ LoadTimeline(q) \/ RefreshShipment(q)
      PROVE  seen'[r] = seen[r]
  BY <1>1 DEF Receive, Arrive, LoadRows, InsertShipment, NoPartnerAvailable, ReadForReview,
     LoadTimeline, RefreshShipment
<1>2. ASSUME NEW q \in Req, Serve(q) \/ PublishFails(q), ~LoadTimeline(q), ~RefreshShipment(q)
      PROVE  seen'[r] = seen[r]
  BY <1>2 DEF Serve, Refuse, AcceptCancel, AcceptUpdate,
     UpdateRowOnly, BurnCode, NoLatestEvent, ComposeEvent, ComposeDispatch,
     VerifyCode, CommitEvent, CommitReview, Publish, PublishFails
<1>3. CASE Crash \/ UNCHANGED vars \/ \E t \in Shipments : ExpireCode(t)
  BY <1>3 DEF Crash, vars, ExpireCode
<1>4. QED
  BY <1>1, <1>2, <1>3 DEF Next, Serve

LEMMA OkIsFinal ==
  ASSUME Typed, [Next]_vars, NEW r \in Req, pc[r] = "ok"
  PROVE  pc'[r] = "ok"
<1> USE DEF Typed, TypeOK, Goto
<1>1. ASSUME NEW q \in Req, Receive(q) PROVE pc'[r] = "ok"
  BY <1>1 DEF Receive, Arrive, LoadRows, InsertShipment, NoPartnerAvailable, ReadForReview
<1>2. ASSUME NEW q \in Req, Serve(q) \/ PublishFails(q) PROVE pc'[r] = "ok"
  BY <1>2 DEF Serve, LoadTimeline, RefreshShipment, Refuse, AcceptCancel, AcceptUpdate,
     UpdateRowOnly, BurnCode, NoLatestEvent, ComposeEvent, ComposeDispatch,
     VerifyCode, CommitEvent, CommitReview, Publish, PublishFails
<1>3. CASE Crash \/ UNCHANGED vars \/ \E t \in Shipments : ExpireCode(t)
  BY <1>3 DEF Crash, InFlight, Ended, vars, ExpireCode
<1>4. QED
  BY <1>1, <1>2, <1>3 DEF Next

\* How a request comes to hold a loaded copy: it loads it in this step, from
\* the tables as they are, or it held it before.
LEMMA LoadedCopy ==
  ASSUME Typed, [Next]_vars, NEW r \in Req, pc'[r] \in Loaded
  PROVE  \/ /\ pc[r] \in Loaded /\ call'[r] = call[r]
            /\ seen'[r].status = seen[r].status /\ seen'[r].events = seen[r].events
         \/ /\ seen'[r].status = status[call'[r].ship]
            /\ seen'[r].events = Len(timeline[call'[r].ship])
            /\ status' = status /\ timeline' = timeline
            /\ pc'[r] = "rows" \/ (pc[r] = "refresh" /\ call'[r] = call[r])
<1> DEFINE Goal ==
      \/ /\ pc[r] \in Loaded /\ call'[r] = call[r]
         /\ seen'[r].status = seen[r].status /\ seen'[r].events = seen[r].events
      \/ /\ seen'[r].status = status[call'[r].ship]
         /\ seen'[r].events = Len(timeline[call'[r].ship])
         /\ status' = status /\ timeline' = timeline
         /\ pc'[r] = "rows" \/ (pc[r] = "refresh" /\ call'[r] = call[r])
<1> USE DEF Typed, TypeOK, Goto, Loaded, database
<1>1. ASSUME NEW q \in Req, NEW c \in Calls, LoadRows(q, c) PROVE Goal
  BY <1>1 DEF LoadRows, Arrive, RowOf
<1>2. ASSUME NEW q \in Req, NEW c \in Calls,
             InsertShipment(q, c) \/ NoPartnerAvailable(q, c) \/ ReadForReview(q, c)
      PROVE  Goal
  BY <1>2 DEF InsertShipment, NoPartnerAvailable, ReadForReview, Arrive
<1>3. ASSUME NEW q \in Req, LoadTimeline(q) PROVE Goal
  BY <1>3 DEF LoadTimeline
<1>4. ASSUME NEW q \in Req, RefreshShipment(q) PROVE Goal
  BY <1>4 DEF RefreshShipment, RowOf
<1>5. ASSUME NEW q \in Req, Serve(q) \/ PublishFails(q), ~LoadTimeline(q), ~RefreshShipment(q)
      PROVE  Goal
  BY <1>5 DEF Serve, Refuse, AcceptCancel, AcceptUpdate, UpdateRowOnly, BurnCode,
     NoLatestEvent, ComposeEvent, ComposeDispatch, VerifyCode, CommitEvent,
     CommitReview, Publish, PublishFails, Ended
<1>6. CASE Crash \/ UNCHANGED vars \/ \E t \in Shipments : ExpireCode(t)
  BY <1>6 DEF Crash, InFlight, Ended, vars, ExpireCode
<1>7. QED
  BY <1>1, <1>2, <1>3, <1>4, <1>5, <1>6 DEF Next, Receive, Serve

\* A request is accepted after its checks on the loaded copy, or it inserted
\* the shipment itself.
LEMMA AcceptedAfterChecks ==
  ASSUME Typed, [Next]_vars, NEW r \in Req, pc'[r] \in Accepted, pc[r] \notin Accepted
  PROVE  /\ call'[r] = call[r] /\ call[r] \in Calls
         /\ \/ pc[r] = "refresh"
            \/ pc[r] = "loaded" /\ call[r].op = "update" /\ ~UpdateRefused(r)
            \/ pc[r] = "loaded" /\ call[r].op = "cancel" /\ ~CancelRefused(r)
<1> DEFINE Goal ==
      /\ call'[r] = call[r] /\ call[r] \in Calls
      /\ \/ pc[r] = "refresh"
         \/ pc[r] = "loaded" /\ call[r].op = "update" /\ ~UpdateRefused(r)
         \/ pc[r] = "loaded" /\ call[r].op = "cancel" /\ ~CancelRefused(r)
<1> USE DEF Typed, TypeOK, PhaseOK, Goto, Accepted
<1>1. ASSUME NEW q \in Req, Receive(q) PROVE Goal
  BY <1>1 DEF Receive, Arrive, LoadRows, InsertShipment, NoPartnerAvailable, ReadForReview
<1>2. ASSUME NEW q \in Req, AcceptCancel(q) \/ AcceptUpdate(q) \/ VerifyCode(q) \/ RefreshShipment(q)
      PROVE  Goal
  BY <1>2 DEF AcceptCancel, AcceptUpdate, VerifyCode, RefreshShipment
<1>3. ASSUME NEW q \in Req, Serve(q) \/ PublishFails(q), ~AcceptCancel(q), ~AcceptUpdate(q),
             ~VerifyCode(q), ~RefreshShipment(q)
      PROVE  Goal
  BY <1>3 DEF Serve, LoadTimeline, Refuse, UpdateRowOnly, BurnCode,
     NoLatestEvent, ComposeEvent, ComposeDispatch, CommitEvent,
     CommitReview, Publish, PublishFails
<1>4. CASE Crash \/ UNCHANGED vars \/ \E t \in Shipments : ExpireCode(t)
  BY <1>4 DEF Crash, vars, ExpireCode
<1>5. QED
  BY <1>1, <1>2, <1>3, <1>4 DEF Next, Serve

LEMMA InitDrift == Init => DriftInv
<1> SUFFICES ASSUME Init PROVE DriftInv
  OBVIOUS
<1>1. SnapshotInv
  BY DEF Init, SnapshotInv, SnapshotOK, Loaded, Accepted
<1>2. EventsInv
  BY DEF Init, EventsInv
<1>3. DriftIsRaced
  BY DEF Init, DriftIsRaced, Drifted
<1>4. QED
  BY <1>1, <1>2, <1>3 DEF DriftInv

LEMMA StepSnapshot == Typed /\ DriftInv /\ [Next]_vars => SnapshotInv'
<1> SUFFICES ASSUME Typed, DriftInv, [Next]_vars, NEW r \in Req PROVE SnapshotOK(r)'
  BY DEF SnapshotInv
<1> DEFINE s == call'[r].ship
<1>1. SnapshotOK(r) /\ EventsInv
  BY DEF DriftInv, SnapshotInv
<1>2. ASSUME pc'[r] \in Loaded
      PROVE  /\ seen'[r].events <= Len(timeline'[s])
             /\ seen'[r].events = Len(timeline'[s]) /\ seen'[r].status # None =>
                  seen'[r].status = status'[s]
             /\ seen'[r].status # None => status'[s] # None
  <2>0. s \in Shipments
    <3>1. Typed'
      BY StepTyped
    <3>2. call'[r] \in Calls
      BY <1>2, <3>1 DEF Typed, PhaseOK, Loaded
    <3>3. QED
      BY <3>2, CallFields
  <2>1. CASE /\ seen'[r].status = status[s] /\ seen'[r].events = Len(timeline[s])
             /\ status' = status /\ timeline' = timeline
    <3>1. timeline[s] \in Seq(Event)
      BY <2>0 DEF Typed, TypeOK
    <3>2. QED
      BY <2>1, <3>1
  <2>2. CASE /\ pc[r] \in Loaded /\ call'[r] = call[r]
             /\ seen'[r].status = seen[r].status /\ seen'[r].events = seen[r].events
    <3>1. /\ seen[r].events <= Len(timeline[s])
          /\ seen[r].events = Len(timeline[s]) /\ seen[r].status # None =>
               seen[r].status = status[s]
          /\ seen[r].status # None => status[s] # None
      BY <1>1, <2>2 DEF SnapshotOK, FreshCopy
    <3>2. CASE \E q \in Req : CommitEvent(q) /\ call[q].ship = s
      <4>1. PICK q \in Req : CommitEvent(q) /\ call[q].ship = s
        BY <3>2
      <4>2. Len(timeline'[s]) = Len(timeline[s]) + 1 /\ status'[s] = StatusColumn(q)
        BY <2>0, <4>1, CommitAppends, ZenonT(60)
      <4>3. seen[r].events \in Nat /\ timeline[s] \in Seq(Event)
        BY <2>0 DEF Typed, TypeOK, Snapshot
      <4>4. status[s] # None => StatusColumn(q) # None
        BY <4>1, NoneAssumption DEF StatusColumn, CommitEvent, Typed, PhaseOK
      <4>5. QED
        BY <2>2, <3>1, <4>2, <4>3, <4>4
    <3>3. CASE ~\E q \in Req : CommitEvent(q) /\ call[q].ship = s
      <4>1. timeline'[s] = timeline[s]
        BY <2>0, <3>3, TimelineChange
      <4>2. status'[s] = status[s] \/ (status[s] = None /\ status'[s] = "placed")
        BY <2>0, <3>3, ColumnChange
      <4>3. QED
        BY <2>2, <3>1, <4>1, <4>2
    <3>4. QED
      BY <3>2, <3>3
  <2>3. QED
    BY <1>2, <2>1, <2>2, LoadedCopy
<1>3. ASSUME pc'[r] \in Accepted PROVE seen'[r].status # None
  <2>1. CASE pc[r] \in Accepted
    BY <1>1, <2>1, CopyIsFixed DEF SnapshotOK, Accepted
  <2>2. CASE pc[r] = "loaded"
    <3>1. seen'[r] = seen[r]
      BY <2>2, CopyIsFixed
    <3>2. ~UpdateRefused(r) \/ ~CancelRefused(r)
      BY <1>3, <2>2, AcceptedAfterChecks DEF Accepted
    <3>3. QED
      BY <3>1, <3>2 DEF UpdateRefused, CancelRefused
  <2>3. CASE pc[r] = "refresh"
    <3>1. call'[r] = call[r] /\ call[r].ship \in Shipments
      BY <1>3, <2>3, AcceptedAfterChecks, CallFields DEF Accepted
    <3>2. status[call[r].ship] # None
      BY <1>1, <2>3, <3>1 DEF EventsInv
    <3>3. pc'[r] \in Loaded /\ pc[r] \notin Loaded
      BY <1>3, <2>3 DEF Accepted, Loaded
    <3>4. seen'[r].status = status[call[r].ship]
      BY <3>1, <3>3, LoadedCopy
    <3>5. QED
      BY <3>2, <3>4
  <2>4. QED
    BY <1>3, <2>1, <2>2, <2>3, AcceptedAfterChecks
<1>4. QED
  BY <1>2, <1>3 DEF SnapshotOK, FreshCopy

LEMMA StepEvents == Typed /\ DriftInv /\ [Next]_vars => EventsInv'
<1> SUFFICES ASSUME Typed, DriftInv, [Next]_vars, NEW s \in Shipments
             PROVE  /\ status'[s] = None => timeline'[s] = <<>>
                    /\ \A r \in Req : pc'[r] = "refresh" /\ call'[r].ship = s => status'[s] # None
                    /\ \A i \in 1..Len(timeline'[s]) : pc'[timeline'[s][i].by] = "ok"
  BY DEF EventsInv
<1>1. EventsInv /\ SnapshotInv
  BY DEF DriftInv
<1>2. timeline[s] \in Seq(Event)
  BY DEF Typed, TypeOK
<1>3. status[s] # None => status'[s] # None
  <2>1. ASSUME NEW q \in Req, CommitEvent(q), call[q].ship = s, status[s] # None
        PROVE  status'[s] # None
    <3>1. status'[s] = StatusColumn(q)
      BY <2>1, CommitAppends
    <3>2. QED
      BY <2>1, <3>1, NoneAssumption DEF StatusColumn, CommitEvent, Typed, PhaseOK
  <2>2. QED
    BY <2>1, ColumnChange
<1>4. status'[s] = None => timeline'[s] = <<>>
  <2> SUFFICES ASSUME status'[s] = None PROVE timeline'[s] = <<>>
    OBVIOUS
  <2>1. status[s] = None /\ timeline[s] = <<>>
    BY <1>1, <1>3 DEF EventsInv
  <2>2. ASSUME NEW q \in Req, CommitEvent(q), call[q].ship = s PROVE FALSE
    BY <1>1, <2>1, <2>2 DEF CommitEvent, SnapshotInv, SnapshotOK, Accepted, Loaded
  <2>3. QED
    BY <2>1, <2>2, TimelineChange
<1>5. ASSUME NEW r \in Req, pc'[r] = "refresh", call'[r].ship = s PROVE status'[s] # None
  <2>1. CASE pc[r] = "refresh"
    BY <1>1, <1>3, <1>5, <2>1, CallIsFixed DEF EventsInv
  <2>2. CASE pc[r] # "refresh"
    <3>1. ASSUME NEW q \in Req, NEW c \in Calls, InsertShipment(q, c) PROVE status'[s] # None
      <4>1. q = r /\ c.ship = s
        BY <1>5, <2>2, <3>1 DEF InsertShipment, Arrive, Goto, Typed, TypeOK
      <4>2. status'[s] = "placed"
        BY <3>1, <4>1 DEF InsertShipment, Typed, TypeOK
      <4>3. QED
        BY <4>2, NoneAssumption DEF Statuses
    <3>2. ASSUME NEW q \in Req, NEW c \in Calls,
                 LoadRows(q, c) \/ NoPartnerAvailable(q, c) \/ ReadForReview(q, c)
          PROVE  FALSE
      BY <1>5, <2>2, <3>2 DEF LoadRows, NoPartnerAvailable, ReadForReview, Goto, Typed, TypeOK
    <3>3. ASSUME NEW q \in Req, Serve(q) \/ PublishFails(q) PROVE FALSE
      BY <1>5, <2>2, <3>3 DEF Serve, LoadTimeline, RefreshShipment, Refuse, AcceptCancel,
         AcceptUpdate, UpdateRowOnly, VerifyCode, BurnCode, NoLatestEvent, ComposeEvent,
         ComposeDispatch, Publish, PublishFails, CommitEvent, CommitReview, Goto, Typed, TypeOK
    <3>4. CASE Crash \/ UNCHANGED vars \/ \E t \in Shipments : ExpireCode(t)
      BY <1>5, <2>2, <3>4 DEF Crash, vars, ExpireCode, Typed, TypeOK
    <3>5. QED
      BY <3>1, <3>2, <3>3, <3>4 DEF Next, Receive
  <2>3. QED
    BY <2>1, <2>2
<1>6. ASSUME NEW i \in 1..Len(timeline'[s]) PROVE pc'[timeline'[s][i].by] = "ok"
  <2>1. \A j \in 1..Len(timeline[s]) : timeline[s][j].by \in Req /\ pc'[timeline[s][j].by] = "ok"
    <3>1. \A j \in 1..Len(timeline[s]) : timeline[s][j].by \in Req /\ pc[timeline[s][j].by] = "ok"
      BY <1>1, EventAuthors DEF EventsInv
    <3>2. QED
      BY <3>1, OkIsFinal
  <2>2. CASE timeline'[s] = timeline[s]
    BY <2>1, <2>2, <1>6
  <2>3. CASE timeline'[s] # timeline[s]
    <3>1. PICK q \in Req : CommitEvent(q) /\ call[q].ship = s
      BY <2>3, TimelineChange
    <3>2. /\ Len(timeline'[s]) = Len(timeline[s]) + 1
          /\ timeline'[s][Len(timeline'[s])] = [status |-> target[q], by |-> q]
          /\ \A j \in 1..Len(timeline[s]) : timeline'[s][j] = timeline[s][j]
      BY <3>1, CommitAppends
    <3>3. pc'[q] = "ok"
      BY <3>1 DEF CommitEvent, Goto, Typed, TypeOK
    <3>4. i \in 1..Len(timeline[s]) \/ i = Len(timeline'[s])
      BY <1>2, <1>6, <3>2
    <3>5. QED
      BY <2>1, <3>2, <3>3, <3>4
  <2>4. QED
    BY <2>2, <2>3
<1>7. QED
  BY <1>4, <1>5, <1>6

LEMMA StepDriftIsRaced == Typed /\ DriftInv /\ [Next]_vars => DriftIsRaced'
<1> SUFFICES ASSUME Typed, DriftInv, [Next]_vars, NEW s \in Shipments,
                    timeline'[s] # <<>>,
                    status'[s] # timeline'[s][Len(timeline'[s])].status
             PROVE  seen'[timeline'[s][Len(timeline'[s])].by].events < Len(timeline'[s]) - 1
  BY DEF DriftIsRaced, Drifted, LatestStatus
<1>1. EventsInv /\ SnapshotInv /\ DriftIsRaced
  BY DEF DriftInv
<1>2. timeline[s] \in Seq(Event)
  BY DEF Typed, TypeOK
<1>3. CASE \E q \in Req : CommitEvent(q) /\ call[q].ship = s
  <2>1. PICK q \in Req : CommitEvent(q) /\ call[q].ship = s
    BY <1>3
  <2>2. /\ Len(timeline'[s]) = Len(timeline[s]) + 1
        /\ timeline'[s][Len(timeline'[s])] = [status |-> target[q], by |-> q]
        /\ status'[s] = StatusColumn(q)
    BY <2>1, CommitAppends
  <2>3. seen' = seen /\ pc[q] = "commit"
    BY <2>1 DEF CommitEvent
  <2>4. SnapshotOK(q) /\ seen[q].events \in Nat
    BY <1>1 DEF SnapshotInv, Typed, TypeOK, Snapshot
  <2>5. seen[q].events <= Len(timeline[s]) /\ seen[q].status # None
    BY <2>1, <2>3, <2>4 DEF SnapshotOK, Loaded, Accepted
  <2>6. seen[q].events # Len(timeline[s])
    <3> SUFFICES ASSUME seen[q].events = Len(timeline[s]) PROVE FALSE
      OBVIOUS
    <3>1. seen[q].status = status[s]
      BY <2>1, <2>3, <2>4, <2>5 DEF SnapshotOK, Loaded, FreshCopy
    <3>2. status'[s] = target[q]
      BY <2>1, <2>2, <3>1 DEF StatusColumn
    <3>3. QED
      BY <2>2, <3>2
  <2>7. QED
    BY <1>2, <2>2, <2>3, <2>4, <2>5, <2>6
<1>4. CASE ~\E q \in Req : CommitEvent(q) /\ call[q].ship = s
  <2>1. timeline'[s] = timeline[s]
    BY <1>4, TimelineChange
  <2>2. status'[s] = status[s]
    BY <1>1, <1>4, <2>1, ColumnChange DEF EventsInv
  <2>3. Len(timeline[s]) \in 1..Len(timeline[s]) /\ timeline[s][Len(timeline[s])] \in Event
    BY <1>2, <2>1, LastEvent
  <2>4. timeline[s][Len(timeline[s])].by \in Req /\ pc[timeline[s][Len(timeline[s])].by] = "ok"
    BY <1>1, <2>3 DEF EventsInv, Event
  <2>5. seen'[timeline[s][Len(timeline[s])].by] = seen[timeline[s][Len(timeline[s])].by]
    BY <2>4, CopyIsFixed
  <2>6. QED
    BY <1>1, <2>1, <2>2, <2>5 DEF DriftIsRaced, Drifted, LatestStatus
<1>5. QED
  BY <1>3, <1>4

LEMMA DriftInvariant == Spec => [](Typed /\ DriftInv)
<1>1. Init => Typed /\ DriftInv
  BY InitTyped, InitDrift
<1>2. (Typed /\ DriftInv) /\ [Next]_vars => (Typed /\ DriftInv)'
  <2> SUFFICES ASSUME Typed, DriftInv, [Next]_vars PROVE Typed' /\ DriftInv'
    OBVIOUS
  <2>1. Typed'
    BY StepTyped
  <2>2. DriftInv'
    BY StepSnapshot, StepEvents, StepDriftIsRaced DEF DriftInv
  <2>3. QED
    BY <2>1, <2>2
<1>3. QED
  BY <1>1, <1>2, PTL DEF Spec

\* The shipment.status column contradicts the latest event only if the request
\* that recorded this event was overtaken after it loaded the shipment: without
\* overlapping requests the column is in lockstep with the timeline, and a
\* request that is not overtaken puts a drifted column right.
THEOREM ColumnDriftsOnlyByRace == Spec => []DriftIsRaced
<1>1. DriftInv => DriftIsRaced
  BY DEF DriftInv
<1>2. QED
  BY DriftInvariant, <1>1, PTL

(***************************************************************************)
(* Parties.                                                                 *)
(***************************************************************************)
LEMMA InitParties == Init => PartiesInv
<1> SUFFICES ASSUME Init PROVE PartiesInv
  OBVIOUS
<1>1. EventsByParties
  BY DEF Init, EventsByParties
<1>2. QED
  BY <1>1 DEF Init, PartiesInv, Accepted

LEMMA StepParties == Typed /\ PartiesInv /\ [Next]_vars => PartiesInv'
<1> SUFFICES ASSUME Typed, PartiesInv, [Next]_vars PROVE PartiesInv'
  OBVIOUS
<1>1. ASSUME NEW r \in Req, pc'[r] \in Accepted \cup {"refresh"} PROVE call'[r].user = PartyOf(r)'
  <2>1. CASE pc[r] \in Accepted \cup {"refresh"}
    BY <2>1, CallIsFixed DEF PartiesInv, PartyOf, Accepted
  <2>2. CASE pc[r] \notin Accepted \cup {"refresh"} /\ pc'[r] \in Accepted
    <3>1. /\ call'[r] = call[r]
          /\ \/ call[r].op = "update" /\ ~UpdateRefused(r)
             \/ call[r].op = "cancel" /\ ~CancelRefused(r)
      BY <2>2, AcceptedAfterChecks
    <3>2. QED
      BY <3>1 DEF UpdateRefused, IsAssigned, CancelRefused, PartyOf
  <2>3. CASE pc[r] # "refresh" /\ pc'[r] = "refresh"
    <3>1. ASSUME NEW q \in Req, NEW c \in Calls, InsertShipment(q, c)
          PROVE  call'[r].user = PartyOf(r)'
      <4>1. q = r /\ call'[r] = c
        BY <2>3, <3>1 DEF InsertShipment, Arrive, Goto, Typed, TypeOK
      <4>2. QED
        BY <3>1, <4>1 DEF InsertShipment, PartyOf
    <3>2. ASSUME NEW q \in Req, NEW c \in Calls,
                 LoadRows(q, c) \/ NoPartnerAvailable(q, c) \/ ReadForReview(q, c)
          PROVE  FALSE
      BY <2>3, <3>2 DEF LoadRows, NoPartnerAvailable, ReadForReview, Goto, Typed, TypeOK
    <3>3. ASSUME NEW q \in Req, Serve(q) \/ PublishFails(q) PROVE FALSE
      BY <2>3, <3>3 DEF Serve, LoadTimeline, RefreshShipment, Refuse, AcceptCancel,
         AcceptUpdate, UpdateRowOnly, VerifyCode, BurnCode, NoLatestEvent, ComposeEvent,
         ComposeDispatch, Publish, PublishFails, CommitEvent, CommitReview, Goto, Typed, TypeOK
    <3>4. CASE Crash \/ UNCHANGED vars \/ \E t \in Shipments : ExpireCode(t)
      BY <2>3, <3>4 DEF Crash, vars, ExpireCode, Typed, TypeOK
    <3>5. QED
      BY <3>1, <3>2, <3>3, <3>4 DEF Next, Receive
  <2>4. QED
    BY <1>1, <2>1, <2>2, <2>3
<1>2. ASSUME NEW s \in Shipments
      PROVE  \A i \in 1..Len(timeline'[s]) :
               /\ pc'[timeline'[s][i].by] = "ok"
               /\ call'[timeline'[s][i].by].ship = s
               /\ call'[timeline'[s][i].by].user =
                    IF call'[timeline'[s][i].by].op = "update" THEN PartnerOf[s] ELSE SellerOf[s]
               /\ \A j \in 1..Len(timeline'[s]) : timeline'[s][j].by = timeline'[s][i].by => j = i
  <2>0. timeline[s] \in Seq(Event)
    BY DEF Typed, TypeOK
  <2>1. \A i \in 1..Len(timeline[s]) : timeline[s][i].by \in Req /\ pc[timeline[s][i].by] = "ok"
    BY EventAuthors DEF PartiesInv
  <2>2. \A i \in 1..Len(timeline[s]) :
          /\ pc'[timeline[s][i].by] = "ok" /\ call'[timeline[s][i].by] = call[timeline[s][i].by]
    BY <2>1, OkIsFinal, CallIsFixed
  <2>3. \A i \in 1..Len(timeline[s]) :
          /\ call[timeline[s][i].by].ship = s
          /\ call[timeline[s][i].by].user =
               IF call[timeline[s][i].by].op = "update" THEN PartnerOf[s] ELSE SellerOf[s]
          /\ \A j \in 1..Len(timeline[s]) : timeline[s][j].by = timeline[s][i].by => j = i
    BY DEF PartiesInv, EventsByParties
  <2>4. CASE timeline'[s] = timeline[s]
    BY <2>2, <2>3, <2>4
  <2>5. CASE timeline'[s] # timeline[s]
    <3>1. PICK q \in Req : CommitEvent(q) /\ call[q].ship = s
      BY <2>5, TimelineChange
    <3>2. /\ Len(timeline'[s]) = Len(timeline[s]) + 1
          /\ timeline'[s][Len(timeline'[s])] = [status |-> target[q], by |-> q]
          /\ \A j \in 1..Len(timeline[s]) : timeline'[s][j] = timeline[s][j]
      BY <3>1, CommitAppends
    <3>3. pc[q] = "commit" /\ pc'[q] = "ok" /\ call' = call
      BY <3>1 DEF CommitEvent, Goto, Typed, TypeOK
    <3>4. call[q].user = IF call[q].op = "update" THEN PartnerOf[s] ELSE SellerOf[s]
      BY <3>1, <3>3 DEF PartiesInv, PartyOf, Accepted
    <3>5. \A j \in 1..Len(timeline[s]) : timeline[s][j].by # q
      BY <2>1, <3>3
    <3>6. \A i \in 1..Len(timeline'[s]) : i \in 1..Len(timeline[s]) \/ i = Len(timeline'[s])
      BY <2>0, <3>2
    <3>7. timeline'[s][Len(timeline'[s])].by = q
      BY <3>2
    <3>8. ASSUME NEW i \in 1..Len(timeline[s])
          PROVE  /\ timeline'[s][i] = timeline[s][i]
                 /\ pc'[timeline'[s][i].by] = "ok"
                 /\ call'[timeline'[s][i].by].ship = s
                 /\ call'[timeline'[s][i].by].user =
                      IF call'[timeline'[s][i].by].op = "update"
                      THEN PartnerOf[s] ELSE SellerOf[s]
                 /\ timeline'[s][i].by # q
      <4>1. timeline'[s][i] = timeline[s][i]
        BY <3>2
      <4>2. /\ pc'[timeline[s][i].by] = "ok"
            /\ call'[timeline[s][i].by] = call[timeline[s][i].by]
        BY <2>2
      <4>3. /\ call[timeline[s][i].by].ship = s
            /\ call[timeline[s][i].by].user =
                 IF call[timeline[s][i].by].op = "update" THEN PartnerOf[s] ELSE SellerOf[s]
        BY <2>3
      <4>4. timeline[s][i].by # q
        BY <3>5
      <4>5. QED
        BY <4>1, <4>2, <4>3, <4>4
    <3>9. /\ pc'[q] = "ok" /\ call'[q].ship = s
          /\ call'[q].user = IF call'[q].op = "update" THEN PartnerOf[s] ELSE SellerOf[s]
      BY <3>1, <3>3, <3>4
    <3>10. ASSUME NEW i \in 1..Len(timeline'[s]), NEW j \in 1..Len(timeline'[s]),
                  timeline'[s][j].by = timeline'[s][i].by
           PROVE  j = i
      <4>1. CASE i \in 1..Len(timeline[s]) /\ j \in 1..Len(timeline[s])
        <5>1. timeline[s][j].by = timeline[s][i].by
          BY <3>8, <3>10, <4>1
        <5>2. QED
          BY <2>3, <4>1, <5>1
      <4>2. CASE i \in 1..Len(timeline[s]) /\ j = Len(timeline'[s])
        BY <3>7, <3>8, <3>10, <4>2
      <4>3. CASE i = Len(timeline'[s]) /\ j \in 1..Len(timeline[s])
        BY <3>7, <3>8, <3>10, <4>3
      <4>4. QED
        BY <3>6, <4>1, <4>2, <4>3
    <3>11. ASSUME NEW i \in 1..Len(timeline'[s])
           PROVE  /\ pc'[timeline'[s][i].by] = "ok"
                  /\ call'[timeline'[s][i].by].ship = s
                  /\ call'[timeline'[s][i].by].user =
                       IF call'[timeline'[s][i].by].op = "update"
                       THEN PartnerOf[s] ELSE SellerOf[s]
      <4>1. CASE i \in 1..Len(timeline[s])
        BY <3>8, <4>1
      <4>2. CASE i = Len(timeline'[s])
        BY <3>7, <3>9, <4>2
      <4>3. QED
        BY <3>6, <4>1, <4>2
    <3>12. QED
      BY <3>10, <3>11
  <2>6. QED
    BY <2>4, <2>5
<1>3. QED
  BY <1>1, <1>2 DEF PartiesInv, EventsByParties

\* Every event of a timeline was added by the seller or the assigned partner of
\* that shipment, and no request adds two.
THEOREM EventsOnlyByParties == Spec => []EventsByParties
<1>1. Init => Typed /\ PartiesInv
  BY InitTyped, InitParties
<1>2. (Typed /\ PartiesInv) /\ [Next]_vars => (Typed /\ PartiesInv)'
  BY StepTyped, StepParties
<1>3. Typed /\ PartiesInv => EventsByParties
  BY DEF PartiesInv
<1>4. QED
  BY <1>1, <1>2, <1>3, PTL DEF Spec

(***************************************************************************)
(* Cancellations.                                                           *)
(***************************************************************************)
LEMMA StepOpenCancel ==
  Typed /\ HandoverInv /\ OpenCancelInv /\ [Next]_vars => OpenCancelInv'
<1> SUFFICES ASSUME Typed, HandoverInv, OpenCancelInv, [Next]_vars, NEW r \in Req,
                    pc'[r] \in Accepted, call'[r].op = "cancel"
             PROVE  seen'[r].status \notin Closed
  BY DEF OpenCancelInv
<1>1. CASE pc[r] \in Accepted
  BY <1>1, CallIsFixed, CopyIsFixed DEF OpenCancelInv, Accepted
<1>2. CASE pc[r] \notin Accepted
  <2>1. /\ call'[r] = call[r]
        /\ pc[r] = "refresh" \/ (pc[r] = "loaded" /\ call[r].op = "update")
           \/ (pc[r] = "loaded" /\ ~CancelRefused(r))
    BY <1>2, AcceptedAfterChecks
  <2>2. pc[r] # "refresh"
    BY <2>1 DEF HandoverInv, DeliveriesInv, DeliveryOK
  <2>3. pc[r] = "loaded" /\ ~CancelRefused(r)
    BY <2>1, <2>2
  <2>4. seen'[r] = seen[r]
    BY <2>3, CopyIsFixed
  <2>5. QED
    BY <2>3, <2>4 DEF CancelRefused
<1>3. QED
  BY <1>1, <1>2

\* What a recorded event says of its request stays as it is.
LEMMA RecordedStays ==
  ASSUME Typed, EventsInv, [Next]_vars, NEW s \in Shipments, NEW i \in 1..Len(timeline[s])
  PROVE  /\ call'[timeline[s][i].by] = call[timeline[s][i].by]
         /\ seen'[timeline[s][i].by] = seen[timeline[s][i].by]
<1>1. timeline[s][i].by \in Req /\ pc[timeline[s][i].by] = "ok"
  BY EventAuthors DEF EventsInv
<1>2. QED
  BY <1>1, CallIsFixed, CopyIsFixed

LEMMA StepLateCancel ==
  Typed /\ DriftInv /\ OpenCancelInv /\ LateCancelIsRaced /\ [Next]_vars => LateCancelIsRaced'
<1> SUFFICES ASSUME Typed, DriftInv, OpenCancelInv, LateCancelIsRaced, [Next]_vars,
                    NEW s \in Shipments, NEW i \in 2..Len(timeline'[s]),
                    call'[timeline'[s][i].by].op = "cancel",
                    timeline'[s][i-1].status \in Closed
             PROVE  \/ seen'[timeline'[s][i].by].events < i - 1
                    \/ seen'[timeline'[s][i-1].by].events < (i - 1) - 1
  BY DEF LateCancelIsRaced, Overtaken
<1>1. EventsInv /\ SnapshotInv /\ DriftIsRaced
  BY DEF DriftInv
<1>2. timeline[s] \in Seq(Event) /\ Len(timeline[s]) \in Nat
  BY DEF Typed, TypeOK
<1>3. ASSUME i \in 2..Len(timeline[s]),
             timeline'[s][i] = timeline[s][i], timeline'[s][i-1] = timeline[s][i-1]
      PROVE  \/ seen'[timeline'[s][i].by].events < i - 1
             \/ seen'[timeline'[s][i-1].by].events < (i - 1) - 1
  <2>1. i \in 1..Len(timeline[s]) /\ i - 1 \in 1..Len(timeline[s])
    BY <1>2, <1>3
  <2>2. /\ call'[timeline[s][i].by] = call[timeline[s][i].by]
        /\ seen'[timeline[s][i].by] = seen[timeline[s][i].by]
        /\ seen'[timeline[s][i-1].by] = seen[timeline[s][i-1].by]
    BY <1>1, <2>1, RecordedStays
  <2>3. Overtaken(s, i) \/ Overtaken(s, i - 1)
    BY <1>3, <2>2 DEF LateCancelIsRaced
  <2>4. QED
    BY <1>3, <2>2, <2>3 DEF Overtaken
<1>4. CASE timeline'[s] = timeline[s]
  BY <1>3, <1>4
<1>5. CASE timeline'[s] # timeline[s]
  <2>1. PICK q \in Req : CommitEvent(q) /\ call[q].ship = s
    BY <1>5, TimelineChange
  <2>2. /\ Len(timeline'[s]) = Len(timeline[s]) + 1
        /\ timeline'[s][Len(timeline'[s])] = [status |-> target[q], by |-> q]
        /\ \A j \in 1..Len(timeline[s]) : timeline'[s][j] = timeline[s][j]
    BY <2>1, CommitAppends
  <2>3. CASE i \in 2..Len(timeline[s])
    <3>1. i \in 1..Len(timeline[s]) /\ i - 1 \in 1..Len(timeline[s])
      BY <1>2, <2>3
    <3>2. QED
      BY <1>3, <2>2, <2>3, <3>1
  <2>4. CASE i = Len(timeline[s]) + 1
    <3>1. Len(timeline[s]) \in 1..Len(timeline[s]) /\ i - 1 = Len(timeline[s])
      BY <1>2, <2>2, <2>4
    <3>2. /\ timeline'[s][i].by = q /\ timeline'[s][i-1] = timeline[s][Len(timeline[s])]
          /\ timeline[s] # <<>>
      BY <2>2, <2>4, <3>1
    <3>3. /\ call' = call /\ seen' = seen /\ pc[q] = "commit"
      BY <2>1 DEF CommitEvent
    <3>4. seen[q].status \notin Closed
      BY <3>2, <3>3 DEF OpenCancelInv, Accepted
    <3>5. SnapshotOK(q) /\ seen[q].events \in Nat
      BY <1>1 DEF SnapshotInv, Typed, TypeOK, Snapshot
    <3>6. seen[q].events <= Len(timeline[s]) /\ seen[q].status # None
      BY <2>1, <3>3, <3>5 DEF SnapshotOK, Loaded, Accepted
    <3>7. CASE seen[q].events = Len(timeline[s])
      <4>1. status[s] = seen[q].status
        BY <2>1, <3>3, <3>5, <3>6, <3>7 DEF SnapshotOK, Loaded, FreshCopy
      <4>2. Drifted(s)
        BY <3>2, <3>4, <4>1 DEF Drifted, LatestStatus
      <4>3. seen[timeline[s][Len(timeline[s])].by].events < Len(timeline[s]) - 1
        BY <1>1, <4>2 DEF DriftIsRaced
      <4>4. QED
        BY <3>1, <3>2, <3>3, <4>3
    <3>8. CASE seen[q].events # Len(timeline[s])
      BY <1>2, <3>1, <3>2, <3>3, <3>5, <3>6, <3>8
    <3>9. QED
      BY <3>7, <3>8
  <2>5. QED
    BY <1>2, <2>2, <2>3, <2>4
<1>6. QED
  BY <1>4, <1>5

\* A cancellation recorded after a closing event was overtaken by that event, or
\* the event was recorded by a request that had been overtaken itself.
THEOREM LateCancelOnlyByRace == Spec => []LateCancelIsRaced
<1>1. Init => OpenCancelInv /\ LateCancelIsRaced
  BY DEF Init, OpenCancelInv, Accepted, LateCancelIsRaced
<1>2. /\ Typed /\ HandoverInv /\ DriftInv
      /\ OpenCancelInv /\ LateCancelIsRaced /\ [Next]_vars
      => (OpenCancelInv /\ LateCancelIsRaced)'
  BY StepOpenCancel, StepLateCancel
<1>3. QED
  BY HandoverInvariant, DriftInvariant, <1>1, <1>2, PTL DEF Spec

-----------------------------------------------------------------------------
(* What is announced, and which codes were sent.                           *)

(***************************************************************************)
(* How a request moves past _notify, and how a mail leaves it.              *)
(***************************************************************************)
LEMMA OutboxGrows ==
  ASSUME Typed, [Next]_vars
  PROVE  outbox \subseteq outbox'
<1>1. ASSUME NEW q \in Req, Receive(q) PROVE outbox \subseteq outbox'
  BY <1>1 DEF Receive, LoadRows, InsertShipment, NoPartnerAvailable, ReadForReview
<1>2. ASSUME NEW q \in Req, Serve(q) \/ PublishFails(q) PROVE outbox \subseteq outbox'
  BY <1>2 DEF Serve, LoadTimeline, RefreshShipment, Refuse, AcceptCancel, AcceptUpdate,
     UpdateRowOnly, BurnCode, NoLatestEvent, ComposeEvent, ComposeDispatch,
     VerifyCode, CommitEvent, CommitReview, Publish, PublishFails
<1>3. CASE Crash \/ UNCHANGED vars \/ \E t \in Shipments : ExpireCode(t)
  BY <1>3 DEF Crash, vars, ExpireCode
<1>4. QED
  BY <1>1, <1>2, <1>3 DEF Next

LEMMA TargetIsFixed ==
  ASSUME Typed, [Next]_vars, NEW r \in Req, pc[r] # "event"
  PROVE  target'[r] = target[r]
<1> USE DEF Typed, TypeOK
<1>1. ASSUME NEW q \in Req, Receive(q) PROVE target'[r] = target[r]
  BY <1>1 DEF Receive, LoadRows, InsertShipment, NoPartnerAvailable, ReadForReview
<1>2. ASSUME NEW q \in Req, Serve(q) \/ PublishFails(q) PROVE target'[r] = target[r]
  BY <1>2 DEF Serve, LoadTimeline, RefreshShipment, Refuse, AcceptCancel, AcceptUpdate,
     UpdateRowOnly, BurnCode, NoLatestEvent, ComposeEvent, ComposeDispatch,
     VerifyCode, CommitEvent, CommitReview, Publish, PublishFails
<1>3. CASE Crash \/ UNCHANGED vars \/ \E t \in Shipments : ExpireCode(t)
  BY <1>3 DEF Crash, vars, ExpireCode
<1>4. QED
  BY <1>1, <1>2, <1>3 DEF Next

\* A request waits for its COMMIT only behind a publish that succeeded.
LEMMA OnlyPublishCommits ==
  ASSUME Typed, [Next]_vars, NEW r \in Req, pc'[r] = "commit", pc[r] # "commit"
  PROVE  Publish(r)
<1> USE DEF Typed, TypeOK, Goto
<1>1. ASSUME NEW q \in Req, Receive(q) PROVE FALSE
  BY <1>1 DEF Receive, LoadRows, InsertShipment, NoPartnerAvailable, ReadForReview
<1>2. ASSUME NEW q \in Req, Serve(q) \/ PublishFails(q), ~Publish(q) PROVE FALSE
  BY <1>2 DEF Serve, LoadTimeline, RefreshShipment, Refuse, AcceptCancel, AcceptUpdate,
     UpdateRowOnly, BurnCode, NoLatestEvent, ComposeEvent, ComposeDispatch,
     VerifyCode, CommitEvent, CommitReview, PublishFails
<1>3. ASSUME NEW q \in Req, Publish(q) PROVE q = r
  BY <1>3 DEF Publish
<1>4. CASE Crash \/ UNCHANGED vars \/ \E t \in Shipments : ExpireCode(t)
  BY <1>4 DEF Crash, vars, ExpireCode
<1>5. QED
  BY <1>1, <1>2, <1>3, <1>4 DEF Next, Serve

LEMMA FailedIsFinal ==
  ASSUME Typed, [Next]_vars, NEW r \in Req, pc[r] = "failed"
  PROVE  pc'[r] = "failed"
<1> USE DEF Typed, TypeOK, Goto
<1>1. ASSUME NEW q \in Req, Receive(q) PROVE pc'[r] = "failed"
  BY <1>1 DEF Receive, Arrive, LoadRows, InsertShipment, NoPartnerAvailable, ReadForReview
<1>2. ASSUME NEW q \in Req, Serve(q) \/ PublishFails(q) PROVE pc'[r] = "failed"
  BY <1>2 DEF Serve, LoadTimeline, RefreshShipment, Refuse, AcceptCancel, AcceptUpdate,
     UpdateRowOnly, BurnCode, NoLatestEvent, ComposeEvent, ComposeDispatch,
     VerifyCode, CommitEvent, CommitReview, Publish, PublishFails
<1>3. CASE Crash \/ UNCHANGED vars \/ \E t \in Shipments : ExpireCode(t)
  BY <1>3 DEF Crash, InFlight, Ended, vars, ExpireCode
<1>4. QED
  BY <1>1, <1>2, <1>3 DEF Next

\* From "publish" a request goes on to its COMMIT or fails.
LEMMA AfterPublish ==
  ASSUME Typed, [Next]_vars, NEW r \in Req, pc[r] = "publish"
  PROVE  pc'[r] \in {"publish", "commit", "failed"}
<1> USE DEF Typed, TypeOK, Goto
<1>1. ASSUME NEW q \in Req, Receive(q) PROVE pc'[r] = "publish"
  BY <1>1 DEF Receive, Arrive, LoadRows, InsertShipment, NoPartnerAvailable, ReadForReview
<1>2. ASSUME NEW q \in Req, Serve(q) \/ PublishFails(q)
      PROVE  pc'[r] \in {"publish", "commit", "failed"}
  BY <1>2 DEF Serve, LoadTimeline, RefreshShipment, Refuse, AcceptCancel, AcceptUpdate,
     UpdateRowOnly, BurnCode, NoLatestEvent, ComposeEvent, ComposeDispatch,
     VerifyCode, CommitEvent, CommitReview, Publish, PublishFails
<1>3. CASE Crash \/ UNCHANGED vars \/ \E t \in Shipments : ExpireCode(t)
  BY <1>3 DEF Crash, vars, ExpireCode
<1>4. QED
  BY <1>1, <1>2, <1>3 DEF Next

\* Whoever got a code in this step is about to publish a dispatch.
LEMMA OnlyDispatchIssues ==
  ASSUME Typed, [Next]_vars, NEW r \in Req, issued'[r] # issued[r]
  PROVE  ComposeDispatch(r)
<1> USE DEF Typed, TypeOK
<1>1. ASSUME NEW q \in Req, ComposeDispatch(q) PROVE q = r
  BY <1>1 DEF ComposeDispatch
<1>2. ASSUME NEW q \in Req, Receive(q) \/ Serve(q) \/ PublishFails(q), ~ComposeDispatch(q)
      PROVE  FALSE
  BY <1>2 DEF Receive, Serve, LoadRows, LoadTimeline, InsertShipment, NoPartnerAvailable,
     RefreshShipment, Refuse, AcceptCancel, AcceptUpdate, UpdateRowOnly, BurnCode,
     NoLatestEvent, ComposeEvent, VerifyCode, Publish, PublishFails, CommitEvent,
     ReadForReview, CommitReview
<1>3. CASE Crash \/ UNCHANGED vars \/ \E t \in Shipments : ExpireCode(t)
  BY <1>3 DEF Crash, vars, ExpireCode
<1>4. QED
  BY <1>1, <1>2, <1>3 DEF Next

(***************************************************************************)
(* The invariant.                                                           *)
(***************************************************************************)
LEMMA StepAnnounced == Typed /\ AnnouncedInv /\ [Next]_vars => AnnouncedInv'
<1> SUFFICES ASSUME Typed, AnnouncedInv, [Next]_vars, NEW r \in Req, pc'[r] = "commit"
             PROVE  Announced(call[r].ship, r, target[r])'
  BY DEF AnnouncedInv
<1>1. CASE pc[r] = "commit"
  <2>1. Announced(call[r].ship, r, target[r])
    BY <1>1 DEF AnnouncedInv
  <2>2. call'[r] = call[r] /\ target'[r] = target[r]
    BY <1>1, CallIsFixed, TargetIsFixed
  <2>3. QED
    BY <2>1, <2>2, OutboxGrows DEF Announced, Told
<1>2. CASE pc[r] # "commit"
  <2>1. Publish(r)
    BY <1>2, OnlyPublishCommits
  <2>2. /\ call' = call /\ target' = target
        /\ Texts(r) \subseteq outbox' /\ Mails(r) \subseteq outbox'
    BY <2>1 DEF Publish
  <2>3. call[r].ship \in HasEmail => (\E m \in outbox' :
          m.ship = call[r].ship /\ m.channel = "mail" /\ m.kind = target[r] /\ m.by = r)
    <3>1. ASSUME call[r].ship \in HasEmail PROVE MessageOf(r, "mail") \in outbox'
      BY <2>2, <3>1 DEF Mails
    <3>2. QED
      BY <3>1 DEF MessageOf
  <2>4. call[r].ship \in HasPhone /\ target[r] = "out_for_delivery" =>
          (\E m \in outbox' :
             m.ship = call[r].ship /\ m.channel = "sms" /\ m.kind = target[r] /\ m.by = r)
    <3>1. ASSUME call[r].ship \in HasPhone, target[r] = "out_for_delivery"
          PROVE MessageOf(r, "sms") \in outbox'
      BY <2>2, <3>1 DEF Texts
    <3>2. QED
      BY <3>1 DEF MessageOf
  <2>5. QED
    BY <2>2, <2>3, <2>4 DEF Announced, Told
<1>3. QED
  BY <1>1, <1>2

LEMMA StepNoSilentEvent ==
  Typed /\ AnnouncedInv /\ NoSilentEvent /\ [Next]_vars => NoSilentEvent'
<1> SUFFICES ASSUME Typed, AnnouncedInv, NoSilentEvent, [Next]_vars,
                    NEW s \in Shipments, NEW i \in 1..Len(timeline'[s])
             PROVE  Announced(s, timeline[s][i].by, timeline[s][i].status)'
  BY DEF NoSilentEvent
<1>1. timeline[s] \in Seq(Event) /\ Len(timeline[s]) \in Nat
  BY DEF Typed, TypeOK
<1>2. ASSUME i \in 1..Len(timeline[s]), timeline'[s][i] = timeline[s][i]
      PROVE  Announced(s, timeline[s][i].by, timeline[s][i].status)'
  <2>1. Announced(s, timeline[s][i].by, timeline[s][i].status)
    BY <1>2 DEF NoSilentEvent
  <2>2. QED
    BY <1>2, <2>1, OutboxGrows DEF Announced, Told
<1>3. CASE timeline'[s] = timeline[s]
  BY <1>2, <1>3
<1>4. CASE timeline'[s] # timeline[s]
  <2>1. PICK q \in Req : CommitEvent(q) /\ call[q].ship = s
    BY <1>4, TimelineChange
  <2>2. /\ Len(timeline'[s]) = Len(timeline[s]) + 1
        /\ timeline'[s][Len(timeline'[s])] = [status |-> target[q], by |-> q]
        /\ \A j \in 1..Len(timeline[s]) : timeline'[s][j] = timeline[s][j]
    BY <2>1, CommitAppends
  <2>3. i \in 1..Len(timeline[s]) \/ i = Len(timeline'[s])
    BY <1>1, <2>2
  <2>4. CASE i = Len(timeline'[s])
    <3>1. timeline'[s][i].by = q /\ timeline'[s][i].status = target[q]
      BY <2>2, <2>4
    <3>2. Announced(s, q, target[q])
      BY <2>1 DEF AnnouncedInv, CommitEvent
    <3>3. QED
      BY <3>1, <3>2, OutboxGrows DEF Announced, Told
  <2>5. QED
    BY <1>2, <2>2, <2>3, <2>4
<1>5. QED
  BY <1>3, <1>4

LEMMA StepIssued ==
  Typed /\ HandoverInv /\ IssuedInv /\ [Next]_vars => IssuedInv'
<1> SUFFICES ASSUME Typed, HandoverInv, IssuedInv, [Next]_vars,
                    NEW r \in Req, issued'[r] # None
             PROVE  /\ pc'[r] \in {"publish", "failed"} \/ Sent(r)'
                    /\ pc'[r] = "publish" => target'[r] = "out_for_delivery"
  BY DEF IssuedInv
<1>1. CASE issued'[r] # issued[r]
  <2>1. ComposeDispatch(r)
    BY <1>1, OnlyDispatchIssues
  <2>2. pc'[r] = "publish" /\ target'[r] = "out_for_delivery"
    BY <2>1 DEF ComposeDispatch, Goto, Typed, TypeOK
  <2>3. QED
    BY <2>2
<1>2. CASE issued'[r] = issued[r]
  <2>1. pc[r] \in {"publish", "commit"} \cup Ended
    BY <1>2 DEF HandoverInv, CodesInv
  <2>2. call'[r] = call[r] /\ target'[r] = target[r]
    BY <2>1, CallIsFixed, TargetIsFixed DEF Ended
  <2>3. CASE Sent(r)
    <3>1. Sent(r)'
      BY <1>2, <2>2, <2>3, OutboxGrows DEF Sent
    <3>2. pc[r] # "publish" => pc'[r] # "publish"
      <4>1. ASSUME NEW q \in Req, ComposeEvent(q) \/ ComposeDispatch(q), pc[r] # "publish"
            PROVE  pc'[r] # "publish"
        BY <2>1, <4>1 DEF ComposeEvent, ComposeDispatch, Goto, Typed, TypeOK, Ended
      <4>2. ASSUME NEW q \in Req, Receive(q) \/ Serve(q) \/ PublishFails(q), pc[r] # "publish",
                   ~ComposeEvent(q), ~ComposeDispatch(q)
            PROVE  pc'[r] # "publish"
        BY <4>2 DEF Receive, Serve, LoadRows, LoadTimeline, InsertShipment,
           NoPartnerAvailable, RefreshShipment, Refuse, AcceptCancel, AcceptUpdate,
           UpdateRowOnly, BurnCode, NoLatestEvent, VerifyCode, Publish, PublishFails,
           CommitEvent, ReadForReview, CommitReview, Goto, Typed, TypeOK
      <4>3. CASE Crash \/ UNCHANGED vars \/ \E t \in Shipments : ExpireCode(t)
        BY <4>3 DEF Crash, vars, ExpireCode, Typed, TypeOK
      <4>4. QED
        BY <4>1, <4>2, <4>3 DEF Next
    <3>3. QED
      BY <1>2, <2>2, <3>1, <3>2 DEF IssuedInv
  <2>4. CASE pc[r] = "failed"
    BY <2>4, FailedIsFinal
  <2>5. CASE pc[r] = "publish"
    <3>1. target[r] = "out_for_delivery"
      BY <1>2, <2>5 DEF IssuedInv
    <3>2. CASE pc'[r] = "commit"
      <4>1. Publish(r)
        BY <2>5, <3>2, OnlyPublishCommits
      <4>2. Texts(r) \subseteq outbox' /\ Mails(r) \subseteq outbox'
        BY <4>1 DEF Publish
      <4>3. call[r].ship \in HasEmail \cup HasPhone
        BY <2>5, CallFields, ShipmentAssumption DEF Typed, PhaseOK
      <4>4. MessageOf(r, "sms") \in outbox' \/ MessageOf(r, "mail") \in outbox'
        BY <3>1, <4>2, <4>3 DEF Texts, Mails
      <4>5. QED
        BY <1>2, <2>2, <3>2, <4>4 DEF MessageOf, Sent
    <3>3. QED
      BY <2>2, <2>5, <3>1, <3>2, AfterPublish
  <2>6. QED
    BY <1>2, <2>3, <2>4, <2>5 DEF IssuedInv
<1>3. QED
  BY <1>1, <1>2

LEMMA MailInvariant == Spec => []MailInv
<1>1. Init => MailInv
  BY DEF Init, MailInv, AnnouncedInv, NoSilentEvent, IssuedInv
<1>2. Typed /\ HandoverInv /\ MailInv /\ [Next]_vars => MailInv'
  BY StepAnnounced, StepNoSilentEvent, StepIssued DEF MailInv
<1>3. QED
  BY HandoverInvariant, <1>1, <1>2, PTL DEF Spec

\* The buyer was told of every event on record, on every channel given for the
\* shipment, by the request that recorded it.
THEOREM EveryEventIsAnnounced == Spec => []NoSilentEvent
<1>1. MailInv => NoSilentEvent
  BY DEF MailInv
<1>2. QED
  BY MailInvariant, <1>1, PTL

\* A code in Redis is one the buyer was sent or is about to be sent, or the
\* request that stored it failed in between.
THEOREM StoredCodeReachesBuyer == Spec => []StoredCodeIsSent
<1>1. HandoverInv /\ MailInv => StoredCodeIsSent
  <2> SUFFICES ASSUME HandoverInv, MailInv, NEW s \in Shipments, otp[s] # None
               PROVE  \E q \in Req :
                        /\ issued[q] = otp[s] /\ call[q].ship = s
                        /\ \/ pc[q] \in {"publish", "failed"}
                           \/ \E m \in outbox : m.by = q /\ m.code = otp[s] /\ m.ship = s
    BY DEF StoredCodeIsSent
  <2>1. PICK q \in Req : issued[q] = otp[s] /\ call[q].ship = s
    BY DEF HandoverInv, CodesInv
  <2>2. pc[q] \in {"publish", "failed"} \/ Sent(q)
    BY <2>1 DEF MailInv, IssuedInv
  <2>3. QED
    BY <2>1, <2>2 DEF Sent
<1>2. QED
  BY HandoverInvariant, MailInvariant, <1>1, PTL

-----------------------------------------------------------------------------
(* What overlapping requests can add up to.                                *)

\* A step moves one request, which arrives if it is new, or breaks some off.
LEMMA OneMoves ==
  ASSUME Typed, [Next]_vars
  PROVE  \/ \E q \in Req :
              /\ \A r \in Req : r # q => pc'[r] = pc[r]
              /\ pc[q] = "new" => \E c \in Calls : Arrive(q, c)
              /\ pc[q] \in Ended => pc'[q] = pc[q]
         \/ \A r \in Req : pc'[r] = pc[r] \/ (r \in InFlight /\ pc'[r] = "failed")
<1> USE DEF Typed, TypeOK, Goto, Ended
<1>1. ASSUME NEW q \in Req, Receive(q)
      PROVE  /\ \A r \in Req : r # q => pc'[r] = pc[r]
             /\ \E c \in Calls : Arrive(q, c)
             /\ pc[q] = "new"
  BY <1>1 DEF Receive, Arrive, LoadRows, InsertShipment, NoPartnerAvailable, ReadForReview
<1>2. ASSUME NEW q \in Req, Serve(q) \/ PublishFails(q)
      PROVE  /\ \A r \in Req : r # q => pc'[r] = pc[r]
             /\ pc[q] \notin {"new"} \cup Ended
  BY <1>2 DEF Serve, LoadTimeline, RefreshShipment, Refuse, AcceptCancel, AcceptUpdate,
     UpdateRowOnly, BurnCode, NoLatestEvent, ComposeEvent, ComposeDispatch,
     VerifyCode, CommitEvent, CommitReview, Publish, PublishFails
<1>3. CASE Crash \/ UNCHANGED vars \/ \E t \in Shipments : ExpireCode(t)
  <2>1. \A r \in Req : pc'[r] = pc[r] \/ (r \in InFlight /\ pc'[r] = "failed")
    BY <1>3 DEF Crash, vars, ExpireCode
  <2> QED
    BY <2>1
<1>4. QED
  BY <1>1, <1>2, <1>3 DEF Next

LEMMA CardinalityWithin ==
  ASSUME NEW T, IsFiniteSet(T), NEW S \in SUBSET T, NEW n \in Nat, Cardinality(T) <= n
  PROVE  IsFiniteSet(S) /\ Cardinality(S) \in Nat /\ Cardinality(S) <= n
<1>1. /\ IsFiniteSet(S) /\ Cardinality(S) \in Nat /\ Cardinality(T) \in Nat
      /\ Cardinality(S) <= Cardinality(T)
  BY FS_Subset, FS_CardinalityType
<1> QED
  BY <1>1

\* Requests in flight, or fewer, are within the bound.
LEMMA FewInFlight ==
  ASSUME BusyInv, NEW S \in SUBSET InFlight
  PROVE  IsFiniteSet(S) /\ Cardinality(S) \in Nat /\ Cardinality(S) <= MaxInFlight
<1>1. IsFiniteSet(InFlight)
  <2>1. InFlight \subseteq {r \in Req : pc[r] # "new"}
    BY DEF InFlight
  <2> QED
    BY <2>1, FS_Subset DEF BusyInv
<1> QED
  BY <1>1, CardinalityWithin, BoundAssumption DEF BusyInv

LEMMA StepBusy == Typed /\ BusyInv /\ [Next]_vars => BusyInv'
<1> SUFFICES ASSUME Typed, BusyInv, [Next]_vars PROVE BusyInv'
  OBVIOUS
<1> DEFINE Known == {r \in Req : pc[r] # "new"}
<1>1. IsFiniteSet(Known) /\ IsFiniteSet(InFlight) /\ Cardinality(InFlight) \in Nat
  <2>1. InFlight \subseteq Known
    BY DEF InFlight
  <2> QED
    BY <2>1, FS_Subset, FS_CardinalityType DEF BusyInv
<1>2. CASE \E q \in Req : /\ \A r \in Req : r # q => pc'[r] = pc[r]
                          /\ pc[q] = "new" => \E c \in Calls : Arrive(q, c)
                          /\ pc[q] \in Ended => pc'[q] = pc[q]
  <2> PICK q \in Req : /\ \A r \in Req : r # q => pc'[r] = pc[r]
                       /\ pc[q] = "new" => \E c \in Calls : Arrive(q, c)
                       /\ pc[q] \in Ended => pc'[q] = pc[q]
    BY <1>2
  <2>1. Known' \subseteq Known \cup {q} /\ InFlight' \subseteq InFlight \cup {q}
    BY DEF InFlight
  <2>2. IsFiniteSet(Known') /\ IsFiniteSet(InFlight \cup {q})
    BY <1>1, <2>1, FS_AddElement, FS_Subset
  <2>3. CASE q \in InFlight \/ pc[q] \in Ended
    <3>1. InFlight' \subseteq InFlight
      BY <2>1, <2>3 DEF InFlight
    <3> QED
      BY <1>1, <2>2, <3>1, FewInFlight DEF BusyInv
  <2>4. CASE q \notin InFlight /\ pc[q] \notin Ended
    <3>1. Cardinality(InFlight) < MaxInFlight
      BY <2>4 DEF InFlight, Arrive
    <3>2. Cardinality(InFlight \cup {q}) = Cardinality(InFlight) + 1
      BY <1>1, <2>4, FS_AddElement
    <3>3. Cardinality(InFlight \cup {q}) <= MaxInFlight
      BY <1>1, <3>1, <3>2, BoundAssumption
    <3>4. Cardinality(InFlight') <= MaxInFlight
      BY <2>1, <2>2, <3>3, CardinalityWithin, BoundAssumption
    <3> QED
      BY <2>2, <3>4 DEF BusyInv
  <2> QED
    BY <2>3, <2>4
<1>3. CASE \A r \in Req : pc'[r] = pc[r] \/ (r \in InFlight /\ pc'[r] = "failed")
  <2>1. Known' \subseteq Known /\ InFlight' \subseteq InFlight
    BY <1>3 DEF InFlight, Ended
  <2>2. IsFiniteSet(Known')
    BY <1>1, <2>1, FS_Subset
  <2> QED
    BY <1>1, <2>1, <2>2, FewInFlight DEF BusyInv
<1>4. QED
  BY <1>2, <1>3, OneMoves

\* At no time more requests are served than the bound allows.
LEMMA BusyInvariant == Spec => [](Typed /\ HandoverInv /\ BusyInv)
<1>1. Init => BusyInv
  <2> SUFFICES ASSUME Init PROVE BusyInv
    OBVIOUS
  <2>1. {r \in Req : pc[r] # "new"} = {} /\ InFlight = {}
    BY DEF Init, InFlight
  <2> QED
    BY <2>1, FS_EmptySet, BoundAssumption DEF BusyInv
<1>2. Typed /\ BusyInv /\ [Next]_vars => BusyInv'
  BY StepBusy
<1>3. QED
  BY <1>1, <1>2, HandoverInvariant, PTL DEF Spec

LEMMA EndedIsFinal ==
  ASSUME Typed, [Next]_vars, NEW r \in Req, pc[r] \in Ended
  PROVE  pc'[r] = pc[r]
  BY OneMoves DEF InFlight

\* Who comes to store a review, and who stores it.
LEMMA ReviewSteps ==
  ASSUME Typed, [Next]_vars
  PROVE  /\ \A r \in Req : pc'[r] = "review" /\ pc[r] # "review" =>
              /\ pc[r] = "new" /\ reviews' = reviews /\ reviews[call'[r].ship] = {}
         /\ \/ reviews' = reviews
            \/ \E q \in Req : /\ pc[q] = "review" /\ pc'[q] = "ok"
                              /\ reviews' = [reviews EXCEPT ![call[q].ship] = @ \cup {q}]
<1> USE DEF Typed, TypeOK, Goto
<1>1. ASSUME NEW q \in Req, NEW c \in Calls, ReadForReview(q, c)
      PROVE  /\ reviews' = reviews /\ pc[q] = "new"
             /\ pc'[q] = "review" => reviews[call'[q].ship] = {}
             /\ \A r \in Req : r # q => pc'[r] = pc[r]
  BY <1>1 DEF ReadForReview, Arrive, AlreadyReviewed, database
<1>2. ASSUME NEW q \in Req, CommitReview(q)
      PROVE  /\ \A r \in Req : pc'[r] = "review" => pc[r] = "review"
             /\ pc[q] = "review" /\ pc'[q] = "ok"
             /\ reviews' = [reviews EXCEPT ![call[q].ship] = @ \cup {q}]
  BY <1>2 DEF CommitReview
<1>3. ASSUME NEW q \in Req, Receive(q) \/ Serve(q) \/ PublishFails(q),
             ~\E c \in Calls : ReadForReview(q, c), ~CommitReview(q)
      PROVE  reviews' = reviews /\ \A r \in Req : pc'[r] = "review" => pc[r] = "review"
  BY <1>3 DEF Receive, Serve, LoadRows, InsertShipment, NoPartnerAvailable, LoadTimeline,
     RefreshShipment, Refuse, AcceptCancel, AcceptUpdate, UpdateRowOnly, BurnCode,
     NoLatestEvent, ComposeEvent, ComposeDispatch, VerifyCode, CommitEvent, Publish,
     PublishFails, database
<1>4. CASE Crash \/ UNCHANGED vars \/ \E t \in Shipments : ExpireCode(t)
  BY <1>4 DEF Crash, vars, ExpireCode, database
<1>5. QED
  BY <1>1, <1>2, <1>3, <1>4 DEF Next

LEMMA StepReviewCount ==
  Typed /\ BusyInv /\ ReviewCountInv /\ [Next]_vars => ReviewCountInv'
<1> SUFFICES ASSUME Typed, BusyInv, ReviewCountInv, [Next]_vars, NEW s \in Shipments
             PROVE  ReviewCountOK(s)'
  BY DEF ReviewCountInv
<1>1. /\ IsFiniteSet(reviews[s])
      /\ reviews[s] # {} => Cardinality(reviews[s] \cup Reviewing(s)) <= MaxInFlight
  BY DEF ReviewCountInv, ReviewCountOK
<1>2. IsFiniteSet(Reviewing(s)) /\ Cardinality(Reviewing(s)) <= MaxInFlight
  <2>1. Reviewing(s) \subseteq InFlight
    BY DEF Reviewing, InFlight, Ended
  <2> QED
    BY <2>1, FewInFlight
<1>3. IsFiniteSet(reviews[s] \cup Reviewing(s))
  BY <1>1, <1>2, FS_Union
<1>4. \A r \in Reviewing(s)' : r \in Reviewing(s) \/ (reviews' = reviews /\ reviews[s] = {})
  <2> SUFFICES ASSUME NEW r \in Req, pc'[r] = "review", call'[r].ship = s
               PROVE  r \in Reviewing(s) \/ (reviews' = reviews /\ reviews[s] = {})
    BY DEF Reviewing
  <2>1. CASE pc[r] = "review"
    BY <2>1, CallIsFixed DEF Reviewing
  <2>2. CASE pc[r] # "review"
    BY <2>2, ReviewSteps
  <2> QED
    BY <2>1, <2>2
<1>5. CASE reviews' = reviews
  <2>1. CASE reviews[s] = {}
    BY <1>1, <1>5, <2>1 DEF ReviewCountOK
  <2>2. CASE reviews[s] # {}
    <3>1. (reviews[s] \cup Reviewing(s))' \subseteq reviews[s] \cup Reviewing(s)
      BY <1>4, <1>5, <2>2
    <3>2. Cardinality((reviews[s] \cup Reviewing(s))') <= MaxInFlight
      BY <1>1, <1>3, <2>2, <3>1, CardinalityWithin, BoundAssumption
    <3> QED
      BY <1>1, <1>5, <3>2 DEF ReviewCountOK
  <2> QED
    BY <2>1, <2>2
<1>6. ASSUME NEW q \in Req, pc[q] = "review",
             reviews' = [reviews EXCEPT ![call[q].ship] = @ \cup {q}]
      PROVE  ReviewCountOK(s)'
  <2>1. /\ reviews'[s] = IF call[q].ship = s THEN reviews[s] \cup {q} ELSE reviews[s]
        /\ call[q].ship = s => q \in Reviewing(s)
    BY <1>6 DEF Typed, TypeOK, Reviewing
  <2>2. CASE reviews' = reviews
    BY <1>5, <2>2
  <2>3. CASE reviews' # reviews
    <3>1. (reviews[s] \cup Reviewing(s))' \subseteq reviews[s] \cup Reviewing(s)
      BY <1>4, <2>1, <2>3
    <3>2. IsFiniteSet(reviews'[s])
      BY <1>3, <3>1, FS_Subset
    <3>3. ASSUME reviews'[s] # {}
          PROVE  Cardinality(reviews[s] \cup Reviewing(s)) <= MaxInFlight
      <4>1. CASE reviews[s] # {}
        BY <1>1, <4>1
      <4>2. CASE reviews[s] = {}
        <5>1. reviews[s] \cup Reviewing(s) = Reviewing(s)
          BY <4>2
        <5> QED
          BY <1>2, <5>1
      <4> QED
        BY <4>1, <4>2
    <3>4. reviews'[s] # {} => Cardinality((reviews[s] \cup Reviewing(s))') <= MaxInFlight
      BY <1>3, <3>1, <3>3, CardinalityWithin, BoundAssumption
    <3> QED
      BY <3>2, <3>4 DEF ReviewCountOK
  <2> QED
    BY <2>2, <2>3
<1> QED
  BY <1>5, <1>6, ReviewSteps

\* rate() looks for a review and inserts one in two steps, and no constraint of
\* the table keeps a second one out: however the requests overlap and break off,
\* a shipment has no more reviews than requests were ever served together.
THEOREM ReviewsAreBounded == Spec => []ReviewsPerShipment
<1>1. Init => ReviewCountInv
  BY FS_EmptySet DEF Init, ReviewCountInv, ReviewCountOK
<1>2. BusyInv /\ ReviewCountInv => ReviewsPerShipment
  <2> SUFFICES ASSUME BusyInv, ReviewCountInv, NEW s \in Shipments
               PROVE  Cardinality(reviews[s]) <= MaxInFlight
    BY DEF ReviewsPerShipment
  <2>1. CASE reviews[s] = {}
    BY <2>1, FS_EmptySet, BoundAssumption
  <2>2. CASE reviews[s] # {}
    <3>1. IsFiniteSet(Reviewing(s))
      <4>1. Reviewing(s) \subseteq InFlight
        BY DEF Reviewing, InFlight, Ended
      <4> QED
        BY <4>1, FewInFlight
    <3>2. /\ IsFiniteSet(reviews[s] \cup Reviewing(s))
          /\ Cardinality(reviews[s] \cup Reviewing(s)) <= MaxInFlight
      BY <2>2, <3>1, FS_Union DEF ReviewCountInv, ReviewCountOK
    <3> QED
      BY <3>2, CardinalityWithin, BoundAssumption
  <2> QED
    BY <2>1, <2>2
<1>3. (Typed /\ HandoverInv /\ BusyInv) /\ ReviewCountInv /\ [Next]_vars => ReviewCountInv'
  BY StepReviewCount
<1>4. QED
  BY <1>1, <1>2, <1>3, BusyInvariant, PTL DEF Spec

LEMMA EntersAccepting ==
  ASSUME Typed, CodesInv, [Next]_vars, NEW s \in Shipments,
         NEW r \in Accepting(s)', r \notin Accepting(s)
  PROVE  VerifyCode(r) /\ CodeAccepted(r) /\ call[r].ship = s
<1>1. /\ r \in Req /\ proved'[r] /\ pc'[r] \in Accepted \cup {"ok"} /\ call'[r].ship = s
  BY DEF Accepting
<1>2. CASE ~proved[r]
  <2>1. VerifyCode(r) /\ CodeAccepted(r)
    BY <1>1, <1>2, OnlyVerifyProves
  <2>2. pc[r] # "new"
    BY <2>1 DEF VerifyCode
  <2> QED
    BY <1>1, <2>1, <2>2, CallIsFixed
<1>3. CASE proved[r]
  <2>1. pc[r] \in AfterCheck /\ pc[r] # "new"
    BY <1>1, <1>3 DEF CodesInv, AfterCheck, Ended
  <2>2. call'[r] = call[r]
    BY <1>1, <2>1, CallIsFixed
  <2>3. pc[r] \in {"refused", "failed"}
    BY <1>1, <1>3, <2>1, <2>2 DEF Accepting, AfterCheck, Accepted, Ended
  <2> QED
    BY <1>1, <2>3, EndedIsFinal DEF Ended, Accepted
<1> QED
  BY <1>2, <1>3

LEMMA GeneratingStays ==
  ASSUME Typed, CodesInv, [Next]_vars, NEW s \in Shipments
  PROVE  Generating(s) \subseteq Generating(s)'
<1> SUFFICES ASSUME NEW q \in Generating(s) PROVE q \in Generating(s)'
  OBVIOUS
<1>1. q \in Req /\ issued[q] # None /\ call[q].ship = s
  BY DEF Generating
<1>2. pc[q] \in {"publish", "commit"} \cup Ended /\ pc[q] # "new"
  BY <1>1 DEF CodesInv, Ended
<1>3. issued'[q] = issued[q] /\ call'[q] = call[q]
  BY <1>1, <1>2, CodeIsKept, CallIsFixed
<1> QED
  BY <1>1, <1>3 DEF Generating

\* DEL comes before anything else that follows the check; a crash may precede it.
LEMMA AfterBurn ==
  ASSUME Typed, [Next]_vars, NEW r \in Req, pc[r] = "burn", pc'[r] # "burn"
  PROVE  otp'[call[r].ship] = None \/ pc'[r] = "failed"
<1> USE DEF Typed, TypeOK, Goto
<1>1. ASSUME NEW q \in Req, BurnCode(q) PROVE otp'[call[r].ship] = None
  <2>1. q = r
    BY <1>1 DEF BurnCode
  <2>2. call[r].ship \in Shipments
    BY CallFields DEF PhaseOK
  <2> QED
    BY <1>1, <2>1, <2>2 DEF BurnCode
<1>2. ASSUME NEW q \in Req, Receive(q) \/ Serve(q) \/ PublishFails(q), ~BurnCode(q)
      PROVE  FALSE
  BY <1>2 DEF Receive, Arrive, LoadRows, InsertShipment, NoPartnerAvailable, ReadForReview,
     Serve, LoadTimeline, RefreshShipment, Refuse, AcceptCancel, AcceptUpdate,
     UpdateRowOnly, NoLatestEvent, ComposeEvent, ComposeDispatch, VerifyCode,
     CommitEvent, CommitReview, Publish, PublishFails
<1>3. CASE Crash \/ UNCHANGED vars \/ \E t \in Shipments : ExpireCode(t)
  BY <1>3 DEF Crash, vars, ExpireCode
<1>4. QED
  BY <1>1, <1>2, <1>3 DEF Next

LEMMA FiniteCounts ==
  ASSUME CodesInv, BusyInv, NEW s \in Shipments
  PROVE  /\ IsFiniteSet(Accepting(s)) /\ Cardinality(Accepting(s)) \in Nat
         /\ IsFiniteSet(Settled(s)) /\ Cardinality(Settled(s)) \in Nat
         /\ IsFiniteSet(Generating(s)) /\ Cardinality(Generating(s)) \in Nat
<1>1. Accepting(s) \subseteq {r \in Req : pc[r] # "new"}
  BY DEF Accepting, Accepted
<1>2. Settled(s) \subseteq {r \in Req : pc[r] # "new"}
  BY <1>1 DEF Settled
<1>3. Generating(s) \subseteq {r \in Req : pc[r] # "new"}
  BY DEF Generating, CodesInv, Ended
<1> QED
  BY <1>1, <1>2, <1>3, FS_Subset, FS_CardinalityType DEF BusyInv

LEMMA FiniteCountsNext ==
  ASSUME CodesInv', BusyInv', NEW s \in Shipments
  PROVE  /\ IsFiniteSet(Generating(s)') /\ Cardinality(Accepting(s)') \in Nat
         /\ Cardinality(Settled(s)') \in Nat /\ Cardinality(Generating(s)') \in Nat
<1>1. Accepting(s)' \subseteq {r \in Req : pc'[r] # "new"}
  BY DEF Accepting, Accepted
<1>2. Settled(s)' \subseteq {r \in Req : pc'[r] # "new"}
  BY <1>1 DEF Settled
<1>3. Generating(s)' \subseteq {r \in Req : pc'[r] # "new"}
  BY DEF Generating, CodesInv, Ended
<1> QED
  BY <1>1, <1>2, <1>3, FS_Subset, FS_CardinalityType DEF BusyInv

LEMMA TimesGrows ==
  ASSUME NEW m \in Nat, NEW g \in Nat, NEW h \in Nat, g <= h
  PROVE  m * g \in Nat /\ m * g <= m * h
<1>1. PICK d \in Nat : h = g + d
  <2>1. h - g \in Nat /\ h = g + (h - g)
    OBVIOUS
  <2> QED
    BY <2>1
<1>2. m * g \in Nat /\ m * d \in Nat /\ m * (g + d) = m * g + m * d
  OBVIOUS
<1> QED
  BY <1>1, <1>2

LEMMA TimesOneMore ==
  ASSUME NEW m \in Nat, NEW g \in Nat, g # 0, NEW k \in Nat, k <= m * (g - 1)
  PROVE  k + m <= m * g
<1>1. PICK d \in Nat : g = d + 1
  <2>1. g - 1 \in Nat /\ g = (g - 1) + 1
    OBVIOUS
  <2> QED
    BY <2>1
<1>2. m * d \in Nat /\ m * (d + 1) = m * d + m /\ g - 1 = d
  BY <1>1
<1> QED
  BY <1>1, <1>2

\* A code in Redis, DEL still to come for some requests: all that was accepted.
LEMMA AcceptedSoFar ==
  ASSUME Typed, HandoverInv, BusyInv, CountInv, NEW s \in Shipments
  PROVE  Cardinality(Accepting(s)) <= MaxInFlight * Cardinality(Generating(s))
<1> DEFINE a == Cardinality(Accepting(s))  g == Cardinality(Generating(s))
           k == Cardinality(Settled(s))    B == Accepting(s) \ Settled(s)
           w == Cardinality(B)
<1>1. /\ IsFiniteSet(Settled(s)) /\ IsFiniteSet(Generating(s))
      /\ a \in Nat /\ g \in Nat /\ k \in Nat
  BY FiniteCounts DEF HandoverInv
<1>2. CASE otp[s] = None
  BY <1>2 DEF CountInv, CountOK
<1>3. CASE otp[s] # None
  <2>1. IsFiniteSet(B) /\ w \in Nat /\ w <= MaxInFlight
    <3>1. B \subseteq InFlight
      BY DEF Accepting, Settled, InFlight, Ended
    <3> QED
      BY <3>1, FewInFlight
  <2>2. a <= k + w
    <3>1. Accepting(s) = Settled(s) \cup B /\ Settled(s) \cap B = {}
      BY DEF Settled
    <3>2. a = k + w - Cardinality({})
      BY <1>1, <2>1, <3>1, FS_Union
    <3> HIDE DEF a, k, w
    <3> QED
      BY <1>1, <2>1, <3>2, FS_EmptySet
  <2>3. g # 0
    <3>1. Generating(s) # {}
      BY <1>3 DEF HandoverInv, CodesInv, Generating
    <3> QED
      BY <1>1, <3>1, FS_EmptySet
  <2>4. k <= MaxInFlight * (g - 1)
    BY <1>3 DEF CountInv, CountOK
  <2> HIDE DEF a, g, k, w
  <2>5. k + MaxInFlight <= MaxInFlight * g
    BY <1>1, <2>3, <2>4, TimesOneMore, BoundAssumption
  <2>6. MaxInFlight * g \in Nat
    BY <1>1, TimesGrows, BoundAssumption
  <2>7. a <= MaxInFlight * g
    BY <1>1, <2>1, <2>2, <2>5, <2>6, BoundAssumption
  <2> QED
    BY <2>7 DEF a, g
<1> QED
  BY <1>2, <1>3

\* Only DEL settles an accepted code, which it removes.
LEMMA EntersSettled ==
  ASSUME Typed, CodesInv, [Next]_vars, NEW s \in Shipments, otp'[s] # None
  PROVE  Settled(s)' \subseteq Settled(s)
<1> SUFFICES ASSUME NEW r \in Settled(s)', r \notin Settled(s) PROVE FALSE
  OBVIOUS
<1>1. /\ r \in Accepting(s)' /\ r \in Req /\ pc'[r] # "burn"
      /\ pc'[r] \in Accepted \cup {"ok"} /\ call'[r].ship = s
  BY DEF Settled, Accepting
<1>2. CASE r \notin Accepting(s)
  <2>1. VerifyCode(r) /\ CodeAccepted(r)
    BY <1>1, <1>2, EntersAccepting
  <2>2. pc'[r] = "burn"
    BY <1>1, <2>1 DEF VerifyCode, Goto, Typed, TypeOK
  <2> QED
    BY <1>1, <2>2
<1>3. CASE r \in Accepting(s)
  <2>1. pc[r] = "burn" /\ call[r].ship = s
    BY <1>3 DEF Settled, Accepting
  <2> QED
    BY <1>1, <2>1, AfterBurn DEF Accepted
<1> QED
  BY <1>2, <1>3

LEMMA StepCount ==
  Typed /\ HandoverInv /\ BusyInv /\ CountInv /\ [Next]_vars => CountInv'
<1> SUFFICES ASSUME Typed, HandoverInv, BusyInv, CountInv, [Next]_vars, NEW s \in Shipments
             PROVE  CountOK(s)'
  BY DEF CountInv
<1>c. CodesInv /\ CodesInv' /\ BusyInv'
  BY StepCodes, StepBusy DEF HandoverInv
<1> DEFINE a == Cardinality(Accepting(s))    b == Cardinality(Accepting(s)')
           k == Cardinality(Settled(s))      l == Cardinality(Settled(s)')
           g == Cardinality(Generating(s))   h == Cardinality(Generating(s)')
<1>1. /\ IsFiniteSet(Accepting(s)) /\ IsFiniteSet(Settled(s)) /\ IsFiniteSet(Generating(s))
      /\ a \in Nat /\ k \in Nat /\ g \in Nat
  BY <1>c, FiniteCounts
<1>2. IsFiniteSet(Generating(s)') /\ b \in Nat /\ l \in Nat /\ h \in Nat
  BY <1>c, FiniteCountsNext
<1>3. g <= h
  BY <1>2, <1>c, GeneratingStays, FS_Subset
<1>4. a <= MaxInFlight * g
  BY AcceptedSoFar
<1>5. CASE otp'[s] = None
  <2>1. Accepting(s)' \subseteq Accepting(s)
    <3> SUFFICES ASSUME NEW r \in Accepting(s)', r \notin Accepting(s) PROVE FALSE
      OBVIOUS
    <3>1. VerifyCode(r) /\ CodeAccepted(r) /\ call[r].ship = s
      BY <1>c, EntersAccepting
    <3> QED
      BY <1>5, <3>1 DEF VerifyCode, CodeAccepted
  <2>2. b <= a
    BY <1>1, <2>1, FS_Subset
  <2> HIDE DEF a, b, g, h
  <2>3. MaxInFlight * g \in Nat /\ MaxInFlight * g <= MaxInFlight * h /\ MaxInFlight * h \in Nat
    BY <1>1, <1>2, <1>3, TimesGrows, BoundAssumption
  <2>4. b <= MaxInFlight * h
    BY <1>1, <1>2, <1>4, <2>2, <2>3
  <2> QED
    BY <1>5, <2>4 DEF b, h, CountOK
<1>6. CASE otp'[s] # None /\ otp[s] = otp'[s]
  <2>1. l <= k
    BY <1>1, <1>c, <1>6, EntersSettled, FS_Subset
  <2>2. k <= MaxInFlight * (g - 1)
    BY <1>6 DEF CountInv, CountOK
  <2>3. g # 0
    <3>1. Generating(s) # {}
      BY <1>c, <1>6 DEF CodesInv, Generating
    <3> QED
      BY <1>1, <3>1, FS_EmptySet
  <2> HIDE DEF k, l, g, h
  <2>4. g - 1 \in Nat /\ h - 1 \in Nat /\ g - 1 <= h - 1
    BY <1>1, <1>2, <1>3, <2>3
  <2>5. /\ MaxInFlight * (g - 1) \in Nat /\ MaxInFlight * (h - 1) \in Nat
        /\ MaxInFlight * (g - 1) <= MaxInFlight * (h - 1)
    BY <2>4, TimesGrows, BoundAssumption
  <2>6. l <= MaxInFlight * (h - 1)
    BY <1>1, <1>2, <2>1, <2>2, <2>5
  <2> QED
    BY <1>6, <2>6 DEF l, h, CountOK
<1>7. CASE otp'[s] # None /\ otp[s] # otp'[s]
  <2>1. PICK r \in Req : ComposeDispatch(r) /\ call[r].ship = s /\ issued'[r] = otp'[s]
    BY <1>7, OnlyDispatchStores
  <2>2. r \in Generating(s)' /\ r \notin Generating(s)
    BY <1>c, <1>7, <2>1 DEF Generating, CodesInv, Ended, ComposeDispatch
  <2>3. g # h
    BY <1>2, <1>c, <2>2, GeneratingStays, FS_Subset
  <2>4. l <= a
    <3>1. Settled(s)' \subseteq Accepting(s)
      BY <1>c, <1>7, EntersSettled DEF Settled
    <3> QED
      BY <1>1, <3>1, FS_Subset
  <2> HIDE DEF a, l, g, h
  <2>5. h - 1 \in Nat /\ g <= h - 1
    BY <1>1, <1>2, <1>3, <2>3
  <2>6. /\ MaxInFlight * g \in Nat /\ MaxInFlight * (h - 1) \in Nat
        /\ MaxInFlight * g <= MaxInFlight * (h - 1)
    BY <1>1, <2>5, TimesGrows, BoundAssumption
  <2>7. l <= MaxInFlight * (h - 1)
    BY <1>1, <1>2, <1>4, <2>4, <2>6
  <2> QED
    BY <1>7, <2>7 DEF l, h, CountOK
<1> QED
  BY <1>5, <1>6, <1>7

\* GET and DEL of a delivery code are two calls: the requests in flight at the
\* same time may all pass with one code, but nobody after them does, however
\* requests overlap, crash or fail and codes are drawn again or expire.
THEOREM DeliveriesAreBounded == Spec => []DeliveriesPerCode
<1>1. Init => CountInv
  <2> SUFFICES ASSUME Init, NEW s \in Shipments PROVE CountOK(s)
    BY DEF CountInv
  <2>1. otp[s] = None /\ Accepting(s) = {} /\ Generating(s) = {}
    BY DEF Init, Accepting, Generating
  <2> QED
    BY <2>1, FS_EmptySet, BoundAssumption DEF CountOK
<1>2. Typed /\ HandoverInv /\ BusyInv /\ CountInv => DeliveriesPerCode
  <2> SUFFICES ASSUME Typed, HandoverInv, BusyInv, CountInv, NEW s \in Shipments
               PROVE  Cardinality(Delivering(s)) <= MaxInFlight * Cardinality(Generating(s))
    BY DEF DeliveriesPerCode
  <2> DEFINE n == MaxInFlight * Cardinality(Generating(s))
  <2>1. IsFiniteSet(Accepting(s)) /\ Cardinality(Generating(s)) \in Nat
    BY FiniteCounts DEF HandoverInv
  <2>2. n \in Nat /\ Cardinality(Accepting(s)) <= n
    BY <2>1, AcceptedSoFar, TimesGrows, BoundAssumption
  <2>3. Delivering(s) \subseteq Accepting(s)
    BY DEF Delivering, Accepting
  <2> HIDE DEF n
  <2>4. Cardinality(Delivering(s)) <= n
    BY <2>1, <2>2, <2>3, CardinalityWithin
  <2> QED
    BY <2>4 DEF n
<1>3. (Typed /\ HandoverInv /\ BusyInv) /\ CountInv /\ [Next]_vars => CountInv'
  BY StepCount
<1>4. QED
  BY <1>1, <1>2, <1>3, BusyInvariant, PTL DEF Spec
=============================================================================
