--------------------------- MODULE DeliveryPromise ---------------------------
(***************************************************************************)
(* What the delivery code promises of every shipment, and nothing else: a    *)
(* code is drawn, a code is shown at the door, a delivery is recorded, a     *)
(* review is left.  Each is possible only after the one before it (a review   *)
(* after the code was shown), and none of them is ever taken back.           *)
(***************************************************************************)
CONSTANT Shipments

VARIABLES
  coded,      \* shipments a code was drawn for
  shown,      \* shipments whose code was shown to the partner
  delivered,  \* shipments with a delivery on record
  reviewed    \* shipments with a review

vars == <<coded, shown, delivered, reviewed>>

Init == coded = {} /\ shown = {} /\ delivered = {} /\ reviewed = {}

DrawCode(s) == coded' = coded \cup {s} /\ UNCHANGED <<shown, delivered, reviewed>>

ShowCode(s) ==
  /\ s \in coded
  /\ shown' = shown \cup {s}
  /\ UNCHANGED <<coded, delivered, reviewed>>

RecordDelivery(s) ==
  /\ s \in shown
  /\ delivered' = delivered \cup {s}
  /\ UNCHANGED <<coded, shown, reviewed>>

LeaveReview(s) ==
  /\ s \in shown
  /\ reviewed' = reviewed \cup {s}
  /\ UNCHANGED <<coded, shown, delivered>>

Next == \E s \in Shipments :
  DrawCode(s) \/ ShowCode(s) \/ RecordDelivery(s) \/ LeaveReview(s)

Spec == Init /\ [][Next]_vars
=============================================================================
