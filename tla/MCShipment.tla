------------------------------ MODULE MCShipment ------------------------------
(* Instances of the shipment life cycle for TLC. *)
EXTENDS ShipmentInvariants

CONSTANTS s1, s2, alice, bob, pat, quinn, c1, c2

OneShipment == {s1}
OneCode == {c1}
TwoCodes == {c1, c2}

MCSellers == {alice, bob}
MCPartners == {pat, quinn}
MCSellerOf == [s \in Shipments |-> IF s = s1 THEN alice ELSE bob]
MCPartnerOf == [s \in Shipments |-> IF s = s1 THEN pat ELSE quinn]

Blank == [op |-> "update", user |-> None, ship |-> s1, status |-> None,
          location |-> FALSE, description |-> FALSE, eta |-> FALSE, code |-> None]

Creates == {[Blank EXCEPT !.op = "create", !.user = SellerOf[s], !.ship = s,
               !.status = "placed", !.location = TRUE] : s \in Shipments}
Cancels(users) == {[Blank EXCEPT !.op = "cancel", !.user = u, !.ship = s,
                      !.status = "cancelled"] : s \in Shipments, u \in users}
Rates == {[Blank EXCEPT !.op = "rate", !.ship = s] : s \in Shipments}

\* The patches UpdateShipment.jsx and other API clients send.
Moves(users, statuses) ==
  {[Blank EXCEPT !.user = u, !.ship = s, !.status = st, !.location = TRUE] :
     s \in Shipments, u \in users, st \in statuses}
Scans(users) ==
  {[Blank EXCEPT !.user = u, !.ship = s, !.location = TRUE] :
     s \in Shipments, u \in users}
Handovers(users) ==
  {[Blank EXCEPT !.user = u, !.ship = s, !.status = "delivered", !.code = c] :
     s \in Shipments, u \in users, c \in Codes \cup {None}}
RowOnly == {[Blank EXCEPT !.user = pat, !.eta = TRUE]}

\* Everything one partner and one seller can ask of their own shipment.
AllCalls ==
  Creates \cup Cancels({alice}) \cup Rates \cup RowOnly
  \cup Moves({pat}, {"out_for_delivery"}) \cup Scans({pat}) \cup Handovers({pat})

\* The race calls: every status write of the two parties, no guessing.
RaceCalls ==
  Creates \cup Cancels({alice}) \cup Scans({pat})
  \cup Moves({pat}, {"in_transit", "out_for_delivery"}) \cup Handovers({pat})

\* The straight way to a review.
ReviewCalls ==
  Creates \cup Moves({pat}, {"out_for_delivery"}) \cup Handovers({pat}) \cup Rates

\* The same, and every code that is shown may be the right one.
OverlapCalls == {c \in ReviewCalls : c.status = "delivered" => c.code # None}

\* The way to a review beside a partner and a seller whose shipment it is not.
StrangerCalls == ReviewCalls \cup Scans({quinn}) \cup Cancels({bob})

\* What the partner's screen offers: no "placed", always a status.
StatusCalls ==
  Creates \cup Moves({pat}, {"in_transit", "out_for_delivery", "cancelled"})
=============================================================================
