---------------------------- MODULE MCNavigation ----------------------------
(* Instances of the application's tabs for TLC: two sellers and one partner. *)
EXTENDS Navigation, TLC

CONSTANTS shop, stall, carrier, t1, t2, j1, j2

Roles == (shop :> "seller") @@ (stall :> "seller") @@ (carrier :> "partner")

SellerAndPartner == [a \in {shop, carrier} |-> Roles[a]]

TwoSellers == [a \in {shop, stall} |-> Roles[a]]

SubmitPage == {Submit}
=============================================================================
