---------------------------- MODULE MCServerTags ----------------------------
(* Instances of the starts and tag requests for TLC: two shipments of two    *)
(* sellers.                                                                  *)
EXTENDS ServerTags, TLC

CONSTANTS r1, r2, r3, anna, bob, parcel, letter, FRAGILE, HEAVY

TwoOwners == (parcel :> anna) @@ (letter :> bob)
=============================================================================
