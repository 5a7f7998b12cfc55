---------------------------- MODULE MCAssignment ----------------------------
(* Instances of partner assignment for TLC. *)
EXTENDS Assignment

CONSTANTS n1, n2, n3, n4, e1, pat, quinn, alice, bob, z1, z2

MCPartners == {pat, quinn}
MCSellers == {alice, bob}
MCZips == {z1, z2}
\* alice sends all but n2; everything goes to one ZIP code.
MCSellerOf == [r \in Req |-> IF r = n2 THEN bob ELSE alice]
OneDest == [r \in Req |-> z1]
OneZipLists == {{z1}}
UpToOne == 0..1
=============================================================================
