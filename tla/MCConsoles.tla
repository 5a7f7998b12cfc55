----------------------------- MODULE MCConsoles -----------------------------
(* Instances of the seller's and the partner's pages for TLC. *)
EXTENDS Consoles

CONSTANTS parcel, letter, c1, c2

\* A clock five hours behind the server's and one as many ahead of it.
MCOffsets == {-5, 5}
=============================================================================
