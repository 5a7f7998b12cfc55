------------------------------ MODULE MCMotion ------------------------------
(* Instances of the landing page and the loading screens for TLC. *)
EXTENDS Motion
CONSTANTS title, stats, card

\* Neighbours moved together, apart, or towards each other.
Every(k, d) == [i \in 1..9 |-> IF i % k = 0 THEN d ELSE -d]
MCJitters == {Every(k, d) : k \in 1..4, d \in {-1, 1}} \cup {[i \in 1..9 |-> 0]}
=============================================================================
