------------------------------ MODULE PageSwap -------------------------------
(***************************************************************************)
(* What a covered change of page promises: one page at a time is being gone  *)
(* to, it appears once, only while the screen is hidden, and the screen is    *)
(* given back.  How the screen is hidden, and for how long, is left open.     *)
(***************************************************************************)
CONSTANTS
  Pages,
  Entrances,   \* pages a guard may show in the place of another
  None

VARIABLES page, destination, stage, hidden

vars == <<page, destination, stage, hidden>>

Init == page \in Pages /\ destination = None /\ stage = "idle" /\ hidden = FALSE

Begin ==
  /\ stage = "idle" /\ stage' = "covering"
  /\ destination' \in Pages
  /\ page' \in {page} \cup Entrances

Veil == stage # "idle" /\ UNCHANGED <<page, destination, stage>>

Swap ==
  /\ stage = "covering" /\ hidden
  /\ page' \in {destination} \cup Entrances /\ stage' = "revealing"
  /\ UNCHANGED destination

End ==
  /\ stage = "revealing" /\ stage' = "idle"
  /\ destination' = None /\ hidden' = FALSE
  /\ UNCHANGED page

\* The browser's own navigation, and guards that send a visitor elsewhere,
\* change the page at any time, and are no part of the change that runs.
Elsewhere ==
  /\ page' \in Pages
  /\ UNCHANGED <<destination, stage, hidden>>

\* A reload forgets the change that runs.
Reload ==
  /\ page' \in Pages
  /\ destination' = None /\ stage' = "idle" /\ hidden' = FALSE

Next == Begin \/ Veil \/ Swap \/ End \/ Elsewhere \/ Reload

Spec == Init /\ [][Next]_vars
=============================================================================
