------------------------------- MODULE Landing -------------------------------
(***************************************************************************)
(* The landing page as a whole: the intro's curtain and, once it is gone,    *)
(* what follows the pointer on the page below, the PRESS START button of     *)
(* Home among it.  The curtain covers the page, so nothing below is entered  *)
(* before it has gone.                                                       *)
(***************************************************************************)
EXTENDS Intro, Pointer

CONSTANT start      \* the button

ASSUME StartAssumption == start \in Controls \ Tilts

LandingInit == Init /\ AtRest

\* Home's button comes and goes with the page.
Arrive == Visit /\ Attach(start)

GoAway == Depart /\ Detach(start)

Curtain ==
  /\ \/ Frame \/ Skip \/ Resize \/ Render \/ Release
     \/ \E p \in Pieces : Scroll(p) \/ Intersect(p)
  /\ UNCHANGED pointer

Pointing ==
  /\ introDone
  /\ \/ StartDepth \/ StopDepth \/ Point \/ Ease
     \/ \E c \in Controls \ {start} : Attach(c) \/ Detach(c)
     \/ \E c \in Controls :
          Enter(c) \/ Move(c) \/ Apply(c) \/ Leave(c) \/ Blur(c)
  /\ UNCHANGED vars

\* The tab is in front: frames are drawn, timers fire and the observer reports.
Fairness == WF_clock(Tick) /\ WF_vars(Release) /\ \A p \in Pieces : WF_vars(Intersect(p))
=============================================================================
