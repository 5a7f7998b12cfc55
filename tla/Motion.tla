------------------------------- MODULE Motion -------------------------------
(***************************************************************************)
(* What moves on the screen of one tab: the change of page of Overlay, and   *)
(* the landing page.  The two draw on layers of their own and share nothing  *)
(* but the page: a behaviour follows a tab through changes of page, and then *)
(* through its visits of "/", where Home is mounted.                         *)
(***************************************************************************)
EXTENDS Landing

CONSTANTS Pages, Durations, Jitters, Delays, MaxLag, MaxGap, MaxLate

ASSUME OverlayAssumption ==
  /\ "/" \in Pages
  /\ None \notin Pages \cup {"gun", "warp"} \cup [mode : {"in", "out"}, progress : Int]
  /\ Durations \subseteq 120..180 /\ Jitters \subseteq [1..9 -> {-1, 0, 1}]
  /\ Delays \subseteq 0..800 /\ MaxLag \in Nat /\ MaxGap \in Nat \ {0}
  /\ MaxLate \in Nat

VARIABLES
  page, destination, variant, swapped, pct, curve, duration,
  elapsed, lag, drawnAt, mode, drawn, until

Overlays == INSTANCE Overlay WITH clock <- elapsed, frame <- drawnAt

load == <<destination, variant, swapped, pct, curve, duration, elapsed, lag, drawnAt, mode, drawn, until>>

MotionInit == LandingInit /\ Overlays!Init

Loading ==
  /\ visits = 0
  /\ Overlays!Go \/ Overlays!Wait \/ Overlays!Aim \/ Overlays!Wave
     \/ Overlays!SwapTimer \/ Overlays!EndTimer \/ Overlays!Elsewhere
  /\ UNCHANGED <<vars, pointer>>

\* Home mounts under "/" and goes with it.
AtHomePage ==
  /\ destination = None
  /\ \/ Arrive /\ page' = "/"
     \/ GoAway /\ page' \in Pages \ {"/"}
     \/ (Curtain \/ Pointing) /\ UNCHANGED page
  /\ UNCHANGED load

MotionSpec ==
  MotionInit /\ [][Loading \/ AtHomePage]_<<vars, pointer, page, load>> /\ Fairness

-----------------------------------------------------------------------------
(* Properties *)

\* The overlay hides every swap that finds the wave in time, and only the page
\* it promised appears.
SwapsHidden == Overlays!SwapsHidden

\* WarpOverlay.jsx:10: the wave is over everything whenever the page is swapped.
SwapsAlwaysHidden == Overlays!SwapsAlwaysHidden

\* The turret's percentage never goes back and is full when the page appears.
CountsUp == Overlays!CountsUp

\* SelectPath.jsx:37: the role's path drives the turret's subtitle.
SaysWhichRole == Overlays!SaysWhichRole
=============================================================================
