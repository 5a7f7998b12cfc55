------------------------------- MODULE Overlay -------------------------------
(***************************************************************************)
(* A change of page on the clock: LoadingNavProvider's timers and frames, the *)
(* turret's progress curve and the tile wave of WarpOverlay, which is to hide *)
(* the whole screen at the instant the provider swaps the page.  One unit of  *)
(* time is 667/40 ms, about a frame; progress and places are in thousandths.  *)
(***************************************************************************)
EXTENDS Integers

CONSTANTS
  Pages,
  Durations,    \* bound: lengths of the turret's loading, of 120..180 units
  Jitters,      \* bound: for each inner point of the curve, moved early or late
  Delays,       \* bound: delays of the wave's tiles, up to 2 * 400
  MaxLag,       \* bound: units from a click to the overlay's first effect
  MaxGap,       \* bound: units from one frame to the next
  MaxLate,      \* bound: units from when a timeout is due to when it fires
  None

VARIABLES
  page,
  destination,
  variant,       \* gun or warp, None while nothing is loading
  swapped,       \* whether the page has been swapped
  pct,           \* the turret's percentage
  curve, duration,  \* of this load
  clock,         \* units since the click
  lag,           \* when the overlay's effect ran
  frame,         \* when the last frame was drawn
  mode, drawn,   \* the wave: in, out; and the progress it last drew
  until          \* when the fade of the turret ends

load == <<destination, variant, swapped, pct, curve, duration, clock, lag, frame, mode, drawn, until>>
vars == <<page, load>>

WARP_SWAP == 40
WARP == 80
FADE == 16
PHASE_DONE == 1400

BASE_CURVE == [t |-> <<50, 130, 240, 330, 440, 580, 740, 830, 920>>,
               p |-> <<17, 22, 45, 51, 62, 66, 72, 80, 93>>]

Least(a, b) == IF a < b THEN a ELSE b
Most(a, b) == IF a > b THEN a ELSE b

\* Mutant: a point may end up below the one before it.
Above_Free(previous, p) == Least(97, p)

\* A point lies above the one before it.
Above(previous, p) == Least(97, Most(previous + 1, p))

\* Each inner point is moved by up to 0.025 and 3 percent.
Percents(d) ==
  LET p[i \in 0..10] == IF i = 0 THEN 0 ELSE IF i = 10 THEN 100
                        ELSE Above(p[i - 1], BASE_CURVE.p[i] + 3 * d[i])
  IN p

Instant(d, i) ==
  IF i = 0 THEN 0 ELSE IF i = 10 THEN 1000
  ELSE Least(970, Most(20, BASE_CURVE.t[i] + 25 * d[i]))

JitteredCurve(d) == [i \in 0..10 |-> [t |-> Instant(d, i), p |-> Percents(d)[i]]]

\* Rounded to whole percents.
SampleCurve(c, t) ==
  LET i == CHOOSE k \in 1..10 : t <= c[k].t /\ \A j \in 1..k-1 : t > c[j].t
      span == IF c[i].t = c[i-1].t THEN 1 ELSE c[i].t - c[i-1].t
      rise == (c[i].p - c[i-1].p) * (t - c[i-1].t)
  IN c[i-1].p + (2 * rise + span) \div (2 * span)

Init ==
  /\ page \in Pages
  /\ destination = None /\ variant = None /\ swapped = FALSE /\ pct = 0
  /\ curve = None /\ duration = None /\ clock = 0 /\ lag = 0
  /\ frame = 0 /\ mode = "in" /\ drawn = None /\ until = None

\* go; what it does while a page is being loaded is nothing.
Go == \E to \in Pages \ {page} :
  /\ destination = None
  /\ destination' = to /\ swapped' = FALSE /\ pct' = 0
  /\ clock' = 0 /\ frame' = 0 /\ mode' = "in" /\ drawn' = None /\ until' = None
  /\ \/ variant' = "warp" /\ curve' = None /\ duration' = None /\ lag' \in 0..MaxLag
     \/ variant' = "gun" /\ lag' = 0 /\ duration' \in Durations
        /\ \E d \in Jitters : curve' = JitteredCurve(d)
  /\ UNCHANGED page

\* A timeout of this load that is due fires, however busy the tab is, before
\* time goes on beyond its bound; frames may be drawn in between.
TimerDue == destination # None /\
  \/ variant = "warp" /\ ~swapped /\ clock >= WARP_SWAP + MaxLate
  \/ variant = "warp" /\ swapped /\ clock >= WARP + MaxLate
  \/ variant = "gun" /\ swapped /\ clock >= until + MaxLate

\* Time goes on without a frame.
Wait ==
  /\ destination # None /\ ~TimerDue
  /\ (variant = "gun" /\ swapped) \/ clock + 1 - frame < MaxGap
  /\ clock' = clock + 1
  /\ UNCHANGED <<page, destination, variant, swapped, pct, curve, duration, lag, frame, mode, drawn, until>>

\* A frame of the turret: at its end the page is swapped and the fade begins.
Aim == LET t == Least(1000, (1000 * (clock + 1)) \div duration) IN
  /\ variant = "gun" /\ ~swapped /\ ~TimerDue
  /\ clock' = clock + 1 /\ frame' = clock'
  /\ pct' = Most(1, SampleCurve(curve, t))
  /\ IF t < 1000 THEN UNCHANGED <<page, swapped, until>>
     ELSE page' = destination /\ swapped' = TRUE /\ until' = clock' + FADE
  /\ UNCHANGED <<destination, variant, curve, duration, lag, mode, drawn>>

\* Mutant: the reveal starts with the frame that finds the cover complete.
Phase_Early(progress) == progress >= PHASE_DONE - 400
Phase(progress) == progress >= PHASE_DONE

\* A frame of the wave; the one that finds a phase complete still draws it.
Wave ==
  LET since == (clock + 1) - lag - (IF mode = "in" THEN 0 ELSE WARP_SWAP)
      progress == (PHASE_DONE * since) \div WARP_SWAP
  IN /\ variant = "warp" /\ ~TimerDue
     /\ clock' = clock + 1 /\ frame' = clock'
     /\ IF clock' <= lag THEN UNCHANGED <<mode, drawn>>
        ELSE /\ drawn' = [mode |-> mode, progress |-> progress]
             /\ mode' = IF Phase(progress) THEN "out" ELSE mode
     /\ UNCHANGED <<page, destination, variant, swapped, pct, curve, duration, lag, until>>

SwapTimer ==
  /\ variant = "warp" /\ clock >= WARP_SWAP /\ ~swapped
  /\ page' = destination /\ swapped' = TRUE
  /\ UNCHANGED <<destination, variant, pct, curve, duration, clock, lag, frame, mode, drawn, until>>

\* What one load leaves behind does not matter to the next: go sets it anew.
EndTimer ==
  /\ swapped /\ destination # None
  /\ clock >= IF variant = "warp" THEN WARP ELSE until
  /\ destination' = None /\ variant' = None /\ swapped' = FALSE /\ pct' = 0
  /\ curve' = None /\ duration' = None /\ clock' = 0 /\ lag' = 0
  /\ frame' = 0 /\ mode' = "in" /\ drawn' = None /\ until' = None
  /\ UNCHANGED page

\* The browser's back and forward buttons.
Elsewhere ==
  /\ page' \in Pages
  /\ UNCHANGED <<destination, variant, swapped, pct, curve, duration, clock, lag, frame, mode, drawn, until>>

Next == Go \/ Wait \/ Aim \/ Wave \/ SwapTimer \/ EndTimer \/ Elsewhere

Spec == Init /\ [][Next]_vars

-----------------------------------------------------------------------------
(* What is seen *)

\* A tile's opacity in a frame of the wave, its delay and its noise given.
Alpha(w, delay, noise) ==
  LET at == (22 * (w.progress - delay + noise)) \div 10
      ramp == IF at < 0 THEN 0 ELSE Least(1000, at)
  IN IF w.mode = "in" THEN ramp ELSE 1000 - ramp

Covers(w) == w # None /\ \A delay \in Delays, noise \in {-80, 80} : Alpha(w, delay, noise) = 1000

\* The panel of the turret is up until it fades; the wave hides what it covers.
Hidden == \/ variant = "gun" /\ ~swapped
          \/ variant = "warp" /\ Covers(drawn)

\* The captions change every 1500 ms, and start again with every load.
CyclingCaption == (clock \div 90) % 3

\* The second line depends on where the load leads.
DATA_LINKS == {"/signup/customer", "/signup/seller", "/signup/delivery"}
SubtitleFor(path) == IF path \in DATA_LINKS THEN path ELSE "ESTABLISHING CONNECTION..."

\* What the turret's panel says, if it is up.
Panel == IF destination = None \/ variant # "gun" THEN None
         ELSE [subtitle |-> SubtitleFor(destination), percent |-> pct, caption |-> CyclingCaption]

Stage == IF destination = None THEN "idle" ELSE IF swapped THEN "revealing" ELSE "covering"

Swapping == INSTANCE PageSwap WITH
  hidden <- Hidden, stage <- Stage, Entrances <- {}

-----------------------------------------------------------------------------
(* Properties *)

\* From FULL units after the overlay's effect on the last tile of the wave is
\* full, and WARP_SWAP after it the wave turns to reveal.
FULL == 39

\* "the overlay covers the current page before the destination swaps in"
\* (LoadingNavProvider.jsx:15): timers that know nothing of the frames drawn
\* swap the page once, while the last frame drawn hides all of it, and give the
\* screen back, whatever the browser's own buttons do meanwhile.  Only a swap
\* that found no frame of the wave's two full ones, because the overlay's effect,
\* a frame or the timer itself came late, may be seen.
SwapsHidden ==
  /\ Swapping!Init
  /\ [][\/ Swapping!Next
        \/ SwapTimer /\ frame - lag \notin FULL..WARP_SWAP]_Swapping!vars

\* "'fully covered' lines up with the route swap" (WarpOverlay.jsx:10), always.
SwapsAlwaysHidden == Swapping!Spec

\* Over any jitter of the curve and any frames left out the percentage never
\* goes back, and the page appears at 100, not before.
CountsUp == [][destination # None /\ destination' = destination =>
  /\ pct' >= pct
  /\ variant = "gun" /\ swapped' /\ ~swapped => pct' = 100]_vars

\* SelectPath.jsx:37: the path of a role "drives the ESTABLISHING <ROLE>
\* DATA-LINK subtitle" of the turret on the way to that role's sign-up.
SaysWhichRole == Panel # None /\ destination \in {"/client/signup", "/seller/signup", "/partner/signup"}
  => Panel.subtitle # SubtitleFor("/")
=============================================================================
