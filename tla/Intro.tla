-------------------------------- MODULE Intro --------------------------------
(***************************************************************************)
(* The landing page: the intro's curtain over it (FastShipIntro, drawn by    *)
(* IntroEngine), the page's own flag that the intro is over, and the pieces  *)
(* of the hero that appear as they scroll into view.  Home hands the intro a *)
(* new callback on every render, so a render restarts the engine.            *)
(***************************************************************************)
EXTENDS IntroEngine

CONSTANTS
  Pieces,       \* elements wrapped in Reveal
  Last,         \* bound: frames are drawn up to this time of an engine
  MaxRenders,   \* bound: renders of the page while the curtain is up
  MaxVisits,    \* bound: visits of the page in one session
  StorageFails, \* whether sessionStorage can refuse what is written to it
  None

ASSUME IntroAssumption ==
  /\ Last > BEATS.done /\ MaxRenders \in Nat /\ MaxVisits \in Nat \ {0}
  /\ StorageFails \in BOOLEAN

VARIABLES
  clock, scene, \* the running engine, None when there is none
  home,       \* whether Home is mounted
  curtain,    \* none, playing, leaving
  introDone,  \* Home's flag
  played,     \* sessionStorage["fastship:intro-played"]
  finished,   \* finishedRef: complete() was called
  timers,     \* timeouts of complete() that have not fired
  ended,      \* history: calls of onComplete in this visit
  reveal,     \* data-reveal of the pieces: out or in
  watched,    \* pieces the shared observer looks at
  inView,     \* pieces in the (extended) viewport
  renders, visits

hero == <<reveal, watched, inView>>
engine == <<clock, scene>>
finish == <<curtain, played, finished, timers>>
vars == <<engine, finish, introDone, ended, hero, home, renders, visits>>

\* A piece is observed from when it is enabled until it has appeared.
Watched(enabled, shown) == IF enabled THEN {p \in Pieces : shown[p] = "out"} ELSE {}

\* Hero hands revealWhen={introDone} to each of its pieces.
Enabled(done) == done

Init ==
  /\ clock = None /\ scene = None /\ curtain = "none" /\ introDone = FALSE /\ played = FALSE
  /\ home = FALSE /\ finished = FALSE /\ timers = 0 /\ ended = 0
  /\ reveal = [p \in Pieces |-> "out"] /\ watched = {} /\ inView = {}
  /\ renders = 0 /\ visits = 0

NewEngine == \E frame \in FrameTimes, seed \in Seeds :
  clock' = FreshClock(frame) /\ scene' = FreshScene(seed)

NoEngine == clock' = None /\ scene' = None

\* Home mounts: both it and the curtain look at sessionStorage.
Visit ==
  /\ ~home /\ visits < MaxVisits /\ home' = TRUE
  /\ visits' = visits + 1 /\ renders' = 0
  /\ introDone' = played
  /\ IF played THEN curtain' = "none" /\ NoEngine ELSE curtain' = "playing" /\ NewEngine
  /\ finished' = FALSE /\ timers' = 0 /\ ended' = 0
  /\ reveal' = [p \in Pieces |-> "out"]
  /\ \E seen \in SUBSET Pieces : inView' = seen
  /\ watched' = Watched(Enabled(played), reveal')
  /\ UNCHANGED played

\* complete(): finishedRef lets only the first call of a visit through.
Complete ==
  IF finished THEN UNCHANGED finish
  ELSE finished' = TRUE /\ played' = TRUE /\ curtain' = "leaving" /\ timers' = timers + 1

\* The write to sessionStorage throws, and leaves complete() with finishedRef set.
Refused ==
  /\ StorageFails /\ ~finished
  /\ finished' = TRUE /\ UNCHANGED <<curtain, played, timers>>

Tick == clock # None /\ clock.t < Last /\ clock' = Advanced(clock)

\* A frame whose complete() throws asks for no other.
Frame ==
  /\ \/ /\ Tick
        /\ scene' = Simulated(scene, clock'.t, clock'.t - clock.t)
        /\ IF Completes(clock) THEN Complete ELSE UNCHANGED finish
     \/ clock # None /\ Completes(clock) /\ Refused /\ NoEngine
  /\ UNCHANGED <<introDone, ended, hero, home, renders, visits>>

\* The Skip button, a click anywhere, Escape, Enter or Space.
Skip ==
  /\ curtain # "none"
  /\ Complete \/ Refused
  /\ UNCHANGED <<engine, introDone, ended, hero, home, renders, visits>>

\* A window resize while the intro plays.
Resize ==
  /\ clock # None
  /\ scene' = Resized(scene)
  /\ UNCHANGED <<clock, finish, introDone, ended, hero, home, renders, visits>>

\* Mutant: what complete() armed is cleared with the engine.
Render_Clears ==
  /\ curtain # "none" /\ renders < MaxRenders
  /\ renders' = renders + 1
  /\ NewEngine
  /\ timers' = 0
  /\ UNCHANGED <<curtain, introDone, played, finished, ended, hero, home, visits>>

\* The page renders again (the loading screen that led to it ends): complete()
\* is a new function, so the effect destroys its engine and starts another.
Render ==
  /\ curtain # "none" /\ renders < MaxRenders
  /\ renders' = renders + 1
  /\ NewEngine
  /\ UNCHANGED <<finish, introDone, ended, hero, home, visits>>

\* Mutant: the curtain unmounts and the page is not told.
Release_Untold ==
  /\ timers > 0
  /\ timers' = timers - 1
  /\ curtain' = "none" /\ NoEngine
  /\ UNCHANGED <<played, finished, ended, introDone, hero, home, renders, visits>>

\* 620 ms after complete(): the curtain unmounts and the hero may assemble.
Release ==
  /\ timers > 0
  /\ timers' = timers - 1 /\ ended' = ended + 1
  /\ curtain' = "none" /\ NoEngine
  /\ introDone' = TRUE /\ watched' = Watched(Enabled(TRUE), reveal)
  /\ UNCHANGED <<played, finished, reveal, inView, home, renders, visits>>

\* Another page: what complete() armed finds nothing to update any more.
Depart ==
  /\ home /\ home' = FALSE
  /\ curtain' = "none" /\ NoEngine /\ introDone' = FALSE
  /\ finished' = FALSE /\ timers' = 0 /\ ended' = 0
  /\ watched' = {} /\ reveal' = [p \in Pieces |-> "out"] /\ inView' = {}
  /\ UNCHANGED <<played, renders, visits>>

Scroll(p) ==
  /\ home
  /\ inView' = IF p \in inView THEN inView \ {p} ELSE inView \cup {p}
  /\ UNCHANGED <<engine, finish, introDone, ended, reveal, watched, home, renders, visits>>

\* The observer fires once for a piece and lets go of it.
Intersect(p) ==
  /\ p \in watched \cap inView
  /\ reveal' = [reveal EXCEPT ![p] = "in"]
  /\ watched' = watched \ {p}
  /\ UNCHANGED <<engine, finish, introDone, ended, inView, home, renders, visits>>

-----------------------------------------------------------------------------
(* Properties *)

\* The engine hands over exactly once a visit, whether it plays to its end, is
\* skipped, skipped twice, skipped in the frame it ends, or started again by a
\* render: at every moment of a visit Home counts the intro as over if and only
\* if its curtain is gone, so that no page stays dark without a curtain or shows
\* through one; it was told so once; and the hero waits for it, "behind the home
\* page intro curtain, so the reveal isn't wasted" (Reveal.jsx:49).
HandsOverOnce ==
  /\ home => (introDone <=> curtain = "none")
  /\ ended <= 1
  /\ curtain # "none" => \A p \in Pieces : reveal[p] = "out"

\* What the corridor paints lies before the end wall, which lies before the
\* camera, on any frame rate: the camera never flies through the wall while
\* the corridor is still to be seen, and the title only comes up on a wall.
\* From the first square on there is always something to see, over every cut
\* from one part of the timeline to the next.
NothingThroughTheWall ==
  /\ clock # None /\ clock.t >= BEATS.warp =>
       /\ \A k \in Corridor(scene, clock.t) :
            near <= k[1] /\ k[1] <= k[2] /\ k[2] <= scene.wallZ - scene.camZ
       /\ clock.t < BEATS.arrive + 9 => scene.wallZ - scene.camZ > near
       /\ TitleOpacity(clock.t) > 0 => scene.wallZ # Infinity
  /\ clock # None /\ clock.t >= BEATS.seed => Painted(scene, clock.t) # {}

\* The particles of every part stay few, however long the intro runs and
\* however often the window changes its size.
FewParticles == scene # None =>
  /\ Len(scene.shards) <= 204 /\ Len(scene.cubes) <= 40
  /\ Len(scene.streaks) <= 30 /\ Len(scene.rays) < 150 + 19 /\ scene.motes = 58

\* A curtain goes up again, although renders restart the engine, unless the
\* browser refused to remember it, and a piece that stays in view behind a
\* raised curtain appears.
Stuck == finished /\ curtain = "playing"

CurtainRises ==
  /\ curtain # "none" ~> curtain = "none" \/ Stuck
  /\ \A p \in Pieces :
       introDone /\ p \in inView ~> reveal[p] = "in" \/ p \notin inView \/ ~introDone
=============================================================================
