---------------------------- MODULE MotionProofs ----------------------------
(***************************************************************************)
(* Proofs about what moves on the screen: the intro's curtain and the page   *)
(* below it, for any number of pieces, renders and visits; the loop and the  *)
(* controls that follow the pointer; the wave that hides a change of page;   *)
(* the intro's particles, its camera and its wall; the turret's percentage.  *)
(***************************************************************************)
EXTENDS Motion, FiniteSetTheorems, TLAPS

(***************************************************************************)
(* What a step of the tab is to its parts.                                  *)
(***************************************************************************)
IntroStep ==
  \/ Visit \/ Depart
  \/ Frame \/ Skip \/ Resize \/ Render \/ Release
  \/ \E p \in Pieces : Scroll(p) \/ Intersect(p)

PointerStep ==
  \/ StartDepth \/ StopDepth \/ Point \/ Ease
  \/ \E c \in Controls :
       Attach(c) \/ Detach(c) \/ Enter(c) \/ Move(c) \/ Apply(c) \/ Leave(c) \/ Blur(c)

OverlayStep == Overlays!Next

LEMMA TabMoves ==
  MotionSpec => /\ Init /\ [][IntroStep]_vars
                /\ AtRest /\ [][PointerStep]_pointer
                /\ Overlays!Init /\ [][OverlayStep]_<<page, load>>
<1> DEFINE Step == [Loading \/ AtHomePage]_<<vars, pointer, page, load>>
<1>1. MotionInit => Init /\ AtRest /\ Overlays!Init
  BY DEF MotionInit, LandingInit
<1>2. Step => [IntroStep]_vars
  BY DEF Loading, AtHomePage, Arrive, GoAway, Curtain, Pointing, IntroStep
<1>3. Step => [PointerStep]_pointer
  BY StartAssumption DEF Loading, AtHomePage, Arrive, GoAway, Curtain, Pointing, PointerStep
<1>4. Step => [OverlayStep]_<<page, load>>
  <2>1. Loading => OverlayStep
    BY DEF Loading, OverlayStep, Overlays!Next
  <2>2. AtHomePage => UNCHANGED page \/ page' \in Pages
    BY OverlayAssumption DEF AtHomePage
  <2>3. AtHomePage => UNCHANGED load
    BY DEF AtHomePage
  <2>4. page' \in Pages /\ UNCHANGED load => OverlayStep
    BY DEF OverlayStep, Overlays!Next, Overlays!Elsewhere, load
  <2>5. QED
    BY <2>1, <2>2, <2>3, <2>4
<1>5. QED
  BY <1>1, <1>2, <1>3, <1>4, PTL DEF MotionSpec

(***************************************************************************)
(* The intro.                                                               *)
(***************************************************************************)

\* One timeout is armed while the curtain fades and none before or after; an
\* engine runs behind a curtain only; the pieces wait for Home's flag, which goes
\* up when the curtain goes.
CurtainInv ==
  /\ introDone \in BOOLEAN /\ played \in BOOLEAN /\ home \in BOOLEAN
  /\ reveal \in [Pieces -> {"out", "in"}]
  /\ curtain \in {"none", "playing", "leaving"}
  /\ timers = (IF curtain = "leaving" THEN 1 ELSE 0)
  /\ ended \in 0..1
  /\ curtain = "leaving" => finished
  /\ clock # None => curtain # "none"
  /\ home => (introDone <=> curtain = "none")
  /\ curtain # "none" =>
       /\ home /\ ended = 0 /\ watched = {}
       /\ \A p \in Pieces : reveal[p] = "out"

LEMMA CurtainOpens == ASSUME CurtainInv, Visit PROVE CurtainInv'
<1>1. introDone' = played /\ played' = played /\ timers' = 0 /\ ended' = 0 /\ home' = TRUE
  BY DEF Visit
<1>2. reveal' = [p \in Pieces |-> "out"]
  BY DEF Visit
<1>3. CASE played
  <2>1. curtain' = "none" /\ clock' = None /\ introDone' = TRUE /\ played' = TRUE
    BY <1>1, <1>3 DEF Visit, NoEngine
  <2>2. QED
    BY <1>1, <1>2, <2>1 DEF CurtainInv
<1>4. CASE ~played
  <2>1. curtain' = "playing" /\ watched' = {}
    BY <1>4 DEF Visit, Watched, Enabled
  <2>2. introDone' = FALSE /\ played' = FALSE
    BY <1>1, <1>4 DEF CurtainInv
  <2>3. QED
    BY <1>1, <1>2, <2>1, <2>2 DEF CurtainInv
<1>5. QED
  BY <1>3, <1>4

\* A call of complete() arms the timeout only where no call came before, and then
\* the curtain is still up.
LEMMA CompleteArms ==
  ASSUME CurtainInv, Complete \/ Refused, curtain # "none", clock' = None \/ clock # None,
         UNCHANGED <<introDone, ended, hero, home>>
  PROVE  CurtainInv'
<1>1. UNCHANGED <<reveal, watched>> /\ home' = home /\ introDone' = introDone /\ ended' = ended
  BY DEF hero
<1>2. played' \in BOOLEAN /\ home' \in BOOLEAN /\ introDone' \in BOOLEAN
  BY <1>1 DEF CurtainInv, Complete, Refused, finish
<1>3. CASE finished
  <2>1. UNCHANGED <<curtain, finished, timers>>
    BY <1>3 DEF Complete, Refused, finish
  <2>2. QED
    BY <1>1, <1>2, <2>1 DEF CurtainInv
<1>4. CASE ~finished /\ Complete
  <2>1. curtain = "playing" /\ timers = 0
    BY <1>4 DEF CurtainInv
  <2>2. finished' = TRUE /\ curtain' = "leaving" /\ timers' = 1
    BY <1>4, <2>1 DEF Complete
  <2>3. QED
    BY <1>1, <1>2, <2>1, <2>2 DEF CurtainInv
<1>5. CASE Refused
  <2>1. UNCHANGED <<curtain, timers>> /\ finished' = TRUE
    BY <1>5 DEF Refused
  <2>2. QED
    BY <1>1, <1>2, <2>1 DEF CurtainInv
<1>6. QED
  BY <1>3, <1>4, <1>5

LEMMA CurtainStep == CurtainInv /\ [IntroStep]_vars => CurtainInv'
<1> SUFFICES ASSUME CurtainInv, [IntroStep]_vars PROVE CurtainInv'
  OBVIOUS
<1>1. CASE Visit
  BY <1>1, CurtainOpens
<1>2. CASE Depart
  <2>1. /\ introDone' = FALSE /\ home' = FALSE /\ curtain' = "none" /\ clock' = None
        /\ timers' = 0 /\ ended' = 0
    BY <1>2 DEF Depart, NoEngine
  <2>2. played' = played /\ reveal' = [p \in Pieces |-> "out"]
    BY <1>2 DEF Depart
  <2>3. played' \in BOOLEAN /\ introDone' \in BOOLEAN /\ home' \in BOOLEAN
    BY <2>1, <2>2 DEF CurtainInv
  <2>4. QED
    BY <2>1, <2>2, <2>3 DEF CurtainInv
<1>3. CASE Frame
  <2>1. clock # None /\ curtain # "none"
    BY <1>3 DEF Frame, Tick, CurtainInv
  <2>2. CASE Complete \/ Refused
    BY <1>3, <2>1, <2>2, CompleteArms DEF Frame
  <2>3. CASE UNCHANGED finish
    BY <1>3, <2>1, <2>3 DEF Frame, CurtainInv, finish, hero
  <2>4. QED
    BY <1>3, <2>2, <2>3 DEF Frame
<1>4. CASE Skip
  BY <1>4, CompleteArms DEF Skip, engine, CurtainInv
<1>5. CASE Release
  <2>1. curtain = "leaving"
    BY <1>5 DEF Release, CurtainInv
  <2>2. introDone' = TRUE /\ curtain' = "none" /\ clock' = None
    BY <1>5 DEF Release, NoEngine
  <2>3. QED
    BY <1>5, <2>1, <2>2 DEF Release, CurtainInv
<1>6. ASSUME NEW p \in Pieces, Intersect(p) PROVE CurtainInv'
  <2>1. curtain = "none"
    BY <1>6 DEF Intersect, CurtainInv
  <2>2. QED
    BY <1>6, <2>1 DEF Intersect, CurtainInv, engine, finish
<1>7. CASE Render
  BY <1>7 DEF Render, CurtainInv, finish, hero
<1>8. CASE UNCHANGED <<clock, finish, introDone, ended, reveal, watched, home>>
  BY <1>8 DEF CurtainInv, finish
<1>9. ASSUME Resize \/ (\E p \in Pieces : Scroll(p)) \/ UNCHANGED vars
      PROVE  UNCHANGED <<clock, finish, introDone, ended, reveal, watched, home>>
  BY <1>9 DEF Resize, Scroll, vars, hero, engine, finish
<1>10. QED
  BY <1>1, <1>2, <1>3, <1>4, <1>5, <1>6, <1>7, <1>8, <1>9 DEF IntroStep

\* The intro hands over once a visit, however it ends: while Home is mounted it
\* counts the intro as over if and only if the curtain is gone, and no piece of
\* the hero has appeared behind it.
THEOREM IntroHandsOver == MotionSpec => []HandsOverOnce
<1>1. Init => CurtainInv
  <2> SUFFICES ASSUME Init PROVE CurtainInv
    OBVIOUS
  <2>1. /\ introDone = FALSE /\ played = FALSE /\ home = FALSE /\ curtain = "none" /\ timers = 0
        /\ ended = 0 /\ clock = None
    BY DEF Init
  <2>2. introDone \in BOOLEAN /\ played \in BOOLEAN /\ home \in BOOLEAN
    BY <2>1
  <2>3. QED
    BY <2>1, <2>2 DEF Init, CurtainInv
<1>2. CurtainInv => HandsOverOnce
  BY DEF CurtainInv, HandsOverOnce
<1>3. QED
  BY <1>1, <1>2, CurtainStep, TabMoves, PTL

(***************************************************************************)
(* The pointer.                                                             *)
(***************************************************************************)
PointerInv ==
  /\ started \in BOOLEAN /\ running \in BOOLEAN
  /\ shown \in [Channels -> Int] /\ target \in [Channels -> Int]
  /\ RestsAsItShould

LEMMA LoopStep ==
  ASSUME PointerInv, StartDepth \/ StopDepth \/ Point \/ Ease
  PROVE  PointerInv'
<1> USE DEF PointerInv, RestsAsItShould
<1>1. CASE StartDepth
  <2>1. ~started /\ started' = TRUE /\ Wake /\ UNCHANGED <<shown, controls>>
    BY <1>1 DEF StartDepth
  <2>2. ~running /\ frames = 0
    BY <2>1
  <2>3. running' = TRUE /\ frames' = 1
    BY <2>1, <2>2 DEF Wake
  <2>4. target' \in [Channels -> Int]
    <3>1. PICK s \in Positions : target' = [target EXCEPT !["scroll"] = s]
      BY <1>1 DEF StartDepth
    <3>2. s \in Int
      BY PointerAssumption DEF Positions
    <3>3. target \in [Channels -> Int]
      OBVIOUS
    <3> HIDE DEF PointerInv, RestsAsItShould
    <3>4. QED
      BY <3>1, <3>2, <3>3
  <2>5. QED
    BY <2>1, <2>3, <2>4 DEF controls
<1>2. CASE StopDepth
  <2>1. started' = FALSE /\ running' = FALSE /\ UNCHANGED <<shown, target, controls>>
    BY <1>2 DEF StopDepth
  <2>2. frames' = 0
    BY <1>2 DEF StopDepth
  <2>3. QED
    BY <2>1, <2>2 DEF controls
<1>3. CASE Point
  <2>1. started /\ started' = started /\ Wake /\ UNCHANGED <<shown, controls>>
    BY <1>3 DEF Point
  <2>2. target' \in [Channels -> Int]
    BY <1>3 DEF Point, Positions
  <2>3. running' = TRUE /\ frames' = 1
    <3>1. CASE running
      BY <2>1, <3>1 DEF Wake
    <3>2. CASE ~running
      BY <2>1, <3>2 DEF Wake
    <3>3. QED
      BY <3>1, <3>2
  <2>4. started' = TRUE
    BY <2>1
  <2>5. QED
    BY <2>1, <2>2, <2>3, <2>4 DEF controls
<1>4. CASE Ease
  <2> DEFINE eased == [c \in Channels |-> Near(shown[c], target[c])]
  <2>1. eased \in [Channels -> Int]
    BY DEF Near
  <2>2. Settled(eased) => eased = target
    BY <2>1 DEF Settled
  <2>3. /\ frames > 0 /\ shown' = eased /\ UNCHANGED <<started, target, controls>>
        /\ IF Settled(eased) THEN running' = FALSE /\ frames' = frames - 1
           ELSE UNCHANGED <<running, frames>>
    BY <1>4 DEF Ease
  <2> HIDE DEF eased
  <2>4. running /\ frames = 1
    BY <2>3
  <2>5. started' = TRUE
    BY <2>3, <2>4
  <2>6. CASE Settled(eased)
    <3>1. running' = FALSE /\ frames' = 0
      BY <2>3, <2>4, <2>6
    <3>2. QED
      BY <2>1, <2>2, <2>3, <2>5, <2>6, <3>1 DEF controls
  <2>7. CASE ~Settled(eased)
    <3>1. running' = TRUE /\ frames' = 1
      BY <2>3, <2>4, <2>7
    <3>2. QED
      BY <2>1, <2>3, <2>5, <3>1 DEF controls
  <2>8. QED
    BY <2>6, <2>7
<1>5. QED
  BY <1>1, <1>2, <1>3, <1>4

LEMMA PointerKept == PointerInv /\ [PointerStep]_pointer => PointerInv'
<1> SUFFICES ASSUME PointerInv, [PointerStep]_pointer PROVE PointerInv'
  OBVIOUS
<1>1. CASE UNCHANGED pointer
  BY <1>1 DEF PointerInv, RestsAsItShould, pointer, depth, controls
<1>2. ASSUME NEW c \in Controls,
             Attach(c) \/ Detach(c) \/ Enter(c) \/ Move(c) \/ Apply(c) \/ Leave(c) \/ Blur(c)
      PROVE  PointerInv'
  <2>1. UNCHANGED depth
    BY <1>2 DEF Attach, Detach, Enter, Move, Apply, Leave, Blur
  <2>2. (lean' \cup lifted' \cup raf') \subseteq over' /\ over' \subseteq attached'
    BY <1>2 DEF Attach, Detach, Enter, Move, Apply, Leave, Blur, Flatten, PointerInv, RestsAsItShould
  <2>3. QED
    BY <2>1, <2>2 DEF PointerInv, RestsAsItShould, depth
<1>3. QED
  BY <1>1, <1>2, LoopStep DEF PointerStep

\* The loop has one frame pending or rests where the pointer is, and a control the
\* pointer is not over stays flat.
THEOREM PointerRests == MotionSpec => []RestsAsItShould
<1>1. AtRest => PointerInv
  <2> SUFFICES ASSUME AtRest PROVE PointerInv
    OBVIOUS
  <2>1. started = FALSE /\ running = FALSE /\ frames = 0
    BY DEF AtRest
  <2>2. shown \in [Channels -> Int] /\ target \in [Channels -> Int]
    BY DEF AtRest
  <2>3. (lean \cup lifted \cup raf) \subseteq over /\ over \subseteq attached
    BY DEF AtRest
  <2>4. started \in BOOLEAN /\ running \in BOOLEAN
    BY <2>1
  <2>5. QED
    BY <2>1, <2>2, <2>3, <2>4 DEF PointerInv, RestsAsItShould
<1>2. PointerInv => RestsAsItShould
  BY DEF PointerInv
<1>3. QED
  BY <1>1, <1>2, PointerKept, TabMoves, PTL

(***************************************************************************)
(* The change of page.  While the wave covers, it drew its last frame         *)
(* drawnAt - lag units after its effect: up to WARP_SWAP of them it draws the  *)
(* cover, and turns to reveal with the frame that completes it.               *)
(***************************************************************************)
Covering == variant = "warp" /\ ~swapped

WaveInv ==
  /\ destination \in Pages \cup {None}
  /\ destination = None => variant = None /\ ~swapped
  /\ destination # None => variant \in {"gun", "warp"}
  /\ Covering =>
       /\ elapsed \in Nat /\ drawnAt \in 0..elapsed /\ lag \in Nat
       /\ drawnAt < lag + 40 => mode = "in"
       /\ lag < drawnAt /\ drawnAt <= lag + 40 =>
            drawn = [mode |-> "in", progress |-> 35 * (drawnAt - lag)]

\* A tile is full once the wave is far enough beyond its delay.
LEMMA TilesFull ==
  ASSUME NEW w, NEW n \in Int, w = [mode |-> "in", progress |-> n], n >= 1365
  PROVE  Overlays!Covers(w)
<1>1. w # None
  BY OverlayAssumption
<1>2. ASSUME NEW delay \in Delays, NEW noise \in {-80, 80}
      PROVE  Overlays!Alpha(w, delay, noise) = 1000
  <2> DEFINE at == (22 * (w.progress - delay + noise)) \div 10
  <2>1. delay \in 0..800 /\ w.progress = n /\ w.mode = "in"
    BY OverlayAssumption
  <2>2. at \in Int /\ at >= 1000
    BY <2>1
  <2>3. Overlays!Alpha(w, delay, noise) = IF at < 0 THEN 0 ELSE Overlays!Least(1000, at)
    BY <2>1 DEF Overlays!Alpha
  <2> HIDE DEF at
  <2>4. QED
    BY <2>2, <2>3 DEF Overlays!Least
<1>3. QED
  BY <1>1, <1>2 DEF Overlays!Covers

LEMMA WaveStep == WaveInv /\ [OverlayStep]_<<page, load>> => WaveInv'
<1> SUFFICES ASSUME WaveInv, [OverlayStep]_<<page, load>> PROVE WaveInv'
  OBVIOUS
<1> USE DEF WaveInv, Covering
<1>1. CASE Overlays!Go
  <2>1. PICK to \in Pages \ {page} : destination' = to
    BY <1>1 DEF Overlays!Go
  <2>2. /\ swapped' = FALSE /\ elapsed' = 0 /\ drawnAt' = 0 /\ mode' = "in"
        /\ variant' \in {"gun", "warp"} /\ lag' \in 0..MaxLag
    BY <1>1, OverlayAssumption DEF Overlays!Go
  <2>3. QED
    BY <2>1, <2>2, OverlayAssumption
<1>2. CASE Overlays!Wait
  <2>1. /\ elapsed' = elapsed + 1
        /\ UNCHANGED <<destination, variant, swapped, lag, drawnAt, mode, drawn>>
    BY <1>2 DEF Overlays!Wait
  <2>2. QED
    BY <2>1
<1>3. CASE Overlays!Aim
  BY <1>3, OverlayAssumption DEF Overlays!Aim
<1>4. CASE Overlays!Wave
  <2> DEFINE since == (elapsed + 1) - lag - (IF mode = "in" THEN 0 ELSE Overlays!WARP_SWAP)
             progress == (Overlays!PHASE_DONE * since) \div Overlays!WARP_SWAP
  <2>1. /\ variant = "warp"
        /\ elapsed' = elapsed + 1 /\ drawnAt' = elapsed'
        /\ IF elapsed' <= lag THEN UNCHANGED <<mode, drawn>>
           ELSE /\ drawn' = [mode |-> mode, progress |-> progress]
                /\ mode' = IF Overlays!Phase(progress) THEN "out" ELSE mode
        /\ UNCHANGED <<destination, variant, swapped, lag>>
    BY <1>4 DEF Overlays!Wave
  <2>2. destination # None
    BY <2>1, OverlayAssumption
  <2>3. CASE swapped
    BY <2>1, <2>2, <2>3, OverlayAssumption
  <2>4. CASE ~swapped
    <3>1. /\ elapsed \in Nat /\ drawnAt \in 0..elapsed /\ lag \in Nat
          /\ drawnAt < lag + 40 => mode = "in"
      BY <2>1, <2>4
    <3>2. ASSUME lag < drawnAt', drawnAt' <= lag + 40
          PROVE  /\ drawn' = [mode |-> "in", progress |-> 35 * (drawnAt' - lag)]
                 /\ drawnAt' < lag + 40 => mode' = "in"
      <4>1. mode = "in"
        BY <2>1, <3>1, <3>2
      <4>2. since = drawnAt' - lag /\ progress = 35 * (drawnAt' - lag)
        BY <2>1, <3>1, <3>2, <4>1 DEF Overlays!PHASE_DONE, Overlays!WARP_SWAP
      <4> HIDE DEF since, progress
      <4>3. drawnAt' < lag + 40 => ~Overlays!Phase(progress)
        BY <2>1, <3>1, <4>2 DEF Overlays!Phase, Overlays!PHASE_DONE
      <4>4. ~(elapsed' <= lag)
        BY <2>1, <3>1, <3>2
      <4>5. QED
        BY <2>1, <4>1, <4>2, <4>3, <4>4
    <3> HIDE DEF since, progress
    <3>3. drawnAt' <= lag => mode' = "in"
      BY <2>1, <3>1
    <3>4. elapsed' \in Nat /\ drawnAt' \in 0..elapsed' /\ lag' = lag
      BY <2>1, <3>1
    <3>5. drawnAt' < lag + 40 => mode' = "in"
      BY <3>1, <3>2, <3>3, <3>4
    <3>6. QED
      BY <2>1, <2>2, <3>1, <3>2, <3>4, <3>5
  <2>5. QED
    BY <2>3, <2>4
<1>5. CASE Overlays!SwapTimer
  <2>1. /\ variant = "warp" /\ swapped' = TRUE /\ UNCHANGED <<destination, variant>>
    BY <1>5 DEF Overlays!SwapTimer
  <2>2. QED
    BY <2>1, OverlayAssumption
<1>6. CASE Overlays!EndTimer
  <2>1. destination' = None /\ variant' = None /\ swapped' = FALSE
    BY <1>6 DEF Overlays!EndTimer
  <2>2. QED
    BY <2>1, OverlayAssumption
<1>7. ASSUME Overlays!Elsewhere \/ UNCHANGED <<page, load>> PROVE UNCHANGED load
  BY <1>7 DEF Overlays!Elsewhere, load
<1>8. CASE UNCHANGED load
  BY <1>8 DEF load
<1>9. QED
  BY <1>1, <1>2, <1>3, <1>4, <1>5, <1>6, <1>7, <1>8 DEF OverlayStep, Overlays!Next

\* A swap that finds one of the wave's two full frames is hidden by it.
LEMMA SwapIsCovered ==
  ASSUME WaveInv, Overlays!SwapTimer, drawnAt - lag \in Overlays!FULL..Overlays!WARP_SWAP
  PROVE  Overlays!Covers(drawn) /\ variant = "warp" /\ ~swapped /\ destination # None
<1>1. variant = "warp" /\ ~swapped /\ drawnAt - lag \in 39..40
  BY DEF Overlays!SwapTimer, Overlays!WARP_SWAP, Overlays!FULL
<1>2. destination # None
  BY <1>1, OverlayAssumption DEF WaveInv
<1>3. drawnAt \in Nat /\ lag \in Nat
  BY <1>1 DEF WaveInv, Covering
<1>4. drawn = [mode |-> "in", progress |-> 35 * (drawnAt - lag)]
  BY <1>1, <1>3 DEF WaveInv, Covering
<1> DEFINE n == 35 * (drawnAt - lag)
<1>5. n \in Int /\ n >= 1365
  BY <1>1, <1>3
<1>6. drawn = [mode |-> "in", progress |-> n]
  BY <1>4
<1> HIDE DEF n
<1>7. Overlays!Covers(drawn)
  BY <1>5, <1>6, TilesFull
<1>8. QED
  BY <1>1, <1>2, <1>7

\* The timer swapped the page when no full frame was the last one drawn.
SwapIsLate == Overlays!SwapTimer /\ drawnAt - lag \notin Overlays!FULL..Overlays!WARP_SWAP

LEMMA StepSwapsHidden ==
  WaveInv /\ [OverlayStep]_<<page, load>> =>
    [Overlays!Swapping!Next \/ SwapIsLate]_Overlays!Swapping!vars
<1> SUFFICES ASSUME WaveInv, [OverlayStep]_<<page, load>>
             PROVE  [Overlays!Swapping!Next \/ SwapIsLate]_Overlays!Swapping!vars
  OBVIOUS
<1> USE DEF Overlays!Stage, Overlays!Hidden
<1>1. ASSUME Overlays!Go PROVE Overlays!Swapping!Begin
  BY <1>1, OverlayAssumption DEF Overlays!Go, Overlays!Swapping!Begin, WaveInv
<1>2. ASSUME Overlays!Wait \/ Overlays!Wave PROVE Overlays!Swapping!Veil
  BY <1>2, OverlayAssumption DEF Overlays!Wait, Overlays!Wave, Overlays!Swapping!Veil, WaveInv
<1>3. CASE Overlays!Aim
  <2>1. variant = "gun" /\ ~swapped /\ destination # None /\ UNCHANGED destination
    BY <1>3, OverlayAssumption DEF Overlays!Aim, WaveInv
  <2>2. UNCHANGED <<page, swapped>> \/ (page' = destination /\ swapped' = TRUE)
    BY <1>3 DEF Overlays!Aim
  <2>3. QED
    BY <2>1, <2>2 DEF Overlays!Swapping!Veil, Overlays!Swapping!Swap, Overlays!Swapping!Next
<1>4. ASSUME Overlays!SwapTimer PROVE Overlays!Swapping!Swap \/ SwapIsLate
  BY <1>4, SwapIsCovered DEF Overlays!SwapTimer, Overlays!Swapping!Swap, SwapIsLate
<1>5. ASSUME Overlays!EndTimer PROVE Overlays!Swapping!End
  BY <1>5, OverlayAssumption DEF Overlays!EndTimer, Overlays!Swapping!End
<1>6. ASSUME Overlays!Elsewhere PROVE Overlays!Swapping!Elsewhere
  BY <1>6 DEF Overlays!Elsewhere, Overlays!Swapping!Elsewhere, Overlays!Covers, Overlays!Alpha
<1>7. ASSUME UNCHANGED <<page, load>> PROVE UNCHANGED Overlays!Swapping!vars
  BY <1>7 DEF load, Overlays!Swapping!vars, Overlays!Covers, Overlays!Alpha
<1>8. QED
  BY <1>1, <1>2, <1>3, <1>4, <1>5, <1>6, <1>7
     DEF OverlayStep, Overlays!Next, Overlays!Swapping!Next

\* Timers that know nothing of the frames drawn, and fire as late as they may, swap
\* the page once, behind a screen that hides it, whatever the browser's own buttons
\* do meanwhile.  The one exception is told by the clock: a swap whose last frame
\* came neither 650 nor 667 ms after the overlay's effect (39 or 40 units).
THEOREM SwapsAreHidden == MotionSpec => SwapsHidden
<1>1. Overlays!Init => WaveInv /\ Overlays!Swapping!Init
  BY OverlayAssumption
     DEF Overlays!Init, WaveInv, Covering, Overlays!Swapping!Init, Overlays!Stage, Overlays!Hidden
<1>2. QED
  BY <1>1, WaveStep, StepSwapsHidden, TabMoves, PTL
     DEF SwapsHidden, Overlays!SwapsHidden, SwapIsLate

(***************************************************************************)
(* Induction.  The provers cannot instantiate the induction theorems of the  *)
(* library, which quantify over an operator; that strict inclusion is well   *)
(* founded on finite sets, they can use.                                     *)
(***************************************************************************)
LEMMA LeastOf ==
  ASSUME NEW T \in SUBSET Nat, T # {}
  PROVE  \E n \in T : \A m \in T : n <= m
<1> DEFINE Below(n) == 0..(n - 1)
           Belows == {Below(n) : n \in T}
<1>1. Belows \subseteq FiniteSubsetsOf(Nat) /\ Belows # {}
  <2>1. ASSUME NEW n \in T PROVE IsFiniteSet(Below(n)) /\ Below(n) \subseteq Nat
    BY FS_Interval
  <2> QED
    BY <2>1 DEF FiniteSubsetsOf
<1>2. PICK B \in Belows : \A C \in Belows : <<C, B>> \notin StrictSubsetOrdering(Nat)
  <2> HIDE DEF Belows
  <2> QED
    BY <1>1, FS_StrictSubsetOrderingWellFounded, WFMin
<1>3. PICK n \in T : B = Below(n)
  BY <1>2
<1>4. ASSUME NEW m \in T, m < n PROVE FALSE
  <2>1. Below(m) \subseteq Below(n) /\ Below(m) # Below(n)
    <3>1. m \in Below(n) /\ m \notin Below(m)
      BY <1>4
    <3> QED
      BY <1>4, <3>1
  <2>2. Below(m) \in SUBSET Nat /\ Below(n) \in SUBSET Nat
    OBVIOUS
  <2>3. <<Below(m), Below(n)>> \in StrictSubsetOrdering(Nat)
    BY <2>1, <2>2 DEF StrictSubsetOrdering
  <2> QED
    BY <1>2, <1>3, <2>3
<1> QED
  BY <1>4

\* A set of naturals that holds 0 and every successor of a member holds all.
LEMMA Induction ==
  ASSUME NEW S \in SUBSET Nat, 0 \in S, \A n \in S : n + 1 \in S
  PROVE  S = Nat
<1> SUFFICES ASSUME Nat \ S # {} PROVE FALSE
  OBVIOUS
<1>1. PICK n \in Nat \ S : \A m \in Nat \ S : n <= m
  BY LeastOf
<1>2. n - 1 \in Nat /\ n - 1 \in S
  BY <1>1
<1> QED
  BY <1>1, <1>2

(***************************************************************************)
(* What a frame keeps of a list.                                            *)
(***************************************************************************)
KeptAt(list, stay, keep, i) ==
  IF i = 0 THEN <<>>
  ELSE IF list[i] \in stay THEN Append(keep[i - 1], list[i]) ELSE keep[i - 1]

\* The recursive function of Kept exists.
LEMMA KeptDef ==
  ASSUME NEW list, NEW stay, Len(list) \in Nat
  PROVE  \E keep : /\ keep = [i \in 0..Len(list) |-> KeptAt(list, stay, keep, i)]
                   /\ Kept(list, stay) = keep[Len(list)]
<1> DEFINE Table(keep, n) == [i \in 0..n |-> KeptAt(list, stay, keep, i)]
           S == {n \in Nat : \E keep : keep = Table(keep, n)}
<1>1. 0 \in S
  <2> DEFINE first == [i \in 0..0 |-> <<>>]
  <2>1. first = Table(first, 0)
    BY DEF KeptAt
  <2> HIDE DEF first, Table
  <2> QED
    BY <2>1
<1>2. ASSUME NEW n \in S PROVE n + 1 \in S
  <2>1. PICK keep : keep = Table(keep, n)
    OBVIOUS
  <2> DEFINE next == [i \in 0..(n + 1) |->
               IF i <= n THEN keep[i] ELSE KeptAt(list, stay, keep, n + 1)]
  <2>2. ASSUME NEW i \in 0..(n + 1) PROVE next[i] = KeptAt(list, stay, next, i)
    <3>1. i # 0 => keep[i - 1] = next[i - 1]
      OBVIOUS
    <3>2. KeptAt(list, stay, next, i) = KeptAt(list, stay, keep, i)
      BY <3>1 DEF KeptAt
    <3>3. CASE i <= n
      <4>1. next[i] = keep[i] /\ keep[i] = KeptAt(list, stay, keep, i)
        BY <2>1, <3>3
      <4> QED
        BY <3>2, <4>1
    <3>4. CASE i = n + 1
      BY <3>2, <3>4
    <3> QED
      BY <3>3, <3>4
  <2>3. next = Table(next, n + 1)
    BY <2>2
  <2>4. n + 1 \in Nat
    OBVIOUS
  <2> HIDE DEF Table, next
  <2> QED
    BY <2>3, <2>4
<1>3. PICK keep : keep = Table(keep, Len(list))
  <2>1. S = Nat
    <3>1. S \in SUBSET Nat
      OBVIOUS
    <3> HIDE DEF S
    <3> QED
      BY <1>1, <1>2, <3>1, Induction
  <2> HIDE DEF Table
  <2> QED
    BY <2>1
<1> DEFINE chosen == CHOOSE f : f = Table(f, Len(list))
<1>4. chosen = Table(chosen, Len(list))
  <2> HIDE DEF Table
  <2> QED
    BY <1>3
<1>5. Kept(list, stay) = chosen[Len(list)]
  BY DEF Kept, KeptAt
<1> HIDE DEF chosen
<1> QED
  BY <1>4, <1>5

\* What is kept of a list are elements of it, and no more of them.
LEMMA KeptIsFewer ==
  ASSUME NEW A, NEW list \in Seq(A), NEW stay
  PROVE  /\ Kept(list, stay) \in Seq(A)
         /\ Len(Kept(list, stay)) <= Len(list)
<1>1. Len(list) \in Nat
  OBVIOUS
<1>2. PICK keep : /\ keep = [i \in 0..Len(list) |-> KeptAt(list, stay, keep, i)]
                  /\ Kept(list, stay) = keep[Len(list)]
  BY <1>1, KeptDef
<1> DEFINE Good(i) == keep[i] \in Seq(A) /\ Len(keep[i]) <= i
           S == {n \in Nat : n <= Len(list) => Good(n)}
<1>3. 0 \in S
  <2>1. keep[0] = <<>>
    BY <1>1, <1>2 DEF KeptAt
  <2>2. <<>> \in Seq(A) /\ Len(<<>>) = 0
    OBVIOUS
  <2>3. Good(0)
    BY <2>1, <2>2
  <2> QED
    BY <2>3
<1>4. ASSUME NEW n \in S PROVE n + 1 \in S
  <2> SUFFICES ASSUME n + 1 <= Len(list) PROVE Good(n + 1)
    <3> HIDE DEF Good
    <3> QED
      OBVIOUS
  <2>1. Good(n) /\ n \in Nat
    BY <1>1
  <2>2. keep[n + 1] = KeptAt(list, stay, keep, n + 1)
    BY <1>1, <1>2, <2>1
  <2>3. list[n + 1] \in A
    BY <2>1
  <2>4. CASE list[n + 1] \in stay
    <3>1. keep[n + 1] = Append(keep[n], list[n + 1])
      BY <2>1, <2>2, <2>4 DEF KeptAt
    <3>2. keep[n + 1] \in Seq(A) /\ Len(keep[n + 1]) = Len(keep[n]) + 1
      BY <2>1, <2>3, <2>4, <3>1
    <3> QED
      BY <2>1, <3>2
  <2>5. CASE list[n + 1] \notin stay
    BY <2>1, <2>2, <2>5 DEF KeptAt
  <2> QED
    BY <2>4, <2>5
<1>5. S = Nat
  <2>1. S \in SUBSET Nat
    OBVIOUS
  <2> HIDE DEF S
  <2> QED
    BY <1>3, <1>4, <2>1, Induction
<1>6. Good(Len(list))
  BY <1>1, <1>5
<1> QED
  BY <1>2, <1>6

(***************************************************************************)
(* The intro's engine: its particles.                                       *)
(***************************************************************************)
Times == Seq(Int)
Depths == Seq(Int)
Trails == Seq(Streaks)

Scenes ==
  [seed : Int, camZ : Int, wallZ : Int,
   shards : Times, shardDebt : 0..59, cubes : Depths, cubeDebt : Int, seeded : BOOLEAN,
   streaks : Trails, rays : Times, motes : {58}]

Clocks == [t : Nat, frame : Nat \ {0}, completed : BOOLEAN]

\* All frames of an engine are equally long, so its clock only shows multiples
\* of their length.
Aligned(t, dt) == (dt = 2 => t % 2 = 0) /\ (dt = 3 => t % 3 = 0)

\* Sixtieths of a shard that can have been due by t: the first frame of the
\* burst begins up to three sixtieths of a second before it.
ShardsDue(t, dt) == 110 * Clamp(t - (IF dt = 3 THEN 60 ELSE 62), 0, 111)

ShardBudget(s, t, dt) == 60 * Len(s.shards) + s.shardDebt <= ShardsDue(t, dt)

CubeBudget(s) == Len(s.cubes) <= 40 /\ (~s.seeded => Len(s.cubes) = 0)

\* Parts of a scene that a step may leave alone.
SameFlight(n, s) == n.camZ = s.camZ /\ n.wallZ = s.wallZ
SameShards(n, s) == n.shards = s.shards /\ n.shardDebt = s.shardDebt
SameCubes(n, s) == n.cubes = s.cubes /\ n.seeded = s.seeded

LEMMA ShardCount ==
  ASSUME NEW s \in Scenes PROVE Len(s.shards) \in Nat /\ s.shardDebt \in Nat
<1>1. s.shards \in Times /\ s.shardDebt \in 0..59
  BY DEF Scenes
<1>2. s.shards \in Seq(Int)
  BY <1>1 DEF Times
<1>3. Len(s.shards) \in Nat
  BY <1>2
<1>4. s.shardDebt \in Nat
  BY <1>1
<1> QED
  BY <1>3, <1>4

LEMMA Joined ==
  ASSUME NEW A, NEW x \in Seq(A), NEW y \in Seq(A)
  PROVE  x \o y \in Seq(A) /\ Len(x \o y) = Len(x) + Len(y)
OBVIOUS

\* A scene stays one when a field is given another value of its kind.
LEMMA ScenesKept ==
  ASSUME NEW s \in Scenes
  PROVE  /\ \A x \in Int : [s EXCEPT !.camZ = x] \in Scenes
         /\ \A x \in Int : [s EXCEPT !.wallZ = x] \in Scenes
         /\ \A x \in Times : [s EXCEPT !.shards = x] \in Scenes
         /\ \A x \in 0..59 : [s EXCEPT !.shardDebt = x] \in Scenes
         /\ \A x \in Depths : [s EXCEPT !.cubes = x] \in Scenes
         /\ \A x \in Int : [s EXCEPT !.cubeDebt = x] \in Scenes
         /\ [s EXCEPT !.seeded = TRUE] \in Scenes
<1>1. \A x \in Times : [s EXCEPT !.shards = x] \in Scenes
  BY DEF Scenes
<1>2. \A x \in 0..59 : [s EXCEPT !.shardDebt = x] \in Scenes
  BY DEF Scenes
<1>3. \A x \in Depths : [s EXCEPT !.cubes = x] \in Scenes
  BY DEF Scenes
<1>4. \A x \in Int : [s EXCEPT !.cubeDebt = x] \in Scenes
  BY DEF Scenes
<1>5. [s EXCEPT !.seeded = TRUE] \in Scenes
  BY DEF Scenes
<1>6. \A x \in Int : [s EXCEPT !.camZ = x] \in Scenes
  BY DEF Scenes
<1>7. \A x \in Int : [s EXCEPT !.wallZ = x] \in Scenes
  BY DEF Scenes
<1> QED
  BY <1>1, <1>2, <1>3, <1>4, <1>5, <1>6, <1>7

LEMMA DrawIsPercent == ASSUME NEW s \in Scenes, NEW n \in Int PROVE Draw(s, n) \in 0..99
<1>1. s.seed \in Int
  BY DEF Scenes
<1>2. s.seed + 37 * n \in Int
  BY <1>1
<1> QED
  BY <1>2 DEF Draw

LEMMA ElapsedIsShort == ASSUME NEW c \in Clocks PROVE Elapsed(c.frame) \in 1..3
BY DEF Clocks, Elapsed, Clamp

LEMMA SixtiethsSplit ==
  ASSUME NEW n \in Nat
  PROVE  n \div 60 \in Nat /\ n % 60 \in 0..59 /\ n = 60 * (n \div 60) + (n % 60)
OBVIOUS

\* The births of one frame are paid for by its share of the 110 a second.
LEMMA ShardsFew ==
  ASSUME NEW s \in Scenes, NEW t \in Nat, NEW dt \in 1..3, Aligned(t, dt),
         t >= BEATS.burst, t < BEATS.warp, ShardBudget(s, t - dt, dt)
  PROVE  /\ StepShards(s, t, dt) \in Scenes
         /\ ShardBudget(StepShards(s, t, dt), t, dt)
         /\ SameFlight(StepShards(s, t, dt), s) /\ SameCubes(StepShards(s, t, dt), s)
         /\ StepShards(s, t, dt).streaks = s.streaks /\ StepShards(s, t, dt).rays = s.rays
<1> DEFINE debt == s.shardDebt + 110 * dt
<1>1. s.shardDebt \in 0..59
  BY DEF Scenes
<1>2. PICK n \in Nat, rest \in 0..59 : debt \div 60 = n /\ debt % 60 = rest /\ debt = 60 * n + rest
  <2>1. debt \in Nat
    BY <1>1
  <2> HIDE DEF debt
  <2> QED
    BY <2>1, SixtiethsSplit
<1> DEFINE born == [i \in 1..n |-> t - dt]
           kept == Kept(s.shards \o born, {b \in Int : t - b <= ShardLife})
<1>3. StepShards(s, t, dt) = [s EXCEPT !.shardDebt = rest, !.shards = kept]
  BY <1>2 DEF StepShards
<1>4. kept \in Times /\ Len(kept) \in Nat /\ Len(s.shards) \in Nat /\ Len(kept) <= Len(s.shards) + n
  <2>1. s.shards \in Seq(Int)
    BY DEF Scenes, Times
  <2>2. born \in Seq(Int) /\ Len(born) = n
    <3>1. t - dt \in Int
      OBVIOUS
    <3> QED
      BY <3>1
  <2> HIDE DEF born
  <2>3. s.shards \o born \in Seq(Int) /\ Len(s.shards \o born) = Len(s.shards) + Len(born)
    BY <2>1, <2>2, Joined
  <2>4. kept \in Seq(Int) /\ Len(kept) <= Len(s.shards \o born)
    BY <2>3, KeptIsFewer
  <2> HIDE DEF kept
  <2> QED
    BY <2>1, <2>2, <2>3, <2>4 DEF Times
<1> HIDE DEF kept
<1>5. StepShards(s, t, dt) \in Scenes
  <2>1. [s EXCEPT !.shardDebt = rest] \in Scenes
    BY ScenesKept
  <2>2. [[s EXCEPT !.shardDebt = rest] EXCEPT !.shards = kept] \in Scenes
    BY <1>4, <2>1, ScenesKept
  <2> QED
    BY <1>3, <2>2
<1>6. ShardBudget(StepShards(s, t, dt), t, dt)
  <2>1. StepShards(s, t, dt).shards = kept /\ StepShards(s, t, dt).shardDebt = rest
    BY <1>3 DEF Scenes
  <2>2. ShardsDue(t - dt, dt) + 110 * dt <= ShardsDue(t, dt)
    BY DEF ShardsDue, Clamp, BEATS, Aligned
  <2>3. ShardsDue(t - dt, dt) \in Int /\ ShardsDue(t, dt) \in Int
    BY DEF ShardsDue, Clamp
  <2>4. 60 * Len(s.shards) + s.shardDebt <= ShardsDue(t - dt, dt)
    BY DEF ShardBudget
  <2>5. s.shardDebt \in Nat /\ 110 * dt \in Nat /\ rest \in Nat
    BY <1>1
  <2>6. Len(kept) \in Nat /\ Len(s.shards) \in Nat /\ Len(kept) <= Len(s.shards) + n
    BY <1>4
  <2>7. s.shardDebt + 110 * dt = 60 * n + rest
    BY <1>2
  <2>8. 60 * Len(kept) + rest <= ShardsDue(t, dt)
    BY <2>2, <2>3, <2>4, <2>5, <2>6, <2>7, SMTT(60)
  <2> QED
    BY <2>1, <2>8 DEF ShardBudget
<1>7. /\ SameFlight(StepShards(s, t, dt), s) /\ SameCubes(StepShards(s, t, dt), s)
      /\ StepShards(s, t, dt).streaks = s.streaks /\ StepShards(s, t, dt).rays = s.rays
  BY <1>3 DEF Scenes, SameFlight, SameCubes
<1> QED
  BY <1>5, <1>6, <1>7

LEMMA SpawnedCubes ==
  ASSUME NEW s \in Scenes, NEW t \in Nat, NEW n \in Int, n >= 0, NEW a \in Int, NEW b \in Int
  PROVE  SpawnCubes(s, t, n, a, b) \in Seq(Int) /\ Len(SpawnCubes(s, t, n, a, b)) = n
<1>1. ASSUME NEW i \in 1..n
      PROVE  s.camZ + Depth(a) + (Depth(b) * Draw(s, t + i)) \div 100 \in Int
  <2>1. Draw(s, t + i) \in Int
    BY DrawIsPercent
  <2>2. s.camZ \in Int
    BY DEF Scenes
  <2>3. Depth(a) \in Int /\ Depth(b) \in Int
    BY DEF Depth
  <2>4. Depth(b) * Draw(s, t + i) \in Int
    BY <2>1, <2>3
  <2> QED
    BY <2>1, <2>2, <2>3, <2>4
<1> QED
  BY <1>1 DEF SpawnCubes

\* Cubes are added up to 40 of them, 20 of which the first frame of the corridor
\* brings.
LEMMA CubesFew ==
  ASSUME NEW s \in Scenes, NEW t \in Nat, NEW dt \in 1..3, CubeBudget(s)
  PROVE  /\ StepCubes(s, t, dt) \in Scenes
         /\ CubeBudget(StepCubes(s, t, dt))
         /\ SameFlight(StepCubes(s, t, dt), s) /\ SameShards(StepCubes(s, t, dt), s)
         /\ StepCubes(s, t, dt).streaks = s.streaks /\ StepCubes(s, t, dt).rays = s.rays
<1> DEFINE old == IF s.seeded THEN s.cubes ELSE s.cubes \o SpawnCubes(s, t, 20, 200, 3200)
           debt == s.cubeDebt + 16 * dt
           due == IF t < BEATS.clear THEN CubesDue(debt, old) ELSE 0
           new == SpawnCubes(s, t, due, 2600, 1400)
           kept == Kept(old \o new, {z \in Int : z - s.camZ >= Depth(150)})
           left == IF t < BEATS.clear THEN Clamp(debt - 60 * due, 0, 120) ELSE s.cubeDebt
<1>0. s.cubeDebt \in Int /\ s.seeded \in BOOLEAN /\ debt \in Int
  BY DEF Scenes
<1>1. s.cubes \in Seq(Int)
  BY DEF Scenes, Depths
<1>2. old \in Seq(Int) /\ Len(old) <= 40
  <2> DEFINE first == SpawnCubes(s, t, 20, 200, 3200)
  <2>1. first \in Seq(Int) /\ Len(first) = 20
    <3>1. PICK n \in Int : n = 20
      OBVIOUS
    <3>2. SpawnCubes(s, t, n, 200, 3200) \in Seq(Int) /\ Len(SpawnCubes(s, t, n, 200, 3200)) = n
      <4>1. n >= 0
        BY <3>1
      <4> HIDE <3>1
      <4> QED
        BY <4>1, SpawnedCubes
    <3> QED
      BY <3>1, <3>2
  <2> HIDE DEF first
  <2>2. s.cubes \o first \in Seq(Int) /\ Len(s.cubes \o first) = Len(s.cubes) + 20
    BY <1>1, <2>1, Joined
  <2> QED
    BY <1>1, <2>2 DEF CubeBudget, first
<1> HIDE DEF old, debt
<1>3. due \in Nat /\ Len(old) + due <= 40
  <2>1. Len(old) \in Nat
    BY <1>2
  <2>2. Len(old) <= 40
    BY <1>2
  <2> QED
    BY <1>0, <2>1, <2>2 DEF CubesDue, Clamp
<1>4. left \in Int
  BY <1>0, <1>3 DEF Clamp
<1> HIDE DEF due, left
<1>5. new \in Seq(Int) /\ Len(new) = due
  BY <1>3, SpawnedCubes
<1> HIDE DEF new
<1>6. old \o new \in Seq(Int) /\ Len(old \o new) <= 40
  BY <1>2, <1>3, <1>5, Joined
<1>7. kept \in Seq(Int) /\ Len(kept) <= 40
  <2>1. kept \in Seq(Int) /\ Len(kept) <= Len(old \o new)
    BY <1>6, KeptIsFewer
  <2> HIDE DEF kept
  <2> QED
    BY <1>6, <2>1
<1>8. StepCubes(s, t, dt) = [s EXCEPT !.seeded = TRUE, !.cubeDebt = left, !.cubes = kept]
  BY DEF StepCubes, old, debt, due, new, left
<1> HIDE DEF kept
<1>9. kept \in Depths /\ Len(kept) <= 40
  BY <1>7 DEF Depths
<1>10. StepCubes(s, t, dt) \in Scenes
  <2>1. [s EXCEPT !.seeded = TRUE] \in Scenes
    BY ScenesKept
  <2>2. [[s EXCEPT !.seeded = TRUE] EXCEPT !.cubeDebt = left] \in Scenes
    BY <1>4, <2>1, ScenesKept
  <2>3. [[[s EXCEPT !.seeded = TRUE] EXCEPT !.cubeDebt = left] EXCEPT !.cubes = kept] \in Scenes
    BY <1>9, <2>2, ScenesKept
  <2> QED
    BY <1>8, <2>3
<1>11. CubeBudget(StepCubes(s, t, dt))
  BY <1>8, <1>9 DEF CubeBudget, Scenes
<1>12. /\ SameFlight(StepCubes(s, t, dt), s) /\ SameShards(StepCubes(s, t, dt), s)
       /\ StepCubes(s, t, dt).streaks = s.streaks /\ StepCubes(s, t, dt).rays = s.rays
  BY <1>8 DEF Scenes, SameFlight, SameShards
<1> QED
  BY <1>10, <1>11, <1>12

LEMMA StreaksFew ==
  ASSUME NEW s \in Scenes, NEW t \in Nat, NEW dt \in 1..3, Len(s.streaks) <= 30
  PROVE  /\ StepStreaks(s, t, dt) \in Scenes
         /\ Len(StepStreaks(s, t, dt).streaks) <= 30
         /\ SameFlight(StepStreaks(s, t, dt), s) /\ SameShards(StepStreaks(s, t, dt), s)
         /\ SameCubes(StepStreaks(s, t, dt), s) /\ StepStreaks(s, t, dt).rays = s.rays
<1> DEFINE likely == (40 * dt * Span(t, BEATS.warp + 72, BEATS.arrive)) \div 60
           streak == [z |-> s.camZ + ((far \div 100) * (3000 + 35 * Draw(s, t))) \div 100,
                      len |-> Depth(900 + 22 * Draw(s, t + 1))]
           spawned == IF Len(s.streaks) < 30 /\ Draw(s, t + 2) < likely THEN <<streak>> ELSE <<>>
           kept == Kept(s.streaks \o spawned, {k \in Streaks : k.z - s.camZ + k.len >= near})
<1>0. s.camZ \in Int
  BY DEF Scenes
<1>1. s.streaks \in Seq(Streaks)
  BY DEF Scenes, Trails
<1>2. streak \in Streaks
  <2>1. PICK d \in 0..99, e \in 0..99 : Draw(s, t) = d /\ Draw(s, t + 1) = e
    <3>1. Draw(s, t) \in 0..99 /\ Draw(s, t + 1) \in 0..99
      BY DrawIsPercent
    <3> QED
      BY <3>1
  <2> DEFINE from == s.camZ + ((far \div 100) * (3000 + 35 * d)) \div 100
             length == Depth(900 + 22 * e)
  <2>2. from \in Int
    BY <1>0 DEF Depth, far
  <2>3. length \in Nat
    BY DEF Depth
  <2>4. streak = [z |-> from, len |-> length]
    BY <2>1
  <2> HIDE DEF from, length, streak
  <2> QED
    BY <2>2, <2>3, <2>4 DEF Streaks
<1> HIDE DEF streak, likely
<1>3. spawned \in Seq(Streaks) /\ Len(s.streaks) + Len(spawned) <= 30
  <2>1. <<streak>> \in Seq(Streaks) /\ Len(<<streak>>) = 1
    BY <1>2
  <2>2. <<>> \in Seq(Streaks) /\ Len(<<>>) = 0
    OBVIOUS
  <2>3. Len(s.streaks) \in Nat
    BY <1>1
  <2>4. spawned = <<>> \/ (spawned = <<streak>> /\ Len(s.streaks) < 30)
    OBVIOUS
  <2> HIDE DEF spawned
  <2>5. CASE spawned = <<>>
    BY <2>2, <2>3, <2>5
  <2>6. CASE spawned = <<streak>> /\ Len(s.streaks) < 30
    BY <2>1, <2>3, <2>6
  <2> QED
    BY <2>4, <2>5, <2>6
<1> HIDE DEF spawned
<1>4. s.streaks \o spawned \in Seq(Streaks) /\ Len(s.streaks \o spawned) <= 30
  BY <1>1, <1>3, Joined
<1>5. kept \in Seq(Streaks) /\ Len(kept) <= 30
  <2>1. kept \in Seq(Streaks) /\ Len(kept) <= Len(s.streaks \o spawned)
    BY <1>4, KeptIsFewer
  <2> HIDE DEF kept
  <2> QED
    BY <1>4, <2>1
<1>6. StepStreaks(s, t, dt) = [s EXCEPT !.streaks = kept]
  BY DEF StepStreaks, spawned, streak, likely
<1> HIDE DEF kept
<1>7. kept \in Trails
  BY <1>5 DEF Trails
<1>8. StepStreaks(s, t, dt) \in Scenes /\ StepStreaks(s, t, dt).streaks = kept
  BY <1>6, <1>7 DEF Scenes
<1>9. /\ SameFlight(StepStreaks(s, t, dt), s) /\ SameShards(StepStreaks(s, t, dt), s)
      /\ SameCubes(StepStreaks(s, t, dt), s) /\ StepStreaks(s, t, dt).rays = s.rays
  BY <1>6 DEF Scenes, SameFlight, SameShards, SameCubes
<1> QED
  BY <1>5, <1>8, <1>9

\* A batch is at most 19 rays, and only added to fewer than 150.
LEMMA RaysFew ==
  ASSUME NEW s \in Scenes, NEW t \in Nat, NEW dt \in 1..3, Len(s.rays) < 150 + 19
  PROVE  /\ StepRays(s, t, dt) \in Scenes
         /\ Len(StepRays(s, t, dt).rays) < 150 + 19
         /\ SameFlight(StepRays(s, t, dt), s) /\ SameShards(StepRays(s, t, dt), s)
         /\ SameCubes(StepRays(s, t, dt), s) /\ StepRays(s, t, dt).streaks = s.streaks
<1> DEFINE life == Span(t, BEATS.title, BEATS.settle)
           batch == (380 * dt * (1000 - 7 * life) + 30000) \div 60000
           born == [i \in 1..batch |-> t - dt + 30 + (54 * Draw(s, t + i)) \div 100]
           room == life < 100 /\ Len(s.rays) < 150
           list == IF room THEN s.rays \o born ELSE s.rays
           kept == Kept(list, {end \in Int : t <= end})
<1>1. s.rays \in Seq(Int)
  BY DEF Scenes, Times
<1>2. life \in 0..100
  BY DEF Span, Clamp, BEATS
<1> HIDE DEF life
<1>3. batch \in 0..19
  <2>1. CASE dt = 1
    BY <1>2, <2>1
  <2>2. CASE dt = 2
    BY <1>2, <2>2
  <2>3. CASE dt = 3
    BY <1>2, <2>3
  <2> QED
    BY <2>1, <2>2, <2>3
<1> HIDE DEF batch
<1>4. born \in Seq(Int) /\ Len(born) = batch
  <2>1. ASSUME NEW i \in 1..batch
        PROVE  t - dt + 30 + (54 * Draw(s, t + i)) \div 100 \in Int
    <3>1. t + i \in Int
      BY <1>3
    <3>2. Draw(s, t + i) \in 0..99
      BY <3>1, DrawIsPercent, Zenon
    <3>3. PICK d \in 0..99 : Draw(s, t + i) = d
      BY <3>2
    <3>4. t - dt + 30 + (54 * d) \div 100 \in Int
      OBVIOUS
    <3> QED
      BY <3>3, <3>4
  <2> QED
    BY <1>3, <2>1
<1> HIDE DEF born
<1>5. list \in Seq(Int) /\ Len(list) < 150 + 19
  BY <1>1, <1>3, <1>4, Joined
<1> HIDE DEF list
<1>6. kept \in Seq(Int) /\ Len(kept) < 150 + 19
  <2>1. kept \in Seq(Int) /\ Len(kept) <= Len(list)
    BY <1>5, KeptIsFewer
  <2> HIDE DEF kept
  <2> QED
    BY <1>5, <2>1
<1>7. StepRays(s, t, dt) = [s EXCEPT !.rays = kept]
  BY DEF StepRays, list, born, batch, life
<1> HIDE DEF kept
<1>8. kept \in Times
  BY <1>6 DEF Times
<1>9. StepRays(s, t, dt) \in Scenes /\ StepRays(s, t, dt).rays = kept
  BY <1>7, <1>8, ZenonT(90) DEF Scenes
<1>10. /\ SameFlight(StepRays(s, t, dt), s) /\ SameShards(StepRays(s, t, dt), s)
       /\ SameCubes(StepRays(s, t, dt), s) /\ StepRays(s, t, dt).streaks = s.streaks
  BY <1>7 DEF Scenes, SameFlight, SameShards, SameCubes
<1> QED
  BY <1>6, <1>9, <1>10

(***************************************************************************)
(* The intro's engine: its camera.                                          *)
(***************************************************************************)
\* Depth left before the wall at least, from when it is put up to when the
\* corridor is no longer painted: five lines, each falling as fast as the camera
\* can fly while it is the lowest.
Line(i, t) ==
  CASE i = 1 -> 186000 - 1310 * (t - 360)
    [] i = 2 -> 133600 - 1560 * (t - 400)
    [] i = 3 -> 114880 - 1930 * (t - 412)
    [] i = 4 -> 91720 - 2450 * (t - 424)
    [] i = 5 -> 62320 - 2900 * (t - 436)

Room(t) ==
  IF t <= 400 THEN Line(1, t) ELSE IF t <= 412 THEN Line(2, t)
  ELSE IF t <= 424 THEN Line(3, t) ELSE IF t <= 436 THEN Line(4, t) ELSE Line(5, t)

FlightInv(s, t) ==
  /\ s.camZ <= 2900 * t
  /\ t < BEATS.approach => s.wallZ = Infinity
  /\ t >= BEATS.approach => s.wallZ < Infinity
  /\ t >= BEATS.approach /\ t < BEATS.arrive + 9 => s.wallZ - s.camZ >= Room(t)

LEMMA InfinityIs == Infinity = 1000000000
BY DEF Infinity

\* The flight quickens with the cube of its progress.
LEMMA CubesGrow ==
  ASSUME NEW p \in Nat, NEW q \in Nat, p <= q
  PROVE  1850 * p * p * p <= 1850 * q * q * q
<1>1. p * p \in Nat /\ q * q \in Nat /\ p * p <= q * q
  OBVIOUS
<1>2. (p * p) * p <= (q * q) * q
  BY <1>1
<1>3. 1850 * p * p * p = 1850 * ((p * p) * p) /\ 1850 * q * q * q = 1850 * ((q * q) * q)
  OBVIOUS
<1> QED
  BY <1>1, <1>2, <1>3

LEMMA SpeedAt ==
  ASSUME NEW t \in Nat, t >= BEATS.clear, NEW q \in 0..100, Span(t, BEATS.clear, BEATS.arrive) <= q
  PROVE  CamSpeed(t) \in Int /\ CamSpeed(t) <= 1050 + (1850 * q * q * q) \div 1000000
<1> DEFINE p == Span(t, BEATS.clear, BEATS.arrive)
<1>1. p \in 0..100
  BY DEF Span, Clamp, BEATS
<1>2. CamSpeed(t) = 1050 + (1850 * p * p * p) \div 1000000
  BY DEF CamSpeed, BEATS
<1> HIDE DEF p
<1>3. 1850 * p * p * p <= 1850 * q * q * q
  BY <1>1, CubesGrow DEF p
<1> QED
  BY <1>1, <1>2, <1>3

\* Progress and the speed it stands for, as much as Room allows for.
Pace(q) == IF q = 52 THEN 1310 ELSE IF q = 65 THEN 1560 ELSE IF q = 78 THEN 1930
           ELSE IF q = 91 THEN 2450 ELSE 2900

LEMMA SpeedBounds ==
  ASSUME NEW t \in Nat, t >= BEATS.warp
  PROVE  /\ CamSpeed(t) \in Int /\ CamSpeed(t) <= 2900
         /\ t >= 360 /\ t <= 403 => CamSpeed(t) <= 1310
         /\ t >= 360 /\ t <= 415 => CamSpeed(t) <= 1560
         /\ t >= 360 /\ t <= 427 => CamSpeed(t) <= 1930
         /\ t >= 360 /\ t <= 439 => CamSpeed(t) <= 2450
<1>1. CASE t < BEATS.clear
  BY <1>1 DEF CamSpeed, Span, Clamp, BEATS
<1>2. CASE t >= BEATS.clear
  <2> DEFINE p == Span(t, BEATS.clear, BEATS.arrive)
  <2>1. ASSUME NEW q \in {52, 65, 78, 91, 100}, p <= q
        PROVE  CamSpeed(t) \in Int /\ CamSpeed(t) <= Pace(q)
    <3>1. CamSpeed(t) \in Int /\ CamSpeed(t) <= 1050 + (1850 * q * q * q) \div 1000000
      <4>1. q \in 0..100
        OBVIOUS
      <4> QED
        BY <1>2, <2>1, <4>1, SpeedAt
    <3>2. 1050 + (1850 * q * q * q) \div 1000000 <= Pace(q)
      BY DEF Pace
    <3>3. 1050 + (1850 * q * q * q) \div 1000000 \in Int /\ Pace(q) \in Int
      BY DEF Pace
    <3> QED
      BY <3>1, <3>2, <3>3
  <2>2. /\ p <= 100
        /\ t <= 403 => p <= 52
        /\ t <= 415 => p <= 65
        /\ t <= 427 => p <= 78
        /\ t <= 439 => p <= 91
    BY <1>2 DEF Span, Clamp, BEATS
  <2> HIDE DEF p
  <2>3. \A q \in {52, 65, 78, 91, 100} : p <= q => CamSpeed(t) \in Int /\ CamSpeed(t) <= Pace(q)
    BY <2>1
  <2>4. CamSpeed(t) \in Int /\ CamSpeed(t) <= 2900
    BY <2>2, <2>3 DEF Pace
  <2>5. /\ t <= 403 => CamSpeed(t) <= 1310
        /\ t <= 415 => CamSpeed(t) <= 1560
    BY <2>2, <2>3 DEF Pace
  <2>6. /\ t <= 427 => CamSpeed(t) <= 1930
        /\ t <= 439 => CamSpeed(t) <= 2450
    BY <2>2, <2>3 DEF Pace
  <2> QED
    BY <2>4, <2>5, <2>6
<1>3. t < BEATS.clear \/ t >= BEATS.clear
  BY DEF BEATS
<1> QED
  BY <1>1, <1>2, <1>3

LEMMA LinesAre ==
  ASSUME NEW t \in Int
  PROVE  /\ Line(1, t) = 186000 - 1310 * (t - 360)
         /\ Line(2, t) = 133600 - 1560 * (t - 400)
         /\ Line(3, t) = 114880 - 1930 * (t - 412)
         /\ Line(4, t) = 91720 - 2450 * (t - 424)
         /\ Line(5, t) = 62320 - 2900 * (t - 436)
BY DEF Line

LEMMA RoomIsLowest ==
  ASSUME NEW t \in Int
  PROVE  /\ Room(t) \in Int
         /\ \A i \in 1..5 : Room(t) <= Line(i, t)
         /\ t <= 400 => Room(t) = Line(1, t)
         /\ t > 400 /\ t <= 412 => Room(t) = Line(2, t)
         /\ t > 412 /\ t <= 424 => Room(t) = Line(3, t)
         /\ t > 424 /\ t <= 436 => Room(t) = Line(4, t)
         /\ t > 436 => Room(t) = Line(5, t)
<1>1. /\ t <= 400 => Room(t) = Line(1, t)
      /\ t > 400 /\ t <= 412 => Room(t) = Line(2, t)
      /\ t > 412 /\ t <= 424 => Room(t) = Line(3, t)
      /\ t > 424 /\ t <= 436 => Room(t) = Line(4, t)
      /\ t > 436 => Room(t) = Line(5, t)
  BY DEF Room
<1>2. PICK l1 \in Int, l2 \in Int, l3 \in Int, l4 \in Int, l5 \in Int :
        /\ l1 = 186000 - 1310 * (t - 360) /\ l2 = 133600 - 1560 * (t - 400)
        /\ l3 = 114880 - 1930 * (t - 412) /\ l4 = 91720 - 2450 * (t - 424)
        /\ l5 = 62320 - 2900 * (t - 436)
  OBVIOUS
<1>3. Line(1, t) = l1 /\ Line(2, t) = l2 /\ Line(3, t) = l3 /\ Line(4, t) = l4 /\ Line(5, t) = l5
  BY <1>2, LinesAre
<1>4. Room(t) \in Int /\ Room(t) <= l1 /\ Room(t) <= l2 /\ Room(t) <= l3 /\ Room(t) <= l4 /\ Room(t) <= l5
  <2>1. CASE t <= 400
    BY <1>1, <1>2, <1>3, <2>1
  <2>2. CASE t > 400 /\ t <= 412
    BY <1>1, <1>2, <1>3, <2>2
  <2>3. CASE t > 412 /\ t <= 424
    BY <1>1, <1>2, <1>3, <2>3
  <2>4. CASE t > 424 /\ t <= 436
    BY <1>1, <1>2, <1>3, <2>4
  <2>5. CASE t > 436
    BY <1>1, <1>2, <1>3, <2>5
  <2> QED
    BY <2>1, <2>2, <2>3, <2>4, <2>5
<1>5. \A i \in 1..5 : Room(t) <= Line(i, t)
  <2> SUFFICES ASSUME NEW i \in 1..5 PROVE Room(t) <= Line(i, t)
    OBVIOUS
  <2>1. i = 1 \/ i = 2 \/ i = 3 \/ i = 4 \/ i = 5
    OBVIOUS
  <2> QED
    BY <1>3, <1>4, <2>1
<1> QED
  BY <1>1, <1>4, <1>5

\* The arithmetic of a frame that begins on a line of Room.
LEMMA BelowLimit ==
  ASSUME NEW f \in Int, NEW drop \in Int, NEW a \in Int, NEW b \in Int, NEW c \in Int, NEW d \in Int,
         f <= drop, a - b = drop, c = a, d <= b
  PROVE  f <= c - d
OBVIOUS

\* What a line loses in a sixtieth of a second.
Rate(i) == CASE i = 1 -> 1310 [] i = 2 -> 1560 [] i = 3 -> 1930 [] i = 4 -> 2450 [] i = 5 -> 2900

LEMMA LineFalls ==
  ASSUME NEW i \in 1..5, NEW u \in Int, NEW dt \in 1..3
  PROVE  Rate(i) \in Int /\ Line(i, u) \in Int /\ Line(i, u) - Line(i, u + dt) = Rate(i) * dt
         /\ Line(i, u + dt) \in Int
<1>1. CASE i = 1
  BY <1>1 DEF Line, Rate
<1>2. CASE i = 2
  BY <1>2 DEF Line, Rate
<1>3. CASE i = 3
  BY <1>3 DEF Line, Rate
<1>4. CASE i = 4
  BY <1>4 DEF Line, Rate
<1>5. CASE i = 5
  BY <1>5 DEF Line, Rate
<1> QED
  BY <1>1, <1>2, <1>3, <1>4, <1>5

\* A frame of at most three sixtieths that begins on a line of Room, at the speed
\* that line stands for.
LEMMA LineLasts ==
  ASSUME NEW i \in 1..5, NEW v \in Int, v <= Rate(i), NEW dt \in 1..3,
         NEW u \in Int, Room(u) = Line(i, u)
  PROVE  v * dt <= Room(u) - Room(u + dt)
<1>1. PICK w \in Int : w = Rate(i) /\ Line(i, u) - Line(i, u + dt) = w * dt
  BY LineFalls
<1>2. v * dt \in Int /\ w * dt \in Int /\ v * dt <= w * dt
  <2>1. dt = 1 \/ dt = 2 \/ dt = 3
    OBVIOUS
  <2>2. v <= w
    BY <1>1
  <2> QED
    BY <2>1, <2>2
<1>3. PICK f \in Int, drop \in Int : f = v * dt /\ drop = w * dt
  BY <1>2
<1>4. f <= drop /\ Line(i, u) - Line(i, u + dt) = drop
  BY <1>1, <1>2, <1>3
<1>5. Room(u + dt) \in Int /\ Room(u) \in Int /\ Room(u + dt) <= Line(i, u + dt)
  <2>1. u + dt \in Int
    OBVIOUS
  <2> QED
    BY <2>1, RoomIsLowest
<1>6. Line(i, u) \in Int /\ Line(i, u + dt) \in Int
  BY LineFalls
<1>7. f <= Room(u) - Room(u + dt)
  BY <1>4, <1>5, <1>6, BelowLimit
<1> QED
  BY <1>3, <1>7

\* No frame eats up more of the room than the table leaves for it.
LEMMA RoomLasts ==
  ASSUME NEW t \in Nat, NEW dt \in 1..3, t - dt >= 360, t < 456
  PROVE  CamSpeed(t) * dt <= Room(t - dt) - Room(t)
<1>1. PICK v \in Int :
        /\ v = CamSpeed(t) /\ v <= 2900
        /\ t <= 403 => v <= 1310
        /\ t <= 415 => v <= 1560
        /\ t <= 427 => v <= 1930
        /\ t <= 439 => v <= 2450
  <2>1. t >= BEATS.warp /\ t >= 360
    BY DEF BEATS
  <2> QED
    BY <2>1, SpeedBounds
<1>2. PICK u \in Int : u = t - dt
  OBVIOUS
<1>3. u + dt = t /\ u >= 360 /\ t <= u + 3
  BY <1>2
<1>4. PICK i \in 1..5 : Room(u) = Line(i, u) /\ v <= Rate(i)
  <2>0. t \in Int /\ u \in Int
    OBVIOUS
  <2>1. CASE u <= 400
    <3>1. Room(u) = Line(1, u)
      BY <2>1, RoomIsLowest
    <3>2. v <= 1310
      BY <1>1, <1>3, <2>1, <2>0
    <3> QED
      BY <3>1, <3>2 DEF Rate
  <2>2. CASE u > 400 /\ u <= 412
    <3>1. Room(u) = Line(2, u)
      BY <2>2, RoomIsLowest
    <3>2. v <= 1560
      BY <1>1, <1>3, <2>2, <2>0
    <3> QED
      BY <3>1, <3>2 DEF Rate
  <2>3. CASE u > 412 /\ u <= 424
    <3>1. Room(u) = Line(3, u)
      BY <2>3, RoomIsLowest
    <3>2. v <= 1930
      BY <1>1, <1>3, <2>3, <2>0
    <3> QED
      BY <3>1, <3>2 DEF Rate
  <2>4. CASE u > 424 /\ u <= 436
    <3>1. Room(u) = Line(4, u)
      BY <2>4, RoomIsLowest
    <3>2. v <= 2450
      BY <1>1, <1>3, <2>4, <2>0
    <3> QED
      BY <3>1, <3>2 DEF Rate
  <2>5. CASE u > 436
    <3>1. Room(u) = Line(5, u)
      BY <2>5, RoomIsLowest
    <3>2. v <= 2900
      BY <1>1, <1>3, <2>5, <2>0
    <3> QED
      BY <3>1, <3>2 DEF Rate
  <2> QED
    BY <2>1, <2>2, <2>3, <2>4, <2>5
<1>5. v * dt <= Room(u) - Room(u + dt)
  BY <1>4, LineLasts
<1>6. PICK f \in Int : f = v * dt
  OBVIOUS
<1>7. f <= Room(u) - Room(t)
  BY <1>3, <1>5, <1>6
<1> QED
  BY <1>1, <1>2, <1>6, <1>7

\* The camera's part of a frame.
LEMMA FlightKept ==
  ASSUME NEW s \in Scenes, NEW t \in Nat, NEW dt \in 1..3, t - dt \in Nat,
         FlightInv(s, t - dt), t >= BEATS.warp,
         NEW n \in Scenes, n.camZ = s.camZ + CamSpeed(t) * dt,
         n.wallZ = Wall([s EXCEPT !.camZ = n.camZ], t)
  PROVE  FlightInv(n, t)
<1>1. s.camZ \in Int /\ s.wallZ \in Int /\ n.camZ \in Int /\ n.wallZ \in Int
  BY DEF Scenes
<1>2. n.wallZ = IF s.wallZ = Infinity /\ t >= BEATS.approach THEN n.camZ + Depth(3100) ELSE s.wallZ
  BY DEF Wall, Scenes
<1>3. CamSpeed(t) \in Int /\ CamSpeed(t) <= 2900
  BY SpeedBounds
<1>4. CamSpeed(t) * dt \in Int /\ CamSpeed(t) * dt <= 2900 * dt
  BY <1>3
<1>5. n.camZ <= 2900 * t
  BY <1>1, <1>4 DEF FlightInv
<1>6. CASE t < BEATS.approach
  BY <1>1, <1>2, <1>5, <1>6 DEF FlightInv, BEATS
<1>7. CASE t >= BEATS.approach /\ t - dt < BEATS.approach
  <2>1. n.wallZ = n.camZ + Depth(3100)
    BY <1>2, <1>7 DEF FlightInv
  <2>2. t >= 360 /\ t <= 362
    BY <1>7 DEF BEATS
  <2>3. n.wallZ < Infinity
    BY <1>1, <1>5, <2>1, <2>2, InfinityIs DEF Depth
  <2>4. n.wallZ - n.camZ >= Room(t)
    BY <1>1, <2>1, <2>2, LinesAre DEF Room, Depth
  <2> QED
    BY <1>5, <1>7, <2>3, <2>4 DEF FlightInv, BEATS
<1>8. CASE t - dt >= BEATS.approach
  <2>1. n.wallZ = s.wallZ /\ s.wallZ < Infinity
    BY <1>1, <1>2, <1>8, InfinityIs DEF FlightInv
  <2>2. ASSUME t < BEATS.arrive + 9 PROVE n.wallZ - n.camZ >= Room(t)
    <3>1. CamSpeed(t) * dt <= Room(t - dt) - Room(t)
      BY <1>8, <2>2, RoomLasts DEF BEATS
    <3>2. s.wallZ - s.camZ >= Room(t - dt)
      BY <1>8, <2>2 DEF FlightInv, BEATS
    <3>3. Room(t - dt) \in Int /\ Room(t) \in Int
      BY RoomIsLowest
    <3> QED
      BY <1>1, <1>4, <2>1, <3>1, <3>2, <3>3
  <2>3. t >= BEATS.approach
    BY <1>8 DEF BEATS
  <2> QED
    BY <1>5, <2>1, <2>2, <2>3 DEF FlightInv, BEATS
<1>9. t < BEATS.approach \/ (t >= BEATS.approach /\ t - dt < BEATS.approach) \/ t - dt >= BEATS.approach
  BY DEF BEATS
<1> QED
  BY <1>6, <1>7, <1>8, <1>9

(***************************************************************************)
(* The intro's engine: a frame keeps its invariant.                         *)
(***************************************************************************)
Few(s) ==
  /\ Len(s.shards) <= 204 /\ Len(s.cubes) <= 40
  /\ Len(s.streaks) <= 30 /\ Len(s.rays) < 150 + 19 /\ s.motes = 58

EngineInv(c, s) ==
  /\ Aligned(c.t, Elapsed(c.frame))
  /\ ShardBudget(s, c.t, Elapsed(c.frame))
  /\ CubeBudget(s)
  /\ Len(s.streaks) <= 30 /\ Len(s.rays) < 150 + 19
  /\ FlightInv(s, c.t)

\* What a frame in the corridor leaves alone, and what it bounds.
LEMMA CorridorKept ==
  ASSUME NEW s \in Scenes, NEW t \in Nat, NEW dt \in 1..3, CubeBudget(s), Len(s.streaks) <= 30
  PROVE  /\ StepCorridor(s, t, dt) \in Scenes /\ CubeBudget(StepCorridor(s, t, dt))
         /\ Len(StepCorridor(s, t, dt).streaks) <= 30
         /\ SameFlight(StepCorridor(s, t, dt), s) /\ SameShards(StepCorridor(s, t, dt), s)
         /\ StepCorridor(s, t, dt).rays = s.rays
<1> DEFINE m == StepCubes(s, t, dt)
           n == StepStreaks(m, t, dt)
<1>1. /\ m \in Scenes /\ CubeBudget(m) /\ SameFlight(m, s) /\ SameShards(m, s)
      /\ m.streaks = s.streaks /\ m.rays = s.rays
  BY CubesFew
<1> HIDE DEF m
<1>2. Len(m.streaks) <= 30
  BY <1>1
<1>3. /\ n \in Scenes /\ Len(n.streaks) <= 30 /\ SameFlight(n, m) /\ SameShards(n, m)
      /\ SameCubes(n, m) /\ n.rays = m.rays
  BY <1>1, <1>2, StreaksFew
<1> HIDE DEF n
<1>4. CubeBudget(n) /\ SameFlight(n, s) /\ SameShards(n, s) /\ n.rays = s.rays
  BY <1>1, <1>3 DEF CubeBudget, SameFlight, SameShards, SameCubes
<1>5. StepCorridor(s, t, dt) = n
  BY DEF StepCorridor, m, n
<1> QED
  BY <1>3, <1>4, <1>5

\* A frame in the corridor, from the warp on.
LEMMA CorridorFrame ==
  ASSUME NEW s \in Scenes, NEW t \in Nat, NEW dt \in 1..3, t - dt \in Nat, t >= BEATS.warp,
         FlightInv(s, t - dt), CubeBudget(s), Len(s.streaks) <= 30, Len(s.rays) < 150 + 19
  PROVE  /\ Simulated(s, t, dt) \in Scenes /\ CubeBudget(Simulated(s, t, dt))
         /\ Len(Simulated(s, t, dt).streaks) <= 30 /\ Len(Simulated(s, t, dt).rays) < 150 + 19
         /\ SameShards(Simulated(s, t, dt), s)
         /\ FlightInv(Simulated(s, t, dt), t)
<1> DEFINE flown == Flown(s, t, dt)
           ahead == [flown EXCEPT !.wallZ = Wall(flown, t)]
           corridor == StepCorridor(ahead, t, dt)
           n == Simulated(s, t, dt)
<1>1. s.camZ \in Int /\ CamSpeed(t) * dt \in Int
  <2>1. CamSpeed(t) \in Int
    BY SpeedBounds
  <2> QED
    BY <2>1 DEF Scenes
<1>2. PICK z \in Int : z = s.camZ + CamSpeed(t) * dt
  BY <1>1
<1>3. flown = [s EXCEPT !.camZ = z]
  BY <1>2 DEF Flown
<1>4. flown \in Scenes
  BY <1>3, ScenesKept
<1>5. /\ flown.camZ = z /\ SameShards(flown, s) /\ SameCubes(flown, s)
      /\ flown.streaks = s.streaks /\ flown.rays = s.rays
  BY <1>3 DEF Scenes, SameShards, SameCubes
<1>6. Wall(flown, t) = Wall([s EXCEPT !.camZ = z], t)
  BY <1>3
<1> HIDE DEF flown
<1>7. Wall(flown, t) \in Int
  BY <1>4 DEF Wall, Scenes, Depth
<1>8. ahead \in Scenes
  BY <1>4, <1>7, ScenesKept
<1>9. /\ ahead.camZ = flown.camZ /\ ahead.wallZ = Wall(flown, t)
      /\ SameShards(ahead, flown) /\ SameCubes(ahead, flown)
      /\ ahead.streaks = flown.streaks /\ ahead.rays = flown.rays
  BY <1>4 DEF Scenes, SameShards, SameCubes
<1> HIDE DEF ahead
<1>10. CubeBudget(ahead) /\ Len(ahead.streaks) <= 30
  BY <1>5, <1>9 DEF CubeBudget, SameCubes
<1>11. /\ corridor \in Scenes /\ CubeBudget(corridor) /\ Len(corridor.streaks) <= 30
       /\ SameFlight(corridor, ahead) /\ SameShards(corridor, ahead)
       /\ corridor.rays = ahead.rays
  BY <1>8, <1>10, CorridorKept
<1> HIDE DEF corridor
<1>12. n = IF t < BEATS.title THEN corridor ELSE StepRays(corridor, t, dt)
  BY DEF Simulated, corridor, ahead, flown, BEATS
<1> HIDE DEF n
<1>13. /\ n \in Scenes /\ Len(n.rays) < 150 + 19 /\ SameFlight(n, corridor)
       /\ SameShards(n, corridor) /\ SameCubes(n, corridor) /\ n.streaks = corridor.streaks
  <2>1. Len(corridor.rays) < 150 + 19
    BY <1>5, <1>9, <1>11
  <2>2. CASE t < BEATS.title
    BY <1>11, <1>12, <2>1, <2>2 DEF SameFlight, SameShards, SameCubes
  <2>3. CASE ~(t < BEATS.title)
    <3>1. n = StepRays(corridor, t, dt)
      BY <1>12, <2>3
    <3> QED
      BY <1>11, <2>1, <3>1, RaysFew
  <2> QED
    BY <2>2, <2>3
<1>14. CubeBudget(n)
  BY <1>11, <1>13 DEF CubeBudget, SameCubes
<1>15. Len(n.streaks) <= 30
  BY <1>11, <1>13
<1>16. SameShards(n, s)
  BY <1>5, <1>9, <1>11, <1>13 DEF SameShards
<1>17. n.camZ = s.camZ + CamSpeed(t) * dt /\ n.wallZ = Wall([s EXCEPT !.camZ = n.camZ], t)
  <2>1. n.camZ = z /\ n.wallZ = Wall(flown, t)
    BY <1>5, <1>9, <1>11, <1>13 DEF SameFlight
  <2> QED
    BY <1>2, <1>6, <2>1
<1>18. FlightInv(n, t)
  BY <1>13, <1>17, FlightKept
<1> QED
  BY <1>13, <1>14, <1>15, <1>16, <1>18 DEF n

\* A frame, whatever the beat.
LEMMA FrameKept ==
  ASSUME NEW c \in Clocks, NEW s \in Scenes, EngineInv(c, s)
  PROVE  /\ Advanced(c) \in Clocks
         /\ Simulated(s, Advanced(c).t, Advanced(c).t - c.t) \in Scenes
         /\ EngineInv(Advanced(c), Simulated(s, Advanced(c).t, Advanced(c).t - c.t))
<1> DEFINE dt == Elapsed(c.frame)
           d == Advanced(c)
           t == c.t + dt
           n == Simulated(s, t, dt)
<1>1. dt \in 1..3 /\ c.t \in Nat
  <2>1. c.t \in Nat
    BY DEF Clocks
  <2> QED
    BY <2>1, ElapsedIsShort
<1>2. d \in Clocks /\ d.t = t /\ d.frame = c.frame
  <2>1. d = [c EXCEPT !.t = t, !.completed = c.completed \/ t >= BEATS.done]
    BY DEF Advanced
  <2>2. (c.completed \/ t >= BEATS.done) \in BOOLEAN
    OBVIOUS
  <2>3. t \in Nat
    BY <1>1
  <2> HIDE DEF d, dt, t
  <2> QED
    BY <2>1, <2>2, <2>3 DEF Clocks
<1> HIDE DEF d, dt
<1>3. t \in Nat /\ t - dt = c.t /\ t - c.t = dt
  BY <1>1
<1>4. Aligned(c.t, dt) /\ Aligned(t, dt)
  <2>1. Aligned(c.t, dt)
    BY DEF EngineInv, dt
  <2> QED
    BY <1>1, <2>1 DEF Aligned
<1>5. /\ ShardBudget(s, c.t, dt) /\ CubeBudget(s) /\ Len(s.streaks) <= 30
      /\ Len(s.rays) < 150 + 19 /\ FlightInv(s, c.t)
  BY DEF EngineInv, dt
<1> HIDE DEF t
<1>6. ASSUME NEW m \in Scenes, SameShards(m, s)
      PROVE  ShardBudget(m, t, dt)
  <2>1. ShardsDue(c.t, dt) <= ShardsDue(t, dt)
    BY <1>1, <1>3 DEF ShardsDue, Clamp
  <2>2. ShardsDue(c.t, dt) \in Int /\ ShardsDue(t, dt) \in Int
    BY <1>1, <1>3 DEF ShardsDue, Clamp
  <2>3. 60 * Len(m.shards) + m.shardDebt <= ShardsDue(c.t, dt)
    BY <1>5, <1>6 DEF ShardBudget, SameShards
  <2>4. Len(m.shards) \in Nat /\ m.shardDebt \in Nat
    BY ShardCount
  <2> QED
    BY <2>1, <2>2, <2>3, <2>4 DEF ShardBudget
<1>7. ASSUME t < BEATS.warp, NEW m \in Scenes, SameFlight(m, s) PROVE FlightInv(m, t)
  <2>1. s.camZ \in Int /\ s.wallZ \in Int
    BY DEF Scenes
  <2>2. s.camZ <= 2900 * c.t /\ (c.t < BEATS.approach => s.wallZ = Infinity)
    BY <1>5 DEF FlightInv
  <2> QED
    BY <1>1, <1>3, <1>7, <2>1, <2>2 DEF FlightInv, BEATS, SameFlight
<1>8. n \in Scenes /\ ShardBudget(n, t, dt) /\ CubeBudget(n) /\ Len(n.streaks) <= 30
      /\ Len(n.rays) < 150 + 19 /\ FlightInv(n, t)
  <2>1. CASE t < BEATS.burst
    <3>1. n = s
      BY <2>1 DEF Simulated
    <3>2. t < BEATS.warp
      BY <1>3, <2>1 DEF BEATS
    <3> HIDE DEF n
    <3> QED
      BY <1>5, <1>6, <1>7, <3>1, <3>2 DEF SameShards, SameFlight
  <2>2. CASE t >= BEATS.burst /\ t < BEATS.warp
    <3>1. n = StepShards(s, t, dt)
      BY <1>3, <2>2 DEF Simulated, BEATS
    <3>2. ShardBudget(s, t - dt, dt)
      BY <1>3, <1>5
    <3> HIDE DEF n
    <3>3. /\ n \in Scenes /\ ShardBudget(n, t, dt) /\ SameFlight(n, s) /\ SameCubes(n, s)
          /\ n.streaks = s.streaks /\ n.rays = s.rays
      BY <1>1, <1>3, <1>4, <2>2, <3>1, <3>2, ShardsFew
    <3>4. FlightInv(n, t)
      BY <1>7, <2>2, <3>3
    <3>5. CubeBudget(n)
      BY <1>5, <3>3 DEF CubeBudget, SameCubes
    <3> QED
      BY <1>5, <3>3, <3>4, <3>5
  <2>3. CASE t >= BEATS.warp
    <3>1. FlightInv(s, t - dt) /\ t - dt \in Nat
      BY <1>1, <1>3, <1>5
    <3>2. /\ n \in Scenes /\ CubeBudget(n) /\ Len(n.streaks) <= 30 /\ Len(n.rays) < 150 + 19
          /\ SameShards(n, s) /\ FlightInv(n, t)
      <4> HIDE DEF n
      <4> QED
        BY <1>1, <1>3, <1>5, <2>3, <3>1, CorridorFrame DEF n
    <3> HIDE DEF n
    <3> QED
      BY <1>6, <3>2
  <2>4. t < BEATS.burst \/ (t >= BEATS.burst /\ t < BEATS.warp) \/ t >= BEATS.warp
    BY <1>3 DEF BEATS
  <2> HIDE DEF n
  <2> QED
    BY <2>1, <2>2, <2>3, <2>4
<1> HIDE DEF n
<1>9. Elapsed(d.frame) = dt /\ d.t = t
  BY <1>2 DEF dt
<1>10. EngineInv(d, n)
  BY <1>4, <1>8, <1>9 DEF EngineInv
<1>11. d.t - c.t = dt
  BY <1>2, <1>3
<1> QED
  BY <1>2, <1>8, <1>10, <1>11 DEF n, d

\* A new engine.
LEMMA FreshEngine ==
  ASSUME NEW frame \in FrameTimes, NEW seed \in Seeds
  PROVE  /\ FreshClock(frame) \in Clocks /\ FreshScene(seed) \in Scenes
         /\ EngineInv(FreshClock(frame), FreshScene(seed))
<1> DEFINE c == FreshClock(frame)
           s == FreshScene(seed)
<1>1. c \in Clocks /\ c.t = 0
  BY EngineAssumption DEF FreshClock, Clocks
<1>2. s \in Scenes
  <2>1. <<>> \in Times /\ <<>> \in Depths /\ <<>> \in Trails
    BY DEF Times, Depths, Trails
  <2>2. seed \in Int /\ Infinity \in Int
    BY EngineAssumption, InfinityIs
  <2> QED
    BY <2>1, <2>2 DEF FreshScene, Scenes
<1>3. /\ s.camZ = 0 /\ s.wallZ = Infinity /\ s.shards = <<>> /\ s.shardDebt = 0
      /\ s.cubes = <<>> /\ s.streaks = <<>> /\ s.rays = <<>>
  BY DEF FreshScene
<1> HIDE DEF c, s
<1>4. Len(<<>>) = 0
  OBVIOUS
<1>5. CubeBudget(s) /\ Len(s.streaks) <= 30 /\ Len(s.rays) < 150 + 19
  BY <1>3, <1>4 DEF CubeBudget
<1>6. FlightInv(s, 0)
  BY <1>3 DEF FlightInv, BEATS
<1>7. Elapsed(c.frame) \in 1..3
  BY <1>1, ElapsedIsShort
<1>8. ShardBudget(s, 0, Elapsed(c.frame))
  BY <1>3, <1>4, <1>7 DEF ShardBudget, ShardsDue, Clamp
<1>9. Aligned(0, Elapsed(c.frame))
  BY DEF Aligned
<1>10. EngineInv(c, s)
  BY <1>1, <1>5, <1>6, <1>8, <1>9 DEF EngineInv
<1> QED
  BY <1>1, <1>2, <1>10 DEF c, s

\* The shards of the whole burst, and so those of any time of it, are few.
LEMMA EngineFew ==
  ASSUME NEW c \in Clocks, NEW s \in Scenes, EngineInv(c, s)
  PROVE  Few(s)
<1>1. Len(s.shards) \in Nat /\ s.shardDebt \in Nat
  BY ShardCount
<1>2. c.t \in Nat /\ Elapsed(c.frame) \in 1..3
  <2>1. c.t \in Nat
    BY DEF Clocks
  <2> QED
    BY <2>1, ElapsedIsShort
<1>3. ShardsDue(c.t, Elapsed(c.frame)) <= 12210
  BY <1>2 DEF ShardsDue, Clamp
<1>4. ShardsDue(c.t, Elapsed(c.frame)) \in Int
  BY <1>2 DEF ShardsDue, Clamp
<1>5. 60 * Len(s.shards) + s.shardDebt <= ShardsDue(c.t, Elapsed(c.frame))
  BY DEF EngineInv, ShardBudget
<1>6. Len(s.shards) <= 204
  BY <1>1, <1>3, <1>4, <1>5
<1>7. s.motes = 58
  BY DEF Scenes
<1>8. Len(s.cubes) <= 40 /\ Len(s.streaks) <= 30 /\ Len(s.rays) < 150 + 19
  BY DEF EngineInv, CubeBudget
<1> QED
  BY <1>6, <1>7, <1>8 DEF Few

(***************************************************************************)
(* The intro's engine: what its frames show.                                *)
(***************************************************************************)
Painting(t) == t < BEATS.arrive + 9

LEMMA RoomLeft == ASSUME NEW t \in Nat, t < 456 PROVE Room(t) \in Int /\ Room(t) >= 7000
<1>1. CASE t <= 400
  BY <1>1, LinesAre DEF Room
<1>2. CASE t > 400 /\ t <= 412
  BY <1>2, LinesAre DEF Room
<1>3. CASE t > 412 /\ t <= 424
  BY <1>3, LinesAre DEF Room
<1>4. CASE t > 424 /\ t <= 436
  BY <1>4, LinesAre DEF Room
<1>5. CASE t > 436
  BY <1>5, LinesAre DEF Room
<1> QED
  BY <1>1, <1>2, <1>3, <1>4, <1>5

\* The wall is farther than anything the corridor paints.
LEMMA WallAhead ==
  ASSUME NEW s \in Scenes, NEW t \in Nat, FlightInv(s, t), Painting(t)
  PROVE  s.wallZ - s.camZ \in Int /\ s.wallZ - s.camZ >= 7000
<1>1. s.wallZ \in Int /\ s.camZ \in Int
  BY DEF Scenes
<1>2. t < 456
  BY DEF Painting, BEATS
<1>3. CASE t < BEATS.approach
  <2>1. s.wallZ = 1000000000 /\ s.camZ <= 2900 * t /\ t < 360
    BY <1>3, InfinityIs DEF FlightInv, BEATS
  <2> QED
    BY <1>1, <2>1
<1>4. CASE t >= BEATS.approach
  <2>1. s.wallZ - s.camZ >= Room(t)
    BY <1>2, <1>4 DEF FlightInv, BEATS
  <2> QED
    BY <1>1, <1>2, <2>1, RoomLeft
<1>5. t < BEATS.approach \/ t >= BEATS.approach
  BY DEF BEATS
<1> QED
  BY <1>3, <1>4, <1>5

Before(k, wall) == near <= k[1] /\ k[1] <= k[2] /\ k[2] <= wall

LEMMA StreakAhead ==
  ASSUME NEW s \in Scenes, NEW i \in 1..Len(s.streaks), NEW r,
         r = [from |-> s.streaks[i].z - s.camZ, to |-> s.streaks[i].z + s.streaks[i].len - s.camZ]
  PROVE  r.from \in Int /\ r.to \in Int /\ r.from <= r.to
<1>1. s.streaks[i] \in Streaks
  <2>1. s.streaks \in Seq(Streaks)
    BY DEF Scenes, Trails
  <2> QED
    BY <2>1
<1>2. PICK cam \in Int, z \in Int, len \in Nat :
        cam = s.camZ /\ z = s.streaks[i].z /\ len = s.streaks[i].len
  BY <1>1 DEF Scenes, Streaks
<1>3. r.from = z - cam /\ r.to = z + len - cam
  BY <1>2
<1>4. z - cam \in Int /\ z + len - cam \in Int /\ z - cam <= z + len - cam
  OBVIOUS
<1> QED
  BY <1>3, <1>4

\* A streak, cut to what is seen of it.
LEMMA StreakCut ==
  ASSUME NEW from \in Int, NEW to \in Int, NEW limit \in Int, NEW wall \in Int,
         from <= to, to >= near, 10 * from < 9 * limit, limit >= 7000, limit <= wall, limit <= 216000
  PROVE  Before(<<Clamp(from, near, Infinity), Clamp(to, -Infinity, limit)>>, wall)
<1>1. near = 3600 /\ Infinity = 1000000000
  BY InfinityIs DEF near, Depth
<1>2. PICK a \in Int, b \in Int : a = Clamp(from, near, Infinity) /\ b = Clamp(to, -Infinity, limit)
  BY <1>1 DEF Clamp
<1>3. near <= a /\ a <= b /\ b <= wall
  BY <1>1, <1>2 DEF Clamp
<1> QED
  BY <1>2, <1>3 DEF Before

LEMMA CorridorSeen ==
  ASSUME NEW s \in Scenes, NEW t \in Nat, FlightInv(s, t)
  PROVE  /\ \A k \in Corridor(s, t) : Before(k, s.wallZ - s.camZ)
         /\ Painting(t) => Corridor(s, t) # {}
<1>1. CASE ~Painting(t)
  <2>1. t >= BEATS.arrive + 9
    BY <1>1 DEF Painting, BEATS
  <2>2. Corridor(s, t) = {}
    BY <2>1 DEF Corridor
  <2> QED
    BY <1>1, <2>2
<1>2. CASE Painting(t)
  <2> DEFINE wall == s.wallZ - s.camZ
             limit == Clamp(wall, -Infinity, Depth(3600))
             runs == {k \in {<<near + Depth(40), 985 * (limit \div 1000)>>} : k[2] > k[1]}
             rings == {z \in {Depth(90) * i - (s.camZ % Depth(90)) : i \in 0..((limit \div Depth(90)) + 1)} :
                         near <= z /\ z <= limit /\ 10 * z < 9 * limit}
             ahead == {[from |-> s.streaks[i].z - s.camZ, to |-> s.streaks[i].z + s.streaks[i].len - s.camZ] :
                         i \in 1..Len(s.streaks)}
             lines == {<<Clamp(k.from, near, Infinity), Clamp(k.to, -Infinity, limit)>> :
                         k \in {k \in ahead : k.to >= near /\ 10 * k.from < 9 * limit}}
             cubes == {z \in {s.cubes[i] - s.camZ : i \in 1..Len(s.cubes)} :
                         Depth(150) <= z /\ z <= limit /\ 100 * z < 95 * limit}
             end == {z \in {wall} : s.wallZ # Infinity /\ wall > near}
  <2>1. Corridor(s, t) = runs \cup lines \cup {<<z, z>> : z \in rings \cup cubes \cup end}
    <3>1. ~(t >= BEATS.arrive + 9)
      BY <1>2 DEF Painting, BEATS
    <3> QED
      BY <3>1 DEF Corridor
  <2>2. wall \in Int /\ wall >= 7000
    BY <1>2, WallAhead
  <2>3. near = 3600 /\ Depth(40) = 2400 /\ Depth(150) = 9000
    BY DEF near, Depth
  <2> HIDE DEF wall
  <2>4. limit \in Int /\ limit >= 7000 /\ limit <= wall /\ limit <= 216000
    BY <2>2, InfinityIs DEF Clamp, Depth
  <2> HIDE DEF limit
  <2>5. ASSUME NEW k \in runs PROVE Before(k, wall)
    <3>1. PICK to \in Int : to = 985 * (limit \div 1000)
      BY <2>4
    <3>2. k = <<near + Depth(40), to>> /\ k[2] > k[1]
      BY <3>1
    <3>3. k[1] = 6000 /\ k[2] = to
      BY <2>3, <3>2
    <3>4. to <= limit
      BY <2>4, <3>1
    <3> QED
      BY <2>2, <2>3, <2>4, <3>2, <3>3, <3>4 DEF Before
  <2>6. ASSUME NEW k \in lines PROVE Before(k, wall)
    <3>1. PICK r \in ahead : /\ k = <<Clamp(r.from, near, Infinity), Clamp(r.to, -Infinity, limit)>>
                             /\ r.to >= near /\ 10 * r.from < 9 * limit
      OBVIOUS
    <3>2. PICK i \in 1..Len(s.streaks) :
            r = [from |-> s.streaks[i].z - s.camZ, to |-> s.streaks[i].z + s.streaks[i].len - s.camZ]
      OBVIOUS
    <3>6. r.from \in Int /\ r.to \in Int /\ r.from <= r.to
      BY <3>2, StreakAhead
    <3>7. Before(<<Clamp(r.from, near, Infinity), Clamp(r.to, -Infinity, limit)>>, wall)
      BY <2>2, <2>4, <3>1, <3>6, StreakCut
    <3> QED
      BY <3>1, <3>7
  <2>7. ASSUME NEW z \in rings \cup cubes \cup end PROVE Before(<<z, z>>, wall)
    <3>1. CASE z \in rings
      <4>1. PICK i \in 0..((limit \div Depth(90)) + 1) : z = Depth(90) * i - (s.camZ % Depth(90))
        BY <3>1
      <4>2. near <= z /\ z <= limit
        BY <3>1
      <4>3. z \in Int
        <5>1. s.camZ \in Int /\ Depth(90) = 5400
          BY DEF Scenes, Depth
        <5>2. i \in Int
          BY <4>1
        <5> QED
          BY <4>1, <5>1, <5>2
      <4> QED
        BY <2>2, <2>3, <2>4, <4>2, <4>3 DEF Before
    <3>2. CASE z \in cubes
      <4>1. PICK i \in 1..Len(s.cubes) : z = s.cubes[i] - s.camZ
        BY <3>2
      <4>2. Depth(150) <= z /\ z <= limit
        BY <3>2
      <4>3. z \in Int
        <5>1. s.cubes \in Seq(Int) /\ s.camZ \in Int
          BY DEF Scenes, Depths
        <5>2. s.cubes[i] \in Int
          BY <5>1
        <5> QED
          BY <4>1, <5>1, <5>2
      <4> QED
        BY <2>2, <2>3, <2>4, <4>2, <4>3 DEF Before
    <3>3. CASE z \in end
      BY <2>2, <2>3, <3>3 DEF Before
    <3> QED
      BY <3>1, <3>2, <3>3
  <2>8. \A k \in Corridor(s, t) : Before(k, wall)
    <3> HIDE DEF runs, lines, rings, cubes, end
    <3> QED
      BY <2>1, <2>5, <2>6, <2>7
  <2>9. <<near + Depth(40), 985 * (limit \div 1000)>> \in runs
    <3>1. PICK n \in Int : n = limit \div 1000
      BY <2>4
    <3>2. n >= 7
      BY <2>4, <3>1
    <3>3. 985 * n > near + Depth(40)
      BY <2>3, <3>1, <3>2
    <3> QED
      BY <3>1, <3>3
  <2>10. Corridor(s, t) # {}
    <3> HIDE DEF runs, lines, rings, cubes, end
    <3> QED
      BY <2>1, <2>9
  <2> QED
    BY <2>8, <2>10 DEF wall
<1> QED
  BY <1>1, <1>2

LEMMA SomethingPainted ==
  ASSUME NEW s \in Scenes, NEW t \in Nat, FlightInv(s, t), t >= BEATS.seed
  PROVE  Painted(s, t) # {}
<1>1. CASE t < BEATS.warp
  <2>1. "shards" \in Ignition(t)
    BY <1>1 DEF Ignition, BEATS
  <2> QED
    BY <1>1, <2>1 DEF Painted
<1>2. CASE t >= BEATS.warp /\ t <= BEATS.arrive - 24
  <2>1. Painting(t) /\ t < BEATS.arrive + 12 /\ ~(t < BEATS.warp)
    BY <1>2 DEF Painting, BEATS
  <2>2. "corridor" \in Tunnel(s, t)
    BY <2>1, CorridorSeen DEF Tunnel
  <2> QED
    BY <2>1, <2>2 DEF Painted
<1>3. CASE t > BEATS.arrive - 24
  <2>1. "grid" \in Ambient(t)
    BY <1>3 DEF Ambient, BEATS
  <2> QED
    BY <2>1 DEF Painted
<1>4. t < BEATS.warp \/ (t >= BEATS.warp /\ t <= BEATS.arrive - 24) \/ t > BEATS.arrive - 24
  BY DEF BEATS
<1> QED
  BY <1>1, <1>2, <1>3, <1>4

(***************************************************************************)
(* The intro's engine: from its first frame to the page's next.             *)
(***************************************************************************)
RunningInv ==
  /\ clock # None => clock \in Clocks /\ scene \in Scenes /\ EngineInv(clock, scene)
  /\ scene # None => Few(scene)

LEMMA EngineGone == ASSUME NoEngine PROVE RunningInv'
BY DEF NoEngine, RunningInv

LEMMA EngineIs ==
  ASSUME clock' \in Clocks, scene' \in Scenes, EngineInv(clock', scene')
  PROVE  RunningInv'
<1>1. Few(scene')
  BY EngineFew
<1> QED
  BY <1>1 DEF RunningInv

LEMMA EngineStarts == ASSUME NewEngine PROVE RunningInv'
<1>1. PICK frame \in FrameTimes, seed \in Seeds :
        clock' = FreshClock(frame) /\ scene' = FreshScene(seed)
  BY DEF NewEngine
<1> QED
  BY <1>1, FreshEngine, EngineIs

LEMMA RunningStep == RunningInv /\ [IntroStep]_vars => RunningInv'
<1> SUFFICES ASSUME RunningInv, [IntroStep]_vars PROVE RunningInv'
  OBVIOUS
<1>1. CASE Visit
  BY <1>1, EngineGone, EngineStarts DEF Visit
<1>2. CASE Depart
  BY <1>2, EngineGone DEF Depart
<1>3. CASE Frame
  <2>1. CASE NoEngine
    BY <2>1, EngineGone
  <2>2. CASE ~NoEngine
    <3>1. clock \in Clocks /\ scene \in Scenes /\ EngineInv(clock, scene)
      BY <1>3 DEF Frame, Tick, RunningInv
    <3>2. /\ clock' = Advanced(clock)
          /\ scene' = Simulated(scene, clock'.t, clock'.t - clock.t)
      BY <1>3, <2>2 DEF Frame, Tick
    <3> QED
      BY <3>1, <3>2, FrameKept, EngineIs
  <2> QED
    BY <2>1, <2>2
<1>4. CASE Resize
  <2>1. clock \in Clocks /\ scene \in Scenes /\ EngineInv(clock, scene) /\ clock' = clock
    BY <1>4 DEF Resize, RunningInv
  <2>2. scene' = [scene EXCEPT !.motes = 58]
    BY <1>4 DEF Resize, Resized, SeedAmbient
  <2>3. scene' = scene
    BY <2>1, <2>2 DEF Scenes
  <2> QED
    BY <2>1, <2>3, EngineIs
<1>5. CASE Render
  BY <1>5, EngineStarts DEF Render
<1>6. CASE Release
  BY <1>6, EngineGone DEF Release
<1>7. CASE UNCHANGED engine
  BY <1>7 DEF RunningInv, engine
<1>8. ASSUME Skip \/ (\E p \in Pieces : Scroll(p) \/ Intersect(p)) \/ UNCHANGED vars
      PROVE  UNCHANGED engine
  BY <1>8 DEF Skip, Scroll, Intersect, vars
<1> QED
  BY <1>1, <1>2, <1>3, <1>4, <1>5, <1>6, <1>7, <1>8 DEF IntroStep

LEMMA RunningAlways == Init /\ [][IntroStep]_vars => []RunningInv
<1>1. Init => RunningInv
  BY DEF Init, RunningInv
<1> QED
  BY <1>1, RunningStep, PTL

\* The particles of every part stay few on any frame rate, with any random
\* sequence, however often the page renders and the window changes its size.
THEOREM ParticlesStayFew == MotionSpec => []FewParticles
<1>1. RunningInv => FewParticles
  BY DEF RunningInv, FewParticles, Few
<1> QED
  BY <1>1, RunningAlways, TabMoves, PTL

\* What the corridor paints lies before the end wall and that before the camera,
\* a title only comes up on a wall, and there is something to see from the first
\* square on, on any frame rate.
THEOREM WallStandsAhead == MotionSpec => []NothingThroughTheWall
<1>1. RunningInv => NothingThroughTheWall
  <2> SUFFICES ASSUME RunningInv, clock # None PROVE NothingThroughTheWall
    BY DEF NothingThroughTheWall
  <2>1. clock.t \in Nat /\ scene \in Scenes /\ FlightInv(scene, clock.t)
    BY DEF RunningInv, EngineInv, Clocks
  <2>2. \A k \in Corridor(scene, clock.t) :
          near <= k[1] /\ k[1] <= k[2] /\ k[2] <= scene.wallZ - scene.camZ
    BY <2>1, CorridorSeen DEF Before
  <2>3. clock.t < BEATS.arrive + 9 => scene.wallZ - scene.camZ > near
    <3> SUFFICES ASSUME clock.t < BEATS.arrive + 9 PROVE scene.wallZ - scene.camZ > near
      OBVIOUS
    <3>1. scene.wallZ - scene.camZ \in Int /\ scene.wallZ - scene.camZ >= 7000
      BY <2>1, WallAhead DEF Painting
    <3> QED
      BY <3>1 DEF near, Depth
  <2>4. TitleOpacity(clock.t) > 0 => scene.wallZ # Infinity
    <3>1. TitleOpacity(clock.t) > 0 => clock.t >= BEATS.approach
      BY <2>1 DEF TitleOpacity, BEATS
    <3>2. clock.t >= BEATS.approach => scene.wallZ < Infinity /\ scene.wallZ \in Int
      BY <2>1 DEF FlightInv, Scenes
    <3> QED
      BY <3>1, <3>2, InfinityIs
  <2>5. clock.t >= BEATS.seed => Painted(scene, clock.t) # {}
    BY <2>1, SomethingPainted
  <2> QED
    BY <2>2, <2>3, <2>4, <2>5 DEF NothingThroughTheWall
<1> QED
  BY <1>1, RunningAlways, TabMoves, PTL

(***************************************************************************)
(* The turret's percentage: quotients.                                      *)
(***************************************************************************)
LEMMA Quotient ==
  ASSUME NEW a \in Int, NEW c \in Int, c > 0
  PROVE  a \div c \in Int /\ c * (a \div c) <= a /\ a < c * (a \div c) + c
OBVIOUS

LEMMA ProductsGrow ==
  ASSUME NEW c \in Int, c > 0, NEW p \in Int, NEW q \in Int, p >= q + 1
  PROVE  c * p >= c * q + c
<1>1. PICK d \in Nat : p = q + 1 + d
  <2>1. p - q - 1 \in Nat /\ p = q + 1 + (p - q - 1)
    OBVIOUS
  <2> QED
    BY <2>1
<1>2. c * p = c * q + c + c * d
  BY <1>1
<1>3. c * d >= 0
  OBVIOUS
<1>4. c * q \in Int /\ c * d \in Int
  OBVIOUS
<1> QED
  BY <1>2, <1>3, <1>4

LEMMA QuotientsGrow ==
  ASSUME NEW a \in Int, NEW b \in Int, a <= b, NEW c \in Int, c > 0
  PROVE  a \div c <= b \div c
<1>1. PICK p \in Int, q \in Int : p = a \div c /\ q = b \div c
  BY Quotient
<1>2. PICK cp \in Int, cq \in Int : cp = c * p /\ cq = c * q
  OBVIOUS
<1>3. cp <= a /\ b < cq + c
  BY <1>1, <1>2, Quotient
<1>4. p >= q + 1 => cp >= cq + c
  BY <1>2, ProductsGrow
<1>5. ~(p >= q + 1)
  BY <1>3, <1>4
<1> QED
  BY <1>1, <1>5

LEMMA QuotientIs ==
  ASSUME NEW a \in Int, NEW c \in Int, c > 0, NEW p \in Int, c * p <= a, a < c * p + c
  PROVE  a \div c = p
<1>1. PICK q \in Int : q = a \div c
  BY Quotient
<1>2. PICK cp \in Int, cq \in Int : cp = c * p /\ cq = c * q
  OBVIOUS
<1>3. cq <= a /\ a < cq + c /\ cp <= a /\ a < cp + c
  BY <1>1, <1>2, Quotient
<1>4. (p >= q + 1 => cp >= cq + c) /\ (q >= p + 1 => cq >= cp + c)
  BY <1>2, ProductsGrow
<1>5. ~(p >= q + 1) /\ ~(q >= p + 1)
  BY <1>3, <1>4
<1> QED
  BY <1>1, <1>5

(***************************************************************************)
(* The turret's percentage: a segment of the curve.                         *)
(***************************************************************************)
Between(t0, p0, t1, p1, t) == p0 + (2 * ((p1 - p0) * (t - t0)) + (t1 - t0)) \div (2 * (t1 - t0))

LEMMA SegmentRises ==
  ASSUME NEW t0 \in Int, NEW t1 \in Int, NEW p0 \in Int, NEW p1 \in Int, t0 < t1, p0 <= p1,
         NEW t \in Int, NEW u \in Int, t <= u
  PROVE  /\ Between(t0, p0, t1, p1, t) \in Int
         /\ Between(t0, p0, t1, p1, t) <= Between(t0, p0, t1, p1, u)
<1>1. PICK c \in Int : c = 2 * (t1 - t0) /\ c > 0
  OBVIOUS
<1>2. PICK r \in Nat : r = p1 - p0
  OBVIOUS
<1>3. r * (t - t0) \in Int /\ r * (u - t0) \in Int /\ r * (t - t0) <= r * (u - t0)
  <2>1. PICK d \in Nat : u - t0 = (t - t0) + d
    <3>1. u - t \in Nat /\ u - t0 = (t - t0) + (u - t)
      OBVIOUS
    <3> QED
      BY <3>1
  <2>2. r * (u - t0) = r * (t - t0) + r * d
    BY <2>1
  <2>3. r * d >= 0 /\ r * d \in Int
    OBVIOUS
  <2>4. r * (t - t0) \in Int
    OBVIOUS
  <2> QED
    BY <2>2, <2>3, <2>4
<1>4. PICK a \in Int, b \in Int : a = 2 * (r * (t - t0)) + (t1 - t0) /\ b = 2 * (r * (u - t0)) + (t1 - t0)
  BY <1>3
<1>5. a <= b
  BY <1>3, <1>4
<1>6. PICK m \in Int, n \in Int : m = a \div c /\ n = b \div c
  BY <1>1, Quotient
<1>7. m <= n
  BY <1>1, <1>5, <1>6, QuotientsGrow
<1>8. Between(t0, p0, t1, p1, t) = p0 + m /\ Between(t0, p0, t1, p1, u) = p0 + n
  BY <1>1, <1>2, <1>4, <1>6 DEF Between
<1> QED
  BY <1>7, <1>8

LEMMA SegmentEnds ==
  ASSUME NEW t0 \in Int, NEW t1 \in Int, NEW p0 \in Int, NEW p1 \in Int, t0 < t1
  PROVE  Between(t0, p0, t1, p1, t0) = p0 /\ Between(t0, p0, t1, p1, t1) = p1
<1>1. PICK s \in Int : s = t1 - t0 /\ s > 0
  OBVIOUS
<1>2. PICK r \in Int : r = p1 - p0
  OBVIOUS
<1>3. Between(t0, p0, t1, p1, t0) = p0
  <2>1. (2 * (r * (t0 - t0)) + s) = s
    <3>1. r * (t0 - t0) = 0
      OBVIOUS
    <3> QED
      BY <3>1
  <2>2. s \div (2 * s) = 0
    <3>1. PICK c \in Int : c = 2 * s /\ c > 0 /\ s < c
      BY <1>1
    <3>2. c * 0 <= s /\ s < c * 0 + c
      BY <1>1, <3>1
    <3>3. s \div c = 0
      BY <3>1, <3>2, QuotientIs
    <3> QED
      BY <3>1, <3>3
  <2> QED
    BY <1>1, <1>2, <2>1, <2>2 DEF Between
<1>4. Between(t0, p0, t1, p1, t1) = p1
  <2>1. PICK c \in Int, a \in Int, rs \in Int : c = 2 * s /\ rs = r * s /\ a = 2 * rs + s
    OBVIOUS
  <2>2. c * r = 2 * rs
    BY <2>1
  <2>3. c * r <= a /\ a < c * r + c /\ c > 0
    BY <1>1, <2>1, <2>2
  <2>4. a \div c = r
    BY <2>3, QuotientIs
  <2>5. Between(t0, p0, t1, p1, t1) = p0 + r
    BY <1>1, <1>2, <2>1, <2>4 DEF Between
  <2> QED
    BY <1>2, <2>5
<1> QED
  BY <1>3, <1>4

(***************************************************************************)
(* The turret's percentage: the curve.                                      *)
(***************************************************************************)
Rising(c) ==
  /\ \A i \in 0..10 : c[i].t \in Int /\ c[i].p \in Int
  /\ c[0].t = 0 /\ c[0].p = 0 /\ c[10].t = 1000 /\ c[10].p = 100
  /\ \A i \in 1..10 : c[i - 1].t < c[i].t /\ c[i - 1].p <= c[i].p

Permille == 0..1000

Segment(c, i, t) == c[i - 1].t <= t /\ t <= c[i].t /\ \A j \in 1..(i - 1) : t > c[j].t

\* How high a segment is.
Height(c, i, t) == Between(c[i-1].t, c[i-1].p, c[i].t, c[i].p, t)

LEMMA Ends ==
  ASSUME NEW c, Rising(c), NEW i \in 1..10
  PROVE  /\ i - 1 \in 0..10 /\ i \in 0..10
         /\ c[i-1].t \in Int /\ c[i].t \in Int /\ c[i-1].p \in Int /\ c[i].p \in Int
         /\ c[i-1].t < c[i].t /\ c[i-1].p <= c[i].p
<1>1. i - 1 \in 0..10 /\ i \in 0..10
  OBVIOUS
<1> QED
  BY <1>1 DEF Rising

\* A point of the curve lies no lower than one before it.
LEMMA LaterIsHigher ==
  ASSUME NEW c, Rising(c), NEW i \in 0..10, NEW k \in 0..10, i <= k
  PROVE  c[i].p <= c[k].p /\ c[i].t <= c[k].t
<1> DEFINE S == {n \in Nat : i + n <= 10 => c[i].p <= c[i + n].p /\ c[i].t <= c[i + n].t}
<1>1. 0 \in S
  BY DEF Rising
<1>2. ASSUME NEW n \in S PROVE n + 1 \in S
  <2> SUFFICES ASSUME i + (n + 1) <= 10 PROVE c[i].p <= c[i + (n + 1)].p /\ c[i].t <= c[i + (n + 1)].t
    OBVIOUS
  <2>1. PICK m \in 1..10 : m = i + (n + 1) /\ m - 1 = i + n
    OBVIOUS
  <2>2. c[i].p <= c[m - 1].p /\ c[i].t <= c[m - 1].t
    BY <2>1
  <2>3. m \in 0..10 /\ m - 1 \in 0..10
    OBVIOUS
  <2>4. c[m - 1].p <= c[m].p /\ c[i].p \in Int /\ c[m - 1].p \in Int /\ c[m].p \in Int
    BY <2>3 DEF Rising
  <2>5. c[m - 1].t < c[m].t /\ c[i].t \in Int /\ c[m - 1].t \in Int /\ c[m].t \in Int
    BY <2>3 DEF Rising
  <2>6. c[i].p <= c[m].p /\ c[i].t <= c[m].t
    BY <2>2, <2>4, <2>5
  <2> QED
    BY <2>1, <2>6
<1>3. S = Nat
  <2>1. S \in SUBSET Nat
    OBVIOUS
  <2> HIDE DEF S
  <2> QED
    BY <1>1, <1>2, <2>1, Induction
<1>4. k - i \in S /\ i + (k - i) = k
  BY <1>3
<1> QED
  BY <1>4

LEMMA PermilleIs == Permille \subseteq Int /\ (\A t \in Permille : 0 <= t /\ t <= 1000) /\ 1000 \in Permille
BY DEF Permille

\* The segment SampleCurve chooses.
LEMMA SegmentChosen ==
  ASSUME NEW c, Rising(c), NEW t \in Permille
  PROVE  \E i \in 1..10 :
           /\ Segment(c, i, t)
           /\ Overlays!SampleCurve(c, t) = Height(c, i, t)
<1>0. t \in Int /\ 0 <= t /\ t <= 1000
  BY PermilleIs
<1> DEFINE First(k) == t <= c[k].t /\ \A j \in 1..k-1 : t > c[j].t
           i == CHOOSE k \in 1..10 : First(k)
           T == {k \in 1..10 : t <= c[k].t}
<1>1. \E k \in 1..10 : First(k)
  <2>1. 10 \in T
    BY <1>0 DEF Rising
  <2>2. PICK k \in T : \A m \in T : k <= m
    <3>1. T \in SUBSET Nat /\ T # {}
      BY <2>1
    <3> HIDE DEF T
    <3> QED
      BY <3>1, LeastOf
  <2>3. ASSUME NEW j \in 1..k-1 PROVE t > c[j].t
    <3>1. j \notin T /\ j \in 1..10
      BY <2>2
    <3>2. c[j].t \in Int
      BY <3>1 DEF Rising
    <3> QED
      BY <1>0, <3>1, <3>2
  <2> QED
    BY <2>2, <2>3
<1>2. i \in 1..10 /\ First(i)
  BY <1>1
<1>3. Overlays!SampleCurve(c, t) =
        LET span == IF c[i].t = c[i-1].t THEN 1 ELSE c[i].t - c[i-1].t
            rise == (c[i].p - c[i-1].p) * (t - c[i-1].t)
        IN c[i-1].p + (2 * rise + span) \div (2 * span)
  BY DEF Overlays!SampleCurve
<1> HIDE DEF i
<1>4. c[i-1].t < c[i].t /\ c[i-1].t \in Int /\ c[i].t \in Int /\ c[0].t = 0
  BY <1>2 DEF Rising
<1>5. c[i-1].t <= t
  <2>1. CASE i = 1
    BY <1>0, <1>4, <2>1
  <2>2. CASE i # 1
    <3>1. i - 1 \in 1..i-1
      BY <1>2, <2>2
    <3> QED
      BY <1>0, <1>2, <1>4, <3>1
  <2> QED
    BY <2>1, <2>2
<1>6. Segment(c, i, t)
  BY <1>2, <1>5 DEF Segment
<1>7. Overlays!SampleCurve(c, t) = Height(c, i, t)
  <2>1. c[i].t # c[i-1].t
    BY <1>4
  <2> QED
    BY <1>3, <2>1 DEF Between, Height
<1> QED
  BY <1>2, <1>6, <1>7

\* Where a segment is at a time of its own.
LEMMA SegmentHolds ==
  ASSUME NEW c, Rising(c), NEW i \in 1..10, NEW t \in Int, Segment(c, i, t)
  PROVE  /\ Height(c, i, t) \in Int
         /\ c[i-1].p <= Height(c, i, t)
         /\ Height(c, i, t) <= c[i].p
<1>2. PICK t0 \in Int, t1 \in Int, p0 \in Int, p1 \in Int :
        t0 = c[i-1].t /\ t1 = c[i].t /\ p0 = c[i-1].p /\ p1 = c[i].p
  BY Ends
<1>3. t0 < t1 /\ p0 <= p1 /\ t0 <= t /\ t <= t1
  BY <1>2, Ends DEF Segment
<1>4. /\ Between(t0, p0, t1, p1, t) \in Int
      /\ Between(t0, p0, t1, p1, t0) <= Between(t0, p0, t1, p1, t)
      /\ Between(t0, p0, t1, p1, t) <= Between(t0, p0, t1, p1, t1)
  BY <1>3, SegmentRises
<1>5. Between(t0, p0, t1, p1, t0) = p0 /\ Between(t0, p0, t1, p1, t1) = p1
  BY <1>3, SegmentEnds
<1> QED
  BY <1>2, <1>4, <1>5 DEF Height

LEMMA SampleIsInt ==
  ASSUME NEW c, Rising(c), NEW t \in Permille
  PROVE  Overlays!SampleCurve(c, t) \in Int
<1>1. PICK i \in 1..10 : Segment(c, i, t) /\ Overlays!SampleCurve(c, t) = Height(c, i, t)
  BY SegmentChosen
<1>2. Height(c, i, t) \in Int
  BY <1>1, PermilleIs, SegmentHolds
<1> QED
  BY <1>1, <1>2

LEMMA SampleRises ==
  ASSUME NEW c, Rising(c), NEW t \in Permille, NEW u \in Permille, t <= u
  PROVE  Overlays!SampleCurve(c, t) <= Overlays!SampleCurve(c, u)
<1>1. PICK i \in 1..10 :
        /\ Segment(c, i, t)
        /\ Overlays!SampleCurve(c, t) = Height(c, i, t)
  BY SegmentChosen
<1>2. PICK k \in 1..10 :
        /\ Segment(c, k, u)
        /\ Overlays!SampleCurve(c, u) = Height(c, k, u)
  BY SegmentChosen
<1>3. PICK x \in Int, y \in Int : x = Overlays!SampleCurve(c, t) /\ y = Overlays!SampleCurve(c, u)
  <2>1. Overlays!SampleCurve(c, t) \in Int
    BY SampleIsInt
  <2>2. Overlays!SampleCurve(c, u) \in Int
    BY SampleIsInt
  <2> QED
    BY <2>1, <2>2
<1>0. t \in Int /\ u \in Int
  BY PermilleIs
<1>4. c[i-1].p <= x /\ x <= c[i].p /\ c[k-1].p <= y
  BY <1>0, <1>1, <1>2, <1>3, SegmentHolds
<1>5. i - 1 \in 0..10 /\ k - 1 \in 0..10 /\ i \in 0..10 /\ k \in 0..10
  OBVIOUS
<1>6. c[i-1].p \in Int /\ c[i].p \in Int /\ c[k-1].p \in Int /\ c[0].p = 0
  <2>1. c[i-1].p \in Int /\ c[i].p \in Int /\ c[k-1].p \in Int
    BY Ends
  <2> QED
    BY <2>1 DEF Rising
<1>7. x <= y
  <2>1. CASE i = k
    <3>1. PICK t0 \in Int, t1 \in Int, p0 \in Int, p1 \in Int :
            /\ t0 = c[i-1].t /\ t1 = c[i].t /\ p0 = c[i-1].p /\ p1 = c[i].p
            /\ t0 < t1 /\ p0 <= p1
      BY Ends
    <3>2. Between(t0, p0, t1, p1, t) <= Between(t0, p0, t1, p1, u)
      BY <1>0, <3>1, SegmentRises
    <3>3. Height(c, i, t) = Between(t0, p0, t1, p1, t) /\ Height(c, i, u) = Between(t0, p0, t1, p1, u)
      BY <3>1 DEF Height
    <3> QED
      BY <1>1, <1>2, <1>3, <2>1, <3>2, <3>3
  <2>2. CASE i < k
    <3>0. i <= k - 1
      BY <2>2
    <3>1. c[i].p <= c[k-1].p
      BY <1>5, <3>0, LaterIsHigher
    <3> QED
      BY <1>4, <1>6, <3>1
  <2>3. CASE k < i
    <3>1. k \in 1..(i - 1)
      BY <2>3
    <3>2. t > c[k].t /\ u <= c[k].t
      BY <1>1, <1>2, <3>1 DEF Segment
    <3>3. c[k].t \in Int
      BY Ends
    <3> QED
      BY <1>0, <3>2, <3>3
  <2> QED
    BY <2>1, <2>2, <2>3
<1> QED
  BY <1>3, <1>7

LEMMA SampleEnds == ASSUME NEW c, Rising(c) PROVE Overlays!SampleCurve(c, 1000) = 100
<1>0. PICK t \in Permille : t = 1000
  BY PermilleIs
<1>1. PICK i \in 1..10 :
        /\ Segment(c, i, t)
        /\ Overlays!SampleCurve(c, t) = Height(c, i, t)
  BY SegmentChosen
<1>2. i = 10
  <2> SUFFICES ASSUME i # 10 PROVE FALSE
    OBVIOUS
  <2>1. i + 1 \in 1..10 /\ (i + 1) - 1 = i
    OBVIOUS
  <2>2. c[i].t < c[i + 1].t
    BY <2>1 DEF Rising
  <2>3. c[i].t \in Int /\ c[i + 1].t \in Int /\ c[i].t >= 1000
    BY <1>0, <1>1, <2>1 DEF Rising, Segment
  <2>4. c[i + 1].t <= c[10].t /\ c[10].t = 1000
    <3>1. i + 1 \in 0..10 /\ i + 1 <= 10 /\ 10 \in 0..10
      OBVIOUS
    <3>2. c[i + 1].t <= c[10].t
      BY <3>1, LaterIsHigher
    <3> QED
      BY <3>2 DEF Rising
  <2> QED
    BY <2>2, <2>3, <2>4
<1>3. PICK t0 \in Int, p0 \in Int : t0 = c[9].t /\ p0 = c[9].p /\ t0 < 1000
  <2>1. 10 \in 1..10 /\ 10 - 1 = 9 /\ 9 \in 0..10
    OBVIOUS
  <2> QED
    BY <2>1 DEF Rising
<1>4. Overlays!SampleCurve(c, t) = Between(t0, p0, t, 100, t)
  BY <1>0, <1>1, <1>2, <1>3 DEF Rising, Height
<1>5. PICK p1 \in Int : p1 = 100
  OBVIOUS
<1>6. Between(t0, p0, t, p1, t) = p1
  BY <1>0, <1>3, SegmentEnds
<1> QED
  BY <1>0, <1>4, <1>5, <1>6

(***************************************************************************)
(* The turret's percentage: the curve of a load.                            *)
(***************************************************************************)
PercentAt(d, p, i) ==
  IF i = 0 THEN 0 ELSE IF i = 10 THEN 100
  ELSE Overlays!Above(p[i - 1], Overlays!BASE_CURVE.p[i] + 3 * d[i])

\* The recursive function of Percents exists.
LEMMA PercentsDef ==
  ASSUME NEW d
  PROVE  Overlays!Percents(d) = [i \in 0..10 |-> PercentAt(d, Overlays!Percents(d), i)]
<1> DEFINE Table(p, n) == [i \in 0..n |-> PercentAt(d, p, i)]
           S == {n \in Nat : \E p : p = Table(p, n)}
<1>1. 0 \in S
  <2> DEFINE first == [i \in 0..0 |-> 0]
  <2>1. first = Table(first, 0)
    BY DEF PercentAt
  <2> HIDE DEF first, Table
  <2> QED
    BY <2>1
<1>2. ASSUME NEW n \in S PROVE n + 1 \in S
  <2>1. PICK p : p = Table(p, n)
    OBVIOUS
  <2> DEFINE next == [i \in 0..(n + 1) |-> IF i <= n THEN p[i] ELSE PercentAt(d, p, n + 1)]
  <2>2. ASSUME NEW i \in 0..(n + 1) PROVE next[i] = PercentAt(d, next, i)
    <3>1. i # 0 => p[i - 1] = next[i - 1]
      OBVIOUS
    <3>2. PercentAt(d, next, i) = PercentAt(d, p, i)
      BY <3>1 DEF PercentAt
    <3>3. CASE i <= n
      <4>1. next[i] = p[i] /\ p[i] = PercentAt(d, p, i)
        BY <2>1, <3>3
      <4> QED
        BY <3>2, <4>1
    <3>4. CASE i = n + 1
      BY <3>2, <3>4
    <3> QED
      BY <3>3, <3>4
  <2>3. next = Table(next, n + 1)
    BY <2>2
  <2>4. n + 1 \in Nat
    OBVIOUS
  <2> HIDE DEF Table, next
  <2> QED
    BY <2>3, <2>4
<1>3. \E p : p = Table(p, 10)
  <2>1. S = Nat
    <3>1. S \in SUBSET Nat
      OBVIOUS
    <3> HIDE DEF S
    <3> QED
      BY <1>1, <1>2, <3>1, Induction
  <2> HIDE DEF Table
  <2> QED
    BY <2>1
<1> DEFINE chosen == CHOOSE p : p = Table(p, 10)
<1>4. chosen = Table(chosen, 10)
  <2> HIDE DEF Table
  <2> QED
    BY <1>3
<1>5. Overlays!Percents(d) = chosen
  BY DEF Overlays!Percents, PercentAt
<1> HIDE DEF chosen
<1> QED
  BY <1>4, <1>5

LEMMA AboveIs ==
  ASSUME NEW x \in 0..97, NEW y \in Int
  PROVE  Overlays!Above(x, y) \in 0..97 /\ x <= Overlays!Above(x, y)
BY DEF Overlays!Above, Overlays!Least, Overlays!Most

\* Whatever the jitter, a percentage is none below the one before it.
LEMMA PercentsRise ==
  ASSUME NEW d \in [1..9 -> {-1, 0, 1}]
  PROVE  /\ \A i \in 0..10 : Overlays!Percents(d)[i] \in Int
         /\ Overlays!Percents(d)[0] = 0 /\ Overlays!Percents(d)[10] = 100
         /\ \A i \in 1..10 : Overlays!Percents(d)[i - 1] <= Overlays!Percents(d)[i]
<1> DEFINE p == Overlays!Percents(d)
<1>1. p = [i \in 0..10 |-> PercentAt(d, p, i)]
  BY PercentsDef
<1> HIDE DEF p
<1>2. p[0] = 0 /\ p[10] = 100
  <2>1. p[0] = PercentAt(d, p, 0) /\ p[10] = PercentAt(d, p, 10)
    BY <1>1
  <2> QED
    BY <2>1 DEF PercentAt
<1>3. ASSUME NEW i \in 1..9, p[i - 1] \in 0..97 PROVE p[i] \in 0..97 /\ p[i - 1] <= p[i]
  <2>1. Overlays!BASE_CURVE.p[i] \in Int
    <3>1. i = 1 \/ i = 2 \/ i = 3 \/ i = 4 \/ i = 5 \/ i = 6 \/ i = 7 \/ i = 8 \/ i = 9
      OBVIOUS
    <3> QED
      BY <3>1 DEF Overlays!BASE_CURVE
  <2>2. d[i] \in Int
    OBVIOUS
  <2>3. PICK y \in Int : y = Overlays!BASE_CURVE.p[i] + 3 * d[i]
    BY <2>1, <2>2
  <2>4. p[i] = PercentAt(d, p, i)
    BY <1>1
  <2>5. p[i] = Overlays!Above(p[i - 1], y)
    BY <2>3, <2>4 DEF PercentAt
  <2> QED
    BY <1>3, <2>5, AboveIs
<1> DEFINE S == {n \in Nat : n <= 9 => p[n] \in 0..97 /\ (n > 0 => p[n - 1] <= p[n])}
<1>4. 0 \in S
  BY <1>2
<1>5. ASSUME NEW n \in S PROVE n + 1 \in S
  <2> SUFFICES ASSUME n + 1 <= 9 PROVE p[n + 1] \in 0..97 /\ p[(n + 1) - 1] <= p[n + 1]
    OBVIOUS
  <2>1. p[n] \in 0..97
    OBVIOUS
  <2>2. n + 1 \in 1..9 /\ (n + 1) - 1 = n
    OBVIOUS
  <2> HIDE DEF S
  <2> QED
    BY <1>3, <2>1, <2>2
<1>6. S = Nat
  <2>1. S \in SUBSET Nat
    OBVIOUS
  <2> HIDE DEF S
  <2> QED
    BY <1>4, <1>5, <2>1, Induction
<1>7. ASSUME NEW i \in 0..9 PROVE p[i] \in 0..97 /\ (i > 0 => p[i - 1] <= p[i])
  <2>1. i \in S
    <3> HIDE DEF S
    <3> QED
      BY <1>6
  <2> QED
    BY <2>1
<1>8. \A i \in 0..10 : p[i] \in Int
  <2> SUFFICES ASSUME NEW i \in 0..10 PROVE p[i] \in Int
    OBVIOUS
  <2>1. i \in 0..9 \/ i = 10
    OBVIOUS
  <2> HIDE DEF S
  <2> QED
    BY <1>2, <1>7, <2>1
<1>9. \A i \in 1..10 : p[i - 1] <= p[i]
  <2> SUFFICES ASSUME NEW i \in 1..10 PROVE p[i - 1] <= p[i]
    OBVIOUS
  <2> HIDE DEF S
  <2>1. CASE i \in 1..9
    BY <1>7, <2>1
  <2>2. CASE i = 10
    <3>1. p[9] \in 0..97
      BY <1>7
    <3> QED
      BY <1>2, <2>2, <3>1
  <2> QED
    BY <2>1, <2>2
<1> QED
  BY <1>2, <1>8, <1>9 DEF p

\* An instant moves by at most 25, and its neighbours are farther apart than 50.
LEMMA InstantsRise ==
  ASSUME NEW d \in [1..9 -> {-1, 0, 1}]
  PROVE  /\ \A i \in 0..10 : Overlays!Instant(d, i) \in Int
         /\ Overlays!Instant(d, 0) = 0 /\ Overlays!Instant(d, 10) = 1000
         /\ \A i \in 1..10 : Overlays!Instant(d, i - 1) < Overlays!Instant(d, i)
<1> DEFINE b == Overlays!BASE_CURVE.t
<1>1. /\ b[1] = 50 /\ b[2] = 130 /\ b[3] = 240 /\ b[4] = 330 /\ b[5] = 440
      /\ b[6] = 580 /\ b[7] = 740 /\ b[8] = 830 /\ b[9] = 920
  BY DEF Overlays!BASE_CURVE
<1> DEFINE t(i) == Overlays!Instant(d, i)
<1>2. t(0) = 0 /\ t(10) = 1000
  BY DEF Overlays!Instant
<1>3. ASSUME NEW i \in 1..9
      PROVE  t(i) \in Int /\ b[i] - 25 <= t(i) /\ t(i) <= b[i] + 25
  <2>0. PICK x \in 50..920 : b[i] = x
    <3>1. i = 1 \/ i = 2 \/ i = 3 \/ i = 4 \/ i = 5 \/ i = 6 \/ i = 7 \/ i = 8 \/ i = 9
      OBVIOUS
    <3>2. b[i] \in 50..920
      <4> HIDE DEF b
      <4> QED
        BY <1>1, <3>1
    <3> QED
      <4> HIDE DEF b
      <4> QED
        BY <3>2
  <2>1. t(i) = Overlays!Least(970, Overlays!Most(20, b[i] + 25 * d[i]))
    BY DEF Overlays!Instant
  <2>2. d[i] \in {-1, 0, 1}
    OBVIOUS
  <2> HIDE DEF b, t
  <2>3. d[i] = -1 \/ d[i] = 0 \/ d[i] = 1
    BY <2>2
  <2>4. PICK m \in {-25, 0, 25} : b[i] + 25 * d[i] = x + m
    BY <2>0, <2>3
  <2> QED
    BY <2>0, <2>1, <2>4 DEF Overlays!Least, Overlays!Most
<1> HIDE DEF b, t
<1>4. /\ t(1) \in 25..75 /\ t(2) \in 105..155 /\ t(3) \in 215..265 /\ t(4) \in 305..355
      /\ t(5) \in 415..465 /\ t(6) \in 555..605 /\ t(7) \in 715..765 /\ t(8) \in 805..855
      /\ t(9) \in 895..945
  <2>1. \A i \in 1..9 : t(i) \in Int /\ b[i] - 25 <= t(i) /\ t(i) <= b[i] + 25
    BY <1>3
  <2>2. t(1) \in 25..75
    BY <1>1, <2>1
  <2>3. t(2) \in 105..155
    BY <1>1, <2>1
  <2>4. t(3) \in 215..265
    BY <1>1, <2>1
  <2>5. t(4) \in 305..355
    BY <1>1, <2>1
  <2>6. t(5) \in 415..465
    BY <1>1, <2>1
  <2>7. t(6) \in 555..605
    BY <1>1, <2>1
  <2>8. t(7) \in 715..765
    BY <1>1, <2>1
  <2>9. t(8) \in 805..855
    BY <1>1, <2>1
  <2>10. t(9) \in 895..945
    BY <1>1, <2>1
  <2> QED
    BY <2>2, <2>3, <2>4, <2>5, <2>6, <2>7, <2>8, <2>9, <2>10
<1>5. \A i \in 0..10 : t(i) \in Int
  <2> SUFFICES ASSUME NEW i \in 0..10 PROVE t(i) \in Int
    OBVIOUS
  <2>1. i = 0 \/ i = 1 \/ i = 2 \/ i = 3 \/ i = 4 \/ i = 5 \/ i = 6 \/ i = 7 \/ i = 8 \/ i = 9 \/ i = 10
    OBVIOUS
  <2> QED
    BY <1>2, <1>4, <2>1
<1>6. \A i \in 1..10 : t(i - 1) < t(i)
  <2> SUFFICES ASSUME NEW i \in 1..10 PROVE t(i - 1) < t(i)
    OBVIOUS
  <2>1. i = 1 \/ i = 2 \/ i = 3 \/ i = 4 \/ i = 5 \/ i = 6 \/ i = 7 \/ i = 8 \/ i = 9 \/ i = 10
    OBVIOUS
  <2> QED
    BY <1>2, <1>4, <2>1
<1> QED
  BY <1>2, <1>5, <1>6 DEF t

LEMMA CurveRises ==
  ASSUME NEW d \in [1..9 -> {-1, 0, 1}]
  PROVE  Rising(Overlays!JitteredCurve(d))
<1> DEFINE c == Overlays!JitteredCurve(d)
<1>1. ASSUME NEW i \in 0..10
      PROVE  c[i].t = Overlays!Instant(d, i) /\ c[i].p = Overlays!Percents(d)[i]
  BY DEF Overlays!JitteredCurve
<1> HIDE DEF c
<1>2. \A i \in 0..10 : c[i].t \in Int /\ c[i].p \in Int
  BY <1>1, PercentsRise, InstantsRise
<1>3. c[0].t = 0 /\ c[0].p = 0 /\ c[10].t = 1000 /\ c[10].p = 100
  <2>1. 0 \in 0..10 /\ 10 \in 0..10
    OBVIOUS
  <2> QED
    BY <1>1, <2>1, PercentsRise, InstantsRise
<1>4. ASSUME NEW i \in 1..10 PROVE c[i - 1].t < c[i].t /\ c[i - 1].p <= c[i].p
  <2>1. i - 1 \in 0..10 /\ i \in 0..10
    OBVIOUS
  <2>2. c[i - 1].t = Overlays!Instant(d, i - 1) /\ c[i - 1].p = Overlays!Percents(d)[i - 1]
    BY <1>1, <2>1
  <2>3. c[i].t = Overlays!Instant(d, i) /\ c[i].p = Overlays!Percents(d)[i]
    BY <1>1, <2>1
  <2> QED
    BY <2>2, <2>3, PercentsRise, InstantsRise
<1> QED
  BY <1>2, <1>3, <1>4 DEF Rising, c

(***************************************************************************)
(* The turret's percentage: a load.                                         *)
(***************************************************************************)
Progress(e, n) == Overlays!Least(1000, (1000 * e) \div n)

Aiming == variant = "gun" /\ ~swapped

CountInv ==
  /\ pct \in Int
  /\ Aiming =>
       /\ Rising(curve) /\ duration \in Nat \ {0} /\ elapsed \in Nat
       /\ pct <= Overlays!Most(1, Overlays!SampleCurve(curve, Progress(elapsed, duration)))

LEMMA ProgressIs ==
  ASSUME NEW e \in Nat, NEW n \in Nat \ {0}
  PROVE  Progress(e, n) \in Permille
<1>1. PICK zero \in Int, x \in Int : zero = 0 /\ x = 1000 * e /\ zero <= x
  OBVIOUS
<1>2. n \in Int /\ n > 0
  OBVIOUS
<1>3. PICK a \in Int : a = x \div n
  BY <1>2, Quotient
<1>4. zero \div n = zero
  <2>1. n * zero <= zero /\ zero < n * zero + n
    BY <1>1, <1>2
  <2> QED
    BY <1>2, <2>1, QuotientIs
<1>5. 0 <= a
  BY <1>1, <1>2, <1>3, <1>4, QuotientsGrow
<1>6. Progress(e, n) = IF a > 1000 THEN 1000 ELSE a
  BY <1>1, <1>3 DEF Progress, Overlays!Least
<1> QED
  BY <1>5, <1>6 DEF Permille

LEMMA ProgressGrows ==
  ASSUME NEW e \in Nat, NEW n \in Nat \ {0}
  PROVE  Progress(e, n) <= Progress(e + 1, n)
<1>1. PICK x \in Int, y \in Int : x = 1000 * e /\ y = 1000 * (e + 1) /\ x <= y
  OBVIOUS
<1>2. n \in Int /\ n > 0
  OBVIOUS
<1>3. PICK a \in Int, b \in Int : a = x \div n /\ b = y \div n
  BY <1>2, Quotient
<1>4. a <= b
  BY <1>1, <1>2, <1>3, QuotientsGrow
<1>5. Progress(e, n) = (IF a > 1000 THEN 1000 ELSE a) /\ Progress(e + 1, n) = (IF b > 1000 THEN 1000 ELSE b)
  BY <1>1, <1>3 DEF Progress, Overlays!Least
<1> QED
  BY <1>4, <1>5

LEMMA AimCounts ==
  ASSUME CountInv, Overlays!Aim
  PROVE  /\ CountInv' /\ pct' >= pct
         /\ swapped' => pct' = 100
<1> DEFINE now == Progress(elapsed, duration)
           next == Progress(elapsed + 1, duration)
<1>1. /\ Aiming /\ elapsed' = elapsed + 1 /\ UNCHANGED <<variant, curve, duration>>
      /\ pct' = Overlays!Most(1, Overlays!SampleCurve(curve, next))
      /\ IF next < 1000 THEN UNCHANGED swapped ELSE swapped' = TRUE
  BY DEF Overlays!Aim, Aiming, Progress
<1>2. /\ pct \in Int /\ Rising(curve) /\ duration \in Nat \ {0} /\ elapsed \in Nat
      /\ pct <= Overlays!Most(1, Overlays!SampleCurve(curve, now))
  BY <1>1 DEF CountInv
<1>3. now \in Permille /\ next \in Permille /\ now <= next
  <2>1. now \in Permille
    BY <1>2, ProgressIs
  <2>2. next \in Permille
    BY <1>2, ProgressIs
  <2>3. now <= next
    BY <1>2, ProgressGrows
  <2> QED
    BY <2>1, <2>2, <2>3
<1>4. Progress(elapsed', duration') = next
  BY <1>1
<1> HIDE DEF now, next
<1>5. PICK x \in Int, y \in Int : /\ x = Overlays!SampleCurve(curve, now) /\ y = Overlays!SampleCurve(curve, next)
                                  /\ x <= y
  <2>1. Rising(curve)
    BY <1>2
  <2>2. Overlays!SampleCurve(curve, now) \in Int /\ Overlays!SampleCurve(curve, next) \in Int
    BY <1>3, <2>1, SampleIsInt
  <2>3. Overlays!SampleCurve(curve, now) <= Overlays!SampleCurve(curve, next)
    BY <1>3, <2>1, SampleRises
  <2> QED
    BY <2>2, <2>3
<1>6. pct' \in Int /\ pct <= pct'
  BY <1>1, <1>2, <1>5 DEF Overlays!Most
<1>7. CountInv'
  <2>1. elapsed' \in Nat
    BY <1>1, <1>2
  <2>2. curve' = curve /\ duration' = duration
    BY <1>1
  <2>4. pct' <= Overlays!Most(1, Overlays!SampleCurve(curve', Progress(elapsed', duration')))
    BY <1>1, <1>4, <1>6, <2>2
  <2> QED
    BY <1>2, <1>6, <2>1, <2>2, <2>4 DEF CountInv
<1>8. swapped' => pct' = 100
  <2> SUFFICES ASSUME swapped' PROVE pct' = 100
    OBVIOUS
  <2>1. ~(next < 1000)
    BY <1>1, ZenonT(60) DEF Aiming
  <2>3. next = 1000
    BY <1>3, <2>1, PermilleIs
  <2>2. y = 100
    BY <1>2, <1>5, <2>3, SampleEnds
  <2> QED
    BY <1>1, <1>5, <2>2 DEF Overlays!Most
<1> QED
  BY <1>6, <1>7, <1>8

\* No step of a load takes the percentage back.
CountStep ==
  destination # None /\ destination' = destination =>
    /\ pct' >= pct
    /\ variant = "gun" /\ swapped' /\ ~swapped => pct' = 100

LEMMA CountKept == CountInv /\ [OverlayStep]_<<page, load>> => CountInv' /\ CountStep
<1> SUFFICES ASSUME CountInv, [OverlayStep]_<<page, load>> PROVE CountInv' /\ CountStep
  OBVIOUS
<1>0. pct \in Int
  BY DEF CountInv
<1>1. CASE Overlays!Go
  <2>1. destination = None /\ pct' = 0 /\ elapsed' = 0 /\ swapped' = FALSE
    BY <1>1 DEF Overlays!Go
  <2>2. ASSUME Aiming' PROVE duration' \in Nat \ {0} /\ Rising(curve')
    <3>1. duration' \in Durations /\ \E d \in Jitters : curve' = Overlays!JitteredCurve(d)
      BY <1>1, <2>2 DEF Overlays!Go, Aiming
    <3>2. PICK d \in [1..9 -> {-1, 0, 1}] : curve' = Overlays!JitteredCurve(d)
      BY <3>1, OverlayAssumption
    <3>3. Rising(curve')
      BY <3>2, CurveRises
    <3>4. duration' \in Nat \ {0}
      BY <3>1, OverlayAssumption
    <3> QED
      BY <3>3, <3>4
  <2>3. ASSUME Aiming'
        PROVE  pct' <= Overlays!Most(1, Overlays!SampleCurve(curve', Progress(elapsed', duration')))
    <3>1. PICK e \in Nat, n \in Nat \ {0} : e = elapsed' /\ n = duration'
      BY <2>1, <2>2, <2>3
    <3>2. Progress(e, n) \in Permille
      BY ProgressIs
    <3>4. Rising(curve')
      BY <2>2, <2>3
    <3>3. Overlays!SampleCurve(curve', Progress(e, n)) \in Int
      BY <3>2, <3>4, SampleIsInt
    <3> QED
      BY <2>1, <3>1, <3>3 DEF Overlays!Most
  <2>4. CountInv'
    BY <2>1, <2>2, <2>3 DEF CountInv
  <2> QED
    BY <2>1, <2>4 DEF CountStep
<1>2. CASE Overlays!Wait
  <2>1. elapsed' = elapsed + 1 /\ UNCHANGED <<destination, variant, swapped, pct, curve, duration>>
    BY <1>2 DEF Overlays!Wait
  <2>2. ASSUME Aiming
        PROVE  /\ elapsed' \in Nat
               /\ pct' <= Overlays!Most(1, Overlays!SampleCurve(curve', Progress(elapsed', duration')))
    <3>1. /\ Rising(curve) /\ duration \in Nat \ {0} /\ elapsed \in Nat
          /\ pct <= Overlays!Most(1, Overlays!SampleCurve(curve, Progress(elapsed, duration)))
      BY <2>2 DEF CountInv
    <3>2. PICK a \in Permille, b \in Permille :
            a = Progress(elapsed, duration) /\ b = Progress(elapsed + 1, duration) /\ a <= b
      <4>1. Progress(elapsed, duration) \in Permille
        BY <3>1, ProgressIs
      <4>2. Progress(elapsed + 1, duration) \in Permille
        BY <3>1, ProgressIs
      <4>3. Progress(elapsed, duration) <= Progress(elapsed + 1, duration)
        BY <3>1, ProgressGrows
      <4> QED
        BY <4>1, <4>2, <4>3
    <3>3. PICK x \in Int, y \in Int :
            x = Overlays!SampleCurve(curve, a) /\ y = Overlays!SampleCurve(curve, b) /\ x <= y
      <4>1. Overlays!SampleCurve(curve, a) <= Overlays!SampleCurve(curve, b)
        BY <3>1, <3>2, SampleRises
      <4>2. Overlays!SampleCurve(curve, a) \in Int /\ Overlays!SampleCurve(curve, b) \in Int
        BY <3>1, SampleIsInt
      <4> QED
        BY <4>1, <4>2
    <3>4. pct <= Overlays!Most(1, y)
      BY <1>0, <3>1, <3>2, <3>3 DEF Overlays!Most
    <3>5. elapsed' \in Nat
      BY <2>1, <3>1
    <3> QED
      BY <2>1, <3>2, <3>3, <3>4, <3>5
  <2>3. CountInv'
    BY <2>1, <2>2 DEF CountInv, Aiming
  <2> QED
    BY <1>0, <2>1, <2>3 DEF CountStep
<1>3. CASE Overlays!Aim
  <2>1. ~swapped
    BY <1>3 DEF Overlays!Aim
  <2> QED
    BY <1>3, <2>1, AimCounts DEF CountStep
<1>4. ASSUME UNCHANGED pct, Aiming' => Aiming /\ UNCHANGED <<curve, duration, elapsed>>,
             UNCHANGED swapped \/ variant # "gun"
      PROVE  CountInv' /\ CountStep
  <2>1. CountStep
    BY <1>0, <1>4 DEF CountStep
  <2>2. CountInv'
    BY <1>4 DEF CountInv
  <2> QED
    BY <2>1, <2>2
<1>5. CASE Overlays!Wave \/ Overlays!SwapTimer
  <2>1. UNCHANGED pct /\ variant = "warp" /\ variant' = variant
    BY <1>5 DEF Overlays!Wave, Overlays!SwapTimer
  <2> QED
    BY <1>4, <2>1 DEF Aiming
<1>6. CASE Overlays!EndTimer
  <2>1. destination # None /\ destination' = None /\ variant' = None /\ pct' = 0
    BY <1>6 DEF Overlays!EndTimer
  <2>2. CountInv'
    BY <2>1, OverlayAssumption DEF CountInv, Aiming
  <2> QED
    BY <2>1, <2>2 DEF CountStep
<1>7. CASE Overlays!Elsewhere \/ UNCHANGED <<page, load>>
  <2>1. UNCHANGED load
    BY <1>7 DEF Overlays!Elsewhere, load
  <2> QED
    BY <1>4, <2>1 DEF load, Aiming
<1> QED
  BY <1>1, <1>2, <1>3, <1>5, <1>6, <1>7 DEF OverlayStep, Overlays!Next

\* The turret's percentage never goes back and is 100 in the frame that swaps the
\* page, for any lengths, any jitters of the curve and any frames left out.
THEOREM PercentCountsUp == MotionSpec => CountsUp
<1>1. Overlays!Init => CountInv
  BY OverlayAssumption DEF Overlays!Init, CountInv, Aiming
<1>2. CountInv /\ [OverlayStep]_<<page, load>> => CountInv' /\ CountStep
  BY CountKept
<1>3. CountInv /\ [OverlayStep]_<<page, load>> =>
        [destination # None /\ destination' = destination =>
           /\ pct' >= pct
           /\ variant = "gun" /\ swapped' /\ ~swapped => pct' = 100]_<<page, load>>
  BY <1>2 DEF CountStep
<1> QED
  BY <1>1, <1>2, <1>3, TabMoves, PTL DEF CountsUp, Overlays!CountsUp, Overlays!vars, Overlays!load, load
=============================================================================
