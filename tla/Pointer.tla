------------------------------- MODULE Pointer -------------------------------
(***************************************************************************)
(* What follows the pointer: one animation loop for the parallax of the      *)
(* whole site (depthEngine), and the buttons and cards that lean towards the *)
(* cursor (useMagnetic, useTilt), each with a frame of its own.  Positions    *)
(* are steps on a short line; a lean is there or not.                        *)
(***************************************************************************)
EXTENDS Integers

CONSTANTS
  Controls, Tilts,  \* leaning elements; the cards among them lift when entered
  Reach             \* bound: positions of the pointer and of the scroll bar

ASSUME PointerAssumption == Tilts \subseteq Controls /\ Reach \in Nat

VARIABLES
  started, running,
  frames,           \* callbacks of the loop the browser is going to run
  shown, target,    \* per channel: what the page shows and what it goes to
  attached,         \* controls that listen to the pointer
  over,             \* controls the pointer is over
  raf,              \* controls that wait for a frame
  lean, lifted      \* controls that lean, cards that are lifted

depth == <<started, running, frames, shown, target>>
controls == <<attached, over, raf, lean, lifted>>
pointer == <<depth, controls>>

Channels == {"pointer", "scroll"}
Positions == 0..Reach

AtRest ==
  /\ started = FALSE /\ running = FALSE /\ frames = 0
  /\ shown = [c \in Channels |-> 0] /\ target = [c \in Channels |-> 0]
  /\ attached = {} /\ over = {} /\ raf = {} /\ lean = {} /\ lifted = {}

-----------------------------------------------------------------------------
(* The loop *)

Wake == IF running THEN UNCHANGED <<running, frames>>
        ELSE running' = TRUE /\ frames' = frames + 1

\* startDepthEngine: a second start does nothing.
StartDepth ==
  /\ ~started /\ started' = TRUE
  /\ \E s \in Positions : target' = [target EXCEPT !["scroll"] = s]
  /\ Wake
  /\ UNCHANGED <<shown, controls>>

\* Its teardown, as StrictMode runs it between two starts.
StopDepth ==
  /\ started /\ started' = FALSE /\ running' = FALSE
  /\ frames' = IF frames = 0 THEN 0 ELSE frames - 1
  /\ UNCHANGED <<shown, target, controls>>

\* The pointer moves, leaves the window (back to the middle), or the page scrolls.
Point == \E c \in Channels, s \in Positions :
  /\ started /\ frames < 2
  /\ target' = [target EXCEPT ![c] = s]
  /\ Wake
  /\ UNCHANGED <<started, shown, controls>>

Near(from, to) == IF from - to \in -1..1 THEN to ELSE IF from < to THEN from + 1 ELSE from - 1

Settled(at) == \A c \in Channels : at[c] = target[c]

Ease == LET eased == [c \in Channels |-> Near(shown[c], target[c])] IN
  /\ frames > 0
  /\ shown' = eased
  /\ IF Settled(eased) THEN running' = FALSE /\ frames' = frames - 1
     ELSE UNCHANGED <<running, frames>>
  /\ UNCHANGED <<started, target, controls>>

-----------------------------------------------------------------------------
(* The controls *)

\* The callback ref is called with the element, on devices that can hover.
Attach(c) ==
  /\ c \notin attached /\ attached' = attached \cup {c}
  /\ UNCHANGED <<depth, over, raf, lean, lifted>>

\* The element goes, with the pointer still on it or not.
Detach(c) ==
  /\ c \in attached /\ attached' = attached \ {c}
  /\ over' = over \ {c} /\ raf' = raf \ {c} /\ lean' = lean \ {c} /\ lifted' = lifted \ {c}
  /\ UNCHANGED depth

Enter(c) ==
  /\ c \in attached \ over
  /\ over' = over \cup {c} /\ raf' = raf \cup {c}
  /\ lifted' = lifted \cup ({c} \cap Tilts)
  /\ UNCHANGED <<depth, attached, lean>>

Move(c) ==
  /\ c \in attached \cap over
  /\ raf' = raf \cup {c}
  /\ UNCHANGED <<depth, attached, over, lean, lifted>>

\* A frame places the control; one without a size it leaves as it is.
Apply(c) ==
  /\ c \in raf /\ raf' = raf \ {c}
  /\ lean' \in {lean, lean \cup {c}}
  /\ UNCHANGED <<depth, attached, over, lifted>>

\* Mutant: the frame that was asked for still comes.
Flatten_Late(c) ==
  /\ lean' = lean \ {c} /\ lifted' = lifted \ {c} /\ raf' = raf
Flatten(c) ==
  /\ lean' = lean \ {c} /\ lifted' = lifted \ {c} /\ raf' = raf \ {c}

Leave(c) ==
  /\ c \in attached \cap over /\ over' = over \ {c}
  /\ Flatten(c)
  /\ UNCHANGED <<depth, attached>>

\* A magnetic button also returns when it loses the focus.
Blur(c) ==
  /\ c \in attached \ Tilts
  /\ Flatten(c)
  /\ UNCHANGED <<depth, attached, over>>

-----------------------------------------------------------------------------
(* Properties *)

\* "one rAF loop for the whole site" (depthEngine.js:1): one frame is pending
\* while the loop runs and none while it rests, over any starts, stops and
\* inputs; and it rests only when the page shows where pointer and scroll bar
\* are.  A control the pointer is not over is flat, and no frame that was asked
\* for while the pointer was there is going to tip it again.
RestsAsItShould ==
  /\ frames = (IF running THEN 1 ELSE 0) /\ (running => started)
  /\ started /\ ~running => shown = target
  /\ (lean \cup lifted \cup raf) \subseteq over /\ over \subseteq attached
=============================================================================
