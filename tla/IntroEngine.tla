----------------------------- MODULE IntroEngine -----------------------------
(***************************************************************************)
(* The canvas engine of the landing intro: a clock, the particles each beat  *)
(* of the timeline adds and removes, the camera in the corridor, and what a  *)
(* frame paints.  Time is in sixtieths of a second, in which every beat is a *)
(* whole number; depths are in sixtieths of a world unit, so that a speed    *)
(* times a frame is one.  Colours and places on the screen are left out.     *)
(***************************************************************************)
EXTENDS Integers, Sequences

CONSTANTS
  FrameTimes,   \* bound: lengths of a frame, equal for all frames of one engine
  Seeds,        \* bound: the random sequences an engine may draw
  ShardLife     \* bound: how long a shard is on screen before it flies off it

ASSUME EngineAssumption ==
  FrameTimes \subseteq Nat \ {0} /\ Seeds \subseteq 0..99 /\ ShardLife \in 1..156

\* What of a list stays, in its order: the filter the simulation ends a list's
\* frame with.
Kept(list, stay) ==
  LET keep[i \in 0..Len(list)] ==
        IF i = 0 THEN <<>>
        ELSE IF list[i] \in stay THEN Append(keep[i - 1], list[i]) ELSE keep[i - 1]
  IN keep[Len(list)]

BEATS == [seed |-> 21, solid |-> 57, burst |-> 63, warp |-> 174, clear |-> 354,
          approach |-> 360, title |-> 396, arrive |-> 447, settle |-> 498, done |-> 576]

Depth(units) == 60 * units

Infinity == 10^9

\* dims: the planes of the projection.
near == Depth(60)
far == Depth(6800)

Clamp(v, a, b) == IF v < a THEN a ELSE IF v > b THEN b ELSE v

\* Progress of t across [a, b] in percent.
Span(t, a, b) == Clamp((100 * (t - a)) \div (b - a), 0, 100)

\* A draw of the random sequence, in percent.
Draw(s, n) == (s.seed + 37 * n) % 100

\* The engine's time, and the rest of its state.
FreshClock(frame) == [t |-> 0, frame |-> frame, completed |-> FALSE]

\* Both resize() and start() seed the motes.
FreshScene(seed) ==
  [seed |-> seed, camZ |-> 0, wallZ |-> Infinity,
   shards |-> <<>>, shardDebt |-> 0, cubes |-> <<>>, cubeDebt |-> 0, seeded |-> FALSE,
   streaks |-> <<>>, rays |-> <<>>, motes |-> 58]

SeedAmbient(s) == [s EXCEPT !.motes = 58]

\* A window resize seeds the motes again, at any time.
Resized(s) == SeedAmbient(s)

-----------------------------------------------------------------------------
(* Simulation; shards are kept by their birth, rays by the end of their life. *)

StepShards(s, t, dt) ==
  LET debt == s.shardDebt + 110 * dt
      born == [i \in 1..(debt \div 60) |-> t - dt]
  IN [s EXCEPT !.shardDebt = debt % 60,
               !.shards = Kept(@ \o born, {b \in Int : t - b <= ShardLife})]

CamSpeed(t) ==
  IF t < BEATS.warp + 36 THEN 2600 - (1550 * Span(t, BEATS.warp, BEATS.warp + 36)) \div 100
  ELSE IF t < BEATS.clear THEN 1050
  ELSE LET p == Span(t, BEATS.clear, BEATS.arrive) IN 1050 + (1850 * p * p * p) \div 1000000

\* n cubes somewhere between two depths ahead of the camera.
SpawnCubes(s, t, n, nearest, range) ==
  [i \in 1..n |-> s.camZ + Depth(nearest) + (Depth(range) * Draw(s, t + i)) \div 100]

\* Mutant: the cap of the corridor is not looked at.
CubesDue_Uncapped(debt, cubes) == debt \div 60
CubesDue(debt, cubes) ==
  IF Len(cubes) >= 40 THEN 0 ELSE Clamp(debt \div 60, 0, 40 - Len(cubes))

StepCubes(s, t, dt) ==
  LET old == IF s.seeded THEN s.cubes ELSE s.cubes \o SpawnCubes(s, t, 20, 200, 3200)
      debt == s.cubeDebt + 16 * dt
      due == IF t < BEATS.clear THEN CubesDue(debt, old) ELSE 0
  IN [s EXCEPT !.seeded = TRUE,
               !.cubeDebt = IF t < BEATS.clear THEN Clamp(debt - 60 * due, 0, 120) ELSE @,
               !.cubes = Kept(old \o SpawnCubes(s, t, due, 2600, 1400),
                              {z \in Int : z - s.camZ >= Depth(150)})]

Streaks == [z : Int, len : Nat]

StepStreaks(s, t, dt) ==
  LET likely == (40 * dt * Span(t, BEATS.warp + 72, BEATS.arrive)) \div 60
      streak == [z |-> s.camZ + ((far \div 100) * (3000 + 35 * Draw(s, t))) \div 100,
                 len |-> Depth(900 + 22 * Draw(s, t + 1))]
      spawned == IF Len(s.streaks) < 30 /\ Draw(s, t + 2) < likely THEN <<streak>> ELSE <<>>
  IN [s EXCEPT !.streaks = Kept(@ \o spawned, {k \in Streaks : k.z - s.camZ + k.len >= near})]

StepCorridor(s, t, dt) == StepStreaks(StepCubes(s, t, dt), t, dt)

\* A batch is added whole as long as there is room for one ray.
StepRays(s, t, dt) ==
  LET life == Span(t, BEATS.title, BEATS.settle)
      batch == (380 * dt * (1000 - 7 * life) + 30000) \div 60000
      born == [i \in 1..batch |-> t - dt + 30 + (54 * Draw(s, t + i)) \div 100]
      room == life < 100 /\ Len(s.rays) < 150
  IN [s EXCEPT !.rays = Kept(IF room THEN @ \o born ELSE @, {end \in Int : t <= end})]

\* Mutant: the wall is put up when the corridor clears, nearer.
Wall_Early(s, t) ==
  IF s.wallZ = Infinity /\ t >= BEATS.clear THEN s.camZ + Depth(2300) ELSE s.wallZ
\* The end wall is put up once, ahead of the camera.
Wall(s, t) ==
  IF s.wallZ = Infinity /\ t >= BEATS.approach THEN s.camZ + Depth(3100) ELSE s.wallZ

Flown(s, t, dt) == [s EXCEPT !.camZ = @ + CamSpeed(t) * dt]

\* _step, with the clock already advanced.  _stepAmbient only drifts the motes.
Simulated(s, t, dt) ==
  IF t < BEATS.burst THEN s
  ELSE IF t < BEATS.warp THEN StepShards(s, t, dt)
  ELSE LET flown == Flown(s, t, dt)
           corridor == StepCorridor([flown EXCEPT !.wallZ = Wall(flown, t)], t, dt)
       IN IF t < BEATS.title THEN corridor ELSE StepRays(corridor, t, dt)

\* However late a frame comes, it advances the clock by a twentieth of a second.
Elapsed(frame) == Clamp(frame, 0, 3)

\* _loop: a frame whose clock has just passed the end calls onComplete.
Advanced(c) == LET t == c.t + Elapsed(c.frame) IN
  [c EXCEPT !.t = t, !.completed = @ \/ t >= BEATS.done]

Completes(c) == ~c.completed /\ Advanced(c).completed

-----------------------------------------------------------------------------
(* Painting: what a frame shows of each part *)

Ignition(t) ==
  IF t < BEATS.seed THEN {}
  ELSE IF t < BEATS.burst THEN {"shards", "square"}
  ELSE {"shards", "hollow", "scanlines", "crust"}

\* The corridor as segments of depth seen from the camera, those of no alpha
\* left out.  Everything is to stop short of limit.
Corridor(s, t) ==
  LET wall == s.wallZ - s.camZ
      limit == Clamp(wall, -Infinity, Depth(3600))
      runs == {k \in {<<near + Depth(40), 985 * (limit \div 1000)>>} : k[2] > k[1]}
      rings == {z \in {Depth(90) * i - (s.camZ % Depth(90)) : i \in 0..((limit \div Depth(90)) + 1)} :
                  near <= z /\ z <= limit /\ 10 * z < 9 * limit}
      ahead == {[from |-> s.streaks[i].z - s.camZ, to |-> s.streaks[i].z + s.streaks[i].len - s.camZ] :
                  i \in 1..Len(s.streaks)}
      lines == {<<Clamp(k.from, near, Infinity), Clamp(k.to, -Infinity, limit)>> :
                  k \in {k \in ahead : k.to >= near /\ 10 * k.from < 9 * limit}}
      cubes == {z \in {s.cubes[i] - s.camZ : i \in 1..Len(s.cubes)} :
                  Depth(150) <= z /\ z <= limit /\ 100 * z < 95 * limit}
      end == {z \in {wall} : s.wallZ # Infinity /\ wall > near}
  IN IF t >= BEATS.arrive + 9 THEN {}
     ELSE runs \cup lines \cup {<<z, z>> : z \in rings \cup cubes \cup end}

\* The resting scene fades in over the last of the corridor.
Ambient(t) == IF t <= BEATS.arrive - 24 THEN {} ELSE {"grid", "motes", "stars"}

\* The starburst: rays that are not over yet.
Starburst(s, t) == IF \E i \in 1..Len(s.rays) : s.rays[i] > t THEN {"rays"} ELSE {}

Tunnel(s, t) == IF t < BEATS.arrive + 12 /\ Corridor(s, t) # {} THEN {"corridor"} ELSE {}

\* renderAt: the parts of a frame, without the flashes.
Painted(s, t) ==
  (IF t < BEATS.warp THEN Ignition(t) ELSE Tunnel(s, t))
  \cup Ambient(t) \cup (IF t < BEATS.title THEN {} ELSE Starburst(s, t))

\* getState: how far the title has appeared, in percent.
TitleOpacity(t) == IF t >= BEATS.title THEN Span(t, BEATS.title, BEATS.title + 21) ELSE 0
=============================================================================
