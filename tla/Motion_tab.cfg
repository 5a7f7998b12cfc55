SPECIFICATION MotionSpec
CONSTANTS
  title = title  stats = stats  start = start  card = card
  None = None
  FrameTimes = {1, 2, 200}
  Seeds = {5}
  ShardLife = 90
  Pieces = {title, stats}
  Last = 600
  MaxRenders = 1
  MaxVisits = 2
  StorageFails = TRUE
  Controls = {start, card}
  Tilts = {card}
  Reach = 1
  Pages = {"/", "/client/signup"}
  Durations = {120, 137, 180}
  Jitters <- MCJitters
  Delays = {0, 400, 790}
  MaxLag = 2
  MaxGap = 2
  MaxLate = 1
INVARIANTS
  HandsOverOnce
  NothingThroughTheWall
  FewParticles
  RestsAsItShould
PROPERTIES
  CurtainRises
  SwapsHidden
  CountsUp
CHECK_DEADLOCK FALSE
