SPECIFICATION DeskSpec
CONSTANTS
  None = None
  Nobody = Nobody
  NaN = NaN
  Job = {1}
  Elsewhere = {"signup", "tracking", "client dashboard", "seller dashboard", "partner dashboard"}
  Typed <- MCTyped
  Autofilled <- MCAutofilled
  MaxUnheard = 1
  Welcome = "seller"
  Zips = {"10001", "10002"}
  Served <- MCServed
  MaxPicks = 2
INVARIANTS
  MessagesCurrent
  ToldIsTrue
  OneUnlessUnheard
  PayloadFits
  ChipsAndPicture
PROPERTIES
  LandsAsLoggedIn
  TypedIsKept
  Settles
CHECK_DEADLOCK FALSE
