SPECIFICATION FairSpec
CONSTANTS
  shop = shop  stall = stall  carrier = carrier  t1 = t1  t2 = t2  j1 = j1  j2 = j2
  None = None
  Tabs = {t1, t2}
  Watched = {t1}
  Accounts = {shop, stall}
  RoleOf <- TwoSellers
  Job = {j1}
  BackTo <- SubmitPage
  Hides = TRUE
  StorageFails = TRUE
INVARIANTS
  SentAsLoggedIn
  NoHalfSession
PROPERTIES
  PagesSwap
  LoadingEnds
