SPECIFICATION Spec
CONSTANTS
  N = 2
  h1 = h1
  h2 = h2
  h3 = h3
  None = None
  Handle = {h1, h2, h3}
  Standing <- TwoStanding
  Likenesses <- Scores
  Requests <- AllRequests
  Platforms <- AllPlatforms
  Layouts <- DisplayLayouts
  SavedFrame <- Frames
  SavedZ <- ZOrder
  Changed <- First
  OnWorkspace <- Second
  WithTabs <- Second
  Focused = 1
  ZeroIsTop = FALSE
  MaxChanges = 1
INVARIANTS TypeOK OneToOne UnselectedStay NothingForgotten PlacedOnScreen 
CHECK_DEADLOCK FALSE
