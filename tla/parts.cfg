SPECIFICATION PartsSpec
CONSTANTS
  e1 = e1
  e2 = e2
  Entity <- TwoEntities
  BubbleCounts = {1, 2}
  MaxWaiting = 2
  MaxHiding = 2
  Notification <- SomeTimes
  BubbleMaxCount = 3
  OverlayMaxCount = 2
  MaxNews = 1
  win1 = win1
  win2 = win2
  win3 = win3
  win4 = win4
  itemA = itemA
  itemB = itemB
  itemC = itemC
  Window <- FourWindows
  Item <- ThreeItems
  ItemOf <- TheirItems
  Docked <- OneDocked
  Nameless <- OneNameless
  Top <- TwoWindows
  None = None
  MaxCount = 2
  Handle = {"h1", "h2", "h3"}
  NoHandle = "none"
  NoWindow = NoWindow
  MaxPointer = 2
  atBottom = atBottom
  atLeft = atLeft
  Area <- TwoAreas
  Place <- SomePlaces
  NoWhere = NoWhere
  NoList = NoList
  MaxEvents = 1
INVARIANTS StagingSound PreviewSound TreelandSound OverlapFollows
PROPERTIES PanelSettles
CHECK_DEADLOCK FALSE
