SPECIFICATION MCSpec
CONSTANTS
  MaxEntities = 3
  MaxStarts = 1
  Kinds <- SystemKinds
  Apps = {"app"}
  BlockItemTimeout = 1
  DbOutcomes = {TRUE}
  CenterSetting = {TRUE}
  PromptLoop = FALSE
  CenterInUse = FALSE
  BubbleCounts = {1}
  MaxWaiting = 2
  MaxHiding = 2
  MaxEvents = 2
INVARIANTS WaitingServed VisibleFits LiveHasBanner
PROPERTIES EntersLive ServerSpec
CHECK_DEADLOCK FALSE
