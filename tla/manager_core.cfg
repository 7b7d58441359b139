SPECIFICATION MCFairSpec
CONSTANTS
  MaxEntities = 2
  MaxStarts = 1
  Kinds <- PlainKinds
  Apps = {"app"}
  BlockItemTimeout = 2
  DbOutcomes = {TRUE, FALSE}
  CenterSetting = {TRUE}
  PromptLoop = FALSE
  CenterInUse = TRUE
INVARIANTS TimeoutArmed StoreSound
PROPERTIES NothingLost Expires
CHECK_DEADLOCK FALSE
