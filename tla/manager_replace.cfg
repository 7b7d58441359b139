SPECIFICATION MCSpec
CONSTANTS
  MaxEntities = 3
  MaxStarts = 1
  Kinds <- TimedKinds
  Apps = {"app"}
  BlockItemTimeout = 1
  DbOutcomes = {TRUE, FALSE}
  CenterSetting = {TRUE}
  PromptLoop = FALSE
  CenterInUse = FALSE
INVARIANTS OneLivePerBubble FreshTimeoutKept
CHECK_DEADLOCK FALSE
