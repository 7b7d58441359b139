SPECIFICATION FairSpec
CONSTANTS
  left = left
  right = right
  popup = popup
  Root = root
  Screens <- TwoScreens
  Popups <- OnePopup
  Modes = {"KeepShowing", "SmartHide"}
  MaxShots = 1
INVARIANTS Callable
PROPERTIES HidesInTheEnd ShowsInTheEnd
CHECK_DEADLOCK FALSE
