SPECIFICATION PartsSpec
CONSTANTS
  Panels <- ThePanels
  ChildrenOf <- Children
  WithView = {"dock", "tray", "clock"}
  MayFail = {"notify", "tray"}
  Switched = {"dock", "tray", "clock"}
  MaxApplets = 4
  MaxPending = 3
  NoPlugin = "none"
  a = a
  b = b
  c = c
  MaxPerPage = 2
  MaxFolders = 2
  MaxEvents = 2
  MaxRepeats = 1
PROPERTY ArrangementKept
CHECK_DEADLOCK FALSE
