SPECIFICATION PartsSpec
CONSTANTS
  a = a
  b = b
  w1 = w1
  w2 = w2
  u = u
  Own = {u}
  App <- TwoApps
  Window <- SomeWindows
  AppOf <- SomeOwner
  Elements <- SomeElements
  Ahead = 2
  Early <- None
  Returning <- None
  MaxItems = 3
  MaxEvents = 1
  NoWindow = NoWindow
  MaxSignals = 2
  Fonts <- SomeFonts
  ItemSizes <- SomeSizes
  Spaces = {0, 20, 40}
  Title = {0, 5, 20}
  MaxRows = 2
  Position = {"left", "bottom"}
  Sizes = {1, 2}
  OtherMenu = "other"
  Margins = {0, 1}
  Lengths = {2}
  MaxAsked = 2
  Output = {"o1", "o2"}
  NoOutput = "none"
  WaylandZones = {0, 2}
  WaylandLengths = {1, 2}
INVARIANTS ModelsSound WindowsSound WindowFollows LayersSound
PROPERTIES PlaceKept
CHECK_DEADLOCK FALSE
