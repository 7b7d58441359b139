SPECIFICATION PartsSpec
CONSTANTS
  Parts = {"surfaces", "moves", "tokens"}
  app = app
  plug = plug
  clock = clock
  noSurface = noSurface
  Surface <- SomeSurfaces
  Prefers <- SomePrefers
  Forbids <- SomeForbids
  CanHide <- JustPlug
  AppTray <- JustApp
  DockHides <- JustApp
  Leavers <- SomeLeave
  OldOrders <- SavedOrders
  NoSurface = noSurface
  MaxIndex = 3
  MaxCalls = 1
  Control = {"p", "q"}
  NoControl = "none"
  MaxLater = 2
  MaxSettle = 1
  Loader <- Loaders
  PluginSurface <- Surfaces
  LoaderOf <- Owners
  TypeOf <- Types
  Kept = {"position"}
  KeptIfSet = {"height"}
  MaxValue = 1
  Request = {"r1", "r2"}
  Window = {"w"}
  Token = {"t1", "t2"}
  NoRequest = "none"
  NoToken = "none"
  MaxRetries = 1
INVARIANTS HostSound HeardCurrent
PROPERTIES Answered
CHECK_DEADLOCK FALSE
