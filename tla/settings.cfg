SPECIFICATION PartsSpec
CONSTANTS
  Delayed = {"size", "mode"}
  Direct = {"visible"}
  Value = {1, 2, 3}
  Reads <- DockReads
  Ignores = {"size"}
  NoKey = NoKey
  App = {"files", "mail"}
  Info = {1, 2}
  System = {"dndMode", "maxCount"}
  MaxCalls = 2
  Unread = Unread
  Day = 4
  Notification = {"n1", "n2"}
  MaxInvoked = 3
  Nothing = Nothing
  Property = {"one", "two"}
  Content = {1, 2}
  MaxQueued = 2
  Unset = Unset
INVARIANTS SettingsSound PolicySound
CHECK_DEADLOCK FALSE
