SPECIFICATION LiveSpec
CONSTANTS
  Plugin = {wx}
  None = None
  MaxToggles = 3
  MaxClicks = 2
  MaxRebuilds = 1
  MaxFails = 1
  Plugins = {p, q}
  Sources = {q}
  TabEvents = 3
  MaxCalls = 2
  Ids = {c}
  Plug = plug
  Blank = Blank
  ConnEvents = 3
  Screens = {s1, s2}
  MaxEvents = 3
INVARIANT TypeOK
INVARIANT PluginsShown
INVARIANT SettingsAgree
PROPERTY TabsCatchUp
CHECK_DEADLOCK FALSE
