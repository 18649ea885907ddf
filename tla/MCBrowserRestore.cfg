SPECIFICATION Spec
CONSTANTS
  Home = home
  Welcome = welcome
  Urls = {home, welcome, site, onion, toTor, toClear, toI2P, toV2Ray, toggle}
  MaxTabs = 4
  MaxHistory = 6
  Web = {site, onion}
  Onion = {onion}
  ModePages <- AllModes
  ProfilePages <- NoModes
  TogglePage = none
  Flaky = {}
  Typed = {site, toClear}
  Entered = {}
  Bare <- NoWords
  Buttons = {}
  Links = {onion}
  StoredMode = tor
  StoredLevel = "Standard"
  BuildMayFail = FALSE
  MaxCached = 2
  ChannelSize = 1
  MaxClicks = 3
  Blank = blank
  None = none
  Tor = tor
  Clear = clear
  Unsupported = i2p
  Configs = {c1}
  V2RayReady = FALSE
  Preferred = p9050
  Ephemeral = {e1}
  V2RayPort = p10808
  word = word
  site = site
  menu = menu
  toTor = toTor
  toClear = toClear
  toV2Ray = toV2Ray
  toI2P = toI2P
  toSaved = toSaved
PROPERTIES RebuildKeepsThePage
\* The user may stop for good.
CHECK_DEADLOCK FALSE
