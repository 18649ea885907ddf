SPECIFICATION Spec
CONSTANTS
  Home = home
  Welcome = welcome
  Urls = {home, welcome, site, onion, toTor, toClear, toI2P, toV2Ray, toggle}
  MaxTabs = 5
  MaxHistory = 7
  Web = {site, onion}
  Onion = {onion}
  ModePages <- AllModes
  ProfilePages <- NoModes
  TogglePage = none
  Flaky = {}
  Typed = {onion, site}
  Entered = {}
  Bare <- NoWords
  Buttons = {}
  Links = {}
  StoredMode = clear
  StoredLevel = "Standard"
  BuildMayFail = FALSE
  MaxCached = 2
  ChannelSize = 1
  MaxClicks = 4
  Blank = blank
  None = none
  Tor = tor
  Clear = clear
  Unsupported = i2p
  Configs = {c1}
  V2RayReady = FALSE
  Preferred = p9050
  Ephemeral = {e1}
  V2RayPort = p10808
  word = word
  site = site
  menu = menu
  toTor = toTor
  toClear = toClear
  toV2Ray = toV2Ray
  toI2P = toI2P
  toSaved = toSaved
INVARIANTS OnionGoesThroughSocks
\* The user may stop for good.
CHECK_DEADLOCK FALSE
