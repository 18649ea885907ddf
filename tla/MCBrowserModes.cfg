SPECIFICATION Spec
CONSTANTS
  Home = home
  Welcome = welcome
  Urls = {home, welcome, site, onion, toTor, toClear, toI2P, toV2Ray, toggle, menu, toSaved}
  MaxTabs = 4
  MaxHistory = 6
  Web = {site, onion}
  Onion = {onion}
  ModePages <- AllModes
  ProfilePages <- Saved
  TogglePage = toggle
  Flaky = {home}
  Typed = {onion}
  Entered = {toClear, toTor, toV2Ray, toggle, toSaved}
  Bare <- NoWords
  Buttons = {menu}
  Links = {site}
  StoredMode = clear
  StoredLevel = "Standard"
  BuildMayFail = TRUE
  MaxCached = 2
  ChannelSize = 1
  MaxClicks = 3
  Blank = blank
  None = none
  Tor = tor
  Clear = clear
  Unsupported = i2p
  Configs = {c1}
  V2RayReady = TRUE
  Preferred = p9050
  Ephemeral = {}
  V2RayPort = p10808
  word = word
  site = site
  menu = menu
  toTor = toTor
  toClear = toClear
  toV2Ray = toV2Ray
  toI2P = toI2P
  toSaved = toSaved
INVARIANTS ChromeAgreesInv PageAgreesInv ModeAgreesInv ProxyAgreesInv
\* The user may stop for good.
CHECK_DEADLOCK FALSE
