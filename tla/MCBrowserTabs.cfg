SPECIFICATION Spec
CONSTANTS
  Home = home
  Welcome = welcome
  Urls = {home, welcome, site}
  MaxTabs = 5
  MaxHistory = 7
  Web = {site}
  Onion = {}
  ModePages <- NoModes
  ProfilePages <- NoModes
  TogglePage = none
  Flaky = {}
  Typed = {word}
  Entered = {}
  Bare <- OneWord
  Buttons = {}
  Links = {}
  StoredMode = tor
  StoredLevel = "Standard"
  BuildMayFail = FALSE
  MaxCached = 2
  ChannelSize = 1
  MaxClicks = 4
  Blank = blank
  None = none
  Tor = tor
  Clear = clear
  Unsupported = i2p
  Configs = {c1}
  V2RayReady = FALSE
  Preferred = p9050
  Ephemeral = {}
  V2RayPort = p10808
  word = word
  site = site
  menu = menu
  toTor = toTor
  toClear = toClear
  toV2Ray = toV2Ray
  toI2P = toI2P
  toSaved = toSaved
INVARIANTS BrowserTypeOK CursorInv NoRepeatInv OnScreenInv PageAgreesInv
PROPERTIES PagesReachTheirTab Settles ImplementsSession
\* The user may stop for good.
CHECK_DEADLOCK FALSE
