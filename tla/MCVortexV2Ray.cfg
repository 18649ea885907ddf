SPECIFICATION VortexSpec
CONSTANTS
  Tor = tor
  Clear = clear
  Unsupported = i2p
  Configs = {c1}
  V2RayReady = TRUE
  Preferred = p9050
  Ephemeral = {e1}
  V2RayPort = p10808
  Names = {home}
  MaxAdded = 2
  None = none
  Absent = absent
  Torn = torn
  Bridged = {snowflake}
  Lines = {sfLine, userLine}
  LineOf <- SnowflakeLine
  Needs <- PlainBridge
  Parses = {sfLine, userLine}
  Bundled = {sfClient}
  snowflake = snowflake
  sfLine = sfLine
  userLine = userLine
  sfClient = sfClient
  lyrebird = lyrebird
PROPERTY V2RayModeUsesV2Ray
\* A torn settings file never starts again.
CHECK_DEADLOCK FALSE
