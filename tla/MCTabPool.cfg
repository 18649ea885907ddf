SPECIFICATION PoolSpec
CONSTANTS
  TabIds = {t1, t2, t3, t4}
  Addresses = {site, home}
  Web = {site}
  Setups = {direct, socks}
  FirstSetup = direct
  MaxCached = 3
  Blank = blank
  None = none
INVARIANTS QueueInv CapacityInv OneVisibleInv ActiveIsAliveInv SameSetupInv
PROPERTY EvictsOldest
