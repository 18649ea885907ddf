SPECIFICATION SocksSpec
CONSTANTS
  Conns = {c1, c2, c3}
  Core = core
  MaxClients = 2
INVARIANTS TunnelUsesCurrentClientInv
PROPERTIES EveryWaiterIsServed
