SPECIFICATION ClientSpec
CONSTANTS
  w1 = w1  c1 = c1
  NoPacket = NoPacket
  Domains = {"google.com", "maps.google.com", "games.com"}
  Workers = {w1}
  Conns = {c1}
  Configs <- MCConfigs
  Traffic <- MCTraffic
  AllowTTL = 1
  BlockTTL = 1
  PendTTL = 0
  MaxLag = 0
  MaxAge = 2
  Capacity = 2
  Hosts <- MCHosts
  Hellos <- MCHellos
  Orderly = FALSE
  MaxWire = 2
INVARIANTS
  JudgedByOwnHost
