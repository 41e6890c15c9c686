SPECIFICATION Spec
CONSTANTS
  w1 = w1  w2 = w2  c1 = c1  c2 = c2
  NoPacket = NoPacket
  Domains = {"google.com", "maps.google.com", "games.com"}
  Workers = {w1, w2}
  Conns = {c1}
  Configs <- MCConfigs
  Traffic <- MCTraffic
  AllowTTL = 1
  BlockTTL = 1
  PendTTL = 0
  MaxLag = 1
  MaxAge = 3
  Capacity = 2
INVARIANTS
  TypeOK
  PendingExclusive
  ResetHoldsVerdict ForwardIsFollowed
  VerdictExact
PROPERTIES
  EvictionJustified
SYMMETRY WorkerSymmetry
