SPECIFICATION FairSpec
CONSTANTS
  w1 = w1  w2 = w2
  Pushers = {w1, w2}
  Sent <- MCSent
  Quic <- MCQuic
  RawPacket <- MCRawPacket
  NoPacket = NoPacket
  Capacity = 3
  MayEnd = TRUE
INVARIANTS
  TypeOK
  NoLostPush
  ChecksumsHold
  AnswersFit
PROPERTIES
  ImplementsFifo
  KeepsDraining
