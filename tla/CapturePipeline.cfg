SPECIFICATION FairSpec
CONSTANTS
  w1 = w1  w2 = w2  b1 = b1  b2 = b2  b3 = b3  b4 = b4  f1 = f1  f2 = f2
  Workers = {w1, w2}
  Buffers = {b1, b2, b3, b4}
  Initial <- MCInitial
  Frame = {f1, f2}
  NoFrame = NoFrame
  NoBuffer = NoBuffer
INVARIANTS
  TypeOK
  SingleOwner
PROPERTIES
  DeliversFrames
  KeepsDelivering
  BuffersReturn
