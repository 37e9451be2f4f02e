SPECIFICATION Spec
CONSTANTS
  c1 = c1
  c2 = c2
  n1 = n1
  t1 = t1
  t2 = t2
  Custom = {c1}
  Native = {n1}
  NoScript = NoScript
  NoTxd = NoTxd
  Legacy = {n1}
  TxdName = {t1}
  Limit = 2
  KeyCount = 1
  MaxPaused = 2
INVARIANTS TypeOK DrawsStaySeparate DrawsAreOwn LimitIsPerFrame FlagTellsCrash
PROPERTIES FrameEnds PauseEnds
