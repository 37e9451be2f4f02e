SPECIFICATION Spec
CONSTANTS
  c1 = c1
  c2 = c2
  n1 = n1
  t1 = t1
  t2 = t2
  Custom = {c1}
  Native = {n1}
  NoScript = NoScript
  NoTxd = NoTxd
  Legacy = {}
  TxdName = {t1, t2}
  Limit = 4
  KeyCount = 1
  MaxPaused = 2
INVARIANTS TexturesAreUnloaded
