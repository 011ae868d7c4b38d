SPECIFICATION Spec
CONSTANTS
  x = x
  y = y
  t1 = t1
  t2 = t2
  NoThread = NoThread
  Threads = {t1, t2}
  Maps = {x, y}
  WordBits = 4
  IntBits = 3
  Sizes <- MCSizes
  Positions <- FitPositions
  Merges <- FitMerges
INVARIANT TypeOK
INVARIANT PaddingClear
PROPERTY ImplementsBitSet
VIEW AllButAnswer
