SPECIFICATION Spec
CONSTANTS
  x = x
  y = y
  t1 = t1
  t2 = t2
  NoThread = NoThread
  Threads = {t1, t2}
  Maps = {x, y}
  WordBits = 4
  IntBits = 2
  Sizes <- MCSizes
  Positions <- AllPositions
  Merges <- FitMerges
PROPERTY ImplementsBitSet
VIEW AllButAnswer
