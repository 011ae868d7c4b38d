SPECIFICATION Spec
CONSTANTS
  t1 = t1
  t2 = t2
  k1 = k1
  k2 = k2
  a = a
  b = b
  Empty = Empty
  NoValue = NoValue
  Threads = {t1, t2}
  Keys = {k1, k2}
  Vals = {a, b, Empty}
  Lists <- MCLists
  Environs <- MCEnvirons
  Programs <- MCPrograms
INVARIANT OrderlyIsSafe
INVARIANT AnswersAreCurrent
PROPERTY AnswersAreStable
PROPERTY ImplementsEnvMap
