SPECIFICATION FairSpec
CONSTANTS
  t1 = t1
  t2 = t2
  Threads = {t1, t2}
  Requests <- FitRequests
  SizeMax = 15
  MaxReads = 10
INVARIANT TypeOK
INVARIANT StaysInBuffer
INVARIANT CountedAreRandom
PROPERTY CallsReturn
