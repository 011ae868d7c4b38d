SPECIFICATION FairSpec
CONSTANTS
  MaxThreads = 20
  MaxProcessors = 17
  Sizes <- MCSizes
INVARIANT TypeOK
INVARIANT InOrder
INVARIANT NoNeedlessSharing
INVARIANT NoIdleProcessor
INVARIANT ComputesDistribution
PROPERTY Terminates
