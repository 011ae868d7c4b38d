SPECIFICATION FairSpec
CONSTANTS
  W = 2
  MaxProcessors = 6
  MaxGrouped = 3
  MaxThreads = 13
  Machines <- MCMachines
  CustomVectors <- MCCustomVectors
INVARIANT EachOnOneProcessor
INVARIANT ProcessorsAreShared
INVARIANT CachesAreShared
INVARIANT CoresBeforeSiblings
PROPERTY Terminates
