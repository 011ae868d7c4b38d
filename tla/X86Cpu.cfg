SPECIFICATION Spec
CONSTANTS
  Machines <- MCMachines
  Calls <- MCCalls
  Current <- MCCurrent
INVARIANT TypeOK
INVARIANT AffinityRestored
INVARIANT ReportsTheAskedCpu
INVARIANT AnswersAreTrue
