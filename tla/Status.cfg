SPECIFICATION Spec
CONSTANTS
  Errors <- MCErrors
  FieldSize = 256
  Details = {d1, d2}
  Values = {v}
  NoValue = NoValue
  MaxDepth = 3
  MaxFailures = 3
INVARIANT FirstFailureIsReported
PROPERTY ImplementsOutcome
