SPECIFICATION Spec
CONSTANTS
  r1 = r1
  r2 = r2
  idA = idA
  None = None
  Request <- MCRequest
  RunId <- OneRunId
  IdOf <- SharedId
  MaxEvents = 1
  MaxCrashes = 1
SYMMETRY SwapShared
VIEW WithoutReads
INVARIANTS LinesKeepTheirOrder UndisturbedRunIsComplete
