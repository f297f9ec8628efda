SPECIFICATION Spec
CONSTANTS
  r1 = r1
  r2 = r2
  idA = idA
  None = None
  Request <- OneRequest
  RunId <- OneRunId
  IdOf <- OwnId
  MaxEvents = 3
  MaxCrashes = 1
INVARIANTS TypeOK ReadsSucceed
PROPERTY ReadsOnlyAdvance
