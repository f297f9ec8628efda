\* The limits of the shipped configuration, one catalogue replacement.
SPECIFICATION FairSpec
CONSTANTS
  ai = ai
  iot = iot
  blank = blank
  cyrillic = cyrillic
  NoBound = NoBound
  None = None
  Company <- MCCompany
  Term <- MCTerm
  Blank <- MCBlank
  Opaque <- MCOpaque
  Indexed <- MCIndexed
  Position <- MCPosition
  BM25 <- MCBM25
  WBm25 = 7
  WFilters = 3
  Unit = 10
  Filter <- MCFilter
  Profile <- MCProfile
  Mandates <- MCMandates
  FallbackMandate <- MCFallbackMandate
  Catalogs <- MCCatalogs
  MaxIterations = 2
  MaxRevised = 1
  MaxCandidates = 3
  MaxValidate = 2
  MaxFinal = 1
  Budgets = {2, 5}
  MaxCriteria = 2
  MaxReseeds = 1
INVARIANTS
  TypeOK
  IInv
  AnswersAreGrounded
  FallbackNeedsValidator
  LedgerBalances
  UnverifiedAnswersNothing
  FullBudgetSuffices
  RunEndShowsProgress
  UnchangedTableLosesNobody
  AnswersPassEvaluation
  AnswersAreInTheTable
  TimedOutRowsShowTheWork
PROPERTIES
  PoolsStayInsideFilters
  NobodyIsCutEarly
  EmptyPoolIsRevised
  RevisionKeepsRequirements
  ImplementsContract
  EveryCallEnds
