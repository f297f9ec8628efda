\* A run_start that cannot be written.
SPECIFICATION Spec
CONSTANTS
  ai = ai
  iot = iot
  blank = blank
  cyrillic = cyrillic
  NoBound = NoBound
  None = None
  Company <- MCCompany
  Term <- MCTerm
  Blank <- MCBlank
  Opaque <- MCOpaque
  Indexed <- MCIndexed
  Position <- MCPosition
  BM25 <- MCBM25
  WBm25 = 7
  WFilters = 3
  Unit = 10
  Filter <- MCFilter
  Profile <- MCProfile
  Mandates <- MCMandates
  FallbackMandate <- MCFallbackMandate
  Catalogs <- MCCatalogs
  MaxIterations = 2
  MaxRevised = 1
  MaxCandidates = 3
  MaxValidate = 2
  MaxFinal = 1
  Budgets = {5}
  MaxCriteria = 2
  MaxReseeds = 0
INVARIANT RunEndOnEveryExit
