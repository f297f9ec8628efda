\* Every data set, mode, split and reply; each live case with its two attempts.
SPECIFICATION Spec
CONSTANTS
  NoBound = NoBound
  None = None
  Company <- MCCompany
  Term <- MCTerm
  Blank = {}
  Opaque <- MCOpaque
  Indexed <- MCCompany
  Position <- MCPosition
  BM25 <- MCBM25
  WBm25 = 7
  WFilters = 3
  Unit = 10
  CriterionId = {"k1", "k2", "k3"}
  Span = {"empty", "quote", "long", "invented"}
  EmptySpan = "empty"
  LongSpan = {"long"}
  Row <- MCRow
  Text <- MCText
  Datasets <- MCDatasets
  Replies <- MCReplies
INVARIANTS
  TypeOK
  NoLaterObjectIgnored
  ZeroIsEarned
  FailuresCountAsRejections
  GoldIsAttainable
  GoldIsRetrieved
PROPERTIES
  AcceptedIsQuoted
  EvaluationEnds
