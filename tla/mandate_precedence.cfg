SPECIFICATION Spec
CONSTANTS
  request = request
  empty = empty
  ml = ml
  technology = technology
  automotive = automotive
  NoBound = NoBound
  NoMandate = NoMandate
  Term <- MCTerm
  Blank <- MCBlank
  Opaque <- MCBlank
  Company <- NoCompany
  Indexed <- NoCompany
  Position <- NoScore
  BM25 <- NoScore
  WBm25 = 7
  WFilters = 3
  Unit = 10
  Industry <- MCIndustry
  Location <- MCLocation
  Bucket <- MCBucket
  Nordics <- MCNordics
  BucketRank <- MCBucketRank
  Token <- MCToken
  IndustryOf <- MCIndustryOf
  PlacesOf <- MCPlacesOf
  BucketOf <- MCBucketOf
  NameOf <- MCNameOf
  Query <- MCQuery
  Proposals <- MCProposals
INVARIANTS TypeOK DegradedAgrees FallbackIsGuarded PhrasesStaySearched SanitizedIsStable
