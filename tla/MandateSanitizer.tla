-------------------------- MODULE MandateSanitizer --------------------------
(***************************************************************************)
(* How a query becomes a mandate: the normalisation of what the LLM        *)
(* proposes, the constraints the query states literally and which take     *)
(* precedence, and the deterministic parser that stands in for the LLM     *)
(* (agent/sanitize.py), with the two nodes that use them.                  *)
(*                                                                         *)
(* A query is what the regular expressions and substring tables can find   *)
(* in it; a token is anything an LLM can write into a list of a closed     *)
(* vocabulary, and the synonym tables are constants.  A query has at most  *)
(* one number per numeric pattern: re.search looks for the first match.    *)
(***************************************************************************)
EXTENDS SearchPolicies

CONSTANTS
  Industry, Location, Bucket,  \* the closed vocabularies
  Nordics,     \* what "nordic" and "scandinav" expand to
  BucketRank,  \* the order of ALLOWED_REVENUE_BUCKETS
  Token,
  IndustryOf, PlacesOf, BucketOf,  \* a token to the set of values it is mapped to
  NameOf,      \* NameOf[i]: the term that is the name of industry i
  Query, Proposals,
  NoMandate

Bound == Int \cup {NoBound}
Number == Nat \cup {NoBound}
FilterType == [industries : SUBSET Industry, locations : SUBSET Location,
               revenue_buckets : SUBSET Bucket, employee_min : Bound, employee_max : Bound,
               founded_after : Bound, founded_before : Bound]
ListField == {"industries", "locations", "revenue_buckets"}
Field == ListField \cup {"employee_min", "employee_max", "founded_after", "founded_before"}

MandateType == [filters : FilterType, keywords : SUBSET Term, requirements : SUBSET Term]

ASSUME NoMandateAssumption == NoMandate \notin MandateType

\* text: the whole query as one requirement.  industries, locations, buckets and
\* phrases: the values and keyword phrases found in it.  The others: the numbers
\* behind "more than", "at least", "fewer than", "founded after", "founded before".
QueryType ==
  [text : Term, industries : SUBSET Industry, nordic : BOOLEAN, locations : SUBSET Location,
   buckets : SUBSET Bucket, more : Number, least : Number, fewer : Number,
   after : Number, before : Number, phrases : SUBSET Term]

ProposalType ==
  [filters : [industries : SUBSET Token, locations : SUBSET Token, revenue_buckets : SUBSET Token,
              employee_min : Bound, employee_max : Bound,
              founded_after : Bound, founded_before : Bound],
   keywords : SUBSET Term, requirements : SUBSET Term]

\* Values of the vocabularies map to themselves: the exact match comes first.
ASSUME VocabularyAssumption ==
  /\ Industry \cup Location \cup Bucket \subseteq Token /\ NoBound \notin Int
  /\ Nordics \subseteq Location /\ Nordics # {}
  /\ IndustryOf \in [Token -> SUBSET Industry] /\ \A i \in Industry : IndustryOf[i] = {i}
  /\ PlacesOf \in [Token -> SUBSET Location] /\ \A l \in Location : PlacesOf[l] = {l}
  /\ BucketOf \in [Token -> SUBSET Bucket] /\ \A b \in Bucket : BucketOf[b] = {b}
  /\ BucketRank \in [Bucket -> Nat] /\ NameOf \in [Industry -> Term]

\* Nothing is found in a blank query, and no keyword phrase names an industry.
ASSUME QueryAssumption ==
  /\ Query \subseteq QueryType /\ Proposals \subseteq ProposalType
  /\ \A q \in Query :
       /\ q.phrases \cap {NameOf[i] : i \in Industry} = {}
       /\ q.text \in Blank =>
            /\ q.industries = {} /\ ~q.nordic /\ q.locations = {} /\ q.buckets = {}
            /\ q.phrases = {}
            /\ q.more = NoBound /\ q.least = NoBound /\ q.fewer = NoBound
            /\ q.after = NoBound /\ q.before = NoBound

-----------------------------------------------------------------------------
(* What the query states.                                                  *)

\* "Nordic" hides every country that is named beside it.
ExplicitLocations(q) == IF q.nordic THEN Nordics ELSE q.locations

\* Of several buckets only the first of the vocabulary is taken.
FirstBucket(q) ==
  {b \in q.buckets : \A c \in q.buckets : BucketRank[b] <= BucketRank[c]}

\* "at least" is looked for after "more than" and replaces it; strict bounds
\* become inclusive ones, and a negative maximum becomes zero.
Explicit(q) ==
  [industries      |-> q.industries,
   locations       |-> ExplicitLocations(q),
   revenue_buckets |-> FirstBucket(q),
   employee_min    |-> IF q.least # NoBound THEN q.least
                       ELSE IF q.more # NoBound THEN q.more + 1 ELSE NoBound,
   employee_max    |-> IF q.fewer = NoBound THEN NoBound
                       ELSE IF q.fewer = 0 THEN 0 ELSE q.fewer - 1,
   founded_after   |-> IF q.after = NoBound THEN NoBound ELSE q.after + 1,
   founded_before  |-> IF q.before = NoBound THEN NoBound ELSE q.before - 1]

States(q, field) ==
  IF field \in ListField THEN Explicit(q)[field] # {} ELSE Explicit(q)[field] # NoBound

-----------------------------------------------------------------------------
(* What is made of a proposal and of a query alone.                        *)

\* Mutant: tokens the tables do not know stay as they are.
NormalizedLoosely(f) ==
  [f EXCEPT !.industries = UNION {IF IndustryOf[t] = {} THEN {t} ELSE IndustryOf[t] : t \in @},
            !.locations = UNION {IF PlacesOf[t] = {} THEN {t} ELSE PlacesOf[t] : t \in @}]

\* Unknown tokens disappear, the others become values of the vocabulary.
Normalized(f) ==
  [f EXCEPT !.industries = UNION {IndustryOf[t] : t \in @},
            !.locations = UNION {PlacesOf[t] : t \in @},
            !.revenue_buckets = UNION {BucketOf[t] : t \in @}]

\* Mutant: the query only fills in what the LLM left out.
FilledIn(f, q) ==
  [field \in Field |->
     IF States(q, field) /\ (IF field \in ListField THEN f[field] = {} ELSE f[field] = NoBound)
       THEN Explicit(q)[field] ELSE f[field]]

\* What the query states replaces what the LLM inferred, field by field.
Overridden(f, q) ==
  [field \in Field |-> IF States(q, field) THEN Explicit(q)[field] ELSE f[field]]

\* Mutant: keywords are compared with the industries the LLM proposed.
SanitizeByProposal(p, q) ==
  LET proposed == Normalized(p.filters) IN
  [filters      |-> Overridden(proposed, q),
   keywords     |-> (p.keywords \cup q.phrases) \ {NameOf[i] : i \in proposed.industries},
   requirements |-> p.requirements]

\* Keywords that only name a filtered industry are dropped.
Sanitize(p, q) ==
  LET cleaned == Overridden(Normalized(p.filters), q) IN
  [filters      |-> cleaned,
   keywords     |-> (p.keywords \cup q.phrases) \ {NameOf[i] : i \in cleaned.industries},
   requirements |-> p.requirements]

\* Mutant: what the rules found is taken for the whole mandate.
FallbackTrusting(q) == [filters |-> Explicit(q), keywords |-> q.phrases, requirements |-> {}]

\* The whole query stays a requirement: the parse may have missed some of it.
Fallback(q) == [filters |-> Explicit(q), keywords |-> q.phrases, requirements |-> {q.text}]

-----------------------------------------------------------------------------
(* The two nodes.  Planning and retrieval lie between them.                *)

VARIABLES
  query,     \* state["raw_query"]
  mandate,   \* state["mandate"]
  original,  \* state["original_mandate"]
  step       \* "query", "parsed", "fallback" or "revised"

vars == <<query, mandate, original, step>>

Init ==
  /\ query \in Query /\ step = "query"
  /\ mandate = NoMandate /\ original = NoMandate

ParseMandate ==
  /\ step = "query"
  /\ \E p \in Proposals : mandate' = Sanitize(p, query)
  /\ original' = mandate' /\ step' = "parsed"
  /\ UNCHANGED query

ParseFails ==
  /\ step = "query"
  /\ mandate' = Fallback(query) /\ original' = mandate' /\ step' = "fallback"
  /\ UNCHANGED query

\* Mutant: the keywords of the proposal are taken as they are.
RawKeywords(p) == p.keywords

\* A revision goes through the same sanitizer.
ProposedKeywords(p) == Sanitize(p, query).keywords

\* Keywords may change, for others; everything else stays.
Revised(p) ==
  [mandate EXCEPT !.keywords = IF ProposedKeywords(p) # {} THEN ProposedKeywords(p) ELSE @]

\* The reply has to fit the schema; when it does not the mandate stays.
ReviseSearch ==
  /\ step \in {"parsed", "fallback"}
  /\ mandate' \in {Revised(p) : p \in Proposals} \cup {mandate}
  /\ step' = "revised"
  /\ UNCHANGED <<query, original>>

\* A request revises its search at most once.
Settled == step = "revised" /\ UNCHANGED vars

Next == ParseMandate \/ ParseFails \/ ReviseSearch \/ Settled

Spec == Init /\ [][Next]_vars
-----------------------------------------------------------------------------
(* What must hold.                                                         *)

\* Only values of the closed vocabularies are left in a mandate, whatever was
\* proposed: the catalogue knows no others.
TypeOK ==
  /\ query \in Query /\ step \in {"query", "parsed", "fallback", "revised"}
  /\ mandate \in MandateType \cup {NoMandate}
  /\ original \in MandateType \cup {NoMandate}

\* Parsed or fallen back, before a revision and after it, retrieval and acceptance
\* filter by the same constraints wherever the query states one: an LLM that is
\* down changes nothing about them, and an LLM that is up cannot relax them.
DegradedAgrees ==
  mandate # NoMandate =>
    \A field \in Field : States(query, field) =>
       /\ mandate.filters[field] = Fallback(query).filters[field]
       /\ original.filters[field] = Fallback(query).filters[field]

\* Hard filters of a fallback are never alone: either there is a criterion for
\* the validator, now and after a revision, or there are no hard filters.
FallbackIsGuarded ==
  mandate # NoMandate /\ original = Fallback(query) =>
    SemanticCriteria(mandate) # {} \/ ~HasStructuredFilters(mandate.filters)

\* Neither the LLM's proposal nor its revision loses a keyword phrase of the query.
PhrasesStaySearched ==
  mandate # NoMandate => query.phrases \subseteq mandate.keywords

\* Sanitizing what has been sanitized changes nothing, so that a mandate does not
\* drift when it is proposed again (test_idempotent, here with a query).
SanitizedIsStable == step = "parsed" => Sanitize(mandate, query) = mandate

\* The inductive invariant: a mandate is there from the parse on, and differs from
\* the original in its keywords only.
Shape ==
  IF step = "query"
    THEN mandate = NoMandate /\ original = NoMandate
    ELSE /\ mandate \in MandateType /\ original \in MandateType
         /\ mandate.filters = original.filters
         /\ mandate.requirements = original.requirements

IInv == TypeOK /\ Shape

\* Claimed: a "normalized copy while preserving explicit user constraints"
\* (sanitize_mandate): no country or bucket the query names is lost.
NamedValuesKept ==
  mandate # NoMandate =>
    /\ query.locations \subseteq mandate.filters.locations
    /\ query.buckets \subseteq mandate.filters.revenue_buckets
=============================================================================
