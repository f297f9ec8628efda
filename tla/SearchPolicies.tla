--------------------------- MODULE SearchPolicies ---------------------------
(***************************************************************************)
(* The deterministic policies of the agent: what a mandate asks for        *)
(* (agent/semantic.py), which companies satisfy its hard filters           *)
(* (agent/policies.py and the SQL of repositories/company_repo.py), how    *)
(* the BM25 index ranks them (repositories/bm25_repo.py) and how the two   *)
(* lists of hits are merged into scored candidates.                        *)
(*                                                                         *)
(* Text is abstract.  A Term stands for one keyword or requirement up to   *)
(* case, spacing and the folded aliases; a list of terms is a set, because *)
(* the code removes duplicates and nothing depends on the order.  A term   *)
(* in Blank is whitespace only; a term in Opaque has no [a-z0-9] in it, so *)
(* the tokenizer of the index drops it.                                    *)
(*                                                                         *)
(* A ranked list is a set of hits: its order is the order of (-score, id), *)
(* and a cut "first k of the sorted list" is TopK.                         *)
(***************************************************************************)
EXTENDS Integers, FiniteSets

CONSTANTS
  Company,   \* company ids, a set of integers
  Term,      \* keywords and requirements
  Blank,     \* the terms that are empty once stripped
  Opaque,    \* the terms without a token
  Indexed,   \* the companies of the loaded BM25 index
  Position,  \* Position[c]: where c is in the index
  BM25,      \* BM25[c][T]: the score rank_bm25 gives c for the tokens T
  WBm25,     \* scoring.w_bm25, in units of 1/Unit
  WFilters,  \* scoring.w_filters, in units of 1/Unit
  Unit,
  NoBound    \* None of the optional numeric filters

ASSUME CompanyAssumption == Company \subseteq Int /\ IsFiniteSet(Company)
ASSUME TermAssumption == Blank \subseteq Term /\ Opaque \subseteq Term
ASSUME IndexAssumption ==
  /\ Indexed \subseteq Company
  /\ BM25 \in [Indexed -> [SUBSET Term -> Int]]
  /\ Position \in [Indexed -> Nat]
ASSUME WeightAssumption ==
  /\ Unit \in Nat \ {0}
  /\ WBm25 \in 0 .. Unit
  /\ WFilters \in 0 .. Unit

-----------------------------------------------------------------------------
(* What a mandate asks for.  A mandate is a record [filters, keywords,     *)
(* requirements]: requirements joins semantic_requirements and must_haves, *)
(* which are never told apart after parsing.                               *)

\* Requirements are the criteria; keywords only when there is no requirement.
\* The test is on the raw list, so a blank requirement hides the keywords.
SemanticCriteria(m) ==
  (IF m.requirements # {} THEN m.requirements ELSE m.keywords) \ Blank

\* Keywords are the query; criteria only when there is no keyword.
RetrievalQuery(m) ==
  (IF m.keywords # {} THEN m.keywords ELSE SemanticCriteria(m)) \ Blank

\* The tokenizer keeps only what has a letter or a digit.
Tokens(query) == query \ Opaque

-----------------------------------------------------------------------------
(* Hard filters, once as the policy that accepts a fetched record and once *)
(* as the WHERE clauses of the catalogue query.                            *)

HasStructuredFilters(f) ==
  \/ f.industries # {} \/ f.locations # {} \/ f.revenue_buckets # {}
  \/ f.employee_min # NoBound \/ f.employee_max # NoBound
  \/ f.founded_after # NoBound \/ f.founded_before # NoBound

Matches(f, p) ==
  ~ \/ f.industries # {} /\ p.industry \notin f.industries
    \/ f.locations # {} /\ p.location \notin f.locations
    \/ f.revenue_buckets # {} /\ p.revenue_range \notin f.revenue_buckets
    \/ f.employee_min # NoBound /\ p.employee_count < f.employee_min
    \/ f.employee_max # NoBound /\ p.employee_count > f.employee_max
    \/ f.founded_after # NoBound /\ p.founded_year < f.founded_after
    \/ f.founded_before # NoBound /\ p.founded_year > f.founded_before

\* The fields a matching record offers as evidence: one per kind of filter used.
PolicyEvidence(f) ==
  {field \in {"industry", "location", "revenue_range", "employee_count", "founded_year"} :
     CASE field = "industry"       -> f.industries # {}
       [] field = "location"       -> f.locations # {}
       [] field = "revenue_range"  -> f.revenue_buckets # {}
       [] field = "employee_count" -> f.employee_min # NoBound \/ f.employee_max # NoBound
       [] field = "founded_year"   -> f.founded_after # NoBound \/ f.founded_before # NoBound}

\* SELECT id ... WHERE: one clause per filter that is set.
EligibleIds(catalog, f) ==
  {c \in DOMAIN catalog :
     LET row == catalog[c] IN
       /\ f.industries # {} => row.industry \in f.industries
       /\ f.locations # {} => row.location \in f.locations
       /\ f.revenue_buckets # {} => row.revenue_range \in f.revenue_buckets
       /\ f.employee_min # NoBound => row.employee_count >= f.employee_min
       /\ f.employee_max # NoBound => row.employee_count <= f.employee_max
       /\ f.founded_after # NoBound => row.founded_year >= f.founded_after
       /\ f.founded_before # NoBound => row.founded_year <= f.founded_before}

-----------------------------------------------------------------------------
(* Ranking.                                                                *)

Better(x, y) == x.score > y.score \/ (x.score = y.score /\ x.id < y.id)

\* The first k of the list sorted by (-score, id).
TopK(S, k) == {x \in S : Cardinality({y \in S : Better(y, x)}) < k}

Clamp(k) == IF k < 1 THEN 1 ELSE IF k > 100 THEN 100 ELSE k

NonNegative(n) == IF n > 0 THEN n ELSE 0

\* The structured tool: the eligible ids in id order, all with the same score.
FilterSearch(catalog, f, k) ==
  LET eligible == {[id |-> c, score |-> 1] : c \in EligibleIds(catalog, f)}
  IN  TopK(eligible, Clamp(k))

\* The lexical tool over the whole index: positive scores only, ties by position.
Bm25Search(query, k) ==
  LET T == Tokens(query)
      scored == {c \in Indexed : T # {} /\ BM25[c][T] > 0}
      ahead(c) == {d \in scored : \/ BM25[d][T] > BM25[c][T]
                                  \/ BM25[d][T] = BM25[c][T] /\ Position[d] < Position[c]}
  IN  {[id |-> c, score |-> BM25[c][T]] : c \in {d \in scored : Cardinality(ahead(d)) < k}}

\* Mutant: the best of the whole index, then whoever is eligible or not.
RankIndex(query, ids, k) ==
  TopK({[id |-> c, score |-> NonNegative(BM25[c][Tokens(query)])] : c \in Indexed}, Clamp(k))

\* Mutant: a LIMIT on the ids comes before the ranking.
RankFirstIds(query, ids, k) ==
  LET T == Tokens(query)
      first == {c \in ids : Cardinality({d \in ids : d < c}) < Clamp(k)}
  IN  IF T = {} THEN {}
      ELSE TopK({[id |-> c, score |-> NonNegative(BM25[c][T])] : c \in first \cap Indexed},
                Clamp(k))

\* Mutant: like the search of the whole index, positive scores only.
RankPositive(query, ids, k) ==
  LET T == Tokens(query)
  IN  TopK({[id |-> c, score |-> BM25[c][T]] : c \in {d \in ids \cap Indexed : BM25[d][T] > 0}},
           Clamp(k))

\* The lexical order of a given pool: zero scores stay, ids without an index
\* entry are skipped, and a query without a token ranks nothing.
RankEligible(query, ids, k) ==
  LET T == Tokens(query)
  IN  IF T = {} THEN {}
      ELSE TopK({[id |-> c, score |-> NonNegative(BM25[c][T])] : c \in ids \cap Indexed},
                Clamp(k))

-----------------------------------------------------------------------------
(* Merging.  bm25_score is kept before the division by the best score and  *)
(* score is multiplied by Unit and by the best score, so both are          *)
(* integers; inside one list neither the sign nor the order changes.       *)

Ids(hits) == {h.id : h \in hits}

BestScore(hits) ==
  IF \E h \in hits : h.score > 0
    THEN (CHOOSE h \in hits : \A g \in hits : g.score <= h.score).score
    ELSE 1

Lexical(hits, c) ==
  IF c \in Ids(hits) THEN (CHOOSE h \in hits : h.id = c).score ELSE 0

Merge(bm25Hits, filterHits, requireFilterMatch) ==
  LET best == BestScore(bm25Hits)
      pool == IF requireFilterMatch THEN Ids(filterHits) ELSE Ids(bm25Hits)
      sum(c) == Lexical(bm25Hits, c) * WBm25
                + (IF c \in Ids(filterHits) THEN best * WFilters ELSE 0)
  IN  {[id         |-> c,
        bm25_score |-> Lexical(bm25Hits, c),
        score      |-> IF sum(c) > best * Unit THEN best * Unit ELSE sum(c)] : c \in pool}

\* What retrieve_and_score makes of one successful tool call, before the cap.
\* useBm25 is the plan's word on the lexical tool: a plan can leave it out,
\* but it can never leave out the hard filters.
Retrieve(m, useBm25, catalog, k) ==
  LET hard  == HasStructuredFilters(m.filters)
      query == IF useBm25 THEN RetrievalQuery(m) ELSE {}
      ranked == RankEligible(query, EligibleIds(catalog, m.filters), k)
  IN  CASE hard /\ query # {} ->
             Merge({h \in ranked : h.score > 0}, ranked, TRUE)
        [] hard /\ query = {} ->
             Merge({}, FilterSearch(catalog, m.filters, k), TRUE)
        [] ~hard ->
             Merge(Bm25Search(query, k), {}, FALSE)

\* Mutant: only a pool with companies in it can be weak.
WeakIfAnybody(m, candidates) ==
  /\ RetrievalQuery(m) # {} /\ candidates # {}
  /\ \A cand \in candidates : cand.bm25_score <= 0

\* Lexical search found nothing although there was something to search for.
Weak(m, candidates) ==
  /\ RetrievalQuery(m) # {}
  /\ \A cand \in candidates : cand.bm25_score <= 0
=============================================================================
