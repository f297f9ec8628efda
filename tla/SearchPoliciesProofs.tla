------------------------ MODULE SearchPoliciesProofs ------------------------
(* Lemmas on the operators of SearchPolicies, for every value of its        *)
(* constants: what a cut, a ranking and a merge can contain.                *)
EXTENDS SearchPolicies, FiniteSetTheorems, TLAPS

\* A cut list is part of the list.
LEMMA TopKSubset == \A S, k : TopK(S, k) \subseteq S
BY DEF TopK

\* Scored hits built one per company have those companies as their ids.
LEMMA IdsOfHits ==
  ASSUME NEW pool, NEW hit(_), \A c \in pool : hit(c).id = c
  PROVE  Ids({hit(c) : c \in pool}) = pool
BY DEF Ids

\* The ids of a part of a list are ids of the list.
LEMMA IdsMonotone == \A S, T : S \subseteq T => Ids(S) \subseteq Ids(T)
BY DEF Ids

\* Merging keeps the filter hits when filters are mandatory and the lexical
\* hits otherwise, never anything else; over companies the result is finite.
LEMMA MergeIds ==
  ASSUME NEW bm, NEW fi, NEW require \in BOOLEAN
  PROVE  LET pool == IF require THEN Ids(fi) ELSE Ids(bm) IN
         /\ Ids(Merge(bm, fi, require)) = pool
         /\ pool \subseteq Company => IsFiniteSet(Merge(bm, fi, require))
<1> DEFINE pool == IF require THEN Ids(fi) ELSE Ids(bm)
           best == BestScore(bm)
           sum(c) == Lexical(bm, c) * WBm25
                     + (IF c \in Ids(fi) THEN best * WFilters ELSE 0)
           hit(c) == [id |-> c, bm25_score |-> Lexical(bm, c),
                      score |-> IF sum(c) > best * Unit THEN best * Unit ELSE sum(c)]
           f == [c \in pool |-> hit(c)]
<1>1. Merge(bm, fi, require) = {hit(c) : c \in pool}
  BY DEF Merge
<1>2. \A c \in pool : hit(c).id = c
  OBVIOUS
<1> HIDE DEF hit, pool
<1>3. Ids({hit(c) : c \in pool}) = pool
  BY <1>2 DEF Ids
<1>4. f \in Surjection(pool, {hit(c) : c \in pool})
  BY DEF Surjection
<1>5. pool \subseteq Company => IsFiniteSet(pool)
  BY FS_Subset, CompanyAssumption
<1>6. pool \subseteq Company => IsFiniteSet({hit(c) : c \in pool})
  BY <1>4, <1>5, FS_Surjection
<1> QED  BY <1>1, <1>3, <1>6 DEF pool

\* Ranking a pool of companies by text never leaves the pool.
LEMMA RankEligibleIds ==
  ASSUME NEW query, NEW ids, NEW k
  PROVE  Ids(RankEligible(query, ids, k)) \subseteq ids
<1> DEFINE T == Tokens(query)
           hit(c) == [id |-> c, score |-> NonNegative(BM25[c][T])]
           hits == {hit(c) : c \in ids \cap Indexed}
<1>1. \A c \in ids \cap Indexed : hit(c).id = c
  OBVIOUS
<1>2. RankEligible(query, ids, k) \subseteq hits
  BY TopKSubset DEF RankEligible
<1> HIDE DEF hit
<1>3. Ids(hits) = ids \cap Indexed
  BY <1>1 DEF Ids
<1> HIDE DEF hits
<1> QED  BY <1>2, <1>3, IdsMonotone

\* The structured tool returns rows that satisfy the filters.
LEMMA FilterSearchIds ==
  ASSUME NEW rows, NEW f, NEW k
  PROVE  Ids(FilterSearch(rows, f, k)) \subseteq EligibleIds(rows, f)
<1> DEFINE ids == EligibleIds(rows, f)
           hit(c) == [id |-> c, score |-> 1]
           hits == {hit(c) : c \in ids}
<1>1. \A c \in ids : hit(c).id = c
  OBVIOUS
<1>2. FilterSearch(rows, f, k) \subseteq hits
  BY TopKSubset DEF FilterSearch
<1> HIDE DEF hit, ids
<1>3. Ids(hits) = ids
  BY <1>1 DEF Ids
<1> HIDE DEF hits
<1> QED  BY <1>2, <1>3, IdsMonotone DEF ids

\* The lexical tool returns companies of the index.
LEMMA Bm25SearchIds ==
  ASSUME NEW query, NEW k
  PROVE  Ids(Bm25Search(query, k)) \subseteq Indexed
<1> DEFINE T == Tokens(query)
           hit(c) == [id |-> c, score |-> BM25[c][T]]
           hits == {hit(c) : c \in Indexed}
<1>1. \A c \in Indexed : hit(c).id = c
  OBVIOUS
<1>2. Bm25Search(query, k) \subseteq hits
  BY DEF Bm25Search
<1> HIDE DEF hit
<1>3. Ids(hits) = Indexed
  BY <1>1 DEF Ids
<1> HIDE DEF hits
<1> QED  BY <1>2, <1>3, IdsMonotone

\* What one retrieval returns: a finite set of scored companies, all of them
\* rows that satisfy the hard filters of the mandate when it has any. Neither
\* the plan nor the keywords can widen it.
LEMMA RetrievePool ==
  ASSUME NEW m, NEW useBm25, NEW rows, DOMAIN rows \subseteq Company, NEW k
  PROVE  LET pool == Retrieve(m, useBm25, rows, k) IN
         /\ IsFiniteSet(pool)
         /\ Ids(pool) \subseteq Company
         /\ HasStructuredFilters(m.filters) => Ids(pool) \subseteq EligibleIds(rows, m.filters)
<1> DEFINE hard == HasStructuredFilters(m.filters)
           query == IF useBm25 THEN RetrievalQuery(m) ELSE {}
           ids == EligibleIds(rows, m.filters)
           ranked == RankEligible(query, ids, k)
           positive == {h \in ranked : h.score > 0}
           listed == FilterSearch(rows, m.filters, k)
           found == Bm25Search(query, k)
           pool == Retrieve(m, useBm25, rows, k)
<1>1. ids \subseteq Company
  BY DEF EligibleIds
<1>2. Ids(ranked) \subseteq ids
  BY RankEligibleIds
<1>3. Ids(listed) \subseteq ids
  BY FilterSearchIds
<1>4. Ids(found) \subseteq Company
  BY Bm25SearchIds, IndexAssumption
<1>5. hard \in BOOLEAN
  BY DEF HasStructuredFilters
<1>6. /\ hard /\ query # {} => pool = Merge(positive, ranked, TRUE)
      /\ hard /\ query = {} => pool = Merge({}, listed, TRUE)
      /\ ~hard => pool = Merge(found, {}, FALSE)
  BY DEF Retrieve
<1>7. /\ Ids(Merge(positive, ranked, TRUE)) = Ids(ranked)
      /\ IsFiniteSet(Merge(positive, ranked, TRUE))
  <2>1. Ids(ranked) \subseteq Company
    BY <1>1, <1>2
  <2>2. \A P, R : Ids(R) \subseteq Company =>
           Ids(Merge(P, R, TRUE)) = Ids(R) /\ IsFiniteSet(Merge(P, R, TRUE))
    BY MergeIds
  <2> HIDE DEF positive, ranked
  <2> QED  BY <2>1, <2>2
<1>8. /\ Ids(Merge({}, listed, TRUE)) = Ids(listed)
      /\ IsFiniteSet(Merge({}, listed, TRUE))
  <2>1. Ids(listed) \subseteq Company
    BY <1>1, <1>3
  <2>2. \A P, R : Ids(R) \subseteq Company =>
           Ids(Merge(P, R, TRUE)) = Ids(R) /\ IsFiniteSet(Merge(P, R, TRUE))
    BY MergeIds
  <2> HIDE DEF listed
  <2> QED  BY <2>1, <2>2
<1>9. /\ Ids(Merge(found, {}, FALSE)) = Ids(found)
      /\ IsFiniteSet(Merge(found, {}, FALSE))
  <2>1. \A P, R : Ids(P) \subseteq Company =>
           Ids(Merge(P, R, FALSE)) = Ids(P) /\ IsFiniteSet(Merge(P, R, FALSE))
    BY MergeIds
  <2> HIDE DEF found
  <2> QED  BY <1>4, <2>1
<1> SUFFICES /\ IsFiniteSet(pool)
             /\ Ids(pool) \subseteq Company
             /\ hard => Ids(pool) \subseteq ids
  OBVIOUS
<1> HIDE DEF hard, query, ids, ranked, positive, listed, found, pool
<1> QED  BY <1>1, <1>2, <1>3, <1>4, <1>5, <1>6, <1>7, <1>8, <1>9

-----------------------------------------------------------------------------
(* Ranked lists: one hit per company, with an integer for a score.         *)

RankedList(S) ==
  /\ IsFiniteSet(S)
  /\ \A x \in S : x.id \in Int /\ x.score \in Int
  /\ \A x, y \in S : x.id = y.id => x = y

\* Part of a ranked list is one.
LEMMA RankedPart == \A S, T : RankedList(S) /\ T \subseteq S => RankedList(T)
BY FS_Subset DEF RankedList

HitsOf(f, pool) == {f[c] : c \in pool}

\* A list made of one hit for each of some companies is ranked.
LEMMA RankedHits ==
  ASSUME NEW pool, pool \subseteq Company, NEW f,
         \A c \in pool : f[c].id = c /\ f[c].score \in Int
  PROVE  RankedList(HitsOf(f, pool))
<1> DEFINE hits == HitsOf(f, pool)
           g == [c \in pool |-> f[c]]
<1>1. g \in Surjection(pool, hits)
  BY DEF Surjection, HitsOf
<1>2. IsFiniteSet(pool)
  BY FS_Subset, CompanyAssumption
<1>3. IsFiniteSet(hits)
  <2> HIDE DEF hits, g
  <2> QED  BY <1>1, <1>2, FS_Surjection
<1> QED  BY <1>3, CompanyAssumption DEF RankedList, HitsOf

\* In a ranked list one of two hits is better, and whatever is better than the
\* better one is better than the other.
LEMMA BetterIsTotal ==
  ASSUME NEW S, RankedList(S), NEW x \in S, NEW y \in S, x # y
  PROVE  /\ Better(x, y) \/ Better(y, x)
         /\ ~Better(x, x)
         /\ \A z \in S : Better(z, x) /\ Better(x, y) => Better(z, y)
<1>1. x.id # y.id
  BY DEF RankedList
<1>2. \A z \in S : z.id \in Int /\ z.score \in Int
  BY DEF RankedList
<1> QED  BY <1>1, <1>2 DEF Better

\* A cut keeps at most as many hits as it is told: the number of better hits is
\* different for each hit that is kept.
LEMMA TopKBound ==
  ASSUME NEW S, RankedList(S), NEW k \in Nat
  PROVE  IsFiniteSet(TopK(S, k)) /\ Cardinality(TopK(S, k)) <= k
<1> DEFINE ahead(x) == {z \in S : Better(z, x)}
           T == TopK(S, k)
           place == [x \in T |-> Cardinality(ahead(x))]
<1>1. \A x \in S : IsFiniteSet(ahead(x)) /\ Cardinality(ahead(x)) \in Nat
  BY FS_Subset, FS_CardinalityType DEF RankedList
<1>2. T \subseteq S /\ \A x \in T : Cardinality(ahead(x)) < k
  BY DEF TopK
<1>3. place \in [T -> 0 .. k - 1]
  <2> SUFFICES ASSUME NEW x \in T PROVE Cardinality(ahead(x)) \in 0 .. k - 1
    OBVIOUS
  <2> HIDE DEF ahead, T
  <2> QED  BY <1>1, <1>2
<1>4. ASSUME NEW x \in T, NEW y \in T, Better(x, y), x # y
      PROVE  Cardinality(ahead(x)) # Cardinality(ahead(y))
  <2>1. ahead(x) \subseteq ahead(y) /\ x \in ahead(y) /\ x \notin ahead(x)
    BY <1>2, <1>4, BetterIsTotal
  <2> HIDE DEF ahead
  <2> QED  BY <1>1, <1>2, <2>1, FS_Subset
<1>5. \A x, y \in T : place[x] = place[y] => x = y
  <2> SUFFICES ASSUME NEW x \in T, NEW y \in T, x # y PROVE place[x] # place[y]
    OBVIOUS
  <2>1. Better(x, y) \/ Better(y, x)
    BY <1>2, BetterIsTotal
  <2> HIDE DEF ahead, T
  <2> QED  BY <1>4, <2>1
<1>6. place \in Injection(T, 0 .. k - 1)
  <2> HIDE DEF place, T
  <2> QED  BY <1>3, <1>5 DEF Injection, IsInjective
<1>7. IsFiniteSet(0 .. k - 1) /\ Cardinality(0 .. k - 1) = k
  BY FS_Interval
<1> HIDE DEF place, T
<1>8. IsFiniteSet(T) /\ Cardinality(T) <= k
  BY <1>6, <1>7, FS_Injection
<1> QED  BY <1>8 DEF T

\* A ranked list has as many ids as hits.
LEMMA IdsCount == ASSUME NEW S, RankedList(S) PROVE Cardinality(Ids(S)) = Cardinality(S)
<1> DEFINE f == [x \in S |-> x.id]
<1>1. f \in Bijection(S, Ids(S))
  BY DEF Ids, RankedList, Bijection, Injection, Surjection, IsInjective
<1>2. ExistsBijection(S, Ids(S))
  BY <1>1 DEF ExistsBijection
<1> QED  BY <1>2, FS_Bijection DEF RankedList

\* A ranked list no longer than the cut is kept whole.
LEMMA ShortListKept ==
  ASSUME NEW S, RankedList(S), NEW k \in Nat, Cardinality(S) <= k
  PROVE  TopK(S, k) = S
<1> SUFFICES ASSUME NEW x \in S PROVE Cardinality({y \in S : Better(y, x)}) < k
  BY DEF TopK
<1> DEFINE ahead == {y \in S : Better(y, x)}
           others == S \ {x}
<1>1. ahead \subseteq others
  BY BetterIsTotal DEF RankedList, Better
<1>2. IsFiniteSet(others) /\ Cardinality(others) = Cardinality(S) - 1 /\ Cardinality(S) \in Nat
  BY FS_RemoveElement, FS_CardinalityType DEF RankedList
<1> HIDE DEF ahead, others
<1>3. Cardinality(ahead) <= Cardinality(others) /\ Cardinality(ahead) \in Nat
  BY <1>1, <1>2, FS_Subset, FS_CardinalityType
<1> QED  BY <1>2, <1>3 DEF ahead

\* A list of which somebody is cut off keeps as many hits as it may, and nobody it
\* keeps scores worse than who is cut off.
LEMMA CutIsFull ==
  ASSUME NEW S, RankedList(S), NEW k \in Nat, NEW x \in S, x \notin TopK(S, k)
  PROVE  /\ Cardinality(TopK(S, k)) = k
         /\ \A y \in TopK(S, k) : y.score >= x.score
<1> DEFINE ahead(z) == {y \in S : Better(y, z)}
           T == TopK(S, k)
           cut == {ahead(z) : z \in S \ T}
<1>1. \A z \in S : IsFiniteSet(ahead(z)) /\ Cardinality(ahead(z)) \in Nat
  BY FS_Subset, FS_CardinalityType DEF RankedList
<1>2. \A z \in S : z \in T <=> Cardinality(ahead(z)) < k
  BY DEF TopK
<1>3. T \subseteq S /\ IsFiniteSet(T) /\ Cardinality(T) <= k /\ Cardinality(T) \in Nat
  BY TopKSubset, TopKBound, FS_CardinalityType
<1>4. ASSUME NEW y \in S, NEW z \in S, Better(y, z)
      PROVE  ahead(y) \subseteq ahead(z) /\ y \in ahead(z) /\ y \notin ahead(y)
  <2>1. ~Better(y, y)
    BY DEF RankedList, Better
  <2>2. y # z
    BY <1>4, <2>1
  <2> QED  BY <1>4, <2>1, <2>2, BetterIsTotal
<1>5. Cardinality(T) >= k
  <2>1. IsWellFoundedOn(StrictSubsetOrdering(S), SUBSET S)
    BY FS_StrictSubsetOrderingWellFounded, FS_FiniteSubsetsOfFinite DEF RankedList
  <2>2. cut \subseteq SUBSET S /\ cut # {}
    OBVIOUS
  <2>3. PICK A \in cut : \A B \in cut : <<B, A>> \notin StrictSubsetOrdering(S)
    <3> HIDE DEF cut
    <3> QED  BY <2>1, <2>2, WFMin
  <2>4. PICK z \in S \ T : A = ahead(z)
    OBVIOUS
  <2>5. ASSUME NEW y \in ahead(z) PROVE y \in T
    <3>1. y \in S /\ Better(y, z)
      OBVIOUS
    <3>2. ahead(y) \subseteq ahead(z) /\ y \in ahead(z) /\ y \notin ahead(y)
      BY <1>4, <3>1
    <3>3. ahead(y) \in SUBSET S /\ ahead(z) \in SUBSET S
      OBVIOUS
    <3> HIDE DEF ahead, T
    <3>4. <<ahead(y), A>> \in StrictSubsetOrdering(S)
      BY <2>4, <3>2, <3>3 DEF StrictSubsetOrdering
    <3> QED  BY <2>3, <3>1, <3>4
  <2> HIDE DEF ahead, T, cut
  <2>6. Cardinality(ahead(z)) <= Cardinality(T)
    BY <1>3, <2>5, FS_Subset
  <2>7. Cardinality(ahead(z)) >= k
    BY <1>1, <1>2
  <2> QED  BY <1>1, <1>3, <2>6, <2>7
<1>6. ASSUME NEW y \in T PROVE y.score >= x.score
  <2>1. y \in S /\ y # x /\ Cardinality(ahead(y)) < k /\ ~(Cardinality(ahead(x)) < k)
    BY <1>2, <1>3
  <2>2. ~Better(x, y)
    <3> SUFFICES ASSUME Better(x, y) PROVE FALSE
      OBVIOUS
    <3>1. ahead(x) \subseteq ahead(y)
      BY <1>4, <2>1
    <3> HIDE DEF ahead
    <3>2. Cardinality(ahead(x)) <= Cardinality(ahead(y))
      BY <1>1, <2>1, <3>1, FS_Subset
    <3> QED  BY <1>1, <2>1, <3>2
  <2>3. Better(y, x)
    BY <2>1, <2>2, BetterIsTotal
  <2> QED  BY <2>1, <2>3 DEF Better, RankedList
<1> QED  BY <1>3, <1>5, <1>6

\* A cut that keeps anybody at all empties no list.
LEMMA CutKeepsSome ==
  ASSUME NEW S, RankedList(S), NEW k \in Nat \ {0}, S # {}
  PROVE  TopK(S, k) # {}
<1> SUFFICES ASSUME TopK(S, k) = {} PROVE FALSE
  OBVIOUS
<1>1. PICK x \in S : x \notin TopK(S, k)
  OBVIOUS
<1>2. Cardinality(TopK(S, k)) = k
  BY <1>1, CutIsFull
<1> QED  BY <1>2, FS_EmptySet

\* A ranked list has a best score.
LEMMA BestExists ==
  ASSUME NEW S, RankedList(S), S # {}
  PROVE  \E x \in S : \A y \in S : y.score <= x.score
<1> DEFINE above(x) == {y \in S : y.score > x.score}
           T == {above(x) : x \in S}
<1>1. \A x \in S : x.score \in Int
  BY DEF RankedList
<1>2. IsWellFoundedOn(StrictSubsetOrdering(S), SUBSET S)
  BY FS_StrictSubsetOrderingWellFounded, FS_FiniteSubsetsOfFinite DEF RankedList
<1>3. T \subseteq SUBSET S /\ T # {}
  OBVIOUS
<1>4. PICK A \in T : \A B \in T : <<B, A>> \notin StrictSubsetOrdering(S)
  <2> HIDE DEF T
  <2> QED  BY <1>2, <1>3, WFMin
<1>5. PICK x \in S : A = above(x)
  OBVIOUS
<1>6. ASSUME NEW y \in S, y.score > x.score PROVE FALSE
  <2>1. above(y) \subseteq above(x) /\ y \in above(x) /\ y \notin above(y)
    BY <1>1, <1>6
  <2>2. <<above(y), above(x)>> \in StrictSubsetOrdering(S)
    <3>1. above(y) \in SUBSET S /\ above(x) \in SUBSET S
      OBVIOUS
    <3> HIDE DEF above
    <3> QED  BY <2>1, <3>1 DEF StrictSubsetOrdering
  <2> QED  BY <1>4, <1>5, <2>2
<1> QED  BY <1>1, <1>6

\* The best score of a ranked list is an integer.
LEMMA BestScoreInt == \A S : RankedList(S) => BestScore(S) \in Int
<1> SUFFICES ASSUME NEW S, RankedList(S) PROVE BestScore(S) \in Int
  OBVIOUS
<1>1. CASE \E h \in S : h.score > 0
  <2> DEFINE best == CHOOSE h \in S : \A g \in S : g.score <= h.score
  <2>1. \E h \in S : \A g \in S : g.score <= h.score
    BY <1>1, BestExists
  <2>2. best \in S
    BY <2>1
  <2>3. BestScore(S) = best.score
    BY <1>1 DEF BestScore
  <2> HIDE DEF best
  <2> QED  BY <2>2, <2>3 DEF RankedList
<1>2. CASE ~ \E h \in S : h.score > 0
  BY <1>2 DEF BestScore
<1> QED  BY <1>1, <1>2

\* Merging two ranked lists makes a ranked list.
LEMMA MergeRanked ==
  ASSUME NEW bm, RankedList(bm), NEW fi, NEW require \in BOOLEAN,
         Ids(bm) \subseteq Company, Ids(fi) \subseteq Company
  PROVE  RankedList(Merge(bm, fi, require))
<1> DEFINE pool == IF require THEN Ids(fi) ELSE Ids(bm)
           best == BestScore(bm)
           sum(c) == Lexical(bm, c) * WBm25
                     + (IF c \in Ids(fi) THEN best * WFilters ELSE 0)
           f == [c \in pool |-> [id |-> c, bm25_score |-> Lexical(bm, c),
                   score |-> IF sum(c) > best * Unit THEN best * Unit ELSE sum(c)]]
<1>1. best \in Int
  BY BestScoreInt
<1>2. \A c : Lexical(bm, c) \in Int
  <2> SUFFICES ASSUME NEW c, c \in Ids(bm) PROVE (CHOOSE h \in bm : h.id = c).score \in Int
    BY DEF Lexical
  <2>1. \E h \in bm : h.id = c
    BY DEF Ids
  <2>2. (CHOOSE h \in bm : h.id = c) \in bm
    BY <2>1
  <2> QED  BY <2>2 DEF RankedList
<1>3. WBm25 \in Int /\ WFilters \in Int /\ Unit \in Int
  BY WeightAssumption
<1>4. \A c : sum(c) \in Int
  <2> SUFFICES ASSUME NEW c PROVE sum(c) \in Int
    OBVIOUS
  <2>1. Lexical(bm, c) * WBm25 \in Int /\ best * WFilters \in Int
    <3> HIDE DEF best
    <3> QED  BY <1>1, <1>2, <1>3
  <2> HIDE DEF best
  <2> QED  BY <2>1
<1>5. best * Unit \in Int
  <2> HIDE DEF best
  <2> QED  BY <1>1, <1>3
<1> HIDE DEF best, sum
<1>6. \A c \in pool : f[c].id = c /\ f[c].score \in Int
  BY <1>4, <1>5
<1>7. Merge(bm, fi, require) = HitsOf(f, pool)
  BY DEF Merge, sum, best, HitsOf
<1>8. pool \subseteq Company
  OBVIOUS
<1> HIDE DEF f, pool
<1>9. RankedList(HitsOf(f, pool))
  BY <1>6, <1>8, RankedHits
<1> QED  BY <1>7, <1>9

\* The lexical order of a pool of companies is a ranked list.
LEMMA RankEligibleRanked ==
  ASSUME NEW query, query \subseteq Term, NEW ids, ids \subseteq Company, NEW k
  PROVE  RankedList(RankEligible(query, ids, k))
<1> DEFINE T == Tokens(query)
           pool == ids \cap Indexed
           f == [c \in pool |-> [id |-> c, score |-> NonNegative(BM25[c][T])]]
           hits == HitsOf(f, pool)
<1>1. T \in SUBSET Term
  BY DEF Tokens
<1>2. pool \subseteq Company /\ \A c \in pool : BM25[c][T] \in Int
  <2> HIDE DEF T
  <2> QED  BY <1>1, IndexAssumption
<1>3. \A c \in pool : f[c].id = c /\ f[c].score \in Int
  <2> HIDE DEF T, pool
  <2> QED  BY <1>2 DEF NonNegative
<1>4. RankEligible(query, ids, k) \subseteq hits
  BY TopKSubset DEF RankEligible, HitsOf
<1> HIDE DEF f, pool, T
<1>5. RankedList(hits)
  BY <1>2, <1>3, RankedHits
<1> HIDE DEF hits
<1> QED  BY <1>4, <1>5, RankedPart

\* The lexical order of a pool is no longer than the cut, and a pool no larger than the
\* cut is ranked whole, companies without a match included.
LEMMA RankEligibleCut ==
  ASSUME NEW query, query \subseteq Term, NEW ids, ids \subseteq Company, NEW k \in 1 .. 100
  PROVE  /\ Cardinality(RankEligible(query, ids, k)) <= k
         /\ Tokens(query) # {} /\ Cardinality(ids) <= k =>
              Ids(RankEligible(query, ids, k)) = ids \cap Indexed
<1> DEFINE T == Tokens(query)
           pool == ids \cap Indexed
           f == [c \in pool |-> [id |-> c, score |-> NonNegative(BM25[c][T])]]
           hits == HitsOf(f, pool)
<1>1. T \in SUBSET Term
  BY DEF Tokens
<1>2. pool \subseteq Company /\ \A c \in pool : BM25[c][T] \in Int
  <2> HIDE DEF T
  <2> QED  BY <1>1, IndexAssumption
<1>3. \A c \in pool : f[c].id = c /\ f[c].score \in Int
  <2> HIDE DEF T, pool
  <2> QED  BY <1>2 DEF NonNegative
<1>4. hits = {[id |-> c, score |-> NonNegative(BM25[c][T])] : c \in pool}
  BY DEF HitsOf
<1>5. Clamp(k) = k
  BY DEF Clamp
<1>6. RankEligible(query, ids, k) = IF T = {} THEN {} ELSE TopK(hits, k)
  BY <1>4, <1>5 DEF RankEligible
<1>7. RankedList(hits)
  <2> HIDE DEF f, pool, T
  <2> QED  BY <1>2, <1>3, RankedHits
<1>8. Ids(hits) = pool
  <2> HIDE DEF f, pool, T
  <2> QED  BY <1>3 DEF Ids, HitsOf
<1>9. Cardinality(hits) = Cardinality(pool)
  <2> HIDE DEF hits
  <2> QED  BY <1>7, <1>8, IdsCount
<1>10. Cardinality(pool) <= Cardinality(ids) /\ Cardinality(ids) \in Nat /\ Cardinality(pool) \in Nat
  BY CompanyAssumption, FS_Subset, FS_CardinalityType
<1> HIDE DEF T, pool, hits
<1>11. Cardinality(RankEligible(query, ids, k)) <= k
  <2>1. CASE T = {}
    BY <1>6, <2>1, FS_EmptySet
  <2>2. CASE T # {}
    <3>1. k \in Nat /\ RankEligible(query, ids, k) = TopK(hits, k)
      BY <1>6, <2>2
    <3> QED  BY <1>7, <3>1, TopKBound
  <2> QED  BY <2>1, <2>2
<1>12. ASSUME T # {}, Cardinality(ids) <= k
       PROVE  Ids(RankEligible(query, ids, k)) = ids \cap Indexed
  <2>1. k \in Nat /\ Cardinality(hits) <= k
    BY <1>9, <1>10, <1>12
  <2>2. RankEligible(query, ids, k) = hits
    BY <1>6, <1>7, <1>12, <2>1, ShortListKept
  <2> QED  BY <1>8, <2>2 DEF pool
<1> QED  BY <1>11, <1>12 DEF T

\* What a retrieval finds is ranked: each company once, with one score.
LEMMA RetrieveRanked ==
  ASSUME NEW m, m.keywords \subseteq Term, m.requirements \subseteq Term,
         NEW useBm25, NEW rows, DOMAIN rows \subseteq Company, NEW k
  PROVE  RankedList(Retrieve(m, useBm25, rows, k))
<1> DEFINE hard == HasStructuredFilters(m.filters)
           query == IF useBm25 THEN RetrievalQuery(m) ELSE {}
           T == Tokens(query)
           ids == EligibleIds(rows, m.filters)
           ranked == RankEligible(query, ids, k)
           positive == {h \in ranked : h.score > 0}
           listed == FilterSearch(rows, m.filters, k)
           found == Bm25Search(query, k)
<1>1. T \in SUBSET Term
  BY DEF RetrievalQuery, SemanticCriteria, Tokens
<1>2. ids \subseteq Company
  BY DEF EligibleIds
<1>3. \A c \in Indexed : BM25[c][T] \in Int /\ c \in Company
  <2> HIDE DEF T
  <2> QED  BY <1>1, IndexAssumption
<1>4. RankedList(ranked) /\ Ids(ranked) \subseteq Company
  <2>1. query \subseteq Term
    BY DEF RetrievalQuery, SemanticCriteria
  <2>2. Ids(ranked) \subseteq ids
    BY RankEligibleIds
  <2> HIDE DEF query, ids
  <2>3. RankedList(ranked)
    BY <1>2, <2>1, RankEligibleRanked
  <2> HIDE DEF ranked
  <2> QED  BY <1>2, <2>2, <2>3
<1>5. RankedList(positive) /\ Ids(positive) \subseteq Company
  <2> HIDE DEF ranked
  <2>1. positive \subseteq ranked
    OBVIOUS
  <2> HIDE DEF positive
  <2> QED  BY <1>4, <2>1, RankedPart, IdsMonotone
<1>6. Ids(listed) \subseteq Company
  <2> HIDE DEF ids, listed
  <2> QED  BY <1>2, FilterSearchIds DEF ids, listed
<1>7. RankedList(found) /\ Ids(found) \subseteq Company
  <2> DEFINE f == [c \in Indexed |-> [id |-> c, score |-> BM25[c][T]]]
  <2>1. \A c \in Indexed : f[c].id = c /\ f[c].score \in Int
    <3> HIDE DEF T
    <3> QED  BY <1>3
  <2>2. RankedList(HitsOf(f, Indexed))
    <3>1. Indexed \subseteq Company
      BY IndexAssumption
    <3> HIDE DEF f
    <3> QED  BY <2>1, <3>1, RankedHits
  <2>3. found \subseteq HitsOf(f, Indexed)
    BY DEF Bm25Search, HitsOf
  <2>4. Ids(found) \subseteq Indexed
    BY Bm25SearchIds
  <2> HIDE DEF f, T, found
  <2> QED  BY <1>3, <2>2, <2>3, <2>4, RankedPart
<1>8. RankedList({}) /\ Ids({}) = {}
  BY FS_EmptySet DEF RankedList, Ids
<1>9. hard \in BOOLEAN
  BY DEF HasStructuredFilters
<1>10. \/ Retrieve(m, useBm25, rows, k) = Merge(positive, ranked, TRUE)
       \/ Retrieve(m, useBm25, rows, k) = Merge({}, listed, TRUE)
       \/ Retrieve(m, useBm25, rows, k) = Merge(found, {}, FALSE)
  BY <1>9 DEF Retrieve
<1> HIDE DEF ranked, positive, listed, found
<1>11. RankedList(Merge(positive, ranked, TRUE))
  BY <1>4, <1>5, MergeRanked
<1>12. RankedList(Merge({}, listed, TRUE))
  BY <1>6, <1>8, MergeRanked
<1>13. RankedList(Merge(found, {}, FALSE))
  BY <1>7, <1>8, MergeRanked
<1> QED  BY <1>10, <1>11, <1>12, <1>13

\* A hit that the merge drops for its score counts as much as one it keeps: nothing.
LEMMA LexicalScore ==
  ASSUME NEW S, RankedList(S), NEW h \in S, h.score >= 0
  PROVE  Lexical({x \in S : x.score > 0}, h.id) = h.score
<1> DEFINE positive == {x \in S : x.score > 0}
<1>1. h.score \in Int /\ \A x \in positive : x \in S /\ x.score > 0 /\ (x.id = h.id => x = h)
  BY DEF RankedList
<1>2. CASE h.score > 0
  <2>1. h \in positive
    BY <1>2
  <2> HIDE DEF positive
  <2>2. h.id \in Ids(positive)
    BY <2>1 DEF Ids
  <2>3. (CHOOSE x \in positive : x.id = h.id) = h
    BY <1>1, <2>1
  <2>4. Lexical(positive, h.id) = h.score
    BY <2>2, <2>3 DEF Lexical
  <2> QED  BY <2>4 DEF positive
<1>3. CASE h.score = 0
  <2>1. h.id \notin Ids(positive)
    BY <1>1, <1>3 DEF Ids
  <2> QED  BY <1>3, <2>1 DEF Lexical
<1> QED  BY <1>1, <1>2, <1>3

\* With hard filters and a query the index can read, the pool is the best of the
\* eligible rows of the index: who is missing finds it full of rows that match no worse.
LEMMA PoolIsBest ==
  ASSUME NEW m, m.keywords \subseteq Term, m.requirements \subseteq Term,
         NEW rows, DOMAIN rows \subseteq Company, NEW k \in 1 .. 100,
         HasStructuredFilters(m.filters), Tokens(RetrievalQuery(m)) # {}
  PROVE  LET T == Tokens(RetrievalQuery(m))
             pool == Retrieve(m, TRUE, rows, k)
         IN  /\ RankedList(pool) /\ Cardinality(pool) <= k
             /\ \A c \in (EligibleIds(rows, m.filters) \cap Indexed) \ Ids(pool) :
                  /\ Cardinality(pool) = k
                  /\ \A cand \in pool : cand.bm25_score >= NonNegative(BM25[c][T])
<1> DEFINE query == RetrievalQuery(m)
           T == Tokens(query)
           ids == EligibleIds(rows, m.filters)
           f == [c \in ids \cap Indexed |-> [id |-> c, score |-> NonNegative(BM25[c][T])]]
           hits == {f[c] : c \in ids \cap Indexed}
           ranked == RankEligible(query, ids, k)
           positive == {h \in ranked : h.score > 0}
           pool == Retrieve(m, TRUE, rows, k)
<1>1. query \subseteq Term /\ query # {} /\ T \subseteq Term /\ T # {}
  BY DEF RetrievalQuery, SemanticCriteria, Tokens
<1>2. ids \subseteq Company
  BY DEF EligibleIds
<1>3. pool = Merge(positive, ranked, TRUE)
  BY <1>1 DEF Retrieve
<1>4. Clamp(k) = k /\ k \in Nat
  BY DEF Clamp
<1>5. ranked = TopK(hits, k)
  <2>1. hits = {[id |-> c, score |-> NonNegative(BM25[c][T])] : c \in ids \cap Indexed}
    OBVIOUS
  <2> QED  BY <1>1, <1>4, <2>1 DEF RankEligible
<1>6. RankedList(pool)
  BY RetrieveRanked
<1> HIDE DEF query, ids, pool
<1>7. \A c \in ids \cap Indexed : f[c].id = c /\ f[c].score \in Int /\ f[c].score >= 0
                                  /\ f[c].score = NonNegative(BM25[c][T])
  <2>1. \A c \in ids \cap Indexed : BM25[c][T] \in Int
    <3> HIDE DEF T
    <3> QED  BY <1>1, IndexAssumption
  <2> HIDE DEF T
  <2> QED  BY <2>1 DEF NonNegative
<1>8. RankedList(hits) /\ \A h \in hits : h.score >= 0
  <2> DEFINE some == ids \cap Indexed
  <2>1. some \subseteq Company
    BY <1>2
  <2>2. \A c \in some : f[c].id = c /\ f[c].score \in Int /\ f[c].score >= 0
    BY <1>7
  <2> HIDE DEF f, some
  <2>3. RankedList(HitsOf(f, some))
    BY <2>1, <2>2, RankedHits
  <2>4. \A h \in HitsOf(f, some) : h.score >= 0
    BY <2>2 DEF HitsOf
  <2> QED  BY <2>3, <2>4 DEF some, HitsOf
<1>9. ranked \subseteq hits /\ RankedList(ranked) /\ Cardinality(ranked) <= k
  <2> HIDE DEF hits, ranked
  <2> QED  BY <1>4, <1>5, <1>8, TopKSubset, RankedPart, TopKBound
<1>10. Ids(pool) = Ids(ranked)
  <2> HIDE DEF ranked, positive
  <2> QED  BY <1>3, MergeIds
<1>11. Cardinality(pool) = Cardinality(ranked)
  <2> HIDE DEF ranked
  <2> QED  BY <1>6, <1>9, <1>10, IdsCount
<1>12. ASSUME NEW cand \in pool
       PROVE  \E h \in ranked : cand.bm25_score = h.score
  <2>1. cand.id \in Ids(ranked) /\ cand.bm25_score = Lexical(positive, cand.id)
    <3> HIDE DEF ranked, positive
    <3> QED  BY <1>3 DEF Merge
  <2> HIDE DEF ranked, hits
  <2>2. PICK h \in ranked : h.id = cand.id
    BY <2>1 DEF Ids
  <2>3. h.score >= 0
    BY <1>8, <1>9
  <2>4. Lexical(positive, h.id) = h.score
    BY <1>9, <2>3, LexicalScore
  <2> QED  BY <2>1, <2>2, <2>4
<1>13. ASSUME NEW c \in (ids \cap Indexed) \ Ids(pool)
       PROVE  /\ Cardinality(pool) = k
              /\ \A cand \in pool : cand.bm25_score >= NonNegative(BM25[c][T])
  <2>1. f[c] \in hits /\ f[c].id = c /\ f[c].score = NonNegative(BM25[c][T])
    BY <1>7
  <2> HIDE DEF f, hits, ranked, T
  <2>2. f[c] \notin ranked
    BY <1>10, <1>13, <2>1 DEF Ids
  <2>3. Cardinality(ranked) = k /\ \A h \in ranked : h.score >= f[c].score
    BY <1>4, <1>5, <1>8, <2>1, <2>2, CutIsFull
  <2> QED  BY <1>11, <1>12, <2>1, <2>3
<1> QED  BY <1>6, <1>9, <1>11, <1>13 DEF query, ids, pool

\* Where rows satisfy the filters, a search that does not ask the index finds some.
LEMMA FiltersFindSome ==
  ASSUME NEW m, NEW useBm25 \in BOOLEAN, NEW rows, DOMAIN rows \subseteq Company, NEW k \in 1 .. 100,
         HasStructuredFilters(m.filters), RetrievalQuery(m) = {}, EligibleIds(rows, m.filters) # {}
  PROVE  Retrieve(m, useBm25, rows, k) # {}
<1> DEFINE ids == EligibleIds(rows, m.filters)
           f == [c \in ids |-> [id |-> c, score |-> 1]]
           list == HitsOf(f, ids)
           listed == FilterSearch(rows, m.filters, k)
<1>1. Retrieve(m, useBm25, rows, k) = Merge({}, listed, TRUE)
  BY DEF Retrieve
<1>2. Clamp(k) = k /\ k \in Nat \ {0}
  BY DEF Clamp
<1>3. listed = TopK(list, k)
  <2>1. list = {[id |-> c, score |-> 1] : c \in ids}
    BY DEF HitsOf
  <2> QED  BY <1>2, <2>1 DEF FilterSearch
<1>4. RankedList(list) /\ list # {}
  <2>1. ids \subseteq Company
    BY DEF EligibleIds
  <2>2. \A c \in ids : f[c].id = c /\ f[c].score \in Int
    OBVIOUS
  <2>3. list # {}
    BY DEF HitsOf
  <2> HIDE DEF f, ids
  <2> QED  BY <2>1, <2>2, <2>3, RankedHits
<1> HIDE DEF list, listed
<1>5. listed # {}
  BY <1>2, <1>3, <1>4, CutKeepsSome
<1>6. Ids(listed) # {}
  BY <1>5 DEF Ids
<1>7. Merge({}, listed, TRUE) # {}
  <2> DEFINE none == {}
  <2> HIDE DEF none
  <2>1. Merge(none, listed, TRUE) # {}
    BY <1>6 DEF Merge
  <2> QED  BY <2>1 DEF none
<1> QED  BY <1>1, <1>7

-----------------------------------------------------------------------------
(* The hard filters are written twice, as SQL and as Python.               *)

BoundType == Int \cup {NoBound}

\* The WHERE clauses of the catalogue query select exactly the rows that the
\* policy accepts when the record is fetched later, for every filter and table
\* with integer columns: between the two only a changed row can make a
\* difference.
THEOREM MaskAgreesWithPolicy ==
  ASSUME NEW rows, NEW f,
         \A c \in DOMAIN rows : rows[c].employee_count \in Int /\ rows[c].founded_year \in Int,
         f.employee_min \in BoundType, f.employee_max \in BoundType,
         f.founded_after \in BoundType, f.founded_before \in BoundType
  PROVE  EligibleIds(rows, f) = {c \in DOMAIN rows : Matches(f, rows[c])}
<1> SUFFICES ASSUME NEW c \in DOMAIN rows
             PROVE  c \in EligibleIds(rows, f) <=> Matches(f, rows[c])
  BY DEF EligibleIds
<1>1. /\ f.employee_min # NoBound =>
              (rows[c].employee_count >= f.employee_min <=> ~(rows[c].employee_count < f.employee_min))
      /\ f.employee_max # NoBound =>
              (rows[c].employee_count <= f.employee_max <=> ~(rows[c].employee_count > f.employee_max))
      /\ f.founded_after # NoBound =>
              (rows[c].founded_year >= f.founded_after <=> ~(rows[c].founded_year < f.founded_after))
      /\ f.founded_before # NoBound =>
              (rows[c].founded_year <= f.founded_before <=> ~(rows[c].founded_year > f.founded_before))
  BY DEF BoundType
<1> QED  BY <1>1, Zenon DEF EligibleIds, Matches

=============================================================================
