----------------------- MODULE MandateSanitizerProofs -----------------------
(* For every vocabulary, synonym table and query: what a query states is in *)
(* every mandate made of it, and the deterministic parser keeps the promise *)
(* the workflow relies on.                                                  *)
EXTENDS MandateSanitizer, TLAPS

\* What is stated has the type of a filter.
LEMMA ExplicitType == \A q \in QueryType : Explicit(q) \in FilterType
BY VocabularyAssumption
DEF Explicit, FilterType, QueryType, ExplicitLocations, FirstBucket, Bound, Number

\* Normalisation leaves values of the vocabularies only.
LEMMA NormalizedType == \A p \in ProposalType : Normalized(p.filters) \in FilterType
<1> SUFFICES ASSUME NEW p \in ProposalType PROVE Normalized(p.filters) \in FilterType
  OBVIOUS
<1> DEFINE f == p.filters
<1>1. /\ f.industries \subseteq Token /\ f.locations \subseteq Token
      /\ f.revenue_buckets \subseteq Token
      /\ f.employee_min \in Bound /\ f.employee_max \in Bound
      /\ f.founded_after \in Bound /\ f.founded_before \in Bound
  BY DEF ProposalType
<1>2. /\ UNION {IndustryOf[t] : t \in f.industries} \subseteq Industry
      /\ UNION {PlacesOf[t] : t \in f.locations} \subseteq Location
      /\ UNION {BucketOf[t] : t \in f.revenue_buckets} \subseteq Bucket
  BY <1>1, VocabularyAssumption
<1>3. \A I \in SUBSET Industry, L \in SUBSET Location, B \in SUBSET Bucket :
        [f EXCEPT !.industries = I, !.locations = L, !.revenue_buckets = B] \in FilterType
  BY <1>1 DEF ProposalType, FilterType
<1> QED  BY <1>2, <1>3 DEF Normalized

\* Overriding field by field stays in the type.
LEMMA OverriddenType ==
  ASSUME NEW f \in FilterType, NEW q \in QueryType
  PROVE  Overridden(f, q) \in FilterType
<1> DEFINE o == Overridden(f, q)
           pick(field) == IF States(q, field) THEN Explicit(q)[field] ELSE f[field]
<1>1. Explicit(q) \in FilterType
  BY ExplicitType
<1>2. o = [industries |-> pick("industries"), locations |-> pick("locations"),
           revenue_buckets |-> pick("revenue_buckets"),
           employee_min |-> pick("employee_min"), employee_max |-> pick("employee_max"),
           founded_after |-> pick("founded_after"), founded_before |-> pick("founded_before")]
  BY DEF Overridden, Field, ListField
<1>3. /\ pick("industries") \in SUBSET Industry /\ pick("locations") \in SUBSET Location
      /\ pick("revenue_buckets") \in SUBSET Bucket
      /\ pick("employee_min") \in Bound /\ pick("employee_max") \in Bound
      /\ pick("founded_after") \in Bound /\ pick("founded_before") \in Bound
  BY <1>1 DEF FilterType
<1> HIDE DEF o, pick
<1> QED  BY <1>2, <1>3 DEF FilterType, o

\* What is made of a proposal is a mandate ...
LEMMA SanitizeType ==
  ASSUME NEW p \in ProposalType, NEW q \in QueryType
  PROVE  Sanitize(p, q) \in MandateType
<1>1. Overridden(Normalized(p.filters), q) \in FilterType
  BY NormalizedType, OverriddenType
<1>2. p.keywords \subseteq Term /\ q.phrases \subseteq Term /\ p.requirements \subseteq Term
  BY DEF ProposalType, QueryType
<1> QED  BY <1>1, <1>2 DEF Sanitize, MandateType

\* ... and so is what is made of the query alone.
LEMMA FallbackType == \A q \in QueryType : Fallback(q) \in MandateType
<1> SUFFICES ASSUME NEW q \in QueryType PROVE Fallback(q) \in MandateType
  OBVIOUS
<1>1. Explicit(q) \in FilterType /\ q.phrases \subseteq Term /\ q.text \in Term
  BY ExplicitType DEF QueryType
<1> QED  BY <1>1 DEF Fallback, MandateType

-----------------------------------------------------------------------------
(* The two nodes.                                                          *)

\* The inductive invariant holds at first ...
LEMMA InitState == Init => IInv
BY DEF Init, IInv, TypeOK, Shape

\* ... and after every step of the two nodes.
LEMMA StateStep == IInv /\ [Next]_vars => IInv'
<1> SUFFICES ASSUME IInv, [Next]_vars PROVE IInv'
  OBVIOUS
<1> USE DEF IInv, TypeOK, Shape
<1>1. query \in QueryType
  BY QueryAssumption
<1>2. CASE ParseMandate
  BY <1>1, <1>2, SanitizeType, QueryAssumption, NoMandateAssumption DEF ParseMandate
<1>3. CASE ParseFails
  BY <1>1, <1>3, FallbackType, NoMandateAssumption DEF ParseFails
<1>4. CASE ReviseSearch
  <2>1. mandate \in MandateType /\ original \in MandateType
    BY <1>4 DEF ReviseSearch
  <2>2. \A p \in Proposals : ProposedKeywords(p) \subseteq Term
    BY <1>1, SanitizeType, QueryAssumption DEF ProposedKeywords, MandateType
  <2>3. \A p \in Proposals : /\ Revised(p) \in MandateType
                             /\ Revised(p).filters = mandate.filters
                             /\ Revised(p).requirements = mandate.requirements
    BY <2>1, <2>2 DEF MandateType, Revised
  <2> QED  BY <1>4, <2>1, <2>3 DEF ReviseSearch
<1>5. CASE Settled \/ UNCHANGED vars
  BY <1>5 DEF Settled, vars
<1> QED  BY <1>2, <1>3, <1>4, <1>5 DEF Next

\* A mandate and its original differ in keywords only, and both are well formed.
THEOREM InvariantHolds == Spec => []IInv
BY InitState, StateStep, PTL DEF Spec

\* Only values of the closed vocabularies are left in a mandate, whatever the LLM
\* wrote into it (sanitize_mandate, fallback_mandate and the revision node).
THEOREM TypeCorrect == Spec => []TypeOK
BY InitState, StateStep, PTL DEF Spec, IInv

\* What the query states is in every mandate made of it, with or without the LLM,
\* before and after a revision.
THEOREM PrecedenceHolds == Spec => []DegradedAgrees
<1>1. Init => DegradedAgrees
  BY DEF Init, DegradedAgrees
<1>2. IInv /\ DegradedAgrees /\ [Next]_vars => DegradedAgrees'
  <2> SUFFICES ASSUME IInv, DegradedAgrees, [Next]_vars,
                      NEW field \in Field, mandate' # NoMandate, States(query', field)
               PROVE  /\ mandate'.filters[field] = Fallback(query').filters[field]
                      /\ original'.filters[field] = Fallback(query').filters[field]
    BY DEF DegradedAgrees
  <2>1. query' = query /\ Fallback(query).filters = Explicit(query)
    BY DEF Next, ParseMandate, ParseFails, ReviseSearch, Settled, vars, Fallback
  <2>2. CASE ParseMandate
    <3>1. PICK p \in Proposals : mandate' = Sanitize(p, query)
      BY <2>2 DEF ParseMandate
    <3>2. mandate'.filters = Overridden(Normalized(p.filters), query)
      BY <3>1 DEF Sanitize
    <3>3. mandate'.filters[field] = Explicit(query)[field]
      BY <2>1, <3>2 DEF Overridden
    <3> QED  BY <2>1, <2>2, <3>3 DEF ParseMandate
  <2>3. CASE ParseFails
    BY <2>1, <2>3 DEF ParseFails
  <2>4. CASE ReviseSearch
    <3>1. mandate # NoMandate /\ original' = original
      BY <2>4, NoMandateAssumption DEF ReviseSearch, IInv, Shape
    <3>2. mandate'.filters = mandate.filters
      BY <2>4, StateStep, <3>1 DEF ReviseSearch, IInv, Shape
    <3> QED  BY <2>1, <3>1, <3>2 DEF DegradedAgrees
  <2>5. CASE Settled \/ UNCHANGED vars
    BY <2>1, <2>5 DEF Settled, vars, DegradedAgrees
  <2> QED  BY <2>2, <2>3, <2>4, <2>5 DEF Next
<1> QED  BY <1>1, <1>2, InitState, StateStep, PTL DEF Spec

\* The assumption AgentWorkflow makes of the deterministic parser holds for every
\* query: a requirement is always there, and a blank one comes without filters.
THEOREM FallbackMeetsAssumption ==
  \A q \in Query :
    LET m == Fallback(q) IN
      /\ m.requirements # {}
      /\ m.requirements \subseteq Blank => m.keywords = {} /\ ~HasStructuredFilters(m.filters)
<1> SUFFICES ASSUME NEW q \in Query
             PROVE  /\ Fallback(q).requirements = {q.text}
                    /\ q.text \in Blank => /\ Fallback(q).keywords = {}
                                           /\ ~HasStructuredFilters(Fallback(q).filters)
  OBVIOUS
<1>1. /\ Fallback(q).requirements = {q.text} /\ Fallback(q).keywords = q.phrases
      /\ Fallback(q).filters = Explicit(q)
  BY DEF Fallback
<1>2. ASSUME q.text \in Blank PROVE q.phrases = {} /\ ~HasStructuredFilters(Explicit(q))
  BY <1>2, QueryAssumption DEF HasStructuredFilters, Explicit, ExplicitLocations, FirstBucket
<1> QED  BY <1>1, <1>2

\* Acceptance by hard filters alone is out of reach of a fallback, also when its
\* search has been revised.
THEOREM FallbackGuarded == Spec => []FallbackIsGuarded
<1>1. IInv => FallbackIsGuarded
  <2> SUFFICES ASSUME IInv, mandate # NoMandate, original = Fallback(query),
                      SemanticCriteria(mandate) = {}
               PROVE  ~HasStructuredFilters(mandate.filters)
    BY DEF FallbackIsGuarded
  <2>1. mandate.filters = original.filters /\ mandate.requirements = original.requirements
    BY DEF IInv, Shape
  <2>2. original.requirements = {query.text}
    BY DEF Fallback
  <2>3. query.text \in Blank
    BY <2>1, <2>2 DEF SemanticCriteria
  <2> QED  BY <2>1, <2>2, <2>3, FallbackMeetsAssumption DEF IInv, TypeOK
<1> QED  BY <1>1, InitState, StateStep, PTL DEF Spec

\* No proposal and no revision loses a keyword phrase of the query.
THEOREM PhrasesKept == Spec => []PhrasesStaySearched
<1>1. Init => PhrasesStaySearched
  BY DEF Init, PhrasesStaySearched
<1>2. ASSUME NEW p \in Proposals, NEW q \in Query PROVE q.phrases \subseteq Sanitize(p, q).keywords
  <2> DEFINE cleaned == Overridden(Normalized(p.filters), q)
             named == {NameOf[i] : i \in cleaned.industries}
  <2>1. SUFFICES q.phrases \cap named = {}
    BY DEF Sanitize
  <2>2. cleaned \in FilterType
    BY NormalizedType, OverriddenType, QueryAssumption
  <2>3. cleaned.industries \subseteq Industry
    BY <2>2 DEF FilterType
  <2> HIDE DEF cleaned
  <2> QED  BY <2>3, QueryAssumption
<1>3. IInv /\ PhrasesStaySearched /\ [Next]_vars => PhrasesStaySearched'
  <2> SUFFICES ASSUME IInv, PhrasesStaySearched, [Next]_vars, mandate' # NoMandate
               PROVE  query'.phrases \subseteq mandate'.keywords
    BY DEF PhrasesStaySearched
  <2>1. query' = query /\ query \in Query
    BY DEF Next, ParseMandate, ParseFails, ReviseSearch, Settled, vars, IInv, TypeOK
  <2>2. CASE ParseMandate
    BY <1>2, <2>1, <2>2 DEF ParseMandate
  <2>3. CASE ParseFails
    BY <2>1, <2>3 DEF ParseFails, Fallback
  <2>4. CASE ReviseSearch
    <3>1. mandate \in MandateType /\ query.phrases \subseteq mandate.keywords
      BY <2>4, NoMandateAssumption DEF ReviseSearch, IInv, Shape, PhrasesStaySearched
    <3>2. \A p \in Proposals : query.phrases \subseteq Revised(p).keywords
      BY <1>2, <2>1, <3>1 DEF Revised, ProposedKeywords, MandateType
    <3> QED  BY <2>1, <2>4, <3>1, <3>2 DEF ReviseSearch
  <2>5. CASE Settled \/ UNCHANGED vars
    BY <2>1, <2>5 DEF Settled, vars, PhrasesStaySearched
  <2> QED  BY <2>2, <2>3, <2>4, <2>5 DEF Next
<1> QED  BY <1>1, <1>3, InitState, StateStep, PTL DEF Spec

-----------------------------------------------------------------------------
(* Sanitizing twice.                                                       *)

\* Values of the vocabularies are left as they are.
LEMMA NormalizedStable == \A f \in FilterType : Normalized(f) = f
<1> SUFFICES ASSUME NEW f \in FilterType PROVE Normalized(f) = f
  OBVIOUS
<1>1. f.industries \subseteq Industry /\ f.locations \subseteq Location /\ f.revenue_buckets \subseteq Bucket
  BY DEF FilterType
<1>2. UNION {IndustryOf[t] : t \in f.industries} = f.industries
  BY <1>1, VocabularyAssumption
<1>3. UNION {PlacesOf[t] : t \in f.locations} = f.locations
  BY <1>1, VocabularyAssumption
<1>4. UNION {BucketOf[t] : t \in f.revenue_buckets} = f.revenue_buckets
  BY <1>1, VocabularyAssumption
<1>5. [f EXCEPT !.industries = f.industries, !.locations = f.locations,
                !.revenue_buckets = f.revenue_buckets] = f
  BY DEF FilterType
<1> QED  BY <1>2, <1>3, <1>4, <1>5 DEF Normalized

\* What the query states replaces itself.
LEMMA OverriddenStable == \A f, q : Overridden(Overridden(f, q), q) = Overridden(f, q)
BY DEF Overridden

\* The sanitizer is idempotent for every query and every proposal.
LEMMA SanitizeIdempotent ==
  ASSUME NEW p \in ProposalType, NEW q \in QueryType
  PROVE  Sanitize(Sanitize(p, q), q) = Sanitize(p, q)
<1> DEFINE cleaned == Overridden(Normalized(p.filters), q)
           named == {NameOf[i] : i \in cleaned.industries}
           m == Sanitize(p, q)
<1>1. m = [filters |-> cleaned, keywords |-> (p.keywords \cup q.phrases) \ named,
           requirements |-> p.requirements]
  BY DEF Sanitize
<1>2. cleaned \in FilterType
  BY NormalizedType, OverriddenType
<1>3. Overridden(Normalized(m.filters), q) = cleaned
  BY <1>1, <1>2, NormalizedStable, OverriddenStable
<1>4. (m.keywords \cup q.phrases) \ named = (p.keywords \cup q.phrases) \ named
  BY <1>1
<1>5. Sanitize(m, q) = [filters |-> cleaned, keywords |-> (m.keywords \cup q.phrases) \ named,
                        requirements |-> m.requirements]
  <2> HIDE DEF m
  <2> QED  BY <1>3 DEF Sanitize
<1> QED  BY <1>1, <1>4, <1>5

\* A parsed mandate does not drift when it is proposed again.
THEOREM SanitizedStays == Spec => []SanitizedIsStable
<1>1. Init => SanitizedIsStable
  BY DEF Init, SanitizedIsStable
<1>2. IInv /\ SanitizedIsStable /\ [Next]_vars => SanitizedIsStable'
  <2> SUFFICES ASSUME IInv, SanitizedIsStable, [Next]_vars, step' = "parsed"
               PROVE  Sanitize(mandate', query') = mandate'
    BY DEF SanitizedIsStable
  <2>1. CASE ParseMandate
    BY <2>1, SanitizeIdempotent, QueryAssumption DEF ParseMandate, IInv, TypeOK
  <2>2. CASE ParseFails \/ ReviseSearch
    BY <2>2 DEF ParseFails, ReviseSearch
  <2>3. CASE Settled \/ UNCHANGED vars
    BY <2>3 DEF Settled, vars, SanitizedIsStable
  <2> QED  BY <2>1, <2>2, <2>3 DEF Next
<1> QED  BY <1>1, <1>2, InvariantHolds, PTL DEF Spec
=============================================================================
