------------------------- MODULE AgentWorkflowProofs -------------------------
(* Proofs about AgentWorkflow, for every value of its constants.            *)
EXTENDS AgentWorkflow, SearchPoliciesProofs

State == TypeOK /\ Progress

\* The run starts in a state of the right shape.
LEMMA InitState == Init => State
<1> SUFFICES ASSUME Init PROVE State
  OBVIOUS
<1> USE LimitsAssumption DEF Init
<1>1. IsFiniteSet(candidates) /\ IsFiniteSet(eligible)
  BY FS_EmptySet
<1>2. Ids(candidates) = {} /\ Ids(eligible) = {}
  BY DEF Ids
<1>3. log \in LogType
  BY DEF LogType, ValidationOutcome
<1>4. TypeOK
  <2>1. \A v \in validation \cup final : FALSE
    OBVIOUS
  <2>3. node \in {"start", "end", "done"} \cup GraphNode /\ at \in {"enter", "ready", "llm", "tool", "rank"}
    OBVIOUS
  <2>4. mandate \in MandateType \cup {None} /\ original \in MandateType \cup {None}
       /\ plan \in [use_bm25 : BOOLEAN, use_filters : BOOLEAN] \cup {None}
    OBVIOUS
  <2>5. IsFiniteSet(eligible) /\ verdict \in BatchType \cup {None} /\ \A r \in eligible : r.id \in Company /\ r.company \in Profile
    BY <1>1
  <2>6. Ids(candidates) \subseteq Company
     BY <1>2
  <2>7. attempt \in 0 .. 2 /\ toolCalls \in Nat
    OBVIOUS
  <2>9. errors \in BOOLEAN /\ revised \in BOOLEAN
    OBVIOUS
  <2>8. outcome \in {"running", "completed", "timeout", "failed", "cancelled"} /\ catalog \in Catalogs
       /\ selected \in Catalogs \cup {None}
    OBVIOUS
  <2>2. 0 \in 0 .. MaxIterations /\ 0 \in 0 .. budget /\ 0 \in 0 .. MaxReseeds
    OBVIOUS
  <2>10. iteration \in 0 .. MaxIterations /\ llmCalls \in 0 .. budget /\ reseeds \in 0 .. MaxReseeds
    BY <2>2
  <2> QED  BY <1>1, <1>3, <2>1, <2>3, <2>4, <2>5, <2>6, <2>7, <2>8, <2>9, <2>10 DEF TypeOK
<1>5. Progress
  BY NoneAssumption DEF Progress, LLMNode, GraphNode
<1> QED  BY <1>4, <1>5 DEF State

\* Judging gives one item per record, relevant if its id was accepted.
LEMMA JudgeItems ==
  ASSUME NEW rows, NEW accepted, NEW evidence, Judge(rows, accepted, evidence)
  PROVE  /\ node' = "finalize" /\ at' = "enter" /\ attempt' = 0
         /\ \A v \in validation' : \E r \in rows :
              /\ v.id = r.id /\ v.company = r.company
              /\ v.relevant \in BOOLEAN /\ v.relevant = (r.id \in accepted)
              /\ v.evidence = IF r.id \in accepted THEN evidence ELSE {}
<1> DEFINE item(r) == [id |-> r.id, company |-> r.company, score |-> r.score,
                       relevant |-> r.id \in accepted,
                       evidence |-> IF r.id \in accepted THEN evidence ELSE {}]
<1>1. validation' = {item(r) : r \in rows}
  BY DEF Judge
<1>2. \A r : /\ item(r).id = r.id /\ item(r).company = r.company
             /\ item(r).relevant = (r.id \in accepted)
             /\ item(r).evidence = IF r.id \in accepted THEN evidence ELSE {}
  OBVIOUS
<1>5. \A r : (r.id \in accepted) \in BOOLEAN
  OBVIOUS
<1> HIDE DEF item
<1>3. \A r : item(r).relevant \in BOOLEAN
  BY <1>2, <1>5, Zenon
<1>4. \A v \in validation' : \E r \in rows : v = item(r)
  BY <1>1
<1> QED  BY <1>2, <1>3, <1>4 DEF Judge, GoTo

\* The policy never reports evidence for a field it does not know.
LEMMA PolicyEvidenceFields == \A f : PolicyEvidence(f) \subseteq EvidenceField
BY DEF PolicyEvidence, EvidenceField

\* Items judged from typed records and known fields are typed.
LEMMA JudgedTypes ==
  ASSUME NEW rows, NEW accepted, NEW evidence, Judge(rows, accepted, evidence),
         \A r \in rows : r.id \in Company /\ r.company \in Profile,
         evidence \subseteq EvidenceField
  PROVE  \A v \in validation' : /\ v.id \in Company /\ v.company \in Profile
                                /\ v.relevant \in BOOLEAN /\ v.evidence \subseteq EvidenceField
<1>1. \A v \in validation' : \E r \in rows :
        /\ v.id = r.id /\ v.company = r.company /\ v.relevant \in BOOLEAN
        /\ v.evidence = evidence \/ v.evidence = {}
  BY JudgeItems
<1> QED  BY <1>1

\* Changing the keywords of a working mandate leaves it the original mandate up
\* to its keywords.
LEMMA RekeyedMandate ==
  ASSUME NEW o \in MandateType, NEW m \in MandateType, NEW K \in SUBSET Term,
         m = [o EXCEPT !.keywords = m.keywords]
  PROVE  LET n == [m EXCEPT !.keywords = K] IN
         n \in MandateType /\ n = [o EXCEPT !.keywords = n.keywords]
BY DEF MandateType

\* The records that pass the check after the fetch: rows of the table that
\* satisfy the hard filters of the original mandate.
LEMMA FetchedRecords ==
  ASSUME FetchRecords, TypeOK
  PROVE  /\ IsFiniteSet(eligible')
         /\ \A r \in eligible' :
              /\ r.id \in DOMAIN catalog /\ r.company = catalog[r.id]
              /\ Matches(original.filters, r.company)
              /\ r.id \in Company /\ r.company \in Profile
<1> DEFINE kept == {h \in ToValidate : StillEligible(h)}
           pair(hit) == [id |-> hit.id, company |-> catalog[hit.id], score |-> hit.score]
           f == [h \in kept |-> pair(h)]
<1>1. eligible' = {pair(h) : h \in kept}
  BY DEF FetchRecords, RecordOf
<1>2. IsFiniteSet(kept)
  <2>1. kept \subseteq candidates
    BY TopKSubset DEF ToValidate
  <2> QED  BY <2>1, FS_Subset DEF TypeOK
<1>3. \A h \in kept : h.id \in DOMAIN catalog /\ Matches(original.filters, catalog[h.id])
  BY DEF StillEligible
<1>4. \A h \in kept : /\ pair(h).id = h.id
                      /\ pair(h).company = catalog[h.id]
  OBVIOUS
<1> HIDE DEF kept, pair
<1>5. f \in Surjection(kept, {pair(h) : h \in kept})
  BY DEF Surjection
<1>6. IsFiniteSet(eligible')
  BY <1>1, <1>2, <1>5, FS_Surjection
<1>7. \A r \in eligible' : /\ r.id \in DOMAIN catalog /\ r.company = catalog[r.id]
                            /\ Matches(original.filters, r.company)
  BY <1>1, <1>3, <1>4
<1> QED  BY <1>6, <1>7, CatalogAssumption DEF TypeOK

\* A retrieval leaves a finite set of companies and moves the run on.
LEMMA RetrievedPool ==
  ASSUME TypeOK, NEW pool, IsFiniteSet(pool), Ids(pool) \subseteq Company, Retrieved(pool)
  PROVE  /\ candidates' \subseteq pool
         /\ IsFiniteSet(candidates') /\ Cardinality(candidates') \in Nat
         /\ Ids(candidates') \subseteq Company
         /\ iteration' = iteration + 1
         /\ \/ node' = "validate_candidates"
            \/ node' = "revise_search" /\ ~revised /\ iteration + 1 < MaxIterations
         /\ at' = "enter" /\ attempt' = 0
         /\ UNCHANGED <<mandate, original, plan, revised, eligible, verdict, validation, final>>
<1>1. candidates' \subseteq pool
  BY TopKSubset DEF Retrieved
<1>2. IsFiniteSet(candidates') /\ Cardinality(candidates') \in Nat
  BY <1>1, FS_Subset, FS_CardinalityType
<1>3. Ids(candidates') \subseteq Company
  BY <1>1, IdsMonotone
<1> QED  BY <1>1, <1>2, <1>3 DEF Retrieved, AfterRetrieve, GoTo

\* A batch about some companies and the criteria of a mandate is a batch.
LEMMA BatchTyped ==
  ASSUME NEW m \in MandateType, NEW rows, \A r \in rows : r.id \in Company,
         NEW b \in Batches(Ids(rows), SemanticCriteria(m))
  PROVE  b \in BatchType
<1>1. Ids(rows) \subseteq Company
  BY DEF Ids
<1>2. SemanticCriteria(m) \subseteq Term
  BY DEF SemanticCriteria, MandateType
<1> DEFINE ids == Ids(rows)
           criteria == SemanticCriteria(m)
<1>3. b.ids \subseteq Company /\ b.exact \in BOOLEAN /\ b.support \subseteq ids \X criteria
      /\ b = [ids |-> b.ids, exact |-> b.exact, support |-> b.support]
  BY <1>1 DEF Batches
<1> HIDE DEF ids, criteria
<1>4. ids \X criteria \subseteq Company \X Term
  BY <1>1, <1>2 DEF ids, criteria
<1> QED  BY <1>3, <1>4 DEF BatchType

\* Every step keeps the variables typed and the counters within their limits.
LEMMA StateStep == State /\ [Next]_vars => State'
<1> SUFFICES ASSUME State, [Next]_vars PROVE State'
  OBVIOUS
<1> USE LimitsAssumption DEF State, vars, graph, counters, ending, surroundings, LLMNode, GraphNode
<1>1. CASE Start
  BY <1>1 DEF Start, GoTo, TypeOK, Progress, MaxAttempts
<1>2. CASE StartFails
  BY <1>2 DEF StartFails, GoTo, TypeOK, Progress, MaxAttempts
<1>3. CASE ParseMandate
  BY <1>3 DEF ParseMandate, GoTo, TypeOK, Progress, MaxAttempts
<1>4. CASE ReserveCall
  BY <1>4 DEF ReserveCall, GoTo, TypeOK, Progress, MaxAttempts
<1>5. CASE Timeout \/ Cancel
  BY <1>5 DEF Timeout, Cancel, AtAwait, TypeOK, Progress, MaxAttempts
<1>6. CASE EndRun
  BY <1>6 DEF EndRun, TypeOK, Progress, MaxAttempts
<1>7. CASE Reseed
  BY <1>7 DEF Reseed, TypeOK, Progress, MaxAttempts
<1>8. CASE ReviseSearch
  BY <1>8 DEF ReviseSearch, GoTo, TypeOK, Progress, MaxAttempts
<1>9. CASE DatabaseFails
  BY <1>9 DEF DatabaseFails, Abort, TypeOK, Progress, MaxAttempts
<1>10. CASE PlanSearch
  BY <1>10 DEF PlanSearch, GoTo, HasStructuredFilters, TypeOK, Progress, MaxAttempts
<1>11. CASE InvokeTool
  BY <1>11 DEF InvokeTool, TypeOK, Progress, MaxAttempts
<1>tool. CASE QueryTable
  BY <1>tool DEF QueryTable, TypeOK, Progress, MaxAttempts
<1>12. CASE MalformedReply /\ at' = "ready"
  <2>1. ~Recover(AttemptLogged)
    BY <1>12 DEF MalformedReply, Recover, Understand, Rekey, Judge, GoTo
  <2>2. log' \in LogType
    BY <1>12, <2>1 DEF MalformedReply, AttemptLogged, TypeOK, LogType
  <2> QED  BY <1>12, <2>1, <2>2 DEF MalformedReply, TypeOK, Progress
<1>rekeyed. ASSUME NEW keywords \in SUBSET Term, Rekey(keywords), node = "revise_search",
              log' \in LogType, errors' \in BOOLEAN, UNCHANGED <<counters, ending, surroundings>>
       PROVE  State'
  <2>1. /\ mandate' \in MandateType
        /\ mandate' = [original EXCEPT !.keywords = mandate'.keywords]
    <3>1. original \in MandateType /\ mandate \in MandateType
          /\ mandate = [original EXCEPT !.keywords = mandate.keywords]
      BY <1>rekeyed, NoneAssumption DEF Progress
    <3> QED  BY <1>rekeyed, <3>1, RekeyedMandate DEF Rekey
  <2> QED  BY <1>rekeyed, <2>1, NoneAssumption DEF Rekey, GoTo, TypeOK, Progress, MaxAttempts
<1>recovered. ASSUME NEW lg \in LogType, Recover(lg), node \in LLMNode PROVE State'
  <2>1. CASE node = "parse_mandate"
    BY <1>recovered, <2>1, MandateAssumption DEF Recover, Understand, GoTo, TypeOK, Progress, MandateType, MaxAttempts
  <2>2. CASE node = "revise_search"
    <3>1. Rekey(mandate.keywords) /\ log' = [lg EXCEPT !.revise = @ + 1]
      BY <1>recovered, <2>2 DEF Recover
    <3>2. log' \in LogType
      BY <1>recovered, <3>1 DEF LogType
    <3>3. mandate.keywords \in SUBSET Term
      BY <2>2 DEF Progress, MandateType
    <3> QED  BY <1>recovered, <2>2, <3>1, <3>2, <3>3, <1>rekeyed DEF Recover
  <2>3. CASE node = "validate_candidates"
    <3>1. Judge(eligible, AcceptedUnverified(eligible), PolicyEvidence(original.filters))
          /\ log' = ValidationEvent(lg, "unverified", eligible)
      BY <1>recovered, <2>3 DEF Recover
    <3>2. Cardinality(eligible) \in Nat
      BY FS_CardinalityType DEF TypeOK
    <3>3. log' \in LogType
      BY <3>1, <3>2 DEF ValidationEvent, LogType, ValidationOutcome
    <3>4. \A v \in validation' : /\ v.id \in Company /\ v.company \in Profile
                                  /\ v.relevant \in BOOLEAN /\ v.evidence \subseteq EvidenceField
      BY <3>1, JudgedTypes, PolicyEvidenceFields DEF TypeOK
    <3> QED  BY <1>recovered, <2>3, <3>1, <3>3, <3>4, JudgeItems DEF Recover, TypeOK, Progress
  <2> QED  BY <1>recovered, <2>1, <2>2, <2>3
<1>logged. AttemptLogged \in LogType /\ ToolLogged \in LogType /\ log \in LogType
  BY DEF AttemptLogged, ToolLogged, TypeOK, LogType
<1>15. CASE BudgetExhausted \/ ProviderUnavailable \/ MalformedReply
  BY <1>12, <1>recovered, <1>logged, <1>15 DEF BudgetExhausted, ProviderUnavailable, MalformedReply
<1>16. CASE ProviderFatal
  BY <1>logged, <1>16 DEF ProviderFatal, Abort, TypeOK, Progress, MaxAttempts
<1>17. CASE ParseReply
  BY <1>logged, <1>17, MandateAssumption DEF ParseReply, Understand, GoTo, TypeOK, Progress, MaxAttempts, MandateType
<1>18. CASE ReviseReply
  <2>1. PICK keywords \in SUBSET Term : Rekey(keywords)
    BY <1>18, MandateAssumption DEF ReviseReply, MandateType, Progress
  <2>2. log' \in LogType
    BY <1>logged, <1>18 DEF ReviseReply, LogType
  <2> QED  BY <1>18, <1>rekeyed, <2>1, <2>2 DEF ReviseReply, TypeOK
<1>pooled. ASSUME NEW pool, NEW lg \in LogType, IsFiniteSet(pool), Ids(pool) \subseteq Company,
              Retrieved(pool), log' = RetrievalEvent(lg), node = "retrieve_and_score",
              errors' \in BOOLEAN, UNCHANGED <<counters, ending, surroundings>>
       PROVE  State'
  <2>1. log' \in LogType
    BY <1>pooled, RetrievedPool DEF RetrievalEvent, LogType, TypeOK
  <2> QED  BY <1>pooled, <2>1, RetrievedPool DEF TypeOK, Progress, MaxAttempts
<1>20. CASE ToolReturns
  <2>1. plan.use_bm25 \in BOOLEAN /\ DOMAIN selected \subseteq Company
    BY <1>20, CatalogAssumption DEF ToolReturns, Progress, TypeOK
  <2>2. errors' \in BOOLEAN
    BY <1>20 DEF ToolReturns, TypeOK
  <2> QED  BY <1>logged, <1>pooled, <1>20, <2>1, <2>2, RetrievePool DEF ToolReturns
<1>21. CASE ToolFails \/ RetrieveNothing
  <2>1. IsFiniteSet({}) /\ Ids({}) = {}
    BY FS_EmptySet DEF Ids
  <2>2. errors' \in BOOLEAN
    BY <1>21 DEF ToolFails, RetrieveNothing, TypeOK
  <2> QED  BY <1>logged, <1>pooled, <1>21, <2>1, <2>2 DEF ToolFails, RetrieveNothing
<1>22. CASE NothingToValidate
  <2>1. validation' = {} /\ log' \in LogType
    BY <1>logged, <1>22, FS_EmptySet DEF NothingToValidate, Judge, ValidationEvent, LogType, ValidationOutcome
  <2> QED  BY <1>22, <2>1, JudgeItems DEF NothingToValidate, Judge, GoTo, TypeOK, Progress
<1>judged. ASSUME NEW rows, NEW accepted, NEW evidence, Judge(rows, accepted, evidence),
              \A r \in rows : r.id \in Company /\ r.company \in Profile,
              evidence \subseteq EvidenceField, node = "validate_candidates",
              IsFiniteSet(eligible'), verdict' \in BatchType \cup {None},
              \A r \in eligible' : r.id \in Company /\ r.company \in Profile,
              log' \in LogType, errors' \in BOOLEAN,
              UNCHANGED <<mandate, original, plan, candidates, iteration, revised, final,
                          counters, ending, surroundings>>
       PROVE  State'
  <2>1. \A v \in validation' : /\ v.id \in Company /\ v.company \in Profile
                               /\ v.relevant \in BOOLEAN /\ v.evidence \subseteq EvidenceField
    BY <1>judged, JudgedTypes
  <2>2. node' = "finalize" /\ at' = "enter" /\ attempt' = 0
    BY <1>judged DEF Judge, GoTo
  <2>3. TypeOK'
    BY <1>judged, <2>1, <2>2 DEF TypeOK
  <2>4. Progress'
    BY <1>judged, <2>2 DEF Progress
  <2> QED  BY <2>3, <2>4
<1>events. \A rows, lg, result : /\ IsFiniteSet(rows) /\ lg \in LogType
                             /\ result \in {"no_candidates", "no_eligible_candidates", "deterministic",
                                            "criterion_validation", "unverified"}
                             => ValidationEvent(lg, result, rows) \in LogType
  BY FS_CardinalityType DEF ValidationEvent, LogType, ValidationOutcome
<1>23. CASE FetchRecords
  <2>1. /\ IsFiniteSet(eligible') /\ IsFiniteSet({})
        /\ \A r \in eligible' : r.id \in Company /\ r.company \in Profile
    BY <1>23, FetchedRecords, FS_EmptySet
  <2>2. CASE at' = "ready"
    <3>1. UNCHANGED <<node, attempt, validation, log, errors>>
      BY <1>23, <2>2 DEF FetchRecords, Judge, GoTo
    <3> QED  BY <1>23, <2>1, <2>2, <3>1 DEF FetchRecords, TypeOK, Progress, MaxAttempts
  <2>3. CASE at' # "ready"
    <3>1. errors' \in BOOLEAN
      BY <1>23, <2>3 DEF FetchRecords, TypeOK
    <3>2. log' \in LogType
      BY <1>logged, <1>23, <1>events, <2>1, <2>3 DEF FetchRecords
    <3>3. PICK rows, accepted, evidence :
               /\ rows \in {{}, eligible'} /\ evidence \in {{}, PolicyEvidence(original.filters)}
               /\ Judge(rows, accepted, evidence)
      BY <1>23, <2>3 DEF FetchRecords
    <3>4. evidence \subseteq EvidenceField
      BY <3>3, PolicyEvidenceFields
    <3> QED  BY <1>23, <1>judged, <2>1, <3>1, <3>2, <3>3, <3>4 DEF FetchRecords, TypeOK
  <2> QED  BY <2>2, <2>3
<1>24. CASE ValidateReply
  <2>1. errors' \in BOOLEAN
    BY <1>24 DEF ValidateReply, TypeOK
  <2>2. IsFiniteSet(eligible) /\ \A r \in eligible : r.id \in Company /\ r.company \in Profile
    BY DEF TypeOK
  <2>3. log' \in LogType
    BY <1>logged, <1>24, <1>events, <2>2 DEF ValidateReply
  <2>4. PICK accepted, evidence :
             /\ evidence \in {PolicyEvidence(original.filters),
                             PolicyEvidence(original.filters) \cup {"criteria"}}
             /\ Judge(eligible, accepted, evidence)
    BY <1>24 DEF ValidateReply
  <2>5. evidence \subseteq EvidenceField
    BY <2>4, PolicyEvidenceFields DEF EvidenceField
  <2>6. verdict' \in BatchType
    BY <1>24, BatchTyped DEF ValidateReply, Progress, TypeOK
  <2> QED  BY <1>24, <1>judged, <2>1, <2>2, <2>3, <2>4, <2>5, <2>6 DEF ValidateReply
<1>25. CASE Finalize
  BY <1>25, TopKSubset DEF Finalize, TypeOK, Progress, MaxAttempts
<1>26. CASE UNCHANGED vars
  BY <1>26 DEF TypeOK, Progress, MaxAttempts
<1> QED
  BY <1>1, <1>2, <1>3, <1>4, <1>5, <1>6, <1>7, <1>8, <1>9, <1>10, <1>11, <1>tool, <1>15, <1>16, <1>17, <1>18,
     <1>20, <1>21, <1>22, <1>23, <1>24, <1>25, <1>26
  DEF Next, Service, Provider, Database, Returned

\* Every variable keeps its type, and the counters their limits.
THEOREM TypeCorrect == Spec => []TypeOK
<1>1. Spec => []State
  BY InitState, StateStep, PTL DEF Spec
<1> QED  BY <1>1, PTL DEF State

-----------------------------------------------------------------------------
(* The budget and the ledger.                                              *)

\* Each stage keeps inside its share of the LLM budget.
LEMMA SpendingStep == State /\ Spending /\ [Next]_vars => Spending'
<1> SUFFICES ASSUME State, Spending, [Next]_vars PROVE Spending'
  OBVIOUS
<1> USE LimitsAssumption DEF State, vars, graph, counters, ending, surroundings, LLMNode, GraphNode
<1>1. llmCalls \in Nat /\ attempt \in 0 .. 2 /\ attempt' = attempt' /\ revised \in BOOLEAN
  BY DEF TypeOK
<1>2. CASE Start
  BY <1>1, <1>2 DEF Start, GoTo, Spending, Progress
<1>3. CASE ReserveCall
  BY <1>1, <1>3 DEF ReserveCall, Spending
<1>4. CASE StartFails \/ Timeout \/ Cancel \/ EndRun \/ DatabaseFails \/ ProviderFatal \/ Finalize
  BY <1>4 DEF StartFails, Timeout, Cancel, EndRun, DatabaseFails, ProviderFatal, Finalize, Abort, Spending
<1>5. CASE ParseMandate \/ ReviseSearch \/ InvokeTool \/ QueryTable \/ Reseed \/ UNCHANGED vars
  BY <1>5 DEF ParseMandate, ReviseSearch, InvokeTool, QueryTable, Reseed, Spending
<1>6. CASE PlanSearch
  BY <1>1, <1>6 DEF PlanSearch, GoTo, Spending, Progress
<1>7. ASSUME NEW keywords, node = "revise_search", Rekey(keywords), UNCHANGED counters
      PROVE  Spending'
  BY <1>1, <1>7 DEF Rekey, GoTo, Spending, Progress, MaxAttempts
<1>8. ASSUME NEW m, node = "parse_mandate", Understand(m), UNCHANGED counters
      PROVE  Spending'
  BY <1>1, <1>8 DEF Understand, GoTo, Spending, Progress, MaxAttempts
<1>9. ASSUME NEW rows, NEW accepted, NEW evidence, Judge(rows, accepted, evidence)
      PROVE  Spending'
  BY <1>9 DEF Judge, GoTo, Spending
<1>10. ASSUME NEW lg, Recover(lg), node \in LLMNode PROVE Spending'
  BY <1>7, <1>8, <1>9, <1>10 DEF Recover
<1>11. CASE MalformedReply
  BY <1>10, <1>11 DEF MalformedReply, Spending
<1>12. CASE BudgetExhausted \/ ProviderUnavailable
  BY <1>10, <1>12 DEF BudgetExhausted, ProviderUnavailable
<1>13. CASE ParseReply \/ ReviseReply
  BY <1>7, <1>8, <1>13 DEF ParseReply, ReviseReply
<1>14. ASSUME NEW pool, node = "retrieve_and_score", Retrieved(pool), UNCHANGED counters
       PROVE  Spending'
  BY <1>1, <1>14 DEF Retrieved, AfterRetrieve, GoTo, Spending
<1>15. CASE ToolReturns \/ ToolFails \/ RetrieveNothing
  BY <1>14, <1>15 DEF ToolReturns, ToolFails, RetrieveNothing
<1>16. CASE NothingToValidate \/ ValidateReply
  BY <1>9, <1>16 DEF NothingToValidate, ValidateReply
<1>17. CASE FetchRecords
  BY <1>9, <1>17 DEF FetchRecords, Spending
<1> QED
  BY <1>2, <1>3, <1>4, <1>5, <1>6, <1>11, <1>12, <1>13, <1>15, <1>16, <1>17
  DEF Next, Service, Provider, Database, Returned

\* With the full budget every stage has what its retries need.
THEOREM BudgetSuffices == Spec => []FullBudgetSuffices
<1>1. Init => Spending
  BY DEF Init, Spending, LLMNode, GraphNode
<1>2. State /\ Spending => FullBudgetSuffices
  BY LimitsAssumption DEF State, Spending, FullBudgetSuffices, TypeOK, Progress, MaxAttempts, LLMNode, GraphNode
<1> QED  BY <1>1, <1>2, InitState, StateStep, SpendingStep, PTL DEF Spec

\* The ledger moves with the counters.
LEMMA LedgerStep == State /\ LedgerBalances /\ [Next]_vars => LedgerBalances'
<1> SUFFICES ASSUME State, LedgerBalances, [Next]_vars PROVE LedgerBalances'
  OBVIOUS
<1> USE DEF State, vars, graph, counters, ending, surroundings, LLMNode, GraphNode
<1>1. llmCalls \in Nat /\ toolCalls \in Nat /\ log \in LogType
  BY LimitsAssumption DEF TypeOK
<1>2. AttemptLogged \in LogType /\ AttemptLogged.llm = log.llm + 1 /\ AttemptLogged.tool = log.tool
  BY <1>1 DEF AttemptLogged, LogType
<1>3. ToolLogged \in LogType /\ ToolLogged.tool = log.tool + 1 /\ ToolLogged.llm = log.llm
  BY <1>1 DEF ToolLogged, LogType
<1>4. \A lg \in LogType : \A result, rows : LET new == ValidationEvent(lg, result, rows) IN
        new.llm = lg.llm /\ new.tool = lg.tool
  BY DEF ValidationEvent, LogType
<1>5. \A lg \in LogType : LET new == RetrievalEvent(lg) IN new.llm = lg.llm /\ new.tool = lg.tool
  BY DEF RetrievalEvent, LogType
<1>6. \A lg \in LogType : LET new == [lg EXCEPT !.revise = @ + 1] IN
        new.llm = lg.llm /\ new.tool = lg.tool
  BY DEF LogType
<1>7. CASE Start \/ StartFails \/ ParseMandate \/ PlanSearch \/ ReviseSearch \/ Finalize
  BY <1>7 DEF Start, StartFails, ParseMandate, PlanSearch, ReviseSearch, Finalize, GoTo,
              LedgerBalances, Progress
<1>8. CASE Timeout \/ Cancel \/ EndRun \/ Reseed \/ DatabaseFails \/ UNCHANGED vars
  BY <1>8 DEF Timeout, Cancel, EndRun, Reseed, DatabaseFails, Abort, LedgerBalances
<1>9. CASE ReserveCall \/ InvokeTool \/ QueryTable
  BY <1>1, <1>9 DEF ReserveCall, InvokeTool, QueryTable, LedgerBalances, LogType
<1>10. ASSUME NEW lg \in LogType, Recover(lg), node \in LLMNode
       PROVE  log'.llm = lg.llm /\ log'.tool = lg.tool /\ at' = "enter" /\ UNCHANGED counters
  <2>1. CASE node = "parse_mandate"
    BY <1>10, <2>1 DEF Recover, Understand, GoTo
  <2>2. CASE node = "revise_search"
    <3>1. log' = [lg EXCEPT !.revise = @ + 1] /\ at' = "enter" /\ UNCHANGED counters
      BY <1>10, <2>2 DEF Recover, Rekey, GoTo
    <3> QED  BY <1>6, <3>1
  <2>3. CASE node = "validate_candidates"
    <3>1. log' = ValidationEvent(lg, "unverified", eligible) /\ at' = "enter" /\ UNCHANGED counters
      BY <1>10, <2>3 DEF Recover, Judge, GoTo
    <3> QED  BY <1>4, <3>1
  <2> QED  BY <1>10, <2>1, <2>2, <2>3
<1>11. CASE BudgetExhausted
  BY <1>1, <1>10, <1>11 DEF BudgetExhausted, LedgerBalances
<1>12. CASE ProviderUnavailable \/ MalformedReply
  BY <1>1, <1>2, <1>10, <1>12 DEF ProviderUnavailable, MalformedReply, LedgerBalances, LogType
<1>13. CASE ProviderFatal \/ ParseReply
  BY <1>1, <1>2, <1>13 DEF ProviderFatal, ParseReply, Abort, Understand, GoTo, LedgerBalances, LogType
<1>14. CASE ReviseReply
  BY <1>1, <1>2, <1>6, <1>14 DEF ReviseReply, Rekey, GoTo, LedgerBalances, LogType
<1>15. CASE ValidateReply
  BY <1>1, <1>2, <1>4, <1>15 DEF ValidateReply, Judge, GoTo, LedgerBalances, LogType
<1>16. CASE ToolReturns \/ ToolFails
  BY <1>1, <1>3, <1>5, <1>16 DEF ToolReturns, ToolFails, Retrieved, GoTo, LedgerBalances, LogType
<1>17. CASE RetrieveNothing
  BY <1>1, <1>5, <1>17 DEF RetrieveNothing, Retrieved, GoTo, LedgerBalances
<1>18. CASE NothingToValidate
  BY <1>1, <1>4, <1>18 DEF NothingToValidate, Judge, GoTo, LedgerBalances
<1>19. CASE FetchRecords
  BY <1>1, <1>4, <1>19 DEF FetchRecords, Judge, GoTo, LedgerBalances
<1> QED
  BY <1>7, <1>8, <1>9, <1>11, <1>12, <1>13, <1>14, <1>15, <1>16, <1>17, <1>18, <1>19
  DEF Next, Service, Provider, Database, Returned

\* Every reserved attempt and tool call is logged or was left open by an
\* interruption, for any limits, catalogue and provider.
THEOREM LedgerIsComplete == Spec => []LedgerBalances
<1>1. Init => LedgerBalances
  BY DEF Init, LedgerBalances
<1> QED  BY <1>1, InitState, StateStep, LedgerStep, PTL DEF Spec

-----------------------------------------------------------------------------
(* What run_end shows.                                                     *)

\* As many items are judged as there are records.
LEMMA JudgeCount ==
  ASSUME NEW rows, NEW accepted, NEW evidence, Judge(rows, accepted, evidence),
         IsFiniteSet(rows),
         \A r \in rows : r = [id |-> r.id, company |-> r.company, score |-> r.score]
  PROVE  Cardinality(validation') = Cardinality(rows)
<1> DEFINE item(r) == [id |-> r.id, company |-> r.company, score |-> r.score,
                       relevant |-> r.id \in accepted,
                       evidence |-> IF r.id \in accepted THEN evidence ELSE {}]
           items == {item(r) : r \in rows}
           f == [r \in rows |-> item(r)]
<1>1. validation' = items
  BY DEF Judge
<1>2. \A r, q \in rows : item(r) = item(q) => r = q
  <2> SUFFICES ASSUME NEW r \in rows, NEW q \in rows, item(r) = item(q) PROVE r = q
    OBVIOUS
  <2>1. r.id = q.id /\ r.company = q.company /\ r.score = q.score
    OBVIOUS
  <2>2. r = [id |-> r.id, company |-> r.company, score |-> r.score]
        /\ q = [id |-> q.id, company |-> q.company, score |-> q.score]
    OBVIOUS
  <2> HIDE DEF item
  <2> QED  BY <2>1, <2>2
<1> HIDE DEF item
<1>3. f \in Bijection(rows, items)
  BY <1>2 DEF Bijection, Injection, Surjection, IsInjective
<1>4. ExistsBijection(rows, items)
  BY <1>3 DEF ExistsBijection
<1> HIDE DEF items
<1> QED  BY <1>1, <1>4, FS_Bijection

\* Each step moves the events with the progress they report.
LEMMA BookkeepingStep == State /\ State' /\ Bookkeeping /\ [Next]_vars => Bookkeeping'
<1> SUFFICES ASSUME State, State', Bookkeeping, [Next]_vars PROVE Bookkeeping'
  OBVIOUS
<1> USE DEF State, vars, graph, counters, ending, surroundings, LLMNode, GraphNode
<1>1. /\ log \in LogType /\ iteration \in Nat /\ iteration' \in Nat /\ toolCalls \in Nat
      /\ revised \in BOOLEAN /\ IsFiniteSet(eligible) /\ IsFiniteSet(eligible')
  BY LimitsAssumption DEF TypeOK
<1>2. node # "done" => runEnd = None
  BY DEF Bookkeeping
<1>logged. \A lg \in LogType : LET new == [lg EXCEPT !.llm = @ + 1] IN
             /\ new \in LogType /\ new.retrieval = lg.retrieval
             /\ new.validation = lg.validation /\ new.revise = lg.revise
  BY DEF LogType
<1>tool. LET new == ToolLogged IN
             /\ new \in LogType /\ new.retrieval = log.retrieval
             /\ new.validation = log.validation /\ new.revise = log.revise
  BY <1>1 DEF LogType, ToolLogged
<1>attempt. AttemptLogged \in LogType /\ AttemptLogged.retrieval = log.retrieval
            /\ AttemptLogged.validation = log.validation /\ AttemptLogged.revise = log.revise
  BY <1>1, <1>logged DEF AttemptLogged
<1>quiet. ASSUME UNCHANGED <<candidates, iteration, revised, eligible, validation, final,
                            toolCalls, runEnd, budget>>,
                 \/ log' = log
                 \/ log' = AttemptLogged,
                 at \in {"tool", "rank"} => at' \in {"tool", "rank"},
                 \/ node \in {"start"} \cup GraphNode /\ outcome' = "running"
                 \/ node' \in {"end", "done"} /\ outcome' # "completed"
                    /\ node \in {"start"} \cup GraphNode
                 \/ UNCHANGED <<node, outcome>>
          PROVE  Bookkeeping'
  BY <1>1, <1>2, <1>quiet, <1>attempt DEF Bookkeeping, RunEndShowsProgress
<1>3. CASE Start \/ ParseMandate \/ ReserveCall \/ ReviseSearch \/ PlanSearch \/ QueryTable
  BY <1>3, <1>quiet DEF Start, ParseMandate, ReserveCall, ReviseSearch, PlanSearch, QueryTable,
                        GoTo, Progress, Bookkeeping
<1>4. CASE StartFails \/ Timeout \/ Cancel \/ Reseed \/ DatabaseFails \/ UNCHANGED vars
  BY <1>4, <1>quiet DEF StartFails, Timeout, Cancel, AtAwait, Reseed, DatabaseFails, Abort
<1>5. CASE ProviderFatal \/ ParseReply
  BY <1>5, <1>quiet DEF ProviderFatal, Abort, ParseReply, Understand, GoTo, Progress, Bookkeeping
<1>again. CASE MalformedReply /\ at' = "ready"
  <2>1. ~Recover(AttemptLogged)
    BY <1>again DEF MalformedReply, Recover, Understand, Rekey, Judge, GoTo
  <2> QED  BY <1>again, <1>quiet, <2>1 DEF MalformedReply
<1>6. CASE InvokeTool
  BY <1>1, <1>2, <1>6 DEF InvokeTool, Bookkeeping, RunEndShowsProgress
<1>rekeyed. ASSUME NEW keywords, Rekey(keywords), node = "revise_search",
                   NEW lg \in LogType, lg.retrieval = log.retrieval, lg.revise = log.revise,
                   lg.validation = log.validation, log' = [lg EXCEPT !.revise = @ + 1],
                   at # "tool", at # "rank", UNCHANGED <<counters, ending, budget>>
            PROVE  Bookkeeping'
  <2>1. /\ log'.retrieval = log.retrieval /\ log'.validation = log.validation
        /\ log'.revise = log.revise + 1 /\ log.revise = 0
    BY <1>1, <1>rekeyed DEF LogType, Bookkeeping, Progress
  <2> QED  BY <1>1, <1>2, <1>rekeyed, <2>1 DEF Rekey, GoTo, Bookkeeping, RunEndShowsProgress
<1>judged. ASSUME NEW rows, NEW accepted, NEW evidence, Judge(rows, accepted, evidence),
                  NEW lg \in LogType, lg.retrieval = log.retrieval, lg.revise = log.revise,
                  NEW result, log' = ValidationEvent(lg, result, rows),
                  IsFiniteSet(rows), node = "validate_candidates",
                  \A r \in rows : r = [id |-> r.id, company |-> r.company, score |-> r.score],
                  \A r \in eligible' : r = [id |-> r.id, company |-> r.company, score |-> r.score],
                  UNCHANGED <<candidates, iteration, revised, final, counters, ending, budget>>
           PROVE  Bookkeeping'
  <2>1. Cardinality(validation') = Cardinality(rows)
    BY <1>judged, JudgeCount
  <2>2. /\ log'.retrieval = log.retrieval /\ log'.revise = log.revise
        /\ log'.validation.validated = Cardinality(rows)
    BY <1>judged DEF ValidationEvent, LogType
  <2> QED  BY <1>1, <1>2, <1>judged, <2>1, <2>2
           DEF Judge, GoTo, Bookkeeping, RunEndShowsProgress, Progress
<1>7. ASSUME NEW lg \in LogType, Recover(lg), node \in LLMNode, at # "tool", at # "rank",
             lg = log \/ lg = AttemptLogged
      PROVE  Bookkeeping'
  <2>1. lg.retrieval = log.retrieval /\ lg.validation = log.validation /\ lg.revise = log.revise
    BY <1>7, <1>attempt
  <2>2. CASE node = "parse_mandate"
    BY <1>7, <1>quiet, <2>2 DEF Recover, Understand, GoTo, Bookkeeping
  <2>3. CASE node = "revise_search"
    <3>1. Rekey(mandate.keywords) /\ log' = [lg EXCEPT !.revise = @ + 1]
      BY <1>7, <2>3 DEF Recover
    <3> QED  BY <1>7, <1>rekeyed, <2>1, <2>3, <3>1 DEF Recover
  <2>4. CASE node = "validate_candidates"
    BY <1>1, <1>7, <1>judged, <2>1, <2>4 DEF Recover, Bookkeeping
  <2> QED  BY <1>7, <2>2, <2>3, <2>4
<1>8. CASE BudgetExhausted \/ ProviderUnavailable \/ (MalformedReply /\ at' # "ready")
  BY <1>1, <1>7, <1>8, <1>attempt DEF BudgetExhausted, ProviderUnavailable, MalformedReply
<1>9. CASE ReviseReply
  BY <1>9, <1>attempt, <1>rekeyed DEF ReviseReply
<1>pooled. ASSUME NEW pool, Retrieved(pool), NEW lg \in LogType, log' = RetrievalEvent(lg),
                  lg.validation = log.validation, lg.revise = log.revise,
                  node = "retrieve_and_score", UNCHANGED <<counters, ending, budget>>
           PROVE  Bookkeeping'
  <2>1. /\ log'.retrieval = [iter |-> iteration + 1, kept |-> Cardinality(candidates')]
        /\ log'.validation = log.validation /\ log'.revise = log.revise
    BY <1>pooled DEF RetrievalEvent, LogType
  <2>2. toolCalls' <= iteration'
    BY <1>1, <1>pooled DEF Retrieved, Bookkeeping
  <2> QED  BY <1>1, <1>2, <1>pooled, <2>1, <2>2
           DEF Retrieved, AfterRetrieve, GoTo, Bookkeeping, RunEndShowsProgress
<1>10. CASE ToolReturns \/ ToolFails \/ RetrieveNothing
  BY <1>1, <1>10, <1>tool, <1>pooled DEF ToolReturns, ToolFails, RetrieveNothing
<1>11. CASE NothingToValidate
  BY <1>1, <1>11, <1>judged, FS_EmptySet DEF NothingToValidate, Bookkeeping
<1>12. CASE FetchRecords
  <2>1. \A r \in eligible' : r = [id |-> r.id, company |-> r.company, score |-> r.score]
    BY <1>12 DEF FetchRecords
  <2>2. CASE at' = "ready"
    BY <1>1, <1>2, <1>12, <2>1, <2>2
    DEF FetchRecords, Judge, GoTo, Bookkeeping, RunEndShowsProgress
  <2>3. CASE at' # "ready"
    BY <1>1, <1>12, <1>judged, <2>1, <2>3, FS_EmptySet DEF FetchRecords
  <2> QED  BY <2>2, <2>3
<1>13. CASE ValidateReply
  BY <1>1, <1>13, <1>attempt, <1>judged DEF ValidateReply, Bookkeeping
<1>14. CASE Finalize
  BY <1>1, <1>2, <1>14 DEF Finalize, Bookkeeping, RunEndShowsProgress
<1>15. CASE EndRun
  <2>1. llmCalls <= budget /\ toolCalls <= iteration + 1
    BY <1>1 DEF TypeOK, Bookkeeping
  <2>2. outcome # "completed" => Cardinality(final) = 0
    BY FS_EmptySet DEF Bookkeeping
  <2> QED  BY <1>1, <1>15, <2>1, <2>2 DEF EndRun, Bookkeeping, RunEndShowsProgress
<1> QED
  BY <1>3, <1>4, <1>5, <1>again, <1>6, <1>8, <1>9, <1>10, <1>11, <1>12, <1>13, <1>14, <1>15
  DEF Next, Service, Provider, Database, Returned

-----------------------------------------------------------------------------
(* The grounds of an answer.                                               *)

\* Evidence from the policy means that there is a hard filter.
LEMMA EvidenceMeansFilters ==
  ASSUME NEW f, PolicyEvidence(f) # {}
  PROVE  HasStructuredFilters(f)
<1>1. PICK field \in {"industry", "location", "revenue_range", "employee_count", "founded_year"} :
        field \in PolicyEvidence(f)
  BY DEF PolicyEvidence
<1>2. CASE field = "industry"
  BY <1>1, <1>2 DEF PolicyEvidence, HasStructuredFilters
<1>3. CASE field = "location"
  BY <1>1, <1>3 DEF PolicyEvidence, HasStructuredFilters
<1>4. CASE field = "revenue_range"
  BY <1>1, <1>4 DEF PolicyEvidence, HasStructuredFilters
<1>5. CASE field = "employee_count"
  BY <1>1, <1>5 DEF PolicyEvidence, HasStructuredFilters
<1>6. CASE field = "founded_year"
  BY <1>1, <1>6 DEF PolicyEvidence, HasStructuredFilters
<1> QED  BY <1>1, <1>2, <1>3, <1>4, <1>5, <1>6

\* What Grounds says of one relevant company, after a step.
Grounded(id) ==
  /\ IF SemanticCriteria(original) = {}
       THEN HasStructuredFilters(original.filters)
       ELSE /\ verdict # None
            /\ ExactBatch(verdict, Ids(eligible))
            /\ FullySupported(verdict, id, SemanticCriteria(original))
            /\ log.validation.outcome = "criterion_validation"
  /\ log.validation.outcome \in {"deterministic", "criterion_validation"}

\* Every step of the workflow keeps the grounds of its candidates and answers.
LEMMA GroundsStep == State /\ Grounds /\ [Next]_vars => Grounds'
<1> SUFFICES ASSUME State, Grounds, [Next]_vars PROVE Grounds'
  OBVIOUS
<1> USE DEF State, vars, graph, counters, ending, surroundings, LLMNode, GraphNode
<1>quiet. ASSUME UNCHANGED <<original, eligible, verdict, validation, final, log>>,
                 UNCHANGED <<node, at>> \/ node' \in {"end", "done"}
          PROVE  Grounds'
  BY <1>quiet DEF Grounds
<1>early. ASSUME node \in ({"start"} \cup GraphNode) \ {"finalize"},
                 UNCHANGED <<eligible, verdict, validation, final>>,
                 original' = original \/ eligible = {},
                 \/ eligible = {} /\ at' = "enter" /\ node' # "finalize"
                 \/ UNCHANGED node /\ at # "enter" /\ at' # "enter" /\ original' = original
                 \/ UNCHANGED node /\ node # "validate_candidates"
                 \/ node' = "end"
          PROVE  Grounds'
  BY <1>early DEF Grounds
<1>judged. ASSUME NEW rows, NEW accepted, NEW evidence, Judge(rows, accepted, evidence),
                  node = "validate_candidates", rows \subseteq eligible',
                  \A r \in eligible' : Matches(original.filters, r.company),
                  \A r \in rows : r.id \in accepted => Grounded(r.id)',
                  UNCHANGED <<original, final>>
           PROVE  Grounds'
  <2>1. \A v \in validation' : \E r \in rows :
          /\ v.id = r.id /\ v.company = r.company /\ v.relevant = (r.id \in accepted)
    BY <1>judged, JudgeItems
  <2>2. node' = "finalize" /\ final' = {}
    BY <1>judged DEF Judge, GoTo, Grounds
  <2>3. \A v \in validation' : /\ \E r \in eligible' : v.id = r.id /\ v.company = r.company
                               /\ v.relevant => Grounded(v.id)'
    BY <1>judged, <2>1
  <2> QED  BY <1>judged, <2>2, <2>3 DEF Grounds, Grounded
<1>1. CASE Start \/ ParseMandate \/ ReserveCall \/ ReviseSearch \/ PlanSearch \/ InvokeTool \/ QueryTable
  BY <1>1, <1>early DEF Start, ParseMandate, ReserveCall, ReviseSearch, PlanSearch, InvokeTool,
                        QueryTable, GoTo, Grounds
<1>2. CASE StartFails \/ Timeout \/ Cancel \/ EndRun \/ Reseed \/ DatabaseFails \/ UNCHANGED vars
  BY <1>2, <1>quiet DEF StartFails, Timeout, Cancel, EndRun, Reseed, DatabaseFails, Abort
<1>3. ASSUME NEW lg, Recover(lg), node \in LLMNode, at # "enter" PROVE Grounds'
  <2>1. CASE node # "validate_candidates"
    BY <1>3, <1>early, <2>1 DEF Recover, Understand, Rekey, GoTo, Grounds
  <2>2. CASE node = "validate_candidates"
    BY <1>3, <1>judged, <2>2 DEF Recover, AcceptedUnverified, Grounds
  <2> QED  BY <2>1, <2>2
<1>4. CASE BudgetExhausted \/ ProviderUnavailable
  BY <1>3, <1>4 DEF BudgetExhausted, ProviderUnavailable
<1>5. CASE MalformedReply
  BY <1>3, <1>5, <1>early DEF MalformedReply
<1>6. CASE ProviderFatal
  BY <1>6, <1>early DEF ProviderFatal, Abort
<1>7. CASE ParseReply \/ ReviseReply
  BY <1>7, <1>early DEF ParseReply, ReviseReply, Understand, Rekey, GoTo, Grounds
<1>8. ASSUME NEW pool, node = "retrieve_and_score", Retrieved(pool) PROVE Grounds'
  BY <1>8, <1>early DEF Retrieved, AfterRetrieve, GoTo, Grounds
<1>9. CASE ToolReturns \/ ToolFails \/ RetrieveNothing
  BY <1>8, <1>9 DEF ToolReturns, ToolFails, RetrieveNothing
<1>10. CASE NothingToValidate
  BY <1>10, <1>judged DEF NothingToValidate, Grounds
<1>11. CASE FetchRecords
  <2>1. /\ \A r \in eligible' : Matches(original.filters, r.company)
        /\ node = "validate_candidates" /\ UNCHANGED <<original, final, verdict>>
    BY <1>11, FetchedRecords DEF FetchRecords
  <2>2. CASE at' = "ready"
    BY <1>11, <2>1, <2>2 DEF FetchRecords, Judge, GoTo, Grounds
  <2>3. CASE Judge({}, {}, {})
    BY <1>judged, <2>1, <2>3
  <2>4. CASE Judge(eligible', AcceptedUnverified(eligible'), PolicyEvidence(original.filters))
    BY <1>judged, <2>1, <2>4 DEF AcceptedUnverified
  <2>5. CASE /\ SemanticCriteria(original) = {}
             /\ Judge(eligible',
                      IF PolicyEvidence(original.filters) # {} THEN Ids(eligible') ELSE {},
                      PolicyEvidence(original.filters))
             /\ log' = ValidationEvent(log, "deterministic", eligible')
    <3>1. log'.validation.outcome = "deterministic"
      BY <2>5 DEF ValidationEvent, TypeOK, LogType
    <3>2. \A r \in eligible' :
            r.id \in (IF PolicyEvidence(original.filters) # {} THEN Ids(eligible') ELSE {})
              => Grounded(r.id)'
      BY <2>1, <2>5, <3>1, EvidenceMeansFilters DEF Grounded
    <3> QED  BY <1>judged, <2>1, <2>5, <3>2
  <2> QED  BY <1>11, <2>2, <2>3, <2>4, <2>5 DEF FetchRecords
<1>12. CASE ValidateReply
  <2>1. PICK b : /\ verdict' = b
                 /\ \/ /\ ExactBatch(b, Ids(eligible))
                       /\ Judge(eligible,
                                {c \in b.ids : FullySupported(b, c, SemanticCriteria(original))},
                                PolicyEvidence(original.filters) \cup {"criteria"})
                       /\ log' = ValidationEvent(AttemptLogged, "criterion_validation", eligible)
                    \/ Judge(eligible, AcceptedUnverified(eligible), PolicyEvidence(original.filters))
                 /\ b \in Batches(Ids(eligible), SemanticCriteria(original))
    BY <1>12 DEF ValidateReply
  <2>2. /\ node = "validate_candidates" /\ UNCHANGED <<original, eligible, final>>
        /\ SemanticCriteria(original) # {}
        /\ \A r \in eligible : Matches(original.filters, r.company)
    BY <1>12 DEF ValidateReply, Grounds
  <2>3. CASE Judge(eligible, AcceptedUnverified(eligible), PolicyEvidence(original.filters))
    BY <1>judged, <2>2, <2>3 DEF AcceptedUnverified
  <2>4. CASE /\ ExactBatch(b, Ids(eligible))
             /\ Judge(eligible,
                      {c \in b.ids : FullySupported(b, c, SemanticCriteria(original))},
                      PolicyEvidence(original.filters) \cup {"criteria"})
             /\ log' = ValidationEvent(AttemptLogged, "criterion_validation", eligible)
    <3>1. log'.validation.outcome = "criterion_validation"
      BY <2>4 DEF ValidationEvent, AttemptLogged, TypeOK, LogType
    <3>2. b # None
      <4>1. b \in BatchType
        BY <2>1, <2>2, BatchTyped DEF Progress, TypeOK
      <4> QED  BY <4>1, NoneAssumption
    <3>3. \A r \in eligible :
            r.id \in {c \in b.ids : FullySupported(b, c, SemanticCriteria(original))}
              => Grounded(r.id)'
      BY <2>1, <2>2, <2>4, <3>1, <3>2 DEF Grounded
    <3> QED  BY <1>judged, <2>2, <2>4, <3>3
  <2> QED  BY <2>1, <2>3, <2>4
<1>13. CASE Finalize
  BY <1>13, TopKSubset DEF Finalize, Grounds
<1> QED
  BY <1>1, <1>2, <1>4, <1>5, <1>6, <1>7, <1>9, <1>10, <1>11, <1>12, <1>13
  DEF Next, Service, Provider, Database, Returned

\* The whole inductive invariant holds of every run.
THEOREM InductiveInvariant == Spec => []IInv
<1>1. Init => Spending /\ Bookkeeping /\ Grounds
  BY FS_EmptySet
  DEF Init, Spending, Bookkeeping, RunEndShowsProgress, Grounds, LLMNode, GraphNode
<1>2. IInv <=> State /\ Spending /\ Bookkeeping /\ Grounds
  BY DEF IInv, State
<1> QED  BY <1>1, <1>2, InitState, StateStep, SpendingStep, BookkeepingStep, GroundsStep, PTL DEF Spec

\* Every answered company satisfies the original hard filters and has what its
\* criteria ask for, for any catalogue, index, limits, mandates and replies.
THEOREM Grounding == Spec => []AnswersAreGrounded
<1>1. IInv => AnswersAreGrounded
  BY DEF IInv, Grounds, AnswersAreGrounded
<1> QED  BY <1>1, InductiveInvariant, PTL

\* After the deterministic parse nothing is answered without the validator.
THEOREM FallbackIsValidated == Spec => []FallbackNeedsValidator
<1>1. IInv => FallbackNeedsValidator
  <2> SUFFICES ASSUME IInv, original = FallbackMandate, verdict = None, final # {} PROVE FALSE
    BY DEF FallbackNeedsValidator
  <2>1. SemanticCriteria(FallbackMandate) = {} /\ HasStructuredFilters(FallbackMandate.filters)
    BY DEF IInv, Grounds
  <2>2. FallbackMandate.requirements \subseteq Blank
    BY <2>1, FallbackAssumption DEF SemanticCriteria
  <2> QED  BY <2>1, <2>2, FallbackAssumption
<1> QED  BY <1>1, InductiveInvariant, PTL

\* However a run ends, run_end reports the progress the graph made.
THEOREM RunEndIsTrue == Spec => []RunEndShowsProgress
<1>1. IInv => RunEndShowsProgress
  BY DEF IInv, Bookkeeping
<1> QED  BY <1>1, InductiveInvariant, PTL

\* An unverified validation answers nothing.
THEOREM UnverifiedIsEmpty == Spec => []UnverifiedAnswersNothing
<1>1. IInv => UnverifiedAnswersNothing
  BY DEF IInv, Grounds, UnverifiedAnswersNothing
<1> QED  BY <1>1, InductiveInvariant, PTL

-----------------------------------------------------------------------------
(* What a step may never do.                                               *)

\* Only understanding a query sets the original mandate, and that happens once.
LEMMA OriginalIsFixed == State /\ [Next]_vars => (original # None => original' = original)
<1> SUFFICES ASSUME State, [Next]_vars, original # None PROVE original' = original
  OBVIOUS
<1> USE DEF State, vars, graph, counters, ending, surroundings, LLMNode, GraphNode
<1>1. node # "parse_mandate"
  BY DEF Progress
<1>2. ASSUME NEW lg, Recover(lg), node \in LLMNode PROVE original' = original
  BY <1>1, <1>2 DEF Recover, Rekey
<1>3. CASE BudgetExhausted \/ ProviderUnavailable \/ MalformedReply
  BY <1>2, <1>3 DEF BudgetExhausted, ProviderUnavailable, MalformedReply
<1>4. CASE ParseReply \/ ReviseReply \/ ValidateReply
  BY <1>1, <1>4 DEF ParseReply, ReviseReply, ValidateReply, Rekey
<1>5. CASE ToolReturns \/ ToolFails \/ RetrieveNothing
  BY <1>5 DEF ToolReturns, ToolFails, RetrieveNothing, Retrieved
<1>6. CASE Service /\ ~BudgetExhausted /\ ~RetrieveNothing
  BY <1>6 DEF Service, Start, StartFails, ParseMandate, ReserveCall, PlanSearch, InvokeTool,
              ReviseSearch, NothingToValidate, FetchRecords, Finalize, EndRun
<1>7. CASE ProviderFatal \/ DatabaseFails \/ QueryTable \/ Reseed \/ Timeout \/ Cancel \/ UNCHANGED vars
  BY <1>7 DEF ProviderFatal, DatabaseFails, Abort, QueryTable, Reseed, Timeout, Cancel
<1> QED
  BY <1>3, <1>4, <1>5, <1>6, <1>7 DEF Next, Provider, Database, Service, Returned

\* A revision keeps every part of the mandate but its keywords.
THEOREM RevisionIsNarrow == Spec => RevisionKeepsRequirements
<1>1. State /\ State' /\ [Next]_vars =>
        [original # None =>
           /\ original' = original
           /\ mandate' = [original EXCEPT !.keywords = mandate'.keywords]]_vars
  BY OriginalIsFixed DEF State, Progress
<1> QED  BY <1>1, InitState, StateStep, PTL DEF Spec, RevisionKeepsRequirements

\* Only the retrieval node changes the pool.
LEMMA PoolMoves ==
  ASSUME [Next]_vars, candidates' # candidates
  PROVE  ToolReturns \/ ToolFails \/ RetrieveNothing
<1> USE DEF vars, graph, LLMNode, GraphNode
<1>1. ASSUME NEW lg, Recover(lg), node \in LLMNode PROVE FALSE
  BY <1>1 DEF Recover, Rekey, Understand
<1>2. CASE BudgetExhausted \/ ProviderUnavailable \/ MalformedReply
  BY <1>1, <1>2 DEF BudgetExhausted, ProviderUnavailable, MalformedReply
<1>3. CASE ParseReply \/ ReviseReply \/ ValidateReply
  BY <1>3 DEF ParseReply, ReviseReply, ValidateReply, Rekey, Understand
<1>4. CASE Service /\ ~BudgetExhausted /\ ~RetrieveNothing
  BY <1>4 DEF Service, Start, StartFails, ParseMandate, ReserveCall, PlanSearch, InvokeTool,
              ReviseSearch, NothingToValidate, FetchRecords, Finalize, EndRun
<1>5. CASE ProviderFatal \/ DatabaseFails \/ QueryTable \/ Reseed \/ Timeout \/ Cancel \/ UNCHANGED vars
  BY <1>5 DEF ProviderFatal, DatabaseFails, Abort, QueryTable, Reseed, Timeout, Cancel
<1> QED
  BY <1>2, <1>3, <1>4, <1>5 DEF Next, Provider, Database, Service, Returned

\* No retrieval leaves the hard filters the query was understood with.
THEOREM PoolsAreEligible == Spec => PoolsStayInsideFilters
<1>1. ASSUME State, [Next]_vars, candidates' # candidates,
             NEW cand \in candidates', HasStructuredFilters(original.filters)
      PROVE  cand.id \in EligibleIds(selected, original.filters)
  <2>1. CASE Retrieved({})
    <3>1. candidates' = {}
      BY <2>1, TopKSubset DEF Retrieved
    <3> QED  BY <1>1, <3>1
  <2>2. CASE ToolReturns
    <3> DEFINE pool == Retrieve(mandate, plan.use_bm25, selected, MaxCandidates)
    <3>1. candidates' \subseteq pool
      BY <2>2, TopKSubset DEF ToolReturns, Retrieved
    <3>2. mandate.filters = original.filters
      BY <1>1, <2>2, NoneAssumption DEF ToolReturns, State, Progress, MandateType, GraphNode
    <3>3. DOMAIN selected \subseteq Company
      BY <1>1, <2>2, CatalogAssumption DEF ToolReturns, State, Progress, GraphNode
    <3>4. Ids(pool) \subseteq EligibleIds(selected, original.filters)
      BY <1>1, <3>2, <3>3, RetrievePool
    <3> QED  BY <1>1, <3>1, <3>4 DEF Ids
  <2> QED  BY <1>1, <2>1, <2>2, PoolMoves DEF ToolFails, RetrieveNothing
<1>2. State /\ [Next]_vars =>
        [candidates' # candidates =>
           \A cand \in candidates' :
              HasStructuredFilters(original.filters) =>
                 cand.id \in EligibleIds(selected, original.filters)]_vars
  BY <1>1 DEF vars, graph
<1> QED  BY <1>2, InitState, StateStep, PTL DEF Spec, PoolsStayInsideFilters
=============================================================================
