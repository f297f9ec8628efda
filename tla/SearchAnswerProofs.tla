------------------------- MODULE SearchAnswerProofs -------------------------
(* Proofs about what a search answers: that the workflow implements         *)
(* SearchContract and that its answers pass the checks of SearchEvaluation. *)
EXTENDS SearchEvaluation, AgentWorkflowProofs

(* Every list of a run is ranked and short: a company is in it once and with *)
(* a number for its score, and it is no longer than its limit.              *)
Short(S, n) == RankedList(S) /\ Cardinality(S) <= n

Ranked ==
  /\ Short(candidates, MaxCandidates)
  /\ Short(eligible, MaxValidate) /\ Short(validation, MaxValidate)
  /\ Short(final, MaxFinal)
  /\ outcome = "completed" => original # None

\* Part of a short list is one.
LEMMA ShortPart ==
  ASSUME NEW n \in Nat, NEW S, Short(S, n), NEW T, T \subseteq S
  PROVE  Short(T, n)
<1>1. RankedList(T) /\ IsFiniteSet(S)
  BY RankedPart DEF Short, RankedList
<1>2. Cardinality(T) <= Cardinality(S) /\ Cardinality(T) \in Nat /\ Cardinality(S) \in Nat
  BY <1>1, FS_Subset, FS_CardinalityType
<1> QED  BY <1>1, <1>2 DEF Short

\* A list of the same companies with the same scores is short as well.
LEMMA ShortImage ==
  ASSUME NEW n \in Nat, NEW S, Short(S, n), NEW f,
         \A x \in S : f[x].id = x.id /\ f[x].score = x.score
  PROVE  Short({f[x] : x \in S}, n)
<1> DEFINE T == {f[x] : x \in S}
           g == [x \in S |-> f[x]]
<1>1. g \in Surjection(S, T)
  BY DEF Surjection
<1>2. IsFiniteSet(S)
  BY DEF Short, RankedList
<1>3. IsFiniteSet(T) /\ Cardinality(T) <= Cardinality(S)
  <2> HIDE DEF T, g
  <2> QED  BY <1>1, <1>2, FS_Surjection
<1>4. \A x, y \in S : f[x].id = f[y].id => f[x] = f[y]
  BY DEF Short, RankedList
<1>5. \A y \in T : y.id \in Int /\ y.score \in Int
  BY DEF Short, RankedList
<1>6. \A y, z \in T : y.id = z.id => y = z
  BY <1>4
<1> SUFFICES Short(T, n)
  OBVIOUS
<1> HIDE DEF T
<1>7. Cardinality(T) <= n
  BY <1>2, <1>3, FS_CardinalityType DEF Short
<1> QED  BY <1>3, <1>5, <1>6, <1>7 DEF Short, RankedList

\* Judging keeps the list of records short.
LEMMA JudgeShort ==
  ASSUME NEW n \in Nat, NEW rows, Short(rows, n), NEW accepted, NEW evidence,
         Judge(rows, accepted, evidence)
  PROVE  Short(validation', n)
<1> DEFINE f == [r \in rows |->
                   [id |-> r.id, company |-> r.company, score |-> r.score,
                    relevant |-> r.id \in accepted,
                    evidence |-> IF r.id \in accepted THEN evidence ELSE {}]]
<1>1. validation' = {f[r] : r \in rows}
  BY DEF Judge
<1>2. \A r \in rows : f[r].id = r.id /\ f[r].score = r.score
  OBVIOUS
<1> HIDE DEF f
<1> QED  BY <1>1, <1>2, ShortImage

\* As many records are fetched as the cut allows, each company once.
LEMMA FetchShort ==
  ASSUME FetchRecords, RankedList(candidates)
  PROVE  Short(eligible', MaxValidate)
<1> DEFINE kept == {h \in ToValidate : StillEligible(h)}
           f == [h \in kept |-> [id |-> h.id, company |-> RecordOf(h), score |-> h.score]]
<1>1. eligible' = {f[h] : h \in kept}
  BY DEF FetchRecords
<1>2. \A h \in kept : f[h].id = h.id /\ f[h].score = h.score
  OBVIOUS
<1>3. MaxValidate \in Nat
  BY LimitsAssumption
<1>4. Short(ToValidate, MaxValidate)
  BY <1>3, TopKSubset, TopKBound, RankedPart DEF ToValidate, Short
<1>5. Short(kept, MaxValidate)
  <2>1. kept \subseteq ToValidate
    OBVIOUS
  <2> HIDE DEF kept
  <2> QED  BY <1>3, <1>4, <2>1, ShortPart
<1> HIDE DEF f, kept
<1> QED  BY <1>1, <1>2, <1>3, <1>5, ShortImage

\* Nobody is ranked and nobody is counted.
LEMMA NobodyRanked == RankedList({}) /\ \A n \in Nat : Short({}, n)
BY FS_EmptySet DEF RankedList, Short

\* Every step keeps every list ranked.
LEMMA RankedStep == State /\ Grounds /\ Ranked /\ [Next]_vars => Ranked'
<1> SUFFICES ASSUME State, Grounds, Ranked, [Next]_vars PROVE Ranked'
  OBVIOUS
<1> USE DEF State, vars, graph, counters, ending, surroundings, LLMNode, GraphNode
<1>0. MaxCandidates \in Nat /\ MaxValidate \in Nat /\ MaxFinal \in Nat
  BY LimitsAssumption
<1>quiet. ASSUME UNCHANGED <<candidates, eligible, validation, final>>,
                 outcome' = "completed" => UNCHANGED <<outcome, original>>
          PROVE  Ranked'
  BY <1>quiet DEF Ranked
<1>judged. ASSUME NEW rows, NEW accepted, NEW evidence, Judge(rows, accepted, evidence),
                  Short(rows, MaxValidate), Short(eligible', MaxValidate), UNCHANGED <<candidates, final, original, outcome>>
           PROVE  Ranked'
  BY <1>0, <1>judged, JudgeShort DEF Ranked
<1>pooled. ASSUME NEW pool, RankedList(pool), Retrieved(pool), UNCHANGED outcome
           PROVE  Ranked'
  <2>1. Short(candidates', MaxCandidates)
    BY <1>0, <1>pooled, TopKSubset, TopKBound, RankedPart DEF Retrieved, Short
  <2> QED  BY <1>pooled, <2>1 DEF Retrieved, Ranked
<1>1. CASE Start \/ StartFails \/ ParseMandate \/ ReserveCall \/ PlanSearch \/ InvokeTool
           \/ QueryTable \/ ReviseSearch
  BY <1>1, <1>quiet DEF Start, StartFails, ParseMandate, ReserveCall, PlanSearch, InvokeTool,
                        QueryTable, ReviseSearch
<1>2. CASE ProviderFatal \/ DatabaseFails \/ Timeout \/ Cancel \/ EndRun \/ Reseed \/ UNCHANGED vars
  BY <1>2, <1>quiet DEF ProviderFatal, DatabaseFails, Abort, Timeout, Cancel, EndRun, Reseed
<1>3. ASSUME node \in LLMNode, NEW m \in MandateType, Understand(m), UNCHANGED outcome PROVE Ranked'
  BY <1>3, NoneAssumption DEF Understand, Ranked
<1>4. ASSUME NEW keywords, Rekey(keywords), UNCHANGED outcome PROVE Ranked'
  BY <1>4, <1>quiet DEF Rekey
<1>5. ASSUME NEW lg, Recover(lg), node \in LLMNode PROVE Ranked'
  <2>1. CASE node = "parse_mandate"
    BY <1>3, <1>5, <2>1, MandateAssumption DEF Recover
  <2>2. CASE node = "revise_search"
    BY <1>4, <1>5, <2>2 DEF Recover
  <2>3. CASE node = "validate_candidates"
    BY <1>5, <1>judged, <2>3 DEF Recover, Ranked
  <2> QED  BY <1>5, <2>1, <2>2, <2>3
<1>6. CASE BudgetExhausted \/ ProviderUnavailable
  BY <1>5, <1>6 DEF BudgetExhausted, ProviderUnavailable
<1>7. CASE MalformedReply
  BY <1>5, <1>7, <1>quiet DEF MalformedReply
<1>8. CASE ParseReply
  BY <1>3, <1>8, MandateAssumption DEF ParseReply
<1>9. CASE ReviseReply
  BY <1>4, <1>9 DEF ReviseReply
<1>10. CASE ToolReturns
  <2>1. mandate.keywords \subseteq Term /\ mandate.requirements \subseteq Term
    BY <1>10 DEF ToolReturns, Progress, MandateType
  <2>2. DOMAIN selected \subseteq Company
    BY <1>10, CatalogAssumption DEF ToolReturns, Progress
  <2>3. RankedList(Retrieve(mandate, plan.use_bm25, selected, MaxCandidates))
    BY <2>1, <2>2, RetrieveRanked
  <2> QED  BY <1>10, <1>pooled, <2>3 DEF ToolReturns
<1>11. CASE ToolFails \/ RetrieveNothing
  BY <1>11, <1>pooled, NobodyRanked DEF ToolFails, RetrieveNothing
<1>12. CASE NothingToValidate
  BY <1>0, <1>12, <1>judged, NobodyRanked DEF NothingToValidate, Ranked
<1>13. CASE FetchRecords
  <2>1. Short(eligible', MaxValidate)
    BY <1>13, FetchShort DEF Ranked, Short
  <2>2. UNCHANGED <<candidates, final, original, outcome>>
    BY <1>13 DEF FetchRecords
  <2>3. CASE UNCHANGED validation
    BY <2>1, <2>2, <2>3 DEF Ranked
  <2>4. CASE \E rows, accepted, evidence : rows \in {{}, eligible'} /\ Judge(rows, accepted, evidence)
    BY <1>0, <1>judged, <2>1, <2>2, <2>4, NobodyRanked
  <2> QED  BY <1>13, <2>3, <2>4 DEF FetchRecords
<1>14. CASE ValidateReply
  BY <1>14, <1>judged DEF ValidateReply, Ranked
<1>15. CASE Finalize
  <2> DEFINE chosen == {v \in validation : v.relevant /\ v.evidence # {}}
  <2>1. RankedList(chosen)
    <3>1. chosen \subseteq validation
      OBVIOUS
    <3> HIDE DEF chosen
    <3> QED  BY <3>1, RankedPart DEF Ranked, Short
  <2>2. final' = TopK(chosen, MaxFinal)
    BY <1>15 DEF Finalize
  <2> HIDE DEF chosen
  <2>3. Short(final', MaxFinal)
    BY <1>0, <2>1, <2>2, TopKBound, TopKSubset, RankedPart DEF Short
  <2>4. original # None
    BY <1>15, NoneAssumption DEF Finalize, Progress
  <2> QED  BY <1>15, <2>3, <2>4 DEF Finalize, Ranked
<1> QED
  BY <1>1, <1>2, <1>6, <1>7, <1>8, <1>9, <1>10, <1>11, <1>12, <1>13, <1>14, <1>15
  DEF Next, Service, Provider, Database, Returned

-----------------------------------------------------------------------------
(* The workflow implements the contract.                                   *)

Strong == IInv /\ Ranked

\* Every list of every run is ranked, and all of the inductive invariant holds.
THEOREM RankedRuns == Spec => []Strong
<1>1. Init => Ranked
  BY NobodyRanked, LimitsAssumption DEF Init, Ranked
<1>2. IInv /\ Ranked /\ [Next]_vars => Ranked'
  BY RankedStep DEF IInv, State
<1> QED  BY <1>1, <1>2, InductiveInvariant, PTL DEF Spec, Strong

\* A run starts as a request that is open and knows nothing.
LEMMA ContractStarts == Init => Contract!ContractInit
BY DEF Init, Contract!ContractInit, Answered, Records

\* What a fetch makes of the candidates is a vetting: rows of one table, each
\* admitted by the mandate that was understood.
LEMMA FetchVets == State /\ Grounds /\ FetchRecords => Contract!Vet
<1> SUFFICES ASSUME State, Grounds, FetchRecords PROVE Contract!Vet
  OBVIOUS
<1> DEFINE ids == {r.id : r \in eligible'}
<1>1. node = "validate_candidates" /\ node' # "done" /\ eligible = {}
      /\ UNCHANGED <<original, catalog>> /\ original # None
  BY NoneAssumption
  DEF FetchRecords, Judge, GoTo, State, Progress, Grounds, surroundings, GraphNode
<1>2. \A r \in eligible' : /\ r.id \in DOMAIN catalog /\ r.company = catalog[r.id]
                           /\ Matches(original.filters, r.company)
  BY FetchedRecords DEF State
<1>3. ids \in SUBSET DOMAIN catalog /\ \A c \in ids : AdmitsRow(original, catalog[c])
  BY <1>2 DEF AdmitsRow
<1>4. Records(eligible') = {[id |-> c, company |-> catalog[c]] : c \in ids}
  BY <1>2 DEF Records
<1> HIDE DEF ids
<1>5. Records(eligible) = {}
  BY <1>1 DEF Records
<1> QED  BY <1>1, <1>3, <1>4, <1>5 DEF Contract!Vet, Answered

\* The end of a run that completed is an answer: some of the vetted rows, no
\* more than the limit.
LEMMA EndAnswers == Strong /\ EndRun /\ outcome = "completed" => Contract!Answer
<1> SUFFICES ASSUME Strong, EndRun, outcome = "completed" PROVE Contract!Answer
  OBVIOUS
<1> DEFINE f == [v \in final |-> [id |-> v.id, company |-> v.company]]
<1>1. node = "end" /\ node' = "done" /\ outcome' = "completed"
      /\ UNCHANGED <<original, eligible, final, catalog>> /\ original # None
  BY DEF EndRun, graph, surroundings, Strong, Ranked
<1>2. \A v \in final : \E r \in eligible : v.id = r.id /\ v.company = r.company
  BY DEF Strong, IInv, Grounds
<1>3. Records(final) \subseteq Records(eligible)
  BY <1>2 DEF Records
<1>4. f \in Surjection(final, Records(final))
  BY DEF Surjection, Records
<1>5. IsFiniteSet(final) /\ Cardinality(final) <= MaxFinal /\ MaxFinal \in Nat
  BY LimitsAssumption DEF Strong, Ranked, Short, RankedList
<1> HIDE DEF f
<1>6. Cardinality(Records(final)) <= Cardinality(final) /\ IsFiniteSet(Records(final))
  BY <1>4, <1>5, FS_Surjection
<1>7. Cardinality(Records(final)) <= MaxFinal
  BY <1>5, <1>6, FS_CardinalityType
<1>8. Records(final)' = Records(final) /\ Records(eligible)' = Records(eligible)
  BY <1>1
<1>9. /\ (IF Answered THEN Records(final) ELSE {})' = Records(final)
      /\ (IF node # "done" THEN "open" ELSE IF Answered THEN "answered" ELSE "failed") = "open"
      /\ (IF node # "done" THEN "open" ELSE IF Answered THEN "answered" ELSE "failed")' = "answered"
  BY <1>1 DEF Answered
<1>10. Contract!Cardinality(Records(final)) = Cardinality(Records(final))
  BY DEF Contract!Cardinality, Cardinality
<1> QED  BY <1>1, <1>3, <1>7, <1>8, <1>9, <1>10 DEF Contract!Answer

\* Every step is a step of the contract or invisible to it.
LEMMA ContractSteps == Strong /\ [Next]_vars => [Contract!ContractNext]_Contract!contractVars
<1> SUFFICES ASSUME Strong, [Next]_vars
             PROVE  Contract!ContractNext \/ UNCHANGED Contract!contractVars
  OBVIOUS
<1> USE DEF vars, graph, counters, ending, surroundings, LLMNode, GraphNode
<1>0. State /\ Grounds
  BY DEF Strong, IInv, State
<1>quiet. ASSUME UNCHANGED <<original, eligible, catalog>>, node # "done", node' # "done"
          PROVE  UNCHANGED Contract!contractVars
  BY <1>quiet DEF Contract!contractVars, Answered
<1>failed. ASSUME node # "done", node' = "done", outcome' # "completed",
                  UNCHANGED <<original, eligible, catalog>>
           PROVE  Contract!Fail
  BY <1>failed DEF Contract!Fail, Answered
<1>understood. ASSUME node = "parse_mandate", NEW m \in Mandates \cup {FallbackMandate},
                      Understand(m), UNCHANGED catalog
               PROVE  Contract!UnderstandQuery
  BY <1>0, <1>understood DEF Understand, GoTo, State, Progress, Contract!UnderstandQuery, Answered
<1>1. CASE Start \/ ParseMandate \/ ReserveCall \/ PlanSearch \/ InvokeTool \/ QueryTable
           \/ ReviseSearch \/ ProviderFatal \/ DatabaseFails \/ Timeout \/ Cancel \/ Finalize
  BY <1>1, <1>quiet DEF Start, ParseMandate, ReserveCall, PlanSearch, InvokeTool, QueryTable,
     ReviseSearch, ProviderFatal, DatabaseFails, Abort, Timeout, Cancel, AtAwait, Finalize, GoTo
<1>2. CASE StartFails \/ (EndRun /\ outcome # "completed")
  BY <1>2, <1>failed DEF StartFails, EndRun, Contract!ContractNext
<1>3. CASE EndRun /\ outcome = "completed"
  BY <1>3, EndAnswers DEF Contract!ContractNext
<1>4. CASE FetchRecords
  BY <1>0, <1>4, FetchVets DEF Contract!ContractNext
<1>5. CASE Reseed
  <2>1. node # "done" /\ catalog' \in Catalogs /\ UNCHANGED <<node, original, eligible, final, outcome>>
    BY <1>5 DEF Reseed
  <2> QED  BY <2>1 DEF Contract!ReplaceTable, Contract!ContractNext, Answered
<1>6. ASSUME NEW lg, Recover(lg), node \in LLMNode
      PROVE  Contract!ContractNext \/ UNCHANGED Contract!contractVars
  <2>1. CASE node = "parse_mandate"
    BY <1>6, <1>understood, <2>1 DEF Recover, Contract!ContractNext
  <2>2. CASE node # "parse_mandate"
    BY <1>6, <1>quiet, <2>2 DEF Recover, Rekey, Judge, GoTo
  <2> QED  BY <2>1, <2>2
<1>7. CASE BudgetExhausted \/ ProviderUnavailable
  BY <1>6, <1>7 DEF BudgetExhausted, ProviderUnavailable
<1>8. CASE MalformedReply
  BY <1>6, <1>8, <1>quiet DEF MalformedReply
<1>9. CASE ParseReply
  BY <1>9, <1>understood DEF ParseReply, Contract!ContractNext
<1>10. CASE ReviseReply \/ ValidateReply \/ NothingToValidate
  BY <1>10, <1>quiet DEF ReviseReply, ValidateReply, NothingToValidate, Rekey, Judge, GoTo
<1>11. CASE ToolReturns \/ ToolFails \/ RetrieveNothing
  BY <1>11, <1>quiet DEF ToolReturns, ToolFails, RetrieveNothing, Retrieved, AfterRetrieve, GoTo
<1>12. CASE UNCHANGED vars
  BY <1>12 DEF Contract!contractVars, Answered, Records
<1> QED
  BY <1>1, <1>2, <1>3, <1>4, <1>5, <1>7, <1>8, <1>9, <1>10, <1>11, <1>12
  DEF Next, Service, Provider, Database, Returned

\* The workflow implements the contract: a query is understood once, rows of one
\* table are vetted against that understanding, and the answer is a bounded
\* selection of them, whatever provider, database, timer and ingestion do.
THEOREM Implementation == Spec => ImplementsContract
<1> QED  BY ContractStarts, ContractSteps, RankedRuns, PTL
         DEF Spec, ImplementsContract, Contract!ContractSpec
-----------------------------------------------------------------------------
(* The answers pass the checks of the evaluation.                          *)

(* What the evaluation reads besides the lists: evidence, the table, and     *)
(* the run_end event, which a call that never got going does not have.       *)
Audit ==
  /\ \A v \in final : v.evidence # {}
  /\ node = "start" => candidates = {}
  /\ node = "end" => outcome # "running"
  /\ reseeds = 0 => \A r \in eligible : r.id \in DOMAIN catalog /\ r.company = catalog[r.id]
  /\ runEnd # None =>
        /\ runEnd.outcome = IF outcome = "cancelled" THEN "completed" ELSE outcome
        /\ runEnd.llm = llmCalls /\ runEnd.tool = toolCalls
  /\ node = "done" /\ runEnd = None =>
        /\ outcome = "failed" /\ llmCalls = 0 /\ toolCalls = 0 /\ iteration = 0 /\ ~revised
        /\ candidates = {} /\ validation = {} /\ final = {}

\* The event written at the end of a run is never None.
LEMMA RunEndTyped == Strong /\ Audit /\ EndRun => runEnd' \in RunEndType
<1> SUFFICES ASSUME Strong, Audit, EndRun PROVE runEnd' \in RunEndType
  OBVIOUS
<1>1. Cardinality(final) \in Nat /\ Cardinality(candidates) \in Nat /\ Cardinality(validation) \in Nat
  <2>1. IsFiniteSet(final) /\ IsFiniteSet(candidates) /\ IsFiniteSet(validation)
    BY DEF Strong, Ranked, Short, RankedList
  <2> QED  BY <2>1, FS_CardinalityType
<1>2. /\ log.retrieval.kept \in Nat /\ log.retrieval.iter \in Nat
      /\ log.validation.validated \in Nat /\ log.validation.outcome \in ValidationOutcome /\ log.revise \in Nat
  <2>1. log \in LogType
    BY DEF Strong, IInv, TypeOK
  <2> QED  BY <2>1 DEF LogType
<1>3. /\ iteration \in Nat /\ llmCalls \in Nat /\ toolCalls \in Nat /\ errors \in BOOLEAN
      /\ outcome \in {"running", "completed", "timeout", "failed", "cancelled"}
  BY LimitsAssumption DEF Strong, IInv, TypeOK
<1>4. outcome # "running"
  BY DEF EndRun, Audit
<1> QED  BY <1>1, <1>2, <1>3, <1>4 DEF EndRun, RunEndType

\* Every step keeps what the evaluation reads in order.
LEMMA AuditStep == Strong /\ Audit /\ [Next]_vars => Audit'
<1> SUFFICES ASSUME Strong, Audit, [Next]_vars PROVE Audit'
  OBVIOUS
<1> USE DEF vars, graph, counters, ending, surroundings, LLMNode, GraphNode
<1>1. State /\ Bookkeeping /\ Grounds /\ Spending /\ reseeds \in Nat
  BY LimitsAssumption DEF Strong, IInv, State, TypeOK
<1>2. node # "done" => runEnd = None
  BY <1>1 DEF Bookkeeping
<1>quiet. ASSUME UNCHANGED <<final, eligible, catalog, reseeds, runEnd>>,
                 node # "done", node' \notin {"start", "done"},
                 node' = "end" => outcome' # "running"
          PROVE  Audit'
  BY <1>2, <1>quiet DEF Audit
<1>3. CASE Start \/ ParseMandate \/ ReserveCall \/ PlanSearch \/ InvokeTool \/ QueryTable
           \/ ReviseSearch \/ ProviderFatal \/ DatabaseFails \/ Timeout \/ Cancel
  BY <1>3, <1>quiet DEF Start, ParseMandate, ReserveCall, PlanSearch, InvokeTool, QueryTable,
     ReviseSearch, ProviderFatal, DatabaseFails, Abort, Timeout, Cancel, AtAwait, GoTo
<1>4. CASE StartFails
  <2>1. llmCalls = 0 /\ toolCalls = 0 /\ iteration = 0 /\ ~revised /\ candidates = {}
        /\ validation = {} /\ final = {} /\ runEnd = None
    BY <1>1, <1>2, <1>4 DEF StartFails, State, TypeOK, Progress, Spending, Bookkeeping, Grounds, Audit
  <2> QED  BY <1>4, <2>1 DEF StartFails, Audit
<1>5. CASE EndRun
  <2>1. runEnd' # None
    BY <1>5, RunEndTyped, NoneAssumption
  <2>2. /\ runEnd'.outcome = IF outcome = "cancelled" THEN "completed" ELSE outcome
        /\ runEnd'.llm = llmCalls /\ runEnd'.tool = toolCalls /\ node' = "done"
        /\ UNCHANGED <<final, candidates, reseeds, eligible, catalog, outcome, llmCalls, toolCalls>>
    BY <1>5 DEF EndRun
  <2> QED  BY <2>1, <2>2 DEF Audit
<1>6. CASE Finalize
  <2>1. \A v \in final' : v.evidence # {}
    BY <1>6, TopKSubset DEF Finalize
  <2>2. node' = "end" /\ outcome' = "completed" /\ UNCHANGED <<eligible, catalog, reseeds, runEnd>>
    BY <1>6 DEF Finalize
  <2>3. runEnd = None
    BY <1>2, <1>6 DEF Finalize
  <2> QED  BY <2>1, <2>2, <2>3 DEF Audit
<1>7. CASE FetchRecords
  <2>1. \A r \in eligible' : r.id \in DOMAIN catalog /\ r.company = catalog[r.id]
    BY <1>1, <1>7, FetchedRecords DEF State
  <2>2. /\ UNCHANGED <<final, catalog, reseeds, runEnd>> /\ runEnd = None
        /\ node' \notin {"start", "end", "done"}
    BY <1>2, <1>7 DEF FetchRecords, Judge, GoTo
  <2> QED  BY <2>1, <2>2 DEF Audit
<1>8. CASE Reseed
  BY <1>1, <1>2, <1>8 DEF Reseed, Audit
<1>9. ASSUME NEW lg, Recover(lg), node \in LLMNode PROVE Audit'
  BY <1>9, <1>quiet DEF Recover, Understand, Rekey, Judge, GoTo
<1>10. CASE BudgetExhausted \/ ProviderUnavailable
  BY <1>9, <1>10 DEF BudgetExhausted, ProviderUnavailable
<1>11. CASE MalformedReply
  BY <1>9, <1>11, <1>quiet DEF MalformedReply
<1>12. CASE ParseReply \/ ReviseReply \/ ValidateReply \/ NothingToValidate
  BY <1>12, <1>quiet DEF ParseReply, ReviseReply, ValidateReply, NothingToValidate,
                         Understand, Rekey, Judge, GoTo
<1>13. CASE ToolReturns \/ ToolFails \/ RetrieveNothing
  BY <1>13, <1>quiet DEF ToolReturns, ToolFails, RetrieveNothing, Retrieved, AfterRetrieve, GoTo
<1>14. CASE UNCHANGED vars
  BY <1>14 DEF Audit
<1> QED
  BY <1>3, <1>4, <1>5, <1>6, <1>7, <1>8, <1>10, <1>11, <1>12, <1>13, <1>14
  DEF Next, Service, Provider, Database, Returned

\* What the evaluation reads is in order in every run.
THEOREM AuditedRuns == Spec => [](Strong /\ Audit)
<1>1. Init => Audit
  BY DEF Init, Audit
<1> QED  BY <1>1, AuditStep, RankedRuns, PTL DEF Spec

\* The row of a call that the timer ended shows the work of the run.
THEOREM TimeoutsAreCounted == Spec => []TimedOutRowsShowTheWork
<1>1. Strong /\ Audit => TimedOutRowsShowTheWork
  <2> SUFFICES ASSUME Strong, Audit, node = "done", outcome = "timeout"
               PROVE  FailedMetrics = [llm_calls |-> llmCalls, tool_calls |-> toolCalls, iterations |-> iteration,
                     revised_searches |-> IF revised THEN 1 ELSE 0,
                     retrieved_count |-> Cardinality(candidates),
                     validated_count |-> Cardinality(validation),
                     returned_count |-> Cardinality(final)]
    BY DEF TimedOutRowsShowTheWork
  <2>1. runEnd # None
    BY DEF Audit
  <2>2. /\ runEnd.iterations = iteration /\ runEnd.retrieved = Cardinality(candidates)
        /\ runEnd.validated = Cardinality(validation) /\ runEnd.final = Cardinality(final)
        /\ runEnd.revised = (IF revised THEN 1 ELSE 0)
    BY <2>1 DEF Strong, IInv, Bookkeeping, RunEndShowsProgress
  <2> QED  BY <2>1, <2>2 DEF Audit, FailedMetrics, CarriesRunId
<1> QED  BY <1>1, AuditedRuns, PTL

\* While ingestion leaves the table alone, what is answered is what it holds.
THEOREM AnswersAreRows == Spec => []AnswersAreInTheTable
<1>1. Strong /\ Audit => AnswersAreInTheTable
  <2> SUFFICES ASSUME Strong, Audit, reseeds = 0
               PROVE  LET checks == TableChecks(Response)
                      IN  \A name \in DOMAIN checks : checks[name]
    BY DEF AnswersAreInTheTable
  <2>1. \A v \in final : v.id \in DOMAIN catalog /\ v.company = catalog[v.id]
    BY DEF Strong, IInv, Grounds, Audit
  <2>2. IdsExist(final) /\ RecordFidelity(final)
    BY <2>1 DEF IdsExist, RecordFidelity
  <2>3. Response.final = final
    BY DEF Response
  <2> QED  BY <2>2, <2>3 DEF TableChecks
<1> QED  BY <1>1, AuditedRuns, PTL

\* An answer passes every check of the evaluation, for every catalogue, index,
\* provider and timer, and for all limits that the configuration admits.
THEOREM EvaluationPasses == Spec => []AnswersPassEvaluation
<1>1. Strong => PoolTelemetry
  <2> SUFFICES ASSUME Strong PROVE PoolTelemetry
    OBVIOUS
  <2>1. Cardinality(candidates) <= 100
    <3>1. IsFiniteSet(candidates)
      BY DEF Strong, Ranked, Short, RankedList
    <3> QED  BY <3>1, FS_CardinalityType, LimitsAssumption DEF Strong, Ranked, Short
  <2>2. Cardinality(Ids(candidates)) = Cardinality(candidates)
    BY IdsCount DEF Strong, Ranked, Short
  <2>3. log.retrieval.kept = Cardinality(candidates)
    BY DEF Strong, IInv, Bookkeeping
  <2> QED  BY <2>1, <2>2, <2>3 DEF PoolTelemetry
<1>2. Strong /\ Audit => AnswersPassEvaluation
  <2> SUFFICES ASSUME Strong, Audit, Answered
               PROVE  LET checks == ContractChecks(Response)
                      IN  \A name \in DOMAIN checks : checks[name]
    BY <1>1 DEF AnswersPassEvaluation
  <2> DEFINE r == Response
  <2>1. /\ r.mandate = original /\ r.final = final
        /\ r.retrieved_candidates = Cardinality(candidates)
        /\ r.validated_candidates = Cardinality(validation)
        /\ r.llm_calls = llmCalls /\ r.tool_calls = toolCalls /\ r.iterations = iteration
        /\ r.revised_search = revised /\ r.revised_searches = log.revise
    BY DEF Response
  <2>2. \A v \in final : /\ v.relevant /\ v.evidence # {}
                         /\ \E q \in eligible : v.id = q.id /\ v.company = q.company
    BY DEF Strong, IInv, Grounds, Audit
  <2>3. AnswersAreGrounded
    BY DEF Strong, IInv, Grounds, AnswersAreGrounded
  <2>4. MandatoryFiltersApplied(final, original.filters)
    BY <2>3 DEF AnswersAreGrounded, MandatoryFiltersApplied, CompanyMatchesFilters, Matches
  <2>5. Cardinality({v.id : v \in final}) = Cardinality(final)
    BY IdsCount DEF Strong, Ranked, Short, Ids
  <2>6. EvidenceGrounded(final)
    BY <2>2 DEF EvidenceGrounded
  <2>7. SemanticContract(final, SemanticCriteria(original))
    BY <2>2, <2>3 DEF AnswersAreGrounded, ExactBatch, Ids, SemanticContract
  <2>8. /\ Cardinality(candidates) \in Nat /\ Cardinality(candidates) <= 100
        /\ Cardinality(validation) \in Nat /\ Cardinality(validation) <= 10
        /\ Cardinality(final) \in Nat /\ Cardinality(final) <= 10
    <3>1. IsFiniteSet(final) /\ IsFiniteSet(candidates) /\ IsFiniteSet(validation)
      BY DEF Strong, Ranked, Short, RankedList
    <3> QED  BY <3>1, FS_CardinalityType, LimitsAssumption DEF Strong, Ranked, Short
  <2>10. log.revise = IF revised THEN 1 ELSE 0
    BY DEF Strong, IInv, Bookkeeping
  <2>11. llmCalls <= 5 /\ iteration <= 2 /\ revised \in BOOLEAN
    BY LimitsAssumption DEF Strong, IInv, TypeOK
  <2>12. /\ runEnd # None /\ runEnd.outcome = "completed"
         /\ runEnd.llm = llmCalls /\ runEnd.tool = toolCalls
         /\ runEnd.retrieved = Cardinality(candidates) /\ runEnd.validated = Cardinality(validation)
         /\ runEnd.final = Cardinality(final) /\ runEnd.iterations = iteration
         /\ runEnd.revised = log.revise
    BY <2>10 DEF Strong, IInv, Bookkeeping, RunEndShowsProgress, Audit, Answered
  <2> HIDE DEF r
  <2> DEFINE checks == ContractChecks(r)
  <2>13. checks.mandatory_filters /\ checks.evidence_traceability /\ checks.semantic_validation_contract
    BY <2>1, <2>4, <2>6, <2>7, Zenon DEF ContractChecks
  <2>14. checks.unique_results
    BY <2>1, <2>5 DEF ContractChecks
  <2>bounds. checks.validation_bound /\ checks.result_bound
    BY <2>1, <2>8 DEF ContractChecks
  <2>15. checks.candidate_pool_bound
    BY <2>1, <2>8, <1>1 DEF ContractChecks
  <2>16. checks.llm_budget /\ checks.iteration_bound
    BY <2>1, <2>11 DEF ContractChecks
  <2>revision. checks.revision_bound
    <3>1. log.revise <= 1 /\ revised = (log.revise = 1)
      BY <2>10, <2>11
    <3> QED  BY <2>1, <3>1 DEF ContractChecks
  <2>17. checks.run_observability
    BY <2>1, <2>12 DEF ContractChecks
  <2>18. DOMAIN checks =
           {"mandatory_filters", "unique_results", "evidence_traceability",
            "semantic_validation_contract", "candidate_pool_bound", "validation_bound",
            "result_bound", "llm_budget", "iteration_bound", "revision_bound", "run_observability"}
    BY DEF ContractChecks
  <2> HIDE DEF checks
  <2>19. \A name \in DOMAIN checks : checks[name]
    BY <2>13, <2>14, <2>bounds, <2>15, <2>16, <2>revision, <2>17, <2>18
  <2> QED  BY <2>19 DEF r, checks
<1> QED  BY <1>2, AuditedRuns, PTL
-----------------------------------------------------------------------------
(* Nobody is lost on the way to the validator.                             *)

\* The retrieval node works with the filters the query was understood with, on a
\* plan, an index query and a table of the right shape.
LEMMA RetrievalInputs ==
  ASSUME State, ToolReturns
  PROVE  /\ mandate.filters = original.filters
         /\ mandate.keywords \subseteq Term /\ mandate.requirements \subseteq Term
         /\ plan.use_bm25 \in BOOLEAN /\ DOMAIN selected \subseteq Company
         /\ MaxCandidates \in 1 .. 100 /\ MaxCandidates \in Nat
<1> USE DEF State, Progress, ToolReturns, GraphNode
<1>1. mandate.filters = original.filters
  BY NoneAssumption DEF MandateType
<1>2. mandate.keywords \subseteq Term /\ mandate.requirements \subseteq Term
  BY DEF MandateType
<1>3. plan.use_bm25 \in BOOLEAN
  OBVIOUS
<1>4. DOMAIN selected \subseteq Company
  BY CatalogAssumption
<1> QED  BY <1>1, <1>2, <1>3, <1>4, LimitsAssumption

\* The pool is the best of the eligible rows of the index, wherever in the table they are.
THEOREM BestAreKept == Spec => NobodyIsCutEarly
<1> DEFINE T == Tokens(RetrievalQuery(mandate))
<1>1. ASSUME Strong, ToolReturns, HasStructuredFilters(original.filters), plan.use_bm25, T # {},
             NEW c \in (EligibleIds(selected, original.filters) \cap Indexed) \ Ids(candidates')
      PROVE  /\ Cardinality(candidates') = MaxCandidates
             /\ \A cand \in candidates' : cand.bm25_score >= NonNegative(BM25[c][T])
  <2> DEFINE pool == Retrieve(mandate, TRUE, selected, MaxCandidates)
  <2>1. /\ mandate.filters = original.filters
        /\ mandate.keywords \subseteq Term /\ mandate.requirements \subseteq Term
        /\ plan.use_bm25 = TRUE /\ DOMAIN selected \subseteq Company
        /\ MaxCandidates \in 1 .. 100 /\ MaxCandidates \in Nat
    BY <1>1, RetrievalInputs DEF Strong, IInv, State
  <2>2. candidates' = TopK(pool, MaxCandidates)
    BY <1>1, <2>1 DEF ToolReturns, Retrieved
  <2>3. /\ RankedList(pool) /\ Cardinality(pool) <= MaxCandidates
        /\ \A d \in (EligibleIds(selected, mandate.filters) \cap Indexed) \ Ids(pool) :
             /\ Cardinality(pool) = MaxCandidates
             /\ \A cand \in pool : cand.bm25_score >= NonNegative(BM25[d][T])
    BY <1>1, <2>1, PoolIsBest
  <2> HIDE DEF pool, T
  <2>4. candidates' = pool
    BY <2>1, <2>2, <2>3, ShortListKept
  <2> QED  BY <1>1, <2>1, <2>3, <2>4
<1>2. Strong /\ [Next]_vars =>
        [ToolReturns /\ HasStructuredFilters(original.filters)
           /\ plan.use_bm25 /\ T # {} =>
           \A c \in (EligibleIds(selected, original.filters) \cap Indexed) \ Ids(candidates') :
             /\ Cardinality(candidates') = MaxCandidates
             /\ \A cand \in candidates' : cand.bm25_score >= NonNegative(BM25[c][T])]_vars
  <2> HIDE DEF T
  <2> QED  BY <1>1
<1> QED  BY <1>2, RankedRuns, PTL DEF Spec, NobodyIsCutEarly

\* Rows that satisfy the filters are not given up for a query that the index cannot read.
THEOREM EmptyPoolsAreRevised == Spec => EmptyPoolIsRevised
<1>1. ASSUME Strong, ToolReturns, HasStructuredFilters(original.filters), candidates' = {},
             EligibleIds(selected, original.filters) \cap Indexed # {}
      PROVE  node' = "revise_search" \/ revised \/ MaxRevised = 0 \/ iteration' >= MaxIterations
  <2> DEFINE pool == Retrieve(mandate, plan.use_bm25, selected, MaxCandidates)
  <2>1. /\ mandate.filters = original.filters
        /\ mandate.keywords \subseteq Term /\ mandate.requirements \subseteq Term
        /\ plan.use_bm25 \in BOOLEAN /\ DOMAIN selected \subseteq Company
        /\ MaxCandidates \in 1 .. 100 /\ MaxCandidates \in Nat
    BY <1>1, RetrievalInputs DEF Strong, IInv, State
  <2>2. candidates' = TopK(pool, MaxCandidates) /\ node' = AfterRetrieve(candidates')
        /\ iteration' = iteration + 1
    BY <1>1 DEF ToolReturns, Retrieved, GoTo
  <2>3. RankedList(pool)
    BY <2>1, RetrieveRanked
  <2>4. pool = {}
    <3>1. MaxCandidates \in Nat \ {0}
      BY <2>1
    <3> HIDE DEF pool
    <3> QED  BY <1>1, <2>2, <2>3, <3>1, CutKeepsSome
  <2>5. RetrievalQuery(mandate) # {}
    <3> SUFFICES ASSUME RetrievalQuery(mandate) = {} PROVE FALSE
      OBVIOUS
    <3>1. EligibleIds(selected, mandate.filters) # {}
      BY <1>1, <2>1
    <3>2. pool # {}
      BY <1>1, <2>1, <3>1, FiltersFindSome
    <3> QED  BY <2>4, <3>2
  <2>6. Weak(mandate, candidates')
    BY <1>1, <2>5 DEF Weak
  <2>7. iteration \in Nat /\ MaxIterations \in Nat /\ MaxRevised \in 0 .. 1
    BY <1>1, LimitsAssumption DEF Strong, IInv, TypeOK
  <2> QED  BY <2>2, <2>6, <2>7 DEF AfterRetrieve
<1>2. Strong /\ [Next]_vars =>
        [ToolReturns /\ HasStructuredFilters(original.filters) /\ candidates' = {}
           /\ EligibleIds(selected, original.filters) \cap Indexed # {}
         => node' = "revise_search" \/ revised \/ MaxRevised = 0 \/ iteration' >= MaxIterations]_vars
  BY <1>1
<1> QED  BY <1>2, RankedRuns, PTL DEF Spec, EmptyPoolIsRevised
\* The table is the one the run started with, and the mandate has hard filters.
Untouched == reseeds = 0 /\ original # None /\ HasStructuredFilters(original.filters)

(* What a run over an untouched table knows of its candidates: they are      *)
(* eligible in the table as it is, so that the fetch drops none of those     *)
(* under the cut.                                                            *)
Pools ==
  /\ node \in {"start", "parse_mandate", "plan_search"} => candidates = {}
  /\ node \in ({"start"} \cup GraphNode) \ {"finalize"} => log.validation.outcome = "not_executed"
  /\ log.validation.outcome # "not_executed" => original # None
  /\ reseeds = 0 /\ at = "rank" => selected = catalog
  /\ Untouched => \A cand \in candidates : cand.id \in EligibleIds(catalog, original.filters)
  /\ Untouched /\ node = "validate_candidates" /\ at # "enter" =>
       Cardinality(eligible) = Cardinality(ToValidate)
  /\ Untouched /\ log.validation.outcome # "not_executed" =>
       Cardinality(validation) = Cardinality(ToValidate)

\* Every candidate under the cut that is eligible in the table is fetched: what the SQL
\* filter selected, the policy accepts.
LEMMA FetchCount ==
  ASSUME State, FetchRecords, RankedList(candidates),
         \A cand \in candidates : cand.id \in EligibleIds(catalog, original.filters)
  PROVE  Cardinality(eligible') = Cardinality(ToValidate)
<1> DEFINE cut == ToValidate
           pair(hit) == [id |-> hit.id, company |-> RecordOf(hit), score |-> hit.score]
           f == [h \in cut |-> pair(h)]
           pairs == {pair(h) : h \in cut}
<1>1. original \in MandateType /\ catalog \in Catalogs
  BY DEF FetchRecords, State, Progress, TypeOK
<1>2. EligibleIds(catalog, original.filters) = {c \in DOMAIN catalog : Matches(original.filters, catalog[c])}
  <2>1. original.filters \in Filter
    BY <1>1 DEF MandateType
  <2>2. \A c \in DOMAIN catalog : catalog[c] \in Profile
    BY <1>1, CatalogAssumption
  <2>3. \A c \in DOMAIN catalog : catalog[c].employee_count \in Int /\ catalog[c].founded_year \in Int
    BY <2>2, FieldAssumption
  <2> DEFINE g == original.filters
  <2>4. /\ g.employee_min \in BoundType /\ g.employee_max \in BoundType
        /\ g.founded_after \in BoundType /\ g.founded_before \in BoundType
    BY <2>1, FieldAssumption DEF BoundType
  <2> HIDE DEF g
  <2>5. EligibleIds(catalog, g) = {c \in DOMAIN catalog : Matches(g, catalog[c])}
    BY <2>3, <2>4, MaskAgreesWithPolicy
  <2> QED  BY <2>5 DEF g
<1>3. cut \subseteq candidates
  BY TopKSubset DEF ToValidate
<1>4. \A h \in cut : StillEligible(h)
  BY <1>2, <1>3 DEF StillEligible
<1>5. eligible' = pairs
  <2>1. eligible' = {pair(h) : h \in {h \in ToValidate : StillEligible(h)}}
    BY DEF FetchRecords
  <2>2. {h \in ToValidate : StillEligible(h)} = cut
    BY <1>4
  <2> QED  BY <2>1, <2>2
<1>6. IsFiniteSet(cut) /\ \A h, g \in cut : h.id = g.id => h = g
  BY <1>3, FS_Subset DEF RankedList
<1>7. f \in Bijection(cut, pairs)
  <2>1. \A h, g \in cut : f[h] = f[g] => h = g
    BY <1>6
  <2>2. \A h \in cut : f[h] \in pairs
    OBVIOUS
  <2>3. \A q \in pairs : \E h \in cut : f[h] = q
    OBVIOUS
  <2> HIDE DEF cut, pairs, pair
  <2> QED  BY <2>1, <2>2, <2>3 DEF Bijection, Injection, Surjection, IsInjective
<1> HIDE DEF f, pairs, cut
<1>8. ExistsBijection(cut, pairs)
  BY <1>7 DEF ExistsBijection
<1>9. Cardinality(pairs) = Cardinality(cut)
  BY <1>6, <1>8, FS_Bijection
<1> QED  BY <1>5, <1>9 DEF cut

\* Every step keeps the pool inside the table as it is, while it is untouched.
LEMMA PoolsStep == Strong /\ Pools /\ [Next]_vars => Pools'
<1> SUFFICES ASSUME Strong, Pools, [Next]_vars PROVE Pools'
  OBVIOUS
<1> USE DEF vars, graph, counters, ending, surroundings, LLMNode, GraphNode
<1>1. State /\ Bookkeeping /\ Grounds /\ reseeds \in Nat /\ log \in LogType /\ RankedList(candidates)
  BY LimitsAssumption DEF Strong, IInv, State, TypeOK, Ranked, Short
<1>attempt. AttemptLogged.validation = log.validation
  BY <1>1 DEF AttemptLogged, LogType
<1>quiet. ASSUME UNCHANGED <<candidates, eligible, validation, original, catalog, reseeds>>,
                 log' = log \/ log' = AttemptLogged \/ log'.validation = log.validation,
                 node' \in {"start", "parse_mandate", "plan_search"} =>
                   node \in {"start", "parse_mandate", "plan_search"},
                 node' \in ({"start"} \cup GraphNode) \ {"finalize"} =>
                   node \in ({"start"} \cup GraphNode) \ {"finalize"},
                 at' = "rank" => selected' = catalog \/ (at = "rank" /\ selected' = selected),
                 node' = "validate_candidates" /\ at' # "enter" =>
                   node = "validate_candidates" /\ at # "enter"
          PROVE  Pools'
  <2>1. log'.validation = log.validation
    BY <1>attempt, <1>quiet
  <2>2. ToValidate' = ToValidate
    BY <1>quiet DEF ToValidate, TopK
  <2>3. Untouched' = Untouched
    BY <1>quiet DEF Untouched
  <2> QED  BY <1>quiet, <2>1, <2>2, <2>3 DEF Pools
<1>2. CASE Start \/ StartFails \/ ParseMandate \/ ReserveCall \/ PlanSearch \/ InvokeTool
           \/ QueryTable \/ ReviseSearch
  <2>1. CASE Start \/ StartFails \/ PlanSearch
    BY <1>quiet, <2>1 DEF Start, StartFails, PlanSearch, GoTo
  <2>2. CASE ParseMandate \/ ReserveCall
    BY <1>quiet, <2>2 DEF ParseMandate, ReserveCall
  <2>3. CASE InvokeTool \/ ReviseSearch
    BY <1>quiet, <2>3 DEF InvokeTool, ReviseSearch
  <2>4. CASE QueryTable
    BY <1>quiet, <2>4 DEF QueryTable
  <2> QED  BY <1>2, <2>1, <2>2, <2>3, <2>4
<1>3. CASE ProviderFatal \/ DatabaseFails \/ Timeout \/ Cancel \/ EndRun \/ Finalize \/ UNCHANGED vars
  BY <1>3, <1>quiet DEF ProviderFatal, DatabaseFails, Abort, Timeout, Cancel, EndRun, Finalize
<1>4. CASE Reseed
  <2>1. reseeds' # 0 /\ UNCHANGED <<node, at, graph, log>>
    BY <1>1, <1>4 DEF Reseed
  <2> QED  BY <2>1 DEF Pools, Untouched
<1>5. ASSUME node = "parse_mandate", NEW m, m # None, Understand(m), log' = AttemptLogged \/ log' = log
      PROVE  Pools'
  <2>1. candidates' = {} /\ log'.validation.outcome = "not_executed"
    BY <1>5, <1>attempt DEF Pools, Understand
  <2> QED  BY <1>5, <2>1 DEF Pools, Understand, GoTo
<1>6. ASSUME node = "revise_search", NEW keywords, Rekey(keywords), log'.validation = log.validation,
             UNCHANGED surroundings
      PROVE  Pools'
  BY <1>6, <1>quiet DEF Rekey, GoTo
<1>judged. ASSUME NEW rows, NEW accepted, NEW evidence, Judge(rows, accepted, evidence),
                  IsFiniteSet(rows), node = "validate_candidates",
                  \A r \in rows : r = [id |-> r.id, company |-> r.company, score |-> r.score],
                  Untouched => Cardinality(rows) = Cardinality(ToValidate),
                  UNCHANGED <<candidates, original, catalog, reseeds>>
           PROVE  Pools'
  <2>1. Cardinality(validation') = Cardinality(rows)
    BY <1>judged, JudgeCount
  <2>2. node' = "finalize" /\ at' = "enter" /\ original # None
    BY <1>1, <1>judged, NoneAssumption DEF Judge, GoTo, State, Progress
  <2>3. ToValidate' = ToValidate
    BY <1>judged DEF ToValidate, TopK
  <2>4. Untouched' = Untouched
    BY <1>judged DEF Untouched
  <2> QED  BY <1>judged, <2>1, <2>2, <2>3, <2>4 DEF Pools
<1>again. ASSUME NEW accepted, NEW evidence, Judge(eligible, accepted, evidence),
                 node = "validate_candidates", at # "enter",
                 UNCHANGED <<candidates, original, catalog, reseeds>>
          PROVE  Pools'
  <2>1. IsFiniteSet(eligible) /\ \A r \in eligible : r = [id |-> r.id, company |-> r.company, score |-> r.score]
    BY <1>1 DEF State, TypeOK, Bookkeeping
  <2>2. Untouched => Cardinality(eligible) = Cardinality(ToValidate)
    BY <1>again DEF Pools
  <2> QED  BY <1>again, <1>judged, <2>1, <2>2
<1>7. ASSUME NEW lg, Recover(lg), node \in LLMNode, at # "enter", lg = log \/ lg = AttemptLogged
      PROVE  Pools'
  <2>1. CASE node = "parse_mandate"
    BY <1>5, <1>7, <2>1, MandateAssumption, NoneAssumption DEF Recover
  <2>2. CASE node = "revise_search"
    <3>1. log'.validation = log.validation
      BY <1>1, <1>7, <1>attempt, <2>2 DEF Recover, LogType, AttemptLogged
    <3> QED  BY <1>6, <1>7, <2>2, <3>1 DEF Recover
  <2>3. CASE node = "validate_candidates"
    BY <1>again, <1>7, <2>3 DEF Recover
  <2> QED  BY <1>7, <2>1, <2>2, <2>3
<1>8. CASE BudgetExhausted \/ ProviderUnavailable
  BY <1>7, <1>8 DEF BudgetExhausted, ProviderUnavailable
<1>9. CASE MalformedReply
  <2>1. CASE at' = "ready" /\ UNCHANGED <<node, graph, surroundings>> /\ log' = AttemptLogged
    BY <1>9, <1>quiet, <2>1 DEF MalformedReply
  <2>2. CASE Recover(AttemptLogged)
    BY <1>7, <1>9, <2>2 DEF MalformedReply
  <2> QED  BY <1>9, <2>1, <2>2 DEF MalformedReply
<1>10. CASE ParseReply
  BY <1>5, <1>10, MandateAssumption, NoneAssumption DEF ParseReply
<1>11. CASE ReviseReply
  <2>1. log'.validation = log.validation
    BY <1>1, <1>11, <1>attempt DEF ReviseReply, LogType, AttemptLogged
  <2> QED  BY <1>6, <1>11, <2>1 DEF ReviseReply
<1>12. CASE ValidateReply
  BY <1>12, <1>again DEF ValidateReply
<1>13. CASE ToolReturns \/ ToolFails \/ RetrieveNothing
  <2>1. /\ node = "retrieve_and_score" /\ at' = "enter"
        /\ node' \in {"revise_search", "validate_candidates"}
        /\ UNCHANGED <<original, catalog, reseeds, eligible, validation>>
    BY <1>13 DEF ToolReturns, ToolFails, RetrieveNothing, Retrieved, AfterRetrieve, GoTo
  <2>2. log'.validation = log.validation
    BY <1>1, <1>13 DEF ToolReturns, ToolFails, RetrieveNothing, RetrievalEvent, ToolLogged, LogType
  <2>3. ASSUME Untouched, NEW cand \in candidates' PROVE cand.id \in EligibleIds(catalog, original.filters)
    <3>1. CASE ToolReturns
      <4> DEFINE pool == Retrieve(mandate, plan.use_bm25, selected, MaxCandidates)
      <4>1. mandate.filters = original.filters /\ DOMAIN selected \subseteq Company
        BY <1>1, <3>1, RetrievalInputs
      <4>2. selected = catalog
        BY <2>3, <3>1 DEF ToolReturns, Pools, Untouched
      <4>3. Ids(pool) \subseteq EligibleIds(catalog, original.filters)
        BY <2>3, <4>1, <4>2, RetrievePool DEF Untouched
      <4>4. candidates' \subseteq pool
        BY <3>1, TopKSubset DEF ToolReturns, Retrieved
      <4> QED  BY <2>3, <4>3, <4>4 DEF Ids
    <3>2. CASE Retrieved({})
      BY <2>3, <3>2, TopKSubset DEF Retrieved
    <3> QED  BY <1>13, <3>1, <3>2 DEF ToolFails, RetrieveNothing
  <2>4. log.validation.outcome = "not_executed"
    BY <2>1 DEF Pools
  <2>5. Untouched' = Untouched
    BY <2>1 DEF Untouched
  <2> QED  BY <2>1, <2>2, <2>3, <2>4, <2>5 DEF Pools
<1>14. CASE NothingToValidate
  BY <1>14, <1>judged, FS_EmptySet DEF NothingToValidate
<1>15. CASE FetchRecords
  <2>1. Untouched => Cardinality(eligible') = Cardinality(ToValidate)
    BY <1>1, <1>15, FetchCount DEF Pools
  <2>2. IsFiniteSet(eligible')
        /\ \A r \in eligible' : r = [id |-> r.id, company |-> r.company, score |-> r.score]
    <3>1. IsFiniteSet(eligible')
      BY <1>1, <1>15, FetchedRecords DEF State
    <3>2. \A r \in eligible' : r = [id |-> r.id, company |-> r.company, score |-> r.score]
      BY <1>15 DEF FetchRecords
    <3> QED  BY <3>1, <3>2
  <2>3. /\ node = "validate_candidates" /\ UNCHANGED <<candidates, original, catalog, reseeds>>
        /\ original # None
    BY <1>1, <1>15, NoneAssumption DEF FetchRecords, State, Progress
  <2>4. CASE at' = "ready" /\ UNCHANGED <<node, validation, log>>
    <3>1. ToValidate' = ToValidate
      BY <2>3 DEF ToValidate, TopK
    <3>2. Untouched' = Untouched
      BY <2>3 DEF Untouched
    <3> QED  BY <2>1, <2>3, <2>4, <3>1, <3>2 DEF Pools
  <2>5. CASE \E rows, accepted, evidence : rows = eligible' /\ Judge(rows, accepted, evidence)
    BY <1>judged, <2>1, <2>2, <2>3, <2>5
  <2> QED  BY <1>15, <2>4, <2>5 DEF FetchRecords
<1> QED
  BY <1>2, <1>3, <1>4, <1>8, <1>9, <1>10, <1>11, <1>12, <1>13, <1>14, <1>15
  DEF Next, Service, Provider, Database, Returned

\* While ingestion leaves the table alone, every candidate under the cut is judged.
THEOREM EverybodyIsJudged == Spec => []UnchangedTableLosesNobody
<1>1. Init => Pools
  BY DEF Init, Pools, Untouched
<1>2. Pools => UnchangedTableLosesNobody
  BY DEF Pools, Untouched, UnchangedTableLosesNobody
<1> QED  BY <1>1, <1>2, PoolsStep, RankedRuns, PTL DEF Spec
=============================================================================
