-------------------------- MODULE SearchEvaluation --------------------------
(***************************************************************************)
(* The deterministic evaluation, scripts/run_eval.py: what a search left   *)
(* behind, its response or its exception and the run log, is put through   *)
(* checks that trust nothing the workflow computed.  The checks are        *)
(* written down here from the script, on the states of AgentWorkflow in    *)
(* which a call is over, and it is claimed that a call that answered       *)
(* passes them.  What an evaluator expects of one query in particular      *)
(* (parsed criteria, least number of results) is not part of it.           *)
(*                                                                         *)
(* The log is read after the call; the events of the run are in it.        *)
(***************************************************************************)
EXTENDS AgentWorkflow

\* SearchResponse.
Response ==
  [mandate |-> original, final |-> final,
   retrieved_candidates |-> Cardinality(candidates),
   validated_candidates |-> Cardinality(validation),
   llm_calls |-> llmCalls, tool_calls |-> toolCalls,
   iterations |-> iteration,
   revised_search |-> revised, revised_searches |-> log.revise]

\* _company_matches_filters.
CompanyMatchesFilters(company, f) ==
  ~ \/ f.industries # {} /\ company.industry \notin f.industries
    \/ f.locations # {} /\ company.location \notin f.locations
    \/ f.revenue_buckets # {} /\ company.revenue_range \notin f.revenue_buckets
    \/ f.employee_min # NoBound /\ company.employee_count < f.employee_min
    \/ f.employee_max # NoBound /\ company.employee_count > f.employee_max
    \/ f.founded_after # NoBound /\ company.founded_year < f.founded_after
    \/ f.founded_before # NoBound /\ company.founded_year > f.founded_before

MandatoryFiltersApplied(items, f) ==
  \A v \in items : CompanyMatchesFilters(v.company, f)

\* A field of evidence other than "criteria" quotes the value of the record, and
\* the quotes of criteria are those of the batch that was accepted.
EvidenceGrounded(items) == \A v \in items : v.relevant /\ v.evidence # {}

\* Every criterion of the returned mandate is there with its supporting quotes.
SemanticContract(items, criteria) ==
  \A v \in items : criteria # {} =>
    verdict # None /\ v.id \in verdict.ids /\ FullySupported(verdict, v.id, criteria)

\* The check that an answer is no more than the table holds.
IdsExist(items) == {v.id : v \in items} \subseteq DOMAIN catalog
RecordFidelity(items) == \A v \in items : v.id \in DOMAIN catalog /\ v.company = catalog[v.id]

\* What is asked of each retrieval_iter event of the log, said of the one logged
\* last: the ids of the pool are distinct and as many as the event counts.
PoolTelemetry ==
  Cardinality(Ids(candidates)) = log.retrieval.kept /\ log.retrieval.kept <= 100

\* The checks of _run_query that the response and the log decide.
ContractChecks(r) ==
  [mandatory_filters     |-> MandatoryFiltersApplied(r.final, r.mandate.filters),
   unique_results        |-> Cardinality({v.id : v \in r.final}) = Cardinality(r.final),
   evidence_traceability |-> EvidenceGrounded(r.final),
   semantic_validation_contract |-> SemanticContract(r.final, SemanticCriteria(r.mandate)),
   candidate_pool_bound  |-> r.retrieved_candidates <= 100 /\ PoolTelemetry,
   validation_bound      |-> r.validated_candidates <= 10,
   result_bound          |-> Cardinality(r.final) <= 10,
   llm_budget            |-> r.llm_calls <= 5,
   iteration_bound       |-> r.iterations <= 2,
   revision_bound        |-> /\ r.revised_searches <= 1
                             /\ r.revised_search = (r.revised_searches = 1),
   run_observability     |-> /\ runEnd # None
                             /\ runEnd.outcome = "completed"
                             /\ runEnd.llm = r.llm_calls /\ runEnd.tool = r.tool_calls
                             /\ runEnd.retrieved = r.retrieved_candidates
                             /\ runEnd.validated = r.validated_candidates
                             /\ runEnd.final = Cardinality(r.final)
                             /\ runEnd.iterations = r.iterations
                             /\ runEnd.revised = r.revised_searches]

\* The checks for which the table is read again.
TableChecks(r) ==
  [dataset_existence |-> IdsExist(r.final),
   record_fidelity   |-> RecordFidelity(r.final)]

\* invoke puts its run id on an exception of the application's own, and the only
\* one that leaves the graph is that of the timer: a provider or database error
\* that no node recovered, or a failed write, is raised as it came.
CarriesRunId == outcome = "timeout"

\* The row of a call that raised: with a run id the metrics are those of its log.
FailedMetrics ==
  IF CarriesRunId /\ runEnd # None
    THEN [llm_calls |-> runEnd.llm, tool_calls |-> runEnd.tool,
          iterations |-> runEnd.iterations, revised_searches |-> runEnd.revised,
          retrieved_count |-> runEnd.retrieved, validated_count |-> runEnd.validated,
          returned_count |-> runEnd.final]
    ELSE [llm_calls |-> 0, tool_calls |-> 0, iterations |-> 0, revised_searches |-> 0,
          retrieved_count |-> 0, validated_count |-> 0, returned_count |-> 0]
-----------------------------------------------------------------------------
\* Whatever provider, database and timer did, an answer that reached the caller
\* passes every check on the response, the mandate returned with it and the log.
\* The pools of its log are checked one by one: each while its event is the last.
AnswersPassEvaluation ==
  /\ PoolTelemetry
  /\ Answered => LET checks == ContractChecks(Response)
                 IN  \A name \in DOMAIN checks : checks[name]

\* While ingestion leaves the table alone, what is answered is what the table
\* holds, company by company and record by record.
AnswersAreInTheTable ==
  Answered /\ reseeds = 0 => LET checks == TableChecks(Response)
                             IN  \A name \in DOMAIN checks : checks[name]

\* A call that the timer ended, at whatever await and after whatever searches and
\* retries, is put down with the work it did: counters and progress of the run.
\* (Of any other failure this cannot be said, its row is all zeros.)
TimedOutRowsShowTheWork ==
  node = "done" /\ outcome = "timeout" =>
    FailedMetrics = [llm_calls |-> llmCalls, tool_calls |-> toolCalls, iterations |-> iteration,
                     revised_searches |-> IF revised THEN 1 ELSE 0,
                     retrieved_count |-> Cardinality(candidates),
                     validated_count |-> Cardinality(validation),
                     returned_count |-> Cardinality(final)]
=============================================================================
