---------------------------- MODULE AgentWorkflow ----------------------------
(***************************************************************************)
(* One search request, from WorkflowService.invoke through the LangGraph   *)
(* nodes to the terminal run_end event.                                    *)
(*                                                                         *)
(* node is the graph node that runs; at is where it is inside the node:    *)
(*   "enter"  scheduled, or waiting for the database                       *)
(*   "ready"  about to reserve an LLM attempt (no await before it)         *)
(*   "llm"    waiting for the provider                                     *)
(*   "tool"   waiting for a retrieval tool                                 *)
(*   "rank"   waiting for the tool to rank what its query selected         *)
(* The timer of asyncio.wait_for and a cancellation of the request strike  *)
(* at an await, that is everywhere but in "ready".                         *)
(*                                                                         *)
(* The provider answers anything the schema admits, late or never; the     *)
(* database may fail, and ingestion may replace the catalogue at any time, *)
(* while the BM25 index in memory stays what it was at startup.            *)
(***************************************************************************)
EXTENDS SearchPolicies

CONSTANTS
  Filter,           \* filter parts of mandates
  Profile,          \* rows of the companies table
  Mandates,         \* what sanitize_mandate can make of an LLM answer
  FallbackMandate,  \* what the deterministic parser makes of the query
  Catalogs,         \* contents the companies table can have
  MaxIterations,    \* limits.max_retrieval_iterations
  MaxRevised,       \* limits.max_revised_searches
  MaxCandidates,    \* limits.max_candidates_per_iter
  MaxValidate,      \* limits.max_candidates_to_validate
  MaxFinal,         \* limits.max_final_results
  Budgets,          \* limits.max_llm_calls_per_run a run can be given
  MaxCriteria,      \* most criteria one validation may carry (12)
  MaxReseeds,       \* bound on catalogue replacements during the run
  None

ASSUME LimitsAssumption ==
  /\ MaxIterations \in 1 .. 2 /\ MaxRevised \in 0 .. 1
  /\ MaxCandidates \in 1 .. 100 /\ MaxValidate \in 1 .. 10 /\ MaxFinal \in 1 .. 10
  /\ Budgets \subseteq 1 .. 5
  /\ MaxCriteria \in Nat /\ MaxReseeds \in Nat

\* The ids of the catalogue are 1 .. 50_000 (tools/get_company.py).  Nothing else
\* fits a hit or a verdict, so another id would be an error of the tool.
ASSUME IdAssumption == \A c \in Company : c >= 1

\* Both numbers of a row are INTEGER NOT NULL; a bound is an integer or not set.
ASSUME FieldAssumption ==
  /\ \A row \in Profile : row.employee_count \in Int /\ row.founded_year \in Int
  /\ \A f \in Filter : {f.employee_min, f.employee_max, f.founded_after, f.founded_before}
                          \subseteq Int \cup {NoBound}

MandateType == [filters : Filter, keywords : SUBSET Term, requirements : SUBSET Term]

ASSUME MandateAssumption == Mandates \subseteq MandateType /\ FallbackMandate \in MandateType

\* The fallback keeps the whole query as a requirement; when the query is
\* blank no rule of the deterministic parser can match it.
ASSUME FallbackAssumption ==
  /\ FallbackMandate.requirements # {}
  /\ FallbackMandate.requirements \subseteq Blank =>
        FallbackMandate.keywords = {} /\ ~HasStructuredFilters(FallbackMandate.filters)

ASSUME CatalogAssumption ==
  \A rows \in Catalogs : /\ DOMAIN rows \subseteq Company
                         /\ rows \in [DOMAIN rows -> Profile]

\* A batch of verdicts: the companies it names, whether it assesses each once and
\* on exactly the criteria sent, and the (company, criterion) pairs it supports.
BatchType == [ids : SUBSET Company, exact : BOOLEAN, support : SUBSET (Company \X Term)]

ValidationOutcome ==
  {"not_executed", "no_candidates", "no_eligible_candidates", "deterministic",
   "criterion_validation", "unverified"}

\* The run_end event: its aggregates, and how the run and its validation ended.
RunEndType ==
  [outcome : {"completed", "timeout", "failed"}, withErrors : BOOLEAN,
   final : Nat, retrieved : Nat, validated : Nat, validation_outcome : ValidationOutcome,
   iterations : Nat, revised : Nat, llm : Nat, tool : Nat]

ASSUME NoneAssumption ==
  None \notin MandateType /\ None \notin BatchType /\ None \notin RunEndType

VARIABLES
  node, at,
  mandate,     \* state["mandate"]: the one retrieval uses
  original,    \* state["original_mandate"]: the one acceptance uses
  plan,        \* state["plan"]
  candidates,  \* state["candidates"]
  iteration,   \* state["iteration"]
  revised,     \* state["revised_search_done"]
  eligible,    \* the (hit, record) pairs under validation
  verdict,     \* the last batch of verdicts that fitted the schema
  validation,  \* state["validation"]
  final,       \* state["final"]
  attempt,     \* attempts of the current complete_json call
  llmCalls,    \* ctx.llm_calls
  toolCalls,   \* ctx.tool_calls
  errors,      \* ctx.errors is not empty
  log,         \* ctx.events: what run_end and the ledger read of it
  outcome,     \* how the graph ended
  runEnd,      \* the terminal event
  catalog,     \* the companies table
  selected,    \* the table as the query of the tool saw it
  reseeds,
  budget       \* ctx.max_llm_calls

graph == <<mandate, original, plan, candidates, iteration, revised, eligible,
           verdict, validation, final>>
counters == <<llmCalls, toolCalls>>
ending == <<outcome, runEnd>>
surroundings == <<catalog, selected, reseeds, budget>>
vars == <<node, at, graph, attempt, counters, errors, log, ending, surroundings>>

LLMNode == {"parse_mandate", "revise_search", "validate_candidates"}
GraphNode == LLMNode \cup {"plan_search", "retrieve_and_score", "finalize"}

\* Mutant: the revision retries like the other two.
MaxAttemptsTwo == [n \in LLMNode |-> 2]

\* max_attempts of the three complete_json calls.
MaxAttempts == [n \in LLMNode |-> IF n = "revise_search" THEN 1 ELSE 2]

Init ==
  /\ node = "start" /\ at = "enter"
  /\ mandate = None /\ original = None /\ plan = None
  /\ candidates = {} /\ iteration = 0 /\ revised = FALSE
  /\ eligible = {} /\ verdict = None /\ validation = {} /\ final = {}
  /\ attempt = 0 /\ llmCalls = 0 /\ toolCalls = 0 /\ errors = FALSE
  /\ log = [llm |-> 0, tool |-> 0, revise |-> 0,
            retrieval |-> [iter |-> 0, kept |-> 0],
            validation |-> [outcome |-> "not_executed", validated |-> 0]]
  /\ outcome = "running" /\ runEnd = None
  /\ catalog \in Catalogs /\ selected = None /\ reseeds = 0 /\ budget \in Budgets

-----------------------------------------------------------------------------
(* What a node leaves in the graph state when it returns.                  *)

GoTo(n) == node' = n /\ at' = "enter" /\ attempt' = 0

\* after_parse always plans: a mandate is there, parsed or fallen back.
Understand(m) ==
  /\ mandate' = m /\ original' = m
  /\ GoTo("plan_search")
  /\ UNCHANGED <<plan, candidates, iteration, revised, eligible, verdict, validation, final>>

\* Mutant: original_mandate is the same object as mandate, not a deep copy.
RekeyAliased(keywords) ==
  /\ mandate' = [mandate EXCEPT !.keywords = keywords]
  /\ original' = mandate'
  /\ revised' = TRUE
  /\ GoTo("retrieve_and_score")
  /\ UNCHANGED <<plan, candidates, iteration, eligible, verdict, validation, final>>

\* A revision changes keywords and nothing else.
Rekey(keywords) ==
  /\ mandate' = [mandate EXCEPT !.keywords = keywords]
  /\ revised' = TRUE
  /\ GoTo("retrieve_and_score")
  /\ UNCHANGED <<original, plan, candidates, iteration, eligible, verdict, validation, final>>

\* Mutant: a weak pool is always revised again.
AfterRetrieveAgain(pool) ==
  IF MaxRevised > 0 /\ Weak(mandate, pool) THEN "revise_search" ELSE "validate_candidates"

AfterRetrieve(pool) ==
  IF /\ MaxRevised > 0 /\ iteration + 1 < MaxIterations
     /\ ~revised /\ Weak(mandate, pool)
    THEN "revise_search" ELSE "validate_candidates"

Retrieved(pool) ==
  /\ candidates' = TopK(pool, MaxCandidates)
  /\ iteration' = iteration + 1
  /\ GoTo(AfterRetrieve(candidates'))
  /\ UNCHANGED <<mandate, original, plan, revised, eligible, verdict, validation, final>>

\* Mutant: the event carries the iteration before the increment.
RetrievalEventEarly(lg) ==
  [lg EXCEPT !.retrieval = [iter |-> iteration, kept |-> Cardinality(candidates')]]

RetrievalEvent(lg) ==
  [lg EXCEPT !.retrieval = [iter |-> iteration + 1, kept |-> Cardinality(candidates')]]

\* Mutant: without a verdict a record that passed the filters is good enough.
AcceptedOnFilters(rows) == Ids(rows)

\* Who is relevant when there is no batch to go by: nobody.
AcceptedUnverified(rows) == {}

\* One validated item per eligible record; accepted are the ids found relevant
\* and evidence the fields their quotes come from.
Judge(rows, accepted, evidence) ==
  /\ validation' = {[id |-> r.id, company |-> r.company, score |-> r.score,
                     relevant |-> r.id \in accepted,
                     evidence |-> IF r.id \in accepted THEN evidence ELSE {}] : r \in rows}
  /\ GoTo("finalize")

ValidationEvent(lg, result, rows) ==
  [lg EXCEPT !.validation = [outcome |-> result, validated |-> Cardinality(rows)]]

-----------------------------------------------------------------------------
(* The call starts: run_start is written before the guarded section.       *)

Start ==
  /\ node = "start"
  /\ GoTo("parse_mandate")
  /\ UNCHANGED <<graph, counters, errors, log, ending, surroundings>>

StartFails ==
  /\ node = "start"
  /\ node' = "done" /\ outcome' = "failed"
  /\ UNCHANGED <<at, graph, attempt, counters, errors, log, runEnd, surroundings>>

-----------------------------------------------------------------------------
(* LLM attempts, shared by the three nodes that call complete_json.        *)

\* begin_llm_call, then the request is on its way.
ReserveCall ==
  /\ node \in LLMNode /\ at = "ready"
  /\ llmCalls < budget
  /\ llmCalls' = llmCalls + 1
  /\ attempt' = attempt + 1
  /\ at' = "llm"
  /\ UNCHANGED <<node, graph, toolCalls, errors, log, ending, surroundings>>

\* A recoverable error reaches the node: it falls back and goes on.
Recover(lg) ==
  /\ errors' = TRUE
  /\ CASE node = "parse_mandate" ->
            Understand(FallbackMandate) /\ log' = lg
       [] node = "revise_search" ->
            Rekey(mandate.keywords) /\ log' = [lg EXCEPT !.revise = @ + 1]
       [] node = "validate_candidates" ->
            /\ Judge(eligible, AcceptedUnverified(eligible), PolicyEvidence(original.filters))
            /\ log' = ValidationEvent(lg, "unverified", eligible)
            /\ UNCHANGED <<mandate, original, plan, candidates, iteration, revised,
                           eligible, verdict, final>>
  /\ UNCHANGED <<counters, ending, surroundings>>

\* begin_llm_call raises BudgetExceededError; no llm_call event is logged.
BudgetExhausted ==
  /\ node \in LLMNode /\ at = "ready"
  /\ llmCalls >= budget
  /\ Recover(log)

\* Mutant: an attempt is logged only when its reply is used.
AttemptUnlogged == log

\* The llm_call event of an attempt that came back.
AttemptLogged == [log EXCEPT !.llm = @ + 1]

\* Text that is no valid instance of the schema: retried while attempts last.
MalformedReply ==
  /\ node \in LLMNode /\ at = "llm"
  /\ \/ /\ attempt < MaxAttempts[node]
        /\ at' = "ready" /\ log' = AttemptLogged
        /\ UNCHANGED <<node, graph, attempt, counters, errors, ending, surroundings>>
     \/ /\ attempt >= MaxAttempts[node]
        /\ Recover(AttemptLogged)

\* Timeout, connection error, 5xx, 404, 429: never retried.
ProviderUnavailable ==
  /\ node \in LLMNode /\ at = "llm"
  /\ Recover(AttemptLogged)

\* The exception leaves the graph; at stays, so the ledger shows what was open.
Abort ==
  /\ node' = "end" /\ outcome' = "failed" /\ errors' = TRUE
  /\ UNCHANGED <<graph, attempt, counters, runEnd, surroundings>>

\* Any other provider error (authentication, bad request, no choice in the
\* reply) is logged by the client and recovered by nobody.
ProviderFatal ==
  /\ node \in LLMNode /\ at = "llm"
  /\ at' = "enter" /\ log' = AttemptLogged
  /\ Abort

-----------------------------------------------------------------------------
(* The nodes.                                                              *)

ParseMandate ==
  /\ node = "parse_mandate" /\ at = "enter"
  /\ at' = "ready"
  /\ UNCHANGED <<node, graph, attempt, counters, errors, log, ending, surroundings>>

ParseReply ==
  /\ node = "parse_mandate" /\ at = "llm"
  /\ \E m \in Mandates : Understand(m)
  /\ log' = AttemptLogged
  /\ UNCHANGED <<counters, errors, ending, surroundings>>

\* The plan is made of the mandate; after_plan skips retrieval when there is
\* nothing to retrieve by.
PlanSearch ==
  /\ node = "plan_search"
  /\ plan' = [use_bm25    |-> RetrievalQuery(mandate) # {},
              use_filters |-> HasStructuredFilters(mandate.filters)]
  /\ GoTo(IF plan'.use_bm25 \/ plan'.use_filters
            THEN "retrieve_and_score" ELSE "validate_candidates")
  /\ UNCHANGED <<mandate, original, candidates, iteration, revised, eligible,
                 verdict, validation, final, counters, errors, log, ending, surroundings>>

NeedsTool ==
  \/ HasStructuredFilters(mandate.filters)
  \/ plan.use_bm25 /\ RetrievalQuery(mandate) # {}

\* ToolRegistry.invoke counts the call before it awaits the tool.
InvokeTool ==
  /\ node = "retrieve_and_score" /\ at = "enter"
  /\ NeedsTool
  /\ toolCalls' = toolCalls + 1
  /\ at' = "tool"
  /\ UNCHANGED <<node, graph, attempt, llmCalls, errors, log, ending, surroundings>>

ToolLogged == [log EXCEPT !.tool = @ + 1]

\* The query of the tool selects rows; the hits are ranked from it later, in a
\* thread, when the table may be another one. The lexical tool has no query.
QueryTable ==
  /\ node = "retrieve_and_score" /\ at = "tool"
  /\ selected' = catalog
  /\ at' = "rank"
  /\ UNCHANGED <<node, graph, attempt, counters, errors, log, ending, catalog, reseeds, budget>>

ToolReturns ==
  /\ node = "retrieve_and_score" /\ at = "rank"
  /\ Retrieved(Retrieve(mandate, plan.use_bm25, selected, MaxCandidates))
  /\ log' = RetrievalEvent(ToolLogged)
  /\ UNCHANGED <<counters, errors, ending, surroundings>>

\* A tool that raises is an empty result with an error on record.
ToolFails ==
  /\ node = "retrieve_and_score" /\ at \in {"tool", "rank"}
  /\ Retrieved({})
  /\ errors' = TRUE
  /\ log' = RetrievalEvent(ToolLogged)
  /\ UNCHANGED <<counters, ending, surroundings>>

\* A revision can leave only blank keywords, and then nothing to search by.
RetrieveNothing ==
  /\ node = "retrieve_and_score" /\ at = "enter"
  /\ ~NeedsTool
  /\ Retrieved({})
  /\ log' = RetrievalEvent(log)
  /\ UNCHANGED <<counters, errors, ending, surroundings>>

\* The summary of the best candidates is read; a company that is gone is skipped.
ReviseSearch ==
  /\ node = "revise_search" /\ at = "enter"
  /\ at' = "ready"
  /\ UNCHANGED <<node, graph, attempt, counters, errors, log, ending, surroundings>>

\* The proposal is a whole mandate; only its keywords are taken, if it has any.
ReviseReply ==
  /\ node = "revise_search" /\ at = "llm"
  /\ \E m \in Mandates :
        Rekey(IF m.keywords # {} THEN m.keywords ELSE mandate.keywords)
  /\ log' = [AttemptLogged EXCEPT !.revise = @ + 1]
  /\ UNCHANGED <<counters, errors, ending, surroundings>>

\* The cap comes before the eligibility check.
ToValidate == TopK(candidates, MaxValidate)

\* A database error outside a tool ends the run.
DatabaseFails ==
  /\ node \in {"revise_search", "validate_candidates"} /\ at = "enter"
  /\ candidates # {}
  /\ Abort
  /\ UNCHANGED <<at, log>>

NothingToValidate ==
  /\ node = "validate_candidates" /\ at = "enter"
  /\ ToValidate = {}
  /\ Judge({}, {}, {})
  /\ log' = ValidationEvent(log, "no_candidates", {})
  /\ UNCHANGED <<mandate, original, plan, candidates, iteration, revised, eligible,
                 verdict, final, counters, errors, ending, surroundings>>

\* Mutant: a candidate without a lexical score is not looked up again.
StillEligibleIfScored(hit) ==
  /\ hit.id \in DOMAIN catalog /\ hit.bm25_score > 0
  /\ Matches(original.filters, catalog[hit.id])

\* Mutant: a row that still exists is taken as still eligible.
StillEligibleIfPresent(hit) == hit.id \in DOMAIN catalog

StillEligible(hit) ==
  hit.id \in DOMAIN catalog /\ Matches(original.filters, catalog[hit.id])

\* Mutant: records come in id order and are paired with the hits as they come.
RecordInOrder(hit) ==
  LET ids == {h.id : h \in {g \in ToValidate : g.id \in DOMAIN catalog}}
      place == Cardinality({h \in ToValidate : h.id \in ids /\ Better(h, hit)})
  IN  catalog[CHOOSE c \in ids : Cardinality({d \in ids : d < c}) = place]

\* The record read for a hit, found by its id.
RecordOf(hit) == catalog[hit.id]

\* Only now are records read; a row that is gone or no longer matches the
\* original filters is dropped, and no other candidate takes its place.
FetchRecords ==
  /\ node = "validate_candidates" /\ at = "enter"
  /\ ToValidate # {}
  /\ eligible' = {[id |-> hit.id, company |-> RecordOf(hit), score |-> hit.score] :
                    hit \in {h \in ToValidate : StillEligible(h)}}
  /\ LET criteria == SemanticCriteria(original) IN
       \/ /\ eligible' = {}
          /\ Judge({}, {}, {})
          /\ log' = ValidationEvent(log, "no_eligible_candidates", {})
          /\ UNCHANGED errors
       \/ /\ eligible' # {} /\ criteria = {}
          /\ Judge(eligible',
                   IF PolicyEvidence(original.filters) # {} THEN Ids(eligible') ELSE {},
                   PolicyEvidence(original.filters))
          /\ log' = ValidationEvent(log, "deterministic", eligible')
          /\ UNCHANGED errors
       \/ /\ eligible' # {} /\ Cardinality(criteria) > MaxCriteria
          /\ Judge(eligible', AcceptedUnverified(eligible'), PolicyEvidence(original.filters))
          /\ log' = ValidationEvent(log, "unverified", eligible')
          /\ errors' = TRUE
       \/ /\ eligible' # {} /\ criteria # {} /\ Cardinality(criteria) <= MaxCriteria
          /\ at' = "ready"
          /\ UNCHANGED <<node, attempt, validation, log, errors>>
  /\ UNCHANGED <<mandate, original, plan, candidates, iteration, revised, verdict,
                 final, counters, ending, surroundings>>

\* The batches that answer a request: they name the companies asked about, or
\* one less, or one more; a pair counts as supported if its quote is found.
Batches(ids, criteria) ==
  [ids : {ids} \cup {ids \ {c} : c \in ids} \cup {ids \cup {c} : c \in Company},
   exact : BOOLEAN,
   support : SUBSET (ids \X criteria)]

ExactBatch(b, ids) == b.ids = ids /\ b.exact

FullySupported(b, c, criteria) == \A k \in criteria : <<c, k>> \in b.support

ValidateReply ==
  /\ node = "validate_candidates" /\ at = "llm"
  /\ \E b \in Batches(Ids(eligible), SemanticCriteria(original)) :
       /\ verdict' = b
       /\ \/ /\ ExactBatch(b, Ids(eligible))
             /\ Judge(eligible,
                      {c \in b.ids : FullySupported(b, c, SemanticCriteria(original))},
                      PolicyEvidence(original.filters) \cup {"criteria"})
             /\ log' = ValidationEvent(AttemptLogged, "criterion_validation", eligible)
             /\ UNCHANGED errors
          \/ /\ ~ExactBatch(b, Ids(eligible))
             /\ Judge(eligible, AcceptedUnverified(eligible), PolicyEvidence(original.filters))
             /\ log' = ValidationEvent(AttemptLogged, "unverified", eligible)
             /\ errors' = TRUE
  /\ UNCHANGED <<mandate, original, plan, candidates, iteration, revised, eligible,
                 final, counters, ending, surroundings>>

Finalize ==
  /\ node = "finalize"
  /\ final' = TopK({v \in validation : v.relevant /\ v.evidence # {}}, MaxFinal)
  /\ node' = "end" /\ outcome' = "completed"
  /\ UNCHANGED <<at, mandate, original, plan, candidates, iteration, revised, eligible,
                 verdict, validation, attempt, counters, errors, log, runEnd, surroundings>>

-----------------------------------------------------------------------------
(* How the call ends.                                                      *)

\* Mutant: the timer is only looked at between nodes.
AtNodeBoundary == node \in GraphNode /\ at = "enter"

AtAwait == node \in GraphNode /\ at # "ready"

Timeout ==
  /\ AtAwait
  /\ node' = "end" /\ outcome' = "timeout" /\ errors' = TRUE
  /\ UNCHANGED <<at, graph, attempt, counters, log, runEnd, surroundings>>

\* CancelledError is no Exception: no handler runs but the finally block.
Cancel ==
  /\ AtAwait
  /\ node' = "end" /\ outcome' = "cancelled"
  /\ UNCHANGED <<at, graph, attempt, counters, errors, log, runEnd, surroundings>>

\* The finally block.  Without a final state it reads the counts from the last
\* events; a cancelled run still carries the outcome it was given at the start.
EndRun ==
  /\ node = "end"
  /\ LET finished == outcome = "completed" IN
     runEnd' = [outcome    |-> IF outcome = "cancelled" THEN "completed" ELSE outcome,
                withErrors |-> errors,
                final      |-> IF finished THEN Cardinality(final) ELSE 0,
                retrieved  |-> IF finished THEN Cardinality(candidates) ELSE log.retrieval.kept,
                validated  |-> IF finished THEN Cardinality(validation) ELSE log.validation.validated,
                validation_outcome |-> log.validation.outcome,
                iterations |-> IF finished THEN iteration ELSE log.retrieval.iter,
                revised    |-> log.revise,
                llm        |-> llmCalls,
                tool       |-> toolCalls]
  /\ node' = "done"
  /\ UNCHANGED <<at, graph, attempt, counters, errors, log, outcome, surroundings>>

\* Ingestion replaces the whole table in one transaction.
Reseed ==
  /\ node \in GraphNode
  /\ reseeds < MaxReseeds
  /\ \E rows \in Catalogs \ {catalog} : catalog' = rows
  /\ reseeds' = reseeds + 1
  /\ UNCHANGED <<node, at, graph, attempt, counters, errors, log, ending, selected, budget>>

\* The call has returned or raised.
Returned == node = "done" /\ UNCHANGED vars

Provider == ParseReply \/ ReviseReply \/ ValidateReply \/ MalformedReply
            \/ ProviderUnavailable \/ ProviderFatal
Service ==
  \/ Start \/ StartFails \/ ParseMandate \/ ReserveCall \/ BudgetExhausted \/ PlanSearch
  \/ InvokeTool \/ RetrieveNothing \/ ReviseSearch \/ NothingToValidate \/ FetchRecords
  \/ Finalize \/ EndRun
Database == QueryTable \/ ToolReturns \/ ToolFails \/ DatabaseFails \/ Reseed

Next == Service \/ Provider \/ Database \/ Timeout \/ Cancel \/ Returned

\* The event loop runs the service and fires its timer; nothing makes the
\* provider, the database or the caller do anything.
Fairness == WF_vars(Start \/ StartFails) /\ WF_vars(EndRun)
            /\ WF_vars(ReserveCall \/ BudgetExhausted) /\ WF_vars(Timeout)

Spec == Init /\ [][Next]_vars
FairSpec == Spec /\ Fairness
-----------------------------------------------------------------------------
(* What must hold.                                                         *)

EvidenceField == {"industry", "location", "revenue_range", "employee_count",
                  "founded_year", "criteria"}
LogType == [llm : Nat, tool : Nat, revise : Nat,
            retrieval : [iter : Nat, kept : Nat],
            validation : [outcome : ValidationOutcome, validated : Nat]]

\* Every variable has the type its field of AgentState or RunContext has, and
\* the two counters of AgentState stay inside their configured limits.
TypeOK ==
  /\ node \in {"start", "end", "done"} \cup GraphNode
  /\ at \in {"enter", "ready", "llm", "tool", "rank"}
  /\ mandate \in MandateType \cup {None}
  /\ original \in MandateType \cup {None}
  /\ plan \in [use_bm25 : BOOLEAN, use_filters : BOOLEAN] \cup {None}
  /\ Ids(candidates) \subseteq Company /\ IsFiniteSet(candidates)
  /\ iteration \in 0 .. MaxIterations /\ revised \in BOOLEAN
  /\ verdict \in BatchType \cup {None} /\ IsFiniteSet(eligible)
  /\ \A r \in eligible : r.id \in Company /\ r.company \in Profile
  /\ \A v \in validation \cup final :
        /\ v.id \in Company /\ v.company \in Profile
        /\ v.relevant \in BOOLEAN /\ v.evidence \subseteq EvidenceField
  /\ attempt \in 0 .. 2 /\ budget \in Budgets /\ llmCalls \in 0 .. budget /\ toolCalls \in Nat
  /\ errors \in BOOLEAN /\ log \in LogType
  /\ outcome \in {"running", "completed", "timeout", "failed", "cancelled"}
  /\ catalog \in Catalogs /\ selected \in Catalogs \cup {None} /\ reseeds \in 0 .. MaxReseeds

\* Nothing is returned that the mandate shown to the caller does not admit:
\* each answered record satisfies the hard filters of the original mandate,
\* and the validator supported each of its criteria in a batch that named
\* exactly the validated companies. Without criteria there are hard filters.
\* Revision, a re-seeded table and every validator reply stand in between.
AnswersAreGrounded ==
  \A v \in final :
    /\ Matches(original.filters, v.company)
    /\ IF SemanticCriteria(original) = {}
         THEN HasStructuredFilters(original.filters)
         ELSE /\ verdict # None
              /\ ExactBatch(verdict, Ids(eligible))
              /\ FullySupported(verdict, v.id, SemanticCriteria(original))

\* Degraded mode: after the deterministic parse, a run whose validator never
\* delivered a batch answers nothing, even if all the filters were satisfied.
FallbackNeedsValidator ==
  original = FallbackMandate /\ verdict = None => final = {}

\* Only two ways of validating return anything: filters decided alone because
\* there was no criterion, or an exact batch. A starved budget, a batch that
\* names the wrong companies or too many criteria return nothing.
UnverifiedAnswersNothing ==
  log.validation.outcome \notin {"deterministic", "criterion_validation"} => final = {}

\* A retrieval pool never leaves the hard filters the user started with, in the
\* table its query saw: not on the second search, whatever mandate the revision
\* proposed, and not with an index that knows other companies than the table.
PoolsStayInsideFilters ==
  [][candidates' # candidates =>
       \A cand \in candidates' :
          HasStructuredFilters(original.filters) =>
             cand.id \in EligibleIds(selected, original.filters)]_vars

\* The cut to a pool is made after the hard filters and by lexical score: an
\* eligible row of the index that is left out finds the pool full of rows that
\* score no worse, wherever in the table it is (once a LIMIT came first).
NobodyIsCutEarly ==
  [][ToolReturns /\ HasStructuredFilters(original.filters)
       /\ plan.use_bm25 /\ Tokens(RetrievalQuery(mandate)) # {} =>
       \A c \in (EligibleIds(selected, original.filters) \cap Indexed) \ Ids(candidates') :
         /\ Cardinality(candidates') = MaxCandidates
         /\ \A cand \in candidates' :
              cand.bm25_score >= NonNegative(BM25[c][Tokens(RetrievalQuery(mandate))])]_vars

\* Rows that satisfy the filters do not vanish behind a query the index cannot
\* read: when the tool finds nobody although the index has such rows, the
\* keywords are revised first, unless the run has revised before.
EmptyPoolIsRevised ==
  [][ToolReturns /\ HasStructuredFilters(original.filters) /\ candidates' = {}
     /\ EligibleIds(selected, original.filters) \cap Indexed # {}
     => node' = "revise_search" \/ revised \/ MaxRevised = 0 \/ iteration' >= MaxIterations]_vars

\* The cut to the validated ones comes before the eligibility check, so a
\* changed table can cost candidates. An unchanged one cannot: with hard filters
\* every candidate under the cut is judged, as many as there are to judge.
UnchangedTableLosesNobody ==
  reseeds = 0 /\ log.validation.outcome # "not_executed"
    /\ HasStructuredFilters(original.filters)
  => Cardinality(validation) = Cardinality(ToValidate)

\* Once understood, the mandate that is returned and judged by never changes,
\* and a revision keeps everything of the working mandate but its keywords.
RevisionKeepsRequirements ==
  [][original # None =>
       /\ original' = original
       /\ mandate' = [original EXCEPT !.keywords = mandate'.keywords]]_vars

\* The ledger: attempts and tool calls that were counted are the ones that were
\* logged, except the one that a timeout or a cancellation left open.
LedgerBalances ==
  /\ llmCalls = log.llm + (IF at = "llm" THEN 1 ELSE 0)
  /\ toolCalls = log.tool + (IF at \in {"tool", "rank"} THEN 1 ELSE 0)

\* With the full budget of five no stage is ever starved: two parse attempts
\* and a revision always leave the validator both of its attempts.
FullBudgetSuffices ==
  budget = 5 =>
    /\ ~(node \in LLMNode /\ at = "ready" /\ llmCalls >= budget)
    /\ node = "validate_candidates" /\ at = "enter" => budget - llmCalls >= 2

\* However the run ended, the aggregates of run_end are the progress the graph
\* made, although an interrupted run has no final state to read them from.
RunEndShowsProgress ==
  runEnd # None =>
    /\ runEnd.iterations = iteration
    /\ runEnd.retrieved = Cardinality(candidates)
    /\ runEnd.validated = Cardinality(validation)
    /\ runEnd.final = Cardinality(final)
    /\ runEnd.revised = (IF revised THEN 1 ELSE 0)
    /\ runEnd.llm <= budget /\ runEnd.tool <= iteration + 1

\* Every call comes to an end, whatever the provider and the database do.
EveryCallEnds == <>(node = "done")

\* The inductive invariant.  Where the run is decides what it already has ...
Progress ==
  /\ node \in {"start", "parse_mandate"} => mandate = None /\ original = None
  /\ node \in {"plan_search", "retrieve_and_score", "revise_search",
              "validate_candidates", "finalize"} =>
        original \in MandateType /\ mandate \in MandateType
  /\ original = None => mandate = None
  /\ original # None => mandate = [original EXCEPT !.keywords = mandate.keywords]
  /\ node \in {"start", "parse_mandate", "plan_search"} => iteration = 0 /\ ~revised
  /\ node \in {"retrieve_and_score", "revise_search"} =>
        /\ plan \in [use_bm25 : BOOLEAN, use_filters : BOOLEAN]
        /\ iteration < MaxIterations
  /\ node = "revise_search" => ~revised
  /\ node \in {"start"} \cup GraphNode =>
        /\ at = "enter" => attempt = 0
        /\ at \in {"ready", "llm"} => node \in LLMNode
        /\ at \in {"tool", "rank"} => node = "retrieve_and_score"
        /\ at = "rank" => selected \in Catalogs
  /\ node = "start" => at = "enter"
  /\ node \in LLMNode =>
        /\ attempt <= MaxAttempts[node]
        /\ at = "ready" => attempt < MaxAttempts[node]

\* ... how much of the LLM budget each stage can have used ...
Spending ==
  /\ node = "start" => llmCalls = 0
  /\ node = "parse_mandate" => llmCalls = attempt
  /\ node \in {"plan_search", "retrieve_and_score"} => llmCalls <= IF revised THEN 3 ELSE 2
  /\ node = "revise_search" => llmCalls <= 2 + attempt
  /\ node = "validate_candidates" => llmCalls <= 3 + attempt

\* ... what the events of the run say of its progress ...
Bookkeeping ==
  /\ node \in {"start"} \cup GraphNode => outcome = "running"
  /\ outcome # "completed" => final = {}
  /\ log.retrieval = [iter |-> iteration, kept |-> Cardinality(candidates)]
  /\ log.validation.validated = Cardinality(validation)
  /\ log.revise = IF revised THEN 1 ELSE 0
  /\ toolCalls <= iteration + (IF at \in {"tool", "rank"} THEN 1 ELSE 0)
  /\ \A r \in eligible : r = [id |-> r.id, company |-> r.company, score |-> r.score]
  /\ runEnd # None => node = "done"
  /\ RunEndShowsProgress

\* ... and on what grounds a company can be relevant or in the answer.
Grounds ==
  /\ node \in ({"start"} \cup GraphNode) \ {"finalize"} =>
        validation = {} /\ final = {} /\ verdict = None
  /\ node \in ({"start"} \cup GraphNode) \ {"finalize", "validate_candidates"} => eligible = {}
  /\ node = "validate_candidates" =>
        IF at = "enter" THEN eligible = {} ELSE SemanticCriteria(original) # {}
  /\ \A r \in eligible : Matches(original.filters, r.company)
  /\ \A v \in validation :
        /\ \E r \in eligible : v.id = r.id /\ v.company = r.company
        /\ v.relevant =>
             IF SemanticCriteria(original) = {}
               THEN HasStructuredFilters(original.filters)
               ELSE /\ verdict # None
                    /\ ExactBatch(verdict, Ids(eligible))
                    /\ FullySupported(verdict, v.id, SemanticCriteria(original))
                    /\ log.validation.outcome = "criterion_validation"
  /\ \A v \in validation : v.relevant =>
        log.validation.outcome \in {"deterministic", "criterion_validation"}
  /\ final \subseteq {v \in validation : v.relevant}

\* All of what the answers and the budget rest on, in one inductive formula.
IInv == TypeOK /\ Progress /\ Spending /\ Bookkeeping /\ Grounds

\* The caller sees a request that is open until the call is over and then
\* answered or failed; the answer is what SearchResponse.final is built from.
Answered == node = "done" /\ outcome = "completed"

Records(items) == {[id |-> v.id, company |-> v.company] : v \in items}

AdmitsRow(m, row) == Matches(m.filters, row)

Contract == INSTANCE SearchContract WITH
  Understandings <- Mandates \cup {FallbackMandate},
  Tables     <- Catalogs,
  Admits     <- AdmitsRow,
  MaxAnswer  <- MaxFinal,
  Unknown    <- None,
  status     <- IF node # "done" THEN "open" ELSE IF Answered THEN "answered" ELSE "failed",
  understood <- original,
  vetted     <- Records(eligible),
  answer     <- IF Answered THEN Records(final) ELSE {},
  table      <- catalog

\* The workflow implements the contract.
ImplementsContract == Contract!ContractSpec

\* Claimed: "The terminal run_end event is written on success, timeout, and
\* exception" (README), for "every exit path" (workflow_service.py).
RunEndOnEveryExit == node = "done" => runEnd # None

\* Claimed with it: the outcome of run_end tells success from the other ends.
CompletedMeansAnswered ==
  runEnd # None => (runEnd.outcome = "completed" => outcome = "completed")
=============================================================================
