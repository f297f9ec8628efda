# Formal model of the comparables search service

TLA+ modules, TLC configurations and TLAPS proofs for the service in this
repository: a FastAPI application that reads a free-text acquisition mandate,
finds comparable companies in SQLite and a BM25 index, lets a language model
judge them, and answers with at most ten. Paths below are relative to
`src/comparables/` in the repository unless they start elsewhere.

Contents: [inventory](#1-inventory), [modules and code](#2-modules-and-the-code-they-model),
[runs](#3-runs), [fairness](#4-fairness), [what the code does not keep](#5-promises-the-code-does-not-keep),
[proofs](#6-proofs), [abstractions](#7-abstractions-and-what-is-left-out), [plan](#8-plan).

## 1. Inventory

### How a request flows

```
HTTP  --> request id middleware --> WorkflowService.invoke  (timer around the graph)
              run_start -> RunRepository                     one RunContext: counters, events, errors
              LangGraph:  parse_mandate -> plan_search -> retrieve_and_score --+--> validate_candidates -> finalize
                              |                               ^                |            |
                           LLMClient                          |          revise_search   SemanticValidationService
                         (or deterministic parser)            +---------------+            |
                                                    ToolRegistry -> CompanyRepository    LLMClient
                                                                 -> BM25Repository       CompanyRepository
              all events, then run_end -> RunRepository <--- GET /api/v1/runs/{id}

ingestion job --> companies.sqlite, then bm25.pkl --> API process at startup (ServiceRegistry) --> /health/ready
```

The process is one asyncio event loop. Requests share the repositories, the
client and the loaded index; a `RunContext` belongs to one request. SQLite is
reached through an async driver; BM25 ranking and the appends of the run log run
in worker threads. Only three things outlive the process: the SQLite file, the
pickled index and the run logs.

### Components

| component | state it keeps | operations | what makes it correct |
|---|---|---|---|
| workflow service (`services/workflow_service.py`, `core/context.py`) | per request: counters of LLM and tool calls, error list, event buffer, outcome | `invoke`, `_run_graph`, `run_end`, `_persist_events` | every call ends; each counted call has its event; run_end shows the progress made; the outcome tells how it ended |
| agent graph, nodes, edges (`agent/graph.py`, `nodes.py`, `edges.py`, `state.py`) | `AgentState`: mandate, original mandate, plan, candidates, iteration, revision flag, validation, final | six nodes, the conditional edges between them | answers are grounded in the *original* mandate; a revision changes keywords only; the retrieval loop ends |
| deterministic policies (`agent/policies.py`, `semantic.py`) | none | criteria, retrieval query, hard filters, evidence, merge, order, acceptance of a verdict | the policy that accepts a fetched row agrees with the SQL that selected it; retrieval stays in the hard filters |
| LLM client (`llm/client.py`) | none of its own; spends the run's budget | `complete_json` with retries, `complete`, `ping` | never more than the budget; every attempt is logged once, also on failure |
| structured output (`llm/structured.py`) | none | extraction of a JSON object, pydantic validation | a valid object in a reply is found |
| semantic validation (`services/semantic_validation.py`) | none | `validate` | fails closed: a batch counts only if it names every company once, on every criterion sent |
| retrieval tools (`tools/*.py`, `services/filtered_search.py`) | registry | `invoke`, structured, lexical and filtered search, `get_company` | counted and logged whatever happens; a failing tool is an empty result |
| company repository and sessions (`repositories/company_repo.py`, `db/`) | `companies` table | `select_ids_by_filters`, reads by id, seeding, startup check | a query sees one table; seeding is one transaction |
| BM25 repository (`repositories/bm25_repo.py`) | documents, ids and matrix in memory | `load`, `search`, `rank_eligible`, `score_candidates` | ranks only ids it is given; deterministic order |
| run log (`repositories/run_repo.py`, `schemas/run.py`, `api/v1/endpoints/runs.py`) | `runs/<id>.jsonl` | `write_event`, `read` | lines stay ordered and whole; what a read shows is never taken back |
| ingestion (`ingestion/index.py`, `scripts/ingest.py`) | both catalogue files | `run_ingestion` | success leaves one matching pair; a failure is not mistaken for one |
| runtime, lifespan, readiness (`runtime/services.py`, `lifespan.py`, `api/v1/endpoints/health.py`) | `sqlite_ready`, `bm25_loaded`, the index in memory | startup, shutdown, `/health/ready` | ready only with data |
| deployment (`docker-compose.yml`, `scripts/entrypoint.sh`, `migrations/`) | containers | order of job and API, restart policy, migration on start | the API serves a matching pair |
| request id middleware (`runtime/middleware.py`) | a context variable | inherits `X-Run-Id` or generates an id | ids tell runs apart |
| mandate sanitizer and fallback parser (`agent/sanitize.py`) | none | `sanitize_mandate`, `fallback_mandate` | explicit constraints take precedence; values outside the catalogue vocabulary are dropped |
| relevance evaluation (`src/scripts/eval_relevance.py`, `relevance_support.py`) | the rows measured so far, status, exit code | check of the labels, retrieval cases, semantic cases under a timer and budget of their own | nothing that failed is lost or counted as a success; exit code 0 is earned; a data set that is let in can be passed |
| search evaluation (`src/scripts/run_eval.py`) | none | checks of a response against mandate, run log and table | whatever the workflow answers passes them |
| HTTP layer, configuration, prompts and schemas | none after startup | wiring, settings, text | limits stay inside their declared ranges |

### What is hard here

- **Interruption at an await.** The timer of `asyncio.wait_for` or the client's
  disconnect ends the graph between "counted" and "logged", between two nodes or
  while a thread ranks. What is then written about the run must still be true.
- **One budget, three spenders.** Parsing, revision and validation share
  `max_llm_calls_per_run`; an attempt too many in one is missed in another.
- **A revised mandate beside the original one.** Retrieval must use the first,
  acceptance the second.
- **Three views of the catalogue.** The index loaded at startup, the table when
  the candidates were selected, the table when their records are fetched.
- **Words from a model.** A reply is prose around an object around verdicts around
  quotes; each layer can be cut wrong, repeated, left out or invented.
- **Degraded modes.** Provider unavailable, malformed replies, the deterministic
  parser, a batch of verdicts that names the wrong companies.
- **Files.** Two catalogue files replaced one after the other, a log several
  threads append to, disks that fill up, processes that die between two steps.

PROJECT.json lists each hazard at its line with the properties that watch it, and
the ones no property watches yet with the reason.

## 2. Modules and the code they model

| module | models | extended by |
|---|---|---|
| `SearchPolicies` | pure operators: criteria, query, filters, ranking, merging | `AgentWorkflow`, `MandateSanitizer`, `RelevanceEvaluation`, `SearchPoliciesProofs` |
| `SemanticAcceptance` | pure operators: from the text of a reply to the decision on a company | `RelevanceEvaluation`, `SemanticAcceptanceProofs` |
| `AgentWorkflow` | one request from `invoke` to `run_end` | `SearchEvaluation`, `AgentWorkflowProofs` |
| `SearchContract` | what a caller is promised; instantiated by `AgentWorkflow` | |
| `SearchEvaluation` | the checks of `run_eval.py` on what a request leaves behind | `MCAgentWorkflow`, `SearchAnswerProofs` |
| `RelevanceEvaluation` | the labelled relevance suite | `MCRelevanceEvaluation`, `RelevanceEvaluationProofs` |
| `RunLog` | writing and reading run logs, several requests | `MCRunLog`, `RunLogProofs` |
| `MandateSanitizer` | from query and proposal to mandate | `MCMandateSanitizer`, `MandateSanitizerProofs` |
| `CatalogLifecycle` | ingestion job, catalogue files, API process | `MCCatalogLifecycle`, `CatalogLifecycleProofs` |

### SearchPolicies

A term stands for one keyword or requirement up to spelling, spacing and alias;
lists of terms are sets, since the code removes duplicates and nothing depends on
their order. `Blank` terms are empty once stripped; `Opaque` ones have no
character of the tokenizer's alphabet. `SemanticCriteria` and `RetrievalQuery`
are the two readings of a mandate in `agent/semantic.py`. The hard filters are
there twice, as in the code: `Matches` (the policy on a fetched record) and
`EligibleIds` (the WHERE clauses). `Bm25Search`, `RankEligible` and
`FilterSearch` are the three searches; a ranked list is a set of hits whose order
is "score, then id", and a cut is `TopK`. `Merge` and `Retrieve` combine them as
`retrieve_and_score` does. Weights and normalised scores are scaled to integers
(the fields multiplied are named at `Merge`), which keeps sign and order within
one list.

### AgentWorkflow

`node` is the graph node; `at` is where it is inside: `enter`, `ready` (about to
reserve an attempt, no await before it), `llm`, `tool` (the catalogue query), `rank`
(what follows the query in the tool). The other variables carry the names of the
fields of `AgentState` and `RunContext`; `log` is what run_end and the ledger read
of the event buffer.

| action | code |
|---|---|
| `Start`, `StartFails` | the `run_start` write before the `try` of `invoke` |
| `ParseMandate`, `ParseReply` | `parse_mandate`, its reply and its fallback |
| `ReserveCall`, `BudgetExhausted`, `MalformedReply`, `ProviderUnavailable`, `ProviderFatal` | the attempt loop of `complete_json` and each class of failure |
| `PlanSearch` | `plan_search` |
| `InvokeTool`, `QueryTable`, `ToolReturns`, `ToolFails`, `RetrieveNothing` | `retrieve_and_score` with `ToolRegistry.invoke`; query and ranking are separate steps because the table may change between them |
| `ReviseSearch`, `ReviseReply` | `revise_search` |
| `NothingToValidate`, `FetchRecords`, `ValidateReply` | `validate_candidates` and `SemanticValidationService.validate` |
| `DatabaseFails` | a database error outside a tool, which no node handles |
| `Finalize` | `finalize` |
| `Timeout`, `Cancel` | the timer and a cancellation, at every await |
| `EndRun` | the `finally` block |
| `Reseed` | a concurrent ingestion that replaces the table |

Conditional edges are part of the action that leaves the node. The provider may
send any batch that fits the schema: the companies asked about, one less or one
more, each assessed once or not, with any set of supported pairs.

`SearchContract` states what a caller gets without nodes, retries, budgets or
timers: one understanding of the query; one vetting of rows of one table against
its hard filters; a bounded selection of them, or a failure. `ImplementsContract`
maps `understood` to the original mandate, `vetted` to the records under
validation and `answer` to what the response is built from.

### SemanticAcceptance

A reply is a text and what its object says. The text is a sequence of chunks
(fences, newlines, prose, `open` and `close` for the braces, the members of one
object); `Object` cuts it as
`extract_json_object` does, `Parses` adds the limits of the batch schema: the lengths
of its lists, ids from one, and spans of at most 1,000 characters (a span in
`LongSpan` is longer). A batch
is a sequence of verdicts, a verdict a sequence of items with criterion id, status
and quotes, so that ids can be missing, doubled or unknown. `ExactlyCovers` is the
check of `SemanticValidationService.validate`; `Assess` is
`SemanticAcceptancePolicy.assess`, with the quotes looked up in the texts of the
record. `AgentWorkflow` keeps of a batch only which companies and criteria it
covers and which pairs it supports; `SupportDecides` (section 6) shows that the
decision depends on nothing else.

### SearchEvaluation and RelevanceEvaluation

`SearchEvaluation` writes down the checks of `run_eval.py` from the script, not
from the workflow: `PoolTelemetry` on what a response's log tells of pools, `ContractChecks` and
`TableChecks` on the response, `FailedMetrics` on a call that raised. The log is read only
if the exception names the run (`CarriesRunId`). `invoke` writes the id on a
`ComparablesError`, and the only one that leaves the graph is the timer's; the rows of all
other failures are zeros. Its properties are about the states of `AgentWorkflow` in which
a call is over.

`RelevanceEvaluation` is `eval_relevance.py`: `LoadDataset` checks the labels,
`EvaluateRetrieval` runs the retrieval cases through the operators of
`SearchPolicies`, or raises: a `Hit` has an id from one, a `CompanyRecord` any, and the
index files may not be writable. `Ping` ends a run without a provider. `n` is the position of the
loop over the semantic cases: `SkipCase` passes over a case of the other split, and for
each selected one `AskModel`, `UnreadableReply`, `ReadableReply`, `ProviderUnavailable`,
`ProviderFatal` and `CaseTimesOut` are what the call can come to. `Summarize` sets the exit
code, `WriteReport` ends the script; `Raise` is every check that throws. The rows of
both parts are sets, since checked ids tell them apart and no result depends on their
order. `DatasetAssumption` is what pydantic has checked of a data set before its
references are (`SemanticCase` with one to twelve labels); `ReplyAssumption` says that
a reply holds at most one batch and is otherwise any text.

### RunLog

A file is a sequence of appended pieces. `write_event` appends text and newline. A line
longer than the file buffer reaches the file in two appends, and any line can be that
long: `run_start` has the query, `llm_call` the text of an exception, `validation` the
quotes, `run_end` the error list. A failed write leaves nothing, half a text, or a text
without its newline (`cut` remembers where something was left); `_persist_events` logs it
and goes on with the next event, which then continues that line. Each invocation writes through a
thread (`job`) it awaits one at a time; when it is cancelled the thread goes on,
and if it had not started it may be dropped. `Restored` is `RunRepository.read`: the last
`run_start`, the last `run_end`, or the number of call events as long as there is
no `run_end`.

### MandateSanitizer

A query is what the regular expressions and substring tables of
`agent/sanitize.py` find in it: named industries, countries, buckets, one number
per numeric pattern, keyword phrases. A token is anything the LLM can write into
a closed list; the synonym tables are the constants `IndustryOf`, `PlacesOf` and
`BucketOf`. `Explicit` is what the query states, `Normalized` what the tables make
of a proposal, `Overridden` the precedence of the first over the second,
`Sanitize` and `Fallback` the two public functions. Three actions use them as the
nodes do: `ParseMandate`, `ParseFails` and `ReviseSearch`. The mandates of
`AgentWorkflow` (its constants `Mandates` and `FallbackMandate`) are results of
these two functions.

### CatalogLifecycle

`ingest` walks through `run_ingestion`: load, migrate, seed (one transaction; an
empty list returns before the delete), build (divides by the number of
documents), open the index file (truncates it), dump. It may fail or be killed
after each. `api` walks through entrypoint migration, database check, index load
and serving. `docker compose up` waits for the job the first time; the restart
policy does not.

## 3. Runs

| run | question | shows |
|---|---|---|
| `agent_full` | shipped limits with a budget of five attempts and of two, every reply, failure, interruption, one re-seed | the inductive invariant `IInv`; answers grounded in the original mandate (`AnswersAreGrounded`) and passed by the evaluation (`AnswersPassEvaluation`, `AnswersAreInTheTable`, `TimedOutRowsShowTheWork`); nothing unverified is answered, nothing at all after a fallback parse without the validator; counted and logged calls balance; a full budget starves no stage; run_end shows the progress; pools stay inside the hard filters, nobody eligible is cut before the pool is full (`NobodyIsCutEarly`, `UnchangedTableLosesNobody`), an empty pool is searched again (`EmptyPoolIsRevised`); revisions change keywords only; the workflow implements `SearchContract` (`ImplementsContract`); every call ends (`EveryCallEnds`) |
| `relevance` | 16 data sets, both modes, every split, a few hundred replies | only what is quoted is accepted (`AcceptedIsQuoted`); no object after the one read is overlooked; exit code 0 is earned (`ZeroIsEarned`); a case that failed is a rejection in the metrics; the labels of a data set that is let in can be passed, except those on a company no verdict can name (`GoldIsAttainable`), and its labelled companies are retrieved (`GoldIsRetrieved`); the suite ends |
| `runlog_own` | a request with an id of its own, any failed write, one crash | a log stays readable unless a failed write left a text unended; successive reads never take anything back |
| `runlog_shared` | two requests that inherited one id, any failed write, one crash | each run's lines stay in order, without duplicates; an undisturbed run is complete whatever the other does |
| `mandate_precedence` | every stated constraint with every proposal, fallback, revision | what the query states is filtered by, with or without the LLM (`DegradedAgrees`); a fallback with hard filters has a criterion (`FallbackIsGuarded`); no phrase of the query is lost; sanitizing twice changes nothing |
| `catalog_pair` | three jobs, any failure, any restart | readiness stands for data; the documented rebuild serves one pair; success leaves one pair |
| `agent_start`, `agent_cancel`, `runlog_mixed`, `mandate_named`, `catalog_start`, `relevance_reply` | promises made in the documentation | violated, see section 5 |

### Bounds and why they suffice

- *Agent.* Five companies, four of them in the index, and two tables, of four and of
  three, that differ in which ones and in one industry: enough for an id missing on either
  side, a row that changed under a candidate, and cuts that drop somebody (three
  candidates, two validated, one answered). Seven mandates take every branch:
  filters only, both, text only, a blank requirement that hides the keyword,
  a query without tokens, nothing to search by, more criteria than allowed.
  `MaxCriteria` is 2 in place of 12. The
  retry structure, two retrieval iterations, one revision and the budget of five
  are the shipped values; the budget of two adds the paths on which revision and
  validation find it spent. One re-seed suffices: between any two reads of the
  table the run makes, it can be placed. The violation runs leave it out.
- *Relevance.* Three companies and one with id 0, which the schemas of replies and hits
  do not know; two criteria and four quotes (found, empty, too long for a reply, invented).
  Six data sets are let in: with two splits, with no holdout case, with two labels on a company,
  with a long quote, with company 0 judged, with company 0 retrieved. Each of the others
  breaks one rule the labels must keep. A valid batch comes in ten texts, plain, fenced, with prose or a
  second object before or after it; the plain text comes with every batch of one
  verdict and two items and with some that repeat a criterion or a company. Each
  case has its two attempts. What the properties tell apart needs no more: they
  are about one case, one verdict, or a pair of objects.
- *RunLog.* With ids of their own, invocations share no file, so `runlog_own` has
  one of them, with up to three buffered calls and one crash. `runlog_shared` has
  two in one file, since its properties are about one run or a pair, with one event each
  and one crash. Its view leaves out what reads return and the counts they return, which
  nothing that is written depends on.
- *Mandate.* Two values per vocabulary, one synonym, one unknown token; each kind of
  constraint stated and not stated, with the pairs that interact ("more than"
  beside "at least", a region beside a country, two buckets). The properties look
  at one field at a time.
- *Catalogue.* Two data sets and the empty one; three jobs, so that one succeeds,
  one stops half way and one repairs. The data sets are interchangeable, so are
  the two requests that share a log: symmetry is used there only, in runs
  without liveness properties.

Deadlock is checked in every run; `Returned` and `Over` let what is finished stay
finished. Type invariants are checked by name or as the first conjunct of `PairInv`.

## 4. Fairness

`FairSpec` has weak fairness on the service's own first step, on the `finally` block, on
the reservation of an attempt (no await before it) and on the timer. Each is
a step the event loop takes by itself: the first three run without waiting for
anything outside, and the timer of `asyncio.wait_for` fires after finite time.
There is no fairness for the provider, the database, the thread that ranks or
the caller. So `EveryCallEnds` says that the timer alone brings each call to its
end. The writes that `invoke` awaits outside the timer (`run_start`, the final
persist) are local file appends and are taken to return or raise.

`RelevanceEvaluation` has weak fairness on the steps the script takes by itself and
on the timer of a case (`asyncio.wait_for` again); none on the model, which may
accept a request and never reply. `ProviderUnavailable` and the replies are
choices, not promises.

## 5. Promises the code does not keep

1. **A run without run_end** (`agent_start`). `run_start` is written before the
   `try` block, so if that write raises there is no `run_end` at all; the README
   promises one "on success, timeout, and exception".
2. **A cancelled request is "completed"** (`agent_cancel`). `outcome` starts as
   `"completed"`, and `CancelledError` reaches neither handler.
3. **A log of two runs** (`runlog_mixed`). An inherited `X-Run-Id` is not unique;
   two requests of one trace share a file, and a read joins the query of one with
   the aggregates of the other.
4. **A stated value is dropped** (`mandate_named`). Of several buckets in a query
   only the first of the vocabulary is kept, and "Nordics" hides the countries named
   beside it, also where the LLM had found all of them; the sanitizer's docstring
   promises to preserve explicit constraints.
5. **A mismatched pair** (`catalog_start`). Rows are committed before the index is
   written, and a restarted API does not wait for the job.
6. **A first object that is not found** (`relevance_reply`). The object is cut from
   the first to the last brace of what follows the first line of a fenced reply, so
   an object on the line of the fence, or one followed by a closing brace, is not
   read; the docstring promises "the first {...} block".

PROJECT.json quotes the lines.

## 6. Proofs

All statements hold for every value of the constants that satisfies the named
assumptions, with any number of companies, terms, mandates, re-seeds and jobs.

**SearchPoliciesProofs.** `MaskAgreesWithPolicy`: for integer columns and bounds
the WHERE clauses select exactly the rows the policy accepts. Lemmas on ranking
and merging say which ids `RankEligible`, `FilterSearch`, `Merge` and `Retrieve` can
return, that their lists name nobody twice, and that a cut keeps at most as many
as it is told (`TopKBound`: each hit that is kept has a number of better hits of
its own, below the limit), and all of them if it may keep that many (`ShortListKept`,
`CutIsFull`). `PoolIsBest` says what a cut of the pool leaves out, `FiltersFindSome` when
a filtered search finds nobody. They carry the results below.

**SemanticAcceptanceProofs.** `AcceptanceIsQuoted`: whatever batch a model sends, an
accepted company has exactly one item for each criterion, which supports it and
quotes the record. `SupportDecides`: of an exact batch only the supported pairs
matter, which is why `AgentWorkflow` may keep only those. `LastObjectIsRead`: in a
reply of any length no object follows the one that is read; taking off the fence and
the surrounding space keep a text's chunks and their order (`PartOf`), and the cut goes
to the last brace. All three are about the operators, for every batch and every text.

**AgentWorkflowProofs.** The invariant is
`IInv == TypeOK /\ Progress /\ Spending /\ Bookkeeping /\ Grounds`.

- `TypeOK` and the properties are not inductive alone. `Progress` ties each node to
  what must already be there: a mandate that differs from the original only in its
  keywords, a plan and a spare iteration before retrieval, a revision not yet spent
  before `revise_search`, an attempt number within the node's limit.
- `Spending` bounds the LLM calls by node: two by the end of parsing, three after a
  revision, five after validation. It is what makes `BudgetSuffices` follow.
- `Bookkeeping` ties the graph state to the last events, at every await at which a
  run can be interrupted; `RunEndIsTrue` is its end.
- `Grounds` says why a company may be relevant: its record matches the original
  filters, and either there are no criteria and there are filters, or an exact batch
  supports every criterion; before `finalize` nothing is relevant yet.

`InductiveInvariant` has a lemma per part. From it: `TypeCorrect`, `Grounding`,
`FallbackIsValidated`, `UnverifiedIsEmpty`, `BudgetSuffices`, `RunEndIsTrue`, and the
step properties `RevisionIsNarrow` and `PoolsAreEligible`. `LedgerIsComplete` has an
induction of its own. `FallbackIsValidated` rests on `FallbackAssumption`: the
deterministic parser keeps the whole query as a requirement, and a blank query
yields neither keywords nor filters. `FallbackMeetsAssumption` of
MandateSanitizerProofs proves just that of the parser. The other assumptions (`CompanyAssumption`,
`TermAssumption`, `IndexAssumption`, `IdAssumption`, `WeightAssumption`, `LimitsAssumption`,
`MandateAssumption`, `CatalogAssumption`, `FieldAssumption`, `NoneAssumption`) are
typings and the ranges `core/config.py` enforces; `IdAssumption` says that ids count from
one, as those of the shipped catalogue do (`tools/get_company.py`; a hit or a verdict with
another id fails its schema); TLC evaluates all of them on every
agent run. `FieldAssumption` says that employee counts, founding years and the bounds
on them are integers, as the NOT NULL columns of `db/models/company.py` and the fields
of `FilterSpec` are; it makes `MaskAgreesWithPolicy` apply.

**SearchAnswerProofs.** Three strengthenings of `IInv`. `Ranked`: each list of a run
names a company once and is no longer than its limit; with it every step of the
workflow is a step of `SearchContract` or leaves the caller's view alone
(`Implementation`). `Audit`: response, run_end and table agree on what was answered
and counted; with it a completed answer passes every check of the evaluation
(`EvaluationPasses`, `AnswersAreRows`) and a call that timed out is put down with the work
it did (`TimeoutsAreCounted`). `Pools`: as long as nobody replaces the rows, candidates
found under hard filters are rows that satisfy them and so are those to be validated;
with it every one of them is fetched and judged (`EverybodyIsJudged`). What the tool
returns is decided in one step, so `BestAreKept` (who is cut from the pool scored no
better than who is kept) and `EmptyPoolsAreRevised` need only the types, `PoolIsBest`
and `FiltersFindSome`.

**RelevanceEvaluationProofs.** `IInv == Admitted /\ Loop /\ RowsInv /\ Verdicts`.
`Admitted`: nothing is evaluated whose references do not hold. `Loop`: position and
phase of main, with an attempt left while it asks. `RowsInv`: each selected case
before position `n` has one row, which names it, and a failed row rejects. `Verdicts`:
what status and exit code say of the rows once they are set. From it: `TypeCorrect`,
`FailuresReject`, `ZeroMeansAgreement` (no regression in either split means that each
row agrees with its labels; the counts of `SemanticMetrics` are zero only for empty
sets) and `GoldPasses`. The last says which of the labels that `CheckReferences` lets in can be
passed. On a company with an id from one, a batch with the labelled statuses passes the
schema and the policy: a span is one the record contains, and of a span that is too long
the beginning is quoted, which the record contains too. On any other company no reply that
parses covers the case.
`LaterObjectsCount` is `LastObjectIsRead` on the reply at hand, `AcceptanceIsEarned`
is `AcceptanceIsQuoted` on it. `GoldIsFound` has a hypothesis: a data set has at most
100 companies. The script asks for 100 hits (`eval_relevance.py:65`), so beyond that a
labelled company can be cut, and `GoldIsRetrieved` is then false of the code; the
shipped corpus has 15. That each retrieval row keeps its contract needs no such limit
(`RowIsSound`).

**MandateSanitizerProofs.** `IInv == TypeOK /\ Shape`; `Shape` says that a mandate is
there from the parse on and shares everything but keywords with the original, which
a revision needs to keep. `TypeCorrect`, `PrecedenceHolds`, `FallbackGuarded`,
`PhrasesKept` and `SanitizedStays` are invariants of every query, proposal and revision, from
`VocabularyAssumption` (values of a vocabulary map to themselves: the exact match
comes first) and `QueryAssumption` (nothing is found in a blank query; no keyword
phrase is the name of an industry, which `_KEYWORD_PHRASES` and
`ALLOWED_INDUSTRIES` satisfy).

**CatalogLifecycleProofs.** `PairInv == TypeOK /\ FilesFollowJob /\ ProcessFollowsFiles`
is inductive; `TypeCorrect`, `ReadinessIsEarned`, `RebuildIsConsistent` and
`SuccessIsConsistent` follow.
`FilesFollowJob` records what each step of the job has made of the files
(in particular that an index, whole or not, implies rows), `ProcessFollowsFiles`
what the process can then hold.

**RunLogProofs.** `Shape` is types and what the phase of an invocation says of its
cursor and thread. `LinesInv` says of each file that its pieces are newlines, half
texts and lines of its runs; of each run that its lines are in order, none at or
past the cursor while a write is queued, and, if nothing disturbed it, none missing
before the cursor. An append is one of five extensions of the file (`Extension`), of
which only a thread that has not opened its line adds a text; so `OrderIsKept` and
`NothingIsLost` hold for any number of runs in one file. `ReadsAreSafe` needs ids of
their own (`OwnIds`) and nothing else: a log in which no failed write left a text unended
ends with a newline, unless its owner has the line open. `ReadsAddUp` rests on both and on
`Advance`: what a read has reported stays true of the log. The lines of a type only
grow in number (`LinesGrow`: files and buffers are appended to, and a line keeps its
event), each line stands for another event of its run (`LinesCounted`), and a run that
has ended counts nothing any more (`EndIsFinal`); so a count taken from the lines is no
greater than the one run_end reports later, even if some of the lines are never written.

**Only model-checked.** `EveryCallEnds` and `EvaluationEnds`, since liveness and
ENABLED are out of the prover's reach, as are induction over data and recursive
operators. Every other property of a passing run is a theorem. The promises of section
5 are refuted by the runs named there.

## 7. Abstractions and what is left out

- Text: terms as above; a quote is found in a field of a record or not; the chunks
  of a reply are not made of characters. The wording of
  prompts is left out. `Mandates` are the results `sanitize_mandate` can have.
- A provider call ends in a valid object, a malformed one, an unavailable provider
  or an error that is not retried. Latency, tokens and cost are left out.
- Floating-point scores are integers; rounding could change ties only.
- Events carry what run_end and the ledger read. Appends are atomic except
  where section 2 says otherwise.
- Ingestion jobs run one at a time, as the compose file runs them. In
  `AgentWorkflow` a job is the replacement of the table alone; the index in memory does not
  change before a restart.
- `Finalize` is one step from the node to the return of the graph's call. A timer or a
  cancellation inside it would leave a run_end with `final_count` 0 beside the event of
  `finalize`.
- `SearchEvaluation` takes the events of a call to be in the log by the time it is
  read; what a log can lack is the subject of `RunLog`.
- Of the relevance suite, case ids stand for themselves and precision, recall,
  NDCG and the report's text are left out: nothing depends on them. Of `run_eval.py`
  the criteria expected of one query in particular and the loop over the queries
  are left out.

### Not modelled

- `get_company`, and `complete` and `ping` of the client within a request: no node of the graph calls them and
  they change no state.
- The HTTP layer: a table from exception class to status, and wiring.
- The entries of the synonym tables and the regular expressions of the sanitizer:
  they are constants, with the assumptions named in section 6.
- Connection pooling, row conversion, logging, CORS, reading of the environment, the Ollama containers:
  I/O and configuration without a state of the program's own.
- Several requests at once beside the run log: they share the loaded index and the
  repositories, which no request writes, and a `RunContext` belongs to one request.

PROJECT.json gives the reason for each part.

## 8. Plan

Done, in this order: `SearchPolicies`, `AgentWorkflow` with its runs and proofs,
`SearchContract` and the refinement, `RunLog`, `CatalogLifecycle` and
`MandateSanitizer` with their proofs; then `SemanticAcceptance`,
`RelevanceEvaluation` and `SearchEvaluation`, the refinement as a theorem, and the
proofs about the run log, the evaluations and the remaining invariants, down to what
retrieval may cut and what successive reads of a log add up to.

What is left: startup and shutdown of the API with requests in flight; what the
policies make of a mandate whose only requirement is blank, which `AnswersAreGrounded`
passes because hard filters must then be there.
