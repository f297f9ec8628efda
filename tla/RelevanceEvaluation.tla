------------------------- MODULE RelevanceEvaluation -------------------------
(***************************************************************************)
(* The labelled relevance suite, scripts/eval_relevance.py with            *)
(* scripts/relevance_support.py: a data set is checked, the retrieval      *)
(* cases are run against the real eligibility query and index, and in live *)
(* mode each semantic case is put to the real validator, under a timer and *)
(* a budget of its own.  The exit code says what came of it.               *)
(*                                                                         *)
(* phase is where main is; "llm" is the one place where it waits for       *)
(* somebody who need not answer without any row to show for it yet.        *)
(***************************************************************************)
EXTENDS SearchPolicies, SemanticAcceptance

CONSTANTS
  Row,       \* the filterable fields of each company
  Text,      \* the texts of each company
  Datasets,  \* data sets, whether or not their references hold
  Replies,   \* what the model can reply to a request
  None

Budget == 2

Elements(s) == {s[i] : i \in DOMAIN s}
Distinct(s) == \A i, j \in DOMAIN s : s[i] = s[j] => i = j
CaseIds(cases) == [i \in DOMAIN cases |-> cases[i].id]

ASSUME CorpusAssumption == \A c \in Company : Text[c] \in TextType

\* A semantic case as pydantic lets it in, before its references are checked.
SemanticCase ==
  [id : STRING, split : {"dev", "holdout"}, company : Int,
   labels : Seq([id : CriterionId, status : Status, spans : SUBSET Span])]

ASSUME DatasetAssumption ==
  \A d \in Datasets :
    /\ d.companies \in Seq(Indexed)
    /\ d.semantic \in Seq(SemanticCase) /\ d.retrieval \in Seq(Elements(d.retrieval))
    /\ \A case \in Elements(d.semantic) : Len(case.labels) \in 1 .. 12
    /\ \A case \in Elements(d.retrieval) : case.query \subseteq Term

\* A batch as json.loads makes it; the limits of the schema come later.
Batch == Seq([company : Company,
              items : Seq([id : CriterionId, status : Status,
                           quotes : Seq([field : Field, span : Span])])])

\* The batch of a reply is what the one "batch" of its text says.
ASSUME ReplyAssumption ==
  /\ None \notin Replies
  /\ \A r \in Replies : /\ r.batch \in Batch /\ r.text \in Seq(Chunk)
                        /\ \A i, j \in Places(r.text, {"batch"}) : i = j

VARIABLES
  dataset, live, split,  \* the arguments
  phase,
  retrieval,             \* rows of the retrieval cases
  n,                     \* the loop over the semantic cases is at this one
  llmCalls,              \* ctx.llm_calls of the case at hand
  reply,                 \* what the model replied last
  rows,                  \* rows of the semantic cases
  status,                \* report["semantic_status"]
  exitCode

arguments == <<dataset, live, split>>
results == <<retrieval, rows, status, exitCode>>
vars == <<arguments, phase, n, llmCalls, reply, results>>

-----------------------------------------------------------------------------
(* The data set and its labels.                                            *)

Records == [c \in Elements(dataset.companies) |-> Row[c]]

\* relevance_support.matches_filters: the policy written down once more.
MatchesFilters(row, f) ==
  /\ f.industries # {} => row.industry \in f.industries
  /\ f.locations # {} => row.location \in f.locations
  /\ f.revenue_buckets # {} => row.revenue_range \in f.revenue_buckets
  /\ f.employee_min # NoBound => row.employee_count >= f.employee_min
  /\ f.employee_max # NoBound => row.employee_count <= f.employee_max
  /\ f.founded_after # NoBound => row.founded_year >= f.founded_after
  /\ f.founded_before # NoBound => row.founded_year <= f.founded_before

\* Mutant: a decisive label needs no quote.
LabelHoldsUnquoted(label, case) ==
  /\ label.id \in DOMAIN dataset.criteria
  /\ \A span \in label.spans : span # EmptySpan /\ span \in Text[case.company]["description"]

LabelHolds(label, case) ==
  /\ label.id \in DOMAIN dataset.criteria
  /\ label.status # "insufficient_evidence" => label.spans # {}
  /\ \A span \in label.spans : span # EmptySpan /\ span \in Text[case.company]["description"]

\* RelevanceDataset.check_references; dataset.criteria says of each criterion
\* whether it is worded.
CheckReferences ==
  /\ Distinct(dataset.companies)
  /\ Distinct(CaseIds(dataset.semantic) \o CaseIds(dataset.retrieval))
  /\ \A k \in DOMAIN dataset.criteria : dataset.criteria[k]
  /\ \A case \in Elements(dataset.semantic) :
       /\ case.company \in DOMAIN Records
       /\ Distinct(CaseIds(case.labels))
       /\ \A label \in Elements(case.labels) : LabelHolds(label, case)
  /\ \A case \in Elements(dataset.retrieval) :
       /\ Distinct(case.relevant)
       /\ \A c \in Elements(case.relevant) :
            c \in DOMAIN Records /\ MatchesFilters(Records[c], case.filters)

InSplit(case) == split = "all" \/ case.split = split
Selected(cases) == {case \in Elements(cases) : InSplit(case)}

Requirements(case) == {label.id : label \in Elements(case.labels)}
Gold(case) == \A label \in Elements(case.labels) : label.status = "supported"

-----------------------------------------------------------------------------
(* What the cases are judged by.                                           *)

\* One retrieval case: FilteredSearchService.search and its contract.
RetrievalRow(case) ==
  LET eligible == EligibleIds(Records, case.filters)
      hits == RankEligible(case.query, eligible, 100)
  IN  [id    |-> case.id,
       found |-> Ids(hits),
       contract_ok |->
         /\ Cardinality(hits) = Cardinality(Ids(hits)) /\ Cardinality(hits) <= 100
         /\ \A c \in Ids(hits) :
              c \in DOMAIN Records /\ MatchesFilters(Records[c], case.filters)
         /\ Cardinality(eligible) =
              Cardinality({c \in DOMAIN Records : MatchesFilters(Records[c], case.filters)})]

\* Mutant: a case that failed is put down as it was labelled.
SemanticRowGenerous(case, decision, ok) ==
  [id |-> case.id, company |-> case.company, split |-> case.split,
   expected_relevant |-> Gold(case),
   predicted_relevant |-> IF ok THEN decision.relevant ELSE Gold(case), contract_ok |-> ok,
   criteria |-> {[id |-> label.id, expected |-> label.status,
                  predicted |-> decision.status[label.id]] : label \in Elements(case.labels)}]

SemanticRow(case, decision, ok) ==
  [id |-> case.id, company |-> case.company, split |-> case.split,
   expected_relevant |-> Gold(case),
   predicted_relevant |-> decision.relevant, contract_ok |-> ok,
   criteria |-> {[id |-> label.id, expected |-> label.status,
                  predicted |-> decision.status[label.id]] : label \in Elements(case.labels)}]

SemanticMetrics(part) ==
  [cases |-> Cardinality(part),
   false_accepts |-> Cardinality({r \in part : r.predicted_relevant /\ ~r.expected_relevant}),
   false_rejects |-> Cardinality({r \in part : ~r.predicted_relevant /\ r.expected_relevant}),
   contract_failures |-> Cardinality({r \in part : ~r.contract_ok}),
   all_criteria |-> \A r \in part : \A k \in r.criteria : k.expected = k.predicted]

\* Mutant: only wrong acceptances are held against the model.
RegressedAccepts(metrics) ==
  metrics.contract_failures > 0 \/ metrics.false_accepts > 0

Regressed(metrics) ==
  \/ metrics.contract_failures > 0 \/ metrics.false_accepts > 0
  \/ metrics.false_rejects > 0 \/ ~metrics.all_criteria

-----------------------------------------------------------------------------
Init ==
  /\ dataset \in Datasets /\ live \in BOOLEAN /\ split \in {"all", "dev", "holdout"}
  /\ phase = "load" /\ retrieval = {} /\ n = 1 /\ llmCalls = 0 /\ reply = None
  /\ rows = {} /\ status = "NOT_RUN" /\ exitCode = 0

\* An exception nobody catches: the interpreter exits with 1, no report.
Raise == phase' = "raised" /\ exitCode' = 1

\* An invalid data set is not evaluated.
LoadDataset ==
  /\ phase = "load"
  /\ \/ CheckReferences /\ phase' = "retrieval" /\ UNCHANGED exitCode
     \/ ~CheckReferences /\ Raise
  /\ UNCHANGED <<arguments, n, llmCalls, reply, retrieval, rows, status>>

\* Nobody else uses the temporary catalogue and index.  A hit holds positive ids
\* only; the files, or the index of a corpus without a token, can fail as well.
EvaluateRetrieval ==
  /\ phase = "retrieval"
  /\ \/ LET found == {RetrievalRow(case) : case \in Selected(dataset.retrieval)} IN
        /\ \A row \in found : \A c \in row.found : c >= 1
        /\ retrieval' = found
        /\ exitCode' = IF \A row \in found : row.contract_ok THEN 0 ELSE 1
        /\ phase' = IF live THEN "ping" ELSE "report"
     \/ Raise /\ UNCHANGED retrieval
  /\ UNCHANGED <<arguments, n, llmCalls, reply, rows, status>>

\* ping answers no to every error, and its timeout is taken as a no.
Ping ==
  /\ phase = "ping"
  /\ \/ phase' = "semantic" /\ UNCHANGED <<status, exitCode>>
     \/ phase' = "report" /\ status' = "BLOCKED" /\ exitCode' = 2
  /\ UNCHANGED <<arguments, n, llmCalls, reply, retrieval, rows>>

CaseAtHand == dataset.semantic[n]

\* A case of the other split is passed over.
SkipCase ==
  /\ phase = "semantic" /\ n <= Len(dataset.semantic)
  /\ ~InSplit(CaseAtHand)
  /\ n' = n + 1
  /\ UNCHANGED <<arguments, phase, llmCalls, reply, results>>

\* A request for the case at hand; a retry spends the same budget.
AskModel ==
  /\ phase = "semantic" /\ n <= Len(dataset.semantic)
  /\ InSplit(CaseAtHand) /\ llmCalls < Budget
  /\ llmCalls' = llmCalls + 1 /\ reply' = None
  /\ phase' = "llm"
  /\ UNCHANGED <<arguments, n, results>>

\* Mutant: all cases share one context.
RecordInOneContext(decision, ok) ==
  /\ rows' = rows \cup {SemanticRow(CaseAtHand, decision, ok)}
  /\ n' = n + 1 /\ phase' = "semantic"
  /\ UNCHANGED <<arguments, llmCalls, retrieval, status, exitCode>>

\* The case is over; the next one has a context of its own.
Record(decision, ok) ==
  /\ rows' = rows \cup {SemanticRow(CaseAtHand, decision, ok)}
  /\ n' = n + 1 /\ llmCalls' = 0 /\ phase' = "semantic"
  /\ UNCHANGED <<arguments, retrieval, status, exitCode>>

\* A text without an instance of the schema is asked for again, once.
UnreadableReply ==
  /\ phase = "llm"
  /\ reply' \in {r \in Replies : ~Parses(r)}
  /\ \/ /\ llmCalls < Budget
        /\ phase' = "semantic"
        /\ UNCHANGED <<arguments, n, llmCalls, results>>
     \/ /\ llmCalls >= Budget
        /\ Record(Unverified(Requirements(CaseAtHand)), FALSE)

\* An instance that does not cover exactly the case fails it without a retry.
ReadableReply ==
  /\ phase = "llm"
  /\ reply' \in {r \in Replies : Parses(r)}
  /\ LET c == CaseAtHand.company
         criteria == Requirements(CaseAtHand)
     IN  \/ /\ ExactlyCovers(reply'.batch, {c}, criteria)
            /\ Record(Assess(VerdictOn(reply'.batch, c), Text[c], criteria), TRUE)
         \/ /\ ~ExactlyCovers(reply'.batch, {c}, criteria)
            /\ Record(Unverified(criteria), FALSE)

\* Timeout of the provider, connection error, 5xx, 404, 429.
ProviderUnavailable ==
  /\ phase = "llm"
  /\ Record(Unverified(Requirements(CaseAtHand)), FALSE)
  /\ UNCHANGED reply

\* Any other provider error ends the evaluation.
ProviderFatal ==
  /\ phase = "llm"
  /\ Raise
  /\ UNCHANGED <<arguments, n, llmCalls, reply, retrieval, rows, status>>

\* Mutant: a case that timed out is left out.
CaseSkipped ==
  /\ phase = "llm"
  /\ n' = n + 1 /\ llmCalls' = 0 /\ phase' = "semantic"
  /\ UNCHANGED <<arguments, reply, retrieval, rows, status, exitCode>>

\* Mutant: nothing limits the wait for the model.
CaseNeverTimesOut == FALSE /\ UNCHANGED vars

\* asyncio.timeout around the case.
CaseTimesOut ==
  /\ phase = "llm"
  /\ Record(Unverified(Requirements(CaseAtHand)), FALSE)
  /\ UNCHANGED reply

\* One summary for each split that has a row; only a regression sets the code.
Summarize ==
  /\ phase = "semantic" /\ n > Len(dataset.semantic)
  /\ status' = "MEASURED"
  /\ exitCode' = IF \E part \in {"dev", "holdout"} :
                      LET measured == {r \in rows : r.split = part}
                      IN  measured # {} /\ Regressed(SemanticMetrics(measured))
                   THEN 1 ELSE exitCode
  /\ phase' = "report"
  /\ UNCHANGED <<arguments, n, llmCalls, reply, retrieval, rows>>

WriteReport ==
  /\ phase = "report"
  /\ phase' = "done"
  /\ UNCHANGED <<arguments, n, llmCalls, reply, results>>

Over == phase \in {"done", "raised"} /\ UNCHANGED vars

Model == UnreadableReply \/ ReadableReply \/ ProviderUnavailable \/ ProviderFatal
Script ==
  \/ LoadDataset \/ EvaluateRetrieval \/ Ping \/ SkipCase \/ AskModel
  \/ Summarize \/ WriteReport

Next == Script \/ Model \/ CaseTimesOut \/ Over

\* The script goes on by itself and its timers fire; the model owes nothing.
Fairness == WF_vars(Script) /\ WF_vars(CaseTimesOut)

Spec == Init /\ [][Next]_vars /\ Fairness
-----------------------------------------------------------------------------
(* What must hold.                                                         *)

\* Every variable has the type of what it stands for, and a case is never
\* about to ask with its budget spent.
TypeOK ==
  /\ dataset \in Datasets /\ live \in BOOLEAN /\ split \in {"all", "dev", "holdout"}
  /\ phase \in {"load", "retrieval", "ping", "semantic", "llm", "report", "done", "raised"}
  /\ n \in 1 .. Len(dataset.semantic) + 1
  /\ llmCalls \in 0 .. Budget /\ (phase = "semantic" => llmCalls < Budget)
  /\ reply \in Replies \cup {None}
  /\ status \in {"NOT_RUN", "BLOCKED", "MEASURED"} /\ exitCode \in 0 .. 2
  /\ \A r \in rows : r.company \in Company /\ r.predicted_relevant \in BOOLEAN
                     /\ \A k \in r.criteria : k.id \in CriterionId /\ k.predicted \in Status

\* A company is accepted only on a verdict about itself that supports each
\* requirement exactly once, and quotes for it what is in its texts.
AcceptedIsQuoted ==
  [][\A r \in rows' \ rows : r.predicted_relevant =>
       /\ Elements(CaseIds(<<r>>)) = {CaseAtHand.id} /\ Len(reply'.batch) = 1
       /\ reply'.batch[1].company = r.company
       /\ QuotedThroughout(reply'.batch[1], Text[r.company], Requirements(CaseAtHand))]_vars

\* An object the model appends to a first one is never overlooked: what is read
\* is followed by no other object.
NoLaterObjectIgnored ==
  reply # None /\ Parses(reply) =>
    LET t == reply.text IN
    \A i, j, k \in DOMAIN t :
      t[i] = "batch" /\ i < j /\ j < k => ~(t[j] = "open" /\ t[k] = "close")

\* Exit code 0 of a live run is earned: every selected case was measured, and
\* the model answered as labelled, company by company, criterion by criterion.
ZeroIsEarned ==
  phase = "done" /\ live /\ exitCode = 0 =>
    /\ status = "MEASURED"
    /\ \A case \in Selected(dataset.semantic) : \E r \in rows : r.id = case.id
    /\ \A r \in rows : /\ r.contract_ok /\ r.predicted_relevant = r.expected_relevant
                       /\ \A k \in r.criteria : k.predicted = k.expected

\* "Contract failures remain in the metrics as fail-closed rejections": whatever
\* went wrong with a case, it has its row, and the row rejects.
FailuresCountAsRejections ==
  /\ phase \in {"semantic", "llm"} =>
       Cardinality(rows) = Cardinality({i \in 1 .. n - 1 : InSplit(dataset.semantic[i])})
  /\ \A r \in rows : ~r.contract_ok =>
       ~r.predicted_relevant /\ \A k \in r.criteria : k.predicted = "insufficient_evidence"

\* What can be quoted for a label: one of its spans, or what the description has
\* instead of a span that is too long for the schema.
Quotations(label, case) ==
  IF label.spans \cap Quotable # {} THEN label.spans \cap Quotable
  ELSE Text[case.company]["description"] \cap Quotable

\* The verdict a model with the labels before it would give.
LabelledVerdict(case) ==
  [company |-> case.company,
   items |-> [i \in DOMAIN case.labels |->
     LET label == case.labels[i] IN
       [id |-> label.id, status |-> label.status,
        quotes |-> IF label.spans = {} THEN <<>>
                   ELSE <<[field |-> "description",
                           span |-> CHOOSE s \in Quotations(label, case) : TRUE]>>]]]

\* A data set that is let in can be passed: for each case there is a reply that
\* the schema, the exactness check and the acceptance policy turn into the labels,
\* also when a labelled span is longer than a quote may be.  The exception is a
\* company whose id is below one: the data set may have it, a verdict may not, so
\* no reply covers its case.
GoldIsAttainable ==
  phase = "semantic" =>
    \A case \in Elements(dataset.semantic) :
      IF case.company >= 1
        THEN LET v == LabelledVerdict(case)
                 decision == Assess(v, Text[case.company], Requirements(case))
             IN  /\ FitsSchema(<<v>>) /\ ExactlyCovers(<<v>>, {case.company}, Requirements(case))
                 /\ decision.relevant = Gold(case)
                 /\ \A label \in Elements(case.labels) : decision.status[label.id] = label.status
        ELSE \A r \in Replies :
               Parses(r) => ~ExactlyCovers(r.batch, {case.company}, Requirements(case))

\* Retrieval finds every labelled company of a case whose query has a token, and
\* the service's own SQL filter agrees with the labels' filter on everybody.
GoldIsRetrieved ==
  \A row \in retrieval :
    \A case \in Elements(dataset.retrieval) :
      row.id = case.id =>
        /\ row.contract_ok
        /\ Tokens(case.query) # {} => Elements(case.relevant) \subseteq row.found

\* The evaluation ends, whatever the model does.
EvaluationEnds == <>(phase \in {"done", "raised"})

\* Claimed: extract_json_object will "find the first {...} block in `text`" and
\* "Handles models that wrap JSON in prose or fences" (structured.py).
FirstBlockIsRead ==
  reply # None /\ Loads(FirstBlock(reply.text)) /\ FitsSchema(reply.batch) => Parses(reply)
=============================================================================
