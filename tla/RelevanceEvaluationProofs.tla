----------------------- MODULE RelevanceEvaluationProofs -----------------------
(* Proofs about RelevanceEvaluation, for every data set and every reply.      *)
EXTENDS RelevanceEvaluation, SemanticAcceptanceProofs, SearchPoliciesProofs

\* Nothing is accepted without a verdict.
LEMMA UnverifiedRejects ==
  \A criteria : ~Unverified(criteria).relevant
BY DEF Unverified

\* A batch that covers one company is one verdict on it.
LEMMA OneVerdict ==
  ASSUME NEW batch \in Batch, NEW c, NEW criteria, ExactlyCovers(batch, {c}, criteria)
  PROVE  /\ Len(batch) = 1 /\ DOMAIN batch = {1} /\ batch[1].company = c
         /\ VerdictOn(batch, c) = batch[1]
         /\ \E I : batch[1].items \in Seq(I)
<1> DEFINE I == [id : CriterionId, status : Status, quotes : Seq([field : Field, span : Span])]
           V == [company : Company, items : Seq(I)]
<1>1. Len(batch) = 1
  BY FS_Singleton DEF ExactlyCovers
<1>2. batch \in Seq(V)
  BY DEF Batch
<1>3. DOMAIN batch = {1}
  <2> HIDE DEF V
  <2> QED  BY <1>1, <1>2
<1>4. batch[1].company = c
  BY <1>3 DEF ExactlyCovers, Companies
<1>5. VerdictOn(batch, c) = batch[1]
  <2> HIDE DEF V
  <2> QED  BY <1>2, <1>3, <1>4, OneVerdictEach
<1>6. batch[1] \in V
  <2> HIDE DEF V
  <2> QED  BY <1>2, <1>3, MemberType
<1>7. batch[1].items \in Seq(I)
  BY <1>6
<1> QED  BY <1>1, <1>3, <1>4, <1>5, <1>7

\* A batch that fits the schema quotes nothing empty.
LEMMA SchemaWordsQuotes ==
  ASSUME NEW batch, FitsSchema(batch), NEW i \in DOMAIN batch
  PROVE  QuotesWorded(batch[i])
BY DEF FitsSchema, QuotesWorded, Quotable

\* A row is only added by an answered case, and it is accepted only on a verdict that
\* quotes the company's texts for every requirement.
THEOREM AcceptanceIsEarned == Spec => AcceptedIsQuoted
<1> DEFINE A == \A r \in rows' \ rows : r.predicted_relevant =>
                  /\ Elements(CaseIds(<<r>>)) = {CaseAtHand.id} /\ Len(reply'.batch) = 1
                  /\ reply'.batch[1].company = r.company
                  /\ QuotedThroughout(reply'.batch[1], Text[r.company], Requirements(CaseAtHand))
<1>1. [Next]_vars => A
  <2> SUFFICES ASSUME [Next]_vars, NEW r \in rows' \ rows, r.predicted_relevant
               PROVE  /\ Elements(CaseIds(<<r>>)) = {CaseAtHand.id} /\ Len(reply'.batch) = 1
                      /\ reply'.batch[1].company = r.company
                      /\ QuotedThroughout(reply'.batch[1], Text[r.company], Requirements(CaseAtHand))
    OBVIOUS
  <2>1. ASSUME NEW decision, NEW ok, Record(decision, ok)
        PROVE  r = SemanticRow(CaseAtHand, decision, ok) /\ decision.relevant
    BY <2>1 DEF Record, SemanticRow
  <2>2. \A decision, ok : Record(decision, ok) => decision # Unverified(Requirements(CaseAtHand))
    BY <2>1, UnverifiedRejects
  <2>3. CASE ReadableReply
    <3> DEFINE c == CaseAtHand.company
               criteria == Requirements(CaseAtHand)
               batch == reply'.batch
               decision == Assess(VerdictOn(batch, c), Text[c], criteria)
    <3>1. batch \in Batch /\ FitsSchema(batch)
      BY <2>3, ReplyAssumption DEF ReadableReply, Parses
    <3>2. ExactlyCovers(batch, {c}, criteria) /\ Record(decision, TRUE)
      BY <2>2, <2>3 DEF ReadableReply
    <3>3. r = SemanticRow(CaseAtHand, decision, TRUE) /\ decision.relevant
      BY <2>1, <3>2
    <3>4. r.id = CaseAtHand.id /\ r.company = c
      BY <3>3 DEF SemanticRow
    <3>5. /\ Len(batch) = 1 /\ 1 \in DOMAIN batch /\ batch[1].company = c
          /\ VerdictOn(batch, c) = batch[1] /\ \E I : batch[1].items \in Seq(I)
      BY <3>1, <3>2, OneVerdict
    <3>6. QuotesWorded(batch[1])
      BY <3>1, <3>5, SchemaWordsQuotes
    <3>7. QuotedThroughout(batch[1], Text[c], criteria)
      <4> HIDE DEF c, criteria, batch
      <4> QED  BY <3>3, <3>5, <3>6, AcceptanceIsQuoted
    <3>8. Elements(CaseIds(<<r>>)) = {CaseAtHand.id}
      BY <3>4 DEF Elements, CaseIds
    <3> QED  BY <3>4, <3>5, <3>7, <3>8
  <2>4. CASE UnreadableReply \/ ProviderUnavailable \/ CaseTimesOut
    BY <2>2, <2>4 DEF UnreadableReply, ProviderUnavailable, CaseTimesOut, results
  <2>5. CASE Script \/ ProviderFatal \/ Over \/ UNCHANGED vars
    BY <2>5 DEF Script, ProviderFatal, Over, vars, results, LoadDataset, EvaluateRetrieval, Ping,
                SkipCase, AskModel, Summarize, WriteReport
  <2> QED  BY <2>3, <2>4, <2>5 DEF Next, Model
<1> QED  BY <1>1, PTL DEF Spec, AcceptedIsQuoted
-----------------------------------------------------------------------------
(* The inductive invariant.                                                *)

\* A row says which case it is for, and has the types the metrics rely on.
RowOf(r, case) ==
  /\ r.id = case.id /\ r.split \in {"dev", "holdout"} /\ r.company \in Company
  /\ r.expected_relevant \in BOOLEAN /\ r.predicted_relevant \in BOOLEAN
  /\ \A k \in r.criteria : k.id \in CriterionId /\ k.predicted \in Status

\* The cases the loop has passed that are in the split.
Passed == {i \in 1 .. n - 1 : InSplit(dataset.semantic[i])}

\* Nothing is evaluated that the reference check did not let in.
Admitted ==
  /\ phase \notin {"load", "raised"} => CheckReferences
  /\ retrieval # {} => CheckReferences
  /\ \A row \in retrieval : \E case \in Elements(dataset.retrieval) : row = RetrievalRow(case)

\* The loop over the cases: where it is, and how many requests the case has left.
Loop ==
  /\ dataset \in Datasets /\ live \in BOOLEAN /\ split \in {"all", "dev", "holdout"}
  /\ phase \in {"load", "retrieval", "ping", "semantic", "llm", "report", "done", "raised"}
  /\ n \in 1 .. Len(dataset.semantic) + 1
  /\ llmCalls \in 0 .. Budget
  /\ phase \in {"load", "retrieval", "ping"} => llmCalls = 0
  /\ phase = "semantic" => llmCalls < Budget
  /\ phase \in {"load", "retrieval", "ping"} => n = 1
  /\ phase = "llm" => n <= Len(dataset.semantic) /\ InSplit(CaseAtHand)
  /\ reply \in Replies \cup {None}

\* Each passed case of the split has one row, and a failed one rejects.
RowsInv ==
  /\ IsFiniteSet(rows) /\ Cardinality(rows) = Cardinality(Passed)
  /\ \A r \in rows : \E i \in Passed : RowOf(r, dataset.semantic[i])
  /\ \A i \in Passed : \E r \in rows : r.id = dataset.semantic[i].id
  /\ \A r \in rows : ~r.contract_ok =>
       ~r.predicted_relevant /\ \A k \in r.criteria : k.predicted = "insufficient_evidence"

\* What the exit code is worth, once there is one.
Verdicts ==
  /\ status \in {"NOT_RUN", "BLOCKED", "MEASURED"} /\ exitCode \in 0 .. 2
  /\ status = "NOT_RUN" => ~(live /\ phase \in {"report", "done"})
  /\ status # "NOT_RUN" => phase \in {"report", "done"}
  /\ status = "BLOCKED" => exitCode = 2
  /\ status = "MEASURED" => n > Len(dataset.semantic)
  /\ status = "MEASURED" /\ exitCode = 0 =>
       \A r \in rows : /\ r.contract_ok /\ r.predicted_relevant = r.expected_relevant
                       /\ \A k \in r.criteria : k.predicted = k.expected

IInv == Admitted /\ Loop /\ RowsInv /\ Verdicts

\* A case of a data set has the type of one, and twelve labels at most.
LEMMA CaseTyped ==
  ASSUME dataset \in Datasets, NEW i \in 1 .. Len(dataset.semantic)
  PROVE  /\ dataset.semantic[i] \in SemanticCase
         /\ dataset.semantic[i] \in Elements(dataset.semantic)
         /\ Len(dataset.semantic[i].labels) \in 1 .. 12
<1>1. dataset.semantic \in Seq(SemanticCase)
  BY DatasetAssumption
<1>2. i \in DOMAIN dataset.semantic
  BY <1>1
<1>3. dataset.semantic[i] \in SemanticCase
  BY <1>1, <1>2, MemberType
<1>4. dataset.semantic[i] \in Elements(dataset.semantic)
  BY <1>2 DEF Elements
<1> QED  BY <1>3, <1>4, DatasetAssumption

\* A case that was let in is about a company of the catalogue.
LEMMA CaseCompany ==
  ASSUME dataset \in Datasets, CheckReferences, NEW case \in Elements(dataset.semantic)
  PROVE  case.company \in Company
<1>1. case.company \in Elements(dataset.companies)
  BY DEF CheckReferences, Records
<1>2. PICK i \in DOMAIN dataset.companies : case.company = dataset.companies[i]
  BY <1>1 DEF Elements
<1>3. dataset.companies \in Seq(Indexed)
  BY DatasetAssumption
<1>4. dataset.companies[i] \in Indexed
  BY <1>3, MemberType
<1> QED  BY <1>2, <1>4, IndexAssumption

\* The ids of a list of cases are a list.
LEMMA IdsListed ==
  ASSUME NEW C, NEW cases \in Seq(C)
  PROVE  /\ CaseIds(cases) \in Seq({case.id : case \in C})
         /\ Len(CaseIds(cases)) = Len(cases)
         /\ \A i \in 1 .. Len(cases) : CaseIds(cases)[i] = cases[i].id
<1>1. DOMAIN cases = 1 .. Len(cases) /\ Len(cases) \in Nat
  OBVIOUS
<1>2. \A i \in 1 .. Len(cases) : cases[i] \in C
  OBVIOUS
<1>3. CaseIds(cases) = [i \in 1 .. Len(cases) |-> cases[i].id]
  BY <1>1 DEF CaseIds
<1>4. CaseIds(cases) \in [1 .. Len(cases) -> {case.id : case \in C}]
  BY <1>2, <1>3
<1>5. CaseIds(cases) \in Seq({case.id : case \in C})
  BY <1>1, <1>4
<1>6. Len(CaseIds(cases)) = Len(cases)
  BY <1>1, <1>3, <1>5
<1> QED  BY <1>3, <1>5, <1>6

\* An id names one case of a data set that was let in, semantic or retrieval.
LEMMA OneCaseEach ==
  ASSUME dataset \in Datasets, CheckReferences
  PROVE  /\ \A i, j \in 1 .. Len(dataset.semantic) :
              dataset.semantic[i].id = dataset.semantic[j].id => i = j
         /\ \A i, j \in 1 .. Len(dataset.retrieval) :
              dataset.retrieval[i].id = dataset.retrieval[j].id => i = j
<1> DEFINE A == CaseIds(dataset.semantic)
           B == CaseIds(dataset.retrieval)
           la == Len(dataset.semantic)
           lb == Len(dataset.retrieval)
<1>1. dataset.semantic \in Seq(SemanticCase) /\ dataset.retrieval \in Seq(Elements(dataset.retrieval))
  BY DatasetAssumption
<1>2. PICK X : A \in Seq(X) /\ Len(A) = la /\ \A i \in 1 .. la : A[i] = dataset.semantic[i].id
  BY <1>1, IdsListed
<1>3. PICK Y : B \in Seq(Y) /\ Len(B) = lb /\ \A i \in 1 .. lb : B[i] = dataset.retrieval[i].id
  BY <1>1, IdsListed
<1>4. la \in Nat /\ lb \in Nat
  BY <1>1
<1>5. Distinct(A \o B)
  BY DEF CheckReferences
<1> HIDE DEF A, B, la, lb
<1>6. A \in Seq(X \cup Y) /\ B \in Seq(X \cup Y)
  BY <1>2, <1>3, SeqMonotonic
<1>7. /\ A \o B \in Seq(X \cup Y) /\ Len(A \o B) = la + lb
      /\ \A i \in 1 .. la + lb : (A \o B)[i] = IF i <= la THEN A[i] ELSE B[i - la]
  BY <1>2, <1>3, <1>6, ConcatProperties
<1>8. DOMAIN (A \o B) = 1 .. la + lb
  BY <1>7
<1>9. \A i, j \in 1 .. la + lb : (A \o B)[i] = (A \o B)[j] => i = j
  BY <1>5, <1>8 DEF Distinct
<1> DEFINE AB == A \o B
<1> HIDE DEF AB
<1>10. \A i, j \in 1 .. la : dataset.semantic[i].id = dataset.semantic[j].id => i = j
  <2> SUFFICES ASSUME NEW i \in 1 .. la, NEW j \in 1 .. la,
                      dataset.semantic[i].id = dataset.semantic[j].id
               PROVE  i = j
    OBVIOUS
  <2>1. i \in 1 .. la + lb /\ j \in 1 .. la + lb
    BY <1>4
  <2>2. AB[i] = A[i] /\ AB[j] = A[j]
    BY <1>7, <2>1 DEF AB
  <2> QED  BY <1>2, <1>9, <2>1, <2>2 DEF AB
<1>11. \A i, j \in 1 .. lb : dataset.retrieval[i].id = dataset.retrieval[j].id => i = j
  <2> SUFFICES ASSUME NEW i \in 1 .. lb, NEW j \in 1 .. lb,
                      dataset.retrieval[i].id = dataset.retrieval[j].id
               PROVE  i = j
    OBVIOUS
  <2>1. PICK x \in 1 .. la + lb : x = i + la /\ x - la = i /\ ~(x <= la)
    BY <1>4
  <2>2. PICK y \in 1 .. la + lb : y = j + la /\ y - la = j /\ ~(y <= la)
    BY <1>4
  <2>3. AB[x] = B[i] /\ AB[y] = B[j]
    BY <1>7, <2>1, <2>2 DEF AB
  <2>4. x = y
    BY <1>3, <1>9, <2>3 DEF AB
  <2> QED  BY <2>1, <2>2, <2>4
<1> QED  BY <1>10, <1>11 DEF la, lb

\* Without a verdict every requirement is unverified.
LEMMA UnverifiedTyped ==
  \A criteria : /\ Unverified(criteria).relevant \in BOOLEAN /\ ~Unverified(criteria).relevant
                /\ \A k \in criteria : Unverified(criteria).status[k] = "insufficient_evidence"
BY DEF Unverified

\* A batch that covers the case is decided, one way or the other, on each requirement.
LEMMA AssessedTyped ==
  ASSUME NEW batch \in Batch, NEW c, NEW criteria, ExactlyCovers(batch, {c}, criteria), NEW texts
  PROVE  /\ Assess(VerdictOn(batch, c), texts, criteria).relevant \in BOOLEAN
         /\ \A k \in criteria : Assess(VerdictOn(batch, c), texts, criteria).status[k] \in Status
<1> DEFINE I == [id : CriterionId, status : Status, quotes : Seq([field : Field, span : Span])]
           V == [company : Company, items : Seq(I)]
           v == VerdictOn(batch, c)
<1>1. batch \in Seq(V)
  BY DEF Batch
<1>2. v = batch[1] /\ 1 \in DOMAIN batch
  BY OneVerdict
<1>3. v \in V
  <2> HIDE DEF V
  <2> QED  BY <1>1, <1>2, MemberType
<1>4. v.items \in Seq(I)
  BY <1>3
<1>5. Complete(v, criteria)
  BY <1>2 DEF ExactlyCovers
<1> HIDE DEF v, I
<1>6. ASSUME NEW k \in criteria PROVE StatusOf(v, texts, criteria, k) \in Status
  <2>1. PICK j \in DOMAIN v.items : v.items[j].id = k
    BY <1>5 DEF Complete, ItemIds
  <2>2. Max({i \in DOMAIN v.items : v.items[i].id = k}) = j
    BY <1>4, <1>5, <2>1, OneItemEach
  <2>3. v.items[j] \in I
    BY <1>4, <2>1, MemberType
  <2>4. v.items[j].status \in Status
    BY <2>3 DEF I
  <2> QED  BY <2>2, <2>4 DEF StatusOf, Status
<1> QED  BY <1>6 DEF Assess, v

\* Gold is a fact about a case.
LEMMA GoldTyped == \A case : Gold(case) \in BOOLEAN
BY DEF Gold

\* A recorded case leaves one row for each passed case: the id of the case at hand is
\* in no other row.
LEMMA RecordedCase ==
  ASSUME Admitted, Loop, RowsInv, phase = "llm", NEW decision, NEW ok \in BOOLEAN,
         Record(decision, ok), decision.relevant \in BOOLEAN,
         \A k \in Requirements(CaseAtHand) : decision.status[k] \in Status,
         ~ok => ~decision.relevant /\ \A k \in Requirements(CaseAtHand) :
                                        decision.status[k] = "insufficient_evidence"
  PROVE  RowsInv'
<1> DEFINE case == CaseAtHand
           row == SemanticRow(case, decision, ok)
<1>1. /\ n \in 1 .. Len(dataset.semantic) /\ Len(dataset.semantic) \in Nat
      /\ InSplit(case) /\ dataset \in Datasets /\ CheckReferences
  <2>1. dataset.semantic \in Seq(SemanticCase)
    BY DatasetAssumption DEF Loop
  <2>2. Len(dataset.semantic) \in Nat
    BY <2>1
  <2> QED  BY <2>2 DEF Loop, Admitted
<1>2. case \in SemanticCase /\ case \in Elements(dataset.semantic)
  BY <1>1, CaseTyped DEF CaseAtHand
<1>3. rows' = rows \cup {row} /\ n' = n + 1 /\ dataset' = dataset /\ split' = split
  BY DEF Record, arguments
<1>4. Passed' = Passed \cup {n}
  <2>1. \A i \in 1 .. n : InSplit(dataset.semantic[i])' <=> InSplit(dataset.semantic[i])
    BY <1>3 DEF InSplit
  <2>2. 1 .. n' - 1 = (1 .. n - 1) \cup {n}
    BY <1>1, <1>3
  <2> QED  BY <1>1, <1>3, <2>1, <2>2 DEF Passed, CaseAtHand
<1>5. n \notin Passed /\ Passed \subseteq 1 .. Len(dataset.semantic)
  BY <1>1 DEF Passed
<1>6. \A r \in rows : r.id # case.id
  <2> SUFFICES ASSUME NEW r \in rows, r.id = case.id PROVE FALSE
    OBVIOUS
  <2>1. PICK i \in Passed : r.id = dataset.semantic[i].id
    BY DEF RowsInv, RowOf
  <2>2. i = n
    BY <1>1, <1>5, <2>1, OneCaseEach DEF CaseAtHand
  <2> QED  BY <1>5, <2>2
<1>7. row.id = case.id
  BY DEF SemanticRow
<1>8. IsFiniteSet(rows') /\ Cardinality(rows') = Cardinality(Passed')
  <2>1. row \notin rows
    BY <1>6, <1>7
  <2>2. IsFiniteSet(Passed)
    <3>1. IsFiniteSet(1 .. Len(dataset.semantic))
      BY <1>1, FS_Interval
    <3> QED  BY <1>5, <3>1, FS_Subset
  <2> HIDE DEF row
  <2>3. IsFiniteSet(rows') /\ Cardinality(rows') = Cardinality(rows) + 1
    BY <1>3, <2>1, FS_AddElement DEF RowsInv
  <2>4. Cardinality(Passed') = Cardinality(Passed) + 1
    BY <1>4, <1>5, <2>2, FS_AddElement
  <2> QED  BY <2>3, <2>4 DEF RowsInv
<1>9. RowOf(row, case)
  <2>1. row.split \in {"dev", "holdout"}
    BY <1>2 DEF SemanticRow, SemanticCase
  <2>2. row.company \in Company
    BY <1>1, <1>2, CaseCompany DEF SemanticRow
  <2>3. row.expected_relevant \in BOOLEAN /\ row.predicted_relevant \in BOOLEAN
    BY GoldTyped DEF SemanticRow
  <2>4. \A k \in row.criteria : k.id \in CriterionId /\ k.predicted \in Status
    <3> SUFFICES ASSUME NEW label \in Elements(case.labels)
                 PROVE  label.id \in CriterionId /\ decision.status[label.id] \in Status
      BY DEF SemanticRow
    <3> DEFINE L == [id : CriterionId, status : Status, spans : SUBSET Span]
    <3>1. case.labels \in Seq(L)
      BY <1>2 DEF SemanticCase
    <3>2. label \in L
      <4> HIDE DEF L
      <4> QED  BY <3>1, MemberType DEF Elements
    <3>3. label.id \in Requirements(case)
      BY DEF Requirements
    <3> QED  BY <3>2, <3>3
  <2> QED  BY <1>7, <2>1, <2>2, <2>3, <2>4 DEF RowOf
<1>10. ~row.contract_ok =>
         ~row.predicted_relevant /\ \A k \in row.criteria : k.predicted = "insufficient_evidence"
  <2> SUFFICES ASSUME ~row.contract_ok
               PROVE  ~row.predicted_relevant
                      /\ \A k \in row.criteria : k.predicted = "insufficient_evidence"
    OBVIOUS
  <2>1. ~ok
    BY DEF SemanticRow
  <2>2. \A label \in Elements(case.labels) : label.id \in Requirements(case)
    BY DEF Requirements
  <2> QED  BY <2>1, <2>2 DEF SemanticRow
<1> HIDE DEF row, case
<1>11. dataset.semantic[n] = case
  BY DEF case, CaseAtHand
<1> QED
  <2>1. \A r \in rows' : \E i \in Passed' : RowOf(r, dataset.semantic[i])
    BY <1>3, <1>4, <1>9, <1>11 DEF RowsInv
  <2>2. \A i \in Passed' : \E r \in rows' : r.id = dataset.semantic[i].id
    BY <1>3, <1>4, <1>7, <1>11 DEF RowsInv
  <2>3. \A r \in rows' : ~r.contract_ok =>
          ~r.predicted_relevant /\ \A k \in r.criteria : k.predicted = "insufficient_evidence"
    BY <1>3, <1>10 DEF RowsInv
  <2> QED  BY <1>3, <1>8, <2>1, <2>2, <2>3 DEF RowsInv

\* The arguments never change, nor what they say of a case.
LEMMA ArgumentsStay ==
  ASSUME [Next]_vars
  PROVE  /\ dataset' = dataset /\ live' = live /\ split' = split
         /\ CheckReferences' <=> CheckReferences
         /\ \A case : (InSplit(case)' <=> InSplit(case)) /\ RetrievalRow(case)' = RetrievalRow(case)
<1>1. UNCHANGED arguments
  <2>1. CASE Script
    BY <2>1 DEF Script, LoadDataset, EvaluateRetrieval, Ping, SkipCase, AskModel, Summarize, WriteReport
  <2>2. CASE Model \/ CaseTimesOut
    BY <2>2 DEF Model, UnreadableReply, ReadableReply, ProviderUnavailable, ProviderFatal,
                CaseTimesOut, Record
  <2>3. CASE Over \/ UNCHANGED vars
    BY <2>3 DEF Over, vars
  <2> QED  BY <2>1, <2>2, <2>3 DEF Next
<1>2. dataset' = dataset /\ live' = live /\ split' = split
  BY <1>1 DEF arguments
<1>3. \A label, case : LabelHolds(label, case)' <=> LabelHolds(label, case)
  BY <1>2 DEF LabelHolds
<1>4. Records' = Records
  BY <1>2 DEF Records
<1>5. CheckReferences' <=> CheckReferences
  BY <1>2, <1>3, <1>4 DEF CheckReferences
<1>6. \A case : InSplit(case)' <=> InSplit(case)
  BY <1>2 DEF InSplit
<1>7. \A case : RetrievalRow(case)' = RetrievalRow(case)
  BY <1>4 DEF RetrievalRow
<1> QED  BY <1>2, <1>5, <1>6, <1>7

\* Only a recorded case moves on from the wait for the model to the next case.
LEMMA AnswerCases ==
  ASSUME phase = "llm", Model \/ CaseTimesOut
  PROVE  \/ UNCHANGED results /\ UNCHANGED n /\ UNCHANGED llmCalls
            /\ phase' = "semantic" /\ llmCalls < Budget
         \/ ProviderFatal
         \/ \E decision : \E ok \in BOOLEAN :
              /\ Record(decision, ok) /\ decision.relevant \in BOOLEAN
              /\ \A k \in Requirements(CaseAtHand) : decision.status[k] \in Status
              /\ ~ok => ~decision.relevant /\ \A k \in Requirements(CaseAtHand) :
                                               decision.status[k] = "insufficient_evidence"
<1> DEFINE criteria == Requirements(CaseAtHand)
           c == CaseAtHand.company
           batch == reply'.batch
<1>1. ASSUME Record(Unverified(criteria), FALSE)
      PROVE  \E decision : \E ok \in BOOLEAN :
              /\ Record(decision, ok) /\ decision.relevant \in BOOLEAN
              /\ \A k \in criteria : decision.status[k] \in Status
              /\ ~ok => ~decision.relevant /\ \A k \in criteria :
                                               decision.status[k] = "insufficient_evidence"
  <2> HIDE DEF criteria
  <2>1. /\ Unverified(criteria).relevant \in BOOLEAN /\ ~Unverified(criteria).relevant
        /\ \A k \in criteria : Unverified(criteria).status[k] = "insufficient_evidence"
        /\ \A k \in criteria : Unverified(criteria).status[k] \in Status
    BY UnverifiedTyped DEF Status
  <2> QED  BY <1>1, <2>1
<1>2. ASSUME ReadableReply, ExactlyCovers(batch, {c}, criteria),
             Record(Assess(VerdictOn(batch, c), Text[c], criteria), TRUE)
      PROVE  \E decision : \E ok \in BOOLEAN :
              /\ Record(decision, ok) /\ decision.relevant \in BOOLEAN
              /\ \A k \in criteria : decision.status[k] \in Status
              /\ ~ok => ~decision.relevant /\ \A k \in criteria :
                                               decision.status[k] = "insufficient_evidence"
  <2>1. batch \in Batch
    BY <1>2, ReplyAssumption DEF ReadableReply
  <2> DEFINE decision == Assess(VerdictOn(batch, c), Text[c], criteria)
  <2>2. decision.relevant \in BOOLEAN /\ \A k \in criteria : decision.status[k] \in Status
    <3> HIDE DEF batch, c, criteria
    <3> QED  BY <1>2, <2>1, AssessedTyped
  <2>3. Record(decision, TRUE)
    BY <1>2
  <2> HIDE DEF decision
  <2> QED  BY <2>2, <2>3
<1>3. CASE ReadableReply
  BY <1>1, <1>2, <1>3 DEF ReadableReply
<1>4. CASE UnreadableReply
  BY <1>1, <1>4 DEF UnreadableReply
<1>5. CASE ProviderUnavailable \/ CaseTimesOut
  BY <1>1, <1>5 DEF ProviderUnavailable, CaseTimesOut
<1> QED  BY <1>3, <1>4, <1>5 DEF Model

\* What is evaluated was let in.
LEMMA AdmittedStep == Admitted /\ [Next]_vars => Admitted'
<1> SUFFICES ASSUME Admitted, [Next]_vars PROVE Admitted'
  OBVIOUS
<1>1. /\ dataset' = dataset /\ (CheckReferences' <=> CheckReferences)
      /\ \A case : RetrievalRow(case)' = RetrievalRow(case)
  BY ArgumentsStay
<1>2. ASSUME CheckReferences, UNCHANGED retrieval PROVE Admitted'
  BY <1>1, <1>2 DEF Admitted, Elements
<1>3. CASE LoadDataset
  <2>1. CASE CheckReferences
    BY <1>2, <1>3, <2>1 DEF LoadDataset
  <2>2. CASE ~CheckReferences
    BY <1>1, <1>3, <2>2 DEF LoadDataset, Raise, Admitted
  <2> QED  BY <2>1, <2>2
<1>4. CASE EvaluateRetrieval
  <2>1. CheckReferences
    BY <1>4 DEF EvaluateRetrieval, Admitted
  <2>2. CASE Raise /\ UNCHANGED retrieval
    BY <1>2, <2>1, <2>2
  <2>3. CASE retrieval' = {RetrievalRow(case) : case \in Selected(dataset.retrieval)}
    <3>1. \A row \in retrieval' : \E case \in Elements(dataset.retrieval) : row = RetrievalRow(case)
      BY <2>3 DEF Selected
    <3> QED  BY <1>1, <2>1, <3>1 DEF Admitted, Elements
  <2> QED  BY <1>4, <2>2, <2>3 DEF EvaluateRetrieval
<1>5. CASE Ping \/ SkipCase \/ AskModel \/ Summarize \/ WriteReport
  <2>1. CheckReferences /\ UNCHANGED retrieval
    BY <1>5 DEF Admitted, Ping, SkipCase, AskModel, Summarize, WriteReport, results
  <2> QED  BY <1>2, <2>1
<1>6. CASE Model \/ CaseTimesOut
  <2>1. CheckReferences /\ UNCHANGED retrieval
    BY <1>6 DEF Admitted, Model, UnreadableReply, ReadableReply, ProviderUnavailable,
                ProviderFatal, CaseTimesOut, Record, results
  <2> QED  BY <1>2, <2>1
<1>7. CASE Over \/ UNCHANGED vars
  <2>1. UNCHANGED <<phase, retrieval>>
    BY <1>7 DEF Over, vars, results
  <2> QED  BY <1>1, <2>1 DEF Admitted, Elements
<1> QED  BY <1>3, <1>4, <1>5, <1>6, <1>7 DEF Next, Script

\* The loop stays inside the list of cases, and the context of a case inside its budget.
LEMMA LoopStep == Loop /\ [Next]_vars => Loop'
<1> SUFFICES ASSUME Loop, [Next]_vars PROVE Loop'
  OBVIOUS
<1> DEFINE last == Len(dataset.semantic)
<1>1. /\ dataset' = dataset /\ live' = live /\ split' = split
      /\ \A case : InSplit(case)' <=> InSplit(case)
  BY ArgumentsStay
<1>2. last \in Nat /\ n \in 1 .. last + 1 /\ last' = last
  <2>1. dataset.semantic \in Seq(SemanticCase)
    BY DatasetAssumption DEF Loop
  <2> QED  BY <1>1, <2>1 DEF Loop
<1>3. CaseAtHand' = dataset.semantic[n'] /\ CaseAtHand = dataset.semantic[n]
  BY <1>1 DEF CaseAtHand
<1> HIDE DEF last
<1>4. Loop <=> /\ dataset \in Datasets /\ live \in BOOLEAN /\ split \in {"all", "dev", "holdout"}
               /\ phase \in {"load", "retrieval", "ping", "semantic", "llm", "report", "done",
                             "raised"}
               /\ n \in 1 .. last + 1
               /\ llmCalls \in 0 .. Budget
               /\ phase \in {"load", "retrieval", "ping"} => llmCalls = 0
               /\ phase = "semantic" => llmCalls < Budget
               /\ phase \in {"load", "retrieval", "ping"} => n = 1
               /\ phase = "llm" => n <= last /\ InSplit(CaseAtHand)
               /\ reply \in Replies \cup {None}
  BY DEF Loop, last
<1>5. Loop' <=> /\ dataset' \in Datasets /\ live' \in BOOLEAN /\ split' \in {"all", "dev", "holdout"}
                /\ phase' \in {"load", "retrieval", "ping", "semantic", "llm", "report", "done",
                               "raised"}
                /\ n' \in 1 .. last + 1
                /\ llmCalls' \in 0 .. Budget
                /\ phase' \in {"load", "retrieval", "ping"} => llmCalls' = 0
                /\ phase' = "semantic" => llmCalls' < Budget
                /\ phase' \in {"load", "retrieval", "ping"} => n' = 1
                /\ phase' = "llm" => n' <= last /\ InSplit(CaseAtHand)'
                /\ reply' \in Replies \cup {None}
  BY <1>2 DEF Loop, last, Budget
<1>6. CASE LoadDataset \/ EvaluateRetrieval \/ Ping \/ Summarize \/ WriteReport
  BY <1>1, <1>4, <1>5, <1>6 DEF LoadDataset, EvaluateRetrieval, Ping, Summarize, WriteReport, Raise,
     Budget, results, arguments
<1>7. CASE SkipCase \/ AskModel
  <2>1. n <= last
    BY <1>7 DEF SkipCase, AskModel, last
  <2>2. CASE SkipCase
    BY <1>1, <1>2, <1>4, <1>5, <2>1, <2>2 DEF SkipCase
  <2>3. CASE AskModel
    <3>1. InSplit(CaseAtHand)' <=> InSplit(CaseAtHand)
      BY <1>1, <1>3, <2>3 DEF AskModel, InSplit
    <3> QED  BY <1>1, <1>2, <1>4, <1>5, <2>1, <2>3, <3>1 DEF AskModel, Budget
  <2> QED  BY <1>7, <2>2, <2>3
<1>8. CASE Model \/ CaseTimesOut
  <2>1. phase = "llm" /\ n <= last
    BY <1>4, <1>8 DEF Model, UnreadableReply, ReadableReply, ProviderUnavailable, ProviderFatal,
                      CaseTimesOut
  <2>2. reply' \in Replies \cup {None}
    BY <1>4, <1>8 DEF Model, UnreadableReply, ReadableReply, ProviderUnavailable, ProviderFatal,
                      CaseTimesOut
  <2>3. CASE ProviderFatal
    BY <1>1, <1>4, <1>5, <2>3 DEF ProviderFatal, Raise
  <2>4. ASSUME NEW decision, NEW ok, Record(decision, ok) PROVE Loop'
    BY <1>1, <1>2, <1>4, <1>5, <2>1, <2>2, <2>4 DEF Record, Budget
  <2>5. ASSUME UNCHANGED n, UNCHANGED llmCalls, phase' = "semantic", llmCalls < Budget PROVE Loop'
    BY <1>1, <1>4, <1>5, <2>2, <2>5
  <2> QED  BY <1>8, <2>1, <2>3, <2>4, <2>5, AnswerCases
<1>9. CASE Over \/ UNCHANGED vars
  <2>1. UNCHANGED <<phase, n, llmCalls, reply>>
    BY <1>9 DEF Over, vars
  <2>2. InSplit(CaseAtHand)' <=> InSplit(CaseAtHand)
    BY <1>1, <1>3, <2>1 DEF InSplit
  <2> QED  BY <1>1, <1>4, <1>5, <2>1, <2>2
<1> QED  BY <1>6, <1>7, <1>8, <1>9 DEF Next, Script

\* Each case the loop passes in the split gets its one row.
LEMMA RowsStep == Admitted /\ Loop /\ RowsInv /\ [Next]_vars => RowsInv'
<1> SUFFICES ASSUME Admitted, Loop, RowsInv, [Next]_vars PROVE RowsInv'
  OBVIOUS
<1>1. dataset' = dataset /\ \A case : InSplit(case)' <=> InSplit(case)
  BY ArgumentsStay
<1>2. ASSUME rows' = rows, Passed' = Passed PROVE RowsInv'
  BY <1>1, <1>2 DEF RowsInv
<1>3. ASSUME UNCHANGED <<n, rows>> PROVE RowsInv'
  BY <1>1, <1>2, <1>3 DEF Passed
<1>4. CASE SkipCase
  <2>1. n \in Nat /\ n' = n + 1 /\ ~InSplit(dataset.semantic[n]) /\ UNCHANGED rows
    <3>1. dataset.semantic \in Seq(SemanticCase)
      BY DatasetAssumption DEF Loop
    <3>2. Len(dataset.semantic) \in Nat
      BY <3>1
    <3> QED  BY <1>4, <3>2 DEF SkipCase, CaseAtHand, Loop, results
  <2>2. 1 .. n' - 1 = (1 .. n - 1) \cup {n}
    BY <1>4, <2>1 DEF Loop
  <2>3. Passed' = Passed
    BY <1>1, <2>1, <2>2 DEF Passed
  <2> QED  BY <1>2, <2>1, <2>3
<1>5. CASE LoadDataset \/ EvaluateRetrieval \/ Ping \/ AskModel \/ Summarize \/ WriteReport
  BY <1>3, <1>5 DEF LoadDataset, EvaluateRetrieval, Ping, AskModel, Summarize, WriteReport, results
<1>6. CASE Model \/ CaseTimesOut
  <2>1. phase = "llm"
    BY <1>6 DEF Model, UnreadableReply, ReadableReply, ProviderUnavailable, ProviderFatal,
                CaseTimesOut
  <2>2. CASE ProviderFatal
    BY <1>3, <2>2 DEF ProviderFatal
  <2>3. CASE UNCHANGED results /\ UNCHANGED n
    BY <1>3, <2>3 DEF results
  <2> QED  BY <1>6, <2>1, <2>2, <2>3, AnswerCases, RecordedCase
<1>7. CASE Over \/ UNCHANGED vars
  BY <1>3, <1>7 DEF Over, vars, results
<1> QED  BY <1>4, <1>5, <1>6, <1>7 DEF Next, Script

\* Metrics without a regression are those of rows that agree with the labels.
LEMMA NotRegressed ==
  ASSUME NEW part, IsFiniteSet(part), ~Regressed(SemanticMetrics(part)), NEW r \in part,
         r.predicted_relevant \in BOOLEAN, r.expected_relevant \in BOOLEAN
  PROVE  /\ r.contract_ok /\ r.predicted_relevant = r.expected_relevant
         /\ \A k \in r.criteria : k.predicted = k.expected
<1> DEFINE F == {x \in part : ~x.contract_ok}
           A == {x \in part : x.predicted_relevant /\ ~x.expected_relevant}
           B == {x \in part : ~x.predicted_relevant /\ x.expected_relevant}
<1>1. /\ ~(Cardinality(F) > 0) /\ ~(Cardinality(A) > 0) /\ ~(Cardinality(B) > 0)
      /\ \A x \in part : \A k \in x.criteria : k.expected = k.predicted
  BY DEF Regressed, SemanticMetrics
<1>2. F \subseteq part /\ A \subseteq part /\ B \subseteq part
  OBVIOUS
<1>3. \A S : S \subseteq part /\ ~(Cardinality(S) > 0) => S = {}
  BY FS_Subset, FS_CardinalityType, FS_EmptySet
<1>4. F = {} /\ A = {} /\ B = {}
  <2> HIDE DEF F, A, B
  <2> QED  BY <1>1, <1>2, <1>3
<1>5. r \notin F /\ r \notin A /\ r \notin B
  <2> HIDE DEF F, A, B
  <2> QED  BY <1>4
<1>6. r.contract_ok /\ ~(r.predicted_relevant /\ ~r.expected_relevant)
      /\ ~(~r.predicted_relevant /\ r.expected_relevant)
  BY <1>5
<1>7. r.predicted_relevant = r.expected_relevant
  BY <1>6
<1> QED  BY <1>1, <1>6, <1>7

\* The exit code is set by what the rows say.
LEMMA VerdictsStep == Loop /\ RowsInv /\ Verdicts /\ [Next]_vars => Verdicts'
<1> SUFFICES ASSUME Loop, RowsInv, Verdicts, [Next]_vars PROVE Verdicts'
  OBVIOUS
<1>1. dataset' = dataset /\ live' = live
  BY ArgumentsStay
<1>2. CASE LoadDataset
  BY <1>1, <1>2 DEF LoadDataset, Raise, Verdicts
<1>3. CASE EvaluateRetrieval
  BY <1>1, <1>3 DEF EvaluateRetrieval, Raise, Verdicts, Loop
<1>4. CASE Ping
  BY <1>1, <1>4 DEF Ping, Verdicts
<1>5. CASE SkipCase \/ AskModel
  BY <1>1, <1>5 DEF SkipCase, AskModel, Verdicts, results
<1>6. CASE Summarize
  <2>1. /\ phase = "semantic" /\ n > Len(dataset.semantic) /\ status' = "MEASURED"
        /\ phase' = "report" /\ UNCHANGED <<n, rows>> /\ status = "NOT_RUN"
    BY <1>6 DEF Summarize, Verdicts
  <2>2. exitCode' \in 0 .. 2
    BY <1>6 DEF Summarize, Verdicts
  <2>3. ASSUME exitCode' = 0, NEW r \in rows
        PROVE  /\ r.contract_ok /\ r.predicted_relevant = r.expected_relevant
               /\ \A k \in r.criteria : k.predicted = k.expected
    <3> DEFINE measured == {x \in rows : x.split = r.split}
    <3>1. /\ r.split \in {"dev", "holdout"}
          /\ r.predicted_relevant \in BOOLEAN /\ r.expected_relevant \in BOOLEAN
      BY DEF RowsInv, RowOf
    <3>2. r \in measured /\ measured # {} /\ measured \subseteq rows
      OBVIOUS
    <3>3. ~Regressed(SemanticMetrics(measured))
      <4>1. ~\E part \in {"dev", "holdout"} :
               {x \in rows : x.split = part} # {}
               /\ Regressed(SemanticMetrics({x \in rows : x.split = part}))
        BY <1>6, <2>3 DEF Summarize
      <4>2. PICK part \in {"dev", "holdout"} : part = r.split
        BY <3>1
      <4>3. measured = {x \in rows : x.split = part}
        BY <4>2
      <4> HIDE DEF measured
      <4> QED  BY <3>2, <4>1, <4>3
    <3>4. IsFiniteSet(measured)
      BY <3>2, FS_Subset DEF RowsInv
    <3> HIDE DEF measured
    <3> QED  BY <3>1, <3>2, <3>3, <3>4, NotRegressed
  <2> QED  BY <1>1, <2>1, <2>2, <2>3 DEF Verdicts
<1>7. CASE WriteReport
  BY <1>1, <1>7 DEF WriteReport, Verdicts, results
<1>8. CASE Model \/ CaseTimesOut
  <2>1. phase = "llm" /\ status = "NOT_RUN"
    BY <1>8 DEF Verdicts, Model, UnreadableReply, ReadableReply, ProviderUnavailable, ProviderFatal,
                CaseTimesOut
  <2>2. \/ phase' = "semantic" /\ UNCHANGED <<status, exitCode>>
        \/ phase' = "raised" /\ status' = status /\ exitCode' = 1
    <3>1. CASE ProviderFatal
      BY <3>1 DEF ProviderFatal, Raise
    <3>2. ASSUME NEW decision, NEW ok, Record(decision, ok)
          PROVE  phase' = "semantic" /\ UNCHANGED <<status, exitCode>>
      BY <3>2 DEF Record
    <3>3. CASE UNCHANGED results /\ phase' = "semantic"
      BY <3>3 DEF results
    <3> QED  BY <1>8, <2>1, <3>1, <3>2, <3>3, AnswerCases
  <2> QED  BY <1>1, <2>1, <2>2 DEF Verdicts
<1>9. CASE Over \/ UNCHANGED vars
  <2>1. UNCHANGED <<phase, n, rows, status, exitCode>>
    BY <1>9 DEF Over, vars, results
  <2> QED  BY <1>1, <2>1 DEF Verdicts
<1> QED  BY <1>2, <1>3, <1>4, <1>5, <1>6, <1>7, <1>8, <1>9 DEF Next, Script

\* The invariant holds at the start.
LEMMA InvStarts == Init => IInv
<1> SUFFICES ASSUME Init PROVE IInv
  OBVIOUS
<1>1. /\ phase = "load" /\ retrieval = {} /\ n = 1 /\ llmCalls = 0 /\ reply = None
      /\ rows = {} /\ status = "NOT_RUN" /\ exitCode = 0 /\ dataset \in Datasets
      /\ live \in BOOLEAN /\ split \in {"all", "dev", "holdout"}
  BY DEF Init
<1>2. Len(dataset.semantic) \in Nat
  <2>1. dataset.semantic \in Seq(SemanticCase)
    BY <1>1, DatasetAssumption
  <2> QED  BY <2>1
<1>3. Passed = {}
  BY <1>1 DEF Passed
<1>4. RowsInv
  BY <1>1, <1>3, FS_EmptySet DEF RowsInv
<1>5. Loop
  BY <1>1, <1>2 DEF Loop, Budget
<1> QED  BY <1>1, <1>4, <1>5 DEF IInv, Admitted, Verdicts

\* The invariant is inductive.
THEOREM InductiveInvariant == Spec => []IInv
<1>1. Init => IInv
  BY InvStarts
<1>2. IInv /\ [Next]_vars => IInv'
  BY AdmittedStep, LoopStep, RowsStep, VerdictsStep DEF IInv
<1> QED  BY <1>1, <1>2, PTL DEF Spec
-----------------------------------------------------------------------------
(* What follows from it.                                                   *)

\* Every variable of the evaluation has the type of what it stands for, and a case is
\* never about to ask with its budget spent.
THEOREM TypeCorrect == Spec => []TypeOK
<1>1. IInv => TypeOK
  BY DEF IInv, Loop, RowsInv, RowOf, Verdicts, TypeOK
<1> QED  BY <1>1, InductiveInvariant, PTL

\* Whatever goes wrong with a case of evaluate_semantics, it has its row among those of
\* the cases before, and the row rejects.
THEOREM FailuresReject == Spec => []FailuresCountAsRejections
<1>1. IInv => FailuresCountAsRejections
  BY DEF IInv, RowsInv, Passed, FailuresCountAsRejections
<1> QED  BY <1>1, InductiveInvariant, PTL

\* A live run of main that exits with 0 has a row for every selected case, and no row
\* that differs from the labels.
THEOREM ZeroMeansAgreement == Spec => []ZeroIsEarned
<1>1. IInv => ZeroIsEarned
  <2> SUFFICES ASSUME IInv, phase = "done", live, exitCode = 0
               PROVE  /\ status = "MEASURED"
                      /\ \A case \in Selected(dataset.semantic) : \E r \in rows : r.id = case.id
                      /\ \A r \in rows : /\ r.contract_ok
                                         /\ r.predicted_relevant = r.expected_relevant
                                         /\ \A k \in r.criteria : k.predicted = k.expected
    BY DEF ZeroIsEarned
  <2>1. status = "MEASURED" /\ n > Len(dataset.semantic)
    BY DEF IInv, Verdicts
  <2>2. ASSUME NEW case \in Selected(dataset.semantic) PROVE \E r \in rows : r.id = case.id
    <3>1. dataset.semantic \in Seq(SemanticCase)
      BY DatasetAssumption DEF IInv, Loop
    <3>2. PICK i \in 1 .. Len(dataset.semantic) : case = dataset.semantic[i] /\ InSplit(case)
      BY <3>1 DEF Selected, Elements
    <3>3. Len(dataset.semantic) \in Nat /\ n \in 1 .. Len(dataset.semantic) + 1
      BY <3>1 DEF IInv, Loop
    <3>4. i \in 1 .. n - 1
      BY <2>1, <3>2, <3>3
    <3>5. i \in Passed
      BY <3>2, <3>4 DEF Passed
    <3> QED  BY <3>2, <3>5 DEF IInv, RowsInv
  <2> QED  BY <2>1, <2>2 DEF IInv, Verdicts
<1> QED  BY <1>1, InductiveInvariant, PTL

\* The object extract_json_object makes of a reply is the last of the reply.
THEOREM LaterObjectsCount == Spec => []NoLaterObjectIgnored
<1>1. IInv => NoLaterObjectIgnored
  <2> SUFFICES ASSUME IInv, reply # None, Parses(reply),
                      NEW i \in DOMAIN reply.text, NEW j \in DOMAIN reply.text,
                      NEW k \in DOMAIN reply.text, reply.text[i] = "batch", i < j, j < k
               PROVE  ~(reply.text[j] = "open" /\ reply.text[k] = "close")
    BY DEF NoLaterObjectIgnored
  <2>1. reply \in Replies
    BY DEF IInv, Loop
  <2>2. reply.text \in Seq(Chunk) /\ \A x, y \in Places(reply.text, {"batch"}) : x = y
    BY <2>1, ReplyAssumption
  <2>3. Loads(Object(Unfence(Strip(reply.text))))
    BY DEF Parses
  <2> QED  BY <2>2, <2>3, LastObjectIsRead
<1> QED  BY <1>1, InductiveInvariant, PTL
-----------------------------------------------------------------------------
(* A data set that is let in can be passed.                                *)

\* A list of one.
LEMMA OneInList ==
  \A x : Len(<<x>>) = 1 /\ DOMAIN <<x>> = {1} /\ <<x>>[1] = x /\ <<x>> # <<>>
OBVIOUS

\* Labels with distinct criteria are as many as their criteria.
LEMMA LabelsCounted ==
  ASSUME NEW case, Distinct(CaseIds(case.labels)),
         Len(case.labels) \in Nat, DOMAIN case.labels = 1 .. Len(case.labels)
  PROVE  /\ Cardinality(Requirements(case)) = Len(case.labels)
         /\ Requirements(case) = {case.labels[i].id : i \in 1 .. Len(case.labels)}
         /\ Elements(case.labels) = {case.labels[i] : i \in 1 .. Len(case.labels)}
<1> DEFINE m == Len(case.labels)
           f == [i \in 1 .. m |-> case.labels[i].id]
           R == Requirements(case)
<1>1. m \in Nat /\ DOMAIN case.labels = 1 .. m
  OBVIOUS
<1>2. Elements(case.labels) = {case.labels[i] : i \in 1 .. m}
  BY <1>1 DEF Elements
<1>3. R = {case.labels[i].id : i \in 1 .. m}
  BY <1>2 DEF Requirements
<1>4. f \in Surjection(1 .. m, R)
  BY <1>3 DEF Surjection
<1>5. CaseIds(case.labels) = f
  BY <1>1 DEF CaseIds
<1>6. f \in Injection(1 .. m, R)
  <2>1. \A i, j \in 1 .. m : f[i] = f[j] => i = j
    BY <1>5 DEF Distinct
  <2>2. f \in [1 .. m -> R]
    BY <1>4 DEF Surjection
  <2> HIDE DEF f, R
  <2> QED  BY <2>1, <2>2 DEF Injection, IsInjective
<1>7. IsFiniteSet(1 .. m) /\ Cardinality(1 .. m) = m
  BY <1>1, FS_Interval
<1>8. Cardinality(R) = m
  <2> HIDE DEF f, R, m
  <2> QED  BY <1>4, <1>6, <1>7, FS_Surjection
<1> QED  BY <1>2, <1>3, <1>8

\* A label with spans can be quoted for: by a span of its own that the schema admits,
\* or, if they are all too long, by the beginning of one.
LEMMA QuotationsFound ==
  ASSUME NEW label, NEW case, Text[case.company] \in TextType,
         label.spans \subseteq Span, label.spans # {},
         \A s \in label.spans : s # EmptySpan /\ s \in Text[case.company]["description"]
  PROVE  /\ Quotations(label, case) # {}
         /\ Quotations(label, case) \subseteq Text[case.company]["description"] \cap Quotable
<1> DEFINE text == Text[case.company]["description"]
<1>1. text \cap LongSpan # {} => text \cap Quotable # {}
  BY DEF TextType, Field
<1> HIDE DEF text
<1>2. label.spans \subseteq text
  BY DEF text
<1>3. Quotations(label, case) = IF label.spans \cap Quotable # {} THEN label.spans \cap Quotable
                                ELSE text \cap Quotable
  BY DEF Quotations, text
<1>4. label.spans \cap Quotable # {} \/ text \cap LongSpan # {}
  BY <1>2 DEF Quotable
<1> QED  BY <1>1, <1>2, <1>3, <1>4 DEF text

\* The items of the labelled verdict: one for each label, with a quote when the label
\* has a span.
LEMMA LabelledItems ==
  ASSUME NEW case \in SemanticCase
  PROVE  LET v == LabelledVerdict(case) IN
         /\ v.company = case.company /\ DOMAIN v.items = 1 .. Len(case.labels)
         /\ Len(v.items) = Len(case.labels) /\ \E I : v.items \in Seq(I)
         /\ \A i \in 1 .. Len(case.labels) :
              /\ v.items[i].id = case.labels[i].id /\ v.items[i].status = case.labels[i].status
              /\ case.labels[i].spans = {} => v.items[i].quotes = <<>>
              /\ case.labels[i].spans # {} =>
                   v.items[i].quotes = <<[field |-> "description",
                     span |-> CHOOSE s \in Quotations(case.labels[i], case) : TRUE]>>
<1> DEFINE v == LabelledVerdict(case)
           m == Len(case.labels)
           L == [id : CriterionId, status : Status, spans : SUBSET Span]
           quotes(label) == IF label.spans = {} THEN <<>>
                            ELSE <<[field |-> "description",
                                    span |-> CHOOSE s \in Quotations(label, case) : TRUE]>>
           item(i) == [id |-> case.labels[i].id, status |-> case.labels[i].status,
                       quotes |-> quotes(case.labels[i])]
<1>1. case.labels \in Seq(L)
  BY DEF SemanticCase
<1>2. m \in Nat /\ DOMAIN case.labels = 1 .. m
  <2> HIDE DEF L
  <2> QED  BY <1>1
<1>3. v.company = case.company
  BY DEF LabelledVerdict
<1>4. v.items = [i \in 1 .. m |-> item(i)]
  BY <1>2 DEF LabelledVerdict
<1>5. v.items \in Seq({item(i) : i \in 1 .. m})
  <2> HIDE DEF v, item
  <2>1. v.items \in [1 .. m -> {item(i) : i \in 1 .. m}]
    BY <1>4
  <2> QED  BY <1>2, <2>1
<1>6. DOMAIN v.items = 1 .. m
  BY <1>4
<1>7. Len(v.items) = m
  BY <1>2, <1>5, <1>6, LenProperties
<1>8. ASSUME NEW i \in 1 .. m
      PROVE  /\ v.items[i].id = case.labels[i].id /\ v.items[i].status = case.labels[i].status
             /\ case.labels[i].spans = {} => v.items[i].quotes = <<>>
             /\ case.labels[i].spans # {} =>
                  v.items[i].quotes = <<[field |-> "description",
                    span |-> CHOOSE s \in Quotations(case.labels[i], case) : TRUE]>>
  <2>1. v.items[i] = item(i)
    BY <1>4
  <2>2. v.items[i].id = case.labels[i].id /\ v.items[i].status = case.labels[i].status
        /\ v.items[i].quotes = quotes(case.labels[i])
    <3> HIDE DEF v, quotes
    <3> QED  BY <2>1
  <2> HIDE DEF v
  <2> QED  BY <2>2
<1> QED  BY <1>3, <1>5, <1>6, <1>7, <1>8

\* The labels of a case that was let in pass the schema, the exactness check and the
\* policy, and come out as they went in.
LEMMA LabelsPass ==
  ASSUME dataset \in Datasets, CheckReferences, NEW case \in Elements(dataset.semantic),
         case.company >= 1
  PROVE  LET v == LabelledVerdict(case)
             decision == Assess(v, Text[case.company], Requirements(case))
         IN  /\ FitsSchema(<<v>>) /\ ExactlyCovers(<<v>>, {case.company}, Requirements(case))
             /\ decision.relevant = Gold(case)
             /\ \A label \in Elements(case.labels) : decision.status[label.id] = label.status
<1> DEFINE v == LabelledVerdict(case)
           R == Requirements(case)
           texts == Text[case.company]
           m == Len(case.labels)
           L == [id : CriterionId, status : Status, spans : SUBSET Span]
<1>1. case \in SemanticCase /\ m \in 1 .. 12
  <2>1. dataset.semantic \in Seq(SemanticCase)
    BY DatasetAssumption
  <2>2. PICK i \in 1 .. Len(dataset.semantic) : case = dataset.semantic[i]
    BY <2>1 DEF Elements
  <2> QED  BY <2>2, CaseTyped
<1>2. Distinct(CaseIds(case.labels)) /\ \A label \in Elements(case.labels) : LabelHolds(label, case)
  BY DEF CheckReferences
<1>3. case.labels \in Seq(L)
  BY <1>1 DEF SemanticCase
<1>4. /\ Cardinality(R) = m /\ R = {case.labels[i].id : i \in 1 .. m}
      /\ Elements(case.labels) = {case.labels[i] : i \in 1 .. m}
  <2>1. Len(case.labels) \in Nat /\ DOMAIN case.labels = 1 .. Len(case.labels)
    BY <1>3
  <2>2. Distinct(CaseIds(case.labels))
    BY <1>2
  <2> HIDE DEF R, m, L
  <2>3. /\ Cardinality(Requirements(case)) = Len(case.labels)
        /\ Requirements(case) = {case.labels[i].id : i \in 1 .. Len(case.labels)}
        /\ Elements(case.labels) = {case.labels[i] : i \in 1 .. Len(case.labels)}
    BY <2>1, <2>2, LabelsCounted
  <2>4. R = Requirements(case) /\ m = Len(case.labels)
    BY DEF R, m
  <2> QED  BY <2>3, <2>4
<1>5. /\ v.company = case.company /\ DOMAIN v.items = 1 .. m /\ Len(v.items) = m
      /\ \E I : v.items \in Seq(I)
  BY <1>1, LabelledItems
<1>6. \A i \in 1 .. m :
        /\ v.items[i].id = case.labels[i].id /\ v.items[i].status = case.labels[i].status
        /\ case.labels[i].spans = {} => v.items[i].quotes = <<>>
        /\ case.labels[i].spans # {} =>
             v.items[i].quotes = <<[field |-> "description",
               span |-> CHOOSE s \in Quotations(case.labels[i], case) : TRUE]>>
  BY <1>1, LabelledItems
<1>7. \A i \in 1 .. m :
        /\ case.labels[i].status # "insufficient_evidence" => case.labels[i].spans # {}
        /\ \A s \in case.labels[i].spans : s # EmptySpan /\ s \in texts["description"]
  BY <1>2, <1>4 DEF LabelHolds
<1>quotable. ASSUME NEW i \in 1 .. m, case.labels[i].spans # {}
             PROVE  \E s \in texts["description"] \cap Quotable :
                      v.items[i].quotes = <<[field |-> "description", span |-> s]>>
  <2> DEFINE label == case.labels[i]
             found == Quotations(label, case)
  <2>1. label.spans \subseteq Span
    <3>1. m \in Nat
      BY <1>1
    <3>2. label \in L
      <4> HIDE DEF L
      <4> QED  BY <1>3
    <3> QED  BY <3>2
  <2>2. texts \in TextType
    BY <1>1, CorpusAssumption, CaseCompany
  <2>3. label.spans # {} /\ \A s \in label.spans : s # EmptySpan /\ s \in texts["description"]
    BY <1>7, <1>quotable
  <2>4. v.items[i].quotes = <<[field |-> "description", span |-> CHOOSE s \in found : TRUE]>>
    BY <1>6, <1>quotable
  <2> HIDE DEF label, v, L, m
  <2>5. found # {} /\ found \subseteq texts["description"] \cap Quotable
    BY <2>1, <2>2, <2>3, QuotationsFound
  <2> HIDE DEF found, texts
  <2>6. (CHOOSE s \in found : TRUE) \in found
    BY <2>5
  <2> QED  BY <2>4, <2>5, <2>6
<1> HIDE DEF v, R, texts, m, L
<1>8. Complete(v, R)
  <2>1. ItemIds(v) = R
    BY <1>4, <1>5, <1>6 DEF ItemIds
  <2> QED  BY <1>4, <1>5, <2>1 DEF Complete
<1>9. ExactlyCovers(<<v>>, {case.company}, R)
  <2> DEFINE batch == <<v>>
  <2>1. Len(batch) = 1 /\ DOMAIN batch = {1} /\ batch[1] = v
    BY OneInList
  <2> HIDE DEF batch
  <2>2. Companies(batch) = {case.company}
    BY <1>5, <2>1 DEF Companies
  <2>3. Cardinality({case.company}) = 1
    BY FS_Singleton
  <2>4. ExactlyCovers(batch, {case.company}, R)
    BY <1>8, <2>1, <2>2, <2>3 DEF ExactlyCovers
  <2> QED  BY <2>4 DEF batch
<1>10. ASSUME NEW i \in 1 .. m
       PROVE  /\ case.labels[i].spans = {} => v.items[i].quotes = <<>>
              /\ case.labels[i].spans # {} =>
                   /\ v.items[i].quotes # <<>> /\ Len(v.items[i].quotes) = 1
                   /\ \A q \in DOMAIN v.items[i].quotes :
                        /\ v.items[i].quotes[q].span \in Quotable
                        /\ v.items[i].quotes[q].span \in texts[v.items[i].quotes[q].field]
  <2>1. CASE case.labels[i].spans = {}
    BY <1>6, <2>1
  <2>2. CASE case.labels[i].spans # {}
    <3>1. PICK s \in texts["description"] \cap Quotable :
            v.items[i].quotes = <<[field |-> "description", span |-> s]>>
      BY <1>quotable, <2>2
    <3> DEFINE quote == [field |-> "description", span |-> s]
               qs == v.items[i].quotes
    <3>2. quote.span = s /\ quote.field = "description"
      OBVIOUS
    <3>3. Len(qs) = 1 /\ DOMAIN qs = {1} /\ qs[1] = quote /\ qs # <<>>
      <4> HIDE DEF quote
      <4> QED  BY <3>1, OneInList DEF quote
    <3>4. s \in Quotable /\ s \in texts["description"]
      OBVIOUS
    <3> HIDE DEF quote, qs
    <3>5. \A q \in DOMAIN qs : qs[q].span \in Quotable /\ qs[q].span \in texts[qs[q].field]
      BY <3>2, <3>3, <3>4
    <3> QED  BY <2>2, <3>3, <3>5 DEF qs
  <2> QED  BY <2>1, <2>2
<1>11. FitsSchema(<<v>>)
  <2> DEFINE batch == <<v>>
  <2>1. Len(batch) = 1 /\ DOMAIN batch = {1} /\ batch[1] = v
    BY OneInList
  <2> HIDE DEF batch
  <2>2. {batch[i] : i \in DOMAIN batch} = {v}
    BY <2>1
  <2>3. Len(v.items) \in 1 .. 12
    BY <1>1, <1>5
  <2>4. ASSUME NEW i \in 1 .. m
        PROVE  /\ Len(v.items[i].quotes) <= 2
               /\ \A q \in DOMAIN v.items[i].quotes : v.items[i].quotes[q].span \in Quotable
    <3>1. CASE case.labels[i].spans = {}
      <4>1. v.items[i].quotes = <<>>
        BY <1>10, <3>1
      <4>2. Len(<<>>) = 0 /\ DOMAIN <<>> = {}
        OBVIOUS
      <4> QED  BY <4>1, <4>2
    <3>2. CASE case.labels[i].spans # {}
      <4>1. /\ Len(v.items[i].quotes) = 1
            /\ \A q \in DOMAIN v.items[i].quotes : v.items[i].quotes[q].span \in Quotable
        BY <1>10, <3>2
      <4> QED  BY <4>1
    <3> QED  BY <3>1, <3>2
  <2>5. \A item \in {v.items[i] : i \in DOMAIN v.items} :
          /\ Len(item.quotes) <= 2
          /\ \A q \in DOMAIN item.quotes : item.quotes[q].span \in Quotable
    BY <1>5, <2>4
  <2>company. v.company >= 1
    BY <1>5
  <2>6. \A w \in {batch[i] : i \in DOMAIN batch} :
          /\ w.company >= 1 /\ Len(w.items) \in 1 .. 12
          /\ \A item \in {w.items[i] : i \in DOMAIN w.items} :
               /\ Len(item.quotes) <= 2
               /\ \A q \in DOMAIN item.quotes : item.quotes[q].span \in Quotable
    BY <2>2, <2>3, <2>5, <2>company
  <2>7. FitsSchema(batch)
    <3>1. Len(batch) <= 10
      BY <2>1
    <3> QED  BY <2>6, <3>1, Zenon DEF FitsSchema
  <2> QED  BY <2>7 DEF batch
<1>12. ASSUME NEW i \in 1 .. m
       PROVE  StatusOf(v, texts, R, case.labels[i].id) = case.labels[i].status
  <2>1. Max({j \in DOMAIN v.items : v.items[j].id = v.items[i].id}) = i
    BY <1>5, <1>8, OneItemEach
  <2>2. Max({j \in DOMAIN v.items : v.items[j].id = case.labels[i].id}) = i
    BY <1>6, <2>1
  <2>3. StatusOf(v, texts, R, case.labels[i].id) =
          IF Traceable(v.items[i], texts) THEN case.labels[i].status ELSE "insufficient_evidence"
    BY <1>6, <1>8, <2>2 DEF StatusOf
  <2>4. CASE case.labels[i].spans = {}
    BY <1>7, <2>3, <2>4
  <2>5. CASE case.labels[i].spans # {}
    <3>1. Traceable(v.items[i], texts)
      BY <1>10, <2>5 DEF Traceable
    <3> QED  BY <2>3, <3>1
  <2> QED  BY <2>4, <2>5
<1> DEFINE decision == Assess(v, texts, R)
<1>13. \A k \in R : decision.status[k] = StatusOf(v, texts, R, k)
  BY DEF Assess
<1>14. \A label \in Elements(case.labels) : decision.status[label.id] = label.status
  <2> HIDE DEF decision
  <2> QED  BY <1>4, <1>12, <1>13
<1>15. R # {}
  BY <1>1, <1>4
<1>16. decision.relevant <=> \A k \in R : decision.status[k] = "supported"
  BY <1>8, <1>15 DEF Assess
<1>17. decision.relevant \in BOOLEAN /\ Gold(case) \in BOOLEAN
  BY GoldTyped DEF Assess
<1>18. decision.relevant <=> Gold(case)
  <2> HIDE DEF decision
  <2>1. (\A k \in R : decision.status[k] = "supported")
          <=> \A label \in Elements(case.labels) : label.status = "supported"
    BY <1>4, <1>14
  <2> QED  BY <1>16, <2>1 DEF Gold
<1>19. decision.relevant = Gold(case)
  <2> HIDE DEF decision
  <2> QED  BY <1>17, <1>18
<1> QED  BY <1>9, <1>11, <1>14, <1>19 DEF v, R, texts

\* No batch the schema admits covers a company whose id is below one.
LEMMA NobodyBelowOne ==
  ASSUME NEW batch, FitsSchema(batch), NEW c, NEW criteria, ExactlyCovers(batch, {c}, criteria)
  PROVE  c >= 1
<1>1. PICK i \in DOMAIN batch : batch[i].company = c
  BY DEF ExactlyCovers, Companies
<1> QED  BY <1>1 DEF FitsSchema

\* Whatever data set check_references lets in, a model that answers with its labels
\* passes the schema, the exactness check and the acceptance policy on every case of a
\* company that a verdict can name, and none can on the others.
THEOREM GoldPasses == Spec => []GoldIsAttainable
<1>1. IInv => GoldIsAttainable
  <2> SUFFICES ASSUME IInv, phase = "semantic", NEW case \in Elements(dataset.semantic)
               PROVE  IF case.company >= 1
                        THEN LET v == LabelledVerdict(case)
                                 decision == Assess(v, Text[case.company], Requirements(case))
                             IN  /\ FitsSchema(<<v>>)
                                 /\ ExactlyCovers(<<v>>, {case.company}, Requirements(case))
                                 /\ decision.relevant = Gold(case)
                                 /\ \A label \in Elements(case.labels) :
                                      decision.status[label.id] = label.status
                        ELSE \A r \in Replies :
                               Parses(r) => ~ExactlyCovers(r.batch, {case.company}, Requirements(case))
    BY DEF GoldIsAttainable
  <2>1. CASE case.company >= 1
    BY <2>1, LabelsPass DEF IInv, Loop, Admitted
  <2>2. CASE ~(case.company >= 1)
    BY <2>2, NobodyBelowOne DEF Parses
  <2> QED  BY <2>1, <2>2
<1> QED  BY <1>1, InductiveInvariant, PTL
-----------------------------------------------------------------------------
(* What the retrieval cases measure.                                         *)

\* The row of a case that was let in keeps the contract, and with no more companies
\* than the limit of the search it finds every labelled one.
LEMMA RowIsSound ==
  ASSUME dataset \in Datasets, CheckReferences, NEW case \in Elements(dataset.retrieval)
  PROVE  /\ RetrievalRow(case).contract_ok
         /\ Len(dataset.companies) <= 100 /\ Tokens(case.query) # {} =>
              Elements(case.relevant) \subseteq RetrievalRow(case).found
<1> DEFINE D == DOMAIN Records
           eligible == EligibleIds(Records, case.filters)
           matching == {c \in D : MatchesFilters(Records[c], case.filters)}
           query == case.query
           hits == RankEligible(query, eligible, 100)
           m == Len(dataset.companies)
<1>1. dataset.companies \in Seq(Indexed) /\ query \subseteq Term
  BY DatasetAssumption
<1>2. D = Elements(dataset.companies)
  BY DEF Records
<1>3. m \in Nat /\ DOMAIN dataset.companies = 1 .. m /\ \A i \in 1 .. m : dataset.companies[i] \in Indexed
  BY <1>1
<1>4. D \subseteq Indexed /\ D \subseteq Company
  <2> HIDE DEF D
  <2> QED  BY <1>2, <1>3, IndexAssumption DEF Elements
<1>5. eligible = matching
  BY DEF EligibleIds, MatchesFilters
<1>6. eligible \subseteq D
  BY DEF EligibleIds
<1> HIDE DEF D, eligible, m, query
<1>7. RankedList(hits) /\ Cardinality(hits) <= 100 /\ Ids(hits) \subseteq eligible
  <2>1. eligible \subseteq Company /\ 100 \in 1 .. 100
    BY <1>4, <1>6
  <2>2. query \subseteq Term
    BY <1>1
  <2>3. RankedList(hits)
    BY <2>1, <2>2, RankEligibleRanked
  <2>4. Cardinality(hits) <= 100
    BY <2>1, <2>2, RankEligibleCut
  <2> QED  BY <2>3, <2>4, RankEligibleIds
<1>8. Cardinality(hits) = Cardinality(Ids(hits))
  <2> HIDE DEF hits
  <2> QED  BY <1>7, IdsCount
<1>9. \A c \in Ids(hits) : c \in D /\ MatchesFilters(Records[c], case.filters)
  <2> HIDE DEF hits
  <2> QED  BY <1>5, <1>7
<1>10. RetrievalRow(case).contract_ok /\ RetrievalRow(case).found = Ids(hits)
  BY <1>5, <1>7, <1>8, <1>9 DEF RetrievalRow, eligible, D, query
<1>11. ASSUME m <= 100, Tokens(query) # {}, NEW c \in Elements(case.relevant)
       PROVE  c \in RetrievalRow(case).found
  <2>1. c \in eligible
    BY <1>5 DEF CheckReferences, D
  <2>2. IsFiniteSet(D) /\ Cardinality(D) <= m /\ Cardinality(D) \in Nat
    <3> DEFINE f == [i \in 1 .. m |-> dataset.companies[i]]
    <3>1. D = {f[i] : i \in 1 .. m}
      BY <1>2, <1>3 DEF Elements
    <3>2. f \in Surjection(1 .. m, D)
      BY <3>1 DEF Surjection
    <3>3. IsFiniteSet(1 .. m) /\ Cardinality(1 .. m) = m
      BY <1>3, FS_Interval
    <3> HIDE DEF f
    <3> QED  BY <1>3, <3>2, <3>3, FS_Surjection, FS_CardinalityType
  <2>3. Cardinality(eligible) <= Cardinality(D) /\ Cardinality(eligible) \in Nat
    BY <1>6, <2>2, FS_Subset, FS_CardinalityType
  <2>4. Cardinality(eligible) <= 100
    BY <1>3, <1>11, <2>2, <2>3
  <2>5. Ids(hits) = eligible \cap Indexed
    <3>1. eligible \subseteq Company /\ 100 \in 1 .. 100
      BY <1>4, <1>6
    <3>2. query \subseteq Term /\ Tokens(query) # {}
      BY <1>1, <1>11
    <3> QED  BY <2>4, <3>1, <3>2, RankEligibleCut
  <2> QED  BY <1>4, <1>6, <1>10, <2>1, <2>5
<1> QED  BY <1>10, <1>11 DEF m, query

\* Whatever data set check_references lets in, the search agrees with its labels on who
\* is eligible; and while the catalogue is no larger than the 100 hits the script asks
\* for, it finds every labelled company of a case whose query has a token.
THEOREM GoldIsFound ==
  ASSUME \A d \in Datasets : Len(d.companies) <= 100
  PROVE  Spec => []GoldIsRetrieved
<1>1. ASSUME IInv PROVE GoldIsRetrieved
  <2> SUFFICES ASSUME NEW row \in retrieval, NEW case \in Elements(dataset.retrieval),
                      row.id = case.id
               PROVE  /\ row.contract_ok
                      /\ Tokens(case.query) # {} => Elements(case.relevant) \subseteq row.found
    BY DEF GoldIsRetrieved
  <2>1. dataset \in Datasets /\ CheckReferences
    BY <1>1 DEF IInv, Admitted, Loop
  <2>2. PICK other \in Elements(dataset.retrieval) : row = RetrievalRow(other)
    BY <1>1 DEF IInv, Admitted
  <2>3. row.id = other.id
    BY <2>2 DEF RetrievalRow
  <2>4. dataset.retrieval \in Seq(Elements(dataset.retrieval))
    BY <2>1, DatasetAssumption
  <2>5. DOMAIN dataset.retrieval = 1 .. Len(dataset.retrieval)
    BY <2>4
  <2>6. PICK i \in 1 .. Len(dataset.retrieval) : case = dataset.retrieval[i]
    BY <2>5 DEF Elements
  <2>7. PICK j \in 1 .. Len(dataset.retrieval) : other = dataset.retrieval[j]
    BY <2>5 DEF Elements
  <2>8. case = other
    BY <2>1, <2>3, <2>6, <2>7, OneCaseEach
  <2> QED  BY <2>1, <2>2, <2>8, RowIsSound
<1> QED  BY <1>1, InductiveInvariant, PTL
=============================================================================
