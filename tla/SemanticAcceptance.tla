-------------------------- MODULE SemanticAcceptance --------------------------
(***************************************************************************)
(* From the text a model replies with to the decision on a company: the    *)
(* JSON object cut out of the text (llm/structured.py), the batch of       *)
(* verdicts checked against the schema and against what was asked          *)
(* (services/semantic_validation.py), and the acceptance policy that       *)
(* matches verdicts to criteria and quotes to the record                   *)
(* (agent/semantic.py).                                                    *)
(*                                                                         *)
(* A reply is [text, batch]: text is a sequence of chunks in which "batch" *)
(* stands for the members of one JSON object, and batch is what it says.   *)
(* A batch is a sequence of verdicts [company, items]; an item is          *)
(* [id, status, quotes] and a quote [field, span].  The texts of a record  *)
(* are a function from its fields to the spans found in them.              *)
(***************************************************************************)
EXTENDS Integers, Sequences, FiniteSetsExt

CONSTANTS
  CriterionId,
  Span,       \* what a validator can quote
  EmptySpan,  \* the empty quote, which is found in every text
  LongSpan    \* the quotes that the schema holds to be too long

Chunk == {"fence", "newline", "prose", "open", "close", "batch", "other"}
Field == {"name", "description"}
Status == {"supported", "contradicted", "insufficient_evidence"}

ASSUME SpanAssumption == EmptySpan \in Span /\ LongSpan \subseteq Span \ {EmptySpan}

\* What the schema lets a quote be.
Quotable == Span \ (LongSpan \cup {EmptySpan})

\* Every text contains the empty span, and with a long one its beginning.
TextType ==
  {texts \in [Field -> SUBSET Span] :
     \A f \in Field : /\ EmptySpan \in texts[f]
                      /\ texts[f] \cap LongSpan # {} => texts[f] \cap Quotable # {}}

-----------------------------------------------------------------------------
(* The object in the text.                                                 *)

Places(t, chunks) == {i \in DOMAIN t : t[i] \in chunks}

\* str.strip(), as far as lines go.
Strip(t) ==
  LET ink == Places(t, Chunk \ {"newline"})
  IN  IF ink = {} THEN <<>> ELSE SubSeq(t, Min(ink), Max(ink))

\* A text that opens with a fence loses its first line, if it has a second one,
\* and a fence it ends with.
Unfence(t) ==
  LET newlines == Places(t, {"newline"})
      body == IF newlines # {} THEN SubSeq(t, Min(newlines) + 1, Len(t)) ELSE t
  IN  IF t = <<>> \/ t[1] # "fence" THEN t
      ELSE IF body # <<>> /\ body[Len(body)] = "fence" THEN SubSeq(body, 1, Len(body) - 1)
      ELSE body

\* What extract_json_object says it finds, "the first {...} block".  Also a mutant:
\* a match that is not greedy.
FirstBlock(t) ==
  LET opens == Places(t, {"open"})
      closes == {j \in Places(t, {"close"}) : opens # {} /\ j > Min(opens)}
  IN  IF closes = {} THEN <<>> ELSE SubSeq(t, Min(opens), Min(closes))

\* The greedy match of the pattern: first opening brace to last closing one.
Object(t) ==
  LET opens == Places(t, {"open"})
      closes == {j \in Places(t, {"close"}) : opens # {} /\ j > Min(opens)}
  IN  IF closes = {} THEN <<>> ELSE SubSeq(t, Min(opens), Max(closes))

\* json.loads takes one object and nothing around it; "other" is no JSON, or
\* an object of another kind.
Loads(o) ==
  /\ o # <<>>
  /\ \A i \in DOMAIN o : o[i] \in IF i = 1 THEN {"open"} ELSE IF i = Len(o) THEN {"close"}
                                  ELSE {"newline", "batch"}
  /\ Cardinality(Places(o, {"batch"})) = 1

\* Mutant: a quote may be empty.
FitsSchemaEmptyQuotes(batch) ==
  /\ Len(batch) <= 10
  /\ \A v \in {batch[i] : i \in DOMAIN batch} :
       /\ v.company >= 1 /\ Len(v.items) \in 1 .. 12
       /\ \A item \in {v.items[i] : i \in DOMAIN v.items} : Len(item.quotes) <= 2

\* The limits of the schema.
FitsSchema(batch) ==
  /\ Len(batch) <= 10
  /\ \A v \in {batch[i] : i \in DOMAIN batch} :
       /\ v.company >= 1 /\ Len(v.items) \in 1 .. 12
       /\ \A item \in {v.items[i] : i \in DOMAIN v.items} :
            /\ Len(item.quotes) <= 2
            /\ \A i \in DOMAIN item.quotes : item.quotes[i].span \in Quotable

\* parse_strict returns the batch of the reply, or raises.
Parses(reply) == Loads(Object(Unfence(Strip(reply.text)))) /\ FitsSchema(reply.batch)

-----------------------------------------------------------------------------
(* The batch against what was asked, and the decision.                     *)

ItemIds(v) == {v.items[i].id : i \in DOMAIN v.items}
Companies(batch) == {batch[i].company : i \in DOMAIN batch}

\* A verdict names each criterion, and none twice.
Complete(v, criteria) == ItemIds(v) = criteria /\ Len(v.items) = Cardinality(criteria)

\* One verdict for each company, complete for the criteria.
ExactlyCovers(batch, companies, criteria) ==
  /\ Companies(batch) = companies /\ Len(batch) = Cardinality(companies)
  /\ \A i \in DOMAIN batch : Complete(batch[i], criteria)

\* The verdict the dict of a batch holds for a company: the last one.
VerdictOn(batch, c) == batch[Max({i \in DOMAIN batch : batch[i].company = c})]

\* Mutant: one good quote makes up for the others.
TraceableSome(item, texts) ==
  \E i \in DOMAIN item.quotes : item.quotes[i].span \in texts[item.quotes[i].field]

\* A quote at least, and every quote found in the field it names.
Traceable(item, texts) ==
  /\ item.quotes # <<>>
  /\ \A i \in DOMAIN item.quotes : item.quotes[i].span \in texts[item.quotes[i].field]

\* SemanticAcceptancePolicy.assess on a verdict of this company that was handed
\* over, for the criteria the request asked about.
StatusOf(v, texts, criteria, k) ==
  LET item == v.items[Max({i \in DOMAIN v.items : v.items[i].id = k})]
  IN  IF Complete(v, criteria) /\ Traceable(item, texts)
        THEN item.status ELSE "insufficient_evidence"

Assess(v, texts, criteria) ==
  LET statuses == [k \in criteria |-> StatusOf(v, texts, criteria, k)]
  IN  [status |-> statuses,
       relevant |-> /\ criteria # {} /\ Complete(v, criteria)
                    /\ \A k \in criteria : statuses[k] = "supported"]

\* The same without a verdict: everything is unverified.
Unverified(criteria) ==
  [status |-> [k \in criteria |-> "insufficient_evidence"], relevant |-> FALSE]
-----------------------------------------------------------------------------
(* What the decision means.                                                *)

\* The (company, criterion) pairs a batch supports with quotes that are there:
\* all that AgentWorkflow keeps of a batch.
Support(batch, text, criteria) ==
  {pair \in Companies(batch) \X criteria :
     \E i \in DOMAIN batch : \E j \in DOMAIN batch[i].items :
       LET item == batch[i].items[j] IN
         /\ batch[i].company = pair[1] /\ item.id = pair[2]
         /\ item.status = "supported" /\ Traceable(item, text[pair[1]])}

\* For each criterion there is one item in the verdict, no more, which says
\* supported and quotes something, and only what is in the record.
QuotedThroughout(v, texts, criteria) ==
  \A k \in criteria :
    \E i \in DOMAIN v.items :
      /\ \A j \in DOMAIN v.items : v.items[j].id = k <=> j = i
      /\ v.items[i].status = "supported" /\ v.items[i].quotes # <<>>
      /\ \A q \in DOMAIN v.items[i].quotes :
           LET quote == v.items[i].quotes[q]
           IN  quote.span # EmptySpan /\ quote.span \in texts[quote.field]
=============================================================================
