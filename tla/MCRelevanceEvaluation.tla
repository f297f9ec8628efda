------------------------ MODULE MCRelevanceEvaluation ------------------------
(* Three companies and one that no verdict can name; two criteria and four   *)
(* quotes.  Data sets that are valid, one without holdout cases and one for  *)
(* each way labels can be wrong; every batch of one verdict with up to two   *)
(* items, some with more, in ten texts.                                      *)
EXTENDS RelevanceEvaluation

MCCompany == 0 .. 3
MCTerm == {"ai", "green", "cyrillic"}
MCOpaque == {"cyrillic"}
MCText == [c \in MCCompany |->
             [f \in Field |-> IF f = "name" THEN {"empty"} ELSE {"empty", "quote", "long"}]]
MCBM25 == [c \in MCCompany |-> [T \in SUBSET MCTerm |->
             IF c = 1 THEN Cardinality(T \cap {"ai"}) ELSE Cardinality(T \cap {"green"}) - 1]]
MCPosition == [c \in MCCompany |-> c]
MCRow == [c \in MCCompany |->
            [industry |-> IF c \in {0, 3} THEN "Energy" ELSE "Technology", location |-> "UK",
             revenue_range |-> "1M-10M", employee_count |-> 10 * (IF c = 0 THEN 4 ELSE c), founded_year |-> 2000]]

Filters(industries, most) ==
  [industries |-> industries, locations |-> {}, revenue_buckets |-> {},
   employee_min |-> NoBound, employee_max |-> most,
   founded_after |-> NoBound, founded_before |-> NoBound]
Label(id, kind, spans) == [id |-> id, status |-> kind, spans |-> spans]
Semantic(id, part, company, labels) ==
  [id |-> id, split |-> part, company |-> company, labels |-> labels]
RetrievalCase(id, part, query, filters, relevant) ==
  [id |-> id, split |-> part, query |-> query, filters |-> filters, relevant |-> relevant]

Valid ==
  [companies |-> <<1, 2, 3>>,
   criteria |-> [k \in {"k1", "k2"} |-> TRUE],
   semantic |-> <<Semantic("s1", "dev", 1, <<Label("k1", "supported", {"quote"})>>),
                  Semantic("s2", "holdout", 2,
                    <<Label("k1", "contradicted", {"quote"}),
                      Label("k2", "insufficient_evidence", {})>>)>>,
   retrieval |-> <<RetrievalCase("r1", "dev", {"ai"}, Filters({"Technology"}, NoBound), <<2, 1>>),
                   RetrievalCase("r2", "holdout", {"green"}, Filters({}, 20), <<>>),
                   RetrievalCase("r3", "holdout", {"cyrillic"}, Filters({}, NoBound), <<3>>)>>]
First(labels) == [Valid EXCEPT !.semantic[1].labels = labels]

MCDatasets ==
  {Valid,
   [Valid EXCEPT !.semantic = <<Valid.semantic[1]>>],
   First(<<Label("k1", "supported", {"quote"}), Label("k2", "supported", {"quote"})>>),
   First(<<Label("k1", "supported", {"long"})>>),
   [Valid EXCEPT !.companies = <<0, 1, 2, 3>>, !.semantic[1].company = 0,
                 !.retrieval[1].filters = Filters({"Technology"}, 30)],
   [Valid EXCEPT !.companies = <<0, 1, 2, 3>>, !.retrieval[2].filters = Filters({}, NoBound)],
   First(<<Label("k1", "supported", {})>>),
   First(<<Label("k1", "supported", {"empty"})>>),
   First(<<Label("k1", "supported", {"invented"})>>),
   First(<<Label("k1", "supported", {"quote"}), Label("k1", "contradicted", {"quote"})>>),
   First(<<Label("k3", "insufficient_evidence", {})>>),
   [Valid EXCEPT !.companies = <<1, 2, 3, 3>>],
   [Valid EXCEPT !.criteria["k2"] = FALSE],
   [Valid EXCEPT !.semantic[2].id = "s1"],
   [Valid EXCEPT !.retrieval[2].relevant = <<3>>],
   [Valid EXCEPT !.retrieval[2].relevant = <<1, 1>>]}

Quote(span) == [field |-> "description", span |-> span]
Items ==
  [id : {"k1", "k2"}, status : Status,
   quotes : {<<>>, <<Quote("quote")>>, <<Quote("quote"), Quote("invented")>>, <<Quote("empty")>>,
             <<[field |-> "name", span |-> "quote"]>>}]
Brief == {item \in Items : item.status # "contradicted" /\ item.quotes \in {<<>>, <<Quote("quote")>>}}
Plain == {item \in Items : item.status = "supported" /\ Len(item.quotes) = 1}
Verdict(c, items) == [company |-> c, items |-> items]
MCBatches ==
  {<<Verdict(c, <<x>>)>> : c \in {1, 2}, x \in Items}
    \cup {<<Verdict(c, <<x, y>>)>> : c \in {1, 2}, x \in Items, y \in Brief}
    \cup {<<Verdict(1, <<x, y, x>>)>> : x \in Plain, y \in Plain}
    \cup {<<Verdict(0, <<x>>)>> : x \in Plain}
    \cup {<<Verdict(1, <<[id |-> "k1", status |-> "supported", quotes |-> <<Quote("long")>>]>>)>>}
    \cup {<<Verdict(1, <<x>>), Verdict(c, <<y>>)>> : c \in {1, 2}, x \in Plain, y \in Plain}
    \cup {<<>>}

object == <<"open", "batch", "close">>
another == <<"open", "other", "close">>
MCTexts ==
  {object,
   <<"newline", "fence", "newline", "open", "newline", "batch", "newline", "close", "newline", "fence", "newline">>,
   <<"prose", "newline", "fence", "newline">> \o object \o <<"newline", "fence", "newline", "prose">>,
   object \o <<"prose">> \o another,
   another \o <<"newline">> \o object,
   object \o <<"prose", "open">>,
   <<"fence">> \o object \o <<"newline", "fence">>,
   <<"fence">> \o another \o <<"newline">> \o object \o <<"fence">>,
   another,
   <<"prose", "close">>}
Sound == <<Verdict(1, <<[id |-> "k1", status |-> "supported", quotes |-> <<Quote("quote")>>]>>)>>

MCReplies ==
  {[text |-> t, batch |-> Sound] : t \in MCTexts}
    \cup {[text |-> object, batch |-> b] : b \in MCBatches}
=============================================================================
