--------------------------- MODULE MCAgentWorkflow ---------------------------
(* A small instance of AgentWorkflow: five companies, four of them in the   *)
(* index (one more than a pool holds), four terms of which one is blank and *)
(* one has no token, and seven mandates that between them take every path   *)
(* of the graph.                                                            *)
EXTENDS SearchEvaluation

CONSTANTS ai, iot, blank, cyrillic

MCCompany == 1 .. 5
MCTerm == {ai, iot, blank, cyrillic}
MCBlank == {blank}
MCOpaque == {blank, cyrillic}

\* Company 5 is in the catalogue of the second ingestion, not in the index.
MCIndexed == 1 .. 4
Text == [c \in MCIndexed |-> IF c \in {1, 4} THEN {ai} ELSE IF c = 2 THEN {iot} ELSE {ai, iot}]
MCBM25 == [c \in MCIndexed |-> [T \in SUBSET MCTerm |->
             IF c = 3 THEN 2 * Cardinality(T \cap Text[c]) ELSE Cardinality(T \cap Text[c])]]
MCPosition == [c \in MCIndexed |-> 5 - c]

Row(c, industry) == [industry |-> industry, location |-> "UK", revenue_range |-> "1M-10M",
                     employee_count |-> 10 * c, founded_year |-> 2000]
MCProfile == {Row(c, industry) : c \in MCCompany, industry \in {"Technology", "Biotech"}}
MCCatalogs ==
  {[c \in 1 .. 4 |-> Row(c, "Technology")],
   [c \in {1, 2, 5} |-> Row(c, IF c = 1 THEN "Biotech" ELSE "Technology")]}

Anything == [industries |-> {}, locations |-> {}, revenue_buckets |-> {},
             employee_min |-> NoBound, employee_max |-> NoBound,
             founded_after |-> NoBound, founded_before |-> NoBound]
Technology == [Anything EXCEPT !.industries = {"Technology"}]
MCFilter == {Anything, Technology}

Mandate(filters, keywords, requirements) ==
  [filters |-> filters, keywords |-> keywords, requirements |-> requirements]

MCFallbackMandate == Mandate(Technology, {}, {ai})
MCMandates ==
  {Mandate(Technology, {}, {}),              \* filters only
   Mandate(Technology, {ai}, {}),            \* both, keywords are the criteria
   Mandate(Technology, {cyrillic}, {blank}), \* a blank requirement hides the keyword
   Mandate(Anything, {iot}, {ai, iot}),      \* lexical search, two criteria
   Mandate(Anything, {cyrillic}, {ai}),      \* finds nothing: revised
   Mandate(Anything, {blank}, {ai}),         \* nothing to search by
   Mandate(Anything, {ai}, {ai, iot, cyrillic})} \* too many criteria

=============================================================================
