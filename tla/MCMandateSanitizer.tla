------------------------- MODULE MCMandateSanitizer -------------------------
(* Two values in each vocabulary, one synonym and one unknown token; every  *)
(* kind of constraint stated and not stated.                                *)
EXTENDS MandateSanitizer

CONSTANTS request, empty, ml, technology, automotive

\* Ranking plays no part here.
NoCompany == {}
NoScore == [c \in {} |-> 0]

MCTerm == {request, empty, ml, technology, automotive}
MCBlank == {empty}
MCIndustry == {"Automotive", "Technology"}
MCLocation == {"Germany", "Sweden"}
MCBucket == {"1M-10M", "10M-50M"}
MCNordics == {"Sweden"}
MCBucketRank == [b \in MCBucket |-> IF b = "1M-10M" THEN 1 ELSE 2]
MCToken == MCIndustry \cup MCLocation \cup MCBucket \cup {"self-driving", "Nordics", "Paris"}
MCIndustryOf == [t \in MCToken |-> IF t = "self-driving" THEN {"Automotive"} ELSE {t} \cap MCIndustry]
MCPlacesOf == [t \in MCToken |-> IF t = "Nordics" THEN MCNordics ELSE {t} \cap MCLocation]
MCBucketOf == [t \in MCToken |-> {t} \cap MCBucket]
MCNameOf == [i \in MCIndustry |-> IF i = "Automotive" THEN automotive ELSE technology]

BlankQuery ==
  [text |-> empty, industries |-> {}, nordic |-> FALSE, locations |-> {}, buckets |-> {},
   more |-> NoBound, least |-> NoBound, fewer |-> NoBound, after |-> NoBound,
   before |-> NoBound, phrases |-> {}]

MCQuery ==
  {BlankQuery} \cup
  [text : {request}, industries : {{}, {"Automotive"}}, nordic : BOOLEAN,
   locations : {{}, {"Germany"}}, buckets : {{}, {"10M-50M"}, MCBucket},
   more : {NoBound, 100}, least : {NoBound, 50}, fewer : {NoBound, 0},
   after : {NoBound}, before : {NoBound, 2000}, phrases : {{}, {ml}}]

MCProposals ==
  [filters : [industries : {{}, {"self-driving", "Technology"}}, locations : {{"Nordics", "Paris"}},
              revenue_buckets : {{}, MCBucket}, employee_min : {NoBound, 10},
              employee_max : {NoBound}, founded_after : {1990}, founded_before : {NoBound}],
   keywords : {{}, {technology, automotive}}, requirements : {{}, {ml}}]
=============================================================================
