----------------------- MODULE SemanticAcceptanceProofs -----------------------
(* Proofs about the acceptance of a batch of verdicts, for every number of   *)
(* companies, criteria, items and quotes.                                    *)
EXTENDS SemanticAcceptance, FiniteSetTheorems, SequenceTheorems, WellFoundedInduction, TLAPS

\* As many places as different keys: each key is in one place.
LEMMA NoKeyTwice ==
  ASSUME NEW n \in Nat, NEW f, f = [i \in 1 .. n |-> f[i]],
         n = Cardinality({f[i] : i \in 1 .. n})
  PROVE  \A i, j \in 1 .. n : f[i] = f[j] => i = j
<1> DEFINE keys == {f[i] : i \in 1 .. n}
<1>1. f \in Surjection(1 .. n, keys)
  BY DEF Surjection
<1>2. IsFiniteSet(1 .. n) /\ Cardinality(1 .. n) = n
  BY FS_Interval
<1> HIDE DEF keys
<1>3. n = Cardinality(keys)
  BY DEF keys
<1>4. f \in Injection(1 .. n, keys)
  BY <1>1, <1>2, <1>3, FS_SurjSameCardinalityImpliesInj
<1> QED  BY <1>4 DEF Injection, IsInjective

\* A member of a list is of the list's type.
LEMMA MemberType == \A S : \A s \in Seq(S) : \A i \in DOMAIN s : s[i] \in S
OBVIOUS

\* The last of one is that one.
LEMMA MaxOfOne == \A i \in Int : Max({i}) = i
BY DEF Max

\* In a complete verdict each criterion has one item, and it is the item the
\* dict built from the list holds.
LEMMA OneItemEach ==
  ASSUME NEW I, NEW v, v.items \in Seq(I), NEW criteria, Complete(v, criteria)
  PROVE  /\ \A i, j \in DOMAIN v.items : v.items[i].id = v.items[j].id => i = j
         /\ \A j \in DOMAIN v.items :
              Max({i \in DOMAIN v.items : v.items[i].id = v.items[j].id}) = j
<1> DEFINE n == Len(v.items)
           f == [i \in 1 .. n |-> v.items[i].id]
<1>1. n \in Nat /\ DOMAIN v.items = 1 .. n
  OBVIOUS
<1>2. {f[i] : i \in 1 .. n} = criteria /\ n = Cardinality(criteria)
  BY <1>1 DEF Complete, ItemIds
<1>3. f = [i \in 1 .. n |-> f[i]]
  OBVIOUS
<1>4. \A i, j \in 1 .. n : f[i] = f[j] => i = j
  <2> HIDE DEF f, n
  <2> QED  BY <1>1, <1>2, <1>3, NoKeyTwice
<1>5. \A i, j \in DOMAIN v.items : v.items[i].id = v.items[j].id => i = j
  BY <1>1, <1>4
<1>6. ASSUME NEW j \in DOMAIN v.items
      PROVE  Max({i \in DOMAIN v.items : v.items[i].id = v.items[j].id}) = j
  <2>1. {i \in DOMAIN v.items : v.items[i].id = v.items[j].id} = {j}
    BY <1>5, <1>6
  <2> QED  BY <2>1, <1>1, MaxOfOne
<1> QED  BY <1>5, <1>6

\* A quote the schema lets through is not empty.
QuotesWorded(v) ==
  \A i \in DOMAIN v.items : \A q \in DOMAIN v.items[i].quotes :
    v.items[i].quotes[q].span # EmptySpan

\* A company that is accepted has, for each criterion, exactly one item, which
\* says supported and quotes its texts: what _canonical_assessments and
\* validate_evidence of agent/semantic.py are for.
THEOREM AcceptanceIsQuoted ==
  ASSUME NEW I, NEW v, v.items \in Seq(I), NEW texts, NEW criteria,
         QuotesWorded(v), Assess(v, texts, criteria).relevant
  PROVE  QuotedThroughout(v, texts, criteria)
<1>1. Complete(v, criteria) /\ \A k \in criteria : StatusOf(v, texts, criteria, k) = "supported"
  BY DEF Assess
<1> SUFFICES ASSUME NEW k \in criteria
             PROVE  \E i \in DOMAIN v.items :
                      /\ \A j \in DOMAIN v.items : v.items[j].id = k <=> j = i
                      /\ v.items[i].status = "supported" /\ v.items[i].quotes # <<>>
                      /\ \A q \in DOMAIN v.items[i].quotes :
                           LET quote == v.items[i].quotes[q]
                           IN  quote.span # EmptySpan /\ quote.span \in texts[quote.field]
  BY DEF QuotedThroughout
<1>2. PICK i \in DOMAIN v.items : v.items[i].id = k
  BY <1>1 DEF Complete, ItemIds
<1>3. \A j \in DOMAIN v.items : v.items[j].id = k <=> j = i
  BY <1>1, <1>2, OneItemEach
<1>4. Max({j \in DOMAIN v.items : v.items[j].id = k}) = i
  BY <1>1, <1>2, OneItemEach
<1>5. Traceable(v.items[i], texts) /\ v.items[i].status = "supported"
  BY <1>1, <1>4 DEF StatusOf
<1>6. \A q \in DOMAIN v.items[i].quotes : v.items[i].quotes[q].span # EmptySpan
  BY DEF QuotesWorded
<1> QED  BY <1>3, <1>5, <1>6 DEF Traceable

\* In a batch that covers the companies each has one verdict, and it is the
\* one the dict built from the batch holds.
LEMMA OneVerdictEach ==
  ASSUME NEW V, NEW batch \in Seq(V), NEW companies, NEW criteria,
         ExactlyCovers(batch, companies, criteria)
  PROVE  \A j \in DOMAIN batch :
           /\ \A i \in DOMAIN batch : batch[i].company = batch[j].company => i = j
           /\ VerdictOn(batch, batch[j].company) = batch[j]
<1> DEFINE n == Len(batch)
           f == [i \in 1 .. n |-> batch[i].company]
<1>1. n \in Nat /\ DOMAIN batch = 1 .. n
  OBVIOUS
<1>2. {f[i] : i \in 1 .. n} = companies /\ n = Cardinality(companies)
  BY <1>1 DEF ExactlyCovers, Companies
<1>3. f = [i \in 1 .. n |-> f[i]]
  OBVIOUS
<1>4. \A i, j \in 1 .. n : f[i] = f[j] => i = j
  <2> HIDE DEF f, n
  <2> QED  BY <1>1, <1>2, <1>3, NoKeyTwice
<1>5. \A i, j \in DOMAIN batch : batch[i].company = batch[j].company => i = j
  BY <1>1, <1>4
<1>6. ASSUME NEW j \in DOMAIN batch
      PROVE  VerdictOn(batch, batch[j].company) = batch[j]
  <2>1. {i \in DOMAIN batch : batch[i].company = batch[j].company} = {j}
    BY <1>5
  <2> QED  BY <2>1, <1>1, MaxOfOne DEF VerdictOn
<1> QED  BY <1>5, <1>6

\* The decision on a company of an exact batch depends on nothing but the pairs the
\* batch supports.  They are what AgentWorkflow keeps of a batch, so its
\* FullySupported is the acceptance policy of agent/semantic.py.
THEOREM SupportDecides ==
  ASSUME NEW C, NEW I, NEW batch \in Seq([company : C, items : Seq(I)]),
         NEW companies, NEW criteria, ExactlyCovers(batch, companies, criteria),
         NEW text, NEW c \in companies
  PROVE  Assess(VerdictOn(batch, c), text[c], criteria).relevant
           <=> /\ criteria # {}
               /\ \A k \in criteria : <<c, k>> \in Support(batch, text, criteria)
<1>1. PICK i \in DOMAIN batch : batch[i].company = c
  BY DEF ExactlyCovers, Companies
<1> DEFINE v == batch[i]
<1>2. v.items \in Seq(I) /\ Complete(v, criteria)
  <2>1. Complete(v, criteria)
    BY DEF ExactlyCovers
  <2>2. v \in [company : C, items : Seq(I)]
    BY MemberType
  <2> QED  BY <2>1, <2>2
<1>3. VerdictOn(batch, c) = v /\ \A m \in DOMAIN batch : batch[m].company = c => m = i
  BY <1>1, OneVerdictEach
<1>4. ASSUME NEW k \in criteria
      PROVE  StatusOf(v, text[c], criteria, k) = "supported"
               <=> <<c, k>> \in Support(batch, text, criteria)
  <2>1. PICK j \in DOMAIN v.items : v.items[j].id = k
    BY <1>2 DEF Complete, ItemIds
  <2>2. \A m \in DOMAIN v.items : v.items[m].id = k => m = j
    BY <1>2, <2>1, OneItemEach
  <2>3. Max({m \in DOMAIN v.items : v.items[m].id = k}) = j
    BY <1>2, <2>1, OneItemEach
  <2>4. StatusOf(v, text[c], criteria, k) = "supported"
          <=> v.items[j].status = "supported" /\ Traceable(v.items[j], text[c])
    BY <1>2, <2>3 DEF StatusOf
  <2>5. <<c, k>> \in Support(batch, text, criteria)
          <=> v.items[j].status = "supported" /\ Traceable(v.items[j], text[c])
    <3>1. <<c, k>> \in Companies(batch) \X criteria
      BY DEF ExactlyCovers
    <3>2. <<c, k>> \in Support(batch, text, criteria)
            <=> \E m \in DOMAIN batch : \E l \in DOMAIN batch[m].items :
                  /\ batch[m].company = c /\ batch[m].items[l].id = k
                  /\ batch[m].items[l].status = "supported"
                  /\ Traceable(batch[m].items[l], text[c])
      BY <3>1 DEF Support
    <3> QED  BY <1>1, <1>3, <2>1, <2>2, <3>2
  <2> QED  BY <2>4, <2>5
<1> HIDE DEF v
<1>5. Assess(v, text[c], criteria).relevant
        <=> /\ criteria # {}
            /\ \A k \in criteria : StatusOf(v, text[c], criteria, k) = "supported"
  BY <1>2 DEF Assess
<1> QED  BY <1>3, <1>4, <1>5
-----------------------------------------------------------------------------
(* The object in the text: what is cut out of a reply, and from where.      *)

\* Some places in a text have a first one.
LEMMA FirstPlace ==
  ASSUME NEW S, S \subseteq Nat, S # {}
  PROVE  Min(S) \in S /\ \A x \in S : Min(S) <= x
<1>1. PICK x \in S : \A y \in S : ~(<<y, x>> \in OpToRel(<, Nat))
  BY NatLessThanWellFounded, WFMin
<1>2. \A y \in S : x <= y
  <2> SUFFICES ASSUME NEW y \in S, y < x PROVE FALSE
    OBVIOUS
  <2> QED  BY <1>1 DEF OpToRel
<1> QED  BY <1>2 DEF Min

\* Some places in a text have a last one.
LEMMA LastPlace ==
  ASSUME NEW n \in Nat, NEW S, S \subseteq 0 .. n, S # {}
  PROVE  Max(S) \in S /\ \A x \in S : x <= Max(S)
<1> DEFINE T == {n - x : x \in S}
<1>1. T \subseteq Nat /\ T # {}
  <2>1. \A x \in S : x \in Int /\ 0 <= x /\ x <= n
    OBVIOUS
  <2>2. \A x \in S : n - x \in Nat
    BY <2>1
  <2> QED  BY <2>2
<1>2. Min(T) \in T /\ \A y \in T : Min(T) <= y
  <2> HIDE DEF T
  <2> QED  BY <1>1, FirstPlace
<1>3. PICK m \in S : Min(T) = n - m
  BY <1>2
<1>4. \A x \in S : n - m <= n - x
  BY <1>2, <1>3
<1>5. \A x \in S : x <= m
  BY <1>4
<1> QED  BY <1>5 DEF Max

\* s is what stands in t after the first d chunks, or the beginning of it.
PartOf(s, t, d) ==
  /\ s \in Seq(Chunk) /\ d \in Nat
  /\ \A x \in DOMAIN s : x + d \in DOMAIN t /\ s[x] = t[x + d]

\* What is cut out of a text is part of it.
LEMMA CutIsPart ==
  ASSUME NEW t \in Seq(Chunk), NEW a \in Nat \ {0}, NEW b \in 0 .. Len(t), a <= b + 1
  PROVE  PartOf(SubSeq(t, a, b), t, a - 1) /\ Len(SubSeq(t, a, b)) = b - a + 1
<1> DEFINE s == SubSeq(t, a, b)
<1>1. \A i \in a .. b : t[i] \in Chunk
  OBVIOUS
<1>2. /\ s \in Seq(Chunk) /\ Len(s) = (IF a <= b THEN b - a + 1 ELSE 0)
      /\ \A i \in 1 .. b - a + 1 : s[i] = t[a + i - 1]
  BY <1>1, SubSeqProperties
<1>7. Len(s) = b - a + 1
  <2> HIDE DEF s
  <2>1. CASE a <= b
    BY <1>2, <2>1
  <2>2. CASE ~(a <= b)
    <3>1. Len(s) = 0 /\ b - a + 1 = 0
      BY <1>2, <2>2
    <3> QED  BY <3>1
  <2> QED  BY <2>1, <2>2
<1> HIDE DEF s
<1>3. \A x \in DOMAIN s : x \in 1 .. b - a + 1
  BY <1>2
<1>4. \A x \in DOMAIN s : x + (a - 1) \in DOMAIN t /\ s[x] = t[x + (a - 1)]
  BY <1>2, <1>3
<1>5. a - 1 \in Nat
  OBVIOUS
<1>6. PartOf(s, t, a - 1)
  BY <1>2, <1>4, <1>5 DEF PartOf
<1> QED  BY <1>6, <1>7 DEF s

\* strip() keeps every brace and everything between two of them.
LEMMA StripKeeps ==
  ASSUME NEW t \in Seq(Chunk), NEW p \in DOMAIN t, t[p] # "newline"
  PROVE  \E d : /\ PartOf(Strip(t), t, d) /\ Strip(t) # <<>>
                /\ \A x \in DOMAIN t : t[x] # "newline" => x - d \in DOMAIN Strip(t)
<1> DEFINE ink == Places(t, Chunk \ {"newline"})
<1>1. ink \subseteq 0 .. Len(t) /\ ink \subseteq DOMAIN t /\ p \in ink
  BY DEF Places
<1>2. \A x \in DOMAIN t : t[x] # "newline" => x \in ink
  BY DEF Places
<1> HIDE DEF ink
<1>3. Min(ink) \in ink /\ \A x \in ink : Min(ink) <= x
  BY <1>1, FirstPlace
<1>4. Max(ink) \in ink /\ \A x \in ink : x <= Max(ink)
  BY <1>1, LastPlace
<1>5. Strip(t) = SubSeq(t, Min(ink), Max(ink))
  BY <1>1 DEF Strip, ink
<1>6. DOMAIN t = 1 .. Len(t) /\ Len(t) \in Nat
  OBVIOUS
<1>7. Min(ink) \in Nat \ {0} /\ Max(ink) \in 0 .. Len(t) /\ Min(ink) <= Max(ink)
  BY <1>1, <1>3, <1>4, <1>6
<1>8. /\ PartOf(Strip(t), t, Min(ink) - 1)
      /\ Len(Strip(t)) = Max(ink) - Min(ink) + 1
  BY <1>5, <1>7, CutIsPart
<1>9. Strip(t) \in Seq(Chunk)
  BY <1>8 DEF PartOf
<1>10. \A x \in ink : x - (Min(ink) - 1) \in 1 .. Len(Strip(t))
  BY <1>1, <1>3, <1>4, <1>6, <1>7, <1>8
<1> QED  BY <1>1, <1>2, <1>8, <1>9, <1>10

\* Taking off the fences drops the beginning of a text and, of its end, nothing
\* but a fence.
LEMMA UnfenceKeeps ==
  ASSUME NEW t \in Seq(Chunk)
  PROVE  \E d : /\ PartOf(Unfence(t), t, d)
                /\ \A x \in DOMAIN t : d < x /\ t[x] # "fence" => x - d \in DOMAIN Unfence(t)
<1> DEFINE newlines == Places(t, {"newline"})
           body == IF newlines # {} THEN SubSeq(t, Min(newlines) + 1, Len(t)) ELSE t
<1>1. DOMAIN t = 1 .. Len(t) /\ Len(t) \in Nat
  OBVIOUS
<1>2. PartOf(t, t, 0)
  BY <1>1 DEF PartOf
<1>3. \E d : PartOf(body, t, d) /\ Len(body) = Len(t) - d
  <2>1. CASE newlines = {}
    BY <1>1, <1>2, <2>1
  <2>2. CASE newlines # {}
    <3>1. newlines \subseteq 1 .. Len(t)
      BY <1>1 DEF Places
    <3> HIDE DEF newlines
    <3>2. PICK d \in 1 .. Len(t) : d = Min(newlines)
      <4>1. newlines \subseteq Nat
        BY <3>1
      <4> QED  BY <2>2, <3>1, <4>1, FirstPlace
    <3> DEFINE a == d + 1
    <3>3. body = SubSeq(t, a, Len(t))
      BY <2>2, <3>2
    <3>4. /\ a \in Nat \ {0} /\ Len(t) \in 0 .. Len(t) /\ a <= Len(t) + 1
          /\ a - 1 = d /\ Len(t) - a + 1 = Len(t) - d
      BY <1>1
    <3> HIDE DEF body, a
    <3>5. PartOf(body, t, a - 1) /\ Len(body) = Len(t) - a + 1
      BY <3>3, <3>4, CutIsPart
    <3> QED  BY <3>4, <3>5
  <2> QED  BY <2>1, <2>2
<1>4. PICK d : PartOf(body, t, d) /\ Len(body) = Len(t) - d
  BY <1>3
<1>5. Unfence(t) = IF t = <<>> \/ t[1] # "fence" THEN t
                   ELSE IF body # <<>> /\ body[Len(body)] = "fence"
                        THEN SubSeq(body, 1, Len(body) - 1) ELSE body
  BY DEF Unfence
<1> HIDE DEF body
<1>6. body \in Seq(Chunk) /\ d \in Nat /\ DOMAIN body = 1 .. Len(body) /\ Len(body) \in Nat
  BY <1>4 DEF PartOf
<1>7. CASE Unfence(t) = t
  BY <1>1, <1>2, <1>7
<1>8. CASE Unfence(t) = body
  <2>1. \A x \in DOMAIN t : d < x => x - d \in DOMAIN body
    BY <1>1, <1>4, <1>6
  <2> QED  BY <1>4, <1>8, <2>1
<1>9. CASE body # <<>> /\ body[Len(body)] = "fence" /\ Unfence(t) = SubSeq(body, 1, Len(body) - 1)
  <2> DEFINE u == SubSeq(body, 1, Len(body) - 1)
  <2>1. Len(body) >= 1
    BY <1>6, <1>9, EmptySeq
  <2>2. Len(body) - 1 \in 0 .. Len(body)
    BY <1>6, <2>1
  <2>3. PartOf(u, body, 1 - 1) /\ Len(u) = Len(body) - 1 - 1 + 1
    BY <1>6, <2>1, <2>2, CutIsPart
  <2> HIDE DEF u
  <2>4. u \in Seq(Chunk) /\ Len(u) = Len(body) - 1 /\ DOMAIN u = 1 .. Len(u)
    <3>1. u \in Seq(Chunk)
      BY <2>3 DEF PartOf
    <3>2. Len(u) = Len(body) - 1
      BY <1>6, <2>1, <2>3
    <3> QED  BY <3>1, <3>2
  <2>5. PartOf(u, t, d)
    <3>1. \A x \in DOMAIN u : x \in DOMAIN body /\ u[x] = body[x]
      BY <2>3, <2>4 DEF PartOf
    <3> QED  BY <1>4, <2>4, <3>1 DEF PartOf
  <2>6. ASSUME NEW x \in DOMAIN t, d < x, t[x] # "fence"
        PROVE  x - d \in DOMAIN u
    <3>1. x - d \in DOMAIN body
      BY <1>1, <1>4, <1>6, <2>6
    <3>2. body[x - d] = t[x]
      <4>1. body[x - d] = t[x - d + d] /\ x - d + d = x
        BY <1>1, <1>4, <1>6, <3>1 DEF PartOf
      <4> QED  BY <4>1
    <3>3. x - d # Len(body)
      BY <1>9, <2>6, <3>2
    <3> QED  BY <1>6, <2>4, <3>1, <3>3
  <2>7. Unfence(t) = u
    BY <1>9 DEF u
  <2> QED  BY <2>5, <2>6, <2>7
<1> QED  BY <1>5, <1>7, <1>8, <1>9

\* The greedy match goes from an opening brace to the last closing one after it.
LEMMA ObjectKeeps ==
  ASSUME NEW t \in Seq(Chunk), Object(t) # <<>>
  PROVE  \E d : /\ PartOf(Object(t), t, d)
                /\ \A x \in DOMAIN t : d + 1 < x /\ t[x] = "close" => x - d \in DOMAIN Object(t)
<1> DEFINE opens == Places(t, {"open"})
           closes == {j \in Places(t, {"close"}) : opens # {} /\ j > Min(opens)}
<1>1. Object(t) = SubSeq(t, Min(opens), Max(closes)) /\ closes # {}
  BY DEF Object
<1>2. opens \subseteq 1 .. Len(t) /\ opens # {}
  BY <1>1 DEF Places
<1>3. closes \subseteq 0 .. Len(t) /\ \A j \in closes : j > Min(opens)
  BY DEF Places
<1>4. \A x \in DOMAIN t : Min(opens) < x /\ t[x] = "close" => x \in closes
  BY <1>2 DEF Places
<1> HIDE DEF opens, closes
<1>5. PICK a \in 1 .. Len(t) : a = Min(opens)
  <2>1. opens \subseteq Nat
    BY <1>2
  <2> QED  BY <1>2, <2>1, FirstPlace
<1>6. Max(closes) \in closes /\ \A x \in closes : x <= Max(closes)
  <2>1. Len(t) \in Nat
    OBVIOUS
  <2> QED  BY <1>1, <1>3, <2>1, LastPlace
<1>7. PICK b \in 0 .. Len(t) : b = Max(closes) /\ a < b
  BY <1>3, <1>5, <1>6
<1>8. a \in Nat \ {0} /\ a <= b + 1 /\ a - 1 + 1 = a
  BY <1>5, <1>7
<1>9. PartOf(Object(t), t, a - 1) /\ Len(Object(t)) = b - a + 1
  BY <1>1, <1>5, <1>7, <1>8, CutIsPart
<1>10. Object(t) \in Seq(Chunk)
  BY <1>9 DEF PartOf
<1>11. DOMAIN Object(t) = 1 .. Len(Object(t)) /\ DOMAIN t = 1 .. Len(t)
  BY <1>10
<1>12. ASSUME NEW x \in DOMAIN t, a - 1 + 1 < x, t[x] = "close"
       PROVE  x - (a - 1) \in DOMAIN Object(t)
  <2>1. x \in 1 .. Len(t) /\ a < x /\ x <= b
    BY <1>4, <1>5, <1>6, <1>7, <1>8, <1>11, <1>12
  <2>2. x - (a - 1) >= 1 /\ x - (a - 1) <= b - a + 1 /\ x - (a - 1) \in Int
    BY <1>5, <1>7, <2>1
  <2> QED  BY <1>9, <1>11, <2>2
<1> QED  BY <1>9, <1>12

\* No object of a text that is read comes after the one that is read: the match of
\* extract_json_object is greedy, and json.loads refuses what it would pass over.
THEOREM LastObjectIsRead ==
  ASSUME NEW t \in Seq(Chunk), \A i, j \in Places(t, {"batch"}) : i = j,
         Loads(Object(Unfence(Strip(t)))),
         NEW i \in DOMAIN t, NEW j \in DOMAIN t, NEW k \in DOMAIN t,
         t[i] = "batch", i < j, j < k
  PROVE  ~(t[j] = "open" /\ t[k] = "close")
<1> SUFFICES ASSUME t[j] = "open", t[k] = "close" PROVE FALSE
  OBVIOUS
<1> DEFINE s == Strip(t)
           u == Unfence(s)
           o == Object(u)
<1>1. PICK d : /\ PartOf(s, t, d)
               /\ \A x \in DOMAIN t : t[x] # "newline" => x - d \in DOMAIN s
  BY StripKeeps
<1>2. s \in Seq(Chunk)
  BY <1>1 DEF PartOf
<1>3. PICK e : /\ PartOf(u, s, e)
               /\ \A x \in DOMAIN s : e < x /\ s[x] # "fence" => x - e \in DOMAIN u
  BY <1>2, UnfenceKeeps
<1>4. u \in Seq(Chunk) /\ o # <<>>
  BY <1>3 DEF PartOf, Loads
<1>5. PICK f : /\ PartOf(o, u, f)
               /\ \A x \in DOMAIN u : f + 1 < x /\ u[x] = "close" => x - f \in DOMAIN o
  BY <1>4, ObjectKeeps
<1>6. \A x \in DOMAIN o : o[x] \in IF x = 1 THEN {"open"} ELSE IF x = Len(o) THEN {"close"}
                                  ELSE {"newline", "batch"}
  BY DEF Loads
<1>7. Cardinality(Places(o, {"batch"})) = 1
  BY DEF Loads
<1> HIDE DEF s, u, o
<1>8. PICK m \in DOMAIN o : o[m] = "batch"
  BY <1>7, FS_EmptySet DEF Places
<1>9. /\ d \in Nat /\ e \in Nat /\ f \in Nat /\ o \in Seq(Chunk)
      /\ DOMAIN o = 1 .. Len(o) /\ DOMAIN t = 1 .. Len(t)
  <2>1. d \in Nat /\ e \in Nat /\ f \in Nat /\ o \in Seq(Chunk)
    BY <1>1, <1>3, <1>5 DEF PartOf
  <2> QED  BY <2>1
<1>10. m # 1
  BY <1>6, <1>8
<1>11. m + f \in DOMAIN u /\ m + f + e \in DOMAIN s /\ m + f + e + d \in DOMAIN t
       /\ t[m + f + e + d] = "batch"
  BY <1>1, <1>3, <1>5, <1>8 DEF PartOf
<1>12. m + f + e + d = i
  BY <1>11 DEF Places
<1>13. i \in Nat /\ j \in Nat /\ k \in Nat /\ m \in Nat /\ m > 1
  BY <1>8, <1>9, <1>10
<1>14. j - d \in DOMAIN s /\ k - d \in DOMAIN s
  BY <1>1
<1>15. s[j - d] = "open" /\ s[k - d] = "close"
  <2>1. s[j - d] = t[j - d + d] /\ s[k - d] = t[k - d + d]
    BY <1>1, <1>14 DEF PartOf
  <2>2. j - d + d = j /\ k - d + d = k
    BY <1>9, <1>13
  <2> QED  BY <2>1, <2>2
<1>16. e < j - d /\ e < k - d
  BY <1>9, <1>12, <1>13
<1>17. j - d - e \in DOMAIN u /\ k - d - e \in DOMAIN u
  BY <1>3, <1>14, <1>15, <1>16
<1>18. u[j - d - e] = "open" /\ u[k - d - e] = "close"
  <2>1. u[j - d - e] = s[j - d - e + e] /\ u[k - d - e] = s[k - d - e + e]
    BY <1>3, <1>17 DEF PartOf
  <2>2. j - d - e + e = j - d /\ k - d - e + e = k - d
    BY <1>9, <1>13
  <2> QED  BY <1>15, <2>1, <2>2
<1>19. f + 1 < k - d - e
  BY <1>9, <1>12, <1>13
<1>20. k - d - e - f \in DOMAIN o
  BY <1>5, <1>17, <1>18, <1>19
<1>21. j - d - e - f \in DOMAIN o /\ j - d - e - f # 1 /\ j - d - e - f # Len(o)
  <2>1. k - d - e - f \in 1 .. Len(o) /\ Len(o) \in Nat
    BY <1>9, <1>20
  <2>2. m < j - d - e - f /\ j - d - e - f < k - d - e - f
    BY <1>9, <1>12, <1>13
  <2>3. j - d - e - f \in Int
    BY <1>9, <1>13
  <2>4. j - d - e - f \in 1 .. Len(o) /\ j - d - e - f # 1 /\ j - d - e - f # Len(o)
    BY <1>13, <2>1, <2>2, <2>3
  <2> QED  BY <1>9, <2>4
<1>22. o[j - d - e - f] = "open"
  <2>1. o[j - d - e - f] = u[j - d - e - f + f]
    BY <1>5, <1>21 DEF PartOf
  <2>2. j - d - e - f + f = j - d - e
    BY <1>9, <1>13
  <2> QED  BY <1>18, <2>1, <2>2
<1> QED  BY <1>6, <1>21, <1>22
=============================================================================
