---------------------------- MODULE RunLogProofs ----------------------------
(* Proofs about RunLog, for any number of invocations, any sharing of ids,  *)
(* any length of the logs and any number of crashes.                        *)
EXTENDS RunLog, FiniteSetTheorems, SequenceTheorems, TLAPS

Phase == {"new", "starting", "running", "persisting", "done"}
EventType == Logged \cup {"run_end"}

Typed ==
  /\ phase \in [Request -> Phase] /\ job \in [Request -> {"none", "queued", "open"}]
  /\ events \in [Request -> Seq(EventType)]
  /\ counted \in [Request -> [llm : Nat, tool : Nat]]
  /\ cursor \in [Request -> Nat]
  /\ file \in [RunId -> Seq(Piece) \cup {None}]
  /\ DOMAIN seen = RunId
  /\ disturbed \subseteq Request /\ cut \subseteq RunId /\ crashes \in 0 .. MaxCrashes

(* What the phase of an invocation says of its cursor, thread and buffer.   *)
Local(r) ==
  /\ cursor[r] <= Len(events[r])
  /\ phase[r] = "new" => cursor[r] = 0 /\ job[r] = "none" /\ events[r] = <<>>
  /\ phase[r] = "starting" => cursor[r] = 0 /\ job[r] # "none" /\ events[r] = <<>>
  /\ phase[r] = "running" => cursor[r] = 0 /\ job[r] = "none"
  /\ phase[r] = "persisting" => cursor[r] >= 1 /\ job[r] # "none"
  /\ job[r] = "open" => file[IdOf[r]] # None
  /\ \A i \in 1 .. Len(events[r]) : events[r][i] = "run_end" =>
        i = Len(events[r]) /\ phase[r] \in {"persisting", "done"}

Shape == Typed /\ \A r \in Request : Local(r)

\* The appends a thread of r can leave behind.
Extension(r) == {<<>>, <<Text(r)>>, <<Text(r), Newline>>, <<Newline>>, <<Torn>>}

Appends(r, ext) ==
  /\ ext \in Extension(r)
  /\ Opened(IdOf[r])' = Opened(IdOf[r]) \o ext
  /\ \A id \in RunId \ {IdOf[r]} : Opened(id)' = Opened(id)

\* Which append comes of which step: a text only of a thread that has not
\* opened its line yet.  A failed write that leaves a text unended marks the log.
Writes(r, ext) ==
  \/ WriteLine(r) /\ ext = <<Text(r), Newline>>
  \/ OpenLine(r) /\ ext = <<Text(r)>>
  \/ CloseLine(r) /\ ext = <<Newline>>
  \/ /\ WriteFails(r) /\ ext \in {<<>>, <<Torn>>, <<Text(r)>>}
     /\ job[r] = "open" => ext = <<>>
     /\ job[r] = "open" \/ ext # <<>> => IdOf[r] \in cut'

\* Counting calls gives a number.
LEMMA CountType == ASSUME NEW s \in Seq(EventType), NEW type PROVE Count(s, type) \in Nat
<1>1. {i \in DOMAIN s : s[i] = type} \subseteq 1 .. Len(s)
  OBVIOUS
<1>2. IsFiniteSet(1 .. Len(s))
  BY FS_Interval
<1> QED  BY <1>1, <1>2, FS_Subset, FS_CardinalityType DEF Count

\* A log is a sequence of pieces, and so is what a thread appends.
LEMMA PiecesTyped ==
  ASSUME Shape
  PROVE  /\ \A id \in RunId : Opened(id) \in Seq(Piece)
         /\ \A r \in Request : Text(r) \in Piece /\ Extension(r) \subseteq Seq(Piece)
<1>1. \A id \in RunId : file[id] \in Seq(Piece) \cup {None}
  BY DEF Shape, Typed
<1>2. <<>> \in Seq(Piece)
  BY EmptySeq
<1>3. \A id \in RunId : Opened(id) \in Seq(Piece)
  BY <1>1, <1>2 DEF Opened
<1>4. Newline \in Piece /\ Torn \in Piece
  BY DEF Newline, Torn, Piece
<1>5. ASSUME NEW r \in Request PROVE Text(r) \in Piece /\ Extension(r) \subseteq Seq(Piece)
  <2>1. Text(r) \in Piece
    BY DEF Shape, Typed, Text, Piece
  <2>2. \A x, y \in Piece : <<x>> \in Seq(Piece) /\ <<x, y>> \in Seq(Piece)
    OBVIOUS
  <2> QED  BY <1>2, <1>4, <2>1, <2>2 DEF Extension
<1> QED  BY <1>3, <1>5

\* A thread adds to its own file, and what is there stays there.
LEMMA ThreadAppends ==
  ASSUME Shape, NEW r \in Request, WriteLine(r) \/ OpenLine(r) \/ CloseLine(r) \/ WriteFails(r)
  PROVE  /\ file' \in [RunId -> Seq(Piece) \cup {None}]
         /\ \E ext : Appends(r, ext) /\ Writes(r, ext)
         /\ \A other \in RunId : file[other] # None => file'[other] # None
         /\ OpenLine(r) => file'[IdOf[r]] # None
<1> DEFINE id == IdOf[r]
           s == Opened(id)
           grown == /\ file' \in [RunId -> Seq(Piece) \cup {None}]
                    /\ \E ext : Appends(r, ext) /\ Writes(r, ext)
                    /\ \A other \in RunId : file[other] # None => file'[other] # None
<1>1. id \in RunId /\ None \notin Seq(Piece) /\ DOMAIN file = RunId
      /\ file \in [RunId -> Seq(Piece) \cup {None}]
  BY IdAssumption DEF Shape, Typed
<1>2. s \in Seq(Piece) /\ Text(r) \in Piece /\ Newline \in Piece /\ Torn \in Piece
      /\ Extension(r) \subseteq Seq(Piece)
  BY <1>1, PiecesTyped DEF Newline, Torn, Piece
<1>3. s \o <<>> = s
  BY <1>2, ConcatEmptySeq
<1>4. ASSUME NEW ext \in Extension(r), NEW content,
             content = s \o ext \/ (content = file[id] /\ ext = <<>>),
             file' = [file EXCEPT ![id] = content]
      PROVE  /\ file' \in [RunId -> Seq(Piece) \cup {None}] /\ Appends(r, ext)
             /\ \A other \in RunId : file[other] # None => file'[other] # None
             /\ ext # <<>> => file'[id] # None
  <2>1. s \o ext \in Seq(Piece)
    BY <1>2, <1>4, ConcatProperties
  <2>2. content \in Seq(Piece) \cup {None}
    BY <1>1, <1>4, <2>1
  <2>3. file' \in [RunId -> Seq(Piece) \cup {None}] /\ file'[id] = content
        /\ \A other \in RunId \ {id} : file'[other] = file[other]
    BY <1>1, <1>4, <2>2
  <2>4. Opened(id)' = s \o ext
    <3>1. CASE content = s \o ext
      BY <1>1, <2>1, <2>3, <3>1 DEF Opened
    <3>2. CASE content = file[id] /\ ext = <<>>
      BY <1>3, <2>3, <3>2 DEF Opened
    <3> QED  BY <1>4, <3>1, <3>2
  <2>5. \A other \in RunId \ {id} : Opened(other)' = Opened(other)
    BY <2>3 DEF Opened
  <2> QED  BY <1>1, <1>4, <2>1, <2>3, <2>4, <2>5 DEF Appends
<1>5. Append(s, Text(r)) = s \o <<Text(r)>> /\ Append(s, Newline) = s \o <<Newline>>
      /\ Append(s, Torn) = s \o <<Torn>>
  <2> HIDE DEF s
  <2> QED  BY <1>2, AppendIsConcat
<1>6. ASSUME WriteLine(r) PROVE grown
  BY <1>4, <1>6 DEF WriteLine, Line, Extension, Writes
<1>7. ASSUME OpenLine(r) PROVE grown /\ file'[id] # None
  BY <1>1, <1>4, <1>5, <1>7 DEF OpenLine, Extension, Writes
<1>8. ASSUME CloseLine(r) PROVE grown
  <2>1. file' = [file EXCEPT ![id] = Append(s, Newline)]
    BY <1>1, <1>8 DEF CloseLine, Shape, Typed, Local, Opened
  <2> QED  BY <1>4, <1>5, <1>8, <2>1 DEF Extension, Writes
<1>9. ASSUME WriteFails(r) PROVE grown
  <2>1. PICK left \in IF job[r] = "open" THEN {<<>>} ELSE {<<>>, <<Torn>>, <<Text(r)>>} :
           /\ \/ file' = [file EXCEPT ![id] = s \o left]
              \/ left = <<>> /\ UNCHANGED file
           /\ cut' = IF job[r] = "open" \/ left # <<>> THEN cut \cup {id} ELSE cut
    BY <1>9 DEF WriteFails
  <2> HIDE DEF s
  <2>2. left \in Extension(r) /\ Writes(r, left)
    BY <1>9, <2>1 DEF Extension, Writes
  <2>3. CASE file' = [file EXCEPT ![id] = s \o left]
    BY <1>4, <2>2, <2>3
  <2>4. CASE left = <<>> /\ UNCHANGED file
    <3>1. file' = [file EXCEPT ![id] = file[id]]
      BY <1>1, <2>4
    <3> QED  BY <1>4, <2>2, <2>4, <3>1
  <2> QED  BY <2>1, <2>3, <2>4
<1> QED  BY <1>6, <1>7, <1>8, <1>9

\* The end of an awaited write keeps its invocation in shape.
LEMMA ResumeShape ==
  ASSUME Shape, NEW r \in Request, Resume(r), job[r] # "none", UNCHANGED events,
         \A id \in RunId : file[id] # None => file'[id] # None
  PROVE  /\ phase' \in [Request -> Phase] /\ job' \in [Request -> {"none", "queued", "open"}]
         /\ cursor' \in [Request -> Nat]
         /\ \A q \in Request : Local(q)'
<1>1. /\ phase' \in [Request -> Phase] /\ job' \in [Request -> {"none", "queued", "open"}]
      /\ cursor' \in [Request -> Nat]
  <2>1. /\ phase \in [Request -> Phase] /\ job \in [Request -> {"none", "queued", "open"}]
        /\ cursor \in [Request -> Nat]
    BY DEF Shape, Typed
  <2>2. phase' \in [Request -> Phase]
    BY <2>1 DEF Resume, Continue, Phase
  <2>3. job' \in [Request -> {"none", "queued", "open"}]
    BY <2>1 DEF Resume, Continue
  <2>4. cursor' \in [Request -> Nat]
    BY <2>1 DEF Resume, Continue
  <2> QED  BY <2>2, <2>3, <2>4
<1>2. Len(events[r]) \in Nat /\ cursor[r] \in Nat
  BY DEF Shape, Typed
<1>3. Local(r)'
  <2>1. phase[r] = "starting" => events[r] = <<>> /\ cursor[r] = 0
    BY DEF Shape, Local
  <2>2. \A i \in 1 .. Len(events[r]) : events[r][i] = "run_end" =>
          i = Len(events[r]) /\ phase[r] \in {"persisting", "done"}
    BY DEF Shape, Local
  <2>3. cursor[r] <= Len(events[r]) /\ (phase[r] = "persisting" => cursor[r] >= 1)
    BY DEF Shape, Local
  <2>4. Len(<<>>) = 0
    OBVIOUS
  <2>5. CASE phase[r] = "starting"
    <3>1. phase'[r] = "running" /\ job'[r] = "none" /\ cursor'[r] = cursor[r]
      BY <1>1, <2>5 DEF Resume, Continue, Shape, Typed
    <3> QED  BY <2>1, <2>4, <2>5, <3>1 DEF Local
  <2>6. CASE phase[r] = "persisting" /\ cursor[r] < Len(events[r])
    <3>1. phase'[r] = "persisting" /\ job'[r] = "queued" /\ cursor'[r] = cursor[r] + 1
      BY <1>1, <1>2, <2>6 DEF Resume, Continue, Shape, Typed
    <3> QED  BY <1>2, <2>2, <2>3, <2>6, <3>1 DEF Local
  <2>7. CASE phase[r] = "done" \/ (phase[r] = "persisting" /\ cursor[r] >= Len(events[r]))
    <3>1. phase'[r] = "done" /\ job'[r] = "none" /\ cursor'[r] = cursor[r]
      BY <1>1, <1>2, <2>7 DEF Resume, Continue, Shape, Typed
    <3> QED  BY <1>2, <2>2, <2>3, <3>1 DEF Local
  <2> QED  BY <2>5, <2>6, <2>7 DEF Resume, Continue
<1>4. ASSUME NEW q \in Request \ {r} PROVE Local(q)'
  BY <1>1, <1>4, IdAssumption DEF Resume, Continue, Shape, Typed, Local
<1> QED  BY <1>1, <1>3, <1>4

\* Every step keeps the shape.
LEMMA ShapeStep == Shape /\ [Next]_vars => Shape'
<1> SUFFICES ASSUME Shape, [Next]_vars PROVE Shape'
  OBVIOUS
<1> USE IdAssumption, BoundAssumption
<1>1. CASE UNCHANGED vars
  BY <1>1 DEF vars, Shape, Typed, Local
<1>2. ASSUME NEW id \in RunId, Read(id) PROVE Shape'
  BY <1>2 DEF Read, Shape, Typed, Local
<1>3. CASE Crash
  BY <1>3 DEF Crash, InFlight, Shape, Typed, Local, Phase
<1>4. ASSUME NEW r \in Request, Begin(r) PROVE Shape'
  BY <1>4 DEF Begin, Shape, Typed, Local, Phase
<1>5. ASSUME NEW r \in Request, NEW type \in Logged, Buffer(r, type) PROVE Shape'
  <2>1. events' \in [Request -> Seq(EventType)] /\ Len(events'[r]) = Len(events[r]) + 1
        /\ \A i \in 1 .. Len(events[r]) : events'[r][i] = events[r][i]
        /\ events'[r][Len(events[r]) + 1] = type
    BY <1>5 DEF Buffer, Shape, Typed, EventType
  <2>2. Len(events[r]) \in Nat /\ \A i \in 1 .. Len(events[r]) : events[r][i] # "run_end"
    BY <1>5 DEF Buffer, Shape, Typed, Local
  <2>3. Local(r)'
    BY <1>5, <2>1, <2>2 DEF Buffer, Shape, Typed, Local, Call, Logged
  <2>4. \A q \in Request \ {r} : Local(q)'
    BY <1>5 DEF Buffer, Shape, Typed, Local
  <2> QED  BY <1>5, <2>1, <2>3, <2>4 DEF Buffer, Shape, Typed
<1>6. ASSUME NEW r \in Request, Finish(r) PROVE Shape'
  <2>1. events' \in [Request -> Seq(EventType)] /\ Len(events'[r]) = Len(events[r]) + 1
        /\ \A i \in 1 .. Len(events[r]) : events'[r][i] = events[r][i]
    BY <1>6 DEF Finish, Shape, Typed, EventType
  <2>2. Len(events[r]) \in Nat /\ \A i \in 1 .. Len(events[r]) : events[r][i] # "run_end"
    BY <1>6 DEF Finish, Shape, Typed, Local
  <2>3. Local(r)'
    BY <1>6, <2>1, <2>2 DEF Finish, Shape, Typed, Local
  <2>4. \A q \in Request \ {r} : Local(q)'
    BY <1>6 DEF Finish, Shape, Typed, Local
  <2>5. counted' \in [Request -> [llm : Nat, tool : Nat]]
    <3>1. PICK open \in Call \cup {None} : counted' = [counted EXCEPT ![r] = Counts(r, open)]
      BY <1>6 DEF Finish
    <3>2. Counts(r, open) \in [llm : Nat, tool : Nat]
      <4>1. Count(events[r], "llm_call") \in Nat /\ Count(events[r], "tool_call") \in Nat
        BY CountType DEF Shape, Typed
      <4> QED  BY <4>1 DEF Counts
    <3> QED  BY <3>1, <3>2 DEF Shape, Typed
  <2> QED  BY <1>6, <2>1, <2>3, <2>4, <2>5 DEF Finish, Shape, Typed, Phase
<1>7. ASSUME NEW r \in Request, Abandon(r) PROVE Shape'
  <2>1. Typed'
    BY <1>7 DEF Abandon, Shape, Typed, Phase
  <2>2. Local(r)'
    BY <1>7 DEF Abandon, Shape, Typed, Local
  <2>3. \A q \in Request \ {r} : Local(q)'
    BY <1>7 DEF Abandon, Shape, Typed, Local
  <2> QED  BY <2>1, <2>2, <2>3 DEF Shape
<1>8. ASSUME NEW r \in Request, WriteLine(r) \/ CloseLine(r) \/ (WriteFails(r) /\ phase[r] # "starting")
      PROVE  Shape'
  <2>1. file' \in [RunId -> Seq(Piece) \cup {None}]
        /\ \A other \in RunId : file[other] # None => file'[other] # None
    BY <1>8, ThreadAppends
  <2>2. /\ UNCHANGED <<events, counted, seen, crashes>> /\ disturbed' \subseteq Request
        /\ cut' \subseteq RunId /\ Resume(r) /\ job[r] # "none"
    BY <1>8 DEF WriteLine, CloseLine, WriteFails, Shape, Typed
  <2> QED  BY <2>1, <2>2, ResumeShape DEF Shape, Typed
<1>9. ASSUME NEW r \in Request, WriteFails(r), phase[r] = "starting" PROVE Shape'
  <2>1. file' \in [RunId -> Seq(Piece) \cup {None}]
        /\ \A other \in RunId : file[other] # None => file'[other] # None
    BY <1>9, ThreadAppends
  <2>2. cut' \subseteq RunId /\ UNCHANGED <<events, counted, cursor, seen, crashes>>
        /\ disturbed' = disturbed \cup {r}
        /\ phase' = [phase EXCEPT ![r] = "done"] /\ job' = [job EXCEPT ![r] = "none"]
    BY <1>9 DEF WriteFails, Shape, Typed
  <2>3. Typed'
    BY <2>1, <2>2 DEF Shape, Typed, Phase
  <2>4. Local(r)'
    BY <1>9 DEF WriteFails, Shape, Typed, Local
  <2>5. \A q \in Request \ {r} : Local(q)'
    BY <1>9, <2>1 DEF WriteFails, Shape, Typed, Local
  <2> QED  BY <2>3, <2>4, <2>5 DEF Shape
<1>10. ASSUME NEW r \in Request, OpenLine(r) PROVE Shape'
  <2>1. file' \in [RunId -> Seq(Piece) \cup {None}] /\ file'[IdOf[r]] # None
        /\ \A other \in RunId : file[other] # None => file'[other] # None
    BY <1>10, ThreadAppends
  <2>2. Typed'
    BY <1>10, <2>1 DEF OpenLine, Shape, Typed
  <2>3. \A q \in Request : Local(q)'
    BY <1>10, <2>1 DEF OpenLine, Shape, Typed, Local
  <2> QED  BY <2>2, <2>3 DEF Shape
<1> QED
  BY <1>1, <1>2, <1>3, <1>4, <1>5, <1>6, <1>7, <1>8, <1>9, <1>10 DEF Next

\* The log starts out typed, empty and without a writer.
LEMMA ShapeStarts == Init => Shape
<1>1. <<>> \in Seq(EventType) /\ Len(<<>>) = 0
  BY EmptySeq
<1>2. 0 \in 0 .. MaxCrashes
  BY BoundAssumption
<1>3. Init => Typed
  BY <1>1, <1>2 DEF Init, Typed, Phase
<1>4. Init => \A r \in Request : Local(r)
  BY <1>1 DEF Init, Local
<1> QED  BY <1>3, <1>4 DEF Shape

-----------------------------------------------------------------------------
(* The order of the lines, and that none is missing.                       *)

(* The pieces of a log are newlines, half texts and lines of its runs; the  *)
(* lines of one run are in order, none is there before its turn, and the    *)
(* lines of a run that nothing disturbed are all there.                     *)
Mine(r) == {i \in DOMAIN Opened(IdOf[r]) : Opened(IdOf[r])[i].run = r}
Has(r, p) == \E i \in Mine(r) : Opened(IdOf[r])[i].pos = p

Sound(id) ==
  \A i \in DOMAIN Opened(id) :
    \/ Opened(id)[i] \in {Newline, Torn}
    \/ Opened(id)[i].run \in Request /\ IdOf[Opened(id)[i].run] = id

Ordered(r) ==
  LET s == Opened(IdOf[r]) IN
  /\ \A i, j \in Mine(r) : i < j => s[i].pos < s[j].pos
  /\ \A i \in Mine(r) : /\ s[i].pos <= cursor[r]
                        /\ phase[r] = "new" \/ job[r] = "queued" => s[i].pos < cursor[r]

Complete(r) ==
  r \notin disturbed =>
    /\ phase[r] \in {"starting", "persisting"} =>
          \A p \in Nat : p < cursor[r] \/ (p = cursor[r] /\ job[r] = "open") => Has(r, p)
    /\ phase[r] = "running" => Has(r, 0)
    /\ phase[r] = "done" => \A p \in 0 .. Len(events[r]) : Has(r, p)

LinesInv ==
  /\ \A id \in RunId : Sound(id)
  /\ \A r \in Request : Ordered(r) /\ Complete(r)

\* After an append to a log its pieces are the old ones and those appended.
LEMMA AppendedPieces ==
  ASSUME Shape, NEW r \in Request, NEW ext, Appends(r, ext)
  PROVE  LET s == Opened(IdOf[r]) IN
         /\ Len(s) \in Nat /\ DOMAIN s = 1 .. Len(s)
         /\ DOMAIN s' = 1 .. Len(s')
         /\ Len(s') = Len(s) + Len(ext) /\ Len(ext) \in 0 .. 2
         /\ \A i \in 1 .. Len(s) : s'[i] = s[i]
         /\ \A k \in 1 .. Len(ext) : s'[Len(s) + k] = ext[k]
         /\ ext \in {<<Text(r)>>, <<Text(r), Newline>>} =>
               Len(s) + 1 \in DOMAIN s' /\ s'[Len(s) + 1] = Text(r)
         /\ \A i \in Len(s) + 1 .. Len(s') :
               \/ s'[i] \in {Newline, Torn}
               \/ s'[i] = Text(r) /\ i = Len(s) + 1 /\ ext \in {<<Text(r)>>, <<Text(r), Newline>>}
<1> DEFINE s == Opened(IdOf[r])
<1>1. s \in Seq(Piece) /\ ext \in Seq(Piece) /\ s' = s \o ext
  BY PiecesTyped, IdAssumption DEF Appends
<1>2. ext \in Extension(r)
  BY DEF Appends
<1>3. Len(ext) \in 0 .. 2 /\ \A k \in 1 .. Len(ext) :
         \/ ext[k] \in {Newline, Torn}
         \/ ext[k] = Text(r) /\ k = 1 /\ ext \in {<<Text(r)>>, <<Text(r), Newline>>}
  <2> HIDE DEF s
  <2> QED  BY <1>2 DEF Extension
<1> HIDE DEF s
<1>4. /\ s' \in Seq(Piece) /\ Len(s') = Len(s) + Len(ext) /\ Len(s) \in Nat
      /\ \A i \in 1 .. Len(s) + Len(ext) :
            s'[i] = IF i <= Len(s) THEN s[i] ELSE ext[i - Len(s)]
  BY <1>1, ConcatProperties, LenProperties
<1>5. DOMAIN s = 1 .. Len(s) /\ DOMAIN s' = 1 .. Len(s')
  BY <1>1, <1>4, LenProperties
<1>6. \A i \in 1 .. Len(s) : s'[i] = s[i]
  BY <1>3, <1>4
<1>7. \A i \in Len(s) + 1 .. Len(s') :
         \/ s'[i] \in {Newline, Torn}
         \/ s'[i] = Text(r) /\ i = Len(s) + 1 /\ ext \in {<<Text(r)>>, <<Text(r), Newline>>}
  <2> SUFFICES ASSUME NEW i \in Len(s) + 1 .. Len(s')
               PROVE  \/ s'[i] \in {Newline, Torn}
                      \/ s'[i] = Text(r) /\ i = Len(s) + 1 /\ ext \in {<<Text(r)>>, <<Text(r), Newline>>}
    OBVIOUS
  <2>1. s'[i] = ext[i - Len(s)] /\ i - Len(s) \in 1 .. Len(ext)
    BY <1>3, <1>4
  <2> QED  BY <1>3, <1>4, <2>1
<1>8. ext \in {<<Text(r)>>, <<Text(r), Newline>>} =>
        Len(s) + 1 \in DOMAIN s' /\ s'[Len(s) + 1] = Text(r)
  <2> SUFFICES ASSUME ext \in {<<Text(r)>>, <<Text(r), Newline>>}
               PROVE  Len(s) + 1 \in DOMAIN s' /\ s'[Len(s) + 1] = Text(r)
    OBVIOUS
  <2>1. Len(ext) >= 1 /\ ext[1] = Text(r)
    OBVIOUS
  <2> QED  BY <1>3, <1>4, <1>5, <2>1
<1>9. \A k \in 1 .. Len(ext) : s'[Len(s) + k] = ext[k]
  BY <1>3, <1>4
<1> QED  BY <1>3, <1>4, <1>5, <1>6, <1>7, <1>8, <1>9 DEF s

\* A step that leaves the files alone leaves every line where it is.
LEMMA QuietLines ==
  ASSUME LinesInv, UNCHANGED file
  PROVE  /\ \A id \in RunId : Sound(id)'
         /\ \A r \in Request : Mine(r)' = Mine(r) /\ Opened(IdOf[r])' = Opened(IdOf[r])
                                /\ \A p \in Nat : Has(r, p)' <=> Has(r, p)
<1>1. \A id : Opened(id)' = Opened(id)
  BY DEF Opened
<1> QED  BY <1>1 DEF LinesInv, Sound, Mine, Has

\* An append by a thread of r moves no line and adds none but its own.
LEMMA ThreadLines ==
  ASSUME Shape, LinesInv, NEW r \in Request, NEW ext, Appends(r, ext)
  PROVE  LET s == Opened(IdOf[r])
             text == ext \in {<<Text(r)>>, <<Text(r), Newline>>} IN
         /\ \A id \in RunId : Sound(id)'
         /\ \A q \in Request \ {r} :
               /\ Mine(q)' = Mine(q)
               /\ \A i \in Mine(q) : Opened(IdOf[q])'[i] = Opened(IdOf[q])[i]
         /\ \A i \in Mine(r) : i \in Mine(r)' /\ s'[i] = s[i] /\ i \in 1 .. Len(s)
         /\ \A i \in Mine(r)' \ Mine(r) : i = Len(s) + 1 /\ s'[i] = Text(r) /\ text
         /\ text => Len(s) + 1 \in Mine(r)' /\ s'[Len(s) + 1] = Text(r)
<1> DEFINE s == Opened(IdOf[r])
           text == ext \in {<<Text(r)>>, <<Text(r), Newline>>}
<1>1. /\ Len(s) \in Nat /\ DOMAIN s = 1 .. Len(s) /\ DOMAIN s' = 1 .. Len(s')
      /\ Len(s') = Len(s) + Len(ext) /\ Len(ext) \in 0 .. 2
      /\ \A i \in 1 .. Len(s) : s'[i] = s[i]
      /\ text => Len(s) + 1 \in DOMAIN s' /\ s'[Len(s) + 1] = Text(r)
      /\ \A i \in Len(s) + 1 .. Len(s') :
            s'[i] \in {Newline, Torn} \/ (s'[i] = Text(r) /\ i = Len(s) + 1 /\ text)
  BY AppendedPieces
<1>2. \A id \in RunId \ {IdOf[r]} : Opened(id)' = Opened(id)
  BY DEF Appends
<1>3. None \notin Request /\ IdOf \in [Request -> RunId]
      /\ Newline.run = None /\ Torn.run = None /\ Text(r).run = r
  BY IdAssumption DEF Newline, Torn, Text
<1> HIDE DEF s, text
<1>4. \A i \in DOMAIN s' : i \in DOMAIN s \/ i \in Len(s) + 1 .. Len(s')
  BY <1>1
<1>5. DOMAIN s \subseteq DOMAIN s'
  BY <1>1
<1>6. \A id \in RunId : Sound(id)'
  <2>1. ASSUME NEW id \in RunId \ {IdOf[r]} PROVE Sound(id)'
    BY <1>2, <2>1 DEF LinesInv, Sound
  <2>2. Sound(IdOf[r])'
    <3>1. Sound(IdOf[r])
      BY <1>3 DEF LinesInv
    <3> QED  BY <1>1, <1>3, <1>4, <3>1 DEF Sound, s
  <2> QED  BY <2>1, <2>2
<1>7. ASSUME NEW q \in Request \ {r}
      PROVE  Mine(q)' = Mine(q) /\ \A i \in Mine(q) : Opened(IdOf[q])'[i] = Opened(IdOf[q])[i]
  <2>1. CASE IdOf[q] # IdOf[r]
    BY <1>2, <1>3, <2>1 DEF Mine
  <2>2. CASE IdOf[q] = IdOf[r]
    <3>1. \A i \in DOMAIN s' : s'[i].run = q <=> i \in DOMAIN s /\ s[i].run = q
      BY <1>1, <1>3, <1>4
    <3> QED  BY <1>1, <1>5, <2>2, <3>1 DEF Mine, s
  <2> QED  BY <2>1, <2>2
<1>8. Mine(r) = {i \in DOMAIN s : s[i].run = r} /\ Mine(r)' = {i \in DOMAIN s' : s'[i].run = r}
  BY DEF Mine, s
<1>9. \A i \in Mine(r) : i \in Mine(r)' /\ s'[i] = s[i] /\ i \in 1 .. Len(s)
  BY <1>1, <1>5, <1>8
<1>10. \A i \in Mine(r)' \ Mine(r) : i = Len(s) + 1 /\ s'[i] = Text(r) /\ text
  BY <1>1, <1>3, <1>4, <1>8
<1>11. text => Len(s) + 1 \in Mine(r)' /\ s'[Len(s) + 1] = Text(r)
  BY <1>1, <1>3, <1>8
<1> QED  BY <1>6, <1>7, <1>9, <1>10, <1>11 DEF s, text

\* Whoever stands still while a thread of another run writes keeps its lines.
LEMMA OthersLines ==
  ASSUME Shape, LinesInv, NEW r \in Request, NEW ext, Appends(r, ext),
         NEW q \in Request \ {r},
         phase'[q] = phase[q], job'[q] = job[q], cursor'[q] = cursor[q], events' = events,
         disturbed \subseteq disturbed'
  PROVE  Ordered(q)' /\ Complete(q)'
<1>1. /\ Mine(q)' = Mine(q)
      /\ \A i \in Mine(q) : Opened(IdOf[q])'[i] = Opened(IdOf[q])[i]
  BY ThreadLines
<1>2. Ordered(q) /\ Complete(q)
  BY DEF LinesInv
<1>3. Ordered(q)'
  BY <1>1, <1>2 DEF Ordered
<1>4. \A p \in Nat : Has(q, p) => Has(q, p)'
  BY <1>1 DEF Has
<1>5. \A p \in 0 .. Len(events[q]) : p \in Nat
  OBVIOUS
<1>6. Complete(q)'
  BY <1>2, <1>4, <1>5 DEF Complete
<1> QED  BY <1>3, <1>6

\* The line a thread writes is the next one of its run.
LEMMA NextLine ==
  ASSUME Shape, LinesInv, NEW r \in Request, NEW ext, Appends(r, ext),
         ext \in {<<Text(r)>>, <<Text(r), Newline>>} => job[r] = "queued"
  PROVE  LET s == Opened(IdOf[r]) IN
         /\ \A i, j \in Mine(r)' : i < j => s'[i].pos < s'[j].pos
         /\ \A i \in Mine(r)' : s'[i].pos <= cursor[r] /\ s'[i].pos \in Nat
         /\ \A p \in Nat : Has(r, p) => Has(r, p)'
         /\ ext \in {<<Text(r)>>, <<Text(r), Newline>>} => \E i \in Mine(r)' : s'[i].pos = cursor[r]
<1> DEFINE s == Opened(IdOf[r])
           text == ext \in {<<Text(r)>>, <<Text(r), Newline>>}
<1>1. /\ \A i \in Mine(r) : i \in Mine(r)' /\ s'[i] = s[i] /\ i \in 1 .. Len(s)
      /\ \A i \in Mine(r)' \ Mine(r) : i = Len(s) + 1 /\ s'[i] = Text(r) /\ text
      /\ text => Len(s) + 1 \in Mine(r)' /\ s'[Len(s) + 1] = Text(r)
  BY ThreadLines
<1>2. /\ s \in Seq(Piece) /\ Len(s) \in Nat /\ cursor[r] \in Nat
      /\ \A i \in 1 .. Len(s) : s[i].pos \in Nat
  <2>1. s \in Seq(Piece)
    BY PiecesTyped, IdAssumption
  <2>2. cursor[r] \in Nat
    BY DEF Shape, Typed
  <2>3. \A x \in Piece : x.pos \in Nat
    BY DEF Piece
  <2> HIDE DEF s
  <2>4. \A i \in 1 .. Len(s) : s[i] \in Piece
    BY <2>1, ElementOfSeq
  <2> QED  BY <2>1, <2>2, <2>3, <2>4, LenProperties
<1>3. /\ \A i, j \in Mine(r) : i < j => s[i].pos < s[j].pos
      /\ \A i \in Mine(r) : s[i].pos <= cursor[r] /\ (job[r] = "queued" => s[i].pos < cursor[r])
  BY DEF LinesInv, Ordered
<1>4. Text(r).pos = cursor[r]
  BY DEF Text
<1>5. \A p \in Nat : Has(r, p) => Has(r, p)'
  BY <1>1 DEF Has
<1>6. text => \E i \in Mine(r)' : s'[i].pos = cursor[r]
  <2> HIDE DEF s, text
  <2> QED  BY <1>1, <1>4
<1> HIDE DEF s, text
<1>7. \A i \in Mine(r)' : s'[i].pos <= cursor[r] /\ s'[i].pos \in Nat
  BY <1>1, <1>2, <1>3, <1>4
<1>8. \A i, j \in Mine(r)' : i < j => s'[i].pos < s'[j].pos
  <2> SUFFICES ASSUME NEW i \in Mine(r)', NEW j \in Mine(r)', i < j
               PROVE  s'[i].pos < s'[j].pos
    OBVIOUS
  <2>1. CASE j \in Mine(r)
    <3>1. i \in Mine(r)
      BY <1>1, <1>2, <2>1
    <3> QED  BY <1>1, <1>3, <2>1, <3>1
  <2>2. CASE j \notin Mine(r)
    <3>1. j = Len(s) + 1 /\ s'[j] = Text(r) /\ job[r] = "queued"
      BY <1>1, <2>2 DEF text
    <3>2. i # Len(s) + 1
      BY <1>2, <3>1
    <3>3. i \in Mine(r)
      BY <1>1, <3>2
    <3> QED  BY <1>1, <1>3, <1>4, <3>1, <3>3
  <2> QED  BY <2>1, <2>2
<1> QED  BY <1>5, <1>6, <1>7, <1>8 DEF s, text

\* The step of a thread keeps the lines in order and loses none.
LEMMA ThreadKeepsLines ==
  ASSUME Shape, LinesInv, NEW r \in Request,
         WriteLine(r) \/ OpenLine(r) \/ CloseLine(r) \/ WriteFails(r)
  PROVE  LinesInv'
<1>1. PICK ext : Appends(r, ext) /\ Writes(r, ext)
  BY ThreadAppends
<1> DEFINE s == Opened(IdOf[r])
           text == ext \in {<<Text(r)>>, <<Text(r), Newline>>}
<1>2. \A id \in RunId : Sound(id)'
  BY <1>1, ThreadLines
<1>3. /\ \A q \in Request \ {r} :
            phase'[q] = phase[q] /\ job'[q] = job[q] /\ cursor'[q] = cursor[q]
      /\ events' = events /\ disturbed \subseteq disturbed'
  BY DEF Shape, Typed, WriteLine, OpenLine, CloseLine, WriteFails, Resume, Continue
<1>4. \A q \in Request \ {r} : Ordered(q)' /\ Complete(q)'
  BY <1>1, <1>3, OthersLines
<1>5. text => job[r] = "queued"
  <2>1. None # r /\ Text(r) # Newline /\ Text(r) # Torn
    BY IdAssumption DEF Text, Newline, Torn
  <2> HIDE DEF s
  <2>2. ext \in {<<>>, <<Torn>>, <<Newline>>} => ~text
    BY <2>1
  <2>3. job[r] \in {"none", "queued", "open"} /\ (WriteFails(r) => job[r] # "none")
    BY DEF WriteFails, Shape, Typed
  <2> HIDE DEF text
  <2> QED  BY <1>1, <2>2, <2>3 DEF Writes, WriteLine, OpenLine
<1>6. /\ \A i, j \in Mine(r)' : i < j => s'[i].pos < s'[j].pos
      /\ \A i \in Mine(r)' : s'[i].pos <= cursor[r] /\ s'[i].pos \in Nat
      /\ \A p \in Nat : Has(r, p) => Has(r, p)'
      /\ text => \E i \in Mine(r)' : s'[i].pos = cursor[r]
  BY <1>1, <1>5, NextLine
<1>7. \A i \in Mine(r)' : s'[i].pos <= cursor[r] /\ s'[i].pos \in Nat
  BY <1>6
<1>8. cursor[r] \in Nat /\ Len(events[r]) \in Nat /\ cursor[r] <= Len(events[r])
      /\ phase \in [Request -> Phase] /\ job \in [Request -> {"none", "queued", "open"}]
      /\ cursor \in [Request -> Nat]
      /\ (phase[r] = "starting" => cursor[r] = 0)
      /\ (phase[r] = "new" => job[r] = "none") /\ (phase[r] = "running" => job[r] = "none")
  BY DEF Shape, Typed, Local
<1>9. Complete(r)
  BY DEF LinesInv
<1> HIDE DEF s, text
<1>10. Ordered(r)'
  <2>1. phase'[r] # "new" /\ (job'[r] = "queued" => cursor'[r] = cursor[r] + 1)
        /\ (cursor'[r] = cursor[r] \/ cursor'[r] = cursor[r] + 1)
    BY <1>8 DEF WriteLine, OpenLine, CloseLine, WriteFails, Resume, Continue
  <2>2. \A i \in Mine(r)' : /\ s'[i].pos <= cursor'[r]
                            /\ job'[r] = "queued" => s'[i].pos < cursor'[r]
    BY <1>7, <1>8, <2>1
  <2> QED  BY <1>6, <2>1, <2>2 DEF Ordered, s
<1>11. Complete(r)'
  <2> SUFFICES ASSUME r \notin disturbed' PROVE Complete(r)'
    BY DEF Complete
  <2>1. ~WriteFails(r) /\ r \notin disturbed
    BY <1>3 DEF WriteFails
  <2>2. /\ phase[r] \in {"starting", "persisting"} =>
             \A p \in Nat : p < cursor[r] \/ (p = cursor[r] /\ job[r] = "open") => Has(r, p)'
        /\ phase[r] = "done" => \A p \in 0 .. Len(events[r]) : Has(r, p)'
    BY <1>6, <1>9, <2>1 DEF Complete
  <2>3. ((WriteLine(r) \/ OpenLine(r)) /\ text) \/ (CloseLine(r) /\ job[r] = "open")
    BY <1>1, <2>1 DEF Writes, CloseLine, text
  <2>4. phase[r] \in {"starting", "persisting"} =>
          \A p \in Nat : p <= cursor[r] => Has(r, p)'
    <3> SUFFICES ASSUME phase[r] \in {"starting", "persisting"}, NEW p \in Nat, p <= cursor[r]
                 PROVE  Has(r, p)'
      OBVIOUS
    <3>1. CASE p < cursor[r] \/ job[r] = "open"
      BY <1>8, <2>2, <3>1
    <3>2. CASE p = cursor[r] /\ text
      BY <1>6, <3>2 DEF Has, s
    <3> QED  BY <1>8, <2>3, <3>1, <3>2
  <2>5. job[r] # "none" /\ phase[r] \in {"starting", "persisting", "done"}
    BY <1>8 DEF WriteLine, OpenLine, CloseLine, WriteFails, Phase
  <2>6. CASE OpenLine(r)
    <3>1. UNCHANGED <<phase, events, cursor>>
      BY <2>6 DEF OpenLine
    <3> QED  BY <1>8, <2>2, <2>4, <2>5, <3>1 DEF Complete
  <2>7. CASE Resume(r) /\ phase[r] = "starting"
    <3>1. phase'[r] = "running"
      BY <1>8, <2>7 DEF Resume, Continue
    <3> QED  BY <1>8, <2>4, <2>7, <3>1 DEF Complete
  <2>8. CASE Resume(r) /\ phase[r] = "persisting" /\ cursor[r] < Len(events[r])
    <3>1. phase'[r] = "persisting" /\ cursor'[r] = cursor[r] + 1 /\ job'[r] = "queued"
      BY <1>8, <2>8 DEF Resume, Continue
    <3> QED  BY <1>8, <2>4, <2>8, <3>1 DEF Complete
  <2>9. CASE Resume(r) /\ phase[r] = "persisting" /\ cursor[r] >= Len(events[r])
    <3>1. phase'[r] = "done" /\ cursor[r] = Len(events[r])
      BY <1>8, <2>9 DEF Resume, Continue
    <3> QED  BY <1>3, <1>8, <2>4, <2>9, <3>1 DEF Complete
  <2>10. CASE Resume(r) /\ phase[r] = "done"
    <3>1. phase'[r] = "done"
      BY <1>8, <2>10 DEF Resume, Continue
    <3> QED  BY <1>3, <2>2, <2>10, <3>1 DEF Complete
  <2>11. OpenLine(r) \/ Resume(r)
    BY <2>1 DEF WriteLine, CloseLine
  <2> QED  BY <1>8, <2>5, <2>6, <2>7, <2>8, <2>9, <2>10, <2>11
<1> QED  BY <1>2, <1>4, <1>10, <1>11 DEF LinesInv

\* Every piece has a place in the buffer of some run.
LEMMA PositionsTyped ==
  ASSUME Shape, NEW id \in RunId, NEW i \in DOMAIN Opened(id)
  PROVE  Opened(id)[i].pos \in Nat
<1>1. Opened(id) \in Seq(Piece)
  BY PiecesTyped
<1> DEFINE s == Opened(id)
<1> HIDE DEF s
<1>2. s \in Seq(Piece) /\ i \in 1 .. Len(s)
  BY <1>1 DEF s
<1>3. s[i] \in Piece
  BY <1>2, ElementOfSeq
<1> QED  BY <1>3 DEF Piece, s

\* Every step keeps the lines in order and loses none.
LEMMA LinesStep == Shape /\ LinesInv /\ [Next]_vars => LinesInv'
<1> SUFFICES ASSUME Shape, LinesInv, [Next]_vars PROVE LinesInv'
  OBVIOUS
<1>1. ASSUME file' = file, NEW q \in Request,
             UNCHANGED <<phase[q], job[q], cursor[q], events[q]>>, disturbed \subseteq disturbed'
      PROVE  Ordered(q)' /\ Complete(q)'
  <2>1. /\ Mine(q)' = Mine(q) /\ Opened(IdOf[q])' = Opened(IdOf[q])
        /\ \A p \in Nat : Has(q, p)' <=> Has(q, p)
    BY <1>1, QuietLines
  <2>2. Ordered(q) /\ Complete(q)
    BY DEF LinesInv
  <2>3. Ordered(q)'
    BY <1>1, <2>1, <2>2 DEF Ordered
  <2>4. \A p \in 0 .. Len(events[q]) : p \in Nat
    OBVIOUS
  <2> QED  BY <1>1, <2>1, <2>2, <2>3, <2>4 DEF Complete
<1>2. ASSUME file' = file PROVE \A id \in RunId : Sound(id)'
  BY <1>2, QuietLines
<1>3. ASSUME NEW id \in RunId, Read(id) PROVE LinesInv'
  BY <1>1, <1>2, <1>3 DEF Read, LinesInv
<1>4. CASE UNCHANGED vars
  BY <1>1, <1>2, <1>4 DEF vars, LinesInv
<1>5. ASSUME NEW r \in Request, NEW type \in Logged, Buffer(r, type) PROVE LinesInv'
  <2>1. file' = file /\ UNCHANGED <<phase, job, cursor, disturbed>> /\ phase[r] = "running"
        /\ \A q \in Request \ {r} : events'[q] = events[q]
    BY <1>5 DEF Buffer, Shape, Typed
  <2>2. \A q \in Request \ {r} : Ordered(q)' /\ Complete(q)'
    BY <1>1, <2>1
  <2>3. Ordered(r)' /\ Complete(r)'
    <3>1. Mine(r)' = Mine(r) /\ Opened(IdOf[r])' = Opened(IdOf[r])
          /\ \A p \in Nat : Has(r, p)' <=> Has(r, p)
      BY <2>1, QuietLines
    <3>2. Ordered(r) /\ Complete(r)
      BY DEF LinesInv
    <3>3. Ordered(r)'
      BY <2>1, <3>1, <3>2 DEF Ordered
    <3>4. Complete(r)'
      BY <2>1, <3>1, <3>2 DEF Complete
    <3> QED  BY <3>3, <3>4
  <2> QED  BY <1>2, <2>1, <2>2, <2>3 DEF LinesInv
<1>6. ASSUME NEW r \in Request, Begin(r) \/ Finish(r) \/ Abandon(r) PROVE LinesInv'
  <2>1. /\ file' = file /\ disturbed \subseteq disturbed'
        /\ \A q \in Request \ {r} : UNCHANGED <<phase[q], job[q], cursor[q], events[q]>>
    BY <1>6 DEF Begin, Finish, Abandon, Shape, Typed
  <2>2. \A q \in Request \ {r} : Ordered(q)' /\ Complete(q)'
    BY <1>1, <2>1
  <2>3. /\ Mine(r)' = Mine(r) /\ Opened(IdOf[r])' = Opened(IdOf[r])
        /\ \A p \in Nat : Has(r, p)' <=> Has(r, p)
    BY <2>1, QuietLines
  <2>4. Ordered(r) /\ Complete(r)
    BY DEF LinesInv
  <2>5. phase \in [Request -> Phase] /\ job \in [Request -> {"none", "queued", "open"}]
        /\ cursor \in [Request -> Nat]
    BY DEF Shape, Typed
  <2>6. \A i \in Mine(r) : Opened(IdOf[r])[i].pos \in Nat
    <3>1. IdOf[r] \in RunId
      BY IdAssumption
    <3> QED  BY <3>1, PositionsTyped DEF Mine
  <2>7. CASE Begin(r)
    <3>1. phase[r] = "new" /\ phase'[r] = "starting" /\ job'[r] = "queued"
          /\ cursor'[r] = 0 /\ cursor[r] = 0
      BY <2>5, <2>7 DEF Begin, Shape, Local
    <3>2. Ordered(r)'
      BY <2>3, <2>4, <3>1 DEF Ordered
    <3>3. Complete(r)'
      BY <3>1 DEF Complete
    <3> QED  BY <1>2, <2>1, <2>2, <3>2, <3>3 DEF LinesInv
  <2>8. CASE Finish(r)
    <3>1. phase[r] = "running" /\ phase'[r] = "persisting" /\ job'[r] = "queued"
          /\ cursor'[r] = 1 /\ cursor[r] = 0 /\ disturbed' = disturbed
      BY <2>5, <2>8 DEF Finish, Shape, Local
    <3>2. Ordered(r)'
      BY <2>3, <2>4, <2>6, <3>1 DEF Ordered
    <3>3. Complete(r)'
      BY <2>3, <2>4, <3>1 DEF Complete
    <3> QED  BY <1>2, <2>1, <2>2, <3>2, <3>3 DEF LinesInv
  <2>9. CASE Abandon(r)
    <3>1. phase[r] # "new" /\ phase'[r] = "done" /\ job'[r] \in {job[r], "none"}
          /\ cursor'[r] = cursor[r] /\ r \in disturbed'
      BY <2>5, <2>9 DEF Abandon
    <3>2. Ordered(r)'
      BY <2>3, <2>4, <3>1 DEF Ordered
    <3>3. Complete(r)'
      BY <3>1 DEF Complete
    <3> QED  BY <1>2, <2>1, <2>2, <3>2, <3>3 DEF LinesInv
  <2> QED  BY <1>6, <2>7, <2>8, <2>9
<1>7. CASE Crash
  <2>1. file' = file /\ UNCHANGED <<events, cursor>> /\ disturbed \subseteq disturbed'
    BY <1>7 DEF Crash
  <2>2. ASSUME NEW q \in Request PROVE Ordered(q)' /\ Complete(q)'
    <3>1. /\ Mine(q)' = Mine(q) /\ Opened(IdOf[q])' = Opened(IdOf[q])
          /\ \A p \in Nat : Has(q, p)' <=> Has(q, p)
      BY <2>1, QuietLines
    <3>2. Ordered(q) /\ Complete(q)
      BY DEF LinesInv
    <3>3. job'[q] = "none"
          /\ \/ q \in InFlight /\ phase'[q] = "done" /\ q \in disturbed'
             \/ q \notin InFlight /\ phase'[q] = phase[q] /\ phase[q] \in {"new", "done"}
      BY <1>7 DEF Crash, InFlight
    <3>4. Ordered(q)'
      BY <2>1, <3>1, <3>2, <3>3 DEF Ordered
    <3>5. \A p \in 0 .. Len(events[q]) : p \in Nat
      OBVIOUS
    <3>6. Complete(q)'
      BY <2>1, <3>1, <3>2, <3>3, <3>5 DEF Complete
    <3> QED  BY <3>4, <3>6
  <2> QED  BY <1>2, <2>1, <2>2 DEF LinesInv
<1> QED
  BY <1>3, <1>4, <1>5, <1>6, <1>7, ThreadKeepsLines DEF Next

\* In the beginning no line is written.
LEMMA LinesStart == Init => LinesInv
<1> SUFFICES ASSUME Init PROVE LinesInv
  OBVIOUS
<1>1. \A id \in RunId : Opened(id) = <<>>
  BY DEF Init, Opened
<1>2. \A r \in Request : IdOf[r] \in RunId
  BY IdAssumption
<1>3. \A r \in Request : Mine(r) = {}
  BY <1>1, <1>2 DEF Mine
<1>4. \A r \in Request : phase[r] = "new"
  BY DEF Init
<1>5. \A r \in Request : Ordered(r) /\ Complete(r)
  BY <1>3, <1>4 DEF Ordered, Complete
<1>6. \A id \in RunId : Sound(id)
  BY <1>1 DEF Sound
<1> QED  BY <1>5, <1>6 DEF LinesInv

Grown == Shape /\ LinesInv

\* The strengthened invariant of the run log.
LEMMA GrownHolds == Spec => []Grown
<1>1. Init => Grown
  BY ShapeStarts, LinesStart DEF Grown
<1>2. Grown /\ [Next]_vars => Grown'
  BY ShapeStep, LinesStep DEF Grown
<1> QED  BY <1>1, <1>2, PTL DEF Spec

\* Every variable of the run log has its type, and no line stands for an event
\* that its run has not buffered.
THEOREM TypeCorrect == Spec => []TypeOK
<1>1. Grown => TypeOK
  <2> SUFFICES ASSUME Grown PROVE TypeOK
    OBVIOUS
  <2>1. Typed /\ \A r \in Request : cursor[r] \in Nat /\ cursor[r] <= Len(events[r])
                                   /\ Len(events[r]) \in Nat
    BY DEF Grown, Shape, Typed, Local
  <2>2. ASSUME NEW id \in RunId, NEW i \in DOMAIN Opened(id), Opened(id)[i] \notin {Newline, Torn}
        PROVE  Opened(id)[i].pos \in 0 .. Len(events[Opened(id)[i].run])
    <3>1. Opened(id)[i].run \in Request /\ IdOf[Opened(id)[i].run] = id
      BY <2>2 DEF Grown, LinesInv, Sound
    <3>2. PICK r \in Request : r = Opened(id)[i].run /\ IdOf[r] = id
      BY <3>1
    <3>3. i \in Mine(r)
      BY <2>2, <3>2 DEF Mine
    <3>4. Opened(id)[i].pos <= cursor[r]
      BY <3>2, <3>3 DEF Grown, LinesInv, Ordered
    <3>5. Opened(id)[i].pos \in Nat
      BY <2>2, PositionsTyped DEF Grown
    <3> QED  BY <2>1, <3>2, <3>4, <3>5
  <2>3. /\ phase \in [Request -> {"new", "starting", "running", "persisting", "done"}]
        /\ events \in [Request -> Seq(Logged \cup {"run_end"})]
        /\ DOMAIN file = RunId /\ DOMAIN seen = RunId
    BY <2>1 DEF Typed, Phase, EventType
  <2> QED  BY <2>1, <2>2, <2>3 DEF TypeOK, Typed
<1> QED  BY <1>1, GrownHolds, PTL

\* The lines of a run are in the order its events happened and none is there
\* twice, although threads outlive the calls that sent them and share files.
THEOREM OrderIsKept == Spec => []LinesKeepTheirOrder
<1>1. Grown => LinesKeepTheirOrder
  <2> SUFFICES ASSUME Grown, NEW r \in Request, NEW x \in Written(r), NEW y \in Written(r),
                      x[1] < y[1]
               PROVE  x[2] < y[2]
    BY DEF LinesKeepTheirOrder
  <2>1. PICK i \in Mine(r) : x = <<i, Opened(IdOf[r])[i].pos>>
    BY DEF Written, Mine
  <2>2. PICK j \in Mine(r) : y = <<j, Opened(IdOf[r])[j].pos>>
    BY DEF Written, Mine
  <2> QED  BY <2>1, <2>2 DEF Grown, LinesInv, Ordered
<1> QED  BY <1>1, GrownHolds, PTL

\* A run that nothing disturbed has its whole buffer in the file when it is
\* over, whatever the runs it shares the file with do.
THEOREM NothingIsLost == Spec => []UndisturbedRunIsComplete
<1>1. Grown => UndisturbedRunIsComplete
  <2> SUFFICES ASSUME Grown, NEW r \in Request, phase[r] = "done", r \notin disturbed
               PROVE  {x[2] : x \in Written(r)} = 0 .. Len(events[r])
    BY DEF UndisturbedRunIsComplete
  <2>1. \A p \in 0 .. Len(events[r]) : Has(r, p)
    BY DEF Grown, LinesInv, Complete
  <2>2. \A p : p \in {x[2] : x \in Written(r)} <=> \E i \in Mine(r) : Opened(IdOf[r])[i].pos = p
    <3> DEFINE s == Opened(IdOf[r])
    <3>1. Written(r) = {<<i, s[i].pos>> : i \in Mine(r)}
      BY DEF Written, Mine
    <3>2. ASSUME NEW i \in Mine(r) PROVE s[i].pos \in {x[2] : x \in Written(r)}
      <4>1. <<i, s[i].pos>> \in Written(r) /\ <<i, s[i].pos>>[2] = s[i].pos
        BY <3>1
      <4> QED  BY <4>1
    <3>3. ASSUME NEW x \in Written(r) PROVE \E i \in Mine(r) : s[i].pos = x[2]
      BY <3>1
    <3> HIDE DEF s
    <3> QED  BY <3>2, <3>3 DEF s
  <2>3. \A i \in Mine(r) : Opened(IdOf[r])[i].pos \in 0 .. Len(events[r])
    <3>1. IdOf[r] \in RunId
      BY IdAssumption
    <3>2. \A i \in Mine(r) : Opened(IdOf[r])[i].pos \in Nat
      BY <3>1, PositionsTyped DEF Grown, Mine
    <3>3. \A i \in Mine(r) : Opened(IdOf[r])[i].pos <= cursor[r]
      BY DEF Grown, LinesInv, Ordered
    <3>4. cursor[r] \in Nat /\ Len(events[r]) \in Nat /\ cursor[r] <= Len(events[r])
      BY DEF Grown, Shape, Typed, Local
    <3> QED  BY <3>2, <3>3, <3>4
  <2> QED  BY <2>1, <2>2, <2>3 DEF Has
<1> QED  BY <1>1, GrownHolds, PTL

-----------------------------------------------------------------------------
(* Logs with one owner.                                                    *)

OwnIds == \A q, r \in Request : IdOf[q] = IdOf[r] => q = r

(* A log that no failed write cut is readable, and ends with a newline      *)
(* unless the thread of its owner has its line open or the owner will never *)
(* write again.                                                             *)
Joined(id) == id \in cut \/ Readable(id)

Ended(r) ==
  LET s == Opened(IdOf[r]) IN s = <<>> \/ s[Len(s)] = Newline

Open(r) == job[r] = "open" \/ (phase[r] = "done" /\ job[r] = "none")

Closing(r) == IdOf[r] \in cut \/ Ended(r) \/ Open(r)

Neat ==
  /\ \A id \in RunId : Joined(id) /\ (seen[id].status = "unreadable" => id \in cut)
  /\ \A r \in Request : Closing(r)

\* A text goes to the end of a log that ends with a newline.
Fits(r, ext) ==
  \/ ext \in {<<>>, <<Newline>>}
  \/ ext \in {<<Text(r)>>, <<Text(r), Newline>>} /\ Ended(r)

\* What a thread appends joins on to a log that ends with a newline.
LEMMA NeatAppend ==
  ASSUME Shape, NEW r \in Request, NEW ext, Appends(r, ext), Readable(IdOf[r]), Fits(r, ext)
  PROVE  /\ Readable(IdOf[r])'
         /\ ext = <<>> /\ Ended(r) => Ended(r)'
         /\ ext \in {<<Newline>>, <<Text(r), Newline>>} => Ended(r)'
<1> DEFINE s == Opened(IdOf[r])
<1>1. /\ Len(s) \in Nat /\ DOMAIN s = 1 .. Len(s) /\ DOMAIN s' = 1 .. Len(s')
      /\ Len(s') = Len(s) + Len(ext) /\ Len(ext) \in 0 .. 2
      /\ \A i \in 1 .. Len(s) : s'[i] = s[i]
      /\ \A k \in 1 .. Len(ext) : s'[Len(s) + k] = ext[k]
  BY AppendedPieces
<1>2. s = <<>> <=> Len(s) = 0
  <2>1. s \in Seq(Piece)
    BY PiecesTyped, IdAssumption
  <2> HIDE DEF s
  <2>2. s # <<>> => Len(s) # 0
    BY <2>1, EmptySeq
  <2>3. s = <<>> => Len(s) = 0
    OBVIOUS
  <2> QED  BY <2>2, <2>3
<1>3. /\ HalfText(IdOf[r]) = \E i \in DOMAIN s : s[i] = Torn
      /\ HalfText(IdOf[r])' = \E i \in DOMAIN s' : s'[i] = Torn
  BY DEF HalfText
<1>4. Newline # Torn /\ Text(r) # Torn
  BY IdAssumption DEF Newline, Torn, Text
<1>5. /\ ~HalfText(IdOf[r]) /\ \A i \in 1 .. Len(s) - 1 : s[i] = Newline \/ s[i + 1] = Newline
      /\ (Readable(IdOf[r])' <=>
            /\ ~HalfText(IdOf[r])'
            /\ \A i \in 1 .. Len(s') - 1 : s'[i] = Newline \/ s'[i + 1] = Newline)
  BY DEF Readable
<1>6. Ended(r) => Len(s) = 0 \/ s[Len(s)] = Newline
  BY <1>2 DEF Ended
<1>7. s'[Len(s')] = Newline => Ended(r)'
  BY DEF Ended
<1>8. ext = <<>> => s' = s
  BY PiecesTyped, ConcatEmptySeq, IdAssumption DEF Appends
<1>9. ext = <<>> /\ Ended(r) => Ended(r)'
  BY <1>8 DEF Ended
<1> HIDE DEF s
<1>10. /\ ext = <<>> => Len(ext) = 0
       /\ ext = <<Newline>> => Len(ext) = 1 /\ ext[1] = Newline
       /\ ext = <<Text(r)>> => Len(ext) = 1 /\ ext[1] = Text(r)
       /\ ext = <<Text(r), Newline>> => Len(ext) = 2 /\ ext[1] = Text(r) /\ ext[2] = Newline
  OBVIOUS
<1>11. /\ ext \in {<<>>, <<Newline>>, <<Text(r)>>, <<Text(r), Newline>>}
       /\ ext \in {<<>>, <<Newline>>} \/ Ended(r)
  BY DEF Fits
<1>12. ext \in {<<Newline>>, <<Text(r), Newline>>} => s'[Len(s')] = Newline
  <2>1. CASE ext = <<Newline>>
    <3>1. Len(ext) = 1 /\ ext[1] = Newline
      BY <1>10, <2>1
    <3> QED  BY <1>1, <3>1
  <2>2. CASE ext = <<Text(r), Newline>>
    <3>1. Len(ext) = 2 /\ ext[2] = Newline
      BY <1>10, <2>2
    <3> QED  BY <1>1, <3>1
  <2> QED  BY <2>1, <2>2
<1>13. \A k \in 1 .. Len(ext) : ext[k] # Torn
  <2>1. CASE ext = <<>>
    BY <1>10, <2>1
  <2>2. CASE ext = <<Newline>>
    <3>1. Len(ext) = 1 /\ ext[1] = Newline
      BY <1>10, <2>2
    <3> QED  BY <1>4, <3>1
  <2>3. CASE ext = <<Text(r)>>
    <3>1. Len(ext) = 1 /\ ext[1] = Text(r)
      BY <1>10, <2>3
    <3> QED  BY <1>4, <3>1
  <2>4. CASE ext = <<Text(r), Newline>>
    <3>1. Len(ext) = 2 /\ ext[1] = Text(r) /\ ext[2] = Newline
      BY <1>10, <2>4
    <3> QED  BY <1>4, <3>1
  <2> QED  BY <1>11, <2>1, <2>2, <2>3, <2>4
<1>14. ~HalfText(IdOf[r])'
  <2> SUFFICES ASSUME NEW i \in 1 .. Len(s') PROVE s'[i] # Torn
    BY <1>1, <1>3
  <2>1. CASE i \in 1 .. Len(s)
    BY <1>1, <1>3, <1>5, <2>1
  <2>2. CASE i \notin 1 .. Len(s)
    <3>1. i - Len(s) \in 1 .. Len(ext) /\ i = Len(s) + (i - Len(s))
      BY <1>1, <2>2
    <3>2. s'[Len(s) + (i - Len(s))] = ext[i - Len(s)]
      BY <1>1, <3>1
    <3> QED  BY <1>13, <3>1, <3>2
  <2> QED  BY <2>1, <2>2
<1>15. ASSUME NEW i \in 1 .. Len(s') - 1
       PROVE  s'[i] = Newline \/ s'[i + 1] = Newline
  <2>1. CASE i < Len(s)
    <3>1. i \in 1 .. Len(s) - 1 /\ i \in 1 .. Len(s) /\ i + 1 \in 1 .. Len(s)
      BY <1>1, <2>1
    <3> QED  BY <1>1, <1>5, <3>1
  <2>2. CASE i = Len(s)
    <3>1. CASE Ended(r)
      BY <1>1, <1>6, <2>2, <3>1
    <3>2. CASE ext = <<Newline>>
      <4>1. Len(ext) = 1 /\ ext[1] = Newline
        BY <1>10, <3>2
      <4> QED  BY <1>1, <2>2, <4>1
    <3>3. ext # <<>>
      BY <1>1, <1>10, <2>2
    <3> QED  BY <1>11, <3>1, <3>2, <3>3
  <2>3. CASE i > Len(s)
    <3> DEFINE old == Len(s)
               more == Len(ext)
               new == Len(s')
    <3>1. old \in Nat /\ more \in 0 .. 2 /\ new = old + more /\ i \in 1 .. new - 1 /\ i > old
      BY <1>1, <2>3
    <3> HIDE DEF old, more, new
    <3>2. more = 2 /\ i + 1 = new
      BY <3>1
    <3> USE DEF old, more, new
    <3>3. ext = <<Text(r), Newline>>
      BY <1>10, <1>11, <3>2
    <3> QED  BY <1>12, <3>2, <3>3
  <2>4. i \in Int /\ Len(s) \in Int
    BY <1>1
  <2>5. i < Len(s) \/ i = Len(s) \/ i > Len(s)
    BY <2>4
  <2> QED  BY <2>1, <2>2, <2>3, <2>5
<1> QED  BY <1>5, <1>7, <1>9, <1>12, <1>14, <1>15

\* With ids of their own every step keeps the logs neat.
LEMMA NeatStep ==
  ASSUME OwnIds
  PROVE  Shape /\ Neat /\ [Next]_vars => Neat'
<1> SUFFICES ASSUME Shape, Neat, [Next]_vars PROVE Neat'
  OBVIOUS
<1>1. ASSUME file' = file
      PROVE  /\ \A id \in RunId : Readable(id)' = Readable(id)
             /\ \A r \in Request : Ended(r)' = Ended(r)
  <2>1. \A id : Opened(id)' = Opened(id)
    BY <1>1 DEF Opened
  <2> QED  BY <2>1 DEF Readable, HalfText, Ended
<1>2. \A r \in Request : Closing(r) /\ IdOf[r] \in RunId /\ Joined(IdOf[r])
  BY IdAssumption DEF Neat
<1>3. phase \in [Request -> Phase] /\ job \in [Request -> {"none", "queued", "open"}]
      /\ events \in [Request -> Seq(EventType)] /\ cursor \in [Request -> Nat]
  BY DEF Shape, Typed
<1>4. ASSUME file' = file, UNCHANGED <<seen, cut>>, \A r \in Request : Closing(r)' PROVE Neat'
  BY <1>1, <1>4 DEF Neat, Joined
<1>5. ASSUME file' = file, UNCHANGED cut, NEW q \in Request, UNCHANGED <<phase[q], job[q]>>
      PROVE  Closing(q)'
  BY <1>1, <1>2, <1>5 DEF Closing, Open
<1>6. CASE UNCHANGED vars
  BY <1>4, <1>5, <1>6 DEF vars
<1>7. ASSUME NEW id \in RunId, Read(id) PROVE Neat'
  <2>1. \A q \in Request : Closing(q)'
    BY <1>5, <1>7 DEF Read
  <2>2. Restored(id).status = "unreadable" => id \in cut
    <3> SUFFICES ASSUME id \notin cut, Restored(id).status = "unreadable" PROVE FALSE
      OBVIOUS
    <3>1. Readable(id)
      BY DEF Neat, Joined
    <3> QED  BY <3>1 DEF Restored, Unread
  <2>3. file' = file /\ cut' = cut /\ \A other \in RunId :
          seen'[other] = IF other = id THEN Restored(id) ELSE seen[other]
    BY <1>7 DEF Read, Shape, Typed
  <2> QED  BY <1>1, <2>1, <2>2, <2>3 DEF Neat, Joined
<1>8. ASSUME NEW r \in Request,
             Begin(r) \/ Finish(r) \/ Abandon(r) \/ \E type \in Logged : Buffer(r, type)
      PROVE  Neat'
  <2>1. /\ file' = file /\ UNCHANGED <<seen, cut>>
        /\ \A q \in Request \ {r} : UNCHANGED <<phase[q], job[q]>>
    BY <1>3, <1>8 DEF Begin, Finish, Abandon, Buffer
  <2>2. Closing(r)'
    <3>1. CASE Abandon(r)
      <4>1. phase[r] # "done" /\ phase'[r] = "done"
            /\ (job'[r] = job[r] \/ job'[r] = "none")
        BY <1>3, <3>1 DEF Abandon
      <4> QED  BY <1>1, <1>2, <2>1, <4>1 DEF Closing, Open
    <3>2. CASE ~Abandon(r)
      <4>1. job[r] = "none" /\ phase[r] # "done"
        BY <1>8, <3>2 DEF Begin, Finish, Buffer, Shape, Local
      <4> QED  BY <1>1, <1>2, <2>1, <4>1 DEF Closing, Open
    <3> QED  BY <3>1, <3>2
  <2> QED  BY <1>4, <1>5, <2>1, <2>2
<1>9. CASE Crash
  <2>1. file' = file /\ UNCHANGED <<seen, cut>>
    BY <1>9 DEF Crash
  <2>2. \A q \in Request : job'[q] = "none" /\ phase'[q] = IF q \in InFlight THEN "done" ELSE phase[q]
    BY <1>9 DEF Crash
  <2>3. \A q \in Request : Closing(q)'
    BY <1>1, <1>2, <2>1, <2>2 DEF Closing, Open, InFlight
  <2> QED  BY <1>4, <2>1, <2>3
<1>10. ASSUME NEW r \in Request, WriteLine(r) \/ OpenLine(r) \/ CloseLine(r) \/ WriteFails(r)
       PROVE  Neat'
  <2>1. PICK ext : Appends(r, ext) /\ Writes(r, ext)
    BY <1>10, ThreadAppends
  <2>2. /\ UNCHANGED seen /\ Closing(r) /\ Joined(IdOf[r]) /\ IdOf[r] \in RunId
        /\ \A q \in Request \ {r} : UNCHANGED <<phase[q], job[q]>>
        /\ cut' \in {cut, cut \cup {IdOf[r]}} /\ (cut' # cut => WriteFails(r))
    BY <1>2, <1>3, <1>10 DEF WriteLine, OpenLine, CloseLine, WriteFails, Resume, Continue
  <2>3. ASSUME IdOf[r] \notin cut' PROVE Readable(IdOf[r])' /\ (Ended(r)' \/ Open(r)')
    <3>1. IdOf[r] \notin cut
      BY <2>2, <2>3
    <3>2. ext \in {<<>>, <<Newline>>, <<Text(r)>>, <<Text(r), Newline>>}
          /\ (ext = <<>> => WriteFails(r) /\ job[r] # "open")
      <4>1. <<Newline>> # <<>> /\ <<Text(r)>> # <<>> /\ <<Text(r), Newline>> # <<>>
        OBVIOUS
      <4> QED  BY <2>1, <2>3, <4>1 DEF Writes
    <3>3. job[r] # "open" => Ended(r)
      BY <1>10, <2>2, <3>1 DEF Closing, Open, WriteLine, OpenLine, CloseLine, WriteFails
    <3>4. ext \in {<<>>, <<Newline>>} \/ job[r] # "open"
      BY <2>1 DEF Writes, WriteLine, OpenLine
    <3>5. Fits(r, ext)
      BY <3>2, <3>3, <3>4 DEF Fits
    <3>6. Readable(IdOf[r])
      BY <2>2, <3>1 DEF Joined
    <3>7. /\ Readable(IdOf[r])'
          /\ ext = <<>> /\ Ended(r) => Ended(r)'
          /\ ext \in {<<Newline>>, <<Text(r), Newline>>} => Ended(r)'
      BY <2>1, <3>5, <3>6, NeatAppend
    <3>8. CASE ext = <<Text(r)>>
      <4>1. <<Text(r)>> # <<Text(r), Newline>> /\ Text(r) # Newline
        BY IdAssumption DEF Text, Newline
      <4>2. <<Text(r)>> # <<Newline>>
        BY <4>1
      <4>3. OpenLine(r)
        BY <2>1, <2>3, <3>8, <4>1, <4>2 DEF Writes
      <4>4. job'[r] = "open"
        BY <1>3, <4>3 DEF OpenLine
      <4> QED  BY <3>7, <4>4 DEF Open
    <3> QED  BY <3>2, <3>3, <3>7, <3>8
  <2>4. \A id \in RunId \ {IdOf[r]} : Opened(id)' = Opened(id)
    BY <2>1 DEF Appends
  <2>5. \A id \in RunId \ {IdOf[r]} : Readable(id)' = Readable(id)
    BY <2>4 DEF Readable, HalfText
  <2>6. \A id \in RunId : Joined(id)' /\ (seen'[id].status = "unreadable" => id \in cut')
    BY <2>2, <2>3, <2>5 DEF Neat, Joined
  <2>7. ASSUME NEW q \in Request \ {r} PROVE Closing(q)'
    <3>1. IdOf[q] \in RunId \ {IdOf[r]}
      BY <1>2 DEF OwnIds
    <3>2. Ended(q)' = Ended(q)
      BY <2>4, <3>1 DEF Ended
    <3> QED  BY <1>2, <2>2, <3>2 DEF Closing, Open
  <2>8. Closing(r)'
    BY <2>3 DEF Closing
  <2> QED  BY <2>6, <2>7, <2>8 DEF Neat
<1> QED
  BY <1>6, <1>7, <1>8, <1>9, <1>10 DEF Next

\* With ids of their own the logs stay neat.
LEMMA NeatHolds ==
  ASSUME OwnIds
  PROVE  Spec => []Neat
<1>1. Init => Neat
  <2> SUFFICES ASSUME Init PROVE Neat
    OBVIOUS
  <2>1. \A id \in RunId : Opened(id) = <<>> /\ seen[id].status = "never"
    BY DEF Init, Opened, Unread
  <2>2. Len(<<>>) = 0 /\ DOMAIN <<>> = {}
    OBVIOUS
  <2>3. \A id \in RunId : Joined(id)
    BY <2>1, <2>2 DEF Joined, Readable, HalfText
  <2>4. \A r \in Request : Closing(r)
    BY <2>1, IdAssumption DEF Closing, Ended
  <2> QED  BY <2>1, <2>3, <2>4 DEF Neat
<1>2. Grown /\ Neat /\ [Next]_vars => Neat'
  BY NeatStep DEF Grown
<1> QED  BY <1>1, <1>2, GrownHolds, PTL DEF Spec

\* With ids of their own, and lines of any length, no reader meets two texts on
\* one line or half a text: only a failed write that left a text unended makes a
\* log unreadable, whatever is cancelled, abandoned or lost in a crash.
THEOREM ReadsAreSafe ==
  ASSUME OwnIds
  PROVE  Spec => []ReadsSucceed
<1>1. Neat => ReadsSucceed
  BY DEF Neat, ReadsSucceed
<1> QED  BY <1>1, NeatHolds, PTL

-----------------------------------------------------------------------------
(* What successive reads of a log with one owner add up to.                *)

\* A line in the log of r is a line of r: a text of its own, of that type.
LEMMA OwnLines ==
  ASSUME OwnIds, Grown, NEW r \in Request, NEW type, ~HalfText(IdOf[r])
  PROVE  LET s == Opened(IdOf[r]) IN
         /\ Lines(s, type) = {i \in Mine(r) : TypeOf(s[i]) = type}
         /\ Mine(r) \subseteq 1 .. Len(s) /\ Len(s) \in Nat
         /\ IsFiniteSet(Mine(r)) /\ IsFiniteSet(Lines(s, type))
<1> DEFINE s == Opened(IdOf[r])
<1>1. s \in Seq(Piece) /\ Sound(IdOf[r])
  BY PiecesTyped, IdAssumption DEF Grown, LinesInv
<1>2. \A i \in DOMAIN s : s[i] # Torn
  BY DEF HalfText
<1>3. None \notin Request /\ Newline.run = None
  BY IdAssumption DEF Newline
<1>4. \A i \in DOMAIN s : s[i] # Newline <=> s[i].run = r
  <2> SUFFICES ASSUME NEW i \in DOMAIN s PROVE s[i] # Newline <=> s[i].run = r
    OBVIOUS
  <2>1. s[i] = Newline \/ (s[i].run \in Request /\ IdOf[s[i].run] = IdOf[r])
    BY <1>1, <1>2 DEF Sound
  <2> QED  BY <1>3, <2>1 DEF OwnIds
<1>5. Mine(r) = {i \in DOMAIN s : s[i].run = r}
  BY DEF Mine
<1> HIDE DEF s
<1>6. Lines(s, type) = {i \in Mine(r) : TypeOf(s[i]) = type}
  BY <1>4, <1>5 DEF Lines
<1>7. Len(s) \in Nat /\ DOMAIN s = 1 .. Len(s)
  BY <1>1, LenProperties
<1>8. Mine(r) \subseteq 1 .. Len(s) /\ Lines(s, type) \subseteq Mine(r)
  BY <1>5, <1>6, <1>7
<1>9. IsFiniteSet(Mine(r))
  <2>1. IsFiniteSet(1 .. Len(s))
    BY <1>7, FS_Interval
  <2> QED  BY <1>8, <2>1, FS_Subset
<1>10. IsFiniteSet(Lines(s, type))
  BY <1>8, <1>9, FS_Subset
<1> QED  BY <1>6, <1>7, <1>8, <1>9, <1>10 DEF s

\* Some lines of a log have a last one.
LEMMA LastLine ==
  ASSUME NEW n \in Nat, NEW S, S \subseteq 1 .. n, S # {}
  PROVE  \E i \in S : \A j \in S : j <= i
<1> DEFINE T == {n - x : x \in S}
<1>1. \A x \in S : x \in Nat /\ n - x \in Nat
  OBVIOUS
<1>2. T \subseteq Nat /\ T # {}
  BY <1>1
<1> HIDE DEF T
<1>3. PICK y \in T : \A z \in T : ~(<<z, y>> \in OpToRel(<, Nat))
  BY <1>2, WFMin, NatLessThanWellFounded
<1>4. \A z \in T : y <= z
  <2> SUFFICES ASSUME NEW z \in T, z < y PROVE FALSE
    BY <1>2
  <2> QED  BY <1>2, <1>3 DEF OpToRel
<1>5. PICK i \in S : y = n - i
  BY DEF T
<1>6. ASSUME NEW j \in S PROVE j <= i
  <2>1. n - i <= n - j
    BY <1>4, <1>5 DEF T
  <2> QED  BY <1>1, <2>1
<1> QED  BY <1>6

\* The last line of a type is a line of the owner of the log.
LEMMA LastIsOwn ==
  ASSUME OwnIds, Grown, NEW r \in Request, NEW type, ~HalfText(IdOf[r])
  PROVE  LET s == Opened(IdOf[r]) IN
         Last(s, type) = IF Lines(s, type) = {} THEN None ELSE r
<1> DEFINE s == Opened(IdOf[r])
           L == Lines(s, type)
<1>1. /\ L = {i \in Mine(r) : TypeOf(s[i]) = type}
      /\ Mine(r) \subseteq 1 .. Len(s) /\ Len(s) \in Nat
  BY OwnLines
<1>2. \A i \in Mine(r) : s[i].run = r
  BY DEF Mine
<1>3. Last(s, type) = IF L = {} THEN None ELSE s[CHOOSE i \in L : \A j \in L : j <= i].run
  BY DEF Last
<1> HIDE DEF s, L
<1>4. L # {} => \E i \in L : \A j \in L : j <= i
  <2>1. L \subseteq 1 .. Len(s) /\ Len(s) \in Nat
    BY <1>1
  <2> QED  BY <2>1, LastLine
<1>5. L # {} => (CHOOSE i \in L : \A j \in L : j <= i) \in L
  BY <1>4
<1>6. L # {} => s[CHOOSE i \in L : \A j \in L : j <= i].run = r
  BY <1>1, <1>2, <1>5
<1> QED  BY <1>3, <1>6 DEF s, L

\* No step takes an event back, and until run_end there is none of its type.
LEMMA EventsStay ==
  ASSUME Shape, [Next]_vars, NEW r \in Request
  PROVE  /\ Len(events[r]) \in Nat /\ Len(events'[r]) \in Nat /\ Len(events[r]) <= Len(events'[r])
         /\ \A p \in 1 .. Len(events[r]) : events'[r][p] = events[r][p]
<1>1. events \in [Request -> Seq(EventType)]
  BY DEF Shape, Typed
<1>2. CASE UNCHANGED events
  BY <1>1, <1>2
<1>3. ASSUME NEW q \in Request, Finish(q) \/ \E type \in Logged : Buffer(q, type),
             ~UNCHANGED events
      PROVE  /\ Len(events'[r]) \in Nat /\ Len(events[r]) <= Len(events'[r])
             /\ \A p \in 1 .. Len(events[r]) : events'[r][p] = events[r][p]
  <2>1. PICK type \in EventType : events' = [events EXCEPT ![q] = Append(@, type)]
    BY <1>3 DEF Finish, Buffer, EventType
  <2> QED  BY <1>1, <2>1
<1>4. UNCHANGED events \/ \E q \in Request : Finish(q) \/ \E type \in Logged : Buffer(q, type)
  <2>1. ASSUME NEW id \in RunId, Read(id) PROVE UNCHANGED events
    BY <2>1 DEF Read
  <2>2. CASE Crash
    BY <2>2 DEF Crash
  <2>3. ASSUME NEW q \in Request, Begin(q) \/ Abandon(q) PROVE UNCHANGED events
    BY <2>3 DEF Begin, Abandon
  <2>4. ASSUME NEW q \in Request, WriteLine(q) \/ OpenLine(q) \/ CloseLine(q) \/ WriteFails(q)
        PROVE  UNCHANGED events
    BY <2>4 DEF WriteLine, OpenLine, CloseLine, WriteFails
  <2> QED  BY <2>1, <2>2, <2>3, <2>4 DEF Next, vars
<1> QED  BY <1>1, <1>2, <1>3, <1>4

\* Logs only grow, and only where an invocation writes.
LEMMA LogGrows ==
  ASSUME Shape, Shape', [Next]_vars, NEW id \in RunId
  PROVE  /\ \A i \in DOMAIN Opened(id) : i \in DOMAIN Opened(id)' /\ Opened(id)'[i] = Opened(id)[i]
         /\ IsFiniteSet(DOMAIN Opened(id)')
         /\ HalfText(id) => HalfText(id)'
         /\ file[id] # None => file'[id] # None
         /\ file'[id] = file[id] \/ \E q \in Request : IdOf[q] = id
<1> DEFINE threads(q) == WriteLine(q) \/ OpenLine(q) \/ CloseLine(q) \/ WriteFails(q)
<1>1. file' = file \/ \E q \in Request : threads(q)
  <2>1. ASSUME NEW q \in Request,
               Begin(q) \/ Finish(q) \/ Abandon(q) \/ \E type \in Logged : Buffer(q, type)
        PROVE  file' = file
    BY <2>1 DEF Begin, Finish, Abandon, Buffer
  <2>2. CASE Crash
    BY <2>2 DEF Crash
  <2>3. ASSUME NEW other \in RunId, Read(other) PROVE file' = file
    BY <2>3 DEF Read
  <2> QED  BY <2>1, <2>2, <2>3 DEF Next, vars
<1>2. \A i \in DOMAIN Opened(id) : i \in DOMAIN Opened(id)' /\ Opened(id)'[i] = Opened(id)[i]
  <2>1. CASE file' = file
    BY <2>1 DEF Opened
  <2>2. ASSUME NEW q \in Request, threads(q), IdOf[q] = id
        PROVE  \A i \in DOMAIN Opened(id) : i \in DOMAIN Opened(id)' /\ Opened(id)'[i] = Opened(id)[i]
    <3>1. PICK ext : Appends(q, ext)
      BY <2>2, ThreadAppends
    <3> DEFINE s == Opened(IdOf[q])
    <3>2. /\ Len(s) \in Nat /\ DOMAIN s = 1 .. Len(s) /\ DOMAIN s' = 1 .. Len(s')
          /\ Len(s') = Len(s) + Len(ext) /\ Len(ext) \in 0 .. 2
          /\ \A i \in 1 .. Len(s) : s'[i] = s[i]
      BY <3>1, AppendedPieces
    <3>3. s = Opened(id) /\ s' = Opened(id)'
      BY <2>2
    <3> HIDE DEF s
    <3>4. \A i \in DOMAIN s : i \in DOMAIN s' /\ s'[i] = s[i]
      BY <3>2
    <3> QED  BY <3>3, <3>4
  <2>3. ASSUME NEW q \in Request, threads(q), IdOf[q] # id PROVE Opened(id)' = Opened(id)
    BY <2>3, ThreadAppends DEF Appends
  <2> QED  BY <1>1, <2>1, <2>2, <2>3
<1>3. IsFiniteSet(DOMAIN Opened(id)')
  <2>1. Opened(id)' \in Seq(Piece)
    <3>1. file'[id] \in Seq(Piece) \cup {None}
      BY DEF Shape, Typed
    <3>2. <<>> \in Seq(Piece)
      BY EmptySeq
    <3> QED  BY <3>1, <3>2 DEF Opened
  <2> DEFINE s == Opened(id)'
  <2>2. s \in Seq(Piece)
    BY <2>1
  <2> HIDE DEF s
  <2>3. DOMAIN s = 1 .. Len(s) /\ Len(s) \in Nat
    BY <2>2, LenProperties
  <2>4. IsFiniteSet(1 .. Len(s))
    BY <2>3, FS_Interval
  <2> QED  BY <2>3, <2>4 DEF s
<1>4. HalfText(id) => HalfText(id)'
  BY <1>2 DEF HalfText
<1>5. file[id] # None => file'[id] # None
  BY <1>1, ThreadAppends
<1>6. file'[id] = file[id] \/ \E q \in Request : IdOf[q] = id
  <2> SUFFICES ASSUME NEW q \in Request, threads(q), IdOf[q] # id PROVE file'[id] = file[id]
    BY <1>1
  <2> QED  BY DEF WriteLine, OpenLine, CloseLine, WriteFails, Shape, Typed
<1> QED  BY <1>2, <1>3, <1>4, <1>5, <1>6

\* The lines of a type in the log of r.
LinesOf(r, type) == Lines(Opened(IdOf[r]), type)

\* So do the lines of a type, in a log that nobody cut short.
LEMMA LinesGrow ==
  ASSUME OwnIds, Grown, Grown', [Next]_vars, NEW r \in Request, NEW type,
         ~HalfText(IdOf[r])'
  PROVE  /\ ~HalfText(IdOf[r])
         /\ LinesOf(r, type) \subseteq LinesOf(r, type)'
         /\ Cardinality(LinesOf(r, type)) \in Nat
         /\ Cardinality(LinesOf(r, type)') \in Nat
         /\ Cardinality(LinesOf(r, type))
               <= Cardinality(LinesOf(r, type)')
<1> DEFINE s == Opened(IdOf[r])
           L == LinesOf(r, type)
<1>1. IdOf[r] \in RunId
  BY IdAssumption
<1>2. /\ \A i \in DOMAIN s : i \in DOMAIN s' /\ s'[i] = s[i]
      /\ IsFiniteSet(DOMAIN s')
      /\ ~HalfText(IdOf[r])
  BY <1>1, LogGrows DEF Grown
<1>3. L = {i \in Mine(r) : TypeOf(s[i]) = type} /\ IsFiniteSet(L)
  BY <1>2, OwnLines DEF LinesOf
<1>4. /\ Len(events[r]) \in Nat
      /\ \A p \in 1 .. Len(events[r]) : events'[r][p] = events[r][p]
  BY EventsStay DEF Grown
<1>5. \A i \in Mine(r) : i \in DOMAIN s /\ s[i].run = r /\ s[i].pos \in 0 .. Len(events[r])
  <2> SUFFICES ASSUME NEW i \in Mine(r)
               PROVE  i \in DOMAIN s /\ s[i].run = r /\ s[i].pos \in 0 .. Len(events[r])
    OBVIOUS
  <2>1. i \in DOMAIN s /\ s[i].run = r
    BY DEF Mine
  <2>2. s[i].pos \in Nat
    BY <1>1, <2>1, PositionsTyped DEF Grown
  <2>3. s[i].pos <= cursor[r] /\ cursor[r] <= Len(events[r]) /\ cursor[r] \in Nat
    BY DEF Grown, LinesInv, Ordered, Shape, Typed, Local
  <2> QED  BY <1>4, <2>1, <2>2, <2>3
<1>6. L' = {i \in DOMAIN s' : s'[i] # Newline /\ TypeOf(s[i])' = type}
  BY DEF Lines, LinesOf
<1>7. L = {i \in DOMAIN s : s[i] # Newline /\ TypeOf(s[i]) = type}
  BY DEF Lines, LinesOf
<1> HIDE DEF s, L
<1>8. ASSUME NEW i \in L PROVE i \in L'
  <2>1. s'[i] = s[i] /\ i \in DOMAIN s' /\ s[i].run = r /\ s[i].pos \in 0 .. Len(events[r])
    BY <1>2, <1>3, <1>5, <1>8
  <2>2. s'[i] # Newline
    BY <1>7, <1>8, <2>1
  <2>3. TypeOf(s[i])' = TypeOf(s[i])
    BY <1>4, <2>1 DEF TypeOf
  <2> QED  BY <1>3, <1>6, <1>8, <2>1, <2>2, <2>3
<1>9. L \subseteq L'
  BY <1>8
<1>10. IsFiniteSet(L')
  <2>1. L' \subseteq DOMAIN s'
    BY <1>6
  <2> QED  BY <1>2, <2>1, FS_Subset
<1>11. Cardinality(L) <= Cardinality(L')
  BY <1>9, <1>10, FS_Subset
<1>12. Cardinality(L) \in Nat /\ Cardinality(L') \in Nat
  BY <1>3, <1>10, FS_CardinalityType
<1> QED  BY <1>2, <1>9, <1>11, <1>12 DEF s, L

\* A line of r stands for an event of its type in the buffer of r.
LEMMA LineIsEvent ==
  ASSUME OwnIds, Grown, NEW r \in Request, NEW type \in EventType, ~HalfText(IdOf[r]),
         NEW i \in LinesOf(r, type)
  PROVE  /\ i \in Mine(r)
         /\ Opened(IdOf[r])[i].pos \in DOMAIN events[r]
         /\ events[r][Opened(IdOf[r])[i].pos] = type
<1> DEFINE s == Opened(IdOf[r])
<1>1. i \in Mine(r) /\ TypeOf(s[i]) = type
  BY OwnLines DEF LinesOf
<1>2. i \in DOMAIN s /\ s[i].run = r /\ IdOf[r] \in RunId
  BY <1>1, IdAssumption DEF Mine
<1>3. s[i].pos \in Nat
  BY <1>2, PositionsTyped DEF Grown
<1>4. s[i].pos <= cursor[r] /\ cursor[r] <= Len(events[r]) /\ cursor[r] \in Nat
      /\ events[r] \in Seq(EventType)
  BY <1>1 DEF Grown, LinesInv, Ordered, Shape, Typed, Local
<1> HIDE DEF s
<1>5. type # "run_start"
  BY DEF EventType, Logged, Call
<1>6. s[i].pos # 0 /\ events[r][s[i].pos] = type
  BY <1>1, <1>2, <1>5 DEF TypeOf
<1>7. Len(events[r]) \in Nat /\ DOMAIN events[r] = 1 .. Len(events[r])
  BY <1>4, LenProperties
<1>8. s[i].pos \in DOMAIN events[r]
  BY <1>3, <1>4, <1>6, <1>7
<1> QED  BY <1>1, <1>6, <1>8 DEF s

\* No more calls are in the log of r than r has buffered.
LEMMA LinesCounted ==
  ASSUME OwnIds, Grown, NEW r \in Request, NEW type \in EventType, ~HalfText(IdOf[r])
  PROVE  Cardinality(LinesOf(r, type)) <= Count(events[r], type)
<1> DEFINE s == Opened(IdOf[r])
           L == LinesOf(r, type)
           E == {p \in DOMAIN events[r] : events[r][p] = type}
           f == [i \in L |-> s[i].pos]
<1>1. \A i \in L : i \in Mine(r) /\ s[i].pos \in E
  BY LineIsEvent
<1>2. \A i, j \in Mine(r) : i < j => s[i].pos < s[j].pos
  BY DEF Grown, LinesInv, Ordered
<1>3. Mine(r) \subseteq 1 .. Len(s) /\ Len(s) \in Nat
  BY OwnLines
<1>4. IsFiniteSet(E)
  <2>1. events[r] \in Seq(EventType)
    BY DEF Grown, Shape, Typed
  <2>2. E \subseteq 1 .. Len(events[r]) /\ Len(events[r]) \in Nat
    BY <2>1, LenProperties
  <2>3. IsFiniteSet(1 .. Len(events[r]))
    BY <2>2, FS_Interval
  <2> QED  BY <2>2, <2>3, FS_Subset
<1>5. \A p \in E : p \in Nat
  BY DEF Grown, Shape, Typed
<1> HIDE DEF s, L, E
<1>6. \A i, j \in L : s[i].pos = s[j].pos => i = j
  <2> SUFFICES ASSUME NEW i \in L, NEW j \in L, s[i].pos = s[j].pos, i # j PROVE FALSE
    OBVIOUS
  <2>1. i \in Mine(r) /\ j \in Mine(r) /\ s[i].pos \in Nat /\ s[j].pos \in Nat
    BY <1>1, <1>5
  <2>2. i < j \/ j < i
    BY <1>3, <2>1
  <2> QED  BY <1>2, <2>1, <2>2
<1>7. f \in Injection(L, E)
  BY <1>1, <1>6 DEF Injection, IsInjective
<1>8. Cardinality(L) <= Cardinality(E)
  <2> HIDE DEF f
  <2> QED  BY <1>4, <1>7, FS_Injection
<1> QED  BY <1>8 DEF L, E, Count

\* The end of a run is no call.
LEMMA EndIsNoCall ==
  ASSUME NEW s \in Seq(EventType), NEW type \in Call
  PROVE  Count(Append(s, "run_end"), type) = Count(s, type)
<1>1. type # "run_end"
  BY DEF Call
<1>2. {i \in DOMAIN Append(s, "run_end") : Append(s, "run_end")[i] = type}
        = {i \in DOMAIN s : s[i] = type}
  BY <1>1
<1> QED  BY <1>2 DEF Count

Ends(r) == \E p \in DOMAIN events[r] : events[r][p] = "run_end"

\* A run that has ended buffers and counts nothing any more.
LEMMA EndIsFinal ==
  ASSUME Shape, [Next]_vars, NEW r \in Request
  PROVE  /\ Ends(r) => UNCHANGED <<events[r], counted[r]>>
         /\ Ends(r)' /\ ~Ends(r) => Finish(r)
<1>1. /\ events \in [Request -> Seq(EventType)]
      /\ counted \in [Request -> [llm : Nat, tool : Nat]]
      /\ events[r] \in Seq(EventType)
  BY DEF Shape, Typed
<1>2. Ends(r) => phase[r] \in {"persisting", "done"}
  <2>1. DOMAIN events[r] = 1 .. Len(events[r])
    BY <1>1
  <2> QED  BY <2>1 DEF Ends, Shape, Local
<1>3. ASSUME NEW q \in Request, Finish(q)
      PROVE  UNCHANGED <<events[r], counted[r]>> \/ (q = r /\ ~Ends(r))
  <2>1. CASE q # r
    BY <1>1, <1>3, <2>1 DEF Finish
  <2>2. CASE q = r
    BY <1>2, <1>3, <2>2 DEF Finish
  <2> QED  BY <2>1, <2>2
<1>4. ASSUME NEW q \in Request, NEW type \in Logged, Buffer(q, type)
      PROVE  /\ Ends(r) => UNCHANGED <<events[r], counted[r]>>
             /\ Ends(r)' => Ends(r)
  <2>1. CASE q # r
    BY <1>1, <1>4, <2>1 DEF Buffer, Ends
  <2>2. CASE q = r
    <3>1. ~Ends(r)
      BY <1>2, <1>4, <2>2 DEF Buffer
    <3>2. events'[r] = Append(events[r], type) /\ type # "run_end"
      BY <1>1, <1>4, <2>2 DEF Buffer, Logged, Call
    <3>3. ~Ends(r)'
      BY <1>1, <3>1, <3>2 DEF Ends
    <3> QED  BY <3>1, <3>3
  <2> QED  BY <2>1, <2>2
<1>5. \/ UNCHANGED <<events, counted>>
      \/ \E q \in Request : Finish(q) \/ \E type \in Logged : Buffer(q, type)
  <2>1. ASSUME NEW id \in RunId, Read(id) PROVE UNCHANGED <<events, counted>>
    BY <2>1 DEF Read
  <2>2. CASE Crash
    BY <2>2 DEF Crash
  <2>3. ASSUME NEW q \in Request, Begin(q) \/ Abandon(q) PROVE UNCHANGED <<events, counted>>
    BY <2>3 DEF Begin, Abandon
  <2>4. ASSUME NEW q \in Request, WriteLine(q) \/ OpenLine(q) \/ CloseLine(q) \/ WriteFails(q)
        PROVE  UNCHANGED <<events, counted>>
    BY <2>4 DEF WriteLine, OpenLine, CloseLine, WriteFails
  <2> QED  BY <2>1, <2>2, <2>3, <2>4 DEF Next, vars
<1>6. CASE UNCHANGED <<events, counted>>
  BY <1>6 DEF Ends
<1>7. CASE \E q \in Request : Finish(q)
  <2>1. PICK q \in Request : Finish(q)
    BY <1>7
  <2>2. CASE UNCHANGED <<events[r], counted[r]>>
    BY <2>2 DEF Ends
  <2>3. CASE q = r /\ ~Ends(r)
    BY <2>1, <2>3
  <2> QED  BY <1>3, <2>1, <2>2, <2>3
<1> QED  BY <1>4, <1>5, <1>6, <1>7

(* What a read of the log of r has reported stays true of that log: the    *)
(* lines it counted are still there, and what it took from run_end is what *)
(* run_end reports for good, which is no less than the calls buffered.     *)
Reported(r) ==
  LET known == seen[IdOf[r]] IN
  known.status = "read" /\ ~HalfText(IdOf[r]) =>
    /\ known.query \in {None, r} /\ (known.query = r => LinesOf(r, "run_start") # {})
    /\ known.ended \in {None, r}
    /\ known.llm \in Nat /\ known.tool \in Nat
    /\ known.ended = None => /\ known.llm <= Cardinality(LinesOf(r, "llm_call"))
                             /\ known.tool <= Cardinality(LinesOf(r, "tool_call"))
    /\ known.ended = r => /\ LinesOf(r, "run_end") # {}
                          /\ known.llm = counted[r].llm /\ known.tool = counted[r].tool

Counted(r) ==
  Ends(r) => /\ counted[r].llm >= Count(events[r], "llm_call")
             /\ counted[r].tool >= Count(events[r], "tool_call")

Advance ==
  /\ \A id \in RunId : /\ file[id] # None => \E r \in Request : IdOf[r] = id
                       /\ seen[id].status = "read" => /\ file[id] # None
                                                      /\ seen[id].llm \in Nat
                                                      /\ seen[id].tool \in Nat
  /\ \A r \in Request : Reported(r) /\ Counted(r)

\* What a read of the log of r returns.
LEMMA ReadReports ==
  ASSUME OwnIds, Grown, NEW r \in Request, ~HalfText(IdOf[r]),
         Restored(IdOf[r]).status = "read"
  PROVE  LET known == Restored(IdOf[r]) IN
         /\ known.query = IF LinesOf(r, "run_start") = {} THEN None ELSE r
         /\ known.ended = IF LinesOf(r, "run_end") = {} THEN None ELSE r
         /\ known.llm \in Nat /\ known.tool \in Nat
         /\ known.ended = None => /\ known.llm = Cardinality(LinesOf(r, "llm_call"))
                                  /\ known.tool = Cardinality(LinesOf(r, "tool_call"))
         /\ known.ended = r => known.llm = counted[r].llm /\ known.tool = counted[r].tool
<1> DEFINE s == Opened(IdOf[r])
<1>1. /\ Last(s, "run_start") = IF LinesOf(r, "run_start") = {} THEN None ELSE r
      /\ Last(s, "run_end") = IF LinesOf(r, "run_end") = {} THEN None ELSE r
  BY LastIsOwn DEF LinesOf
<1>2. IsFiniteSet(LinesOf(r, "llm_call")) /\ IsFiniteSet(LinesOf(r, "tool_call"))
  BY OwnLines DEF LinesOf
<1>3. /\ Cardinality(LinesOf(r, "llm_call")) \in Nat
      /\ Cardinality(LinesOf(r, "tool_call")) \in Nat
  BY <1>2, FS_CardinalityType
<1>4. Restored(IdOf[r]) =
        [status |-> "read", query |-> Last(s, "run_start"), ended |-> Last(s, "run_end"),
         llm    |-> IF Last(s, "run_end") = None THEN Cardinality(LinesOf(r, "llm_call"))
                    ELSE counted[Last(s, "run_end")].llm,
         tool   |-> IF Last(s, "run_end") = None THEN Cardinality(LinesOf(r, "tool_call"))
                    ELSE counted[Last(s, "run_end")].tool]
  <2>1. file[IdOf[r]] # None /\ Readable(IdOf[r])
    BY DEF Restored, Unread
  <2> QED  BY <2>1 DEF Restored, LinesOf
<1>5. counted[r].llm \in Nat /\ counted[r].tool \in Nat /\ r # None
  BY IdAssumption DEF Grown, Shape, Typed
<1> DEFINE ended == Last(s, "run_end")
<1>6. ended = IF LinesOf(r, "run_end") = {} THEN None ELSE r
  BY <1>1
<1> HIDE DEF s, ended
<1>7. CASE ended = None
  BY <1>1, <1>3, <1>4, <1>5, <1>6, <1>7 DEF ended
<1>8. CASE ended = r
  BY <1>1, <1>4, <1>5, <1>6, <1>8 DEF ended
<1> QED  BY <1>6, <1>7, <1>8

\* A read gives what it has found, and every other step leaves it true.
LEMMA AdvanceStep ==
  ASSUME OwnIds
  PROVE  Grown /\ Grown' /\ Advance /\ [Next]_vars => Advance'
<1> SUFFICES ASSUME Grown, Grown', Advance, [Next]_vars PROVE Advance'
  OBVIOUS
<1>1. \A id \in RunId : /\ file[id] # None => file'[id] # None
                        /\ file'[id] = file[id] \/ \E q \in Request : IdOf[q] = id
  BY LogGrows DEF Grown
<1>2. ASSUME NEW r \in Request PROVE Counted(r)'
  <2>1. /\ Ends(r) => UNCHANGED <<events[r], counted[r]>>
        /\ Ends(r)' /\ ~Ends(r) => Finish(r)
    BY EndIsFinal DEF Grown
  <2>2. Counted(r)
    BY DEF Advance
  <2>3. CASE Ends(r)
    BY <2>1, <2>2, <2>3 DEF Counted, Count
  <2>4. CASE Finish(r)
    <3>1. PICK open \in Call \cup {None} : counted' = [counted EXCEPT ![r] = Counts(r, open)]
      BY <2>4 DEF Finish
    <3>2. events'[r] = Append(events[r], "run_end") /\ counted'[r] = Counts(r, open)
          /\ events[r] \in Seq(EventType)
      BY <2>4, <3>1 DEF Finish, Grown, Shape, Typed
    <3>3. Count(events[r], "llm_call") \in Nat /\ Count(events[r], "tool_call") \in Nat
      BY <3>2, CountType
    <3>4. /\ Count(Append(events[r], "run_end"), "llm_call") = Count(events[r], "llm_call")
          /\ Count(Append(events[r], "run_end"), "tool_call") = Count(events[r], "tool_call")
      BY <3>2, EndIsNoCall DEF Call
    <3>5. /\ Count(events[r], "llm_call")' = Count(events[r], "llm_call")
          /\ Count(events[r], "tool_call")' = Count(events[r], "tool_call")
      BY <3>2, <3>4 DEF Count
    <3>6. /\ counted'[r].llm >= Count(events[r], "llm_call")
          /\ counted'[r].tool >= Count(events[r], "tool_call")
      BY <3>2, <3>3 DEF Counts
    <3> QED  BY <3>5, <3>6 DEF Counted
  <2> QED  BY <2>1, <2>3, <2>4 DEF Counted
<1>3. UNCHANGED seen \/ \E id \in RunId : Read(id)
  <2>1. CASE Crash
    BY <2>1 DEF Crash
  <2>2. ASSUME NEW r \in Request, NEW type \in Logged, Buffer(r, type) PROVE UNCHANGED seen
    BY <2>2 DEF Buffer
  <2>3. ASSUME NEW r \in Request, Begin(r) \/ Finish(r) \/ Abandon(r) PROVE UNCHANGED seen
    BY <2>3 DEF Begin, Finish, Abandon
  <2>4. ASSUME NEW r \in Request, WriteLine(r) \/ OpenLine(r) \/ CloseLine(r) \/ WriteFails(r)
        PROVE  UNCHANGED seen
    BY <2>4 DEF WriteLine, OpenLine, CloseLine, WriteFails
  <2> QED  BY <2>1, <2>2, <2>3, <2>4 DEF Next, vars
<1>4. ASSUME NEW r \in Request, seen'[IdOf[r]] = seen[IdOf[r]] PROVE Reported(r)'
  <2> DEFINE known == seen[IdOf[r]]
  <2> SUFFICES ASSUME known.status = "read", ~HalfText(IdOf[r])' PROVE Reported(r)'
    BY <1>4 DEF Reported
  <2>1. \A type : /\ LinesOf(r, type) \subseteq LinesOf(r, type)'
                  /\ Cardinality(LinesOf(r, type)) \in Nat
                  /\ Cardinality(LinesOf(r, type)') \in Nat
                  /\ Cardinality(LinesOf(r, type)) <= Cardinality(LinesOf(r, type)')
    BY LinesGrow
  <2>2. ~HalfText(IdOf[r])
    BY LinesGrow
  <2>3. /\ known.query \in {None, r} /\ (known.query = r => LinesOf(r, "run_start") # {})
        /\ known.ended \in {None, r}
        /\ known.llm \in Nat /\ known.tool \in Nat
        /\ known.ended = None => /\ known.llm <= Cardinality(LinesOf(r, "llm_call"))
                                 /\ known.tool <= Cardinality(LinesOf(r, "tool_call"))
        /\ known.ended = r => /\ LinesOf(r, "run_end") # {}
                              /\ known.llm = counted[r].llm /\ known.tool = counted[r].tool
    BY <2>2 DEF Advance, Reported
  <2>4. LinesOf(r, "run_end") # {} => counted'[r] = counted[r]
    <3> SUFFICES ASSUME NEW i \in LinesOf(r, "run_end") PROVE counted'[r] = counted[r]
      OBVIOUS
    <3>1. "run_end" \in EventType
      BY DEF EventType
    <3>2. Ends(r)
      BY <2>2, <3>1, LineIsEvent DEF Ends
    <3> QED  BY <3>2, EndIsFinal DEF Grown
  <2> HIDE DEF known
  <2>5. /\ LinesOf(r, "run_start") # {} => LinesOf(r, "run_start")' # {}
        /\ LinesOf(r, "run_end") # {} => LinesOf(r, "run_end")' # {}
    BY <2>1
  <2>6. known.ended = None => /\ known.llm <= Cardinality(LinesOf(r, "llm_call")')
                              /\ known.tool <= Cardinality(LinesOf(r, "tool_call")')
    BY <2>1, <2>3
  <2>7. /\ known.query \in {None, r} /\ (known.query = r => LinesOf(r, "run_start")' # {})
        /\ known.ended \in {None, r}
        /\ known.llm \in Nat /\ known.tool \in Nat
        /\ known.ended = r => /\ LinesOf(r, "run_end")' # {}
                              /\ known.llm = counted'[r].llm /\ known.tool = counted'[r].tool
    BY <2>3, <2>4, <2>5
  <2>8. seen'[IdOf[r]] = known
    BY <1>4 DEF known
  <2> QED  BY <2>6, <2>7, <2>8 DEF Reported
<1>5. CASE UNCHANGED seen
  <2>1. \A r \in Request : Reported(r)'
    BY <1>4, <1>5
  <2> QED  BY <1>1, <1>2, <1>5, <2>1 DEF Advance
<1>6. ASSUME NEW id \in RunId, Read(id) PROVE Advance'
  <2>1. /\ UNCHANGED <<file, events, counted>>
        /\ seen'[id] = Restored(id) /\ \A other \in RunId \ {id} : seen'[other] = seen[other]
    BY <1>6 DEF Read, Grown, Shape, Typed
  <2>2. ASSUME NEW r \in Request PROVE Reported(r)'
    <3>1. CASE IdOf[r] # id
      BY <1>4, <2>1, <3>1, IdAssumption
    <3>2. CASE IdOf[r] = id
      <4> DEFINE known == Restored(id)
      <4> SUFFICES ASSUME known.status = "read", ~HalfText(IdOf[r])' PROVE Reported(r)'
        BY <2>1, <3>2 DEF Reported
      <4>1. ~HalfText(IdOf[r])
        BY <2>1 DEF HalfText, Opened
      <4>2. /\ known.query = IF LinesOf(r, "run_start") = {} THEN None ELSE r
            /\ known.ended = IF LinesOf(r, "run_end") = {} THEN None ELSE r
            /\ known.llm \in Nat /\ known.tool \in Nat
            /\ known.ended = None => /\ known.llm = Cardinality(LinesOf(r, "llm_call"))
                                     /\ known.tool = Cardinality(LinesOf(r, "tool_call"))
            /\ known.ended = r => known.llm = counted[r].llm /\ known.tool = counted[r].tool
        BY <3>2, <4>1, ReadReports
      <4>3. \A type : LinesOf(r, type)' = LinesOf(r, type)
        BY <2>1 DEF LinesOf, Lines, Opened, TypeOf
      <4>4. r # None /\ seen'[IdOf[r]] = known
        BY <2>1, <3>2, IdAssumption
      <4>5. \A type : Cardinality(LinesOf(r, type)) \in Nat
        BY <4>1, OwnLines, FS_CardinalityType DEF LinesOf
      <4> HIDE DEF known
      <4> QED  BY <2>1, <4>2, <4>3, <4>4, <4>5 DEF Reported
    <3> QED  BY <3>1, <3>2
  <2>3. Restored(id).status = "read" => /\ file[id] # None
                                        /\ Restored(id).llm \in Nat
                                        /\ Restored(id).tool \in Nat
    <3> SUFFICES ASSUME Restored(id).status = "read"
                 PROVE  /\ file[id] # None
                        /\ Restored(id).llm \in Nat /\ Restored(id).tool \in Nat
      OBVIOUS
    <3>1. file[id] # None /\ ~HalfText(id)
      BY DEF Restored, Unread, Readable
    <3>2. PICK r \in Request : IdOf[r] = id
      BY <3>1 DEF Advance
    <3> QED  BY <3>1, <3>2, ReadReports
  <2>4. \A other \in RunId : /\ file'[other] # None => \E r \in Request : IdOf[r] = other
                             /\ seen'[other].status = "read" => /\ file'[other] # None
                                                                /\ seen'[other].llm \in Nat
                                                                /\ seen'[other].tool \in Nat
    BY <2>1, <2>3 DEF Advance
  <2> QED  BY <1>2, <2>2, <2>4 DEF Advance
<1> QED  BY <1>3, <1>5, <1>6

\* With ids of their own successive reads of a log only add to what was known:
\* they succeed while no failed write has left a text unended, and a read that
\* succeeds keeps the query and the end and drops no count, not even when run_end
\* takes over from counting.
THEOREM ReadsAddUp ==
  ASSUME OwnIds
  PROVE  Spec => ReadsOnlyAdvance
<1> DEFINE Step(id) ==
      seen[id].status = "read" =>
        /\ seen'[id].status = "read" \/ id \in cut
        /\ seen'[id].status = "read" =>
             /\ seen[id].query # None => seen'[id].query = seen[id].query
             /\ seen[id].ended # None => seen'[id].ended = seen[id].ended
             /\ seen'[id].llm >= seen[id].llm /\ seen'[id].tool >= seen[id].tool
<1>1. Init => Advance
  <2> SUFFICES ASSUME Init PROVE Advance
    OBVIOUS
  <2>1. \A id \in RunId : file[id] = None /\ seen[id].status = "never"
    BY DEF Init, Unread
  <2>2. \A r \in Request : ~Ends(r) /\ IdOf[r] \in RunId
    BY IdAssumption DEF Init, Ends
  <2> QED  BY <2>1, <2>2 DEF Advance, Reported, Counted
<1>2. Grown /\ Grown' /\ Advance /\ [Next]_vars => Advance'
  BY AdvanceStep
<1>3. Grown /\ Neat /\ Advance /\ [Next]_vars => \A id \in RunId : Step(id)
  <2> SUFFICES ASSUME Grown, Neat, Advance, [Next]_vars, NEW id \in RunId,
                      seen[id].status = "read"
               PROVE  Step(id)
    OBVIOUS
  <2>1. PICK r \in Request : IdOf[r] = id
    BY DEF Advance
  <2>2. Reported(r) /\ Counted(r)
    BY DEF Advance
  <2> DEFINE known == seen[id]
  <2>3. ASSUME ~HalfText(id)
        PROVE
        /\ known.query \in {None, r} /\ (known.query = r => LinesOf(r, "run_start") # {})
        /\ known.ended \in {None, r}
        /\ known.llm \in Nat /\ known.tool \in Nat
        /\ known.ended = None => /\ known.llm <= Cardinality(LinesOf(r, "llm_call"))
                                 /\ known.tool <= Cardinality(LinesOf(r, "tool_call"))
        /\ known.ended = r => /\ LinesOf(r, "run_end") # {}
                              /\ known.llm = counted[r].llm /\ known.tool = counted[r].tool
    BY <2>1, <2>2, <2>3 DEF Reported
  <2>4. CASE seen'[id] = seen[id]
    BY <2>4 DEF Advance
  <2> HIDE DEF known
  <2>5. CASE Read(id) /\ Restored(id).status # "read"
    <3>1. file[id] # None
      BY DEF Advance
    <3>2. id \in cut
      BY <2>5, <3>1 DEF Restored, Neat, Joined
    <3>3. seen'[id] = Restored(id)
      BY <2>5 DEF Read, Grown, Shape, Typed
    <3> QED  BY <2>5, <3>2, <3>3
  <2>6. CASE Read(id) /\ Restored(id).status = "read"
    <3> DEFINE new == Restored(id)
    <3>1. new.status = "read" /\ ~HalfText(id)
      BY <2>6 DEF Restored, Unread, Readable
    <3>2. /\ new.query = IF LinesOf(r, "run_start") = {} THEN None ELSE r
          /\ new.ended = IF LinesOf(r, "run_end") = {} THEN None ELSE r
          /\ new.llm \in Nat /\ new.tool \in Nat
          /\ new.ended = None => /\ new.llm = Cardinality(LinesOf(r, "llm_call"))
                                 /\ new.tool = Cardinality(LinesOf(r, "tool_call"))
          /\ new.ended = r => new.llm = counted[r].llm /\ new.tool = counted[r].tool
      BY <2>1, <3>1, ReadReports
    <3>3. seen'[id] = new
      BY <2>6 DEF Read, Grown, Shape, Typed
    <3>4. r # None
      BY IdAssumption
    <3> HIDE DEF new
    <3>5. new.llm >= known.llm /\ new.tool >= known.tool
      <4>1. CASE LinesOf(r, "run_end") = {}
        BY <2>3, <3>1, <3>2, <3>4, <4>1
      <4>2. CASE LinesOf(r, "run_end") # {} /\ known.ended = r
        BY <2>3, <3>1, <3>2, <4>2
      <4>3. CASE LinesOf(r, "run_end") # {} /\ known.ended = None
        <5>1. Ends(r)
          <6>1. "run_end" \in EventType
            BY DEF EventType
          <6> QED  BY <2>1, <3>1, <4>3, <6>1, LineIsEvent DEF Ends
        <5>2. /\ counted[r].llm >= Count(events[r], "llm_call")
              /\ counted[r].tool >= Count(events[r], "tool_call")
          BY <2>2, <5>1 DEF Counted
        <5>3. "llm_call" \in EventType /\ "tool_call" \in EventType
          BY DEF EventType, Logged, Call
        <5>4. /\ Cardinality(LinesOf(r, "llm_call")) <= Count(events[r], "llm_call")
              /\ Cardinality(LinesOf(r, "tool_call")) <= Count(events[r], "tool_call")
          BY <2>1, <3>1, <5>3, LinesCounted
        <5>5. events[r] \in Seq(EventType)
          BY DEF Grown, Shape, Typed
        <5>6. Count(events[r], "llm_call") \in Nat /\ Count(events[r], "tool_call") \in Nat
          BY <5>5, CountType
        <5>7. \A type : IsFiniteSet(LinesOf(r, type))
          BY <2>1, <3>1, OwnLines DEF LinesOf
        <5>8. /\ Cardinality(LinesOf(r, "llm_call")) \in Nat
              /\ Cardinality(LinesOf(r, "tool_call")) \in Nat
          BY <5>7, FS_CardinalityType
        <5>9. new.llm = counted[r].llm /\ new.tool = counted[r].tool
          BY <3>2, <4>3
        <5> QED  BY <2>3, <3>1, <3>2, <4>3, <5>2, <5>4, <5>6, <5>8, <5>9
      <4> QED  BY <2>3, <3>1, <4>1, <4>2, <4>3
    <3>6. known.query # None => new.query = known.query
      BY <2>3, <3>1, <3>2
    <3>7. known.ended # None => new.ended = known.ended
      BY <2>3, <3>1, <3>2
    <3> QED  BY <3>1, <3>3, <3>5, <3>6, <3>7 DEF known, new
  <2>7. seen'[id] = seen[id] \/ Read(id)
    <3>1. CASE Crash
      BY <3>1 DEF Crash
    <3>2. ASSUME NEW q \in Request, NEW type \in Logged, Buffer(q, type) PROVE UNCHANGED seen
      BY <3>2 DEF Buffer
    <3>3. ASSUME NEW q \in Request, Begin(q) \/ Finish(q) \/ Abandon(q) PROVE UNCHANGED seen
      BY <3>3 DEF Begin, Finish, Abandon
    <3>4. ASSUME NEW q \in Request, WriteLine(q) \/ OpenLine(q) \/ CloseLine(q) \/ WriteFails(q)
          PROVE  UNCHANGED seen
      BY <3>4 DEF WriteLine, OpenLine, CloseLine, WriteFails
    <3>5. ASSUME NEW other \in RunId \ {id}, Read(other) PROVE seen'[id] = seen[id]
      BY <3>5 DEF Read, Grown, Shape, Typed
    <3> QED  BY <3>1, <3>2, <3>3, <3>4, <3>5 DEF Next, vars
  <2> QED  BY <2>4, <2>5, <2>6, <2>7
<1>4. Grown /\ Neat /\ Advance /\ [Next]_vars => [\A id \in RunId : Step(id)]_vars
  BY <1>3
<1> HIDE DEF Step
<1>5. Spec => [][\A id \in RunId : Step(id)]_vars
  BY <1>1, <1>2, <1>4, GrownHolds, NeatHolds, PTL DEF Spec
<1> QED  BY <1>5 DEF ReadsOnlyAdvance, Step
=============================================================================
