------------------------------- MODULE RunLog -------------------------------
(***************************************************************************)
(* The run log on disk: what invocations of the workflow write to          *)
(* runs/<run_id>.jsonl and what GET /api/v1/runs/<run_id> makes of it.     *)
(*                                                                         *)
(* A line is written by a worker thread while its invocation awaits it;    *)
(* the invocation may be cancelled and leave the thread behind.  A line    *)
(* that does not fit the buffer of the file reaches it in two appends: the *)
(* JSON text first, its newline when the file is closed.  Every kind of    *)
(* line may be that long (a query, an error message, the quotes of a       *)
(* validation), so a line is written in one append or in two.  A write may *)
(* fail at any point of a line.  Invocations that inherited the same       *)
(* X-Run-Id share one file.                                                *)
(*                                                                         *)
(* Line pos of invocation r stands for the event at pos in r's buffer;     *)
(* pos 0 is run_start, written before the run, the others follow it.       *)
(***************************************************************************)
EXTENDS Integers, Sequences, FiniteSets

CONSTANTS
  Request,     \* invocations of the workflow
  RunId,
  IdOf,        \* IdOf[r]: generated for r, or inherited from its request
  MaxEvents,   \* bound on the events a run logs before run_end
  MaxCrashes,  \* bound on crashes of the process
  None

\* What an append leaves: the text of a run's line, a newline, or half a text.
Piece == [run : Request \cup {None}, pos : Nat]

ASSUME IdAssumption == IdOf \in [Request -> RunId] /\ None \notin Request \cup Seq(Piece)
ASSUME BoundAssumption == MaxEvents \in Nat /\ MaxCrashes \in Nat

VARIABLES
  phase,      \* phase[r]: where invocation r is
  events,     \* events[r]: ctx.events, by type
  counted,    \* counted[r]: the llm and tool calls its run_end reports
  cursor,     \* cursor[r]: the event being written
  job,        \* job[r]: the thread writing it: "none", "queued" or "open"
  file,       \* file[id]: the appended pieces, None while there is no file
  seen,       \* seen[id]: what the latest read of the log returned
  disturbed,  \* invocations cancelled, crashed or denied a write
  cut,        \* history: logs in which a failed write left a text unended
  crashes

vars == <<phase, events, counted, cursor, job, file, seen, disturbed, cut, crashes>>

Call == {"llm_call", "tool_call"}

\* What the nodes put into the buffer: calls, and the events of their stages.
Logged == Call \cup {"stage"}

Newline == [run |-> None, pos |-> 0]
Torn == [run |-> None, pos |-> 1]
Text(r) == [run |-> r, pos |-> cursor[r]]

TypeOf(piece) == IF piece.pos = 0 THEN "run_start" ELSE events[piece.run][piece.pos]

Opened(id) == IF file[id] = None THEN <<>> ELSE file[id]

Count(s, type) == Cardinality({i \in DOMAIN s : s[i] = type})

Unread == [status |-> "never", query |-> None, ended |-> None, llm |-> 0, tool |-> 0]

Init ==
  /\ phase = [r \in Request |-> "new"]
  /\ events = [r \in Request |-> <<>>]
  /\ counted = [r \in Request |-> [llm |-> 0, tool |-> 0]]
  /\ cursor = [r \in Request |-> 0]
  /\ job = [r \in Request |-> "none"]
  /\ file = [id \in RunId |-> None]
  /\ seen = [id \in RunId |-> Unread]
  /\ disturbed = {} /\ cut = {} /\ crashes = 0

-----------------------------------------------------------------------------
(* The invocation.                                                         *)

\* The awaited write of r is over: the run starts, the next of the first last
\* events is written, or the call is over.  Nobody waits for the thread of an
\* abandoned call.
Continue(r, last) ==
  \/ /\ phase[r] = "starting" /\ phase' = [phase EXCEPT ![r] = "running"]
     /\ job' = [job EXCEPT ![r] = "none"] /\ UNCHANGED cursor
  \/ /\ phase[r] = "persisting" /\ cursor[r] < last
     /\ cursor' = [cursor EXCEPT ![r] = @ + 1] /\ job' = [job EXCEPT ![r] = "queued"]
     /\ UNCHANGED phase
  \/ /\ phase[r] = "persisting" /\ cursor[r] >= last
     /\ phase' = [phase EXCEPT ![r] = "done"]
     /\ job' = [job EXCEPT ![r] = "none"] /\ UNCHANGED cursor
  \/ /\ phase[r] = "done" /\ job' = [job EXCEPT ![r] = "none"]
     /\ UNCHANGED <<phase, cursor>>

\* Mutants: the loop over the buffer runs one event too far, or not to its end.
ResumePast(r) == Continue(r, Len(events[r]) + 1)
ResumeShort(r) == Continue(r, Len(events[r]) - 1)

Resume(r) == Continue(r, Len(events[r]))

\* run_start goes to the file before anything else happens.
Begin(r) ==
  /\ phase[r] = "new"
  /\ phase' = [phase EXCEPT ![r] = "starting"]
  /\ job' = [job EXCEPT ![r] = "queued"]
  /\ UNCHANGED <<events, counted, cursor, file, seen, disturbed, cut, crashes>>

\* A call is counted, or a stage is through, and its event put into the buffer.
Buffer(r, type) ==
  /\ phase[r] = "running" /\ Len(events[r]) < MaxEvents
  /\ events' = [events EXCEPT ![r] = Append(@, type)]
  /\ UNCHANGED <<phase, counted, cursor, job, file, seen, disturbed, cut, crashes>>

\* Mutant: run_end reports the calls left open instead of all calls.
CountsOpen(r, open) == [llm |-> IF open = "llm_call" THEN 1 ELSE 0,
                        tool |-> IF open = "tool_call" THEN 1 ELSE 0]

\* The counters, which include the call an interruption left open.
Counts(r, open) ==
  [llm  |-> Count(events[r], "llm_call") + (IF open = "llm_call" THEN 1 ELSE 0),
   tool |-> Count(events[r], "tool_call") + (IF open = "tool_call" THEN 1 ELSE 0)]

\* The finally block, reached with the graph finished, failed, timed out or
\* cancelled: run_end joins the buffer and the buffer is written in order.
Finish(r) ==
  /\ phase[r] = "running"
  /\ \E open \in Call \cup {None} : counted' = [counted EXCEPT ![r] = Counts(r, open)]
  /\ events' = [events EXCEPT ![r] = Append(@, "run_end")]
  /\ phase' = [phase EXCEPT ![r] = "persisting"]
  /\ cursor' = [cursor EXCEPT ![r] = 1]
  /\ job' = [job EXCEPT ![r] = "queued"]
  /\ UNCHANGED <<file, seen, disturbed, cut, crashes>>

\* A cancellation while a write is awaited ends the call; a thread that has
\* not started is dropped with it, one that has is not.
Abandon(r) ==
  /\ phase[r] \in {"starting", "persisting"}
  /\ phase' = [phase EXCEPT ![r] = "done"]
  /\ \/ job' = job
     \/ job[r] = "queued" /\ job' = [job EXCEPT ![r] = "none"]
  /\ disturbed' = disturbed \cup {r}
  /\ UNCHANGED <<events, counted, cursor, file, seen, cut, crashes>>

-----------------------------------------------------------------------------
(* The worker thread.                                                      *)

\* Mutants: the newline is left to the next writer; a retry repeats the line.
LineBare(r) == <<Text(r)>>
LineTwice(r) == <<Text(r), Newline, Text(r), Newline>>

Line(r) == <<Text(r), Newline>>

WriteLine(r) ==
  /\ job[r] = "queued"
  /\ file' = [file EXCEPT ![IdOf[r]] = Opened(IdOf[r]) \o Line(r)]
  /\ Resume(r)
  /\ UNCHANGED <<events, counted, seen, disturbed, cut, crashes>>

OpenLine(r) ==
  /\ job[r] = "queued"
  /\ file' = [file EXCEPT ![IdOf[r]] = Append(Opened(IdOf[r]), Text(r))]
  /\ job' = [job EXCEPT ![r] = "open"]
  /\ UNCHANGED <<phase, events, counted, cursor, seen, disturbed, cut, crashes>>

CloseLine(r) ==
  /\ job[r] = "open"
  /\ file' = [file EXCEPT ![IdOf[r]] = Append(@, Newline)]
  /\ Resume(r)
  /\ UNCHANGED <<events, counted, seen, disturbed, cut, crashes>>

\* The write raises: nothing, half a text or a text without its newline is left
\* of a line that was not open, and no newline of one that was.  Without
\* run_start there is no run; any other event is given up and the next one is
\* written behind whatever is left.
WriteFails(r) ==
  /\ job[r] # "none"
  /\ \E left \in IF job[r] = "open" THEN {<<>>} ELSE {<<>>, <<Torn>>, <<Text(r)>>} :
       /\ \/ file' = [file EXCEPT ![IdOf[r]] = Opened(IdOf[r]) \o left]
          \/ left = <<>> /\ UNCHANGED file
       /\ cut' = IF job[r] = "open" \/ left # <<>> THEN cut \cup {IdOf[r]} ELSE cut
  /\ IF phase[r] = "starting"
       THEN /\ phase' = [phase EXCEPT ![r] = "done"] /\ job' = [job EXCEPT ![r] = "none"]
            /\ UNCHANGED cursor
       ELSE Resume(r)
  /\ disturbed' = disturbed \cup {r}
  /\ UNCHANGED <<events, counted, seen, crashes>>

-----------------------------------------------------------------------------
(* The environment and the reader.                                         *)

InFlight == {r \in Request : phase[r] \notin {"new", "done"} \/ job[r] # "none"}

\* The process dies; what threads had not appended is lost.
Crash ==
  /\ crashes < MaxCrashes
  /\ phase' = [r \in Request |-> IF r \in InFlight THEN "done" ELSE phase[r]]
  /\ job' = [r \in Request |-> "none"]
  /\ disturbed' = disturbed \cup InFlight
  /\ crashes' = crashes + 1
  /\ UNCHANGED <<events, counted, cursor, file, seen, cut>>

HalfText(id) == \E i \in DOMAIN Opened(id) : Opened(id)[i] = Torn

\* Two texts without a newline between them are one line that is no JSON, and
\* half a text is none either.
Readable(id) ==
  LET s == Opened(id) IN
  ~HalfText(id) /\ \A i \in 1 .. Len(s) - 1 : s[i] = Newline \/ s[i + 1] = Newline

Lines(s, type) == {i \in DOMAIN s : s[i] # Newline /\ TypeOf(s[i]) = type}

Last(s, type) ==
  IF Lines(s, type) = {} THEN None
  ELSE s[CHOOSE i \in Lines(s, type) : \A j \in Lines(s, type) : j <= i].run

\* The query is the one of the last run_start and the aggregates are those of
\* the last run_end; without run_end the calls are counted one by one.
Restored(id) ==
  LET s == Opened(id)
      ended == Last(s, "run_end")
  IN  IF file[id] = None THEN [Unread EXCEPT !.status = "absent"]
      ELSE IF ~Readable(id) THEN [Unread EXCEPT !.status = "unreadable"]
      ELSE [status |-> "read",
            query  |-> Last(s, "run_start"),
            ended  |-> ended,
            llm    |-> IF ended = None THEN Cardinality(Lines(s, "llm_call")) ELSE counted[ended].llm,
            tool   |-> IF ended = None THEN Cardinality(Lines(s, "tool_call")) ELSE counted[ended].tool]

Read(id) ==
  /\ seen' = [seen EXCEPT ![id] = Restored(id)]
  /\ UNCHANGED <<phase, events, counted, cursor, job, file, disturbed, cut, crashes>>

Next ==
  \/ \E r \in Request :
       \/ Begin(r) \/ Finish(r) \/ Abandon(r)
       \/ \E type \in Logged : Buffer(r, type)
       \/ WriteLine(r) \/ OpenLine(r) \/ CloseLine(r) \/ WriteFails(r)
  \/ Crash
  \/ \E id \in RunId : Read(id)

Spec == Init /\ [][Next]_vars
-----------------------------------------------------------------------------
(* What must hold.                                                         *)

TypeOK ==
  /\ phase \in [Request -> {"new", "starting", "running", "persisting", "done"}]
  /\ events \in [Request -> Seq(Logged \cup {"run_end"})]
  /\ counted \in [Request -> [llm : Nat, tool : Nat]]
  /\ \A r \in Request : cursor[r] \in 0 .. Len(events[r])
  /\ job \in [Request -> {"none", "queued", "open"}]
  /\ DOMAIN file = RunId /\ DOMAIN seen = RunId
  /\ \A id \in RunId : \A i \in DOMAIN Opened(id) :
        Opened(id)[i] \in {Newline, Torn} \/ Opened(id)[i].pos \in 0 .. Len(events[Opened(id)[i].run])
  /\ disturbed \subseteq Request /\ cut \subseteq RunId /\ crashes \in 0 .. MaxCrashes

\* Where run r stands in its file: the positions of its lines, in file order.
Written(r) ==
  LET s == Opened(IdOf[r]) IN {<<i, s[i].pos>> : i \in {j \in DOMAIN s : s[j].run = r}}

\* The lines of a run are in the order its events happened and none is there
\* twice, although threads write them and may outlive the call that sent them.
LinesKeepTheirOrder ==
  \A r \in Request : \A x, y \in Written(r) : x[1] < y[1] => x[2] < y[2]

\* A run that nothing disturbed has its whole buffer in the file at the end,
\* run_start first and run_end last, whatever other runs do.
UndisturbedRunIsComplete ==
  \A r \in Request : phase[r] = "done" /\ r \notin disturbed =>
    {x[2] : x \in Written(r)} = 0 .. Len(events[r])

\* With ids of their own only a failed write that left a text unended makes a log
\* unreadable: no read that comes between a text and its newline, no crash and no
\* cancellation, whose threads write on, and no write that left nothing.
ReadsSucceed == \A id \in RunId : seen[id].status = "unreadable" => id \in cut

\* With ids of their own successive reads of a run only add to what was known.
\* While no failed write has left a text unended they succeed; and a read that
\* succeeds keeps the query and the end and drops no count, not even when
\* run_end takes over from counting events, some of which were never written.
ReadsOnlyAdvance ==
  [][\A id \in RunId :
       seen[id].status = "read" =>
         /\ seen'[id].status = "read" \/ id \in cut
         /\ seen'[id].status = "read" =>
              /\ seen[id].query # None => seen'[id].query = seen[id].query
              /\ seen[id].ended # None => seen'[id].ended = seen[id].ended
              /\ seen'[id].llm >= seen[id].llm /\ seen'[id].tool >= seen[id].tool]_vars

\* Claimed: "We rely on run_id uniqueness" (run_repo.py) for the "Full log for a
\* run" (schemas/run.py): query and aggregates of a log are of the same run.
LogIsOfOneRun ==
  \A id \in RunId :
    seen[id].query # None /\ seen[id].ended # None => seen[id].query = seen[id].ended
=============================================================================
