-------------------------- MODULE CatalogLifecycle --------------------------
(***************************************************************************)
(* The two files the search lives on, companies.sqlite and bm25.pkl: the   *)
(* ingestion job that writes one after the other, and the API process that *)
(* loads them when it starts and is restarted by whoever runs it.          *)
(*                                                                         *)
(* A data set stands for its rows; a file has the data set it was made of. *)
(* The table is replaced in one transaction.  The index is truncated when  *)
(* it is opened for writing and complete when the dump has returned.       *)
(***************************************************************************)
EXTENDS Integers

CONSTANTS
  Dataset,     \* non-empty contents companies.json can have
  NoRows,      \* the empty list, in companies.json or in the table
  NoFile,      \* the file does not exist
  Torn,        \* the index file is truncated or half written
  MaxIngests   \* bound on the ingestion jobs

ASSUME DatasetAssumption ==
  /\ NoRows \notin Dataset /\ NoFile \notin Dataset /\ Torn \notin Dataset
  /\ NoRows # NoFile /\ NoRows # Torn /\ NoFile # Torn
  /\ MaxIngests \in Nat

VARIABLES
  source,       \* companies.json
  table,        \* companies.sqlite
  index,        \* bm25.pkl
  ingest,       \* the step the ingestion job has reached
  records,      \* the rows it has loaded
  ingests,
  api,          \* the step the API process has reached
  created,      \* docker compose up has started the API once
  sqliteReady,  \* services.sqlite_ready
  bm25Loaded,   \* services.bm25_loaded
  memory,       \* the index the API process holds
  startedOn,    \* the files as they were when the API last started
  quiet         \* ... and no ingestion has run since, the last one succeeding

job == <<ingest, records, ingests>>
files == <<table, index>>
process == <<api, created, sqliteReady, bm25Loaded, memory, startedOn>>
vars == <<source, files, job, process, quiet>>

Idle == {"none", "succeeded", "failed"}

Init ==
  /\ source \in Dataset \cup {NoRows}
  /\ table = NoFile /\ index = NoFile
  /\ ingest = "none" /\ records = NoRows /\ ingests = 0
  /\ api = "down" /\ created = FALSE
  /\ sqliteReady = FALSE /\ bm25Loaded = FALSE /\ memory = NoFile
  /\ startedOn = [table |-> NoFile, index |-> NoFile] /\ quiet = FALSE

ReplaceSource ==
  /\ source' \in Dataset \cup {NoRows}
  /\ UNCHANGED <<files, job, process, quiet>>

\* Alembic creates the file and the table when they are not there.
Migrated == IF table = NoFile THEN NoRows ELSE table

-----------------------------------------------------------------------------
(* The ingestion job, one at a time.                                       *)

Load ==
  /\ ingest \in Idle /\ ingests < MaxIngests
  /\ ingest' = "loaded" /\ records' = source /\ ingests' = ingests + 1
  /\ quiet' = FALSE
  /\ UNCHANGED <<source, files, process>>

Migrate ==
  /\ ingest = "loaded"
  /\ table' = Migrated
  /\ ingest' = "migrated"
  /\ UNCHANGED <<source, index, records, ingests, process, quiet>>

\* Mutant: an empty list empties the table, too.
SeedTruncates ==
  /\ ingest = "migrated"
  /\ table' = records
  /\ ingest' = "seeded"
  /\ UNCHANGED <<source, index, records, ingests, process, quiet>>

\* Mutant: rows are inserted only when there are none.
SeedOnce ==
  /\ ingest = "migrated"
  /\ table' = IF table = NoRows THEN records ELSE table
  /\ ingest' = "seeded"
  /\ UNCHANGED <<source, index, records, ingests, process, quiet>>

\* An empty list is returned from before the old rows are deleted.
Seed ==
  /\ ingest = "migrated"
  /\ table' = IF records = NoRows THEN table ELSE records
  /\ ingest' = "seeded"
  /\ UNCHANGED <<source, index, records, ingests, process, quiet>>

\* BM25Okapi divides by the number of documents.
Build ==
  /\ ingest = "seeded"
  /\ ingest' = IF records = NoRows THEN "failed" ELSE "built"
  /\ UNCHANGED <<source, files, records, ingests, process, quiet>>

OpenIndex ==
  /\ ingest = "built"
  /\ index' = Torn
  /\ ingest' = "writing"
  /\ UNCHANGED <<source, table, records, ingests, process, quiet>>

Dump ==
  /\ ingest = "writing"
  /\ index' = records
  /\ ingest' = "succeeded"
  /\ UNCHANGED <<source, table, records, ingests, process, quiet>>

\* A step raises or the job is killed; the transaction leaves the old rows.
IngestFails ==
  /\ ingest \notin Idle
  /\ ingest' = "failed"
  /\ UNCHANGED <<source, files, records, ingests, process, quiet>>

-----------------------------------------------------------------------------
(* The API process.                                                        *)

\* docker compose up waits for the job; docker compose start and the restart
\* policy only start the container again.
StartApi ==
  /\ api = "down"
  /\ created \/ ingest = "succeeded"
  /\ created' = TRUE
  /\ api' = "migrating"
  /\ startedOn' = [table |-> table, index |-> index]
  /\ quiet' = (ingest = "succeeded")
  /\ UNCHANGED <<source, files, job, sqliteReady, bm25Loaded, memory>>

\* The entrypoint migrates before it becomes the server.
MigrateApi ==
  /\ api = "migrating"
  /\ table' = Migrated
  /\ api' = "connecting"
  /\ sqliteReady' = FALSE /\ bm25Loaded' = FALSE /\ memory' = NoFile
  /\ UNCHANGED <<source, index, job, created, startedOn, quiet>>

Connect ==
  /\ api = "connecting"
  /\ sqliteReady' = (table # NoFile)
  /\ api' = "loading"
  /\ UNCHANGED <<source, files, job, created, bm25Loaded, memory, startedOn, quiet>>

\* Mutant: a file that exists counts as an index.
LoadIfPresent ==
  /\ api = "loading"
  /\ bm25Loaded' = (index # NoFile)
  /\ memory' = IF index \in Dataset THEN index ELSE NoFile
  /\ api' = "serving"
  /\ UNCHANGED <<source, files, job, created, sqliteReady, startedOn, quiet>>

\* An index that is missing or does not unpickle leaves the API without one.
LoadIndex ==
  /\ api = "loading"
  /\ bm25Loaded' = (index \in Dataset)
  /\ memory' = IF index \in Dataset THEN index ELSE NoFile
  /\ api' = "serving"
  /\ UNCHANGED <<source, files, job, created, sqliteReady, startedOn, quiet>>

\* Stopped by the operator, crashed, or refused by a failing migration.
StopApi ==
  /\ api # "down"
  /\ api' = "down"
  /\ UNCHANGED <<source, files, job, created, sqliteReady, bm25Loaded, memory, startedOn, quiet>>

Next ==
  \/ ReplaceSource
  \/ Load \/ Migrate \/ Seed \/ Build \/ OpenIndex \/ Dump \/ IngestFails
  \/ StartApi \/ MigrateApi \/ Connect \/ LoadIndex \/ StopApi

Spec == Init /\ [][Next]_vars
-----------------------------------------------------------------------------
(* What must hold.                                                         *)

TypeOK ==
  /\ source \in Dataset \cup {NoRows} /\ records \in Dataset \cup {NoRows}
  /\ table \in Dataset \cup {NoRows, NoFile} /\ index \in Dataset \cup {NoFile, Torn}
  /\ ingest \in Idle \cup {"loaded", "migrated", "seeded", "built", "writing"}
  /\ ingests \in 0 .. MaxIngests
  /\ api \in {"down", "migrating", "connecting", "loading", "serving"}
  /\ created \in BOOLEAN /\ sqliteReady \in BOOLEAN /\ bm25Loaded \in BOOLEAN
  /\ memory \in Dataset \cup {NoFile} /\ quiet \in BOOLEAN
  /\ startedOn \in [table : Dataset \cup {NoRows, NoFile}, index : Dataset \cup {NoFile, Torn}]

Ready == api = "serving" /\ sqliteReady /\ bm25Loaded

\* Ready is never said of a catalogue without rows or of half an index: not
\* after a crash in any step of ingestion, and not after an empty data set.
ReadyMeansData == Ready => table \in Dataset /\ memory \in Dataset

\* An API started after an ingestion that succeeded, and left alone since, is
\* ready and serves rows and index of one data set: the documented rebuild.
RebuildServesOnePair == quiet /\ api = "serving" => Ready /\ memory = table

\* A job that reports success has left both files with its own rows.
SuccessLeavesOnePair == ingest = "succeeded" => table = records /\ index = records

\* Claimed: "the API cannot start against a missing or mismatched SQLite/index
\* pair" (docker-compose.yml).
StartsOnOnePair == created => startedOn.index \in Dataset /\ startedOn.table = startedOn.index

\* The inductive invariant: what the files can be at each step of the job ...
FilesFollowJob ==
  /\ index # NoFile => table \in Dataset
  /\ ingest \in {"built", "writing"} => records \in Dataset
  /\ ingest \in {"seeded", "built", "writing"} /\ records \in Dataset => table = records
  /\ ingest \in {"migrated", "seeded"} => table # NoFile
  /\ SuccessLeavesOnePair /\ (ingest = "succeeded" => records \in Dataset)

\* ... and what the process can hold of them.
ProcessFollowsFiles ==
  /\ quiet => ingest = "succeeded"
  /\ api \in {"connecting", "loading", "serving"} => table # NoFile
  /\ api \in {"loading", "serving"} => sqliteReady
  /\ memory # NoFile => table \in Dataset
  /\ bm25Loaded => memory \in Dataset
  /\ quiet /\ api = "serving" => bm25Loaded /\ memory = index

PairInv == TypeOK /\ FilesFollowJob /\ ProcessFollowsFiles
=============================================================================
