----------------------- MODULE CatalogLifecycleProofs -----------------------
(* Proofs about CatalogLifecycle, for every set of data sets and any number *)
(* of ingestion jobs.                                                       *)
EXTENDS CatalogLifecycle, TLAPS

\* Before the first job and the first start nothing is promised and nothing broken.
LEMMA PairInit == Init => PairInv
<1> SUFFICES ASSUME Init PROVE PairInv
  OBVIOUS
<1> USE DatasetAssumption DEF Init
<1>1. TypeOK
  <2>1. created \in BOOLEAN /\ sqliteReady \in BOOLEAN /\ bm25Loaded \in BOOLEAN /\ quiet \in BOOLEAN
    OBVIOUS
  <2>2. ingests \in 0 .. MaxIngests
    OBVIOUS
  <2> QED  BY <2>1, <2>2 DEF TypeOK, Idle
<1>2. FilesFollowJob /\ ProcessFollowsFiles
  BY DEF FilesFollowJob, ProcessFollowsFiles, SuccessLeavesOnePair
<1> QED  BY <1>1, <1>2 DEF PairInv

\* The steps of the job: each leaves the files as the next one expects them.
LEMMA JobStep ==
  PairInv /\ (Load \/ Migrate \/ Seed \/ Build \/ OpenIndex \/ Dump \/ IngestFails) => PairInv'
<1> SUFFICES ASSUME PairInv, Load \/ Migrate \/ Seed \/ Build \/ OpenIndex \/ Dump \/ IngestFails
             PROVE  PairInv'
  OBVIOUS
<1> USE DatasetAssumption DEF PairInv, TypeOK, FilesFollowJob, ProcessFollowsFiles,
        SuccessLeavesOnePair, Idle, process
<1>1. CASE Load
  <2>1. created' \in BOOLEAN /\ sqliteReady' \in BOOLEAN /\ bm25Loaded' \in BOOLEAN /\ quiet' \in BOOLEAN
    BY <1>1 DEF Load
  <2>2. TypeOK'
    BY <1>1, <2>1 DEF Load, files
  <2>3. FilesFollowJob'
    BY <1>1 DEF Load, files
  <2>4. ProcessFollowsFiles'
    BY <1>1 DEF Load, files
  <2> QED  BY <2>2, <2>3, <2>4
<1>2. CASE Migrate
  BY <1>2 DEF Migrate, Migrated
<1>3. CASE Seed
  BY <1>3 DEF Seed
<1>4. CASE Build
  BY <1>4 DEF Build, files
<1>5. CASE OpenIndex
  BY <1>5 DEF OpenIndex
<1>6. CASE Dump
  BY <1>6 DEF Dump
<1>7. CASE IngestFails
  BY <1>7 DEF IngestFails, files
<1> QED  BY <1>1, <1>2, <1>3, <1>4, <1>5, <1>6, <1>7

\* The steps of the API process: it holds what the files were when it read them.
LEMMA ApiStep ==
  PairInv /\ (StartApi \/ MigrateApi \/ Connect \/ LoadIndex \/ StopApi) => PairInv'
<1> SUFFICES ASSUME PairInv, StartApi \/ MigrateApi \/ Connect \/ LoadIndex \/ StopApi
             PROVE  PairInv'
  OBVIOUS
<1> USE DatasetAssumption DEF PairInv, TypeOK, FilesFollowJob, ProcessFollowsFiles,
        SuccessLeavesOnePair, Idle, job
<1>1. CASE StartApi
  BY <1>1 DEF StartApi, files
<1>2. CASE MigrateApi
  <2>1. created' \in BOOLEAN /\ sqliteReady' \in BOOLEAN /\ bm25Loaded' \in BOOLEAN /\ quiet' \in BOOLEAN
    BY <1>2 DEF MigrateApi
  <2>2. TypeOK'
    BY <1>2, <2>1 DEF MigrateApi, Migrated
  <2>3. FilesFollowJob'
    BY <1>2 DEF MigrateApi, Migrated
  <2>4. ProcessFollowsFiles'
    BY <1>2 DEF MigrateApi, Migrated
  <2> QED  BY <2>2, <2>3, <2>4
<1>3. CASE Connect
  <2>1. created' \in BOOLEAN /\ sqliteReady' \in BOOLEAN /\ bm25Loaded' \in BOOLEAN /\ quiet' \in BOOLEAN
    BY <1>3 DEF Connect
  <2>2. TypeOK'
    BY <1>3, <2>1 DEF Connect, files
  <2>3. FilesFollowJob'
    BY <1>3 DEF Connect, files
  <2>4. ProcessFollowsFiles'
    BY <1>3 DEF Connect, files
  <2> QED  BY <2>2, <2>3, <2>4
<1>4. CASE LoadIndex
  BY <1>4 DEF LoadIndex, files
<1>5. CASE StopApi
  BY <1>5 DEF StopApi, files
<1> QED  BY <1>1, <1>2, <1>3, <1>4, <1>5

\* The inductive invariant of the two files, the job and the process.
THEOREM PairInvariant == Spec => []PairInv
<1>1. PairInv /\ [Next]_vars => PairInv'
  <2>1. PairInv /\ (ReplaceSource \/ UNCHANGED vars) => PairInv'
    BY DEF PairInv, TypeOK, FilesFollowJob, ProcessFollowsFiles, SuccessLeavesOnePair, Idle,
           ReplaceSource, vars, files, job, process
  <2> QED  BY <2>1, JobStep, ApiStep DEF Next
<1> QED  BY <1>1, PairInit, PTL DEF Spec

\* Every variable keeps its type.
THEOREM TypeCorrect == Spec => []TypeOK
BY PairInvariant, PTL DEF PairInv

\* A job that reported success leaves rows and an index of one data set, whatever
\* earlier jobs that died half way had left.
THEOREM SuccessIsConsistent == Spec => []SuccessLeavesOnePair
BY PairInvariant, PTL DEF PairInv, FilesFollowJob

\* Readiness is never reported without rows in the table and a whole index in
\* memory, wherever jobs and processes were stopped.
THEOREM ReadinessIsEarned == Spec => []ReadyMeansData
<1>1. PairInv => ReadyMeansData
  BY DatasetAssumption DEF PairInv, ProcessFollowsFiles, ReadyMeansData, Ready
<1> QED  BY <1>1, PairInvariant, PTL

\* The documented rebuild - ingestion to its end, then a start - is served from
\* one data set.
THEOREM RebuildIsConsistent == Spec => []RebuildServesOnePair
<1>1. PairInv => RebuildServesOnePair
  BY DEF PairInv, TypeOK, FilesFollowJob, ProcessFollowsFiles, SuccessLeavesOnePair,
         RebuildServesOnePair, Ready
<1> QED  BY <1>1, PairInvariant, PTL
=============================================================================
