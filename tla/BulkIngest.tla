----------------------------- MODULE BulkIngest -----------------------------
(***************************************************************************)
(* The bulk ingestion of the Dolt store: what run_pipeline.py does without *)
(* --update.  Stage 1 reads companyfacts.zip file by file and rewrites the *)
(* companies whose hash changed, resolving standardized statements in      *)
(* batches on the side, and recomputes processed_ciks at its end; stage 4  *)
(* does the same for submissions.zip; stage 5 materializes the statements  *)
(* of all companies, but only when there are none at all.                  *)
(*                                                                         *)
(* Unlike the delta update nothing but processed_ciks and stage 5 uses a   *)
(* transaction: every statement commits by itself, an insert of many rows  *)
(* even in batches of its own, so a run that dies leaves what it had done. *)
(* Runs follow one another, one at a time (nothing in the code sees to it: *)
(* a bulk run takes no lock), with SEC_INLINE_STANDARDIZED left on and no  *)
(* --limit or --skip option.  Stages 2, 3, 6 and 7 use other tables, and   *)
(* the dictionaries xbrl_tags, accessions and sources only grow here.      *)
(*                                                                         *)
(* Documents are versions, as in DeltaUpdate.  A company's facts, and the  *)
(* statements resolved from them, are parts: <<version, 1>> is the first   *)
(* batch of rows of a document, <<version, 2>> the rest; the tags of a     *)
(* company, and its dei rows, fit one batch.  The dei rows of the table of *)
(* facts are those taken from submissions.zip; those of a document, which  *)
(* go when its submissions change, are left out with their tags.           *)
(***************************************************************************)
EXTENDS Integers, FiniteSets

CONSTANTS
    CIK,          \* companies
    NoFile,       \* no file of an archive is being read
    MaxVersion,   \* bound: versions SEC publishes of one document
    Empty,        \* <<company, version>>: companyfacts without any fact
    HasStatement, \* <<company, version>>: with a tag of some statement
    Complete,     \* <<company, version>>: with tags of all three statements
    BatchSize,    \* SEC_INGEST_BATCH
    MaxFailures   \* bound: crashes and companies that do not resolve

None == 0
Version == 1..MaxVersion
MaybeVersion == 0..MaxVersion
Table == [CIK -> MaybeVersion]
Part == Version \X {1, 2}
Parts == [CIK -> SUBSET Part]
Whole(v) == IF v = None THEN {} ELSE {<<v, 1>>, <<v, 2>>}

ASSUME BulkBounds ==
    MaxVersion \in Nat \ {0} /\ BatchSize \in Nat \ {0} /\ MaxFailures \in Nat
ASSUME BulkDocuments ==
    /\ Complete \subseteq HasStatement /\ HasStatement \cap Empty = {}
    /\ HasStatement \cup Empty \subseteq CIK \X Version
ASSUME NoFileAssumption == NoFile \notin CIK
ASSUME FiniteArchive == IsFiniteSet(CIK)

VARIABLES
    archive,    \* what SEC serves: [facts, subs], each company -> version
    db,         \* the tables
    run,        \* local variables of the running pipeline
    crashes,    \* runs that were killed
    unresolved, \* companies whose statements could not be resolved
    raises      \* runs ended by a duplicate key; saturates above MaxFailures

vars == <<archive, db, run, crashes, unresolved, raises>>
counters == <<crashes, unresolved, raises>>

Db == [companies: Table, tags: Table, facts: Parts, std: Parts,
       processed: SUBSET CIK, submissions: Table, dei: [CIK -> SUBSET Version]]

Run == [stage: {"down", "facts", "submissions", "std", "done"}, zip: Table,
        todo: SUBSET CIK, file: CIK \cup {NoFile}, step: 0..8,
        batch: SUBSET CIK, flush: SUBSET CIK]

NoRows == [c \in CIK |-> None]
NoParts == [c \in CIK |-> {}]

Ended(stage) == [stage |-> stage, zip |-> NoRows, todo |-> {}, file |-> NoFile,
                 step |-> 0, batch |-> {}, flush |-> {}]

Init ==
    /\ archive = [facts |-> [c \in CIK |-> 1], subs |-> [c \in CIK |-> 1]]
    /\ db = [companies |-> NoRows, tags |-> NoRows, facts |-> NoParts,
             std |-> NoParts, processed |-> {}, submissions |-> NoRows,
             dei |-> NoParts]
    /\ run = Ended("done")
    /\ crashes = 0 /\ unresolved = 0 /\ raises = 0

-----------------------------------------------------------------------------
(* SEC: a filing with financial data changes both documents of a company,   *)
(* any other filing its submissions only.                                   *)

FileFinancials(c) ==
    /\ archive.facts[c] < MaxVersion /\ archive.subs[c] < MaxVersion
    /\ archive' = [archive EXCEPT !.facts[c] = @ + 1, !.subs[c] = @ + 1]
    /\ UNCHANGED <<db, run, counters>>

FileOther(c) ==
    /\ archive.subs[c] < MaxVersion
    /\ archive' = [archive EXCEPT !.subs[c] = @ + 1]
    /\ UNCHANGED <<db, run, counters>>

-----------------------------------------------------------------------------
(* Stage 1, the files of companyfacts.zip.                                  *)

StartRun ==
    /\ run.stage \in {"down", "done"}
    /\ run' = [Ended("facts") EXCEPT !.zip = archive.facts, !.todo = CIK]
    /\ UNCHANGED <<archive, db, counters>>

\* A full batch is resolved before the next file is read.
NextFile(stage, c) ==
    /\ run.stage = stage /\ c \in run.todo
    /\ run.file = NoFile /\ run.flush = {} /\ Cardinality(run.batch) < BatchSize

Unchanged(c) == db.companies[c] = run.zip[c]

SkipFacts(c) ==
    /\ NextFile("facts", c) /\ Unchanged(c)
    /\ run' = [run EXCEPT !.todo = @ \ {c}]
    /\ UNCHANGED <<archive, db, counters>>

\* Old rows are deleted only for a company whose hash is recorded; without
\* facts the new document is not inserted.
FirstStep(c) == IF db.companies[c] # None THEN 1 ELSE 5

OpenFacts(c) ==
    /\ NextFile("facts", c) /\ ~Unchanged(c)
    /\ run' = [run EXCEPT !.todo = @ \ {c}, !.file = c, !.step = FirstStep(c)]
    /\ UNCHANGED <<archive, db, counters>>

DeleteRows_KeepsFacts(c, n) ==
    CASE n = 1 -> [db EXCEPT !.companies[c] = None]
      [] n = 2 -> [db EXCEPT !.tags[c] = None]
      [] n = 3 -> [db EXCEPT !.dei[c] = {}]
      [] n = 4 -> [db EXCEPT !.std[c] = {}]

DeleteRows(c, n) ==
    CASE n = 1 -> [db EXCEPT !.companies[c] = None]
      [] n = 2 -> [db EXCEPT !.tags[c] = None]
      [] n = 3 -> [db EXCEPT !.facts[c] = {}, !.dei[c] = {}]
      [] n = 4 -> [db EXCEPT !.std[c] = {}]

InsertRows_HashLast(c, v, n) ==
    CASE n = 5 -> [db EXCEPT !.facts[c] = @ \cup {<<v, 1>>}]
      [] n = 6 -> [db EXCEPT !.tags[c] = v]
      [] n = 7 -> [db EXCEPT !.facts[c] = @ \cup {<<v, 2>>}]
      [] n = 8 -> [db EXCEPT !.companies[c] = v]

\* The hash goes in first: companies, then the tags, then the facts.
InsertRows(c, v, n) ==
    CASE n = 5 -> [db EXCEPT !.companies[c] = v]
      [] n = 6 -> [db EXCEPT !.tags[c] = v]
      [] n = 7 -> [db EXCEPT !.facts[c] = @ \cup {<<v, 1>>}]
      [] n = 8 -> [db EXCEPT !.facts[c] = @ \cup {<<v, 2>>}]

\* cik_tags has the primary key (cik, tag_id), and a new document has the
\* tags of the earlier ones.
DuplicateTags == run.stage = "facts" /\ run.step = 6 /\ db.tags[run.file] # None

IsEmpty(c) == <<c, run.zip[c]>> \in Empty

\* Leaving the file: its company is queued when it has a statement's tag.
FileRead(c) ==
    [run EXCEPT !.file = NoFile, !.step = 0,
                !.batch = IF <<c, run.zip[c]>> \in HasStatement
                          THEN @ \cup {c} ELSE @]

StoreFacts ==
    LET c == run.file
    IN /\ run.stage = "facts" /\ run.step # 0
       /\ ~DuplicateTags
       /\ ~(run.step = 5 /\ IsEmpty(c))
       /\ db' = IF run.step <= 4 THEN DeleteRows(c, run.step)
                               ELSE InsertRows(c, run.zip[c], run.step)
       /\ run' = IF run.step = 8 THEN FileRead(c) ELSE [run EXCEPT !.step = @ + 1]
       /\ UNCHANGED <<archive, counters>>

LeaveEmpty ==
    /\ run.stage = "facts" /\ run.step = 5 /\ IsEmpty(run.file)
    /\ run' = [run EXCEPT !.file = NoFile, !.step = 0]
    /\ UNCHANGED <<archive, db, counters>>

-----------------------------------------------------------------------------
(* Stage 1, the batches of statements: the companies of a batch are         *)
(* resolved together and their rows inserted one company after the other.   *)

Flush == Cardinality(run.batch) = BatchSize \/ run.todo = {}

BeginFlush ==
    /\ run.stage = "facts" /\ run.file = NoFile
    /\ run.flush = {} /\ run.batch # {}
    /\ Flush
    /\ run' = [run EXCEPT !.flush = run.batch, !.batch = {}]
    /\ UNCHANGED <<archive, db, counters>>

\* standardized_statements_enc has a primary key too, and statements of an
\* earlier document share periods with the later ones.
DuplicateStatements ==
    /\ run.stage = "facts" /\ run.file = NoFile
    /\ \E c \in run.flush : db.std[c] # {}

InsertStatements(c) ==
    /\ run.stage = "facts" /\ run.step = 0 /\ run.file = NoFile
    /\ c \in run.flush /\ db.std[c] = {}
    /\ db' = [db EXCEPT !.std[c] = {<<run.zip[c], 1>>}]
    /\ run' = [run EXCEPT !.file = c]
    /\ UNCHANGED <<archive, counters>>

InsertOtherStatements ==
    LET c == run.file
    IN /\ run.stage = "facts" /\ run.step = 0 /\ c # NoFile
       /\ db' = [db EXCEPT !.std[c] = @ \cup {<<run.zip[c], 2>>}]
       /\ run' = [run EXCEPT !.file = NoFile, !.flush = @ \ {c}]
       /\ UNCHANGED <<archive, counters>>

-----------------------------------------------------------------------------
(* The end of stage 1, and stage 4 for the companies of processed_ciks.     *)

Processed_NoDelete == db.processed \cup {c \in CIK : <<c, db.tags[c]>> \in Complete}
Processed == {c \in CIK : <<c, db.tags[c]>> \in Complete}

RecomputeProcessed_NoLastFlush ==
    /\ run.stage = "facts" /\ run.file = NoFile
    /\ run.todo = {} /\ run.flush = {}
    /\ db' = [db EXCEPT !.processed = Processed]
    /\ run' = [Ended("submissions") EXCEPT !.zip = archive.subs, !.todo = Processed]
    /\ UNCHANGED <<archive, counters>>

\* processed_ciks is deleted and computed anew in one transaction; then
\* submissions.zip is downloaded.
RecomputeProcessed ==
    /\ run.stage = "facts" /\ run.file = NoFile
    /\ run.todo = {} /\ run.batch = {} /\ run.flush = {}
    /\ db' = [db EXCEPT !.processed = Processed]
    /\ run' = [Ended("submissions") EXCEPT !.zip = archive.subs, !.todo = Processed]
    /\ UNCHANGED <<archive, counters>>

SkipSubmissions(c) ==
    /\ NextFile("submissions", c) /\ db.submissions[c] = run.zip[c]
    /\ run' = [run EXCEPT !.todo = @ \ {c}]
    /\ UNCHANGED <<archive, db, counters>>

FirstSubsStep(c) == 1

OpenSubmissions(c) ==
    /\ NextFile("submissions", c) /\ db.submissions[c] # run.zip[c]
    /\ run' = [run EXCEPT !.todo = @ \ {c}, !.file = c, !.step = FirstSubsStep(c)]
    /\ UNCHANGED <<archive, db, counters>>

SubsStatement(c, v, n) ==
    CASE n = 1 -> [db EXCEPT !.submissions[c] = None]
      [] n = 2 -> [db EXCEPT !.dei[c] = {}]
      [] n = 3 -> [db EXCEPT !.submissions[c] = v]
      [] n = 4 -> [db EXCEPT !.dei[c] = @ \cup {v}]

StoreSubmissions ==
    LET c == run.file
    IN /\ run.stage = "submissions" /\ c # NoFile
       /\ db' = SubsStatement(c, run.zip[c], run.step)
       /\ run' = IF run.step = 4 THEN [run EXCEPT !.file = NoFile, !.step = 0]
                                 ELSE [run EXCEPT !.step = @ + 1]
       /\ UNCHANGED <<archive, counters>>

-----------------------------------------------------------------------------
(* Stage 5.                                                                 *)

AfterSubmissions ==
    /\ run.stage = "submissions" /\ run.file = NoFile /\ run.todo = {}
    /\ run' = IF \E c \in CIK : db.std[c] # {}
              THEN Ended("done")
              ELSE [Ended("std") EXCEPT !.todo = db.processed]
    /\ UNCHANGED <<archive, db, counters>>

\* One transaction per company, from the tables; a company without a row in
\* companies cannot be loaded and is skipped.
Materialize(c) ==
    /\ run.stage = "std" /\ c \in run.todo
    /\ db' = IF db.companies[c] = None THEN db
             ELSE [db EXCEPT !.std[c] = db.facts[c]]
    /\ run' = [run EXCEPT !.todo = @ \ {c}]
    /\ UNCHANGED <<archive, counters>>

AfterStatements ==
    /\ run.stage = "std" /\ run.todo = {}
    /\ run' = Ended("done")
    /\ UNCHANGED <<archive, db, counters>>

-----------------------------------------------------------------------------
(* Failures.                                                                *)

Running == run.stage \notin {"down", "done"}
MayFail == crashes + unresolved < MaxFailures

\* The process is killed, or a download or a statement fails.
Crash ==
    /\ Running /\ MayFail
    /\ run' = Ended("down")
    /\ crashes' = crashes + 1
    /\ UNCHANGED <<archive, db, unresolved, raises>>

\* A duplicate key ends the run as well, and its batch is lost with it.
Raise ==
    /\ DuplicateTags \/ DuplicateStatements
    /\ run' = Ended("down")
    /\ raises' = IF raises > MaxFailures THEN raises ELSE raises + 1
    /\ UNCHANGED <<archive, db, crashes, unresolved>>

\* A company that does not resolve is logged and passed over.
Unresolved(c) ==
    /\ MayFail
    /\ \/ /\ run.stage = "facts" /\ run.file = NoFile /\ c \in run.flush
          /\ run' = [run EXCEPT !.flush = @ \ {c}]
       \/ /\ run.stage = "std" /\ c \in run.todo
          /\ run' = [run EXCEPT !.todo = @ \ {c}]
    /\ unresolved' = unresolved + 1
    /\ UNCHANGED <<archive, db, crashes, raises>>

-----------------------------------------------------------------------------
RunStep ==
    \/ \E c \in CIK : \/ SkipFacts(c) \/ OpenFacts(c) \/ InsertStatements(c)
                      \/ SkipSubmissions(c) \/ OpenSubmissions(c) \/ Materialize(c)
    \/ StoreFacts \/ LeaveEmpty \/ BeginFlush \/ InsertOtherStatements
    \/ RecomputeProcessed \/ StoreSubmissions \/ AfterSubmissions
    \/ AfterStatements \/ Raise

Next ==
    \/ \E c \in CIK : FileFinancials(c) \/ FileOther(c) \/ Unresolved(c)
    \/ StartRun \/ RunStep \/ Crash

Spec == Init /\ [][Next]_vars

\* A pipeline that runs is scheduled, and somebody starts it again.
FairSpec == Spec /\ WF_vars(StartRun) /\ WF_vars(RunStep)

-----------------------------------------------------------------------------
(* Properties.                                                              *)

\* Types of the state.
TypeOK ==
    /\ archive \in [facts: Table, subs: Table]
    /\ db \in Db
    /\ run \in Run
    /\ crashes \in Nat /\ unresolved \in Nat /\ raises \in Nat

Torn(c) ==
    ~(db.companies[c] = db.tags[c] /\ db.facts[c] = Whole(db.companies[c]))

\* Hash, tags and facts of a company are one whole document, but for the
\* company whose file is being read and one more for each crash: however the
\* runs that follow fail on what the crash left, they tear nothing else.
CrashDamagesOne ==
    Cardinality({c \in CIK \ {run.file} : Torn(c)}) <= crashes

\* The statements that should be there: those of the stored facts.
Wanted(c) ==
    IF <<c, db.companies[c]>> \in HasStatement THEN db.facts[c] ELSE {}

Lost == {c \in CIK \ (run.batch \cup run.flush \cup {run.file}) :
            db.std[c] # Wanted(c)}

\* A run that dies loses the statements of one batch at most: companies whose
\* hash is recorded are not looked at again, so nothing would bring them back.
LosesOneBatch ==
    Cardinality(Lost) <= BatchSize * (crashes + raises) + unresolved

\* Rows a crash leaves behind make at most one later run die of a duplicate
\* key.
OneRaisePerCrash == raises <= crashes

\* What a crash costs, however the runs that follow it fail in their turn: one
\* company torn, one later run.
CrashesCostOne == CrashDamagesOne /\ OneRaisePerCrash

\* From stage 4 on processed_ciks says which companies have tags of all three
\* statements, also for companies a run that died had rewritten.
ProcessedIsFresh ==
    run.stage \in {"submissions", "std", "done"} =>
        db.processed = {c \in CIK : <<c, db.tags[c]>> \in Complete}

\* The dei rows a company has from submissions are never older than the
\* payload stored beside them, wherever a run was cut off.
DeiNeverStale ==
    \A c \in CIK : db.submissions[c] # None => db.dei[c] \subseteq {db.submissions[c]}

\* Neither of the two tables taken from others is ever older than they are.
DerivedIsFresh == ProcessedIsFresh /\ DeiNeverStale

\* After a run that died there comes one that gets through: what it left
\* behind does not make every later run die.
RunsSucceedAgain == run.stage = "down" ~> run.stage = "done"
=============================================================================
