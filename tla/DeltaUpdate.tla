---------------------------- MODULE DeltaUpdate ----------------------------
(***************************************************************************)
(* The delta update of the Dolt store (run_update, sec_app/db/ingest.py).  *)
(*                                                                         *)
(* SEC publishes two archives, companyfacts.zip and submissions.zip, and   *)
(* goes on publishing while an update runs.  An update takes a file lock,  *)
(* downloads the archives, finds the companies whose submissions changed,  *)
(* and rewrites the rows of each company in one transaction per company    *)
(* and archive; then it recomputes processed_ciks and materializes the     *)
(* standardized statements of the companies whose facts it rewrote.        *)
(*                                                                         *)
(* A document is its version: the n-th text SEC published for a company in *)
(* one archive.  Two documents of a company have one hash exactly when     *)
(* they are one version, so hashes and rows are versions too, and None     *)
(* stands for "no row".  The tables run_update replaces besides (tickers,   *)
(* funds, entities and overrides before, exchange rates after) share no row *)
(* with these and are left to modules of their own.                        *)
(***************************************************************************)
EXTENDS Integers, FiniteSets

CONSTANTS
    CIK,         \* companies
    Proc,        \* processes that may run an update
    NoProc,      \* nobody holds the lock file
    MaxVersion,  \* bound: versions SEC publishes of one document
    Complete,    \* <<company, version>>: facts that have all three statements
    MaxChanged,  \* SEC_MAX_CHANGED_CIKS
    SkipModes,   \* values of --skip-submissions to explore
    LargeModes,  \* values of SEC_ALLOW_LARGE_UPDATE = "1" to explore
    Overlap,     \* whether SEC publishes while an update runs
    Interrupts,  \* whether somebody interrupts updates from the keyboard
    MaxFaults    \* bound: crashes, interrupts, failed statements and resolves

None == 0
Version == 1..MaxVersion
MaybeVersion == 0..MaxVersion
Table == [CIK -> MaybeVersion]

ASSUME BoundsAssumption ==
    MaxVersion \in Nat \ {0} /\ MaxChanged \in Nat /\ MaxFaults \in Nat
ASSUME ModesAssumption ==
    /\ SkipModes \subseteq BOOLEAN /\ LargeModes \subseteq BOOLEAN
    /\ Overlap \in BOOLEAN /\ Interrupts \in BOOLEAN
ASSUME NoProcAssumption == NoProc \notin Proc
ASSUME CikAssumption == IsFiniteSet(CIK)
ASSUME CompleteAssumption == Complete \subseteq CIK \X Version

VARIABLES
    archive,  \* what SEC serves now: [facts, subs], each company -> version
    db,       \* the committed tables
    lock,     \* owner of /tmp/openbb_sec_update.lock
    pc,       \* phase of each process
    job,      \* local variables of run_update
    tx,       \* connection of the process: open transaction and its work
    idCache,  \* _TAG_ID_CACHE of the process: tags whose id it remembers
    faults    \* crashes and failures so far

vars == <<archive, db, lock, pc, job, tx, idCache, faults>>

-----------------------------------------------------------------------------
(* Tables.  rows are the facts_enc rows taken from companyfacts outside     *)
(* the dei namespace and tags the cik_tags rows beside them; the dei rows   *)
(* of facts_enc have two sources, deiFacts and deiSubs; dims is xbrl_tags,  *)
(* a generation of tags being named by the version that first uses it.      *)

Db == [companies: Table, tags: Table, rows: Table, deiFacts: Table,
       deiSubs: Table, submissions: Table, std: Table,
       processed: SUBSET CIK, dims: SUBSET Version]

Deleted(table, C) == [c \in CIK |-> IF c \in C THEN None ELSE table[c]]
Inserted(table, C, from) == [c \in CIK |-> IF c \in C THEN from[c] ELSE table[c]]

NoRows == [c \in CIK |-> None]

IdleJob == [skip |-> FALSE, large |-> FALSE, factsZip |-> NoRows,
            subsZip |-> NoRows, universe |-> {}, changedSubs |-> {},
            changedFacts |-> {}, todo |-> {}]

EmptyDb == [companies |-> NoRows, tags |-> NoRows, rows |-> NoRows,
            deiFacts |-> NoRows, deiSubs |-> NoRows, submissions |-> NoRows,
            std |-> NoRows, processed |-> {}, dims |-> {}]

NoTx == [open |-> FALSE, ciks |-> {}, step |-> 0, work |-> EmptyDb]

Job == [skip: BOOLEAN, large: BOOLEAN, factsZip: Table, subsZip: Table,
        universe: SUBSET CIK, changedSubs: SUBSET CIK,
        changedFacts: SUBSET CIK, todo: SUBSET CIK]

Tx == [open: BOOLEAN, ciks: SUBSET CIK, step: 0..6, work: Db]

Phases == {"idle", "locked", "ready", "subs", "facts", "processed", "std"}

\* A store that was bulk loaded with the companies of C: facts first, then,
\* for those with all three statements, submissions, whose dei rows replace
\* those of the facts.
Loaded(C) ==
    LET P == {c \in C : <<c, 1>> \in Complete}
        One(S) == Inserted(NoRows, S, [c \in CIK |-> 1])
    IN [companies |-> One(C), tags |-> One(C), rows |-> One(C),
        deiFacts |-> One(C \ P), deiSubs |-> One(P), submissions |-> One(P),
        std |-> One(C), processed |-> P, dims |-> {1 : c \in C}]

Init ==
    /\ \E F \in SUBSET CIK :
         /\ archive = [facts |-> Inserted(NoRows, F, [c \in CIK |-> 1]),
                       subs |-> [c \in CIK |-> 1]]
         /\ \E C \in SUBSET F : db = Loaded(C)
    /\ lock = NoProc
    /\ pc = [p \in Proc |-> "idle"]
    /\ job = [p \in Proc |-> IdleJob]
    /\ tx = [p \in Proc |-> NoTx]
    /\ idCache = [p \in Proc |-> {}]
    /\ faults = 0

-----------------------------------------------------------------------------
(* SEC.  A filing with financial data changes both documents of a company   *)
(* at once, any other filing its submissions only.                          *)

MayFile == Overlap \/ lock = NoProc

FileFinancials(c) ==
    /\ MayFile
    /\ archive.facts[c] < MaxVersion /\ archive.subs[c] < MaxVersion
    /\ archive' = [archive EXCEPT !.facts[c] = @ + 1, !.subs[c] = @ + 1]
    /\ UNCHANGED <<db, lock, pc, job, tx, idCache, faults>>

FileOther(c) ==
    /\ MayFile
    /\ archive.subs[c] < MaxVersion
    /\ archive' = [archive EXCEPT !.subs[c] = @ + 1]
    /\ UNCHANGED <<db, lock, pc, job, tx, idCache, faults>>

-----------------------------------------------------------------------------
(* Locals and connection.                                                   *)

Goto(p, phase, j) ==
    /\ pc' = [pc EXCEPT ![p] = phase]
    /\ job' = [job EXCEPT ![p] = j]

\* The process ends, normally or not: the lock file is closed, the server
\* drops an open transaction, and the id cache dies with the process.
End(p) ==
    /\ Goto(p, "idle", IdleJob)
    /\ tx' = [tx EXCEPT ![p] = NoTx]
    /\ idCache' = [idCache EXCEPT ![p] = {}]
    /\ lock' = NoProc
    /\ UNCHANGED archive

\* One statement: inside a transaction it is visible to this connection
\* only, outside it is committed at once (autocommit).
Execute(p, tables) ==
    /\ tx' = [tx EXCEPT ![p].step = @ + 1, ![p].work = tables]
    /\ db' = IF tx[p].open THEN db ELSE tables

-----------------------------------------------------------------------------
(* run_update up to the diff of the submissions.                            *)

Start_NoLock(p) ==
    /\ pc[p] = "idle"
    /\ lock' = p
    /\ \E skip \in SkipModes, large \in LargeModes :
         Goto(p, "locked", [IdleJob EXCEPT !.skip = skip, !.large = large])
    /\ UNCHANGED <<archive, db, tx, idCache, faults>>

\* An invocation that finds the lock taken returns at once: it changes no
\* state and is a stuttering step.
Start(p) ==
    /\ pc[p] = "idle"
    /\ lock = NoProc
    /\ lock' = p
    /\ \E skip \in SkipModes, large \in LargeModes :
         Goto(p, "locked", [IdleJob EXCEPT !.skip = skip, !.large = large])
    /\ UNCHANGED <<archive, db, tx, idCache, faults>>

\* companyfacts.zip is downloaded first; the statement universe is read after.
DownloadFacts(p) ==
    /\ pc[p] = "locked"
    /\ Goto(p, "ready", [job[p] EXCEPT !.factsZip = archive.facts,
                                       !.universe = db.processed])
    /\ UNCHANGED <<archive, db, lock, tx, idCache, faults>>

\* Companies in scope of the submissions diff whose payload hash differs.
ChangedSubs(p) ==
    {c \in job[p].universe : archive.subs[c] # None
                             /\ archive.subs[c] # db.submissions[c]}

TooMany(p, changed) == ~job[p].large /\ Cardinality(changed) > MaxChanged

ScanSubmissions(p) ==
    /\ pc[p] = "ready" /\ ~job[p].skip
    /\ ~TooMany(p, ChangedSubs(p))
    /\ Goto(p, "subs", [job[p] EXCEPT !.subsZip = archive.subs,
                                      !.changedSubs = ChangedSubs(p),
                                      !.todo = ChangedSubs(p)])
    /\ UNCHANGED <<archive, db, lock, tx, idCache, faults>>

SafetyStop(p) ==
    /\ pc[p] = "ready" /\ ~job[p].skip
    /\ TooMany(p, ChangedSubs(p))
    /\ End(p)
    /\ UNCHANGED <<db, faults>>

-----------------------------------------------------------------------------
(* The facts diff: all of the archive when submissions are skipped, else    *)
(* the companies whose submissions this very run found changed.             *)

FactsScope_All(p) == CIK

FactsScope(p) == IF job[p].skip THEN CIK ELSE job[p].changedSubs

ChangedFacts_OfUniverse(p) ==
    {c \in FactsScope(p) \cap job[p].universe :
        job[p].factsZip[c] # None /\ job[p].factsZip[c] # db.companies[c]}

ChangedFacts(p) ==
    {c \in FactsScope(p) : job[p].factsZip[c] # None
                           /\ job[p].factsZip[c] # db.companies[c]}

ScanFacts(p) ==
    /\ \/ pc[p] = "ready" /\ job[p].skip
       \/ pc[p] = "subs" /\ job[p].todo = {} /\ ~tx[p].open
    /\ Goto(p, "facts", [job[p] EXCEPT !.changedFacts = ChangedFacts(p),
                                       !.todo = ChangedFacts(p)])
    /\ UNCHANGED <<archive, db, lock, tx, idCache, faults>>

\* Without changed facts the run is over; with them the derived tables are
\* next, for exactly the changed companies.
AfterFacts(p) ==
    /\ pc[p] = "facts" /\ job[p].todo = {} /\ ~tx[p].open
    /\ job[p].changedFacts # {}
    /\ Goto(p, "processed", [job[p] EXCEPT !.todo = job[p].changedFacts])
    /\ UNCHANGED <<archive, db, lock, tx, idCache, faults>>

AfterProcessed_OnlyProcessed(p) ==
    /\ pc[p] = "processed" /\ job[p].todo = {} /\ ~tx[p].open
    /\ Goto(p, "std", [job[p] EXCEPT !.todo = job[p].changedFacts \cap db.processed])
    /\ UNCHANGED <<archive, db, lock, tx, idCache, faults>>

AfterProcessed(p) ==
    /\ pc[p] = "processed" /\ job[p].todo = {} /\ ~tx[p].open
    /\ Goto(p, "std", [job[p] EXCEPT !.todo = job[p].changedFacts])
    /\ UNCHANGED <<archive, db, lock, tx, idCache, faults>>

Finish(p) ==
    /\ job[p].todo = {} /\ ~tx[p].open
    /\ \/ pc[p] = "facts" /\ job[p].changedFacts = {}
       \/ pc[p] = "std"
    /\ End(p)
    /\ UNCHANGED <<db, faults>>

-----------------------------------------------------------------------------
(* The transactions.  The n-th statement of each kind, applied to the       *)
(* tables d the connection sees, for the companies C.                       *)

SubsStatement(d, C, from, n) ==
    CASE n = 1 -> [d EXCEPT !.submissions = Deleted(@, C)]
      [] n = 2 -> [d EXCEPT !.deiFacts = Deleted(@, C), !.deiSubs = Deleted(@, C)]
      [] n = 3 -> [d EXCEPT !.submissions = Inserted(@, C, from)]
      [] n = 4 -> [d EXCEPT !.deiSubs = Inserted(@, C, from)]

\* _dim_id: a tag whose id the process remembers is not looked up again, the
\* others are looked up and inserted when missing.
WithIds(d, C, from, cache) == [d EXCEPT !.dims = @ \cup ({from[c] : c \in C} \ cache)]

FactsStatement(d, C, from, cache, n) ==
    CASE n = 1 -> [d EXCEPT !.companies = Deleted(@, C)]
      [] n = 2 -> [d EXCEPT !.tags = Deleted(@, C)]
      [] n = 3 -> [d EXCEPT !.rows = Deleted(@, C), !.deiFacts = Deleted(@, C),
                            !.deiSubs = Deleted(@, C)]
      [] n = 4 -> [d EXCEPT !.companies = Inserted(@, C, from)]
      [] n = 5 -> [WithIds(d, C, from, cache) EXCEPT !.tags = Inserted(@, C, from)]
      [] n = 6 -> [d EXCEPT !.rows = Inserted(@, C, from),
                            !.deiFacts = Inserted(@, C, from)]

ProcessedStatement(d, C, n) ==
    CASE n = 1 -> [d EXCEPT !.processed = @ \ C]
      [] n = 2 -> [d EXCEPT !.processed = @ \cup {c \in C : <<c, d.tags[c]>> \in Complete}]

StdStatement(d, C, n) ==
    CASE n = 1 -> [d EXCEPT !.std = Deleted(@, C)]
      [] n = 2 -> [d EXCEPT !.std = Inserted(@, C, d.rows)]

Statements == [subs |-> 4, facts |-> 6, processed |-> 2, std |-> 2]

Batches(p) == IF pc[p] = "processed" THEN {job[p].todo} ELSE {{c} : c \in job[p].todo}

Begin_Autocommit(p) ==
    /\ pc[p] \in DOMAIN Statements
    /\ ~tx[p].open /\ tx[p].ciks = {}
    /\ \E C \in Batches(p) :
         /\ C # {}
         /\ tx' = [tx EXCEPT ![p] = [open |-> FALSE, ciks |-> C, step |-> 0, work |-> db]]
    /\ UNCHANGED <<archive, db, lock, pc, job, idCache, faults>>

\* One transaction per company, but one for all of them in processed_ciks.
Begin(p) ==
    /\ pc[p] \in DOMAIN Statements
    /\ ~tx[p].open
    /\ \E C \in Batches(p) :
         /\ C # {}
         /\ tx' = [tx EXCEPT ![p] = [open |-> TRUE, ciks |-> C, step |-> 0, work |-> db]]
    /\ UNCHANGED <<archive, db, lock, pc, job, idCache, faults>>

Statement(p) ==
    /\ pc[p] \in DOMAIN Statements
    /\ tx[p].ciks # {} /\ tx[p].step < Statements[pc[p]]
    /\ LET n == tx[p].step + 1
           d == tx[p].work
           C == tx[p].ciks
       IN \/ /\ pc[p] = "subs"
             /\ Execute(p, SubsStatement(d, C, job[p].subsZip, n))
             /\ UNCHANGED idCache
          \/ /\ pc[p] = "facts"
             /\ Execute(p, FactsStatement(d, C, job[p].factsZip, idCache[p], n))
             /\ idCache' = IF n = 5
                           THEN [idCache EXCEPT ![p] = @ \cup {job[p].factsZip[c] : c \in C}]
                           ELSE idCache
          \/ /\ pc[p] = "processed"
             /\ Execute(p, ProcessedStatement(d, C, n))
             /\ UNCHANGED idCache
          \/ /\ pc[p] = "std"
             /\ Execute(p, StdStatement(d, C, n))
             /\ UNCHANGED idCache
    /\ UNCHANGED <<archive, lock, pc, job, faults>>

Commit_NoProgress(p) ==
    /\ pc[p] \in DOMAIN Statements
    /\ tx[p].ciks # {} /\ tx[p].step = Statements[pc[p]]
    /\ db' = tx[p].work
    /\ tx' = [tx EXCEPT ![p] = NoTx]
    /\ UNCHANGED <<archive, lock, pc, job, idCache, faults>>

Commit(p) ==
    /\ pc[p] \in DOMAIN Statements
    /\ tx[p].ciks # {} /\ tx[p].step = Statements[pc[p]]
    /\ db' = tx[p].work
    /\ tx' = [tx EXCEPT ![p] = NoTx]
    /\ job' = [job EXCEPT ![p].todo = @ \ tx[p].ciks]
    /\ UNCHANGED <<archive, lock, pc, idCache, faults>>

-----------------------------------------------------------------------------
(* Failures.                                                                *)

\* A company whose statements cannot be resolved is logged and skipped.
SkipUnresolved(p) ==
    /\ pc[p] = "std" /\ ~tx[p].open
    /\ faults < MaxFaults
    /\ \E c \in job[p].todo : job' = [job EXCEPT ![p].todo = @ \ {c}]
    /\ faults' = faults + 1
    /\ UNCHANGED <<archive, db, lock, pc, tx, idCache>>

Abort_Continue(p) ==
    /\ tx[p].open
    /\ faults < MaxFaults
    /\ faults' = faults + 1
    /\ tx' = [tx EXCEPT ![p] = NoTx]
    /\ job' = [job EXCEPT ![p].todo = @ \ tx[p].ciks]
    /\ UNCHANGED <<archive, db, lock, pc, idCache>>

\* The process is killed, or a download or a statement fails: every handler
\* rolls back and raises again, so run_update ends here in each case.
Abort(p) ==
    /\ pc[p] # "idle"
    /\ faults < MaxFaults
    /\ faults' = faults + 1
    /\ End(p)
    /\ UNCHANGED db

\* KeyboardInterrupt passes the handlers, which catch Exception, by; the exit
\* hook then finalizes every open connection, and finalize commits.  (Between
\* two statements; an interrupt within one breaks the connection: Abort.)
Interrupt(p) ==
    /\ Interrupts
    /\ pc[p] # "idle"
    /\ faults < MaxFaults
    /\ faults' = faults + 1
    /\ End(p)
    /\ db' = IF tx[p].open THEN tx[p].work ELSE db

-----------------------------------------------------------------------------
UpdateStep(p) ==
    \/ DownloadFacts(p) \/ ScanSubmissions(p) \/ SafetyStop(p)
    \/ ScanFacts(p) \/ AfterFacts(p) \/ AfterProcessed(p) \/ Finish(p)
    \/ Begin(p) \/ Statement(p) \/ Commit(p)

Next ==
    \/ \E c \in CIK : FileFinancials(c) \/ FileOther(c)
    \/ \E p \in Proc : Start(p) \/ UpdateStep(p) \/ SkipUnresolved(p)
                       \/ Abort(p) \/ Interrupt(p)

Spec == Init /\ [][Next]_vars

\* cron starts updates for ever and a running process is scheduled; nothing
\* is assumed of SEC, of crashes or of failures.
Fairness ==
    /\ WF_vars(\E p \in Proc : Start(p))
    /\ \A p \in Proc : WF_vars(UpdateStep(p))

FairSpec == Spec /\ Fairness

-----------------------------------------------------------------------------
(* Properties.                                                              *)

\* Types of the state.
TypeOK ==
    /\ archive \in [facts: Table, subs: Table]
    /\ db \in Db
    /\ lock \in Proc \cup {NoProc}
    /\ pc \in [Proc -> Phases]
    /\ job \in [Proc -> Job]
    /\ tx \in [Proc -> Tx]
    /\ idCache \in [Proc -> SUBSET Version]
    /\ faults \in 0..MaxFaults

\* A reader of the committed tables never sees a company torn between two
\* filings: the hash recorded in companies, the tags and the facts are of one
\* document.  The next diff trusts that hash, so a hash that runs ahead of
\* the rows would hide missing facts for ever.  (Without keyboard interrupts.)
RowsMatchHash ==
    \A c \in CIK : db.companies[c] = db.tags[c] /\ db.tags[c] = db.rows[c]

\* Every committed fact has its tag in xbrl_tags (the facts view joins them,
\* so a dangling tag_id makes the fact vanish).  A rolled back transaction
\* takes its new tags with it while the process may remember their ids.
TagsResolve == \A c \in CIK : db.rows[c] # None => db.rows[c] \in db.dims

\* In a history without failures what is derived from the facts (standardized
\* rows) and the tags (processed_ciks: the companies whose tags cover all three
\* statements) lags behind them only while the running update still has the
\* company to recompute.
LagIsQueued ==
    faults = 0 =>
      \A c \in CIK :
        /\ db.std[c] # db.rows[c] =>
             \E p \in Proc :
               \/ pc[p] \in {"facts", "processed"} /\ c \in job[p].changedFacts
               \/ pc[p] = "std" /\ c \in job[p].todo
        /\ (c \in db.processed) # (<<c, db.tags[c]>> \in Complete) =>
             \E p \in Proc :
               \/ pc[p] = "facts" /\ c \in job[p].changedFacts
               \/ pc[p] = "processed" /\ c \in job[p].todo

\* Without SEC_ALLOW_LARGE_UPDATE an update that looks at submissions
\* rewrites at most SEC_MAX_CHANGED_CIKS companies, in whichever table.
TouchedBy(p) == job[p].changedSubs \cup job[p].changedFacts
RowsOf(d, c) == <<d.companies[c], d.tags[c], d.rows[c], d.submissions[c],
                  d.deiFacts[c], d.deiSubs[c], d.std[c], c \in d.processed>>
BlastRadius ==
    [][\A c \in CIK : RowsOf(db', c) # RowsOf(db, c) =>
         \E p \in Proc :
           /\ lock = p /\ c \in TouchedBy(p)
           /\ job[p].skip \/ job[p].large \/ Cardinality(TouchedBy(p)) <= MaxChanged]_vars

\* An update ends and gives the lock back.
RunsEnd == (lock # NoProc) ~> (lock = NoProc)

\* Updates that skip submissions compare every document, so whatever crashes
\* and failures came before, the facts SEC serves reach the tables.
FactsConverge == <>[](db.companies = archive.facts /\ db.rows = archive.facts)

\* The facts of each company move, in one step and only forward, from one
\* published document to another.
Torn == -1
Mirror == INSTANCE FactsMirror WITH
    published <- archive.facts,
    mirror <- [c \in CIK |-> IF db.companies[c] = db.tags[c] /\ db.tags[c] = db.rows[c]
                             THEN db.companies[c] ELSE Torn]
MirrorsFacts == Mirror!Spec

-----------------------------------------------------------------------------
(* What the help text of --update promises and the code does not do.        *)

\* "re-ingest CIKs that changed since the last run": a company of the universe
\* whose facts changed is re-ingested sooner or later.  It need not be when a
\* filing arrives after companyfacts.zip is downloaded and before
\* submissions.zip is, nor when a run ends between the two: either way the new
\* submissions are recorded and the facts not looked at again.
EventuallyReingested ==
    \A c \in CIK : (c \in db.processed /\ db.companies[c] # archive.facts[c])
                      ~> (c \notin db.processed \/ db.companies[c] = archive.facts[c])
=============================================================================
