---------------------------- MODULE GicsRebuild -----------------------------
(***************************************************************************)
(* The table of sector classifications, cik_gics: rebuild_gics.py and the  *)
(* pipelines that run it.                                                  *)
(*                                                                         *)
(* A rebuild computes the rows in one SELECT, drops the table, creates it  *)
(* and inserts the rows in batches, each statement committed by itself and *)
(* none under the lock that keeps updates apart: run_update returns at     *)
(* once when another update runs, and its pipeline goes on to the rebuild. *)
(* So rebuilds overlap each other and an update, and any of them may die.  *)
(*                                                                         *)
(* The stored facts go through versions 1, 2, ...; a row is the version it *)
(* was computed from, 0 for none.                                          *)
(***************************************************************************)
EXTENDS Integers, FiniteSets

CONSTANTS
    CIK,         \* companies
    Pipeline,    \* processes
    NoPipeline,  \* nobody holds the update lock
    MaxVersion,  \* bound: versions of the facts
    SicCode,     \* companies with an EntitySicCode fact, at each version
    Tradeable,   \* companies of primary_tickers
    Batch,       \* rows of one INSERT
    MaxCrashes   \* bound: processes that are killed

Version == 1..MaxVersion

ASSUME RebuildSizes == MaxVersion \in Nat \ {0} /\ Batch \in Nat \ {0} /\ MaxCrashes \in Nat
ASSUME RebuildInputs == SicCode \in [Version -> SUBSET CIK] /\ Tradeable \subseteq CIK
ASSUME RebuildLock == NoPipeline \notin Pipeline

VARIABLES
    facts,    \* version of the stored facts
    table,    \* cik_gics: is it there, and its rows
    lock,     \* holder of the update lock
    job,      \* where each pipeline is, and the rows it has to insert
    crashes,  \* processes killed so far
    solo,     \* history: pipelines that have been the only one since they began
    dropper,  \* history: the run that dropped the table last, {} once it failed
    won,      \* history: version of that run's rows once it has ended, 0 before
    clean     \* history: the last run was alone, has ended, facts still the same

dbVars == <<facts, table>>
history == <<solo, dropper, won, clean>>
rebuildVars == <<facts, table, lock, job, crashes, history>>

Table == [there: BOOLEAN, rows: [CIK -> 0..MaxVersion]]
NoTable == [there |-> FALSE, rows |-> [c \in CIK |-> 0]]

Phases == {"idle", "update", "select", "drop", "create", "insert"}
Job == [phase: Phases, version: 0..MaxVersion, todo: SUBSET CIK]
Idle == [phase |-> "idle", version |-> 0, todo |-> {}]
At(phase) == [Idle EXCEPT !.phase = phase]

Active == {p \in Pipeline : job[p].phase # "idle"}

RebuildInit ==
    /\ facts = 1
    /\ table = NoTable
    /\ lock = NoPipeline
    /\ job = [p \in Pipeline |-> Idle]
    /\ crashes = 0
    /\ solo = {} /\ dropper = {} /\ won = 0 /\ clean = FALSE

-----------------------------------------------------------------------------
(* run_pipeline.                                                            *)

Alone(p) == solo' = IF Active = {} THEN {p} ELSE {}

\* run_pipeline --update: the update with the lock held ...
BeginUpdate(p) ==
    /\ job[p].phase = "idle" /\ lock = NoPipeline
    /\ lock' = p
    /\ job' = [job EXCEPT ![p] = At("update")]
    /\ Alone(p)
    /\ UNCHANGED <<dbVars, crashes, dropper, won, clean>>

\* ... or not at all while another holds it; rebuild_gics by itself, and the
\* bulk pipeline, do not ask for it.
BeginRebuild(p) ==
    /\ job[p].phase = "idle"
    /\ job' = [job EXCEPT ![p] = At("select")]
    /\ Alone(p)
    /\ UNCHANGED <<dbVars, lock, crashes, dropper, won, clean>>

\* The update commits facts that classify companies differently.
Apply(p) ==
    /\ job[p].phase = "update" /\ facts < MaxVersion
    /\ facts' = facts + 1
    /\ clean' = FALSE
    /\ UNCHANGED <<table, lock, job, crashes, solo, dropper, won>>

Updated(p) ==
    /\ job[p].phase = "update"
    /\ lock' = NoPipeline
    /\ job' = [job EXCEPT ![p] = At("select")]
    /\ UNCHANGED <<dbVars, crashes, history>>

-----------------------------------------------------------------------------
(* rebuild.                                                                 *)

\* The companies the SELECT classifies: with a primary ticker and a SIC code.
Classified(v) == SicCode[v] \cap Tradeable

Select(p) ==
    /\ job[p].phase = "select"
    /\ job' = [job EXCEPT ![p] = [phase |-> "drop", version |-> facts,
                                  todo |-> Classified(facts)]]
    /\ UNCHANGED <<dbVars, lock, crashes, history>>

Drop_ClearsOwn(p) ==
    /\ job[p].phase = "drop"
    /\ table' = [there |-> FALSE,
                 rows |-> [c \in CIK |-> IF c \in job[p].todo THEN 0 ELSE table.rows[c]]]
    /\ job' = [job EXCEPT ![p].phase = "create"]
    /\ dropper' = {p} /\ won' = 0 /\ clean' = FALSE
    /\ UNCHANGED <<facts, lock, crashes, solo>>

Drop(p) ==
    /\ job[p].phase = "drop"
    /\ table' = NoTable
    /\ job' = [job EXCEPT ![p].phase = "create"]
    /\ dropper' = {p} /\ won' = 0 /\ clean' = FALSE
    /\ UNCHANGED <<facts, lock, crashes, solo>>

Create(p) ==
    /\ job[p].phase = "create" /\ ~table.there
    /\ table' = [table EXCEPT !.there = TRUE]
    /\ job' = [job EXCEPT ![p].phase = "insert"]
    /\ UNCHANGED <<facts, lock, crashes, history>>

\* The next rows to insert, in whatever order the SELECT returned them.
Chunks(p) ==
    {S \in SUBSET job[p].todo :
        S # {} /\ (Cardinality(S) = Batch \/ (S = job[p].todo /\ Cardinality(S) < Batch))}

Insertable_Replaces(p, S) == table.there

\* cik is the primary key.
Insertable(p, S) == table.there /\ \A c \in S : table.rows[c] = 0

Insert(p) ==
    /\ job[p].phase = "insert"
    /\ \E S \in Chunks(p) :
         /\ Insertable(p, S)
         /\ table' = [table EXCEPT !.rows =
                        [c \in CIK |-> IF c \in S THEN job[p].version ELSE @[c]]]
         /\ job' = [job EXCEPT ![p].todo = @ \ S]
    /\ UNCHANGED <<facts, lock, crashes, history>>

Finish(p) ==
    /\ job[p].phase = "insert" /\ job[p].todo = {}
    /\ job' = [job EXCEPT ![p] = Idle]
    /\ won' = IF p \in dropper THEN job[p].version ELSE won
    /\ clean' = (p \in solo /\ job[p].version = facts)
    /\ dropper' = dropper \ {p} /\ solo' = solo \ {p}
    /\ UNCHANGED <<dbVars, lock, crashes>>

-----------------------------------------------------------------------------
(* Failures.                                                                *)

Stopped(p) ==
    /\ job' = [job EXCEPT ![p] = Idle]
    /\ lock' = IF lock = p THEN NoPipeline ELSE lock
    /\ dropper' = dropper \ {p} /\ solo' = solo \ {p}
    /\ UNCHANGED <<dbVars, won, clean>>

\* The table is there when it is to be created, is not when rows are to be
\* inserted, or has rows of these companies already.
Conflict(p) ==
    \/ job[p].phase = "create" /\ table.there
    \/ job[p].phase = "insert" /\ \E S \in Chunks(p) : ~Insertable(p, S)

Raise(p) == Conflict(p) /\ Stopped(p) /\ UNCHANGED crashes

\* The process is killed, or its update or a statement fails.
Crash(p) ==
    /\ p \in Active /\ crashes < MaxCrashes
    /\ crashes' = crashes + 1
    /\ Stopped(p)

-----------------------------------------------------------------------------
RebuildStep(p) ==
    \/ Apply(p) \/ Updated(p) \/ Select(p) \/ Drop(p) \/ Create(p)
    \/ Insert(p) \/ Finish(p) \/ Raise(p)

RebuildNext ==
    \E p \in Pipeline : BeginUpdate(p) \/ BeginRebuild(p) \/ RebuildStep(p) \/ Crash(p)

RebuildSpec == RebuildInit /\ [][RebuildNext]_rebuildVars

-----------------------------------------------------------------------------
(* Properties.                                                              *)

\* Types of the state.
RebuildTypeOK ==
    /\ facts \in Version
    /\ table \in Table
    /\ lock \in Pipeline \cup {NoPipeline}
    /\ job \in [Pipeline -> Job]
    /\ crashes \in Nat
    /\ solo \subseteq Pipeline /\ dropper \subseteq Pipeline
    /\ won \in 0..MaxVersion /\ clean \in BOOLEAN

\* However rebuilds overlap, the one that dropped the table last has all of its
\* rows in it once it reports success: what others insert in between either
\* stays out of their way or makes one of the two fail.
LastDropWins ==
    won # 0 => table.there /\ \A c \in Classified(won) : table.rows[c] = won

\* After a run that had the database to itself the table is exactly the
\* classification of the stored facts, whatever earlier runs left behind.
SoloIsWhole ==
    clean => /\ table.there
             /\ table.rows = [c \in CIK |-> IF c \in Classified(facts) THEN facts ELSE 0]

\* Nor does such a run fail on what earlier runs left behind.
SoloNeverRaises == \A p \in solo : ~Conflict(p)

\* So a run without others repairs the table, and cannot be kept from it.
SoloRepairs == SoloIsWhole /\ SoloNeverRaises
=============================================================================
