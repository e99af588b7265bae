---------------------------- MODULE ExportStream ----------------------------
(***************************************************************************)
(* The export of one table over the REST API (_export_csv_table and        *)
(* _stream_csv_to_parquet of sec_app/export_parquet.py).                   *)
(*                                                                         *)
(* The number of rows is asked first, once.  Then up to Attempts times a   *)
(* pump thread downloads the table and writes it into a pipe, while the    *)
(* main thread has DuckDB COPY the other end of the pipe into parquet and  *)
(* compares the rows copied with the number asked.                         *)
(*                                                                         *)
(* Data is counted in blocks, one being what a write moves; a block stands *)
(* for the rows it carries.  The main thread keeps its end r of the pipe   *)
(* open until it has joined the pump, so the pump never sees a broken      *)
(* pipe: when the pipe is full it waits.                                   *)
(***************************************************************************)
EXTENDS Integers

CONSTANTS
    Attempts,       \* attempts of _stream_csv_to_parquet
    QueryAttempts,  \* attempts of _json_query
    MaxRows,        \* bound: blocks in the table
    PipeSize,       \* blocks that fit in a pipe
    MaxChanges,     \* bound: commits to the branch during the export
    MaxFaults       \* bound: downloads cut short and statements that fail

ASSUME SizeAssumption ==
    /\ Attempts \in Nat \ {0} /\ QueryAttempts \in Nat \ {0} /\ PipeSize \in Nat \ {0}
    /\ MaxRows \in Nat /\ MaxChanges \in Nat /\ MaxFaults \in Nat

VARIABLES
    table,     \* blocks in the table on the branch
    changes,   \* commits so far
    faults,    \* faults so far
    pc,        \* where the main thread is
    queries,   \* queries for the count so far
    expected,  \* blocks counted
    attempt,   \* the current attempt
    got,       \* blocks copied by this attempt
    rOpen,     \* whether the read end of its pipe is open
    pump,      \* where its pump thread is
    sent,      \* blocks the server had when the download began
    body,      \* blocks of them the pump has still to move
    pipe,      \* blocks in the pipe
    wOpen,     \* whether its write end is open
    err        \* whether the pump recorded an exception

main == <<pc, queries, expected, attempt, got, rOpen>>
pumpVars == <<pump, sent, body, wOpen, err>>
exportVars == <<table, changes, faults, main, pumpVars, pipe>>

Rows == 0..MaxRows
Over == {"exported", "raised"}

ExportInit ==
    /\ table \in Rows
    /\ changes = 0 /\ faults = 0
    /\ pc = "count" /\ queries = 0 /\ expected = 0 /\ attempt = 0 /\ got = 0
    /\ pump = "ended" /\ sent = 0 /\ body = 0 /\ pipe = 0
    /\ rOpen = FALSE /\ wOpen = FALSE /\ err = FALSE

Fault ==
    /\ faults < MaxFaults
    /\ faults' = faults + 1

\* A commit to the branch that is exported.
Change ==
    /\ changes < MaxChanges /\ pc \notin Over
    /\ changes' = changes + 1
    /\ table' \in Rows
    /\ UNCHANGED <<faults, main, pumpVars, pipe>>

-----------------------------------------------------------------------------
(* _rest_count: SELECT COUNT(1), with the retries of _json_query.           *)

Count ==
    /\ pc = "count"
    /\ expected' = table
    /\ pc' = "start"
    /\ UNCHANGED <<table, changes, faults, queries, attempt, got, rOpen, pumpVars, pipe>>

\* A timeout, a network error or an unreadable answer.
CountFails ==
    /\ pc = "count" /\ Fault
    /\ queries' = queries + 1
    /\ pc' = IF queries + 1 < QueryAttempts THEN "count" ELSE "raised"
    /\ UNCHANGED <<table, changes, expected, attempt, got, rOpen, pumpVars, pipe>>

\* Any other failure that the API reports is not retried.
CountRefused ==
    /\ pc = "count" /\ Fault
    /\ pc' = "raised"
    /\ UNCHANGED <<table, changes, queries, expected, attempt, got, rOpen, pumpVars, pipe>>

-----------------------------------------------------------------------------
(* The pump thread.                                                         *)

Connect ==
    /\ pump = "connect"
    /\ sent' = table /\ body' = table
    /\ pump' = "read"
    /\ UNCHANGED <<table, changes, faults, main, wOpen, err, pipe>>

Read ==
    /\ pump = "read" /\ body > 0
    /\ pump' = "write"
    /\ UNCHANGED <<table, changes, faults, main, sent, body, wOpen, err, pipe>>

\* os.write returns once the pipe has taken the block.
Write ==
    /\ pump = "write" /\ pipe < PipeSize
    /\ body' = body - 1
    /\ pipe' = pipe + 1
    /\ pump' = "read"
    /\ UNCHANGED <<table, changes, faults, main, sent, wOpen, err>>

BodyEnds ==
    /\ pump = "read" /\ body = 0
    /\ pump' = "close"
    /\ UNCHANGED <<table, changes, faults, main, sent, body, wOpen, err, pipe>>

\* The server refuses the download, or the connection breaks.
DownloadFails ==
    /\ pump \in {"connect", "read"} /\ Fault
    /\ err' = TRUE
    /\ pump' = "close"
    /\ UNCHANGED <<table, changes, main, sent, body, wOpen, pipe>>

\* The connection ends early and read(n) takes it for the end of the body.
DownloadCut ==
    /\ pump = "read" /\ body > 0 /\ Fault
    /\ pump' = "close"
    /\ UNCHANGED <<table, changes, main, sent, body, wOpen, err, pipe>>

PumpCloses_LeavesOpen ==
    /\ pump = "close"
    /\ pump' = "ended"
    /\ UNCHANGED <<table, changes, faults, main, sent, body, wOpen, err, pipe>>

PumpCloses ==
    /\ pump = "close"
    /\ wOpen' = FALSE
    /\ pump' = "ended"
    /\ UNCHANGED <<table, changes, faults, main, sent, body, err, pipe>>

-----------------------------------------------------------------------------
(* The main thread.                                                         *)

StartAttempt ==
    /\ pc = "start"
    /\ attempt' = attempt + 1
    /\ got' = 0
    /\ rOpen' = TRUE /\ wOpen' = TRUE /\ pipe' = 0
    /\ err' = FALSE /\ sent' = 0 /\ body' = 0
    /\ pump' = "connect"
    /\ pc' = "copy"
    /\ UNCHANGED <<table, changes, faults, queries, expected>>

CopyBlock ==
    /\ pc = "copy" /\ pipe > 0
    /\ pipe' = pipe - 1
    /\ got' = got + 1
    /\ UNCHANGED <<table, changes, faults, pc, queries, expected, attempt, rOpen, pumpVars>>

\* End of file: the pipe is empty and nobody can write to it.
CopyDone ==
    /\ pc = "copy" /\ pipe = 0 /\ ~wOpen
    /\ pc' = "join"
    /\ UNCHANGED <<table, changes, faults, queries, expected, attempt, got, rOpen, pumpVars, pipe>>

\* DuckDB raises: a row it cannot parse, no memory, no room on the disk.
CopyFails ==
    /\ pc = "copy" /\ Fault
    /\ pc' = "except"
    /\ UNCHANGED <<table, changes, queries, expected, attempt, got, rOpen, pumpVars, pipe>>

\* What arrived of a broken download may end in the middle of a row.
CopyChokes ==
    /\ pc = "copy" /\ pipe = 0 /\ ~wOpen /\ body > 0
    /\ pc' = "except"
    /\ UNCHANGED <<table, changes, faults, queries, expected, attempt, got, rOpen, pumpVars, pipe>>

Accepted_AnyCount == ~err
\* The pump raised nothing and the rows are as many as were counted.
Accepted == ~err /\ got = expected

\* thread.join(), os.close(r), and the two checks.
Joined ==
    /\ pc = "join" /\ pump = "ended"
    /\ rOpen' = FALSE
    /\ pc' = IF Accepted THEN "exported" ELSE "except"
    /\ UNCHANGED <<table, changes, faults, queries, expected, attempt, got, pumpVars, pipe>>

GiveUp_OneEarly == attempt + 1 = Attempts

GiveUp == attempt = Attempts

FailedAttempt_NoJoin ==
    /\ pc = "except"
    /\ rOpen' = FALSE
    /\ pc' = IF GiveUp THEN "raised" ELSE "backoff"
    /\ UNCHANGED <<table, changes, faults, queries, expected, attempt, got, pumpVars, pipe>>

\* The handler joins the pump too, and only then closes the read end.
FailedAttempt ==
    /\ pc = "except" /\ pump = "ended"
    /\ rOpen' = FALSE
    /\ pc' = IF GiveUp THEN "raised" ELSE "backoff"
    /\ UNCHANGED <<table, changes, faults, queries, expected, attempt, got, pumpVars, pipe>>

BackedOff ==
    /\ pc = "backoff"
    /\ pc' = "start"
    /\ UNCHANGED <<table, changes, faults, queries, expected, attempt, got, rOpen, pumpVars, pipe>>

-----------------------------------------------------------------------------
PumpStep == Connect \/ Read \/ Write \/ BodyEnds \/ DownloadFails \/ DownloadCut \/ PumpCloses

MainStep ==
    \/ Count \/ CountFails \/ CountRefused
    \/ StartAttempt \/ CopyBlock \/ CopyDone \/ CopyFails \/ CopyChokes
    \/ Joined \/ FailedAttempt \/ BackedOff

ExportNext == Change \/ PumpStep \/ MainStep

ExportSpec == ExportInit /\ [][ExportNext]_exportVars

\* Both threads run whenever they can; nothing has to fail or to change.
FairExportSpec == ExportSpec /\ WF_exportVars(PumpStep) /\ WF_exportVars(MainStep)

-----------------------------------------------------------------------------
(* Properties.                                                              *)

\* Types of the state; there are never more attempts than allowed.
TypeOK ==
    /\ table \in Rows /\ expected \in Rows /\ sent \in Rows /\ body \in Rows
    /\ changes \in 0..MaxChanges /\ faults \in 0..MaxFaults
    /\ pc \in {"count", "start", "copy", "join", "except", "backoff"} \cup Over
    /\ queries \in 0..QueryAttempts /\ attempt \in 0..Attempts
    /\ got \in Rows /\ pipe \in 0..PipeSize
    /\ pump \in {"connect", "read", "write", "close", "ended"}
    /\ rOpen \in BOOLEAN /\ wOpen \in BOOLEAN /\ err \in BOOLEAN

\* While the branch stays put, the table that the manifest will list is the
\* whole table: no download that broke or was cut short, in this attempt or an
\* earlier one, is taken for it.
ExportsWholeTable == pc = "exported" /\ changes = 0 => got = table

\* Whatever the branch does, no table is exported from a download in which the
\* pump met an error, and what was moved is what was copied: nothing stays in
\* the pipe.
ExportsCleanDownload == pc = "exported" => ~err /\ pipe = 0 /\ got + body = sent

\* What is exported is good in both ways.
ExportsGoodTable == ExportsWholeTable /\ ExportsCleanDownload

\* When an attempt is over its pump has ended and both ends of its pipe are
\* closed: no thread writes into the pipe of a later attempt, and retries do
\* not use up file descriptors.
AttemptCleansUp ==
    pc \in {"backoff", "start"} \cup Over => pump = "ended" /\ ~rOpen /\ ~wOpen

\* Faults fewer than the attempts are survived: while the branch stays put, an
\* attempt fails only of a fault of its own, so the export of a counted table
\* is given up only after as many faults as there are attempts.
GivesUpForCause ==
    pc = "raised" /\ attempt > 0 /\ changes = 0 => faults >= Attempts

\* The export of a table that fits the pipe ends, whatever fails.
SmallExportEnds == [](table <= PipeSize) => <>(pc \in Over)

-----------------------------------------------------------------------------
(* What the handler of a failed attempt promises and the code does not do.  *)

\* "failed to stream {url} after {attempts} attempts": the export of a table
\* ends, with the table or with an exception.
ExportEnds == <>(pc \in Over)
=============================================================================
