--------------------------- MODULE ParquetProofs ----------------------------
(***************************************************************************)
(* Theorems about the Parquet files on their way from Dolt to the server.  *)
(*                                                                         *)
(* First the export of one table: for tables and pipes of any size and any *)
(* number of attempts, commits and faults.  Then the publication of the    *)
(* bundle and the containers that download it: for any set of files, any   *)
(* number of versions, and builds and containers that break off anywhere;  *)
(* where it is said, provided no file returns to content it had before.    *)
(***************************************************************************)
EXTENDS ExportStream, ParquetBundle, TLAPS

-----------------------------------------------------------------------------
(* The export of one table.                                                 *)


\* Types without the bounds that need the flow of blocks.
Types ==
    /\ table \in Rows /\ expected \in Rows /\ sent \in Rows /\ body \in Rows
    /\ changes \in 0..MaxChanges /\ faults \in 0..MaxFaults
    /\ pc \in {"count", "start", "copy", "join", "except", "backoff"} \cup Over
    /\ queries \in 0..QueryAttempts /\ attempt \in 0..Attempts
    /\ got \in Nat /\ pipe \in 0..PipeSize
    /\ pump \in {"connect", "read", "write", "close", "ended"}

\* (Kept apart from the numbers: no prover likes both.)
Flags == rOpen \in BOOLEAN /\ wOpen \in BOOLEAN /\ err \in BOOLEAN

\* Retries are left where the code goes on retrying.
Retries ==
    /\ pc = "count" => queries < QueryAttempts /\ attempt = 0
    /\ pc \in {"start", "backoff"} => attempt < Attempts

\* Every block of the download is copied, in the pipe, or still to be moved.
Flow ==
    /\ got + pipe + body = sent
    /\ pump = "connect" => sent = 0
    /\ pump = "write" => body > 0

\* The pump holds the write end as long as it runs, and the main thread runs
\* an attempt as long as the pump does.
Ends ==
    /\ wOpen = (pump # "ended")
    /\ pc \in {"count", "start", "backoff"} \cup Over => pump = "ended" /\ rOpen = FALSE
    /\ pc \in {"join", "exported"} => pipe = 0 /\ pump = "ended"

\* What the exported table was accepted for.
Checked == pc = "exported" => err = FALSE /\ got = expected

StreamInv == Types /\ Retries /\ Flow /\ Ends /\ Checked

\* The invariant holds at the start: there is no pump and nothing has moved.
LEMMA InitStream == ExportInit => StreamInv
<1> SUFFICES ASSUME ExportInit PROVE StreamInv
  OBVIOUS
<1> USE SizeAssumption DEF SizeAssumption, ExportInit, Rows, Over
<1>1. Types
  BY DEF Types
<1>2. Retries
  BY DEF Retries
<1>3. Flow
  BY DEF Flow
<1>4. Ends
  BY DEF Ends
<1>5. Checked
  BY DEF Checked
<1> QED
  BY <1>1, <1>2, <1>3, <1>4, <1>5 DEF StreamInv

\* The main thread's steps keep the invariant.
LEMMA MainKeeps == StreamInv /\ MainStep => StreamInv'
<1> SUFFICES ASSUME StreamInv, MainStep PROVE StreamInv'
  OBVIOUS
<1> USE SizeAssumption
        DEF SizeAssumption, StreamInv, Types, Retries, Flow, Ends, Checked,
            Rows, Over, pumpVars, Fault
<1>1. CASE Count
  BY <1>1 DEF Count
<1>2. CASE CountFails
  BY <1>2 DEF CountFails
<1>3. CASE CountRefused
  BY <1>3 DEF CountRefused
<1>4. CASE StartAttempt
  <2>1. wOpen' = TRUE /\ pump' = "connect" /\ pc' = "copy"
    BY <1>4 DEF StartAttempt
  <2>2. Ends'
    BY <2>1
  <2>3. (Types /\ Retries /\ Flow /\ Checked)'
    BY <1>4 DEF StartAttempt
  <2> QED
    BY <2>2, <2>3
<1>5. CASE CopyBlock
  BY <1>5 DEF CopyBlock
<1>6. CASE CopyDone
  BY <1>6 DEF CopyDone
<1>7. CASE CopyFails
  BY <1>7 DEF CopyFails
<1>8. CASE CopyChokes
  BY <1>8 DEF CopyChokes
<1>9. CASE Joined
  BY <1>9 DEF Joined, Accepted
<1>10. CASE FailedAttempt
  BY <1>10 DEF FailedAttempt, GiveUp
<1>11. CASE BackedOff
  BY <1>11 DEF BackedOff
<1> QED
  BY <1>1, <1>2, <1>3, <1>4, <1>5, <1>6, <1>7, <1>8, <1>9, <1>10, <1>11 DEF MainStep

\* The pump's steps keep the invariant.
LEMMA PumpKeeps == StreamInv /\ PumpStep => StreamInv'
<1> SUFFICES ASSUME StreamInv, PumpStep PROVE StreamInv'
  OBVIOUS
<1> USE SizeAssumption
        DEF SizeAssumption, StreamInv, Types, Retries, Flow, Ends, Checked, Rows, Over,
            main, Fault
<1>1. CASE Connect
  BY <1>1 DEF Connect
<1>2. CASE Read
  BY <1>2 DEF Read
<1>3. CASE Write
  BY <1>3 DEF Write
<1>4. CASE BodyEnds
  BY <1>4 DEF BodyEnds
<1>5. CASE DownloadFails
  BY <1>5 DEF DownloadFails
<1>6. CASE DownloadCut
  BY <1>6 DEF DownloadCut
<1>7. CASE PumpCloses
  BY <1>7 DEF PumpCloses
<1> QED
  BY <1>1, <1>2, <1>3, <1>4, <1>5, <1>6, <1>7 DEF PumpStep

\* So does a commit to the branch, and a stutter.
LEMMA OthersKeep == StreamInv /\ (Change \/ UNCHANGED exportVars) => StreamInv'
  BY SizeAssumption
     DEF SizeAssumption, StreamInv, Types, Retries, Flow, Ends, Checked, Rows, Over, Change,
         main, pumpVars, exportVars

\* Ends of pipes are open or closed, and an exception is recorded or not.
LEMMA FlagsHold == ExportSpec => []Flags
<1>1. ExportInit => Flags
  BY DEF ExportInit, Flags
<1>2. Flags /\ [ExportNext]_exportVars => Flags'
  <2> SUFFICES ASSUME Flags, [ExportNext]_exportVars PROVE Flags'
    OBVIOUS
  <2> USE DEF Flags, main, pumpVars
  <2>1. CASE Change
    BY <2>1 DEF Change
  <2>2. CASE MainStep
    BY <2>2 DEF MainStep, Count, CountFails, CountRefused, StartAttempt, CopyBlock, CopyDone,
                CopyFails, CopyChokes, Joined, FailedAttempt, BackedOff
  <2>3. CASE PumpStep
    BY <2>3 DEF PumpStep, Connect, Read, Write, BodyEnds, DownloadFails, DownloadCut, PumpCloses
  <2>4. CASE UNCHANGED exportVars
    BY <2>4 DEF exportVars
  <2> QED
    BY <2>1, <2>2, <2>3, <2>4 DEF ExportNext
<1> QED
  BY <1>1, <1>2, PTL DEF ExportSpec

\* The inductive invariant of the export, whatever fails and changes.
THEOREM StreamInvariant == ExportSpec => []StreamInv
<1>1. StreamInv /\ [ExportNext]_exportVars => StreamInv'
  BY MainKeeps, PumpKeeps, OthersKeep DEF ExportNext
<1> QED
  BY InitStream, <1>1, PTL DEF ExportSpec

\* The types of the state: there are never more attempts than allowed, and
\* never more blocks copied than the table has.
THEOREM ExportTypeCorrect == ExportSpec => []TypeOK
<1>1. StreamInv => got \in Rows
  BY SizeAssumption DEF SizeAssumption, StreamInv, Types, Flow, Rows
<1>2. StreamInv /\ Flags /\ got \in Rows => TypeOK
  BY DEF StreamInv, Types, Flags, TypeOK
<1> QED
  BY StreamInvariant, FlagsHold, <1>1, <1>2, PTL

\* A table is exported only from a download in which the pump met no error,
\* and with everything that was moved.
THEOREM OnlyCleanDownloads == ExportSpec => []ExportsCleanDownload
<1>1. StreamInv => ExportsCleanDownload
  BY SizeAssumption
     DEF SizeAssumption, StreamInv, Types, Flow, Ends, Checked, ExportsCleanDownload, Rows, Over
<1> QED
  BY StreamInvariant, <1>1, PTL

\* When an attempt is over its pump has ended and its pipe is closed.
THEOREM AttemptsCleanUp == ExportSpec => []AttemptCleansUp
<1>1. StreamInv => AttemptCleansUp
  BY DEF StreamInv, Types, Ends, AttemptCleansUp, Over
<1> QED
  BY StreamInvariant, <1>1, PTL

-----------------------------------------------------------------------------
\* While the branch stays put, what was counted is what the table has, and what
\* a download without an exception began with.
Still == changes = 0 =>
    /\ pc \notin {"count", "raised"} => expected = table
    /\ pump # "connect" /\ pc \in {"copy", "join"} /\ err = FALSE => sent = table

\* Every attempt that is over, and every broken download, had a fault.
Blamed == changes = 0 =>
    /\ pump \in {"connect", "read", "write"} => err = FALSE
    /\ pc \in {"start", "backoff", "except"} => faults >= attempt
    /\ pc \in {"copy", "join"} => faults >= attempt - 1
    /\ pc \in {"copy", "join"} /\ pump \in {"close", "ended"} /\ (err = TRUE \/ body > 0) =>
         faults >= attempt
    /\ pc = "raised" /\ attempt > 0 => faults >= Attempts

StillInv == Still /\ Blamed

\* The main thread's steps keep it: an attempt whose download had no fault
\* brings as many blocks as were counted.
LEMMA MainKeepsStill == StreamInv /\ Flags /\ StillInv /\ MainStep => StillInv'
<1> SUFFICES ASSUME StreamInv, Flags, StillInv, MainStep PROVE StillInv'
  OBVIOUS
<1> USE SizeAssumption
        DEF SizeAssumption, StreamInv, Types, Retries, Flow, Ends, StillInv, Still, Blamed,
            Rows, Over, pumpVars, Fault
<1>1. CASE Count
  BY <1>1 DEF Count
<1>2. CASE CountFails
  BY <1>2 DEF CountFails
<1>3. CASE CountRefused
  BY <1>3 DEF CountRefused
<1>4. CASE StartAttempt
  BY <1>4 DEF StartAttempt
<1>5. CASE CopyBlock
  BY <1>5 DEF CopyBlock
<1>6. CASE CopyDone
  BY <1>6 DEF CopyDone
<1>7. CASE CopyFails
  BY <1>7 DEF CopyFails
<1>8. CASE CopyChokes
  <2>1. pump = "ended"
    BY <1>8 DEF CopyChokes
  <2> QED
    BY <1>8, <2>1 DEF CopyChokes
<1>9. CASE Joined
  <2>1. ~Accepted => err = TRUE \/ (err = FALSE /\ got # expected)
    BY DEF Accepted, Flags
  <2>2. changes = 0 /\ ~Accepted => faults >= attempt
    BY <1>9, <2>1 DEF Joined
  <2>3. Still'
    BY <1>9 DEF Joined
  <2>4. Blamed'
    BY <1>9, <2>2 DEF Joined
  <2> QED
    BY <2>3, <2>4
<1>10. CASE FailedAttempt
  BY <1>10 DEF FailedAttempt, GiveUp
<1>11. CASE BackedOff
  BY <1>11 DEF BackedOff
<1> QED
  BY <1>1, <1>2, <1>3, <1>4, <1>5, <1>6, <1>7, <1>8, <1>9, <1>10, <1>11 DEF MainStep

\* The pump's steps keep it: only a fault ends a download early.
LEMMA PumpKeepsStill == StreamInv /\ StillInv /\ PumpStep => StillInv'
<1> SUFFICES ASSUME StreamInv, StillInv, PumpStep PROVE StillInv'
  OBVIOUS
<1> USE SizeAssumption
        DEF SizeAssumption, StreamInv, Types, Retries, Flow, Ends, StillInv, Still, Blamed,
            Rows, Over, main, Fault
<1>1. CASE Connect
  BY <1>1 DEF Connect
<1>2. CASE Read
  BY <1>2 DEF Read
<1>3. CASE Write
  BY <1>3 DEF Write
<1>4. CASE BodyEnds
  BY <1>4 DEF BodyEnds
<1>5. CASE DownloadFails
  BY <1>5 DEF DownloadFails
<1>6. CASE DownloadCut
  BY <1>6 DEF DownloadCut
<1>7. CASE PumpCloses
  BY <1>7 DEF PumpCloses
<1> QED
  BY <1>1, <1>2, <1>3, <1>4, <1>5, <1>6, <1>7 DEF PumpStep

\* A commit ends the time in which the branch stays put.
LEMMA OthersKeepStill == StreamInv /\ StillInv /\ (Change \/ UNCHANGED exportVars) => StillInv'
<1> SUFFICES ASSUME StreamInv, StillInv, Change \/ UNCHANGED exportVars PROVE StillInv'
  OBVIOUS
<1>1. CASE Change
  <2>1. changes' # 0
    BY <1>1, SizeAssumption DEF SizeAssumption, Change, StreamInv, Types
  <2> QED
    BY <2>1 DEF StillInv, Still, Blamed
<1>2. CASE UNCHANGED exportVars
  BY <1>2 DEF StillInv, Still, Blamed, exportVars, main, pumpVars
<1> QED
  BY <1>1, <1>2

\* What holds while nothing is committed to the branch.
THEOREM StillInvariant == ExportSpec => []StillInv
<1>1. ExportInit => StillInv
  BY SizeAssumption DEF SizeAssumption, ExportInit, StillInv, Still, Blamed
<1>2. StreamInv /\ Flags /\ StillInv /\ [ExportNext]_exportVars => StillInv'
  BY MainKeepsStill, PumpKeepsStill, OthersKeepStill DEF ExportNext
<1> QED
  BY StreamInvariant, FlagsHold, <1>1, <1>2, PTL DEF ExportSpec

\* While nothing is committed an exported table is whole, whatever fails on
\* the way.
THEOREM WholeTables == ExportSpec => []ExportsWholeTable
<1>1. StreamInv /\ StillInv => ExportsWholeTable
  BY DEF StreamInv, Checked, StillInv, Still, ExportsWholeTable
<1> QED
  BY StreamInvariant, StillInvariant, <1>1, PTL

\* An exported table comes from a clean download and, while nothing is
\* committed, is whole.
THEOREM GoodTables == ExportSpec => []ExportsGoodTable
  BY OnlyCleanDownloads, WholeTables, PTL DEF ExportsGoodTable

\* The export of a counted table is given up only after as many faults as
\* there are attempts.
THEOREM SurvivesFewerFaults == ExportSpec => []GivesUpForCause
<1>1. StillInv => GivesUpForCause
  BY DEF StillInv, Blamed, GivesUpForCause
<1> QED
  BY StillInvariant, <1>1, PTL

-----------------------------------------------------------------------------
(* The release and the containers.                                          *)


\* What is read page by page from one version to another is the content of one
\* of them, or torn between two that differ.
LEMMA PagesAreContent ==
  ASSUME NEW f \in File, NEW u \in Version, NEW v \in Version, NEW x \in Pages(f, u, v)
  PROVE  /\ x \in Nat
         /\ \/ \E w \in u..v : x = Content[w][f]
            \/ x = Torn[u][v] /\ u < v /\ \E w \in u..v : Content[w][f] # Content[u][f]
<1> USE ReleaseSizes DEF ReleaseSizes, Version
<1>1. CASE \E w \in u..v : x = Content[w][f]
  <2>1. PICK w \in u..v : x = Content[w][f]
    BY <1>1
  <2>2. w \in Version
    OBVIOUS
  <2> QED
    BY <2>1, <2>2, ContentAssumption DEF ContentAssumption
<1>2. CASE x = Torn[u][v] /\ \E w \in u..v : Content[w][f] # Content[u][f]
  <2>1. x \in Nat
    BY <1>2, TornAssumption DEF TornAssumption
  <2>2. PICK w \in u..v : Content[w][f] # Content[u][f]
    BY <1>2
  <2>3. u < v
    BY <2>2
  <2> QED
    BY <1>2, <2>1, <2>3
<1> QED
  BY <1>1, <1>2 DEF Pages

LEMMA ReleaseTypeInit == ReleaseInit => ReleaseTypeOK
  BY ReleaseSizes
     DEF ReleaseSizes, ReleaseInit, ReleaseTypeOK, Version, NoManifest, Nothing, Manifest,
         BuildPhases, Job

LEMMA ReleaseTypeNext == ReleaseTypeOK /\ ReleaseNext => ReleaseTypeOK'
<1> SUFFICES ASSUME ReleaseTypeOK, ReleaseNext PROVE ReleaseTypeOK'
  OBVIOUS
<1> USE ReleaseSizes, ContentAssumption
        DEF ReleaseSizes, ContentAssumption, ReleaseTypeOK, Version, Manifest, NoManifest,
            Nothing, BuildPhases, Goto, Job, Fail
<1>1. CASE Commit
  BY <1>1 DEF Commit
<1>2. CASE StartBuild
  BY <1>2 DEF StartBuild
<1>3. ASSUME NEW f \in File, ReadTable(f) PROVE ReleaseTypeOK'
  <2>1. branch \in Version /\ Content[branch][f] \in Nat
    OBVIOUS
  <2>2. new.sha \in [File -> Nat] /\ new.version \in 0..MaxVersion
    OBVIOUS
  <2>3. [new.sha EXCEPT ![f] = Content[branch][f]] \in [File -> Nat]
    BY <2>1, <2>2
  <2>4. new' = [version |-> new.version, sha |-> [new.sha EXCEPT ![f] = Content[branch][f]]]
    BY <1>3 DEF ReadTable
  <2>5. new' \in Manifest
    BY <2>2, <2>3, <2>4
  <2> QED
    BY <1>3, <2>5 DEF ReadTable
<1>4. CASE FirstPage
  <2>1. job' = [phase |-> "export", file |-> Paged, since |-> branch] /\ todo = Paged
        /\ UNCHANGED <<branch, listed, asset, new, todo, missed, failures>>
    BY <1>4 DEF FirstPage
  <2>2. job' \in [phase: BuildPhases, file: SUBSET File, since: 0..MaxVersion]
    BY <2>1
  <2>3. job'.phase = "export" /\ job'.since = branch /\ job'.file \subseteq todo'
    BY <2>1
  <2> QED
    BY <2>1, <2>2, <2>3
<1>5. CASE LastPage
  <2>1. job.since \in Version /\ branch \in Version
    BY <1>5 DEF LastPage
  <2>2. PICK read \in [Paged -> UNION {Pages(f, job.since, branch) : f \in Paged}] :
          /\ \A f \in Paged : read[f] \in Pages(f, job.since, branch)
          /\ new' = [new EXCEPT !.sha = [f \in File |-> IF f \in Paged THEN read[f] ELSE new.sha[f]]]
    BY <1>5 DEF LastPage
  <2>3. ASSUME NEW f \in Paged PROVE read[f] \in Nat
    BY <2>1, <2>2, PagesAreContent, TornAssumption DEF TornAssumption
  <2>4. new.sha \in [File -> Nat] /\ new.version \in 0..MaxVersion
    OBVIOUS
  <2>5. [f \in File |-> IF f \in Paged THEN read[f] ELSE new.sha[f]] \in [File -> Nat]
    BY <2>3, <2>4
  <2>6. new' = [version |-> new.version,
                sha |-> [f \in File |-> IF f \in Paged THEN read[f] ELSE new.sha[f]]]
    BY <2>2
  <2>7. new' \in Manifest
    BY <2>4, <2>5, <2>6
  <2> QED
    <3>1. job' = [phase |-> "export", file |-> {}, since |-> 0] /\ todo' = {}
          /\ UNCHANGED <<branch, listed, asset, missed, failures>>
      BY <1>5 DEF LastPage
    <3>2. job' \in [phase: BuildPhases, file: SUBSET File, since: 0..MaxVersion] /\ job'.file = {}
      BY <3>1
    <3> QED
      BY <2>7, <3>1, <3>2
<1>6. CASE Diff
  BY <1>6 DEF Diff, Outdated, Files
<1>7. CASE DiffWithNothing
  BY <1>7 DEF DiffWithNothing, Outdated, Files
<1>8. ASSUME NEW f \in File, Clobber(f) PROVE ReleaseTypeOK'
  <2>1. f \in todo /\ job' = [phase |-> "put", file |-> {f}, since |-> 0]
        /\ asset' = [asset EXCEPT ![f] = 0]
        /\ UNCHANGED <<branch, listed, new, todo, missed, failures>>
    BY <1>8 DEF Clobber
  <2>2. asset' \in [File -> Nat]
    BY <2>1
  <2>3. job' \in [phase: BuildPhases, file: SUBSET File, since: 0..MaxVersion] /\ job'.file \subseteq todo'
    BY <2>1
  <2>4. job'.phase = "put" /\ todo' \in SUBSET File /\ missed' \in 0..failures'
    BY <2>1
  <2>5. branch' \in Version /\ listed' \in Manifest /\ new' \in Manifest /\ failures' \in 0..MaxFailures
    BY <2>1
  <2> HIDE DEF Version, Manifest, BuildPhases
  <2> QED
    BY <2>2, <2>3, <2>4, <2>5
<1>9. ASSUME NEW f \in File, Put(f) PROVE ReleaseTypeOK'
  BY <1>9 DEF Put
<1>10. CASE ClobberManifest
  BY <1>10 DEF ClobberManifest, Uploaded
<1>11. CASE PutManifest
  BY <1>11 DEF PutManifest
<1>12. ASSUME NEW f \in File, Prune(f) PROVE ReleaseTypeOK'
  <2>1. PICK kept \in {0, asset[f]} : asset' = [asset EXCEPT ![f] = kept]
    BY <1>12 DEF Prune
  <2>2. asset' \in [File -> Nat]
    BY <2>1
  <2> QED
    BY <1>12, <2>2 DEF Prune
<1>13. CASE Published
  BY <1>13 DEF Published
<1>14. CASE BuildFails
  BY <1>14 DEF BuildFails
<1> QED
  BY <1>1, <1>2, <1>3, <1>6, <1>7, <1>8, <1>9, <1>10, <1>11, <1>12, <1>13, <1>14, <1>4, <1>5
     DEF ReleaseNext, BuildStep

-----------------------------------------------------------------------------
\* No file returns to content it had before.
NoReturn ==
    \A f \in File : \A u, v, w \in Version :
        /\ u <= v /\ v <= w
        /\ Content[u][f] = Content[w][f] /\ Content[u][f] # 0
        => Content[v][f] = Content[u][f]

\* x is what f held at a version from lo to hi, or is torn between two of them
\* while f changed.
Holds(f, x, lo, hi) ==
    \/ \E a \in lo..hi : x = Content[a][f]
    \/ \E u, v \in lo..hi :
         x = Torn[u][v] /\ u < v /\ \E w \in u..v : Content[w][f] # Content[u][f]

\* The version up to which the manifest of the release was written: a build
\* that has begun reads everything after that.
Base == IF job.phase \in {"export", "upload", "put"} THEN new.version ELSE branch

\* The build has read f, at its version or a later one.
ReadIn(f) ==
    \/ job.phase = "export" /\ f \notin todo
    \/ job.phase \in {"upload", "put", "list"}
FileRead(f) == ReadIn(f) => Holds(f, new.sha[f], new.version, branch)

\* What the build has still to do with f.
FileTodo(f) ==
    /\ job.phase = "list" => f \notin todo
    /\ job.phase = "prune" /\ f \in todo => listed.sha[f] = 0
    /\ missed = 0 /\ job.phase \in {"upload", "put"} /\ f \in todo =>
         new.sha[f] # 0 /\ listed.sha[f] # new.sha[f]
    /\ job.phase \in {"upload", "put", "list"} /\ f \notin todo /\ new.sha[f] # 0 =>
         asset[f] = new.sha[f] \/ (missed # 0 /\ asset[f] = 0)

\* Manifest m lists f as it was read from its version on, or torn ...
FileListed(m, f) ==
    /\ m.version = 0 => m.sha[f] = 0
    /\ m.version # 0 => Holds(f, m.sha[f], m.version, Base)

\* ... and this is outdated: since before the build that runs, or by its files.
Superseded(m, f) ==
    \/ m.sha[f] # Content[Base][f]
    \/ job.phase \in {"upload", "put"} /\ m.sha[f] # new.sha[f]

\* A manifest that has been listed: another asset of that name means that what
\* it lists is outdated.
Known(m, f) ==
    /\ FileListed(m, f)
    /\ m.sha[f] # 0 /\ asset[f] \notin {0, m.sha[f]} => Superseded(m, f)

\* So does a missing asset for the one that is listed, unless a build has missed
\* the manifest.
FileDamaged(f) ==
    missed = 0 /\ listed.sha[f] # 0 /\ asset[f] # listed.sha[f] => Superseded(listed, f)

JobInv ==
    /\ job.phase # "idle" => new.version \in 1..branch
    /\ job.phase = "list" => listed.version = 0
    /\ job.phase = "export" /\ job.file # {} =>
         job.file = Paged /\ todo = Paged /\ job.since \in new.version..branch

FileWork(f) == FileRead(f) /\ FileTodo(f) /\ FileDamaged(f)
WorkInv == JobInv /\ \A f \in File : FileWork(f)
DamageInv == WorkInv /\ \A f \in File : Known(listed, f)

\* Content that was left behind does not come back.
LEMMA StaysBehind ==
  ASSUME NoReturn, NEW f \in File, NEW u \in Version, NEW v \in Version, NEW w \in Version,
         u <= v, v <= w, Content[u][f] # 0, Content[v][f] # Content[u][f]
  PROVE  Content[w][f] # Content[u][f]
  BY DEF NoReturn

\* What was read in one span of versions was read in any wider one.
LEMMA HoldsLonger ==
  ASSUME NEW f, NEW x, NEW lo \in Nat, NEW hi \in Nat, NEW low \in Nat, NEW high \in Nat,
         low <= lo, hi <= high, Holds(f, x, lo, hi)
  PROVE  Holds(f, x, low, high)
<1>1. lo..hi \subseteq low..high
  OBVIOUS
<1> QED
  BY <1>1 DEF Holds

\* What was read after version a and differs from it shows that f has changed,
\* be it torn or not: f does not hold again what it held at a.
LEMMA ReadDiffers ==
  ASSUME NoReturn, NEW f \in File, NEW x, NEW a \in Version, NEW lo \in Version, NEW hi \in Version,
         NEW w \in Version, a <= lo, hi <= w, Holds(f, x, lo, hi),
         Content[a][f] # 0, x # Content[a][f]
  PROVE  Content[w][f] # Content[a][f]
<1> USE ReleaseSizes DEF ReleaseSizes, Version
<1>1. ASSUME NEW v \in lo..hi, Content[v][f] # Content[a][f] PROVE Content[w][f] # Content[a][f]
  BY <1>1, StaysBehind
<1>2. CASE \E v \in lo..hi : x = Content[v][f]
  BY <1>1, <1>2
<1>3. CASE \E u, v \in lo..hi : \E y \in u..v : Content[y][f] # Content[u][f]
  <2>1. PICK u \in lo..hi, v \in lo..hi : \E y \in u..v : Content[y][f] # Content[u][f]
    BY <1>3
  <2>2. PICK y \in u..v : Content[y][f] # Content[u][f]
    BY <2>1
  <2>3. y \in lo..hi
    OBVIOUS
  <2> QED
    BY <1>1, <2>2, <2>3
<1> QED
  BY <1>2, <1>3 DEF Holds

\* What is read again after version mid as it was read up to mid is what f holds
\* at mid: two torn readings are never the same.
LEMMA ReadAgain ==
  ASSUME NoReturn, NEW f \in File, NEW x, NEW lo \in Version, NEW mid \in Version, NEW hi \in Version,
         x # 0, Holds(f, x, lo, mid), Holds(f, x, mid, hi)
  PROVE  x = Content[mid][f]
<1> USE ReleaseSizes DEF ReleaseSizes, Version
<1>1. ASSUME NEW u \in Version, NEW v \in Version, NEW w \in Version PROVE Torn[u][v] # Content[w][f]
  BY TornAssumption DEF TornAssumption
<1>2. CASE \E a \in lo..mid : x = Content[a][f]
  <2>1. PICK a \in lo..mid : x = Content[a][f]
    BY <1>2
  <2>2. a \in Version
    OBVIOUS
  <2>3. PICK b \in mid..hi : x = Content[b][f]
    BY <1>1, <2>1, <2>2 DEF Holds
  <2>4. b \in Version /\ a <= mid /\ mid <= b
    OBVIOUS
  <2> QED
    <3>1. Content[a][f] = Content[b][f] /\ Content[a][f] # 0
      BY <2>1, <2>3
    <3>2. Content[mid][f] = Content[a][f]
      BY <2>2, <2>4, <3>1 DEF NoReturn
    <3> QED
      BY <2>1, <3>2
<1>3. CASE \E u, v \in lo..mid : x = Torn[u][v] /\ u < v
  <2>1. PICK u \in lo..mid, v \in lo..mid : x = Torn[u][v] /\ u < v
    BY <1>3
  <2>2. u \in Version /\ v \in Version
    OBVIOUS
  <2>3. PICK y \in mid..hi, z \in mid..hi : x = Torn[y][z]
    BY <1>1, <2>1, <2>2 DEF Holds
  <2>4. y \in Version /\ z \in Version
    OBVIOUS
  <2>5. u = y
    BY <2>1, <2>2, <2>3, <2>4, TornAssumption DEF TornAssumption
  <2> QED
    BY <2>1, <2>5
<1> QED
  BY <1>2, <1>3 DEF Holds

\* Torn contents are those of no version.
LEMMA TornIsNone ==
  ASSUME NEW f \in File, NEW u \in Version, NEW v \in Version, NEW w \in Version
  PROVE  Torn[u][v] # Content[w][f]
  BY TornAssumption DEF TornAssumption

\* What is superseded now is outdated at every version from now on.
LEMMA SupersededIsOutdated ==
  ASSUME NoReturn, ReleaseTypeOK, WorkInv, NEW m \in Manifest, NEW f \in File,
         FileListed(m, f), m.sha[f] # 0, Superseded(m, f), NEW w \in Version, branch <= w
  PROVE  m.sha[f] # Content[w][f]
<1> USE ReleaseSizes DEF ReleaseSizes, ReleaseTypeOK, Version, Manifest
<1>1. m.version \in Version /\ Holds(f, m.sha[f], m.version, Base)
  BY DEF FileListed
<1>2. FileRead(f) /\ JobInv
  BY DEF WorkInv, FileWork
<1>3. Base \in Version /\ Base <= branch
  BY <1>2 DEF Base, JobInv
<1>4. CASE \E a \in m.version..Base : m.sha[f] = Content[a][f]
  <2>1. PICK a \in m.version..Base : m.sha[f] = Content[a][f]
    BY <1>4
  <2>2. a \in Version /\ a <= Base /\ Base <= w
    BY <1>1, <1>3
  <2>3. CASE m.sha[f] # Content[Base][f]
    BY <2>1, <2>2, <2>3, <1>3, StaysBehind
  <2>4. CASE job.phase \in {"upload", "put"} /\ m.sha[f] # new.sha[f]
    <3>1. Holds(f, new.sha[f], new.version, branch) /\ Base = new.version
      BY <1>2, <2>4 DEF FileRead, ReadIn, Base
    <3> QED
      BY <1>3, <2>1, <2>2, <2>4, <3>1, ReadDiffers
  <2> QED
    BY <2>3, <2>4 DEF Superseded
<1>5. CASE \E u, v \in m.version..Base : m.sha[f] = Torn[u][v]
  <2>1. PICK u \in m.version..Base, v \in m.version..Base : m.sha[f] = Torn[u][v]
    BY <1>5
  <2>2. u \in Version /\ v \in Version
    BY <1>1, <1>3
  <2> QED
    BY <2>1, <2>2, TornIsNone
<1> QED
  BY <1>1, <1>4, <1>5 DEF Holds

\* A build reads everything after what was listed before it, in every step.
LEMMA BaseMovesOn ==
  ASSUME ReleaseTypeOK, JobInv, ReleaseNext PROVE Base \in Nat /\ Base' \in Nat /\ Base <= Base'
<1> USE ReleaseSizes DEF ReleaseSizes, ReleaseTypeOK, Version, Manifest, Base, JobInv, Goto, Job
<1>1. CASE Commit \/ StartBuild \/ Published
  BY <1>1 DEF Commit, StartBuild, Published
<1>2. ASSUME NEW f \in File, ReadTable(f) PROVE Base \in Nat /\ Base' \in Nat /\ Base <= Base'
  BY <1>2 DEF ReadTable
<1>3. CASE FirstPage
  BY <1>3 DEF FirstPage
<1>4. CASE LastPage
  <2>1. new'.version = new.version
    BY <1>4 DEF LastPage
  <2> QED
    BY <1>4, <2>1 DEF LastPage
<1>5. CASE Diff \/ DiffWithNothing
  BY <1>5 DEF Diff, DiffWithNothing
<1>6. ASSUME NEW f \in File, Clobber(f) \/ Put(f) PROVE Base \in Nat /\ Base' \in Nat /\ Base <= Base'
  BY <1>6 DEF Clobber, Put
<1>7. CASE ClobberManifest
  BY <1>7 DEF ClobberManifest, Uploaded
<1>8. CASE PutManifest
  BY <1>8 DEF PutManifest
<1>9. ASSUME NEW f \in File, Prune(f) PROVE Base \in Nat /\ Base' \in Nat /\ Base <= Base'
  BY <1>9 DEF Prune
<1>10. CASE BuildFails
  BY <1>10 DEF BuildFails
<1> QED
  BY <1>1, <1>2, <1>3, <1>4, <1>5, <1>6, <1>7, <1>8, <1>9, <1>10 DEF ReleaseNext, BuildStep

\* What is known of a manifest stays so, whatever the build does.
LEMMA KnownStays ==
  ASSUME NoReturn, ReleaseTypeOK, WorkInv, ReleaseNext,
         NEW m \in Manifest, NEW f \in File, Known(m, f)
  PROVE  Known(m, f)'
<1> USE ReleaseSizes DEF ReleaseSizes, ReleaseTypeOK, Version, Manifest
<1>1. JobInv /\ FileListed(m, f)
  BY DEF WorkInv, Known
<1>2. Base \in Nat /\ Base' \in Nat /\ Base <= Base'
  BY <1>1, BaseMovesOn
<1>3. m.version # 0 => Holds(f, m.sha[f], m.version, Base')
  BY <1>1, <1>2, HoldsLonger DEF FileListed
<1>4. FileListed(m, f)'
  BY <1>1, <1>3 DEF FileListed
<1> DEFINE Other == m.sha[f] # 0 /\ asset[f] \notin {0, m.sha[f]}
<1>5. Other => Superseded(m, f)
  BY DEF Known
<1>6. ASSUME Other, NEW w \in Version, branch <= w PROVE m.sha[f] # Content[w][f]
  BY <1>1, <1>5, <1>6, SupersededIsOutdated
<1>7. SUFFICES ASSUME Other' PROVE Superseded(m, f)'
  BY <1>4 DEF Known
<1>8. CASE Commit
  <2>1. branch' \in Version /\ branch <= branch' /\ Other /\ UNCHANGED <<job, new>>
    BY <1>7, <1>8 DEF Commit
  <2>2. m.sha[f] # Content[branch'][f]
    BY <1>6, <2>1
  <2> QED
    BY <1>5, <2>1, <2>2 DEF Superseded, Base
<1>9. CASE StartBuild \/ Published
  BY <1>5, <1>7, <1>9 DEF StartBuild, Published, Goto, Job, Superseded, Base
<1>10. ASSUME NEW g \in File, ReadTable(g) PROVE Superseded(m, f)'
  BY <1>5, <1>7, <1>10 DEF ReadTable, Superseded, Base
<1>11. CASE FirstPage
  BY <1>5, <1>7, <1>11 DEF FirstPage, Job, Superseded, Base
<1>12. CASE LastPage
  <2>1. new'.version = new.version /\ job.phase = "export"
    BY <1>12 DEF LastPage
  <2> QED
    BY <1>5, <1>7, <1>12, <2>1 DEF LastPage, Goto, Job, Superseded, Base
<1>13. CASE Diff \/ DiffWithNothing
  BY <1>5, <1>7, <1>13 DEF Diff, DiffWithNothing, Goto, Job, Superseded, Base
<1>14. ASSUME NEW g \in File, Clobber(g) PROVE Superseded(m, f)'
  BY <1>5, <1>7, <1>14 DEF Clobber, Job, Superseded, Base
<1>15. ASSUME NEW g \in File, Put(g) PROVE Superseded(m, f)'
  <2>1. job.phase = "put" /\ job'.phase = "upload" /\ new' = new /\ branch' = branch
        /\ asset' = [asset EXCEPT ![g] = new.sha[g]]
    BY <1>15 DEF Put, Goto, Job
  <2>2. CASE f = g
    BY <1>7, <2>1, <2>2 DEF Superseded
  <2>3. CASE f # g
    BY <1>5, <1>7, <2>1, <2>3 DEF Superseded, Base
  <2> QED
    BY <2>2, <2>3
<1>16. CASE ClobberManifest \/ BuildFails
  <2>1. Other /\ branch' = branch /\ job'.phase \in {"list", "idle"}
    BY <1>7, <1>16 DEF ClobberManifest, Uploaded, BuildFails, Goto, Job
  <2>2. m.sha[f] # Content[branch][f]
    BY <1>6, <2>1
  <2> QED
    BY <2>1, <2>2 DEF Superseded, Base
<1>17. CASE PutManifest
  BY <1>5, <1>7, <1>17 DEF PutManifest, Goto, Job, Superseded, Base
<1>18. ASSUME NEW g \in File, Prune(g) PROVE Superseded(m, f)'
  <2>1. PICK kept \in {0, asset[g]} : asset' = [asset EXCEPT ![g] = kept]
    BY <1>18 DEF Prune
  <2>2. Other
    BY <1>7, <2>1
  <2> QED
    BY <1>5, <1>18, <2>2 DEF Prune, Superseded, Base
<1> QED
  BY <1>8, <1>9, <1>10, <1>11, <1>12, <1>13, <1>14, <1>15, <1>16, <1>17, <1>18
     DEF ReleaseNext, BuildStep

\* The manifest a build puts there is known from then on.
LEMMA PutManifestListsKnown ==
  ASSUME ReleaseTypeOK, WorkInv, PutManifest, NEW f \in File PROVE Known(listed, f)'
<1> USE ReleaseSizes DEF ReleaseSizes, ReleaseTypeOK, Version, Manifest
<1>1. /\ job.phase = "list" /\ job'.phase = "prune" /\ listed' = new
      /\ UNCHANGED <<branch, asset, new>>
  BY DEF PutManifest, Goto, Job
<1>2. FileRead(f) /\ FileTodo(f) /\ JobInv
  BY DEF WorkInv, FileWork
<1>3. Holds(f, new.sha[f], new.version, branch) /\ new.version # 0
  BY <1>1, <1>2 DEF FileRead, ReadIn, JobInv
<1>4. new.sha[f] # 0 => asset[f] \in {0, new.sha[f]}
  BY <1>1, <1>2 DEF FileTodo
<1> QED
  BY <1>1, <1>3, <1>4 DEF Known, FileListed, Base, Holds

\* What is known of the listed manifest.
LEMMA ListedStaysKnown ==
  ASSUME NoReturn, ReleaseTypeOK, DamageInv, ReleaseNext, NEW f \in File PROVE Known(listed, f)'
<1>1. CASE PutManifest
  BY <1>1, PutManifestListsKnown DEF DamageInv
<1>2. CASE ClobberManifest
  <2>1. listed'.version = 0 /\ listed'.sha[f] = 0
    BY <1>2 DEF ClobberManifest, NoManifest, Nothing
  <2> QED
    BY <2>1 DEF Known, FileListed
<1>3. CASE ~PutManifest /\ ~ClobberManifest
  <2>1. listed' = listed
    BY <1>3
       DEF ReleaseNext, BuildStep, Commit, StartBuild, Published, ReadTable, FirstPage, LastPage,
           Diff, DiffWithNothing, Clobber, Put, Prune, BuildFails
  <2>2. PICK m \in Manifest : m = listed
    BY DEF ReleaseTypeOK
  <2>3. Known(m, f)
    BY <2>2 DEF DamageInv
  <2>4. Known(m, f)'
    BY <2>3, KnownStays DEF DamageInv
  <2> QED
    BY <2>1, <2>2, <2>4
<1> QED
  BY <1>1, <1>2, <1>3

-----------------------------------------------------------------------------
(* The work of a build, step by step.                                       *)

\* A commit moves the branch on; what was outdated stays outdated.
LEMMA CommitKeeps ==
  ASSUME NoReturn, ReleaseTypeOK, DamageInv, Commit PROVE WorkInv'
<1> USE ReleaseSizes DEF ReleaseSizes, ReleaseTypeOK, Version, Manifest
<1>1. /\ branch' = branch + 1 /\ branch' \in Version
      /\ UNCHANGED <<listed, asset, job, new, todo, missed>>
  BY DEF Commit
<1>2. WorkInv
  BY DEF DamageInv
<1>3. JobInv'
  BY <1>1, <1>2 DEF WorkInv, JobInv
<1>4. ASSUME NEW f \in File PROVE FileWork(f)'
  <2>1. FileWork(f) /\ JobInv
    BY <1>2 DEF WorkInv
  <2>2. FileRead(f)'
    <3> SUFFICES ASSUME ReadIn(f) PROVE Holds(f, new.sha[f], new.version, branch + 1)
      BY <1>1 DEF FileRead, ReadIn, Holds
    <3>1. Holds(f, new.sha[f], new.version, branch)
      BY <2>1 DEF FileWork, FileRead
    <3> QED
      BY <3>1, HoldsLonger
  <2>3. FileTodo(f)'
    BY <1>1, <2>1 DEF FileWork, FileTodo
  <2>4. FileDamaged(f)'
    <3>1. FileListed(listed, f)
      BY DEF DamageInv, Known
    <3>2. missed = 0 /\ listed.sha[f] # 0 /\ asset[f] # listed.sha[f] =>
            listed.sha[f] # Content[branch'][f]
      BY <1>1, <1>2, <2>1, <3>1, SupersededIsOutdated DEF FileWork, FileDamaged
    <3> QED
      BY <1>1, <2>1, <3>2 DEF FileWork, FileDamaged, Superseded, Base
  <2> QED
    BY <2>2, <2>3, <2>4 DEF FileWork
<1> QED
  BY <1>3, <1>4 DEF WorkInv

\* A build begins: nothing is read, and nothing replaced.
LEMMA StartKeeps ==
  ASSUME ReleaseTypeOK, WorkInv, StartBuild PROVE WorkInv'
<1> USE ReleaseSizes DEF ReleaseSizes, ReleaseTypeOK, Version, Manifest
<1>1. /\ job.phase = "idle" /\ job'.phase = "export" /\ job'.file = {} /\ todo' = File
      /\ new'.version = branch /\ UNCHANGED <<branch, listed, asset, missed>>
  BY DEF StartBuild, Goto, Job
<1>2. JobInv'
  BY <1>1 DEF JobInv
<1>3. ASSUME NEW f \in File PROVE FileWork(f)'
  BY <1>1 DEF WorkInv, FileWork, FileRead, ReadIn, FileTodo, FileDamaged, Superseded, Base
<1> QED
  BY <1>2, <1>3 DEF WorkInv

\* A table is read as the branch is now.
LEMMA ReadKeeps ==
  ASSUME ReleaseTypeOK, WorkInv, NEW f \in File, ReadTable(f) PROVE WorkInv'
<1> USE ReleaseSizes DEF ReleaseSizes, ReleaseTypeOK, Version, Manifest
<1>1. /\ job.phase = "export" /\ job.file = {} /\ UNCHANGED <<branch, listed, asset, job, missed>>
      /\ todo' = todo \ {f}
      /\ new'.version = new.version
      /\ new'.sha = [new.sha EXCEPT ![f] = Content[branch][f]]
  BY DEF ReadTable
<1>2. JobInv'
  BY <1>1 DEF WorkInv, JobInv
<1>3. ASSUME NEW g \in File PROVE FileWork(g)'
  <2>1. FileWork(g) /\ JobInv
    BY DEF WorkInv
  <2>2. FileRead(g)'
    <3>1. new'.sha[g] = IF g = f THEN Content[branch][f] ELSE new.sha[g]
      BY <1>1
    <3>2. branch \in new.version..branch
      BY <1>1, <2>1 DEF JobInv
    <3>3. CASE g = f
      BY <1>1, <3>1, <3>2, <3>3 DEF FileRead, Holds
    <3>4. CASE g # f
      BY <1>1, <2>1, <3>1, <3>4 DEF FileWork, FileRead, ReadIn, Holds
    <3> QED
      BY <3>3, <3>4
  <2>3. FileTodo(g)' /\ FileDamaged(g)'
    BY <1>1, <2>1 DEF FileWork, FileTodo, FileDamaged, Superseded, Base
  <2> QED
    BY <2>2, <2>3 DEF FileWork
<1> QED
  BY <1>2, <1>3 DEF WorkInv

\* The first page is read as the branch is now ...
LEMMA FirstPageKeeps ==
  ASSUME ReleaseTypeOK, WorkInv, FirstPage PROVE WorkInv'
<1> USE ReleaseSizes DEF ReleaseSizes, ReleaseTypeOK, Version, Manifest
<1>1. /\ job.phase = "export" /\ todo = Paged
      /\ job'.phase = "export" /\ job'.file = Paged /\ job'.since = branch
      /\ UNCHANGED <<branch, listed, asset, new, todo, missed>>
  BY DEF FirstPage, Job
<1>2. JobInv'
  BY <1>1 DEF WorkInv, JobInv
<1>3. ASSUME NEW f \in File PROVE FileWork(f)'
  BY <1>1 DEF WorkInv, FileWork, FileRead, ReadIn, FileTodo, FileDamaged, Superseded, Base, Holds
<1> QED
  BY <1>2, <1>3 DEF WorkInv

\* ... and every other page as it is by then.
LEMMA LastPageKeeps ==
  ASSUME ReleaseTypeOK, WorkInv, LastPage PROVE WorkInv'
<1> USE ReleaseSizes DEF ReleaseSizes, ReleaseTypeOK, Version, Manifest
<1>1. /\ job.phase = "export" /\ todo' = {} /\ job'.phase = "export" /\ job'.file = {}
      /\ UNCHANGED <<branch, listed, asset, missed>>
  BY DEF LastPage, Goto, Job
<1>2. job.file # {} /\ JobInv
  BY DEF LastPage, WorkInv
<1>3. todo = Paged /\ job.since \in new.version..branch /\ new.version \in 1..branch
  BY <1>1, <1>2 DEF JobInv
<1>4. PICK read \in [Paged -> UNION {Pages(f, job.since, branch) : f \in Paged}] :
        /\ \A f \in Paged : read[f] \in Pages(f, job.since, branch)
        /\ new' = [new EXCEPT !.sha = [f \in File |-> IF f \in Paged THEN read[f] ELSE new.sha[f]]]
  BY DEF LastPage
<1>5. /\ new'.version = new.version
      /\ \A f \in File : new'.sha[f] = IF f \in Paged THEN read[f] ELSE new.sha[f]
  BY <1>4
<1>6. JobInv'
  BY <1>1, <1>3, <1>5 DEF JobInv
<1>7. ASSUME NEW f \in File PROVE FileWork(f)'
  <2>1. FileWork(f)
    BY DEF WorkInv
  <2>2. Holds(f, new'.sha[f], new.version, branch)
    <3>1. CASE f \in Paged
      <4>1. read[f] \in Pages(f, job.since, branch) /\ job.since \in Version /\ branch \in Version
        BY <1>3, <1>4, <3>1
      <4>2. \/ \E w \in job.since..branch : read[f] = Content[w][f]
            \/ /\ read[f] = Torn[job.since][branch] /\ job.since < branch
               /\ \E w \in job.since..branch : Content[w][f] # Content[job.since][f]
        <5>1. \A u, v \in Version : \A x \in Pages(f, u, v) :
                \/ \E w \in u..v : x = Content[w][f]
                \/ x = Torn[u][v] /\ u < v /\ \E w \in u..v : Content[w][f] # Content[u][f]
          BY PagesAreContent
        <5> QED
          BY <4>1, <5>1
      <4>3. Holds(f, read[f], job.since, branch)
        BY <4>1, <4>2 DEF Holds
      <4>4. new'.sha[f] = read[f]
        BY <1>5, <3>1
      <4> QED
        BY <1>3, <4>3, <4>4, HoldsLonger
    <3>2. CASE f \notin Paged
      BY <1>1, <1>3, <1>5, <2>1, <3>2 DEF FileWork, FileRead, ReadIn
    <3> QED
      BY <3>1, <3>2
  <2>3. FileRead(f)'
    BY <1>1, <1>5, <2>2 DEF FileRead, Holds
  <2>4. FileTodo(f)' /\ FileDamaged(f)'
    BY <1>1, <1>5, <2>1 DEF FileWork, FileTodo, FileDamaged, Superseded, Base
  <2> QED
    BY <2>3, <2>4 DEF FileWork
<1> QED
  BY <1>6, <1>7 DEF WorkInv

\* The manifests are compared: a file that is not uploaded is what it was when
\* the listed one was made, and has stayed so in between.
LEMMA DiffKeeps ==
  ASSUME NoReturn, ReleaseTypeOK, DamageInv, Diff PROVE WorkInv'
<1> USE ReleaseSizes DEF ReleaseSizes, ReleaseTypeOK, Version, Manifest
<1>1. /\ job.phase = "export" /\ todo = {} /\ job'.phase = "upload"
      /\ todo' = {f \in File : new.sha[f] # 0 /\ listed.sha[f] # new.sha[f]}
      /\ UNCHANGED <<branch, listed, asset, new, missed>>
  BY DEF Diff, Goto, Job, Outdated, Files
<1>2. JobInv'
  BY <1>1 DEF DamageInv, WorkInv, JobInv
<1>3. ASSUME NEW f \in File PROVE FileWork(f)'
  <2>1. FileWork(f) /\ JobInv /\ Known(listed, f)
    BY DEF DamageInv, WorkInv
  <2>2. f \in todo' <=> new.sha[f] # 0 /\ listed.sha[f] # new.sha[f]
    BY <1>1
  <2>3. FileRead(f)'
    BY <1>1, <2>1 DEF FileWork, FileRead, ReadIn, Holds
  <2>4. FileDamaged(f)'
    BY <1>1, <2>1 DEF FileWork, FileDamaged, Superseded, Base
  <2>5. ASSUME f \notin todo', new.sha[f] # 0
        PROVE  asset[f] = new.sha[f] \/ (missed # 0 /\ asset[f] = 0)
    <3>1. listed.sha[f] = new.sha[f] /\ listed.version # 0
      BY <2>1, <2>2, <2>5 DEF Known, FileListed
    <3>2. Holds(f, new.sha[f], new.version, branch)
      BY <1>1, <2>1 DEF FileWork, FileRead, ReadIn
    <3>3. Holds(f, new.sha[f], listed.version, new.version)
      BY <1>1, <2>1, <3>1 DEF Known, FileListed, Base
    <3>4. listed.version \in Version /\ new.version \in Version /\ branch \in Version
      BY <1>1, <2>1, <3>1 DEF JobInv
    <3>5. Content[new.version][f] = listed.sha[f]
      BY <2>5, <3>1, <3>2, <3>3, <3>4, ReadAgain
    <3>6. ~Superseded(listed, f)
      BY <1>1, <3>5 DEF Superseded, Base
    <3>7. asset[f] = 0 \/ asset[f] = listed.sha[f]
      BY <2>1, <2>5, <3>1, <3>6 DEF Known
    <3>8. missed = 0 => asset[f] = listed.sha[f]
      BY <2>1, <2>5, <3>1, <3>6 DEF FileWork, FileDamaged
    <3> QED
      BY <3>1, <3>7, <3>8
  <2>6. FileTodo(f)'
    BY <1>1, <2>2, <2>5 DEF FileTodo
  <2> QED
    BY <2>3, <2>4, <2>6 DEF FileWork
<1> QED
  BY <1>2, <1>3 DEF WorkInv

\* A build that takes the old manifest for empty replaces every file.
LEMMA MissKeeps ==
  ASSUME ReleaseTypeOK, WorkInv, DiffWithNothing PROVE WorkInv'
<1>1. /\ job.phase = "export" /\ todo = {} /\ job'.phase = "upload" /\ missed' = missed + 1
      /\ todo' = {f \in File : new.sha[f] # 0}
      /\ UNCHANGED <<branch, listed, asset, new>>
  BY DEF DiffWithNothing, Goto, Job, Outdated, Files, NoManifest, Nothing
<1>2. missed' # 0
  BY <1>1, ReleaseSizes DEF ReleaseSizes, ReleaseTypeOK
<1>3. JobInv'
  BY <1>1 DEF WorkInv, JobInv
<1>4. ASSUME NEW f \in File PROVE FileWork(f)'
  <2>1. FileWork(f)
    BY DEF WorkInv
  <2>2. FileRead(f)'
    BY <1>1, <2>1 DEF FileWork, FileRead, ReadIn, Holds
  <2>3. FileTodo(f)' /\ FileDamaged(f)'
    BY <1>1, <1>2 DEF FileTodo, FileDamaged
  <2> QED
    BY <2>2, <2>3 DEF FileWork
<1> QED
  BY <1>3, <1>4 DEF WorkInv

\* An asset is deleted only for a file whose listing this build replaces.
LEMMA ClobberKeeps ==
  ASSUME ReleaseTypeOK, WorkInv, NEW f \in File, Clobber(f) PROVE WorkInv'
<1> USE DEF ReleaseTypeOK
<1>1. /\ job.phase = "upload" /\ f \in todo /\ job'.phase = "put"
      /\ asset' = [asset EXCEPT ![f] = 0]
      /\ UNCHANGED <<branch, listed, new, todo, missed>>
  BY DEF Clobber, Job
<1>2. JobInv'
  BY <1>1 DEF WorkInv, JobInv
<1>3. ASSUME NEW g \in File PROVE FileWork(g)'
  <2>1. FileWork(g)
    BY DEF WorkInv
  <2>2. g # f => asset'[g] = asset[g]
    BY <1>1
  <2>3. FileRead(g)'
    BY <1>1, <2>1 DEF FileWork, FileRead, ReadIn, Holds
  <2>4. FileTodo(g)'
    BY <1>1, <2>1, <2>2 DEF FileWork, FileTodo
  <2>5. FileDamaged(g)'
    BY <1>1, <2>1, <2>2 DEF FileWork, FileTodo, FileDamaged, Superseded, Base
  <2> QED
    BY <2>3, <2>4, <2>5 DEF FileWork
<1> QED
  BY <1>2, <1>3 DEF WorkInv

\* The upload puts there what the new manifest will list.
LEMMA PutKeeps ==
  ASSUME ReleaseTypeOK, WorkInv, NEW f \in File, Put(f) PROVE WorkInv'
<1> USE DEF ReleaseTypeOK
<1>1. /\ job.phase = "put" /\ f \in todo /\ job'.phase = "upload"
      /\ asset' = [asset EXCEPT ![f] = new.sha[f]] /\ todo' = todo \ {f}
      /\ UNCHANGED <<branch, listed, new, missed>>
  BY DEF Put, Goto, Job
<1>2. JobInv'
  BY <1>1 DEF WorkInv, JobInv
<1>3. ASSUME NEW g \in File PROVE FileWork(g)'
  <2>1. FileWork(g)
    BY DEF WorkInv
  <2>2. asset'[g] = (IF g = f THEN new.sha[f] ELSE asset[g]) /\ (g \in todo' <=> g \in todo /\ g # f)
    BY <1>1
  <2>3. FileRead(g)'
    BY <1>1, <2>1 DEF FileWork, FileRead, ReadIn, Holds
  <2>4. FileTodo(g)'
    <3>1. CASE g = f
      BY <1>1, <2>2, <3>1 DEF FileTodo
    <3>2. CASE g # f
      BY <1>1, <2>1, <2>2, <3>2 DEF FileWork, FileTodo
    <3> QED
      BY <3>1, <3>2
  <2>5. FileDamaged(g)'
    BY <1>1, <2>1, <2>2 DEF FileWork, FileTodo, FileDamaged, Superseded, Base
  <2> QED
    BY <2>3, <2>4, <2>5 DEF FileWork
<1> QED
  BY <1>2, <1>3 DEF WorkInv

\* The manifest is deleted when everything else is there ...
LEMMA ClobberManifestKeeps ==
  ASSUME ReleaseTypeOK, WorkInv, ClobberManifest PROVE WorkInv'
<1>1. /\ job.phase = "upload" /\ todo = {} /\ job'.phase = "list" /\ listed' = NoManifest
      /\ UNCHANGED <<branch, asset, new, todo, missed>>
  BY DEF ClobberManifest, Uploaded, Goto, Job
<1>2. listed'.version = 0 /\ \A f \in File : listed'.sha[f] = 0
  BY <1>1 DEF NoManifest, Nothing
<1>3. JobInv'
  BY <1>1, <1>2 DEF WorkInv, JobInv
<1>4. ASSUME NEW f \in File PROVE FileWork(f)'
  BY <1>1, <1>2 DEF WorkInv, FileWork, FileRead, ReadIn, FileTodo, FileDamaged, Holds
<1> QED
  BY <1>3, <1>4 DEF WorkInv

\* ... and the new one lists what is there.
LEMMA PutManifestKeeps ==
  ASSUME ReleaseTypeOK, WorkInv, PutManifest PROVE WorkInv'
<1> USE ReleaseSizes DEF ReleaseSizes, ReleaseTypeOK, Version, Manifest
<1>1. /\ job.phase = "list" /\ job'.phase = "prune" /\ listed' = new
      /\ todo' = {f \in File : asset[f] # 0} \ {f \in File : new.sha[f] # 0}
      /\ UNCHANGED <<branch, asset, new, missed>>
  BY DEF PutManifest, Goto, Job, Files
<1>2. JobInv'
  BY <1>1 DEF WorkInv, JobInv
<1>3. ASSUME NEW f \in File PROVE FileWork(f)'
  <2>1. FileWork(f) /\ (f \in todo' => new.sha[f] = 0)
    BY <1>1 DEF WorkInv
  <2> QED
    BY <1>1, <2>1 DEF FileWork, FileRead, ReadIn, FileTodo, FileDamaged
<1> QED
  BY <1>2, <1>3 DEF WorkInv

\* Only assets that are not listed are pruned.
LEMMA PruneKeeps ==
  ASSUME ReleaseTypeOK, WorkInv, NEW f \in File, Prune(f) PROVE WorkInv'
<1> USE DEF ReleaseTypeOK
<1>1. PICK kept \in {0, asset[f]} : asset' = [asset EXCEPT ![f] = kept]
  BY DEF Prune
<1>2. /\ job.phase = "prune" /\ f \in todo /\ todo' = todo \ {f}
      /\ UNCHANGED <<branch, listed, job, new, missed>>
  BY DEF Prune
<1>3. JobInv'
  BY <1>2 DEF WorkInv, JobInv
<1>4. ASSUME NEW g \in File PROVE FileWork(g)'
  <2>1. FileWork(g)
    BY DEF WorkInv
  <2>2. g # f => asset'[g] = asset[g]
    BY <1>1
  <2>3. FileRead(g)' /\ FileTodo(g)'
    BY <1>2, <2>1 DEF FileWork, FileRead, ReadIn, FileTodo
  <2>4. FileDamaged(g)'
    BY <1>2, <2>1, <2>2 DEF FileWork, FileTodo, FileDamaged, Superseded, Base
  <2> QED
    BY <2>3, <2>4 DEF FileWork
<1> QED
  BY <1>3, <1>4 DEF WorkInv

\* A finished build has nothing left to do.
LEMMA PublishedKeeps ==
  ASSUME ReleaseTypeOK, WorkInv, Published PROVE WorkInv'
<1>1. /\ job.phase = "prune" /\ job'.phase = "idle" /\ todo' = todo /\ todo = {}
      /\ UNCHANGED <<branch, listed, asset, new, missed>>
  BY DEF Published, Goto, Job
<1>2. JobInv'
  BY <1>1 DEF JobInv
<1>3. ASSUME NEW f \in File PROVE FileWork(f)'
  BY <1>1 DEF WorkInv, FileWork, FileRead, ReadIn, FileTodo, FileDamaged, Superseded, Base
<1> QED
  BY <1>2, <1>3 DEF WorkInv

\* A build that breaks off leaves no damage that the next one cannot see.
LEMMA FailureKeeps ==
  ASSUME NoReturn, ReleaseTypeOK, DamageInv, BuildFails PROVE WorkInv'
<1> USE ReleaseSizes DEF ReleaseSizes, ReleaseTypeOK, Version, Manifest
<1>1. /\ job.phase # "idle" /\ job'.phase = "idle" /\ todo' = {}
      /\ UNCHANGED <<branch, listed, asset, new, missed>>
  BY DEF BuildFails, Goto, Job
<1>2. JobInv'
  BY <1>1 DEF JobInv
<1>3. ASSUME NEW f \in File PROVE FileWork(f)'
  <2>1. FileRead(f)' /\ FileTodo(f)'
    BY <1>1 DEF FileRead, ReadIn, FileTodo
  <2>2. WorkInv /\ FileWork(f) /\ FileListed(listed, f)
    BY DEF DamageInv, WorkInv, Known
  <2>3. missed = 0 /\ listed.sha[f] # 0 /\ asset[f] # listed.sha[f] =>
          listed.sha[f] # Content[branch][f]
    BY <2>2, SupersededIsOutdated DEF FileWork, FileDamaged
  <2>4. FileDamaged(f)'
    BY <1>1, <2>3 DEF FileDamaged, Superseded, Base
  <2> QED
    BY <2>1, <2>4 DEF FileWork
<1> QED
  BY <1>2, <1>3 DEF WorkInv

\* The inductive invariant of the publication.
LEMMA DamageInit == ReleaseInit => DamageInv
<1> SUFFICES ASSUME ReleaseInit PROVE DamageInv
  OBVIOUS
<1>1. JobInv
  BY DEF ReleaseInit, JobInv, Job
<1>2. ASSUME NEW f \in File PROVE FileWork(f) /\ Known(listed, f)
  BY DEF ReleaseInit, NoManifest, Nothing, FileWork, FileRead, ReadIn, FileTodo, FileDamaged, Job,
         Known, FileListed
<1> QED
  BY <1>1, <1>2 DEF DamageInv, WorkInv

LEMMA DamageNext ==
  ASSUME NoReturn, ReleaseTypeOK, DamageInv, ReleaseNext PROVE DamageInv'
<1>1. WorkInv
  BY DEF DamageInv
<1>2. WorkInv'
  BY <1>1, CommitKeeps, StartKeeps, ReadKeeps, FirstPageKeeps, LastPageKeeps, DiffKeeps, MissKeeps,
     ClobberKeeps, PutKeeps, ClobberManifestKeeps, PutManifestKeeps, PruneKeeps, PublishedKeeps,
     FailureKeeps
     DEF ReleaseNext, BuildStep
<1>3. \A f \in File : Known(listed, f)'
  BY ListedStaysKnown
<1> QED
  BY <1>2, <1>3 DEF DamageInv

-----------------------------------------------------------------------------
(* The container.                                                           *)

\* Every bundle in ${PARQUET_DIR} is complete, and so is what the swap moves in;
\* what is not left to get is there.
CompleteInv ==
    /\ step # "get" => plan = {}
    /\ HasBundle(dir) => Whole(dir)
    /\ step \in {"clean", "serving"} => HasBundle(dir)
    /\ step = "get" => remote.version # 0 /\ \A f \in Files(remote) \ plan : staging.file[f] # 0
    /\ step \in {"old", "out", "in"} => Whole(staging)

\* A container only reads the release.
LEMMA StepsApart ==
  ASSUME Next
  PROVE  \/ ReleaseNext /\ UNCHANGED containerVars
         \/ UNCHANGED releaseVars /\ (Fail \/ UNCHANGED failures)
  BY DEF Next, SyncStep, Start, FetchManifest, NoManifestThere, NetworkFails, Reuse, Download,
         NotFound, Stage, RemoveOld, MoveOut, MoveIn, Killed

LEMMA ReleaseRests ==
  ASSUME ReleaseTypeOK, UNCHANGED releaseVars, Fail \/ UNCHANGED failures PROVE ReleaseTypeOK'
<1> USE ReleaseSizes DEF ReleaseSizes, ReleaseTypeOK, releaseVars
<1>1. failures' \in 0..MaxFailures /\ missed \in 0..failures'
  BY DEF Fail
<1> QED
  BY <1>1

LEMMA DamageRests ==
  ASSUME DamageInv, UNCHANGED releaseVars PROVE DamageInv'
<1>1. JobInv'
  BY DEF DamageInv, WorkInv, JobInv, releaseVars
<1>2. ASSUME NEW f \in File PROVE FileWork(f)' /\ Known(listed, f)'
  BY DEF DamageInv, WorkInv, FileWork, FileRead, ReadIn, FileTodo, FileDamaged, Known, FileListed,
         Superseded, Base, Holds, releaseVars
<1> QED
  BY <1>1, <1>2 DEF DamageInv, WorkInv

ContainerInv == ContainerTypeOK /\ CompleteInv

LEMMA ContainerInit == Init => ContainerInv
  BY ReleaseSizes
     DEF ReleaseSizes, Init, ContainerInv, ContainerTypeOK, CompleteInv, Directory, NoDirectory,
         Manifest, NoManifest, Nothing, Steps, HasBundle, Files

LEMMA ContainerNext ==
  ASSUME ReleaseTypeOK, ContainerInv, Next PROVE ContainerInv'
<1> USE ReleaseSizes DEF ReleaseSizes, ContainerInv, ContainerTypeOK, CompleteInv, HasBundle, Steps
<1>0. NoDirectory \in Directory /\ NoDirectory.listed.version = 0 /\ listed \in Manifest
  BY DEF ReleaseTypeOK, NoDirectory, Directory, NoManifest, Nothing, Manifest
<1>1. CASE ReleaseNext /\ UNCHANGED containerVars
  BY <1>1 DEF containerVars, Whole, Files
<1>2. CASE Start \/ Killed
  BY <1>2 DEF Start, Killed, Whole, Files
<1>3. CASE FetchManifest
  <2>1. CASE Current
    BY <1>0, <1>3, <2>1 DEF FetchManifest, Current, Whole, Files
  <2>2. CASE ~Current
    <3>1. /\ step = "start" /\ step' = "get" /\ listed.version # 0 /\ remote' = listed
          /\ staging' = NoDirectory /\ plan' = Files(listed) /\ UNCHANGED <<dir, old>>
      BY <1>3, <2>2 DEF FetchManifest
    <3>2. Files(remote') \ plan' = {} /\ plan' \subseteq Files(remote')
      BY <3>1
    <3>3. HasBundle(dir)' => Whole(dir)'
      BY <3>1 DEF Whole, Files
    <3> QED
      BY <1>0, <3>1, <3>2, <3>3 DEF Files
  <2> QED
    BY <2>1, <2>2
<1>4. CASE NoManifestThere
  BY <1>4 DEF NoManifestThere, FallBack, Whole, Files
<1>5. CASE NetworkFails
  <2>1. staging' \in Directory /\ step' = FallBack /\ plan' = {} /\ UNCHANGED <<dir, old, remote>>
    BY <1>0, <1>5 DEF NetworkFails
  <2> QED
    BY <2>1 DEF FallBack, Whole, Files
<1>6. ASSUME NEW f \in File, NEW x \in Nat \ {0}, step = "get", f \in plan,
             staging' = [staging EXCEPT !.file[f] = x], plan' = plan \ {f},
             UNCHANGED <<dir, old, step, remote>>
      PROVE  ContainerInv'
  <2>1. staging.file \in [File -> Nat]
    BY DEF Directory
  <2>2. staging' \in Directory /\ \A g \in File : staging'.file[g] = IF g = f THEN x ELSE staging.file[g]
    BY <1>6, <2>1 DEF Directory
  <2>3. \A g \in Files(remote) \ plan' : staging'.file[g] # 0
    BY <1>6, <2>2 DEF Files
  <2> QED
    BY <1>6, <2>2, <2>3 DEF Whole, Files
<1>7. ASSUME NEW f \in File, Reuse(f) PROVE ContainerInv'
  <2>1. dir.file[f] \in Nat \ {0}
    BY <1>7 DEF Reuse, Reusable, Directory
  <2> QED
    BY <1>6, <1>7, <2>1 DEF Reuse
<1>8. ASSUME NEW f \in File, Download(f) PROVE ContainerInv'
  <2>1. asset[f] \in Nat \ {0}
    BY <1>8 DEF Download, ReleaseTypeOK
  <2> QED
    BY <1>6, <1>8, <2>1 DEF Download
<1>9. ASSUME NEW f \in File, NotFound(f) PROVE ContainerInv'
  BY <1>0, <1>9 DEF NotFound, FallBack, Whole, Files
<1>10. CASE Stage
  <2>1. /\ step = "get" /\ plan = {} /\ step' = "old" /\ UNCHANGED <<dir, old, remote, plan>>
        /\ staging' = [staging EXCEPT !.listed = remote]
    BY <1>10 DEF Stage
  <2>2. staging' \in Directory /\ staging'.listed = remote /\ staging'.file = staging.file
    BY <2>1 DEF Directory
  <2>3. Whole(staging)'
    BY <2>1, <2>2 DEF Whole, Files
  <2> QED
    BY <2>1, <2>2, <2>3 DEF Whole, Files
<1>11. CASE RemoveOld
  BY <1>0, <1>11 DEF RemoveOld, Whole, Files
<1>12. CASE MoveOut
  BY <1>0, <1>12 DEF MoveOut, Whole, Files
<1>13. CASE MoveIn
  BY <1>0, <1>13 DEF MoveIn, Whole, Files
<1> QED
  BY <1>1, <1>2, <1>3, <1>4, <1>5, <1>7, <1>8, <1>9, <1>10, <1>11, <1>12, <1>13
     DEF Next, SyncStep

\* The types of the release and of the container, and its directories.
THEOREM TypeCorrect == Spec => [](ReleaseTypeOK /\ ContainerInv)
<1>1. Init => ReleaseTypeOK /\ ContainerInv
  BY ReleaseTypeInit, ContainerInit DEF Init
<1>2. ReleaseTypeOK /\ ContainerInv /\ [Next]_vars => ReleaseTypeOK' /\ ContainerInv'
  <2> SUFFICES ASSUME ReleaseTypeOK, ContainerInv, [Next]_vars PROVE ReleaseTypeOK' /\ ContainerInv'
    OBVIOUS
  <2>1. CASE UNCHANGED vars
    <3>1. ReleaseTypeOK'
      BY <2>1, ReleaseRests DEF vars
    <3>2. ContainerInv'
      BY <2>1 DEF vars, containerVars, ContainerInv, ContainerTypeOK, CompleteInv, Whole, Files
    <3> QED
      BY <3>1, <3>2
  <2>2. CASE Next
    <3>1. ReleaseTypeOK'
      BY <2>2, StepsApart, ReleaseTypeNext, ReleaseRests
    <3>2. ContainerInv'
      BY <2>2, ContainerNext
    <3> QED
      BY <3>1, <3>2
  <2> QED
    BY <2>1, <2>2
<1> QED
  BY <1>1, <1>2, PTL DEF Spec

\* A container only ever serves a complete bundle, whatever was interrupted.
THEOREM ServedIsComplete == Spec => []ServesCompleteBundle
<1>1. ContainerInv => ServesCompleteBundle
  BY DEF ContainerInv, CompleteInv, ServesCompleteBundle
<1> QED
  BY TypeCorrect, <1>1, PTL

\* No failure takes the last complete bundle away, but a kill within a swap that
\* had no directory to rename.
THEOREM BundleIsKept == Spec => KeepsBundle
<1> DEFINE Keep == \/ Kept'
                   \/ ~HasBundle(dir) /\ step \in {"out", "in"} /\ step' = "down"
<1>1. ContainerInv /\ [Next]_vars => [Kept => Keep]_vars
  <2> SUFFICES ASSUME ContainerInv, Next, Kept PROVE Keep
    BY DEF vars
  <2> USE DEF ContainerInv, CompleteInv, Kept, HasBundle
  <2>1. CASE UNCHANGED <<dir, old>> /\ ~(step \in {"out", "in"} /\ Whole(staging))
    BY <2>1 DEF Whole, Files
  <2>2. CASE UNCHANGED <<dir, old, staging, step>>
    BY <2>2 DEF Whole, Files
  <2>3. CASE Killed
    <3>1. UNCHANGED <<dir, old>> /\ step' = "down"
      BY <2>3 DEF Killed
    <3>2. CASE HasBundle(dir)
      BY <3>1, <3>2 DEF Whole, Files
    <3> QED
      BY <3>1, <3>2
  <2>4. CASE RemoveOld
    BY <2>4 DEF RemoveOld, Whole, Files
  <2>5. CASE MoveOut
    BY <2>5 DEF MoveOut, Whole, Files
  <2>6. CASE MoveIn
    BY <2>6 DEF MoveIn, Whole, Files
  <2> QED
    BY <2>1, <2>2, <2>3, <2>4, <2>5, <2>6
       DEF Next, SyncStep, Start, FetchManifest, NoManifestThere, NetworkFails, Reuse, Download,
           NotFound, Stage, containerVars
<1> QED
  BY TypeCorrect, <1>1, PTL DEF Spec, KeepsBundle

\* The inductive invariant of the publication, with containers beside it.
THEOREM DamageInvariant ==
  ASSUME NoReturn PROVE Spec => []DamageInv
<1>1. Init => DamageInv
  BY DamageInit DEF Init
<1>2. ReleaseTypeOK /\ DamageInv /\ [Next]_vars => DamageInv'
  <2> SUFFICES ASSUME ReleaseTypeOK, DamageInv, [Next]_vars PROVE DamageInv'
    OBVIOUS
  <2>1. CASE UNCHANGED vars
    BY <2>1, DamageRests DEF vars
  <2>2. CASE Next
    BY <2>2, StepsApart, DamageNext, DamageRests
  <2> QED
    BY <2>1, <2>2
<1> QED
  BY TypeCorrect, <1>1, <1>2, PTL DEF Spec

\* Damage to the release never lies where the next comparison of manifests
\* cannot see it, unless a build has missed the old manifest.
THEOREM NoHiddenDamage ==
  ASSUME NoReturn PROVE Spec => []DamageIsVisible
<1>1. ReleaseTypeOK /\ DamageInv => DamageIsVisible
  <2> SUFFICES ASSUME ReleaseTypeOK, DamageInv, missed = 0, NEW f \in File,
                      listed.sha[f] # 0, asset[f] # listed.sha[f]
               PROVE  listed.sha[f] # Content[branch][f]
    BY DEF DamageIsVisible, Files
  <2>1. FileDamaged(f) /\ FileListed(listed, f) /\ WorkInv
    BY DEF DamageInv, WorkInv, FileWork, Known
  <2>2. Superseded(listed, f)
    BY <2>1 DEF FileDamaged
  <2> QED
    BY <2>1, <2>2, ReleaseSizes, SupersededIsOutdated
       DEF ReleaseSizes, ReleaseTypeOK, Version
<1> QED
  BY TypeCorrect, DamageInvariant, <1>1, PTL

\* What a manifest that is known lists for the version the branch is at.
LEMMA CurrentIsListed ==
  ASSUME ReleaseTypeOK, JobInv, NEW m \in Manifest, NEW f \in File, FileListed(m, f), m.version = branch
  PROVE  m.sha[f] = Content[branch][f]
<1> USE ReleaseSizes DEF ReleaseSizes, ReleaseTypeOK, Version, Manifest
<1>1. Holds(f, m.sha[f], branch, Base) /\ Base <= branch /\ Base \in Nat
  BY DEF FileListed, Base, JobInv
<1> QED
  BY <1>1 DEF Holds

\* A release that claims the branch's version lists the files of that version,
\* and holds them unless a build has missed the old manifest.
THEOREM CurrentIsWhole ==
  ASSUME NoReturn PROVE Spec => []CurrentReleaseIsWhole
<1>1. ReleaseTypeOK /\ DamageInv /\ DamageIsVisible => CurrentReleaseIsWhole
  <2> SUFFICES ASSUME ReleaseTypeOK, DamageInv, DamageIsVisible, listed.version = branch, NEW f \in File
               PROVE  /\ listed.sha[f] = Content[branch][f]
                      /\ missed # 0 \/ Content[branch][f] = 0 \/ asset[f] = Content[branch][f]
    BY DEF CurrentReleaseIsWhole
  <2>1. listed.sha[f] = Content[branch][f]
    BY CurrentIsListed DEF DamageInv, WorkInv, Known, ReleaseTypeOK
  <2> QED
    BY <2>1 DEF DamageIsVisible, Files
<1> QED
  BY TypeCorrect, DamageInvariant, NoHiddenDamage, <1>1, PTL

-----------------------------------------------------------------------------
(* What a container holds.                                                  *)

\* d holds of f what m lists; if not, what m lists is outdated for good.
Faithful(d, m, f) ==
    /\ m.sha[f] = 0 => d.file[f] = 0
    /\ m.sha[f] # 0 => \/ d.file[f] = m.sha[f]
                       \/ \A w \in branch..MaxVersion : m.sha[f] # Content[w][f]

FaithfulInv ==
    /\ step \in {"old", "out", "in"} => staging.listed = remote
    /\ \A f \in File :
         /\ Known(remote, f) /\ Known(dir.listed, f)
         /\ Faithful(dir, dir.listed, f)
         /\ step = "get" /\ f \notin plan => Faithful(staging, remote, f)
         /\ step \in {"old", "out", "in"} => Faithful(staging, remote, f)

LEMMA FaithfulInit == Init => FaithfulInv
  BY DEF Init, FaithfulInv, Faithful, Known, FileListed, NoDirectory, NoManifest, Nothing

\* The release moves on: what is known of a manifest, and outdated, stays so.
LEMMA ReleaseKeepsFaithful ==
  ASSUME NoReturn, ReleaseTypeOK, DamageInv, ContainerInv, FaithfulInv, ReleaseNext,
         UNCHANGED containerVars
  PROVE  FaithfulInv'
<1> USE ReleaseSizes DEF ReleaseSizes, containerVars
<1>1. branch \in Nat /\ branch' \in Nat /\ branch <= branch'
  <2>1. branch' = branch \/ branch' = branch + 1
    BY DEF ReleaseNext, BuildStep, Commit, StartBuild, Published, ReadTable, FirstPage, LastPage,
           Diff, DiffWithNothing, Clobber, Put, Prune, BuildFails, ClobberManifest, PutManifest
  <2> QED
    BY <2>1 DEF ReleaseTypeOK, Version
<1>2. branch'..MaxVersion \subseteq branch..MaxVersion
  BY <1>1
<1>3. ASSUME NEW f \in File
      PROVE  /\ Known(remote, f)' /\ Known(dir.listed, f)'
             /\ Faithful(dir, dir.listed, f)'
             /\ (step = "get" /\ f \notin plan => Faithful(staging, remote, f))'
             /\ (step \in {"old", "out", "in"} => Faithful(staging, remote, f))'
  <2>1. PICK m \in Manifest : m = remote
    BY DEF ContainerInv, ContainerTypeOK
  <2>2. PICK n \in Manifest : n = dir.listed
    BY DEF ContainerInv, ContainerTypeOK, Directory
  <2>3. Known(m, f)'
    BY <2>1, KnownStays DEF FaithfulInv, DamageInv
  <2>4. Known(n, f)'
    BY <2>2, KnownStays DEF FaithfulInv, DamageInv
  <2>5. Known(remote, f)' /\ Known(dir.listed, f)'
    BY <2>1, <2>2, <2>3, <2>4
  <2> QED
    BY <1>2, <2>5 DEF FaithfulInv, Faithful
<1> QED
  BY <1>3 DEF FaithfulInv

\* The container goes on while the release rests.
LEMMA ContainerKeepsFaithful ==
  ASSUME NoReturn, ReleaseTypeOK, DamageInv, ContainerInv, FaithfulInv, Next, UNCHANGED releaseVars
  PROVE  FaithfulInv'
<1> USE DEF releaseVars, HasBundle
<1>1. ASSUME NEW f \in File
      PROVE  /\ Known(listed, f) /\ Known(remote, f) /\ Known(dir.listed, f)
             /\ (remote' = remote => Known(remote, f)') /\ (remote' = listed => Known(remote, f)')
             /\ (dir' = dir => Known(dir.listed, f)') /\ (dir'.listed = remote => Known(dir.listed, f)')
  BY DEF DamageInv, FaithfulInv, Known, FileListed, Superseded, Base, Holds
<1>2. dir' = dir => \A f \in File : Faithful(dir, dir.listed, f)'
  BY DEF FaithfulInv, Faithful
<1>3. NoDirectory.listed.version = 0 /\ \A f \in File : NoDirectory.listed.sha[f] = 0 /\ NoDirectory.file[f] = 0
  BY DEF NoDirectory, NoManifest, Nothing
<1>4. CASE UNCHANGED <<dir, remote>> /\ step' \notin {"get", "old", "out", "in"}
  BY <1>1, <1>2, <1>4 DEF FaithfulInv
<1>5. CASE FetchManifest
  <2>1. CASE Current
    BY <1>1, <1>2, <1>5, <2>1 DEF FetchManifest, FaithfulInv
  <2>2. CASE ~Current
    <3>1. step' = "get" /\ remote' = listed /\ staging' = NoDirectory /\ plan' = Files(listed) /\ dir' = dir
      BY <1>5, <2>2 DEF FetchManifest
    <3>2. ASSUME NEW f \in File, f \notin plan' PROVE Faithful(staging, remote, f)'
      BY <1>3, <3>1, <3>2 DEF Faithful, Files
    <3> QED
      BY <1>1, <1>2, <3>1, <3>2 DEF FaithfulInv
  <2> QED
    BY <2>1, <2>2
<1>6. ASSUME NEW f \in File, NEW x \in Nat, step = "get", f \in plan,
             staging' = [staging EXCEPT !.file[f] = x], plan' = plan \ {f},
             UNCHANGED <<dir, step, remote>>,
             \/ x = remote.sha[f]
             \/ \A w \in branch..MaxVersion : remote.sha[f] # Content[w][f]
      PROVE  FaithfulInv'
  <2>1. staging.file \in [File -> Nat] /\ remote.sha[f] # 0
    BY <1>6 DEF ContainerInv, ContainerTypeOK, Directory, Files
  <2>2. \A g \in File : staging'.file[g] = IF g = f THEN x ELSE staging.file[g]
    BY <1>6, <2>1 DEF ContainerInv, ContainerTypeOK, Directory
  <2>3. ASSUME NEW g \in File, g \notin plan' PROVE Faithful(staging, remote, g)'
    <3>1. CASE g = f
      BY <1>6, <2>1, <2>2, <3>1 DEF Faithful
    <3>2. CASE g # f
      BY <1>6, <2>2, <2>3, <3>2 DEF FaithfulInv, Faithful
    <3> QED
      BY <3>1, <3>2
  <2> QED
    BY <1>1, <1>2, <1>6, <2>3 DEF FaithfulInv
<1>7. ASSUME NEW f \in File, Reuse(f) PROVE FaithfulInv'
  <2>1. dir.file[f] \in Nat /\ dir.listed.sha[f] = remote.sha[f] /\ remote.sha[f] # 0
    BY <1>7 DEF Reuse, Reusable, ContainerInv, ContainerTypeOK, Directory, Files
  <2>2. \/ dir.file[f] = remote.sha[f]
        \/ \A w \in branch..MaxVersion : remote.sha[f] # Content[w][f]
    BY <2>1 DEF FaithfulInv, Faithful
  <2> QED
    BY <1>6, <1>7, <2>1, <2>2 DEF Reuse
<1>8. ASSUME NEW f \in File, Download(f) PROVE FaithfulInv'
  <2>1. asset[f] \in Nat /\ asset[f] # 0 /\ remote.sha[f] # 0 /\ remote \in Manifest
    BY <1>8 DEF Download, ReleaseTypeOK, ContainerInv, ContainerTypeOK, Files
  <2>2. ASSUME asset[f] # remote.sha[f], NEW w \in branch..MaxVersion
        PROVE  remote.sha[f] # Content[w][f]
    <3>1. Superseded(remote, f) /\ FileListed(remote, f)
      BY <1>1, <2>1, <2>2 DEF Known
    <3>2. w \in Version /\ branch <= w
      BY ReleaseSizes DEF ReleaseSizes, ReleaseTypeOK, Version
    <3> QED
      BY <2>1, <3>1, <3>2, SupersededIsOutdated DEF DamageInv
  <2> QED
    BY <1>6, <1>8, <2>1, <2>2 DEF Download
<1>9. CASE Stage
  <2>1. /\ step = "get" /\ plan = {} /\ step' = "old" /\ UNCHANGED <<dir, remote>>
        /\ staging'.listed = remote /\ staging'.file = staging.file
    BY <1>9 DEF Stage, ContainerInv, ContainerTypeOK, Directory
  <2>2. ASSUME NEW f \in File PROVE Faithful(staging, remote, f)'
    BY <2>1 DEF FaithfulInv, Faithful
  <2> QED
    BY <1>1, <1>2, <2>1, <2>2 DEF FaithfulInv
<1>10. CASE RemoveOld
  BY <1>1, <1>2, <1>10 DEF RemoveOld, FaithfulInv, Faithful
<1>11. CASE MoveOut
  <2>1. step = "out" /\ dir' = NoDirectory /\ step' = "in" /\ UNCHANGED <<staging, remote>>
    BY <1>11 DEF MoveOut
  <2>2. ASSUME NEW f \in File PROVE Known(dir.listed, f)' /\ Faithful(dir, dir.listed, f)'
    BY <1>3, <2>1 DEF Known, FileListed, Faithful
  <2> QED
    BY <1>1, <2>1, <2>2 DEF FaithfulInv, Faithful
<1>12. CASE MoveIn
  <2>1. step = "in" /\ dir' = staging /\ step' = "clean" /\ remote' = remote /\ staging.listed = remote
    BY <1>12 DEF MoveIn, FaithfulInv
  <2>2. ASSUME NEW f \in File PROVE Faithful(dir, dir.listed, f)'
    BY <2>1 DEF FaithfulInv, Faithful
  <2> QED
    BY <1>1, <2>1, <2>2 DEF FaithfulInv
<1>13. CASE ReleaseNext /\ UNCHANGED containerVars
  BY <1>1, <1>2, <1>13 DEF containerVars, FaithfulInv, Faithful
<1> QED
  <2>1. CASE Start \/ NoManifestThere \/ NetworkFails \/ Killed
    BY <1>4, <2>1 DEF Start, NoManifestThere, NetworkFails, Killed, FallBack
  <2>2. ASSUME NEW f \in File, NotFound(f) PROVE FaithfulInv'
    BY <1>4, <2>2 DEF NotFound, FallBack
  <2> QED
    BY <1>5, <1>7, <1>8, <1>9, <1>10, <1>11, <1>12, <1>13, <2>1, <2>2 DEF Next, SyncStep

\* What a container holds under the branch's version is that version, unmixed.
THEOREM CurrentBundle ==
  ASSUME NoReturn PROVE Spec => []CurrentBundleIsWhole
<1> DEFINE Inv == ReleaseTypeOK /\ ContainerInv /\ DamageInv
<1>1. Spec => []Inv
  BY TypeCorrect, DamageInvariant, PTL
<1>2. Inv /\ FaithfulInv /\ [Next]_vars => FaithfulInv'
  <2> SUFFICES ASSUME Inv, FaithfulInv, [Next]_vars PROVE FaithfulInv'
    OBVIOUS
  <2>1. CASE UNCHANGED vars
    BY <2>1
       DEF vars, releaseVars, containerVars, FaithfulInv, Faithful, Known, FileListed, Superseded,
           Base, Holds
  <2>2. CASE Next
    BY <2>2, StepsApart, ReleaseKeepsFaithful, ContainerKeepsFaithful
  <2> QED
    BY <2>1, <2>2
<1>3. Inv /\ FaithfulInv => CurrentBundleIsWhole
  <2> SUFFICES ASSUME Inv, FaithfulInv, dir.listed.version = branch, NEW f \in File
               PROVE  dir.listed.sha[f] = Content[branch][f] /\ dir.file[f] = Content[branch][f]
    BY DEF CurrentBundleIsWhole
  <2>1. dir.listed.sha[f] = Content[branch][f]
    BY CurrentIsListed
       DEF FaithfulInv, DamageInv, WorkInv, Known, ContainerInv, ContainerTypeOK, Directory
  <2>2. branch \in branch..MaxVersion
    BY ReleaseSizes DEF ReleaseSizes, ReleaseTypeOK, Version
  <2> QED
    BY <2>1, <2>2 DEF FaithfulInv, Faithful
<1>4. Init => FaithfulInv
  BY FaithfulInit
<1> QED
  BY <1>1, <1>2, <1>3, <1>4, PTL DEF Spec
=============================================================================
