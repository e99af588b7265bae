---------------------------- MODULE BundleRelease ---------------------------
(***************************************************************************)
(* The parquet bundle and its publication: run_export of                   *)
(* sec_app/export_parquet.py, run by build-parquet-bundle.yml, which then   *)
(* brings the assets of the GitHub release in line with the new manifest.  *)
(*                                                                         *)
(* The branch goes through versions 1, 2, ...  Content[v][f] identifies    *)
(* what file f holds when it is exported at version v (its sha256), 0 when *)
(* the export has no such file.  A file stands for what one table is       *)
(* exported to, or one shard of it.  Most tables are one download; the     *)
(* submissions are read in pages of twenty, so that their files may show   *)
(* several versions of a branch that moves meanwhile.  (A development      *)
(* slice is read in pages too, of more tables, and never published.)       *)
(***************************************************************************)
EXTENDS Integers, FiniteSets

CONSTANTS
    File,          \* names of the files of a bundle
    MaxVersion,    \* bound: versions of the branch
    Content,       \* what each file holds at each version
    Paged,         \* files of the table that is read page by page
    Torn,          \* what a paged file holds whose pages are of two versions
    MaxFailures    \* bound: builds and downloads that fail

Version == 1..MaxVersion

ASSUME ReleaseSizes == MaxVersion \in Nat \ {0} /\ MaxFailures \in Nat
ASSUME ContentAssumption == Content \in [Version -> [File -> Nat]]

\* Contents that differ have different hashes.
ASSUME TornAssumption ==
    /\ Paged \subseteq File
    /\ Torn \in [Version -> [Version -> Nat \ {0}]]
    /\ \A u, v \in Version :
         /\ \A w \in Version : \A f \in File : Torn[u][v] # Content[w][f]
         /\ \A x, y \in Version : Torn[u][v] = Torn[x][y] => u = x /\ v = y

VARIABLES
    branch,    \* the version the branch is at
    listed,    \* manifest.json of the release
    asset,     \* what the other assets of the release hold, 0 for none
    job,       \* where the build is: its phase, the files it is busy with, and
               \* the version of the first page it has read of those
    new,       \* the manifest it writes
    todo,      \* files it has still to read, upload or delete
    missed,    \* history: builds that took the old manifest for empty
    failures   \* builds and downloads that failed so far

releaseVars == <<branch, listed, asset, job, new, todo, missed>>
publishVars == <<releaseVars, failures>>

Nothing == [f \in File |-> 0]
NoManifest == [version |-> 0, sha |-> Nothing]
Manifest == [version: 0..MaxVersion, sha: [File -> Nat]]
Files(m) == {f \in File : m.sha[f] # 0}

BuildPhases == {"idle", "export", "upload", "put", "list", "prune"}

Job(phase, file, since) == [phase |-> phase, file |-> file, since |-> since]

ReleaseInit ==
    /\ branch = 1
    /\ listed = NoManifest
    /\ asset = Nothing
    /\ job = Job("idle", {}, 0)
    /\ new = NoManifest
    /\ todo = {}
    /\ missed = 0
    /\ failures = 0

Goto(phase) == job' = Job(phase, {}, 0)

\* A commit reaches the branch.
Commit ==
    /\ branch < MaxVersion
    /\ branch' = branch + 1
    /\ UNCHANGED <<listed, asset, job, new, todo, missed, failures>>

-----------------------------------------------------------------------------
(* The export.                                                              *)

\* The version is asked before any table is read.
StartBuild ==
    /\ job.phase = "idle"
    /\ new' = [version |-> branch, sha |-> Nothing]
    /\ todo' = File
    /\ Goto("export")
    /\ UNCHANGED <<branch, listed, asset, missed, failures>>

\* Tables are read one after the other, each as the branch is by then.
ReadTable(f) ==
    /\ job.phase = "export" /\ job.file = {} /\ f \in todo \ Paged
    /\ new' = [new EXCEPT !.sha[f] = Content[branch][f]]
    /\ todo' = todo \ {f}
    /\ UNCHANGED <<branch, listed, asset, job, missed, failures>>

\* _export_submissions_rest, for the table that comes last: its first page ...
FirstPage ==
    /\ job.phase = "export" /\ job.file = {} /\ todo = Paged /\ Paged # {}
    /\ job' = Job("export", Paged, branch)
    /\ UNCHANGED <<branch, listed, asset, new, todo, missed, failures>>

\* What is read of f page by page while the branch goes from u to v.
Pages(f, u, v) ==
    {Content[w][f] : w \in u..v}
    \cup {t \in {Torn[u][v]} : \E w \in u..v : Content[w][f] # Content[u][f]}

\* ... and its last, which is not full.
LastPage ==
    /\ job.phase = "export" /\ job.file # {}
    /\ \E read \in [Paged -> UNION {Pages(f, job.since, branch) : f \in Paged}] :
         /\ \A f \in Paged : read[f] \in Pages(f, job.since, branch)
         /\ new' = [new EXCEPT !.sha = [f \in File |-> IF f \in Paged THEN read[f] ELSE @[f]]]
    /\ todo' = {}
    /\ Goto("export")
    /\ UNCHANGED <<branch, listed, asset, missed, failures>>

-----------------------------------------------------------------------------
(* The publication.                                                         *)

Outdated_NewNamesOnly(old) == {f \in Files(new) : old.sha[f] = 0}

\* manifest_diff: the files to upload (UP).
Outdated(old) == {f \in Files(new) : old.sha[f] # new.sha[f]}

Diff_VersionLast ==
    /\ job.phase = "export" /\ todo = {}
    /\ new' = [new EXCEPT !.version = branch]
    /\ todo' = Outdated(listed)
    /\ Goto("upload")
    /\ UNCHANGED <<branch, listed, asset, missed, failures>>

Diff ==
    /\ job.phase = "export" /\ todo = {}
    /\ todo' = Outdated(listed)
    /\ Goto("upload")
    /\ UNCHANGED <<branch, listed, asset, new, missed, failures>>

Fail ==
    /\ failures < MaxFailures
    /\ failures' = failures + 1

\* The old manifest cannot be downloaded, and is taken to be empty.
DiffWithNothing ==
    /\ job.phase = "export" /\ todo = {}
    /\ Fail
    /\ missed' = missed + 1
    /\ todo' = Outdated(NoManifest)
    /\ Goto("upload")
    /\ UNCHANGED <<branch, listed, asset, new>>

\* upload --clobber deletes the asset of that name ...
Clobber(f) ==
    /\ job.phase = "upload" /\ f \in todo
    /\ asset' = [asset EXCEPT ![f] = 0]
    /\ job' = Job("put", {f}, 0)
    /\ UNCHANGED <<branch, listed, new, todo, missed, failures>>

\* ... and then uploads the file.
Put(f) ==
    /\ job.phase = "put" /\ f \in job.file
    /\ asset' = [asset EXCEPT ![f] = new.sha[f]]
    /\ todo' = todo \ {f}
    /\ Goto("upload")
    /\ UNCHANGED <<branch, listed, new, missed, failures>>

Uploaded_ManifestFirst == job.phase = "upload"

Uploaded == job.phase = "upload" /\ todo = {}

\* The manifest comes last, and is replaced in the same way.
ClobberManifest ==
    /\ Uploaded
    /\ listed' = NoManifest
    /\ Goto("list")
    /\ UNCHANGED <<branch, asset, new, todo, missed, failures>>

PutManifest ==
    /\ job.phase = "list"
    /\ listed' = new
    /\ todo' = {f \in File : asset[f] # 0} \ Files(new)
    /\ Goto("prune")
    /\ UNCHANGED <<branch, asset, new, missed, failures>>

\* Assets the manifest does not list are deleted; a deletion may fail.
Prune(f) ==
    /\ job.phase = "prune" /\ f \in todo
    /\ \E kept \in {0, asset[f]} : asset' = [asset EXCEPT ![f] = kept]
    /\ todo' = todo \ {f}
    /\ UNCHANGED <<branch, listed, job, new, missed, failures>>

Published ==
    /\ job.phase = "prune" /\ todo = {}
    /\ Goto("idle")
    /\ UNCHANGED <<branch, listed, asset, new, todo, missed, failures>>

\* The job fails, times out or is cancelled at any step.
BuildFails ==
    /\ job.phase # "idle" /\ Fail
    /\ todo' = {}
    /\ Goto("idle")
    /\ UNCHANGED <<branch, listed, asset, new, missed>>

-----------------------------------------------------------------------------
BuildStep ==
    \/ StartBuild \/ Diff \/ ClobberManifest \/ PutManifest \/ Published
    \/ FirstPage \/ LastPage
    \/ \E f \in File : ReadTable(f) \/ Clobber(f) \/ Put(f) \/ Prune(f)

ReleaseNext == Commit \/ BuildStep \/ DiffWithNothing \/ BuildFails

ReleaseSpec == ReleaseInit /\ [][ReleaseNext]_publishVars

\* A build runs after every nightly refresh, and nothing has to fail.
FairReleaseSpec == ReleaseSpec /\ WF_publishVars(BuildStep)

-----------------------------------------------------------------------------
(* Properties.                                                              *)

\* Types of the state; what a build replaces is a file it has to upload.
ReleaseTypeOK ==
    /\ branch \in Version
    /\ listed \in Manifest /\ new \in Manifest
    /\ asset \in [File -> Nat]
    /\ job \in [phase: BuildPhases, file: SUBSET File, since: 0..MaxVersion]
    /\ todo \in SUBSET File /\ job.file \subseteq todo
    /\ job.file # {} => \/ job.phase = "put"
                        \/ job.phase = "export" /\ job.since \in 1..branch
    /\ failures \in 0..MaxFailures /\ missed \in 0..failures

\* A listed file whose asset is missing, or holds something else than listed,
\* is one that has changed on the branch since: the next build uploads it, for
\* it compares with this manifest.  Whatever upload broke off, no damage to the
\* release lies where the comparison of manifests cannot see it.  (Unless a
\* build missed the old manifest: it replaces files that have not changed.)
DamageIsVisible ==
    missed # 0 \/ \A f \in Files(listed) :
        asset[f] # listed.sha[f] => listed.sha[f] # Content[branch][f]

\* When the release claims the version the branch is at, its files are the
\* files of that version: tables read at different versions never go by the
\* last of them.
CurrentReleaseIsWhole ==
    listed.version = branch =>
        \A f \in File :
            /\ listed.sha[f] = Content[branch][f]
            /\ missed # 0 \/ Content[branch][f] = 0 \/ asset[f] = Content[branch][f]

\* Once the branch rests the release comes to hold its version, and keeps it
\* (but for the moments in which manifest.json itself is replaced).
ReleaseConverges ==
    <>[]\/ missed # 0
        \/ /\ listed.version \in {branch, 0}
           /\ \A f \in File : Content[branch][f] # 0 => asset[f] = Content[branch][f]
=============================================================================
