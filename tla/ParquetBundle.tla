---------------------------- MODULE ParquetBundle ---------------------------
(***************************************************************************)
(* A container of the DuckDB image (docker/entrypoint-duckdb.sh) beside    *)
(* the release it downloads its bundle from.                               *)
(*                                                                         *)
(* At every start the entrypoint compares manifests, brings the files of   *)
(* the release together in parquet.new, reusing local ones, and swaps that *)
(* directory in with two renames.  When anything fails it serves what it   *)
(* has.  The directories survive the container.                            *)
(***************************************************************************)
EXTENDS BundleRelease

VARIABLES
    dir,      \* ${PARQUET_DIR}
    old,      \* parquet.old
    staging,  \* parquet.new
    step,     \* where the entrypoint is
    remote,   \* the manifest it downloaded
    plan      \* files it has still to get

containerVars == <<dir, old, staging, step, remote, plan>>
vars == <<releaseVars, containerVars, failures>>

\* A directory: its manifest.json, and what its files hold.
Directory == [listed: Manifest, file: [File -> Nat]]
NoDirectory == [listed |-> NoManifest, file |-> Nothing]

Steps == {"down", "start", "get", "old", "out", "in", "clean", "serving", "fatal"}

Init ==
    /\ ReleaseInit
    /\ dir = NoDirectory /\ old = NoDirectory /\ staging = NoDirectory
    /\ step = "down"
    /\ remote = NoManifest
    /\ plan = {}

HasBundle(d) == d.listed.version # 0
Whole(d) == HasBundle(d) /\ \A f \in Files(d.listed) : d.file[f] # 0

-----------------------------------------------------------------------------
Start ==
    /\ step \in {"down", "fatal", "serving"}
    /\ step' = "start"
    /\ UNCHANGED <<releaseVars, failures, dir, old, staging, remote, plan>>

\* fetch_bundle has failed: serve the bundle there is.
FallBack == IF HasBundle(dir) THEN "serving" ELSE "fatal"

\* The versions agree: nothing is downloaded.
Current_SameFiles == listed.sha = dir.listed.sha

Current == HasBundle(dir) /\ listed.version = dir.listed.version

FetchManifest_TidiesUp ==
    /\ step = "start" /\ listed.version # 0 /\ Files(listed) # {}
    /\ remote' = listed
    /\ IF Current
       THEN step' = "serving" /\ UNCHANGED <<staging, plan>>
       ELSE /\ step' = "get"
            /\ staging' = NoDirectory
            /\ plan' = Files(listed)
    /\ old' = NoDirectory
    /\ UNCHANGED <<releaseVars, failures, dir>>

FetchManifest ==
    /\ step = "start" /\ listed.version # 0 /\ Files(listed) # {}
    /\ remote' = listed
    /\ IF Current
       THEN step' = "serving" /\ UNCHANGED <<staging, plan>>
       ELSE /\ step' = "get"
            /\ staging' = NoDirectory
            /\ plan' = Files(listed)
    /\ UNCHANGED <<releaseVars, failures, dir, old>>

\* There is no manifest, or it lists no file.
NoManifestThere ==
    /\ step = "start" /\ Files(listed) = {}
    /\ step' = FallBack
    /\ UNCHANGED <<releaseVars, failures, dir, old, staging, remote, plan>>

NetworkFails ==
    /\ step \in {"start", "get"} /\ Fail
    /\ staging' = IF step = "get" THEN NoDirectory ELSE staging
    /\ step' = FallBack
    /\ plan' = {}
    /\ UNCHANGED <<releaseVars, dir, old, remote>>

Reusable_ByName(f) == dir.file[f] # 0

\* The local manifest lists the same content, and the file is there.
Reusable(f) == dir.listed.sha[f] = remote.sha[f] /\ dir.file[f] # 0

Reuse(f) ==
    /\ step = "get" /\ f \in plan /\ Reusable(f)
    /\ staging' = [staging EXCEPT !.file[f] = dir.file[f]]
    /\ plan' = plan \ {f}
    /\ UNCHANGED <<releaseVars, failures, dir, old, step, remote>>

Download_NotChecked(f) ==
    /\ step = "get" /\ f \in plan /\ ~Reusable(f)
    /\ staging' = [staging EXCEPT !.file[f] = asset[f]]
    /\ plan' = plan \ {f}
    /\ UNCHANGED <<releaseVars, failures, dir, old, step, remote>>

\* The asset of that name, whatever it holds by now.
Download(f) ==
    /\ step = "get" /\ f \in plan /\ ~Reusable(f) /\ asset[f] # 0
    /\ staging' = [staging EXCEPT !.file[f] = asset[f]]
    /\ plan' = plan \ {f}
    /\ UNCHANGED <<releaseVars, failures, dir, old, step, remote>>

NotFound(f) ==
    /\ step = "get" /\ f \in plan /\ ~Reusable(f) /\ asset[f] = 0
    /\ staging' = NoDirectory
    /\ plan' = {}
    /\ step' = FallBack
    /\ UNCHANGED <<releaseVars, failures, dir, old, remote>>

\* Everything is there; the manifest is put beside it.
Stage ==
    /\ step = "get" /\ plan = {}
    /\ staging' = [staging EXCEPT !.listed = remote]
    /\ step' = "old"
    /\ UNCHANGED <<releaseVars, failures, dir, old, remote, plan>>

\* The swap: rm -rf parquet.old, two renames, rm -rf parquet.old.
RemoveOld ==
    /\ step \in {"old", "clean"}
    /\ old' = NoDirectory
    /\ step' = IF step = "old" THEN "out" ELSE "serving"
    /\ UNCHANGED <<releaseVars, failures, dir, staging, remote, plan>>

MoveOut ==
    /\ step = "out"
    /\ old' = dir
    /\ dir' = NoDirectory
    /\ step' = "in"
    /\ UNCHANGED <<releaseVars, failures, staging, remote, plan>>

MoveIn ==
    /\ step = "in"
    /\ dir' = staging
    /\ staging' = NoDirectory
    /\ step' = "clean"
    /\ UNCHANGED <<releaseVars, failures, old, remote, plan>>

\* The container is stopped, or killed for its memory.
Killed ==
    /\ step \notin {"down", "fatal"} /\ Fail
    /\ step' = "down"
    /\ plan' = {}
    /\ UNCHANGED <<releaseVars, dir, old, staging, remote>>

-----------------------------------------------------------------------------
SyncStep ==
    \/ NoManifestThere \/ Stage \/ RemoveOld \/ MoveOut \/ MoveIn
    \/ \E f \in File : Reuse(f) \/ Download(f) \/ NotFound(f)

Next ==
    \/ ReleaseNext /\ UNCHANGED containerVars
    \/ Start \/ FetchManifest \/ SyncStep \/ NetworkFails \/ Killed

Spec == Init /\ [][Next]_vars

\* Builds run every night, and a start that has its manifest goes on.
FairSpec ==
    /\ Spec
    /\ WF_vars(BuildStep /\ UNCHANGED containerVars)
    /\ WF_vars(SyncStep)

-----------------------------------------------------------------------------
(* Properties.                                                              *)

\* Types of the container's state.
ContainerTypeOK ==
    /\ dir \in Directory /\ old \in Directory /\ staging \in Directory
    /\ step \in Steps
    /\ remote \in Manifest
    /\ plan \subseteq Files(remote)

\* A container never serves a bundle some listed file of which is missing,
\* however its starts, downloads and swaps were interrupted.
ServesCompleteBundle == step = "serving" => Whole(dir)

\* What a container holds under the version the branch is at are the files of
\* that version, unmixed.  (It does not look at files again while the version
\* stays, so what is torn then would stay torn.)
CurrentBundleIsWhole ==
    dir.listed.version = branch =>
        \A f \in File : /\ dir.listed.sha[f] = Content[branch][f]
                        /\ dir.file[f] = Content[branch][f]

\* A complete bundle in ${PARQUET_DIR} or parquet.old, or about to be moved in.
Kept == Whole(dir) \/ Whole(old) \/ (step \in {"out", "in"} /\ Whole(staging))

\* No failed download, no restart and no kill takes the last complete bundle
\* away, with one exception: a kill within a swap that had no ${PARQUET_DIR} to
\* rename, for a container that had one the second kill within a swap.
KeepsBundle ==
    [][Kept => \/ Kept'
               \/ ~HasBundle(dir) /\ step \in {"out", "in"} /\ step' = "down"]_vars

\* Once the branch rests, a container that goes on being started, and does not
\* every time hit the moment at which manifest.json is replaced, comes to hold
\* its version for good.
EventuallyCurrent ==
    []<><<FetchManifest>>_vars => <>[](missed # 0 \/ dir.listed.version = branch)
=============================================================================
