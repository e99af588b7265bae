--------------------------- MODULE NightlyRefresh ---------------------------
(***************************************************************************)
(* The workflow that refreshes DoltHub every night (nightly-dolthub.yml).  *)
(*                                                                         *)
(* A run clones the branch, starts a server on the clone, and lets         *)
(* run_pipeline.py update it: facts and submissions, the statements that   *)
(* are derived from them, and then the classification, twice.  At the end  *)
(* it commits and pushes.  A step that fails, or the limit of four hours,  *)
(* ends the run, and the clone goes with it.  The concurrency group lets   *)
(* one run go at a time.                                                   *)
(*                                                                         *)
(* A table has, for each company, the version of the company's facts it was *)
(* made from.  What one update does to the rows of a company is the subject *)
(* of DeltaUpdate; here it matters which companies an update looks at.      *)
(***************************************************************************)
EXTENDS Integers, FiniteSets

CONSTANTS
    Company,     \* the companies with statements (_statement_ciks)
    MaxFilings,  \* bound: filings of all companies
    MaxChanged,  \* SEC_MAX_CHANGED_CIKS
    MaxFailures  \* bound: nights that fail or are not pushed

ASSUME NightlyAssumption ==
    /\ IsFiniteSet(Company)
    /\ MaxFilings \in Nat /\ MaxChanged \in Nat /\ MaxFailures \in Nat

Part == {"facts", "statements", "cik_gics"}
Versions == [Company -> 0..MaxFilings + 1]
Tables == [Part -> Versions]
All(v) == [c \in Company |-> v]
Whole(versions) == [p \in Part |-> versions]

VARIABLES
    sec,       \* what the archives of SEC have of each company
    filings,   \* filings so far
    head,      \* main on DoltHub
    recorded,  \* its table submissions, by which an update sees who has filed
    night,     \* the run: its next step, its clone, and what run_update holds
    failures   \* nights without a result so far

nightlyVars == <<sec, filings, head, recorded, night, failures>>

Steps == {"over", "clone", "download", "scan", "materialize", "classify", "rebuild", "gc", "push"}
Over == [step |-> "over", clone |-> Whole(All(0)), recorded |-> All(0),
         archive |-> All(0), changed |-> {}]

NightlyInit ==
    /\ sec = All(1)
    /\ filings = 0
    /\ head = Whole(All(1))
    /\ recorded = All(1)
    /\ night = Over
    /\ failures = 0

Step(from, next) == night.step = from /\ night' = next

\* A company files; its documents are in both archives from then on.
SecPublishes ==
    /\ filings < MaxFilings
    /\ filings' = filings + 1
    /\ \E c \in Company : sec' = [sec EXCEPT ![c] = @ + 1]
    /\ UNCHANGED <<head, recorded, night, failures>>

\* The schedule, or somebody by hand; the group admits no second run.
Begin ==
    /\ Step("over", [night EXCEPT !.step = "clone"])
    /\ UNCHANGED <<sec, filings, head, recorded, failures>>

\* dolt clone and dolt sql-server.
Clone ==
    /\ Step("clone", [night EXCEPT !.step = "download", !.clone = head, !.recorded = recorded])
    /\ UNCHANGED <<sec, filings, head, recorded, failures>>

\* run_update downloads the companyfacts first.
Download ==
    /\ Step("download", [night EXCEPT !.step = "scan", !.archive = sec])
    /\ UNCHANGED <<sec, filings, head, recorded, failures>>

\* Then the submissions, which show who has filed.
Changed == {c \in Company : night.recorded[c] # sec[c]}

\* Safety stop: run_update raises, and the night ends.  The workflow never sets
\* SEC_ALLOW_LARGE_UPDATE.
SafetyStop ==
    /\ Cardinality(Changed) > MaxChanged
    /\ Step("scan", Over)
    /\ UNCHANGED <<sec, filings, head, recorded, failures>>

\* The submissions of those who filed are recorded, and their facts are read
\* from the archive there was before.
Update ==
    /\ Cardinality(Changed) <= MaxChanged
    /\ LET facts == [c \in Company |-> IF c \in Changed THEN night.archive[c]
                                        ELSE night.clone["facts"][c]]
       IN  Step("scan", [night EXCEPT !.step = "materialize", !.recorded = sec,
                                      !.clone = [night.clone EXCEPT !["facts"] = facts],
                                      !.changed = {c \in Company : facts[c] # night.clone["facts"][c]}])
    /\ UNCHANGED <<sec, filings, head, recorded, failures>>

\* It derives the statements of those whose facts changed; main does so for all
\* if there are none.
Materialize ==
    /\ LET statements == [c \in Company |-> IF c \in night.changed THEN night.clone["facts"][c]
                                             ELSE night.clone["statements"][c]]
       IN  Step("materialize", [night EXCEPT !.step = "classify",
                                             !.clone = [night.clone EXCEPT !["statements"] = statements]])
    /\ UNCHANGED <<sec, filings, head, recorded, failures>>

\* rebuild_gics at the end of main, and once more as a step of its own.
Classify ==
    /\ LET classified == [night.clone EXCEPT !["cik_gics"] = night.clone["facts"]]
       IN  \/ Step("classify", [night EXCEPT !.step = "rebuild", !.clone = classified])
           \/ Step("rebuild", [night EXCEPT !.step = "gc", !.clone = classified])
    /\ UNCHANGED <<sec, filings, head, recorded, failures>>

Collect ==
    /\ Step("gc", [night EXCEPT !.step = "push"])
    /\ UNCHANGED <<sec, filings, head, recorded, failures>>

\* DOLT_ADD, DOLT_COMMIT and DOLT_PUSH.
Push ==
    /\ Step("push", Over)
    /\ head' = night.clone /\ recorded' = night.recorded
    /\ UNCHANGED <<sec, filings, failures>>

\* A dry run commits to a clone that nobody will see.
DryRun ==
    /\ Step("push", Over)
    /\ failures < MaxFailures
    /\ failures' = failures + 1
    /\ UNCHANGED <<sec, filings, head, recorded>>

RunFails_Pushes ==
    /\ night.step # "over"
    /\ failures < MaxFailures
    /\ head' = IF night.step = "clone" THEN head ELSE night.clone
    /\ night' = Over
    /\ failures' = failures + 1
    /\ UNCHANGED <<sec, filings, recorded>>

\* A step fails or the time is up: the steps after it are skipped, and the
\* runner is thrown away.
RunFails ==
    /\ night.step # "over"
    /\ failures < MaxFailures
    /\ night' = Over
    /\ failures' = failures + 1
    /\ UNCHANGED <<sec, filings, head, recorded>>

NightStep ==
    \/ Begin \/ Clone \/ Download \/ SafetyStop \/ Update
    \/ Materialize \/ Classify \/ Collect \/ Push
NightlyNext == SecPublishes \/ NightStep \/ DryRun \/ RunFails

\* More companies have filed since the last push than an update accepts: every
\* night from then on clones the same branch, and ends at the safety stop.
TooMany == Cardinality({c \in Company : recorded[c] # sec[c]}) > MaxChanged

\* The submissions of a company were recorded, but the facts they came with were
\* not yet in the archive: no night looks at the company again until it files.
Overlooked(c) == head["facts"][c] < recorded[c]

\* Types of the state.
NightlyTypeOK ==
    /\ sec \in Versions /\ filings \in 0..MaxFilings
    /\ head \in Tables
    /\ recorded \in Versions
    /\ night \in [step: Steps, clone: Tables, recorded: Versions,
                  archive: Versions, changed: SUBSET Company]
    /\ failures \in 0..MaxFailures
=============================================================================
