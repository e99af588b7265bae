------------------------- MODULE DoltContainerProofs ------------------------
(***************************************************************************)
(* Proofs about DoltContainer: the types of its state, and that it         *)
(* implements PublishedRuns.  The argument is about the clone of a night:  *)
(* each step has brought one more table to the versions of the facts, so   *)
(* that what is pushed is whole, and of no company older than what was     *)
(* cloned, though an update reads an archive older than the submissions.   *)
(***************************************************************************)
EXTENDS DoltContainer, TLAPS

-----------------------------------------------------------------------------
(* Types.                                                                   *)

\* The script clones only into a volume that has no repository.
ClonesAfresh == script = "clone" => volume = "partial"

\* A company has filed no more often than all have.
FilingsCounted == \A c \in Company : sec[c] <= filings + 1

TypeInv == TypeOK /\ ClonesAfresh /\ FilingsCounted

LEMMA AllVersions ==
  /\ All(0) \in Versions /\ All(1) \in Versions
  /\ Whole(All(0)) \in Tables /\ Whole(All(1)) \in Tables
<1>1. 0 \in 0..MaxFilings + 1 /\ 1 \in 0..MaxFilings + 1
  BY NightlyAssumption DEF NightlyAssumption
<1>2. All(0) \in Versions /\ All(1) \in Versions
  BY <1>1 DEF All, Versions
<1> QED
  BY <1>2 DEF Whole, Tables

LEMMA OverType ==
  Over \in [step: Steps, clone: Tables, recorded: Versions,
            archive: Versions, changed: SUBSET Company]
  BY AllVersions DEF Over, Steps

LEMMA NightlyTypes ==
  NightlyTypeOK /\ FilingsCounted /\ [NightlyNext]_nightlyVars
    => NightlyTypeOK' /\ FilingsCounted'
<1> SUFFICES ASSUME NightlyTypeOK, FilingsCounted, [NightlyNext]_nightlyVars
             PROVE  NightlyTypeOK' /\ FilingsCounted'
  OBVIOUS
<1> USE NightlyAssumption, OverType DEF NightlyTypeOK
<1>1. CASE SecPublishes
  <2>1. PICK c \in Company : sec' = [sec EXCEPT ![c] = @ + 1]
    BY <1>1 DEF SecPublishes
  <2>2. filings < MaxFilings /\ filings' = filings + 1 /\ UNCHANGED <<head, recorded, night, failures>>
    BY <1>1 DEF SecPublishes
  <2>3. \A d \in Company : sec[d] \in 0..MaxFilings + 1 /\ sec[d] <= filings + 1
    BY DEF Versions, FilingsCounted
  <2>4. ASSUME NEW d \in Company PROVE sec'[d] \in 0..MaxFilings + 1 /\ sec'[d] <= filings' + 1
    <3>1. sec'[d] \in {sec[d], sec[d] + 1}
      BY <2>1 DEF Versions
    <3>2. sec[d] \in Nat /\ sec[d] <= filings + 1 /\ filings \in Nat /\ MaxFilings \in Nat
      BY <2>3 DEF NightlyAssumption
    <3> QED
      BY <2>2, <3>1, <3>2
  <2>5. sec' \in Versions
    <3>1. sec' = [d \in Company |-> sec'[d]]
      BY <2>1 DEF Versions
    <3> QED
      BY <2>4, <3>1 DEF Versions
  <2> QED
    BY <2>2, <2>4, <2>5 DEF FilingsCounted, NightlyAssumption
<1>2. ASSUME UNCHANGED <<sec, filings>> PROVE FilingsCounted'
  BY <1>2 DEF FilingsCounted
<1>3. ASSUME NEW p \in Part, NEW v \in Versions
      PROVE  [night.clone EXCEPT ![p] = v] \in Tables
  BY <1>3 DEF Tables
<1>4. \A p \in Part : night.clone[p] \in Versions
  BY DEF Tables
<1>5. CASE Begin \/ Clone \/ Download \/ Collect
  BY <1>2, <1>5 DEF Begin, Clone, Download, Collect, Step, Steps
<1>6. CASE SafetyStop \/ DryRun \/ RunFails
  BY <1>2, <1>6 DEF SafetyStop, DryRun, RunFails, Step, NightlyAssumption
<1>7. CASE Update
  <2> DEFINE facts == [c \in Company |-> IF c \in Changed THEN night.archive[c]
                                         ELSE night.clone["facts"][c]]
             new == {c \in Company : facts[c] # night.clone["facts"][c]}
  <2>1. facts \in Versions
    BY <1>4 DEF Part, Versions
  <2>2. new \subseteq Company
    OBVIOUS
  <2>3. Step("scan", [night EXCEPT !.step = "materialize", !.recorded = sec,
                                   !.clone = [night.clone EXCEPT !["facts"] = facts],
                                   !.changed = new])
        /\ UNCHANGED <<sec, filings, head, recorded, failures>>
    BY <1>7 DEF Update
  <2> HIDE DEF facts, new
  <2>4. [night.clone EXCEPT !["facts"] = facts] \in Tables
    BY <1>3, <2>1 DEF Part
  <2> QED
    BY <1>2, <2>2, <2>3, <2>4 DEF Step, Steps
<1>8. CASE Materialize
  <2> DEFINE statements == [c \in Company |-> IF c \in night.changed THEN night.clone["facts"][c]
                                              ELSE night.clone["statements"][c]]
  <2>1. statements \in Versions
    BY <1>4 DEF Part, Versions
  <2>2. Step("materialize", [night EXCEPT !.step = "classify",
                               !.clone = [night.clone EXCEPT !["statements"] = statements]])
        /\ UNCHANGED <<sec, filings, head, recorded, failures>>
    BY <1>8 DEF Materialize
  <2> HIDE DEF statements
  <2>3. [night.clone EXCEPT !["statements"] = statements] \in Tables
    BY <1>3, <2>1 DEF Part
  <2> QED
    BY <1>2, <2>2, <2>3 DEF Step, Steps
<1>9. CASE Classify
  <2>1. [night.clone EXCEPT !["cik_gics"] = night.clone["facts"]] \in Tables
    BY <1>3, <1>4 DEF Part
  <2> QED
    BY <1>2, <1>9, <2>1 DEF Classify, Step, Steps
<1>10. CASE Push
  BY <1>2, <1>10 DEF Push, Step
<1>11. CASE UNCHANGED nightlyVars
  BY <1>2, <1>11 DEF nightlyVars
<1> QED
  BY <1>1, <1>5, <1>6, <1>7, <1>8, <1>9, <1>10, <1>11 DEF NightlyNext, NightStep

LEMMA TypesInit == Init => TypeInv
<1> SUFFICES ASSUME Init PROVE TypeInv
  OBVIOUS
<1>1. NightlyTypeOK
  BY AllVersions, OverType, NightlyAssumption
     DEF NightlyAssumption, Init, NightlyInit, NightlyTypeOK
<1>2. FilingsCounted
  BY DEF Init, NightlyInit, FilingsCounted, All
<1>3. process \in [Children -> Life]
  BY DEF Init, NoChildren, Life
<1>4. data = Whole(All(0)) /\ data \in Tables
  BY AllVersions DEF Init
<1>5. crashes \in 0..MaxCrashes
  BY ContainerAssumption DEF Init, ContainerAssumption
<1>6. script \in Phases /\ stopped \in BOOLEAN /\ script # "clone" /\ volume = "none"
  BY DEF Init, Phases
<1> QED
  BY <1>1, <1>2, <1>3, <1>4, <1>5, <1>6 DEF TypeInv, TypeOK, ClonesAfresh

LEMMA ScriptTypes ==
    TypeInv /\ UNCHANGED nightlyVars /\ (Script \/ Start \/ CloneFails \/ ProbeGivesUp) => TypeInv'
<1> SUFFICES ASSUME TypeInv, UNCHANGED nightlyVars, Script \/ Start \/ CloneFails \/ ProbeGivesUp
    PROVE  TypeInv'
  OBVIOUS
<1> USE ContainerAssumption DEF TypeInv, TypeOK, ClonesAfresh, Phases, Life, Children, Goto
<1>1. NightlyTypeOK' /\ FilingsCounted' /\ head \in Tables
  BY DEF nightlyVars, NightlyTypeOK, FilingsCounted
<1>2. NoChildren \in [Children -> Life]
  BY DEF NoChildren
<1>3. CASE Look
  BY <1>1, <1>3 DEF Look
<1>4. CASE Cloned \/ Pulled
  BY <1>1, <1>4 DEF Cloned, Pulled
<1>5. CASE PullFails
  BY <1>1, <1>5 DEF PullFails, Fails
<1>6. CASE Serve \/ Probed \/ Launch \/ Await \/ Start
  BY <1>1, <1>6 DEF Serve, Probed, Launch, Await, Start
<1>7. CASE ProbeFindsNone \/ Returns
  BY <1>1, <1>2, <1>7 DEF ProbeFindsNone, Returns, Ends
<1>8. CASE CloneFails \/ ProbeGivesUp
  BY <1>1, <1>2, <1>8 DEF CloneFails, ProbeGivesUp, Ends, Fails
<1> QED
  BY <1>3, <1>4, <1>5, <1>6, <1>7, <1>8 DEF Script

LEMMA OtherTypes ==
    /\ TypeInv /\ UNCHANGED nightlyVars
    /\ Opens \/ Obeys \/ Replicate \/ (\E c \in Children : Dies(c))
         \/ Kill \/ Stop \/ KillStopped \/ Resume
    => TypeInv'
<1> SUFFICES ASSUME TypeInv, UNCHANGED nightlyVars,
                    Opens \/ Obeys \/ Replicate \/ (\E c \in Children : Dies(c))
                      \/ Kill \/ Stop \/ KillStopped \/ Resume
    PROVE  TypeInv'
  OBVIOUS
<1> USE ContainerAssumption DEF TypeInv, TypeOK, ClonesAfresh, Phases, Life, Children
<1>1. NightlyTypeOK' /\ FilingsCounted' /\ head \in Tables
  BY DEF nightlyVars, NightlyTypeOK, FilingsCounted
<1>2. NoChildren \in [Children -> Life]
  BY DEF NoChildren
<1>3. CASE Opens \/ Obeys \/ Replicate \/ Resume
  BY <1>1, <1>3 DEF Opens, Obeys, Replicate, Resume
<1>4. ASSUME NEW c \in Children, Dies(c) PROVE TypeInv'
  BY <1>1, <1>4 DEF Dies, Fails
<1>5. CASE Kill \/ KillStopped
  BY <1>1, <1>2, <1>5 DEF Kill, KillStopped, Ends, Fails
<1>6. CASE Stop
  BY <1>1, <1>2, <1>6 DEF Stop, Ends, Fails, Trapped, Terminated
<1> QED
  BY <1>3, <1>4, <1>5, <1>6

LEMMA TypesNext == TypeInv /\ [Next]_vars => TypeInv'
<1> SUFFICES ASSUME TypeInv, [Next]_vars PROVE TypeInv'
  OBVIOUS
<1>1. CASE UNCHANGED containerVars /\ [NightlyNext]_nightlyVars
  BY <1>1, NightlyTypes DEF TypeInv, TypeOK, ClonesAfresh, containerVars
<1>2. CASE ContainerNext /\ UNCHANGED nightlyVars
  BY <1>2, ScriptTypes, OtherTypes DEF ContainerNext
<1> QED
  BY <1>1, <1>2 DEF Next, vars

LEMMA TypesAlways == Spec => []TypeInv
  BY TypesInit, TypesNext, PTL DEF Spec

\* The state keeps its types: in particular there is data only in a repository
\* that is whole, so that a script that finds one may serve it.
THEOREM TypeCorrect == Spec => []TypeOK
<1>1. TypeInv => TypeOK
  BY DEF TypeInv
<1> QED
  BY <1>1, TypesAlways, PTL

-----------------------------------------------------------------------------
(* The refinement.                                                          *)

Derived == {"classify", "rebuild", "gc", "push"}

\* The branch is whole, the archive and then the facts of the clone are of no
\* company older than it, and the tables of the clone follow each other.
NightInv ==
    /\ \A c \in Company : head["facts"][c] \in 1..sec[c]
    /\ head = Whole(head["facts"])
    /\ night.step \in {"download", "scan"} => night.clone = head
    /\ night.step = "scan" => \A c \in Company : night.archive[c] \in head["facts"][c]..sec[c]
    /\ night.step \in Derived \cup {"materialize"} =>
         \A c \in Company : night.clone["facts"][c] \in head["facts"][c]..sec[c]
    /\ night.step = "materialize" =>
         \A c \in Company \ night.changed : night.clone["statements"][c] = night.clone["facts"][c]
    /\ night.step \in Derived => night.clone["statements"] = night.clone["facts"]
    /\ night.step \in Derived \ {"classify"} => night.clone["cik_gics"] = night.clone["facts"]

LEMMA NightInit == Init => NightInv
  BY DEF Init, NightlyInit, NightInv, Whole, All, Part, Over, Derived

LEMMA WholeClone ==
    ASSUME NightlyTypeOK, night.clone["statements"] = night.clone["facts"],
           night.clone["cik_gics"] = night.clone["facts"]
    PROVE  night.clone = Whole(night.clone["facts"])
  BY DEF NightlyTypeOK, Tables, Whole, Part

\* Versions are numbers.
LEMMA Numbers ==
  ASSUME NightlyTypeOK, NEW c \in Company
  PROVE  /\ sec[c] \in Int /\ night.archive[c] \in Int
         /\ \A p \in Part : head[p][c] \in Int /\ night.clone[p][c] \in Int
  BY NightlyAssumption DEF NightlyAssumption, NightlyTypeOK, Tables, Versions

LEMMA NightNext == NightlyTypeOK /\ NightInv /\ [NightlyNext]_nightlyVars => NightInv'
<1> SUFFICES ASSUME NightlyTypeOK, NightInv, [NightlyNext]_nightlyVars PROVE NightInv'
  OBVIOUS
<1>0. /\ DOMAIN night = {"step", "clone", "recorded", "archive", "changed"}
      /\ night = [step |-> night.step, clone |-> night.clone, recorded |-> night.recorded,
                  archive |-> night.archive, changed |-> night.changed]
      /\ DOMAIN night.clone = Part
      /\ night.clone["facts"] \in Versions /\ night.clone["statements"] \in Versions
  BY DEF NightlyTypeOK, Tables, Part
<1>1. CASE SecPublishes
  <2>1. PICK f \in Company : sec' = [sec EXCEPT ![f] = @ + 1]
    BY <1>1 DEF SecPublishes
  <2>2. \A c \in Company : sec'[c] \in Int /\ sec[c] <= sec'[c]
    BY <2>1, Numbers DEF NightlyTypeOK, Versions
  <2>3. UNCHANGED <<head, recorded, night>>
    BY <1>1 DEF SecPublishes
  <2>4. ASSUME NEW c \in Company, NEW a \in Int, NEW b \in Int, b \in a..sec[c]
        PROVE  b \in a..sec'[c]
    BY <2>2, <2>4, Numbers
  <2>5. \A c \in Company : head["facts"][c] \in 1..sec'[c]
    BY <2>4, Numbers DEF NightInv, Part
  <2>6. night.step = "scan" => \A c \in Company : night.archive[c] \in head["facts"][c]..sec'[c]
    BY <2>4, Numbers DEF NightInv, Part
  <2>7. night.step \in Derived \cup {"materialize"} =>
          \A c \in Company : night.clone["facts"][c] \in head["facts"][c]..sec'[c]
    BY <2>4, Numbers DEF NightInv, Part
  <2> QED
    BY <2>3, <2>5, <2>6, <2>7 DEF NightInv
<1>2. CASE Begin \/ Clone \/ Collect
  BY <1>0, <1>2 DEF Begin, Clone, Collect, Step, NightInv, Derived
<1>3. CASE SafetyStop \/ DryRun \/ RunFails
  BY <1>3 DEF SafetyStop, DryRun, RunFails, Step, Over, NightInv, Derived
<1>4. CASE Download
  <2>1. \A c \in Company : sec[c] \in head["facts"][c]..sec[c]
    BY Numbers DEF NightInv, Part
  <2>2. night.step = "download" /\ night' = [night EXCEPT !.step = "scan", !.archive = sec]
        /\ UNCHANGED <<sec, head>>
    BY <1>4 DEF Download, Step
  <2>3. night'.step = "scan" /\ night'.archive = sec /\ night'.clone = night.clone
    BY <1>0, <2>2
  <2> QED
    BY <2>1, <2>2, <2>3 DEF NightInv, Derived
<1>5. CASE Update
  <2> DEFINE facts == [c \in Company |-> IF c \in Changed THEN night.archive[c]
                                         ELSE night.clone["facts"][c]]
             new == {c \in Company : facts[c] # night.clone["facts"][c]}
  <2>1. /\ night.step = "scan"
        /\ night' = [night EXCEPT !.step = "materialize", !.recorded = sec,
                                  !.clone = [night.clone EXCEPT !["facts"] = facts],
                                  !.changed = new]
        /\ UNCHANGED <<sec, head>>
    BY <1>5 DEF Update, Step
  <2>2. night.clone = head /\ head["statements"] = head["facts"]
    BY <2>1 DEF NightInv, Whole, Part
  <2>3. \A c \in Company : facts[c] \in head["facts"][c]..sec[c]
    BY <2>1, <2>2, Numbers DEF NightInv, Part
  <2>4. \A c \in Company \ new : night.clone["statements"][c] = facts[c]
    BY <2>2
  <2> HIDE DEF facts, new
  <2>5. /\ night'.step = "materialize" /\ night'.changed = new
        /\ night'.clone["facts"] = facts
        /\ night'.clone["statements"] = night.clone["statements"]
    BY <1>0, <2>1 DEF Part
  <2> QED
    BY <2>1, <2>3, <2>4, <2>5 DEF NightInv, Derived
<1>6. CASE Materialize
  <2> DEFINE statements == [c \in Company |-> IF c \in night.changed THEN night.clone["facts"][c]
                                              ELSE night.clone["statements"][c]]
  <2>1. /\ night.step = "materialize"
        /\ night' = [night EXCEPT !.step = "classify",
                                  !.clone = [night.clone EXCEPT !["statements"] = statements]]
        /\ UNCHANGED <<sec, head>>
    BY <1>6 DEF Materialize, Step
  <2>2. statements = night.clone["facts"]
    <3>1. \A c \in Company : statements[c] = night.clone["facts"][c]
      BY <2>1 DEF NightInv
    <3> HIDE DEF statements
    <3>2. statements = [c \in Company |-> statements[c]]
      BY DEF statements
    <3>3. night.clone["facts"] = [c \in Company |-> night.clone["facts"][c]]
      BY <1>0 DEF Versions
    <3> QED
      BY <3>1, <3>2, <3>3
  <2> HIDE DEF statements
  <2>3. /\ night'.step = "classify"
        /\ night'.clone["facts"] = night.clone["facts"]
        /\ night'.clone["statements"] = statements
    BY <1>0, <2>1 DEF Part
  <2> QED
    BY <2>1, <2>2, <2>3 DEF NightInv, Derived
<1>7. CASE Classify
  <2>1. PICK to \in {"rebuild", "gc"} :
          /\ night.step \in Derived
          /\ night' = [night EXCEPT !.step = to,
                          !.clone = [night.clone EXCEPT !["cik_gics"] = night.clone["facts"]]]
          /\ UNCHANGED <<sec, head>>
    BY <1>7 DEF Classify, Step, Derived
  <2>2. /\ night'.step = to
        /\ night'.clone["facts"] = night.clone["facts"]
        /\ night'.clone["statements"] = night.clone["statements"]
        /\ night'.clone["cik_gics"] = night.clone["facts"]
    BY <1>0, <2>1 DEF Part
  <2> QED
    BY <2>1, <2>2 DEF NightInv, Derived
<1>8. CASE Push
  <2>1. night.step = "push" /\ night' = Over /\ head' = night.clone /\ sec' = sec
    BY <1>8 DEF Push, Step
  <2>2. night.clone = Whole(night.clone["facts"])
    BY <2>1, WholeClone DEF NightInv, Derived
  <2>3. \A c \in Company : night.clone["facts"][c] \in 1..sec[c]
    <3> SUFFICES ASSUME NEW c \in Company PROVE night.clone["facts"][c] \in 1..sec[c]
      OBVIOUS
    <3>1. head["facts"][c] \in 1..sec[c] /\ night.clone["facts"][c] \in head["facts"][c]..sec[c]
      BY <2>1 DEF NightInv, Derived
    <3>2. head["facts"][c] \in Int /\ night.clone["facts"][c] \in Int /\ sec[c] \in Int
      BY Numbers DEF Part
    <3> QED
      BY <3>1, <3>2
  <2> QED
    BY <2>1, <2>2, <2>3 DEF NightInv, Over, Derived
<1>9. CASE UNCHANGED nightlyVars
  BY <1>9 DEF nightlyVars, NightInv
<1> QED
  BY <1>1, <1>2, <1>3, <1>4, <1>5, <1>6, <1>7, <1>8, <1>9 DEF NightlyNext, NightStep

LEMMA NightAlways == Spec => []NightInv
<1>1. TypeInv /\ NightInv /\ [Next]_vars => NightInv'
  <2> SUFFICES ASSUME TypeInv, NightInv, [Next]_vars PROVE NightInv'
    OBVIOUS
  <2>1. NightlyTypeOK /\ [NightlyNext]_nightlyVars
    BY DEF TypeInv, TypeOK, Next, vars
  <2> QED
    BY <2>1, NightNext
<1> QED
  BY <1>1, NightInit, TypesAlways, PTL DEF Spec

\* A night's step is one of PublishedRuns, or none.
LEMMA NightRefines ==
    ASSUME NightlyTypeOK, NightInv, NightlyNext, data' = data
    PROVE  Published!Next \/ UNCHANGED Published!vars
<1>1. CASE SecPublishes
  BY <1>1 DEF SecPublishes, Published!Next, Published!Publish
<1>2. CASE Push
  <2>1. head' = night.clone /\ UNCHANGED <<sec, data>> /\ night.step = "push"
    BY <1>2 DEF Push, Step
  <2>2. night.clone = Whole(night.clone["facts"])
    BY <2>1, WholeClone DEF NightInv, Derived
  <2>3. "facts" \in Part /\ head' = Published!Whole(head'["facts"])
    BY <2>1, <2>2 DEF Whole, Published!Whole, Part
  <2>4. \A p \in Part, c \in Company : head'[p][c] \in head[p][c]..sec[c]
    <3>1. \A c \in Company : night.clone["facts"][c] \in head["facts"][c]..sec[c]
      BY <2>1 DEF NightInv, Derived
    <3>2. \A p \in Part : head'[p] = night.clone["facts"] /\ head[p] = head["facts"]
      BY <2>1, <2>2 DEF NightInv, Whole
    <3> QED
      BY <3>1, <3>2
  <2> QED
    BY <2>1, <2>3, <2>4 DEF Published!Next, Published!FinishRun
<1>3. CASE Begin \/ Clone \/ Download \/ SafetyStop \/ Update \/ Materialize \/ Classify
             \/ Collect \/ DryRun \/ RunFails
  BY <1>3 DEF Begin, Clone, Download, SafetyStop, Update, Materialize, Classify, Collect, DryRun,
              RunFails, Published!vars
<1> QED
  BY <1>1, <1>2, <1>3 DEF NightlyNext, NightStep

\* So is a step of the container.
LEMMA ContainerRefines ==
    ASSUME ContainerNext, UNCHANGED nightlyVars
    PROVE  Published!Next \/ UNCHANGED Published!vars
<1>1. UNCHANGED <<sec, head>>
  BY DEF nightlyVars
<1>2. CASE Cloned \/ Pulled \/ Replicate
  BY <1>1, <1>2 DEF Cloned, Pulled, Replicate, Published!Next, Published!Follow
<1>3. CASE data' = data
  BY <1>1, <1>3 DEF Published!vars
<1> QED
  BY <1>2, <1>3
     DEF ContainerNext, Script, Start, Look, CloneFails, PullFails, Serve, Probed, ProbeFindsNone,
         ProbeGivesUp, Launch, Await, Returns, Opens, Obeys, Dies, Kill, Stop, KillStopped, Resume

\* The nightly runs and the container implement PublishedRuns: the branch on
\* DoltHub and what readers of the container see are the tables of one finished
\* run, through failing nights, kills and restarts, for any number of them.
THEOREM ImplementsPublishedRuns == Spec => MirrorsRuns
<1>1. Init => Published!Init
  BY DEF Init, NightlyInit, Published!Init, All, Published!All, Whole, Published!Whole
<1>2. TypeInv /\ NightInv /\ [Next]_vars => [Published!Next]_Published!vars
  <2> SUFFICES ASSUME TypeInv, NightInv, [Next]_vars
      PROVE  Published!Next \/ UNCHANGED Published!vars
    OBVIOUS
  <2>1. CASE NightlyNext /\ UNCHANGED containerVars
    BY <2>1, NightRefines DEF TypeInv, TypeOK, containerVars
  <2>2. CASE ContainerNext /\ UNCHANGED nightlyVars
    BY <2>2, ContainerRefines
  <2>3. CASE UNCHANGED vars
    BY <2>3 DEF vars, nightlyVars, containerVars, Published!vars
  <2> QED
    BY <2>1, <2>2, <2>3 DEF Next
<1> QED
  BY <1>1, <1>2, TypesAlways, NightAlways, PTL DEF MirrorsRuns, Published!Spec, Spec
=============================================================================
