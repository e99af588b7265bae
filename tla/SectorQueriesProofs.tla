------------------------ MODULE SectorQueriesProofs ------------------------
(***************************************************************************)
(* Theorems about the classification table and its readers: for any        *)
(* number of pipelines, threads, companies and versions, any batch size,   *)
(* and any times TTL and Slow.                                             *)
(***************************************************************************)
EXTENDS SectorQueries, TLAPS

-----------------------------------------------------------------------------
(* Types, with the rows a rebuild has still to insert.                      *)

\* A rebuild that has selected its rows has all of them to insert until it
\* begins to, and some of them then.
JobShape(j) ==
    /\ j.phase \in {"drop", "create", "insert"} =>
         j.version \in Version /\ j.todo \subseteq Classified(j.version)
    /\ j.phase \in {"drop", "create"} => j.todo = Classified(j.version)

RebuildInv == RebuildTypeOK /\ \A p \in Pipeline : JobShape(job[p])

LEMMA ClassifiedType == \A v \in Version : Classified(v) \subseteq CIK
  BY RebuildInputs DEF RebuildInputs, Classified

LEMMA AtType ==
  ASSUME NEW phase \in {"idle", "update", "select"}
  PROVE  At(phase) \in Job /\ JobShape(At(phase)) /\ At(phase).phase = phase
  BY RebuildSizes DEF RebuildSizes, At, Idle, Job, Phases, JobShape

LEMMA IdleType == Idle \in Job /\ JobShape(Idle) /\ Idle.phase = "idle" /\ Idle.todo = {}
  BY RebuildSizes DEF RebuildSizes, Idle, Job, Phases, JobShape

LEMMA TableType ==
  /\ NoTable \in Table /\ NoTable.there = FALSE /\ \A c \in CIK : NoTable.rows[c] = 0
  BY RebuildSizes DEF RebuildSizes, NoTable, Table

LEMMA InitRebuild == RebuildInit => RebuildInv
<1> SUFFICES ASSUME RebuildInit PROVE RebuildInv
  OBVIOUS
<1>1. RebuildTypeOK
  <2>1. facts \in Version /\ won \in 0..MaxVersion /\ crashes \in Nat
    BY RebuildSizes DEF RebuildSizes, RebuildInit, Version
  <2>2. table \in Table /\ job \in [Pipeline -> Job]
    BY IdleType, TableType DEF RebuildInit
  <2>3. lock = NoPipeline /\ solo = {} /\ dropper = {} /\ clean = FALSE
    BY DEF RebuildInit
  <2> QED
    BY <2>1, <2>2, <2>3 DEF RebuildTypeOK
<1>2. ASSUME NEW p \in Pipeline PROVE JobShape(job[p])
  BY IdleType DEF RebuildInit
<1> QED
  BY <1>1, <1>2 DEF RebuildInv

\* What one pipeline does leaves the types alone when its job and the table do.
LEMMA RebuildInvStep ==
  ASSUME RebuildInv, NEW p \in Pipeline, NEW j \in Job, JobShape(j),
         job' = [job EXCEPT ![p] = j], facts' \in Version, table' \in Table,
         lock' \in Pipeline \cup {NoPipeline}, crashes' \in Nat,
         solo' \subseteq Pipeline, dropper' \subseteq Pipeline,
         won' \in 0..MaxVersion, clean' \in BOOLEAN
  PROVE  RebuildInv'
<1>1. job' \in [Pipeline -> Job]
  BY DEF RebuildInv, RebuildTypeOK
<1>2. \A q \in Pipeline : JobShape(job'[q])
  BY DEF RebuildInv, RebuildTypeOK
<1> QED
  BY <1>1, <1>2 DEF RebuildInv, RebuildTypeOK, JobShape, Classified, Version

LEMMA NextRebuild == RebuildInv /\ [RebuildNext]_rebuildVars => RebuildInv'
<1> SUFFICES ASSUME RebuildInv, [RebuildNext]_rebuildVars PROVE RebuildInv'
  OBVIOUS
<1>0. /\ facts \in Version /\ table \in Table /\ lock \in Pipeline \cup {NoPipeline}
      /\ job \in [Pipeline -> Job] /\ crashes \in Nat
      /\ solo \subseteq Pipeline /\ dropper \subseteq Pipeline
      /\ won \in 0..MaxVersion /\ clean \in BOOLEAN
      /\ \A p \in Pipeline : job[p] \in Job /\ JobShape(job[p])
  BY DEF RebuildInv, RebuildTypeOK
<1>1. ASSUME NEW p \in Pipeline, BeginUpdate(p) \/ BeginRebuild(p) PROVE RebuildInv'
  BY <1>0, <1>1, RebuildInvStep, AtType DEF BeginUpdate, BeginRebuild, Alone, dbVars
<1>2. ASSUME NEW p \in Pipeline, Apply(p) PROVE RebuildInv'
  <2>1. facts' \in Version
    BY <1>0, <1>2, RebuildSizes DEF Apply, Version, RebuildSizes
  <2>2. job' = [job EXCEPT ![p] = job[p]]
    BY <1>0, <1>2 DEF Apply
  <2> QED
    BY <1>0, <1>2, <2>1, <2>2, RebuildInvStep DEF Apply
<1>3. ASSUME NEW p \in Pipeline, Updated(p) PROVE RebuildInv'
  BY <1>0, <1>3, RebuildInvStep, AtType DEF Updated, dbVars, history
<1>4. ASSUME NEW p \in Pipeline, Select(p) PROVE RebuildInv'
  <2> DEFINE j == [phase |-> "drop", version |-> facts, todo |-> Classified(facts)]
  <2>1. j \in Job /\ JobShape(j)
    BY <1>0, ClassifiedType DEF Job, Phases, JobShape, Version
  <2> QED
    BY <1>0, <1>4, <2>1, RebuildInvStep DEF Select, dbVars, history
<1>5. ASSUME NEW p \in Pipeline, Drop(p) PROVE RebuildInv'
  <2> DEFINE j == [job[p] EXCEPT !.phase = "create"]
  <2>1. j \in Job /\ JobShape(j)
    BY <1>0, <1>5 DEF Drop, Job, Phases, JobShape
  <2>2. job' = [job EXCEPT ![p] = j]
    BY <1>5 DEF Drop
  <2>3. /\ UNCHANGED <<facts, lock, crashes, solo>> /\ table' = NoTable
        /\ dropper' = {p} /\ won' = 0 /\ clean' = FALSE
    BY <1>5 DEF Drop
  <2>4. 0 \in 0..MaxVersion
    BY RebuildSizes DEF RebuildSizes
  <2> HIDE DEF j
  <2> QED
    BY <1>0, <2>1, <2>2, <2>3, <2>4, RebuildInvStep, TableType
<1>6. ASSUME NEW p \in Pipeline, Create(p) PROVE RebuildInv'
  <2> DEFINE j == [job[p] EXCEPT !.phase = "insert"]
  <2>1. j \in Job /\ JobShape(j)
    BY <1>0, <1>6 DEF Create, Job, Phases, JobShape
  <2>2. job' = [job EXCEPT ![p] = j] /\ table' \in Table
    BY <1>0, <1>6 DEF Create, Table
  <2>3. UNCHANGED <<facts, lock, crashes, solo, dropper, won, clean>>
    BY <1>6 DEF Create, history
  <2> HIDE DEF j
  <2> QED
    BY <1>0, <2>1, <2>2, <2>3, RebuildInvStep
<1>7. ASSUME NEW p \in Pipeline, Insert(p) PROVE RebuildInv'
  <2>1. PICK S \in Chunks(p) :
           /\ table' = [table EXCEPT !.rows =
                          [c \in CIK |-> IF c \in S THEN job[p].version ELSE @[c]]]
           /\ job' = [job EXCEPT ![p].todo = @ \ S]
    BY <1>7 DEF Insert
  <2> DEFINE j == [job[p] EXCEPT !.todo = job[p].todo \ S]
  <2>2. j \in Job /\ JobShape(j) /\ job[p].version \in 0..MaxVersion
    BY <1>0, <1>7 DEF Insert, Job, Phases, JobShape
  <2>3. job' = [job EXCEPT ![p] = j]
    BY <2>1
  <2>4. table' \in Table
    BY <1>0, <2>1, <2>2 DEF Table
  <2>5. UNCHANGED <<facts, lock, crashes, solo, dropper, won, clean>>
    BY <1>7 DEF Insert, history
  <2> HIDE DEF j
  <2> QED
    BY <1>0, <2>2, <2>3, <2>4, <2>5, RebuildInvStep
<1>8. ASSUME NEW p \in Pipeline, Finish(p) PROVE RebuildInv'
  <2>1. job[p].version \in 0..MaxVersion
    BY <1>0 DEF Job
  <2>2. won' \in 0..MaxVersion
    BY <1>0, <1>8, <2>1 DEF Finish
  <2>3. /\ job' = [job EXCEPT ![p] = Idle] /\ UNCHANGED <<facts, table, lock, crashes>>
        /\ clean' \in BOOLEAN /\ dropper' \subseteq dropper /\ solo' \subseteq solo
    BY <1>8 DEF Finish, dbVars
  <2> QED
    BY <1>0, <2>2, <2>3, RebuildInvStep, IdleType
<1>9. ASSUME NEW p \in Pipeline, Stopped(p), crashes' \in Nat PROVE RebuildInv'
  BY <1>0, <1>9, RebuildInvStep, IdleType DEF Stopped, dbVars
<1>10. ASSUME NEW p \in Pipeline, Raise(p) \/ Crash(p) PROVE RebuildInv'
  BY <1>0, <1>9, <1>10 DEF Raise, Crash
<1>11. CASE UNCHANGED rebuildVars
  BY <1>11 DEF rebuildVars, dbVars, history, RebuildInv, RebuildTypeOK, JobShape, Classified
<1> QED
  BY <1>1, <1>2, <1>3, <1>4, <1>5, <1>6, <1>7, <1>8, <1>10, <1>11
     DEF RebuildNext, RebuildStep

-----------------------------------------------------------------------------
(* The one that dropped the table last.                                     *)

\* Rows of the version of p's job, for all it has inserted.
Kept(p) ==
    table.there /\ \A c \in Classified(job[p].version) \ job[p].todo :
                      table.rows[c] = job[p].version

DropInv ==
    /\ \A p \in dropper :
         /\ dropper = {p}
         /\ job[p].phase \in {"create", "insert"}
         /\ job[p].phase = "insert" => Kept(p)
         /\ won = 0
    /\ LastDropWins

\* A pipeline that touches neither the table nor the last dropper's job leaves
\* what the dropper has achieved alone.
LEMMA DropperUntouched ==
  ASSUME RebuildInv, DropInv, NEW p \in Pipeline, p \notin dropper, NEW j,
         job' = [job EXCEPT ![p] = j], table' = table, won' = won, dropper' = dropper
  PROVE  DropInv'
<1>1. \A q \in dropper : q # p /\ q \in Pipeline /\ job'[q] = job[q]
  BY DEF RebuildInv, RebuildTypeOK
<1>2. ASSUME NEW q \in dropper, job[q].phase = "insert" PROVE Kept(q)'
  BY <1>1, <1>2 DEF DropInv, Kept, Classified
<1>3. LastDropWins'
  BY DEF DropInv, LastDropWins, Classified
<1> QED
  BY <1>1, <1>2, <1>3 DEF DropInv

LEMMA NextDropInv ==
  RebuildInv /\ DropInv /\ [RebuildNext]_rebuildVars => DropInv'
<1> SUFFICES ASSUME RebuildInv, DropInv, [RebuildNext]_rebuildVars PROVE DropInv'
  OBVIOUS
<1>0. /\ job \in [Pipeline -> Job] /\ dropper \subseteq Pipeline /\ table \in Table
      /\ \A p \in Pipeline : JobShape(job[p]) /\ job[p] \in Job
      /\ \A v \in Version : Classified(v)' = Classified(v)
      /\ 0 \notin Version /\ facts \in Version /\ won \in 0..MaxVersion
  BY DEF RebuildInv, RebuildTypeOK, Classified, Version
<1>1. ASSUME NEW p \in Pipeline, BeginUpdate(p) \/ BeginRebuild(p) PROVE DropInv'
  BY <1>0, <1>1, DropperUntouched DEF BeginUpdate, BeginRebuild, Alone, dbVars, DropInv
<1>2. ASSUME NEW p \in Pipeline, Apply(p) PROVE DropInv'
  <2>1. UNCHANGED <<table, job, dropper, won>>
    BY <1>2 DEF Apply
  <2> QED
    BY <2>1 DEF DropInv, LastDropWins, Kept, Classified
<1>3. ASSUME NEW p \in Pipeline, Updated(p) \/ Select(p) PROVE DropInv'
  BY <1>0, <1>3, DropperUntouched DEF Updated, Select, dbVars, history, DropInv
<1>4. ASSUME NEW p \in Pipeline, Drop(p) PROVE DropInv'
  BY <1>0, <1>4 DEF Drop, DropInv, LastDropWins, Job
<1>5. ASSUME NEW p \in Pipeline, Create(p) PROVE DropInv'
  <2>1. /\ job[p].phase = "create" /\ ~table.there /\ table'.rows = table.rows /\ table'.there
        /\ job' = [job EXCEPT ![p].phase = "insert"]
        /\ won' = won /\ dropper' = dropper
    BY <1>0, <1>5 DEF Create, Table, history
  <2>2. won = 0
    BY <2>1 DEF DropInv, LastDropWins
  <2>3. \A q \in dropper : job[q].phase # "insert"
    BY <2>1 DEF DropInv, Kept
  <2>4. \A q \in dropper : q = p => job'[q].phase = "insert" /\ Kept(q)'
    BY <1>0, <2>1 DEF Kept, Job, JobShape, Classified
  <2>5. \A q \in dropper : q # p => job'[q] = job[q]
    BY <1>0, <2>1
  <2> QED
    BY <2>1, <2>2, <2>3, <2>4, <2>5 DEF DropInv, LastDropWins
<1>6. ASSUME NEW p \in Pipeline, Insert(p) PROVE DropInv'
  <2>1. PICK S \in Chunks(p) :
           /\ Insertable(p, S)
           /\ table' = [table EXCEPT !.rows =
                          [c \in CIK |-> IF c \in S THEN job[p].version ELSE @[c]]]
           /\ job' = [job EXCEPT ![p].todo = @ \ S]
    BY <1>6 DEF Insert
  <2>2. /\ table'.there
        /\ \A c \in CIK : table'.rows[c] = IF c \in S THEN job[p].version ELSE table.rows[c]
        /\ \A c \in CIK : table.rows[c] # 0 => table'.rows[c] = table.rows[c]
    BY <1>0, <2>1 DEF Table, Insertable, Chunks
  <2>3. won' = won /\ dropper' = dropper /\ job[p].phase = "insert"
    BY <1>6 DEF Insert, history
  <2>4. LastDropWins'
    <3> SUFFICES ASSUME won # 0 PROVE LastDropWins'
      BY <2>3 DEF LastDropWins
    <3>1. won \in Version
      BY <1>0 DEF Version
    <3>2. \A c \in Classified(won) : c \in CIK /\ table.rows[c] = won
      BY <3>1, ClassifiedType DEF DropInv, LastDropWins
    <3> QED
      BY <2>2, <2>3, <3>2 DEF LastDropWins, Classified
  <2>5. ASSUME NEW q \in dropper, job[q].phase = "insert" PROVE Kept(q)'
    <3>1. job[q].version \in Version /\ Kept(q) /\ q \in Pipeline
      BY <1>0, <2>5 DEF JobShape, DropInv
    <3>2. \A c \in Classified(job[q].version) : c \in CIK
      BY <3>1, ClassifiedType
    <3>3. \A c \in Classified(job[q].version) \ job[q].todo : table'.rows[c] = job[q].version
      BY <1>0, <2>2, <3>1, <3>2 DEF Kept
    <3>4. CASE q # p
      <4>1. job'[q] = job[q]
        BY <1>0, <2>1, <3>1, <3>4
      <4> QED
        BY <2>2, <3>3, <4>1 DEF Kept, Classified
    <3>5. CASE q = p
      <4>1. job'[q].version = job[p].version /\ job'[q].todo = job[p].todo \ S
        BY <1>0, <2>1, <3>1, <3>5 DEF Job
      <4>2. \A c \in Classified(job[q].version) \ job'[q].todo :
               table'.rows[c] = job[q].version
        BY <2>2, <3>2, <3>3, <3>5, <4>1
      <4> QED
        BY <2>2, <3>5, <4>1, <4>2 DEF Kept, Classified
    <3> QED
      BY <3>4, <3>5
  <2>6. \A q \in Pipeline : job'[q].phase = job[q].phase
    BY <1>0, <2>1 DEF Job
  <2> QED
    BY <1>0, <2>3, <2>4, <2>5, <2>6 DEF DropInv
<1>7. ASSUME NEW p \in Pipeline, Finish(p) PROVE DropInv'
  <2>1. CASE p \in dropper
    <3>1. dropper' = {} /\ won' = job[p].version /\ Kept(p) /\ job[p].todo = {} /\ table' = table
      BY <1>7, <2>1 DEF Finish, DropInv, dbVars
    <3> QED
      BY <3>1 DEF DropInv, LastDropWins, Kept, Classified
  <2>2. CASE p \notin dropper
    <3>1. dropper' = dropper /\ won' = won /\ table' = table /\ job' = [job EXCEPT ![p] = Idle]
      BY <1>7, <2>2 DEF Finish, dbVars
    <3> QED
      BY <2>2, <3>1, DropperUntouched
  <2> QED
    BY <2>1, <2>2
<1>8. ASSUME NEW p \in Pipeline, Raise(p) \/ Crash(p) PROVE DropInv'
  <2>1. /\ table' = table /\ won' = won /\ job' = [job EXCEPT ![p] = Idle]
        /\ dropper' = dropper \ {p}
    BY <1>8 DEF Raise, Crash, Stopped, dbVars
  <2>2. CASE p \in dropper
    <3>1. dropper' = {}
      BY <2>1, <2>2 DEF DropInv
    <3> QED
      BY <2>1, <3>1 DEF DropInv, LastDropWins, Classified
  <2>3. CASE p \notin dropper
    BY <2>1, <2>3, DropperUntouched
  <2> QED
    BY <2>2, <2>3
<1>9. CASE UNCHANGED rebuildVars
  BY <1>9 DEF rebuildVars, dbVars, history, DropInv, LastDropWins, Kept, Classified
<1> QED
  BY <1>1, <1>2, <1>3, <1>4, <1>5, <1>6, <1>7, <1>8, <1>9 DEF RebuildNext, RebuildStep

-----------------------------------------------------------------------------
(* A run that has the database to itself.                                   *)

\* The rows of version v for the companies of C, and no others.
Exactly(v, C) ==
    table.there /\ \A c \in CIK : table.rows[c] = IF c \in C THEN v ELSE 0

SoloInv ==
    \A p \in solo :
        /\ Active = {p}
        /\ job[p].phase = "create" => table = NoTable
        /\ job[p].phase = "insert" =>
             Exactly(job[p].version, Classified(job[p].version) \ job[p].todo)

CleanInv ==
    clean => /\ Exactly(facts, Classified(facts))
             /\ \A p \in Pipeline : job[p].phase \notin {"create", "insert"}

LEMMA NextSoloInv ==
  RebuildInv /\ SoloInv /\ [RebuildNext]_rebuildVars => SoloInv'
<1> SUFFICES ASSUME RebuildInv, SoloInv, [RebuildNext]_rebuildVars PROVE SoloInv'
  OBVIOUS
<1>0. /\ job \in [Pipeline -> Job] /\ solo \subseteq Pipeline /\ table \in Table
      /\ \A p \in Pipeline : JobShape(job[p]) /\ job[p] \in Job
      /\ \A v : Classified(v)' = Classified(v)
      /\ facts \in Version
  BY DEF RebuildInv, RebuildTypeOK, Classified
\* A pipeline that moves is active, or begins.
<1>a. ASSUME NEW p \in Pipeline, job[p].phase # "idle", NEW q \in solo PROVE q = p
  BY <1>a DEF SoloInv, Active
<1>b. ASSUME NEW p \in Pipeline, job[p].phase # "idle", NEW j, j.phase # "idle",
             job' = [job EXCEPT ![p] = j]
      PROVE  Active' = Active
  BY <1>0, <1>b DEF Active
<1>1. ASSUME NEW p \in Pipeline, BeginUpdate(p) \/ BeginRebuild(p) PROVE SoloInv'
  <2>1. job[p].phase = "idle" /\ job'[p].phase \in {"update", "select"}
    BY <1>0, <1>1, AtType DEF BeginUpdate, BeginRebuild
  <2>2. \A q \in Pipeline : q # p => job'[q] = job[q]
    BY <1>0, <1>1 DEF BeginUpdate, BeginRebuild
  <2>3. solo' = IF Active = {} THEN {p} ELSE {}
    BY <1>1 DEF BeginUpdate, BeginRebuild, Alone
  <2>4. Active = {} => Active' = {p}
    BY <2>1, <2>2 DEF Active
  <2> QED
    BY <2>1, <2>3, <2>4 DEF SoloInv
<1>2. ASSUME NEW p \in Pipeline, Apply(p) PROVE SoloInv'
  <2>1. UNCHANGED <<table, job, solo>>
    BY <1>2 DEF Apply
  <2> QED
    BY <2>1 DEF SoloInv, Active, Exactly, Classified
<1>3. ASSUME NEW p \in Pipeline, Updated(p) \/ Select(p) \/ Drop(p) \/ Create(p) PROVE SoloInv'
  <2>1. job[p].phase # "idle" /\ solo' = solo
    BY <1>3 DEF Updated, Select, Drop, Create, history
  <2>2. SUFFICES ASSUME NEW q \in solo
                 PROVE  /\ Active' = {q}
                        /\ job'[q].phase = "create" => table' = NoTable
                        /\ job'[q].phase = "insert" =>
                             Exactly(job[q].version, Classified(job[q].version) \ job[q].todo)'
    BY <2>1 DEF SoloInv
  <2>3. q = p /\ Active = {p}
    BY <1>a, <2>1, <2>2 DEF SoloInv
  <2>4. CASE Updated(p)
    <3>1. job' = [job EXCEPT ![p] = At("select")]
      BY <2>4 DEF Updated
    <3>2. job'[p].phase = "select"
      BY <1>0, <3>1, AtType
    <3> QED
      BY <1>b, <2>1, <2>3, <3>1, <3>2, AtType
  <2>5. CASE Select(p)
    <3>1. job' = [job EXCEPT ![p] = [phase |-> "drop", version |-> facts,
                                     todo |-> Classified(facts)]]
      BY <2>5 DEF Select
    <3>2. job'[p].phase = "drop"
      BY <1>0, <3>1
    <3> QED
      BY <1>b, <2>1, <2>3, <3>1, <3>2
  <2>6. CASE Drop(p)
    <3>1. job' = [job EXCEPT ![p] = [job[p] EXCEPT !.phase = "create"]] /\ table' = NoTable
      BY <2>6 DEF Drop
    <3>2. job'[p].phase = "create"
      BY <1>0, <3>1 DEF Job
    <3>3. Active' = Active
      BY <1>0, <1>b, <2>1, <3>1 DEF Job
    <3> QED
      BY <2>3, <3>1, <3>2, <3>3
  <2>7. CASE Create(p)
    <3>1. /\ job' = [job EXCEPT ![p] = [job[p] EXCEPT !.phase = "insert"]]
          /\ table' = [table EXCEPT !.there = TRUE] /\ job[p].phase = "create"
      BY <2>7 DEF Create
    <3>2. /\ job'[p].phase = "insert" /\ job'[p].todo = Classified(job'[p].version)
      BY <1>0, <3>1 DEF Job, JobShape
    <3>3. Active' = Active
      BY <1>0, <1>b, <2>1, <3>1 DEF Job
    <3>4. table'.there /\ \A c \in CIK : table'.rows[c] = 0
      BY <1>0, <2>3, <3>1, TableType DEF SoloInv, Table
    <3>5. Classified(job'[p].version) \ job'[p].todo = {}
      BY <3>2
    <3>6. Exactly(job[p].version, Classified(job[p].version) \ job[p].todo)'
      BY <1>0, <3>4, <3>5 DEF Exactly
    <3> QED
      BY <2>3, <3>2, <3>3, <3>6
  <2> QED
    BY <1>3, <2>4, <2>5, <2>6, <2>7
<1>4. ASSUME NEW p \in Pipeline, Insert(p) PROVE SoloInv'
  <2>1. PICK S \in Chunks(p) :
           /\ Insertable(p, S)
           /\ table' = [table EXCEPT !.rows =
                          [c \in CIK |-> IF c \in S THEN job[p].version ELSE @[c]]]
           /\ job' = [job EXCEPT ![p].todo = @ \ S]
    BY <1>4 DEF Insert
  <2>2. solo' = solo /\ job[p].phase = "insert"
    BY <1>4 DEF Insert, history
  <2>3. /\ job'[p].phase = "insert" /\ job'[p].version = job[p].version
        /\ job'[p].todo = job[p].todo \ S
    BY <1>0, <2>1, <2>2 DEF Job
  <2>4. \A r \in Pipeline : job'[r].phase = job[r].phase
    BY <1>0, <2>1 DEF Job
  <2>5. Active' = Active
    BY <2>4 DEF Active
  <2>6. SUFFICES ASSUME NEW q \in solo
                 PROVE  Exactly(job[p].version, Classified(job[p].version) \ job[p].todo)' /\ q = p
    BY <2>2, <2>3, <2>5, <2>6 DEF SoloInv
  <2>7. q = p /\ Exactly(job[p].version, Classified(job[p].version) \ job[p].todo)
    BY <1>a, <2>2, <2>6 DEF SoloInv
  <2>8. S \subseteq Classified(job[p].version)
    BY <1>0, <2>1, <2>2 DEF Chunks, JobShape
  <2>9. /\ table'.there
        /\ \A c \in CIK : table'.rows[c] = IF c \in S THEN job[p].version ELSE table.rows[c]
    BY <1>0, <2>1 DEF Table, Insertable
  <2> QED
    BY <1>0, <2>3, <2>7, <2>8, <2>9 DEF Exactly
<1>5. ASSUME NEW p \in Pipeline, Finish(p) \/ Raise(p) \/ Crash(p) PROVE SoloInv'
  <2>1. job[p].phase # "idle"
    BY <1>5 DEF Finish, Raise, Crash, Conflict, Active
  <2>2. solo' = solo \ {p}
    BY <1>5 DEF Finish, Raise, Crash, Stopped
  <2>3. solo' = {}
    BY <1>a, <2>1, <2>2
  <2> QED
    BY <2>3 DEF SoloInv
<1>6. CASE UNCHANGED rebuildVars
  BY <1>6 DEF rebuildVars, dbVars, history, SoloInv, Active, Exactly, Classified
<1> QED
  BY <1>1, <1>2, <1>3, <1>4, <1>5, <1>6 DEF RebuildNext, RebuildStep

LEMMA NextCleanInv ==
  RebuildInv /\ SoloInv /\ CleanInv /\ [RebuildNext]_rebuildVars => CleanInv'
<1> SUFFICES ASSUME RebuildInv, SoloInv, CleanInv, [RebuildNext]_rebuildVars PROVE CleanInv'
  OBVIOUS
<1>0. /\ job \in [Pipeline -> Job] /\ solo \subseteq Pipeline
      /\ \A v : Classified(v)' = Classified(v)
  BY DEF RebuildInv, RebuildTypeOK, Classified
<1>1. ASSUME NEW p \in Pipeline, NEW j, j.phase \notin {"create", "insert"},
             job' = [job EXCEPT ![p] = j], UNCHANGED <<facts, table, clean>>
      PROVE  CleanInv'
  <2>1. \A q \in Pipeline : q # p => job'[q] = job[q]
    BY <1>0, <1>1
  <2>2. job'[p] = j
    BY <1>0, <1>1
  <2> QED
    BY <1>0, <1>1, <2>1, <2>2 DEF CleanInv, Exactly
<1>2. ASSUME NEW p \in Pipeline, BeginUpdate(p) \/ BeginRebuild(p) \/ Updated(p) \/ Select(p)
      PROVE  CleanInv'
  BY <1>1, <1>2, AtType DEF BeginUpdate, BeginRebuild, Updated, Select, dbVars, history
<1>3. ASSUME NEW p \in Pipeline, Apply(p) \/ Drop(p) PROVE CleanInv'
  BY <1>3 DEF Apply, Drop, CleanInv
<1>4. ASSUME NEW p \in Pipeline, Create(p) \/ Insert(p) PROVE CleanInv'
  <2>1. ~clean /\ clean' = clean
    BY <1>4 DEF Create, Insert, history, CleanInv
  <2> QED
    BY <2>1 DEF CleanInv
<1>5. ASSUME NEW p \in Pipeline, Finish(p) PROVE CleanInv'
  <2>1. SUFFICES ASSUME clean' PROVE CleanInv'
    BY DEF CleanInv
  <2>2. /\ p \in solo /\ job[p].version = facts /\ job[p].todo = {} /\ job[p].phase = "insert"
        /\ facts' = facts /\ table' = table /\ job' = [job EXCEPT ![p] = Idle]
    BY <1>5, <2>1 DEF Finish, dbVars
  <2>3. Active = {p} /\ Exactly(facts, Classified(facts) \ {})
    BY <2>2 DEF SoloInv
  <2>4. Exactly(facts, Classified(facts))
    BY <2>3 DEF Exactly
  <2>5. \A q \in Pipeline : job'[q].phase = "idle"
    BY <1>0, <2>2, <2>3, IdleType DEF Active
  <2> QED
    BY <1>0, <2>2, <2>4, <2>5 DEF CleanInv, Exactly
<1>6. ASSUME NEW p \in Pipeline, Raise(p) \/ Crash(p) PROVE CleanInv'
  BY <1>1, <1>6, IdleType DEF Raise, Crash, Stopped, dbVars
<1>7. CASE UNCHANGED rebuildVars
  BY <1>7 DEF rebuildVars, dbVars, history, CleanInv, Exactly, Classified
<1> QED
  BY <1>2, <1>3, <1>4, <1>5, <1>6, <1>7 DEF RebuildNext, RebuildStep

\* What the three say of the properties.
LEMMA CleanIsWhole == RebuildInv /\ CleanInv => SoloIsWhole
  BY DEF RebuildInv, RebuildTypeOK, Table, CleanInv, Exactly, SoloIsWhole

LEMMA SoloHasNoConflict == RebuildInv /\ SoloInv => SoloNeverRaises
<1> SUFFICES ASSUME RebuildInv, SoloInv, NEW p \in solo PROVE ~Conflict(p)
  BY DEF SoloNeverRaises
<1>1. p \in Pipeline /\ JobShape(job[p])
  BY DEF RebuildInv, RebuildTypeOK
<1>2. job[p].phase = "create" => ~table.there
  BY TableType DEF SoloInv
<1>3. ASSUME job[p].phase = "insert", NEW S \in Chunks(p) PROVE Insertable(p, S)
  <2>1. S \subseteq job[p].todo
    BY <1>3 DEF Chunks
  <2>2. job[p].todo \subseteq CIK
    BY <1>1, <1>3, ClassifiedType DEF JobShape
  <2>3. Exactly(job[p].version, Classified(job[p].version) \ job[p].todo)
    BY <1>3 DEF SoloInv
  <2> QED
    BY <2>1, <2>2, <2>3 DEF Exactly, Insertable
<1> QED
  BY <1>2, <1>3 DEF Conflict

-----------------------------------------------------------------------------
(* The readers.                                                             *)

\* What a thread may still say of a table that has been gone for some time:
\* what it has seen is no older than its clock, what the globals say no older
\* than the clock of the thread that wrote them and Slow.
Told(t) ==
    /\ call[t].phase = "assign" /\ call[t].seen => gone <= call[t].waited
    /\ call[t].phase = "stamp" /\ present => gone <= call[t].waited + Slow
    /\ call[t].phase = "use" /\ present => gone < TTL + Slow + call[t].waited

ReaderTypeOK ==
    /\ present \in BOOLEAN
    /\ age \in 0..MaxAge
    /\ call \in [Thread -> Call]
    /\ gone \in 0..Bound

ReaderInv ==
    /\ ReaderTypeOK
    /\ table.there => gone = 0
    /\ present => gone <= age + Slow
    /\ \A t \in Thread : Told(t)

LEMMA OlderType ==
  ASSUME NEW max \in Nat, NEW n \in 0..max
  PROVE  /\ Older(n, max) \in 0..max
         /\ n <= Older(n, max) /\ Older(n, max) <= n + 1
         /\ Older(n, max) = n => n = max
  BY DEF Older

LEMMA InitReader == Init => ReaderInv
<1> SUFFICES ASSUME Init PROVE ReaderInv
  OBVIOUS
<1>1. present = FALSE /\ gone = 0 /\ age \in 0..MaxAge /\ 0 \in 0..Bound /\ 0 \in 0..Slow
  BY ClockSizes DEF ClockSizes, Init, Bound
<1>2. call \in [Thread -> Call]
  BY <1>1 DEF Init, NoCall, Call, CallPhases
<1>3. \A t \in Thread : call[t].phase = "idle"
  BY DEF Init, NoCall
<1> QED
  BY <1>1, <1>2, <1>3 DEF ReaderInv, ReaderTypeOK, Told

\* A thread's step that writes neither global.
LEMMA OneCall ==
  ASSUME ReaderInv, NEW t \in Thread, NEW k \in Call, call' = [call EXCEPT ![t] = k],
         UNCHANGED <<present, age, gone, table>>,
         k.phase = "assign" /\ k.seen => gone <= k.waited,
         k.phase = "stamp" /\ present => gone <= k.waited + Slow,
         k.phase = "use" /\ present => gone < TTL + Slow + k.waited
  PROVE  ReaderInv'
<1>1. call' \in [Thread -> Call] /\ call'[t] = k
  BY DEF ReaderInv, ReaderTypeOK
<1>2. \A u \in Thread : u # t => call'[u] = call[u]
  BY DEF ReaderInv, ReaderTypeOK
<1>3. ASSUME NEW u \in Thread PROVE Told(u)'
  BY <1>1, <1>2 DEF ReaderInv, Told
<1> QED
  BY <1>1, <1>3 DEF ReaderInv, ReaderTypeOK

LEMMA NextReader == RebuildInv /\ ReaderInv /\ [Next]_vars => ReaderInv'
<1> SUFFICES ASSUME RebuildInv, ReaderInv, [Next]_vars PROVE ReaderInv'
  OBVIOUS
<1>0. /\ present \in BOOLEAN /\ age \in 0..MaxAge /\ call \in [Thread -> Call]
      /\ gone \in 0..Bound /\ TTL \in Nat \ {0} /\ Slow \in Nat
      /\ MaxAge = TTL + Slow /\ Bound = TTL + 2 * Slow
      /\ \A t \in Thread : call[t] \in Call /\ call[t].waited \in 0..Slow /\ Told(t)
      /\ table.there \in BOOLEAN /\ (present => gone <= age + Slow)
  BY ClockSizes DEF ClockSizes, ReaderInv, ReaderTypeOK, MaxAge, Bound, Call,
                    RebuildInv, RebuildTypeOK, Table
<1>1. ASSUME NEW t \in Thread, Ask(t) PROVE ReaderInv'
  <2> DEFINE k == [phase |-> "check", waited |-> 0, seen |-> FALSE]
  <2>1. k \in Call /\ k.phase = "check"
    BY <1>0 DEF Call, CallPhases
  <2>2. call' = [call EXCEPT ![t] = k] /\ UNCHANGED <<present, age, gone, table>>
    BY <1>1 DEF Ask, rebuildVars, dbVars
  <2> HIDE DEF k
  <2> QED
    BY <2>1, <2>2, OneCall
<1>2. ASSUME NEW t \in Thread, StillKnown(t) PROVE ReaderInv'
  <2> DEFINE k == [call[t] EXCEPT !.phase = "use"]
  <2>1. k \in Call /\ k.phase = "use" /\ k.waited = call[t].waited
    BY <1>0 DEF Call, CallPhases
  <2>2. /\ call' = [call EXCEPT ![t] = k] /\ UNCHANGED <<present, age, gone, table>>
        /\ age - call[t].waited < TTL
    BY <1>2 DEF StillKnown, Recent, Step, rebuildVars, dbVars
  <2>3. present => gone < TTL + Slow + k.waited
    BY <1>0, <2>1, <2>2
  <2> HIDE DEF k
  <2> QED
    BY <2>1, <2>2, <2>3, OneCall
<1>3. ASSUME NEW t \in Thread, Expired(t) PROVE ReaderInv'
  <2> DEFINE k == [call[t] EXCEPT !.phase = "look"]
  <2>1. k \in Call /\ k.phase = "look"
    BY <1>0 DEF Call, CallPhases
  <2>2. call' = [call EXCEPT ![t] = k] /\ UNCHANGED <<present, age, gone, table>>
    BY <1>3 DEF Expired, Step, rebuildVars, dbVars
  <2> HIDE DEF k
  <2> QED
    BY <2>1, <2>2, OneCall
<1>4. ASSUME NEW t \in Thread, Look(t) PROVE ReaderInv'
  <2>1. PICK seen \in {FALSE, table.there} :
           call' = [call EXCEPT ![t] = [call[t] EXCEPT !.phase = "assign", !.seen = seen]]
    BY <1>4 DEF Look
  <2> DEFINE k == [call[t] EXCEPT !.phase = "assign", !.seen = seen]
  <2>2. k \in Call /\ k.phase = "assign" /\ k.seen = seen /\ k.waited = call[t].waited
    BY <1>0 DEF Call, CallPhases
  <2>3. call' = [call EXCEPT ![t] = k] /\ UNCHANGED <<present, age, gone, table>>
    BY <1>4, <2>1 DEF Look, rebuildVars, dbVars
  <2>4. seen => gone = 0
    BY <2>1 DEF ReaderInv
  <2>5. k.seen => gone <= k.waited
    BY <1>0, <2>2, <2>4
  <2> HIDE DEF k
  <2> QED
    BY <2>2, <2>3, <2>5, OneCall
<1>5. ASSUME NEW t \in Thread, Assign(t) PROVE ReaderInv'
  <2>1. /\ call[t].phase = "assign" /\ call' = [call EXCEPT ![t] = [call[t] EXCEPT !.phase = "stamp"]]
        /\ present' = call[t].seen /\ UNCHANGED <<age, gone, table>>
    BY <1>5 DEF Assign, Step, rebuildVars, dbVars
  <2>2. call' \in [Thread -> Call] /\ present' \in BOOLEAN
    BY <1>0, <2>1 DEF Call, CallPhases
  <2>3. /\ call'[t].phase = "stamp"
        /\ \A u \in Thread : call'[u].waited = call[u].waited /\ call'[u].seen = call[u].seen
        /\ \A u \in Thread : u # t => call'[u].phase = call[u].phase
    BY <1>0, <2>1 DEF Call
  <2>4. ASSUME present' PROVE gone <= call[t].waited /\ gone <= Slow
    <3>1. gone <= call[t].waited
      BY <1>0, <2>1, <2>4 DEF Told
    <3> QED
      BY <1>0, <3>1
  <2>5. ASSUME NEW u \in Thread PROVE Told(u)'
    BY <1>0, <2>1, <2>3, <2>4 DEF Told
  <2> QED
    BY <1>0, <2>1, <2>2, <2>4, <2>5 DEF ReaderInv, ReaderTypeOK
<1>6. ASSUME NEW t \in Thread, Stamp(t) PROVE ReaderInv'
  <2>1. /\ call[t].phase = "stamp" /\ call' = [call EXCEPT ![t] = [call[t] EXCEPT !.phase = "use"]]
        /\ age' = call[t].waited /\ UNCHANGED <<present, gone, table>>
    BY <1>6 DEF Stamp, Step, rebuildVars, dbVars
  <2>2. call' \in [Thread -> Call] /\ age' \in 0..MaxAge
    BY <1>0, <2>1 DEF Call, CallPhases
  <2>3. /\ call'[t].phase = "use"
        /\ \A u \in Thread : call'[u].waited = call[u].waited /\ call'[u].seen = call[u].seen
        /\ \A u \in Thread : u # t => call'[u].phase = call[u].phase
    BY <1>0, <2>1 DEF Call
  <2>4. present => gone <= call[t].waited + Slow /\ gone < TTL + Slow + call[t].waited
    BY <1>0, <2>1 DEF Told
  <2>5. ASSUME NEW u \in Thread PROVE Told(u)'
    BY <1>0, <2>1, <2>3, <2>4 DEF Told
  <2> QED
    BY <1>0, <2>1, <2>2, <2>4, <2>5 DEF ReaderInv, ReaderTypeOK
<1>7. ASSUME NEW t \in Thread, Use(t) PROVE ReaderInv'
  <2>1. NoCall \in Call /\ NoCall.phase = "idle"
    BY <1>0 DEF NoCall, Call, CallPhases
  <2>2. call' = [call EXCEPT ![t] = NoCall] /\ UNCHANGED <<present, age, gone, table>>
    BY <1>7 DEF Use, rebuildVars, dbVars
  <2> QED
    BY <2>1, <2>2, OneCall
<1>8. CASE Tick
  <2>1. /\ \A t \in Thread : call[t].phase # "idle" => call[t].waited < Slow
        /\ age' = Older(age, MaxAge)
        /\ gone' = IF table.there THEN 0 ELSE Older(gone, Bound)
        /\ call' = [t \in Thread |->
                      IF call[t].phase = "idle" THEN call[t]
                      ELSE [call[t] EXCEPT !.waited = @ + 1]]
        /\ present' = present /\ table' = table
    BY <1>8 DEF Tick, rebuildVars, dbVars
  <2>2. /\ age' \in 0..MaxAge /\ (age' = age + 1 \/ (age' = age /\ age = TTL + Slow))
        /\ gone' \in 0..Bound /\ gone' <= gone + 1
    BY <1>0, <2>1 DEF Older
  <2>3. ASSUME NEW t \in Thread
        PROVE  /\ call'[t] \in Call /\ call'[t].phase = call[t].phase
               /\ call'[t].seen = call[t].seen
               /\ call[t].phase # "idle" => call'[t].waited = call[t].waited + 1
    BY <1>0, <2>1 DEF Call
  <2>4. call' \in [Thread -> Call]
    BY <2>1, <2>3
  <2>5. ASSUME present PROVE gone' <= age' + Slow
    <3>1. gone <= age + Slow
      BY <1>0, <2>5
    <3>2. gone \in Int /\ age \in Int /\ Slow \in Int /\ TTL \in Int /\ gone' \in Int
      BY <1>0, <2>2
    <3>3. gone' <= TTL + 2 * Slow
      BY <1>0, <2>2
    <3>4. CASE age' = age + 1
      BY <2>2, <3>1, <3>2, <3>4
    <3>5. CASE age' = age /\ age = TTL + Slow
      BY <3>2, <3>3, <3>5
    <3> QED
      BY <2>2, <3>4, <3>5
  <2>6. ASSUME NEW t \in Thread PROVE Told(t)'
    <3>1. CASE call[t].phase = "idle"
      BY <2>3, <3>1 DEF Told
    <3>2. CASE call[t].phase # "idle"
      <4>1. /\ call'[t].waited = call[t].waited + 1
            /\ call[t].waited \in Int /\ gone \in Int /\ gone' \in Int
            /\ gone' <= gone + 1 /\ TTL \in Int /\ Slow \in Int
        BY <1>0, <2>2, <2>3, <3>2
      <4>2. gone <= call[t].waited => gone' <= call'[t].waited
        BY <4>1
      <4>3. gone <= call[t].waited + Slow => gone' <= call'[t].waited + Slow
        BY <4>1
      <4>4. gone < TTL + Slow + call[t].waited => gone' < TTL + Slow + call'[t].waited
        BY <4>1
      <4>5. Told(t) /\ present' = present
        BY <1>0, <2>1
      <4> QED
        BY <2>3, <4>2, <4>3, <4>4, <4>5, Zenon DEF Told
    <3> QED
      BY <3>1, <3>2
  <2> QED
    BY <2>1, <2>2, <2>4, <2>5, <2>6 DEF ReaderInv, ReaderTypeOK
<1>9. CASE Rebuild
  <2>1. /\ gone' = IF table.there # table'.there THEN 0 ELSE gone
        /\ UNCHANGED <<present, age, call>>
    BY <1>9 DEF Rebuild
  <2>2. /\ gone' \in 0..Bound /\ gone' <= gone /\ (table'.there => gone' = 0)
    BY <1>0, <2>1 DEF ReaderInv
  <2>3. ASSUME NEW t \in Thread PROVE Told(t)'
    BY <1>0, <2>1, <2>2 DEF Told
  <2> QED
    BY <1>0, <2>1, <2>2, <2>3 DEF ReaderInv, ReaderTypeOK
<1>10. CASE UNCHANGED vars
  BY <1>10 DEF vars, rebuildVars, dbVars, readerVars, ReaderInv, ReaderTypeOK, Told
<1> QED
  BY <1>1, <1>2, <1>3, <1>4, <1>5, <1>6, <1>7, <1>8, <1>9, <1>10 DEF Next, ThreadStep

-----------------------------------------------------------------------------
(* The theorems.                                                            *)

\* What all of them rest on.
Inv == RebuildInv /\ DropInv /\ SoloInv /\ CleanInv /\ ReaderInv

\* Threads and the clock leave cik_gics alone.
LEMMA StepsOfRebuild == [Next]_vars => [RebuildNext]_rebuildVars
  BY DEF Next, vars, Rebuild, Tick, Ask, ThreadStep, StillKnown, Expired, Look,
         Assign, Stamp, Use, rebuildVars

THEOREM Invariant == Spec => []Inv
<1>1. Init => Inv
  <2> SUFFICES ASSUME Init PROVE Inv
    OBVIOUS
  <2>1. RebuildInv /\ ReaderInv
    BY InitRebuild, InitReader DEF Init
  <2>2. solo = {} /\ dropper = {} /\ won = 0 /\ clean = FALSE
    BY DEF Init, RebuildInit
  <2> QED
    BY <2>1, <2>2 DEF Inv, DropInv, LastDropWins, SoloInv, CleanInv
<1>2. Inv /\ [Next]_vars => Inv'
  BY StepsOfRebuild, NextRebuild, NextDropInv, NextSoloInv, NextCleanInv, NextReader DEF Inv
<1> QED
  BY <1>1, <1>2, PTL DEF Spec

\* Types: a rebuild only ever inserts classifications of a version it has read,
\* and the ages stay within what the clock allows.
THEOREM TypeCorrect == Spec => []TypeOK
<1>1. Inv => TypeOK
  BY DEF Inv, RebuildInv, ReaderInv, ReaderTypeOK, TypeOK
<1> QED
  BY Invariant, <1>1, PTL

\* A rebuild that dropped the table last and reports success (rebuild returns)
\* has all of its rows in it, however many rebuilds overlap and whatever fails.
THEOREM DropperWins == Spec => []LastDropWins
<1>1. Inv => LastDropWins
  BY DEF Inv, DropInv
<1> QED
  BY Invariant, <1>1, PTL

\* A run that had the database to itself leaves exactly the classification of
\* the stored facts, and never fails on what crashed or overlapping runs left.
THEOREM AloneIsWhole == Spec => []SoloRepairs
<1>1. Inv => SoloRepairs
  BY CleanIsWhole, SoloHasNoConflict DEF Inv, SoloRepairs
<1> QED
  BY Invariant, <1>1, PTL

\* _has_cik_gics sends no query to a table that has been gone for TTL and twice
\* the time a thread spends in it, for any number of threads.
THEOREM MissingNoticed == Spec => []MissingIsNoticed
<1>1. Inv => MissingIsNoticed
  <2> SUFFICES ASSUME Inv, NEW t \in Thread, call[t].phase = "use", present
               PROVE  gone < Bound
    BY DEF MissingIsNoticed
  <2>1. gone < TTL + Slow + call[t].waited
    BY DEF Inv, ReaderInv, Told
  <2>2. call[t].waited \in 0..Slow /\ gone \in Int
    BY DEF Inv, ReaderInv, ReaderTypeOK, Call
  <2> QED
    BY <2>1, <2>2, ClockSizes DEF ClockSizes, Bound
<1> QED
  BY Invariant, <1>1, PTL
=============================================================================
