------------------------- MODULE BulkIngestProofs --------------------------
(***************************************************************************)
(* Theorems about bulk runs: for any number of companies, versions, any    *)
(* batch size and any crashes between two statements.                      *)
(***************************************************************************)
EXTENDS BulkIngest, FiniteSetTheorems, TLAPS

-----------------------------------------------------------------------------
(* Types, with what the program counter says of the other locals.           *)

Reading == run.stage \in {"facts", "submissions"}

Shape ==
    /\ archive \in [facts: [CIK -> Version], subs: [CIK -> Version]]
    /\ Reading => run.zip \in [CIK -> Version]
    /\ run.step # 0 => Reading /\ run.file # NoFile
    /\ run.stage = "submissions" => run.step <= 4
    /\ run.stage = "submissions" /\ run.file # NoFile => run.step # 0
    /\ ~Reading => run.file = NoFile
    /\ run.stage # "facts" => run.batch = {} /\ run.flush = {}
    /\ run.todo \cap (run.batch \cup run.flush) = {}
    /\ run.step # 0 => run.file \notin run.todo \cup run.batch \cup run.flush
    /\ run.file # NoFile /\ run.step # 0 => run.flush = {}
    /\ run.flush # {} => run.batch = {}
    /\ run.stage = "facts" /\ run.file # NoFile /\ run.step = 0 => run.file \in run.flush

TypeInv == TypeOK /\ Shape

LEMMA InitTypeInv == Init => TypeInv
  BY BulkBounds, NoFileAssumption
     DEF BulkBounds, Init, TypeInv, TypeOK, Shape, Reading, Ended, NoRows, NoParts, Db,
         Run, Table, MaybeVersion, Version, None, Parts, Part

\* The locals stay well typed when those of a file are updated.
LEMMA RunUpdate ==
  ASSUME run \in Run, NEW t \in SUBSET CIK, NEW f \in CIK \cup {NoFile},
         NEW n \in 0..8, NEW b \in SUBSET CIK
  PROVE  LET r == [run EXCEPT !.todo = t, !.file = f, !.step = n, !.batch = b]
         IN /\ r \in Run
            /\ r.stage = run.stage /\ r.zip = run.zip /\ r.todo = t /\ r.file = f
            /\ r.step = n /\ r.batch = b /\ r.flush = run.flush
  BY DEF Run

\* A stage that has ended leaves empty locals.
LEMMA EndedShape ==
  ASSUME TypeInv, NEW stage \in {"down", "done"}, run' = Ended(stage),
         db' \in Db, UNCHANGED archive,
         crashes' \in Nat, unresolved' \in Nat, raises' \in Nat
  PROVE  TypeInv'
  BY NoFileAssumption, BulkBounds
     DEF BulkBounds, Version, TypeInv, TypeOK, Shape, Reading, Ended, NoRows, Run, Table, MaybeVersion, None

LEMMA NextTypeInv == TypeInv /\ [Next]_vars => TypeInv'
<1> SUFFICES ASSUME TypeInv, [Next]_vars PROVE TypeInv'
  OBVIOUS
<1> USE BulkBounds, NoFileAssumption
<1>0. /\ archive \in [facts: [CIK -> Version], subs: [CIK -> Version]]
      /\ db \in Db /\ run \in Run
      /\ crashes \in Nat /\ unresolved \in Nat /\ raises \in Nat
      /\ Version \subseteq MaybeVersion /\ None \in MaybeVersion
  BY DEF TypeInv, TypeOK, Shape, Version, MaybeVersion, None
<1>1. ASSUME NEW c \in CIK, FileFinancials(c) \/ FileOther(c) PROVE TypeInv'
  <2>1. archive' \in [facts: [CIK -> Version], subs: [CIK -> Version]]
    <3>1. archive.facts \in [CIK -> Version] /\ archive.subs \in [CIK -> Version]
      BY <1>0
    <3>2. CASE FileFinancials(c)
      <4>1. archive.facts[c] + 1 \in Version /\ archive.subs[c] + 1 \in Version
        BY <3>1, <3>2 DEF FileFinancials, Version, BulkBounds
      <4>2. archive' = [archive EXCEPT !.facts = [archive.facts EXCEPT ![c] = archive.facts[c] + 1],
                                       !.subs = [archive.subs EXCEPT ![c] = archive.subs[c] + 1]]
        BY <1>0, <3>2 DEF FileFinancials
      <4> QED
        BY <1>0, <3>1, <4>1, <4>2
    <3>3. CASE FileOther(c)
      <4>1. archive.subs[c] + 1 \in Version
        BY <3>1, <3>3 DEF FileOther, Version, BulkBounds
      <4>2. archive' = [archive EXCEPT !.subs = [archive.subs EXCEPT ![c] = archive.subs[c] + 1]]
        BY <1>0, <3>3 DEF FileOther
      <4> QED
        BY <1>0, <3>1, <4>1, <4>2
    <3> QED
      BY <1>1, <3>2, <3>3
  <2>2. archive' \in [facts: Table, subs: Table]
    BY <2>1, <1>0 DEF Table
  <2> QED
    BY <1>1, <2>1, <2>2
       DEF FileFinancials, FileOther, TypeInv, TypeOK, Shape, Reading, counters
<1>2. CASE StartRun
  <2>1. archive.facts \in [CIK -> Version] /\ archive.facts \in Table
    BY <1>0 DEF Table
  <2> QED
    BY <1>0, <1>2, <2>1
       DEF StartRun, Ended, NoRows, TypeInv, TypeOK, Shape, Reading, Run, counters
<1>3. ASSUME NEW c \in CIK, SkipFacts(c) \/ SkipSubmissions(c) PROVE TypeInv'
  BY <1>0, <1>3 DEF SkipFacts, SkipSubmissions, NextFile, TypeInv, TypeOK, Shape, Reading, Run, counters
<1>4. ASSUME NEW c \in CIK, OpenFacts(c) \/ OpenSubmissions(c) PROVE TypeInv'
  <2>1. CASE OpenFacts(c)
    <3>1. FirstStep(c) \in {1, 5}
      BY DEF FirstStep
    <3>3. run' = [run EXCEPT !.todo = run.todo \ {c}, !.file = c, !.step = FirstStep(c),
                             !.batch = run.batch]
      BY <1>0, <2>1 DEF OpenFacts, Run
    <3>2. /\ run.todo \ {c} \in SUBSET CIK /\ run.batch \in SUBSET CIK
          /\ FirstStep(c) \in 0..8 /\ c \in CIK \cup {NoFile}
      BY <1>0, <3>1 DEF Run
    <3>6. run' \in Run
      BY <1>0, <3>2, <3>3, RunUpdate
    <3>4. /\ run'.stage = "facts" /\ run'.zip = run.zip /\ run'.todo = run.todo \ {c}
          /\ run'.file = c /\ run'.step \in {1, 5}
          /\ run'.batch = run.batch /\ run'.flush = {}
      BY <1>0, <2>1, <3>1, <3>3 DEF OpenFacts, NextFile, Run
    <3>5. c \in run.todo /\ c # NoFile /\ run.stage = "facts"
      BY <2>1 DEF OpenFacts, NextFile
    <3> QED
      BY <1>0, <2>1, <3>4, <3>5, <3>6 DEF OpenFacts, TypeInv, TypeOK, Shape, Reading, counters
  <2>2. CASE OpenSubmissions(c)
    <3>1. run' = [run EXCEPT !.todo = run.todo \ {c}, !.file = c, !.step = 1,
                             !.batch = run.batch]
      BY <1>0, <2>2 DEF OpenSubmissions, FirstSubsStep, Run
    <3>5. /\ run.todo \ {c} \in SUBSET CIK /\ run.batch \in SUBSET CIK
          /\ 1 \in 0..8 /\ c \in CIK \cup {NoFile}
      BY <1>0 DEF Run
    <3>2. run' \in Run
      BY <1>0, <3>1, <3>5, RunUpdate
    <3>3. /\ run'.stage = "submissions" /\ run'.zip = run.zip /\ run'.todo = run.todo \ {c}
          /\ run'.file = c /\ run'.step = 1
          /\ run'.batch = run.batch /\ run'.flush = {}
      BY <1>0, <2>2, <3>1 DEF OpenSubmissions, NextFile, Run
    <3>4. c \in run.todo /\ c # NoFile /\ run.stage = "submissions"
      BY <2>2 DEF OpenSubmissions, NextFile
    <3> QED
      BY <1>0, <2>2, <3>2, <3>3, <3>4 DEF OpenSubmissions, TypeInv, TypeOK, Shape, Reading, counters
  <2> QED
    BY <1>4, <2>1, <2>2
<1>5. CASE StoreFacts
  <2> DEFINE c == run.file
             v == run.zip[c]
  <2>1. /\ c \in CIK /\ v \in Version /\ run.stage = "facts"
        /\ run.step \in 1..8 /\ run.flush = {}
        /\ c \notin run.todo \cup run.batch
    BY <1>0, <1>5 DEF StoreFacts, TypeInv, Shape, Reading, Run
  <2>2. db' \in Db
    <3>1. <<v, 1>> \in Part /\ <<v, 2>> \in Part
      BY <2>1 DEF Part
    <3>2. /\ run.step <= 4 => db' = DeleteRows(c, run.step)
          /\ run.step > 4 => db' = InsertRows(c, v, run.step)
      BY <1>5, <2>1 DEF StoreFacts
    <3> HIDE DEF c, v
    <3> USE <1>0, <2>1, <3>2 DEF Db, DeleteRows, InsertRows
    <3>3. CASE run.step = 1
      BY <3>3 DEF Table
    <3>4. CASE run.step = 2
      BY <3>4 DEF Table
    <3>5. CASE run.step = 3
      <4>1. [db.facts EXCEPT ![c] = {}] \in Parts /\ [db.dei EXCEPT ![c] = {}] \in [CIK -> SUBSET Version]
        BY DEF Parts
      <4>2. db' = [db EXCEPT !.facts = [db.facts EXCEPT ![c] = {}], !.dei = [db.dei EXCEPT ![c] = {}]]
        BY <3>5
      <4> QED
        BY <4>1, <4>2
    <3>6. CASE run.step = 4
      BY <3>6 DEF Parts
    <3>7. CASE run.step = 5
      BY <3>7 DEF Table
    <3>8. CASE run.step = 6
      BY <3>8 DEF Table
    <3>9. CASE run.step = 7
      BY <3>1, <3>9 DEF Parts
    <3>10. CASE run.step = 8
      BY <3>1, <3>10 DEF Parts
    <3> QED
      BY <3>3, <3>4, <3>5, <3>6, <3>7, <3>8, <3>9, <3>10
  <2>3. CASE run.step = 8
    <3>1. run' = FileRead(c)
      BY <1>5, <2>3 DEF StoreFacts
    <3>2. PICK B \in {run.batch, run.batch \cup {c}} :
            run' = [run EXCEPT !.todo = run.todo, !.file = NoFile, !.step = 0, !.batch = B]
      BY <1>0, <3>1 DEF FileRead, Run
    <3>5. run.todo \in SUBSET CIK /\ B \in SUBSET CIK /\ 0 \in 0..8
      BY <1>0, <2>1, <3>2 DEF Run
    <3>3. run' \in Run
      BY <1>0, <3>2, <3>5, RunUpdate
    <3>4. /\ run'.stage = "facts" /\ run'.zip = run.zip /\ run'.todo = run.todo
          /\ run'.file = NoFile /\ run'.step = 0 /\ run'.batch = B /\ run'.flush = {}
      BY <1>0, <2>1, <3>2 DEF Run
    <3> QED
      BY <1>0, <1>5, <2>1, <2>2, <3>2, <3>3, <3>4
         DEF StoreFacts, TypeInv, TypeOK, Shape, Reading, counters
  <2>4. CASE run.step # 8
    BY <1>0, <1>5, <2>1, <2>2, <2>4
       DEF StoreFacts, TypeInv, TypeOK, Shape, Reading, Run, counters
  <2> QED
    BY <2>3, <2>4
<1>6. CASE LeaveEmpty
  <2>3. run' = [run EXCEPT !.file = NoFile, !.step = 0]
    BY <1>6 DEF LeaveEmpty
  <2>4. run' = [run EXCEPT !.todo = run.todo, !.file = NoFile, !.step = 0,
                           !.batch = run.batch]
    BY <1>0, <2>3 DEF Run
  <2>5. run.todo \in SUBSET CIK /\ run.batch \in SUBSET CIK /\ 0 \in 0..8
    BY <1>0 DEF Run
  <2>1. run' \in Run
    BY <1>0, <2>4, <2>5, RunUpdate
  <2>2. /\ run'.stage = "facts" /\ run'.zip = run.zip /\ run'.todo = run.todo
        /\ run'.file = NoFile /\ run'.step = 0
        /\ run'.batch = run.batch /\ run'.flush = run.flush
    BY <1>0, <1>6 DEF LeaveEmpty, Run
  <2> QED
    BY <1>0, <1>6, <2>1, <2>2 DEF LeaveEmpty, TypeInv, TypeOK, Shape, Reading, counters
<1>7. CASE BeginFlush
  BY <1>0, <1>7 DEF BeginFlush, TypeInv, TypeOK, Shape, Reading, Run, counters
<1>8. ASSUME NEW c \in CIK, InsertStatements(c) PROVE TypeInv'
  <2>1. run.zip[c] \in Version
    BY <1>8 DEF InsertStatements, TypeInv, Shape, Reading
  <2>2. {<<run.zip[c], 1>>} \in SUBSET Part
    BY <2>1 DEF Part
  <2>3. db' \in Db
    BY <1>0, <1>8, <2>2 DEF InsertStatements, Db, Parts
  <2> QED
    BY <1>0, <1>8, <2>3 DEF InsertStatements, TypeInv, TypeOK, Shape, Reading, Run, counters
<1>9. CASE InsertOtherStatements
  <2>1. run.file \in CIK /\ run.zip[run.file] \in Version
    BY <1>0, <1>9 DEF InsertOtherStatements, TypeInv, Shape, Reading, Run
  <2>2. <<run.zip[run.file], 2>> \in Part
    BY <2>1 DEF Part
  <2>3. db' \in Db
    BY <1>0, <1>9, <2>1, <2>2 DEF InsertOtherStatements, Db, Parts
  <2> QED
    BY <1>0, <1>9, <2>3 DEF InsertOtherStatements, TypeInv, TypeOK, Shape, Reading, Run, counters
<1>10. CASE RecomputeProcessed
  <2>1. Processed \in SUBSET CIK /\ archive.subs \in [CIK -> Version] /\ archive.subs \in Table
    BY <1>0 DEF Processed, Table
  <2> HIDE DEF Processed
  <2>2. db' \in Db
    BY <1>0, <1>10, <2>1 DEF RecomputeProcessed, Db
  <2>3. run' = [stage |-> "submissions", zip |-> archive.subs, todo |-> Processed,
                file |-> NoFile, step |-> 0, batch |-> {}, flush |-> {}]
    BY <1>10 DEF RecomputeProcessed, Ended
  <2>4. run' \in Run
    BY <2>1, <2>3 DEF Run
  <2>5. /\ run'.stage = "submissions" /\ run'.zip = archive.subs
        /\ run'.file = NoFile /\ run'.step = 0 /\ run'.batch = {} /\ run'.flush = {}
    BY <2>3
  <2> QED
    BY <1>0, <1>10, <2>1, <2>2, <2>4, <2>5
       DEF RecomputeProcessed, TypeInv, TypeOK, Shape, Reading, counters
<1>11. CASE StoreSubmissions
  <2>1. /\ run.file \in CIK /\ run.zip[run.file] \in Version
        /\ run.step \in 1..4 /\ run.batch = {} /\ run.flush = {}
        /\ run.file \notin run.todo
    BY <1>0, <1>11 DEF StoreSubmissions, TypeInv, Shape, Reading, Run
  <2>2. db' = SubsStatement(run.file, run.zip[run.file], run.step)
    BY <1>11 DEF StoreSubmissions
  <2>3. db' \in Db
    <3> USE <1>0, <2>1, <2>2 DEF SubsStatement, Db
    <3>1. CASE run.step = 1
      BY <3>1 DEF Table
    <3>2. CASE run.step = 2
      BY <3>2
    <3>3. CASE run.step = 3
      BY <3>3 DEF Table
    <3>4. CASE run.step = 4
      BY <3>4
    <3>5. run.step = 1 \/ run.step = 2 \/ run.step = 3 \/ run.step = 4
      BY <2>1
    <3> QED
      BY <3>1, <3>2, <3>3, <3>4, <3>5
  <2>4. PICK f \in CIK \cup {NoFile}, n \in 0..8 :
          /\ run' = [run EXCEPT !.todo = run.todo, !.file = f, !.step = n, !.batch = run.batch]
          /\ n <= 4 /\ f \in {run.file, NoFile} /\ (f = NoFile <=> n = 0)
    <3>1. CASE run.step = 4
      <4>1. /\ run' = [run EXCEPT !.todo = run.todo, !.file = NoFile, !.step = 0,
                                  !.batch = run.batch]
            /\ NoFile \in CIK \cup {NoFile} /\ 0 \in 0..8 /\ 0 <= 4
        <5>1. run' = [run EXCEPT !.file = NoFile, !.step = 0]
          BY <1>11, <3>1 DEF StoreSubmissions
        <5>2. run' = [run EXCEPT !.todo = run.todo, !.file = NoFile, !.step = 0,
                                 !.batch = run.batch]
          BY <1>0, <5>1 DEF Run
        <5> QED
          BY <5>2
      <4> QED
        BY <4>1
    <3>2. CASE run.step # 4
      <4>1. /\ run' = [run EXCEPT !.todo = run.todo, !.file = run.file, !.step = run.step + 1,
                                  !.batch = run.batch]
            /\ run.file # NoFile /\ run.step + 1 \in 0..8 /\ run.step + 1 <= 4
            /\ run.step + 1 # 0
        <5>1. run' = [run EXCEPT !.step = run.step + 1]
          BY <1>11, <3>2 DEF StoreSubmissions
        <5>2. run' = [run EXCEPT !.todo = run.todo, !.file = run.file, !.step = run.step + 1,
                                 !.batch = run.batch]
          BY <1>0, <5>1 DEF Run
        <5>3. run.step + 1 \in 0..8 /\ run.step + 1 <= 4 /\ run.step + 1 # 0
          BY <2>1, <3>2
        <5>4. run.file # NoFile
          BY <1>11 DEF StoreSubmissions
        <5> QED
          BY <5>2, <5>3, <5>4
      <4> QED
        BY <2>1, <4>1
    <3> QED
      BY <3>1, <3>2
  <2>7. run.todo \in SUBSET CIK /\ run.batch \in SUBSET CIK
    BY <1>0 DEF Run
  <2>5. run' \in Run
    BY <1>0, <2>4, <2>7, RunUpdate
  <2>6. /\ run'.stage = "submissions" /\ run'.zip = run.zip /\ run'.todo = run.todo
        /\ run'.file = f /\ run'.step = n /\ run'.batch = {} /\ run'.flush = {}
    BY <1>0, <1>11, <2>1, <2>4 DEF StoreSubmissions, Run
  <2> QED
    BY <1>0, <1>11, <2>1, <2>3, <2>4, <2>5, <2>6
       DEF StoreSubmissions, TypeInv, TypeOK, Shape, Reading, counters
<1>12. CASE AfterSubmissions
  BY <1>0, <1>12
     DEF AfterSubmissions, Ended, NoRows, TypeInv, TypeOK, Shape, Reading, Run, Db, Table, counters
<1>13. ASSUME NEW c \in CIK, Materialize(c) PROVE TypeInv'
  <2>1. db' \in Db
    BY <1>0, <1>13 DEF Materialize, Db, Parts
  <2> QED
    BY <1>0, <1>13, <2>1 DEF Materialize, TypeInv, TypeOK, Shape, Reading, Run, counters
<1>14. CASE AfterStatements
  BY <1>0, <1>14, EndedShape DEF AfterStatements, counters
<1>15. CASE Raise
  BY <1>0, <1>15, EndedShape DEF Raise
<1>16. ASSUME NEW c \in CIK, Unresolved(c) PROVE TypeInv'
  BY <1>0, <1>16 DEF Unresolved, TypeInv, TypeOK, Shape, Reading, Run
<1>17. CASE Crash
  BY <1>0, <1>17, EndedShape DEF Crash
<1>18. CASE UNCHANGED vars
  BY <1>18 DEF vars, TypeInv, TypeOK, Shape, Reading
<1> QED
  BY <1>1, <1>2, <1>3, <1>4, <1>5, <1>6, <1>7, <1>8, <1>9, <1>10, <1>11, <1>12,
     <1>13, <1>14, <1>15, <1>16, <1>17, <1>18 DEF Next, RunStep

\* The state keeps its types: for any number of companies and versions.
THEOREM TypeCorrect == Spec => []TypeOK
<1>1. TypeInv => TypeOK
  BY DEF TypeInv
<1> QED
  BY InitTypeInv, NextTypeInv, <1>1, PTL DEF Spec

-----------------------------------------------------------------------------
(* What the steps of a file have established, and the queue.                *)

Writing(c) == run.stage = "facts" /\ run.file = c /\ run.step # 0
Inserting(c) == run.stage = "facts" /\ run.file = c /\ run.step = 0

StepInv(c) ==
    Writing(c) =>
        /\ run.step \in 2..5 => db.companies[c] = None
        /\ run.step \in 3..4 => db.tags[c] = None
        /\ run.step = 4 => db.facts[c] = {}
        /\ run.step \in 6..8 => db.companies[c] = run.zip[c]
        /\ run.step \in 7..8 => db.tags[c] = run.zip[c]

\* A company waiting for its statements has its hash recorded.
QueueInv(c) == c \in run.batch \cup run.flush => db.companies[c] # None

\* A company that is torn, or will be when its file has been read to the end.
Broken(c) ==
    IF Writing(c)
    THEN \/ run.step \in 5..6 /\ (db.tags[c] # None \/ db.facts[c] # {})
         \/ run.step = 7 /\ db.facts[c] # {}
         \/ run.step = 8 /\ db.facts[c] # {<<run.zip[c], 1>>}
    ELSE Torn(c)

\* A company whose next rows will meet the key of rows that were left behind.
Primed(c) ==
    \/ /\ Writing(c)
       /\ \/ run.step \in 5..6 /\ (db.tags[c] # None \/ db.std[c] # {})
          \/ run.step \in 7..8 /\ db.std[c] # {}
    \/ /\ ~Writing(c) /\ ~Inserting(c)
       /\ \/ db.companies[c] = None /\ (db.tags[c] # None \/ db.std[c] # {})
          \/ c \in run.batch \cup run.flush /\ db.std[c] # {}

\* Nothing gets broken or primed but the company of the file a crash cuts off.
Spared(c) ==
    /\ Broken(c)' => Broken(c) \/ (Crash /\ c = run.file)
    /\ Primed(c)' => Primed(c) \/ (Crash /\ c = run.file)

Local(c) == StepInv(c) /\ QueueInv(c)

Rows(c) == <<db.companies[c], db.tags[c], db.facts[c], db.std[c]>>

\* The steps that leave the rows of c alone and do not write c.
LEMMA QuietStep ==
  ASSUME NEW c \in CIK, Local(c), Rows(c)' = Rows(c), ~Writing(c), ~Writing(c)', ~Inserting(c),
         c \in run.batch' \cup run.flush' => c \in run.batch \cup run.flush
  PROVE  Local(c)' /\ Spared(c)
<1>1. Local(c)'
  BY DEF Local, StepInv, QueueInv, Rows
<1>2. Broken(c)' => Broken(c)
  BY DEF Broken, Torn, Rows
<1>3. Primed(c)' => Primed(c)
  BY DEF Primed, Rows
<1> QED
  BY <1>1, <1>2, <1>3 DEF Spared

\* Opening a file: a company whose hash is known is about to be cleaned.
LEMMA OpenStep ==
  ASSUME TypeInv, NEW c \in CIK, Local(c), OpenFacts(c)
  PROVE  Local(c)' /\ Spared(c)
<1>1. /\ run'.stage = "facts" /\ run'.file = c /\ run'.step = FirstStep(c)
      /\ run'.batch = run.batch /\ run'.flush = run.flush /\ db' = db
      /\ run.stage = "facts" /\ run.file = NoFile /\ c # NoFile
  BY NoFileAssumption DEF OpenFacts, NextFile, TypeInv, TypeOK, Run
<1>2. ~Writing(c) /\ ~Inserting(c)
  BY <1>1 DEF Writing, Inserting
<1>3. CASE db.companies[c] # None
  <2>1. run'.step = 1 /\ Writing(c)'
    BY <1>1, <1>3 DEF FirstStep, Writing
  <2>2. Local(c)'
    BY <1>1, <1>3, <2>1 DEF Local, StepInv, QueueInv
  <2>3. ~Broken(c)' /\ ~Primed(c)'
    BY <2>1 DEF Broken, Primed
  <2> QED
    BY <2>2, <2>3 DEF Spared
<1>4. CASE db.companies[c] = None
  <2>1. run'.step = 5 /\ Writing(c)'
    BY <1>1, <1>4 DEF FirstStep, Writing
  <2>2. Local(c)'
    BY <1>1, <1>4, <2>1 DEF Local, StepInv, QueueInv
  <2>3. Broken(c)' => db.tags[c] # None \/ db.facts[c] # {}
    BY <1>1, <2>1 DEF Broken
  <2>4. Broken(c)' => Broken(c)
    BY <1>2, <1>4, <2>3 DEF Broken, Torn, Whole
  <2>5. Primed(c)' => Primed(c)
    BY <1>1, <1>2, <1>4, <2>1 DEF Primed
  <2> QED
    BY <2>2, <2>4, <2>5 DEF Spared
<1> QED
  BY <1>3, <1>4

\* A statement of the file of c.
LEMMA StoreStep ==
  ASSUME TypeInv, NEW c \in CIK, Local(c), StoreFacts, run.file = c
  PROVE  Local(c)' /\ Spared(c)
<1>1. /\ run.stage = "facts" /\ run.step \in 1..8 /\ run.zip[c] \in Version
      /\ run.flush = {} /\ c \notin run.batch /\ run \in Run /\ db \in Db /\ c # NoFile
  BY NoFileAssumption DEF StoreFacts, TypeInv, TypeOK, Shape, Reading, Run
<1>2. Writing(c)
  BY <1>1 DEF Writing
<1>3. /\ run.step <= 4 => db' = DeleteRows(c, run.step)
      /\ run.step > 4 => db' = InsertRows(c, run.zip[c], run.step)
  BY <1>1 DEF StoreFacts
<1>4. /\ db.companies \in Table /\ db.tags \in Table /\ db.facts \in Parts /\ db.std \in Parts
  BY <1>1 DEF Db
<1>5. ASSUME run.step # 8
      PROVE  /\ run'.stage = "facts" /\ run'.file = c /\ run'.step = run.step + 1
             /\ run'.zip = run.zip /\ run'.batch = run.batch /\ run'.flush = {}
  BY <1>1, <1>5 DEF StoreFacts, Run
<1>6. ASSUME run.step = 8
      PROVE  /\ run'.stage = "facts" /\ run'.file = NoFile /\ run'.step = 0
             /\ run'.flush = {} /\ run'.zip = run.zip
             /\ run'.batch \in {run.batch, run.batch \cup {c}}
  BY <1>1, <1>6 DEF StoreFacts, FileRead, Run
<1>7. CASE run.step = 1
  <2>1. Rows(c)' = <<None, db.tags[c], db.facts[c], db.std[c]>>
    BY <1>1, <1>3, <1>4, <1>7 DEF DeleteRows, Rows, Db, Table
  <2>2. run'.step = 2 /\ Writing(c)'
    BY <1>5, <1>7 DEF Writing
  <2>3. ~Broken(c)' /\ ~Primed(c)'
    BY <2>2 DEF Broken, Primed
  <2>4. Local(c)'
    BY <1>1, <1>5, <1>7, <2>1, <2>2 DEF Local, StepInv, QueueInv, Rows
  <2> QED
    BY <2>3, <2>4 DEF Spared
<1>8. CASE run.step = 2
  <2>1. Rows(c)' = <<None, None, db.facts[c], db.std[c]>>
    BY <1>1, <1>2, <1>3, <1>4, <1>8 DEF DeleteRows, Rows, Db, Table, Local, StepInv
  <2>2. run'.step = 3 /\ Writing(c)'
    BY <1>5, <1>8 DEF Writing
  <2>3. ~Broken(c)' /\ ~Primed(c)'
    BY <2>2 DEF Broken, Primed
  <2>4. Local(c)'
    BY <1>1, <1>5, <1>8, <2>1, <2>2 DEF Local, StepInv, QueueInv, Rows
  <2> QED
    BY <2>3, <2>4 DEF Spared
<1>9. CASE run.step = 3
  <2>1. Rows(c)' = <<None, None, {}, db.std[c]>>
    <3>1. db' = [db EXCEPT !.facts = [db.facts EXCEPT ![c] = {}],
                           !.dei = [db.dei EXCEPT ![c] = {}]]
      BY <1>1, <1>3, <1>9 DEF DeleteRows
    <3>2. /\ db'.companies = db.companies /\ db'.tags = db.tags /\ db'.std = db.std
          /\ db'.facts = [db.facts EXCEPT ![c] = {}]
      BY <1>1, <3>1 DEF Db
    <3>3. db.companies[c] = None /\ db.tags[c] = None
      BY <1>2, <1>9 DEF Local, StepInv
    <3> QED
      BY <1>4, <3>2, <3>3 DEF Rows, Parts
  <2>2. run'.step = 4 /\ Writing(c)'
    BY <1>5, <1>9 DEF Writing
  <2>3. ~Broken(c)' /\ ~Primed(c)'
    BY <2>2 DEF Broken, Primed
  <2>4. Local(c)'
    BY <1>1, <1>5, <1>9, <2>1, <2>2 DEF Local, StepInv, QueueInv, Rows
  <2> QED
    BY <2>3, <2>4 DEF Spared
<1>10. CASE run.step = 4
  <2>1. Rows(c)' = <<None, None, {}, {}>>
    BY <1>1, <1>2, <1>3, <1>4, <1>10 DEF DeleteRows, Rows, Db, Parts, Local, StepInv
  <2>2. run'.step = 5 /\ Writing(c)'
    BY <1>5, <1>10 DEF Writing
  <2>3. ~Broken(c)' /\ ~Primed(c)'
    BY <2>1, <2>2 DEF Broken, Primed, Rows
  <2>4. Local(c)'
    BY <1>1, <1>5, <1>10, <2>1, <2>2 DEF Local, StepInv, QueueInv, Rows
  <2> QED
    BY <2>3, <2>4 DEF Spared
<1>11. CASE run.step = 5
  <2>1. Rows(c)' = <<run.zip[c], db.tags[c], db.facts[c], db.std[c]>>
    BY <1>1, <1>3, <1>4, <1>11 DEF InsertRows, Rows, Db, Table
  <2>2. run'.step = 6 /\ Writing(c)'
    BY <1>5, <1>11 DEF Writing
  <2>3. (Broken(c)' => Broken(c)) /\ (Primed(c)' => Primed(c))
    BY <1>2, <1>11, <2>1, <2>2 DEF Broken, Primed, Rows
  <2>4. Local(c)'
    BY <1>1, <1>5, <1>11, <2>1, <2>2 DEF Local, StepInv, QueueInv, Rows
  <2> QED
    BY <2>3, <2>4 DEF Spared
<1>12. CASE run.step = 6
  <2>1. Rows(c)' = <<run.zip[c], run.zip[c], db.facts[c], db.std[c]>>
    BY <1>1, <1>2, <1>3, <1>4, <1>12 DEF InsertRows, Rows, Db, Table, Local, StepInv
  <2>2. run'.step = 7 /\ Writing(c)'
    BY <1>5, <1>12 DEF Writing
  <2>3. (Broken(c)' => Broken(c)) /\ (Primed(c)' => Primed(c))
    BY <1>2, <1>12, <2>1, <2>2 DEF Broken, Primed, Rows
  <2>4. Local(c)'
    BY <1>1, <1>5, <1>12, <2>1, <2>2 DEF Local, StepInv, QueueInv, Rows
  <2> QED
    BY <2>3, <2>4 DEF Spared
<1>13. CASE run.step = 7
  <2>1. Rows(c)' = <<run.zip[c], run.zip[c], db.facts[c] \cup {<<run.zip[c], 1>>}, db.std[c]>>
    BY <1>1, <1>2, <1>3, <1>4, <1>13 DEF InsertRows, Rows, Db, Parts, Local, StepInv
  <2>2. run'.step = 8 /\ Writing(c)'
    BY <1>5, <1>13 DEF Writing
  <2>3. (Broken(c)' => Broken(c)) /\ (Primed(c)' => Primed(c))
    BY <1>2, <1>5, <1>13, <2>1, <2>2 DEF Broken, Primed, Rows
  <2>4. Local(c)'
    BY <1>1, <1>5, <1>13, <2>1, <2>2 DEF Local, StepInv, QueueInv, Rows
  <2> QED
    BY <2>3, <2>4 DEF Spared
<1>14. CASE run.step = 8
  <2>1. Rows(c)' = <<run.zip[c], run.zip[c], db.facts[c] \cup {<<run.zip[c], 2>>}, db.std[c]>>
    BY <1>1, <1>2, <1>3, <1>4, <1>14 DEF InsertRows, Rows, Db, Parts, Local, StepInv
  <2>2. ~Writing(c)' /\ ~Inserting(c)'
    BY <1>1, <1>6, <1>14 DEF Writing, Inserting
  <2>3. run.zip[c] # None
    BY <1>1 DEF Version, None
  <2>4. Broken(c)' => Broken(c)
    <3>1. CASE db.facts[c] = {<<run.zip[c], 1>>}
      <4>1. Rows(c)' = <<run.zip[c], run.zip[c], Whole(run.zip[c]), db.std[c]>>
        BY <2>1, <2>3, <3>1 DEF Whole
      <4> QED
        BY <2>2, <4>1 DEF Broken, Torn, Rows
    <3>2. CASE db.facts[c] # {<<run.zip[c], 1>>}
      BY <1>2, <1>14, <3>2 DEF Broken
    <3> QED
      BY <3>1, <3>2
  <2>5. Primed(c)' => Primed(c)
    BY <1>2, <1>14, <2>1, <2>2, <2>3 DEF Primed, Rows
  <2>6. Local(c)'
    BY <2>1, <2>2, <2>3 DEF Local, StepInv, QueueInv, Rows
  <2> QED
    BY <2>4, <2>5, <2>6 DEF Spared
<1> QED
  BY <1>1, <1>7, <1>8, <1>9, <1>10, <1>11, <1>12, <1>13, <1>14

\* Every step, seen from one company.
LEMMA LocalStep ==
  ASSUME TypeInv, [Next]_vars, NEW c \in CIK, Local(c)
  PROVE  Local(c)' /\ Spared(c)
<1> USE NoFileAssumption
<1>0. run \in Run /\ db \in Db /\ c # NoFile
  BY DEF TypeInv, TypeOK
<1> DEFINE Quiet == /\ Rows(c)' = Rows(c) /\ ~Writing(c) /\ ~Writing(c)' /\ ~Inserting(c)
                    /\ c \in run.batch' \cup run.flush' => c \in run.batch \cup run.flush
<1>1. CASE db' = db /\ run' = run
  BY <1>1 DEF Local, StepInv, QueueInv, Spared, Broken, Primed, Torn, Writing, Inserting
<1>2. CASE StartRun
  <2>1. Quiet
    BY <1>0, <1>2 DEF StartRun, Ended, Rows, Writing, Inserting
  <2> QED
    BY <2>1, QuietStep
<1>3. ASSUME NEW d \in CIK, SkipFacts(d) \/ SkipSubmissions(d) PROVE Local(c)' /\ Spared(c)
  <2>1. Quiet
    BY <1>0, <1>3 DEF SkipFacts, SkipSubmissions, NextFile, Rows, Writing, Inserting, Run
  <2> QED
    BY <2>1, QuietStep
<1>4. ASSUME NEW d \in CIK, OpenFacts(d) PROVE Local(c)' /\ Spared(c)
  <2>1. CASE d = c
    BY <1>4, <2>1, OpenStep
  <2>2. CASE d # c
    <3>1. Quiet
      BY <1>0, <1>4, <2>2 DEF OpenFacts, NextFile, Rows, Writing, Inserting, Run
    <3> QED
      BY <3>1, QuietStep
  <2> QED
    BY <2>1, <2>2
<1>5. ASSUME NEW d \in CIK, OpenSubmissions(d) PROVE Local(c)' /\ Spared(c)
  <2>1. Quiet
    BY <1>0, <1>5 DEF OpenSubmissions, NextFile, Rows, Writing, Inserting, Run
  <2> QED
    BY <2>1, QuietStep
<1>6. CASE StoreFacts
  <2>1. CASE run.file = c
    BY <1>6, <2>1, StoreStep
  <2>2. CASE run.file # c
    <3>1. run.file \in CIK /\ run.step \in 1..8 /\ run.flush = {}
      BY <1>0, <1>6 DEF StoreFacts, TypeInv, Shape, Run
    <3>2. Rows(c)' = Rows(c)
      <4>1. CASE run.step <= 4
        BY <1>0, <1>6, <2>2, <3>1, <4>1 DEF StoreFacts, DeleteRows, Rows, Db, Table, Parts
      <4>2. CASE run.step > 4
        BY <1>0, <1>6, <2>2, <3>1, <4>2 DEF StoreFacts, InsertRows, Rows, Db, Table, Parts
      <4> QED
        BY <3>1, <4>1, <4>2
    <3>3. CASE run.step = 8
      <4>1. Quiet
        BY <1>0, <1>6, <2>2, <3>1, <3>2, <3>3 DEF StoreFacts, FileRead, Writing, Inserting, Run
      <4> QED
        BY <4>1, QuietStep
    <3>4. CASE run.step # 8
      <4>1. Quiet
        BY <1>0, <1>6, <2>2, <3>1, <3>2, <3>4 DEF StoreFacts, Writing, Inserting, Run
      <4> QED
        BY <4>1, QuietStep
    <3> QED
      BY <3>3, <3>4
  <2> QED
    BY <2>1, <2>2
<1>7. CASE LeaveEmpty
  <2>1. /\ run'.stage = "facts" /\ run'.file = NoFile /\ run'.step = 0 /\ db' = db
        /\ run'.batch = run.batch /\ run'.flush = run.flush /\ run.stage = "facts" /\ run.step = 5
    BY <1>0, <1>7 DEF LeaveEmpty, Run
  <2>2. CASE run.file = c
    <3>1. Writing(c) /\ ~Writing(c)' /\ ~Inserting(c)' /\ c \notin run.batch \cup run.flush
      BY <1>0, <2>1, <2>2 DEF Writing, Inserting, TypeInv, Shape
    <3>2. db.companies[c] = None
      BY <2>1, <3>1 DEF Local, StepInv
    <3>3. Local(c)'
      BY <2>1, <3>1 DEF Local, StepInv, QueueInv
    <3>4. Broken(c)' => Broken(c)
      BY <2>1, <3>1, <3>2 DEF Broken, Torn, Whole
    <3>5. Primed(c)' => Primed(c)
      BY <2>1, <3>1 DEF Primed
    <3> QED
      BY <3>3, <3>4, <3>5 DEF Spared
  <2>3. CASE run.file # c
    <3>1. Quiet
      BY <1>0, <2>1, <2>3 DEF Rows, Writing, Inserting
    <3> QED
      BY <3>1, QuietStep
  <2> QED
    BY <2>2, <2>3
<1>8. CASE BeginFlush
  <2>1. Quiet
    BY <1>0, <1>8 DEF BeginFlush, Rows, Writing, Inserting, Run
  <2> QED
    BY <2>1, QuietStep
<1>9. ASSUME NEW d \in CIK, InsertStatements(d) PROVE Local(c)' /\ Spared(c)
  <2>1. /\ run'.stage = "facts" /\ run'.file = d /\ run'.step = 0
        /\ run'.batch = run.batch /\ run'.flush = run.flush /\ d \in run.flush
        /\ run.stage = "facts" /\ run.file = NoFile /\ run.step = 0
    BY <1>0, <1>9 DEF InsertStatements, Run
  <2>2. /\ db'.companies = db.companies /\ db'.tags = db.tags /\ db'.facts = db.facts
        /\ db'.std = [db.std EXCEPT ![d] = {<<run.zip[d], 1>>}]
    BY <1>0, <1>9 DEF InsertStatements, Db
  <2>3. CASE d = c
    <3>1. ~Writing(c) /\ ~Writing(c)' /\ Inserting(c)'
      BY <1>0, <2>1, <2>3 DEF Writing, Inserting
    <3>2. Local(c)'
      BY <2>1, <2>2, <3>1 DEF Local, StepInv, QueueInv
    <3>3. Broken(c)' => Broken(c)
      BY <2>2, <3>1 DEF Broken, Torn
    <3>4. ~Primed(c)'
      BY <3>1 DEF Primed
    <3> QED
      BY <3>2, <3>3, <3>4 DEF Spared
  <2>4. CASE d # c
    <3>1. db'.std[c] = db.std[c]
      BY <1>0, <2>2, <2>4 DEF Db, Parts
    <3>2. Quiet
      BY <1>0, <2>1, <2>2, <2>4, <3>1 DEF Rows, Writing, Inserting
    <3> QED
      BY <3>2, QuietStep
  <2> QED
    BY <2>3, <2>4
<1>10. CASE InsertOtherStatements
  <2> DEFINE d == run.file
  <2>1. /\ run'.stage = "facts" /\ run'.file = NoFile /\ run'.step = 0
        /\ run'.batch = run.batch /\ run'.flush = run.flush \ {d} /\ d \in run.flush
        /\ run.stage = "facts" /\ run.step = 0 /\ d \in CIK /\ run.batch = {}
    BY <1>0, <1>10 DEF InsertOtherStatements, TypeInv, Shape, Run
  <2>2. /\ db'.companies = db.companies /\ db'.tags = db.tags /\ db'.facts = db.facts
        /\ db'.std = [db.std EXCEPT ![d] = db.std[d] \cup {<<run.zip[d], 2>>}]
    BY <1>0, <1>10 DEF InsertOtherStatements, Db
  <2> HIDE DEF d
  <2>3. CASE d = c
    <3>1. ~Writing(c) /\ ~Writing(c)' /\ ~Inserting(c)'
      BY <1>0, <2>1 DEF Writing, Inserting
    <3>2. c \notin run.batch' \cup run.flush' /\ db.companies[c] # None
      BY <2>1, <2>3 DEF Local, QueueInv
    <3>3. Local(c)'
      BY <3>1, <3>2 DEF Local, StepInv, QueueInv
    <3>4. Broken(c)' => Broken(c)
      BY <2>2, <3>1 DEF Broken, Torn
    <3>5. ~Primed(c)'
      BY <2>2, <3>1, <3>2 DEF Primed
    <3> QED
      BY <3>3, <3>4, <3>5 DEF Spared
  <2>4. CASE d # c
    <3>1. db'.std[c] = db.std[c]
      BY <1>0, <2>2, <2>4 DEF Db, Parts
    <3>2. Quiet
      BY <1>0, <2>1, <2>2, <2>4, <3>1 DEF Rows, Writing, Inserting, d
    <3> QED
      BY <3>2, QuietStep
  <2> QED
    BY <2>3, <2>4
<1>11. CASE RecomputeProcessed
  <2>1. Quiet
    BY <1>0, <1>11 DEF RecomputeProcessed, Ended, Rows, Writing, Inserting, Db
  <2> QED
    BY <2>1, QuietStep
<1>12. CASE StoreSubmissions
  <2>1. run.step \in 1..4 /\ run.stage = "submissions"
    BY <1>0, <1>12 DEF StoreSubmissions, TypeInv, Shape, Run
  <2>2. Rows(c)' = Rows(c)
    BY <1>0, <1>12, <2>1 DEF StoreSubmissions, SubsStatement, Rows, Db
  <2>3. run'.stage = "submissions" /\ run'.batch = run.batch /\ run'.flush = run.flush
    BY <1>0, <1>12 DEF StoreSubmissions, Run
  <2>4. Quiet
    BY <2>1, <2>2, <2>3 DEF Writing, Inserting
  <2> QED
    BY <2>4, QuietStep
<1>13. CASE AfterSubmissions
  <2>1. Quiet
    BY <1>0, <1>13 DEF AfterSubmissions, Ended, Rows, Writing, Inserting
  <2> QED
    BY <2>1, QuietStep
<1>14. ASSUME NEW d \in CIK, Materialize(d) PROVE Local(c)' /\ Spared(c)
  <2>1. /\ run.stage = "std" /\ run'.stage = "std" /\ run'.batch = {} /\ run'.flush = {}
    BY <1>0, <1>14 DEF Materialize, TypeInv, Shape, Run
  <2>2. ~Writing(c) /\ ~Writing(c)' /\ ~Inserting(c) /\ ~Inserting(c)'
    BY <2>1 DEF Writing, Inserting
  <2>3. /\ db'.companies = db.companies /\ db'.tags = db.tags /\ db'.facts = db.facts
        /\ db.companies[c] = None => db'.std[c] = db.std[c]
    BY <1>0, <1>14 DEF Materialize, Db, Parts
  <2>4. Local(c)'
    BY <2>1, <2>2 DEF Local, StepInv, QueueInv
  <2>5. (Broken(c)' => Broken(c)) /\ (Primed(c)' => Primed(c))
    BY <2>1, <2>2, <2>3 DEF Broken, Primed, Torn
  <2> QED
    BY <2>4, <2>5 DEF Spared
<1>15. CASE AfterStatements
  <2>1. Quiet
    BY <1>0, <1>15 DEF AfterStatements, Ended, Rows, Writing, Inserting
  <2> QED
    BY <2>1, QuietStep
<1>16. ASSUME run' = Ended("down"), db' = db PROVE Local(c)'
  BY <1>16 DEF Local, StepInv, QueueInv, Ended, Writing
<1>17. CASE Crash
  <2>1. CASE run.file = c
    BY <1>16, <1>17, <2>1 DEF Crash, Spared
  <2>2. CASE run.file # c
    <3>1. Quiet
      BY <1>0, <1>17, <2>2 DEF Crash, Ended, Rows, Writing, Inserting
    <3> QED
      BY <3>1, QuietStep
  <2> QED
    BY <2>1, <2>2
<1>18. CASE Raise
  <2>1. run' = Ended("down") /\ db' = db
    BY <1>18 DEF Raise
  <2>2. CASE run.file = c
    <3>1. DuplicateTags
      BY <1>0, <1>18, <2>2 DEF Raise, DuplicateStatements
    <3>2. Writing(c) /\ run.step = 6 /\ db.tags[c] # None
      BY <2>2, <3>1 DEF DuplicateTags, Writing
    <3>3. ~Writing(c)' /\ ~Inserting(c)' /\ c \notin run.batch' \cup run.flush'
      BY <2>1 DEF Ended, Writing, Inserting
    <3>4. Broken(c)
      BY <3>2 DEF Broken
    <3>5. Primed(c)
      BY <3>2 DEF Primed
    <3> QED
      BY <1>16, <2>1, <3>4, <3>5 DEF Spared
  <2>3. CASE run.file # c
    <3>1. Quiet
      BY <1>0, <2>1, <2>3 DEF Ended, Rows, Writing, Inserting
    <3> QED
      BY <3>1, QuietStep
  <2> QED
    BY <2>2, <2>3
<1>19. ASSUME NEW d \in CIK, Unresolved(d) PROVE Local(c)' /\ Spared(c)
  <2>1. /\ db' = db /\ run'.stage = run.stage /\ run'.file = run.file /\ run'.step = run.step
        /\ run'.batch = run.batch /\ run'.flush \subseteq run.flush
        /\ run.stage = "facts" => run.file = NoFile
    BY <1>0, <1>19 DEF Unresolved, Run
  <2>2. Quiet
    BY <1>0, <2>1 DEF Rows, Writing, Inserting
  <2> QED
    BY <2>2, QuietStep
<1>20. ASSUME NEW d \in CIK, FileFinancials(d) \/ FileOther(d) PROVE Local(c)' /\ Spared(c)
  BY <1>1, <1>20 DEF FileFinancials, FileOther
<1> QED
  BY <1>1, <1>2, <1>3, <1>4, <1>5, <1>6, <1>7, <1>8, <1>9, <1>10, <1>11, <1>12,
     <1>13, <1>14, <1>15, <1>17, <1>18, <1>19, <1>20 DEF Next, RunStep, vars

-----------------------------------------------------------------------------
(* Counting: each crash pays for one broken company and for one raise.      *)

BrokenSet == {c \in CIK : Broken(c)}
PrimedSet == {c \in CIK : Primed(c)}

CrashInv ==
    /\ \A c \in CIK : Local(c)
    /\ Cardinality(BrokenSet) <= crashes
    /\ Cardinality(PrimedSet) + raises <= crashes

\* A subset is no larger, and one more element makes a set larger by at most one.
LEMMA Smaller ==
  ASSUME NEW S \in SUBSET CIK, NEW T \in SUBSET S
  PROVE  Cardinality(T) <= Cardinality(S) /\ Cardinality(T) \in Nat /\ Cardinality(S) \in Nat
<1>1. IsFiniteSet(S) /\ IsFiniteSet(T)
  BY FiniteArchive, FS_Subset DEF FiniteArchive
<1> QED
  BY <1>1, FS_Subset, FS_CardinalityType

LEMMA OneMore ==
  ASSUME NEW S \in SUBSET CIK, NEW x, NEW T \in SUBSET CIK, T \subseteq S \cup {x}
  PROVE  Cardinality(T) <= Cardinality(S) + 1
<1>1. IsFiniteSet(S) /\ Cardinality(S) \in Nat
  BY FiniteArchive, FS_Subset, FS_CardinalityType DEF FiniteArchive
<1>2. IsFiniteSet(S \cup {x}) /\ Cardinality(S \cup {x}) <= Cardinality(S) + 1
  BY <1>1, FS_AddElement
<1>3. IsFiniteSet(T) /\ Cardinality(T) <= Cardinality(S \cup {x})
  BY <1>2, FS_Subset
<1>4. Cardinality(S \cup {x}) \in Nat /\ Cardinality(T) \in Nat
  BY <1>2, <1>3, FS_CardinalityType
<1> QED
  BY <1>1, <1>2, <1>3, <1>4

LEMMA OneLess ==
  ASSUME NEW S \in SUBSET CIK, NEW x \in S, NEW T \in SUBSET (S \ {x})
  PROVE  Cardinality(T) + 1 <= Cardinality(S)
<1>1. IsFiniteSet(S) /\ Cardinality(S) \in Nat
  BY FiniteArchive, FS_Subset, FS_CardinalityType DEF FiniteArchive
<1>2. IsFiniteSet(S \ {x}) /\ Cardinality(S \ {x}) = Cardinality(S) - 1
  BY <1>1, FS_RemoveElement
<1>3. Cardinality(T) <= Cardinality(S \ {x}) /\ Cardinality(T) \in Nat
  BY Smaller
<1>4. Cardinality(S \ {x}) \in Nat
  BY <1>2, FS_CardinalityType
<1> QED
  BY <1>1, <1>2, <1>3, <1>4

LEMMA InitCrashInv == Init => CrashInv
<1> SUFFICES ASSUME Init PROVE CrashInv
  OBVIOUS
<1>1. \A c \in CIK : ~Broken(c) /\ ~Primed(c) /\ Local(c)
  BY DEF Init, Ended, NoRows, NoParts, None, Whole, Broken, Primed, Torn, Writing,
         Inserting, Local, StepInv, QueueInv
<1>2. BrokenSet = {} /\ PrimedSet = {}
  BY <1>1 DEF BrokenSet, PrimedSet
<1>3. Cardinality({}) = 0
  BY FS_EmptySet
<1>4. crashes = 0 /\ raises = 0
  BY DEF Init
<1> QED
  BY <1>1, <1>2, <1>3, <1>4 DEF CrashInv

\* A run dies of a duplicate key over a company that was primed, and that is
\* not primed any more: its hash is recorded, so its file is not read again.
LEMMA RaiseUnprimes ==
  ASSUME TypeInv, CrashInv, Raise
  PROVE  \E d \in PrimedSet : ~Primed(d)'
<1> USE NoFileAssumption
<1>1. run' = Ended("down") /\ db' = db
  BY DEF Raise
<1>2. ASSUME NEW d \in CIK, db.companies[d] # None PROVE ~Primed(d)'
  BY <1>1, <1>2 DEF Primed, Ended, Writing
<1>3. CASE DuplicateTags
  <2>1. run.file \in CIK /\ Writing(run.file) /\ run.zip[run.file] # None
    BY <1>3 DEF DuplicateTags, Writing, TypeInv, TypeOK, Shape, Reading, Run, Version, None
  <2>2. db.companies[run.file] # None
    BY <1>3, <2>1 DEF CrashInv, Local, StepInv, DuplicateTags
  <2>3. Primed(run.file)
    BY <1>3, <2>1 DEF Primed, DuplicateTags
  <2> QED
    BY <1>2, <2>1, <2>2, <2>3 DEF PrimedSet
<1>4. CASE DuplicateStatements
  <2>1. PICK d \in run.flush : db.std[d] # {}
    BY <1>4 DEF DuplicateStatements
  <2>2. d \in CIK /\ run.file = NoFile
    BY <1>4, <2>1 DEF DuplicateStatements, TypeInv, TypeOK, Run
  <2>3. db.companies[d] # None
    BY <2>1, <2>2 DEF CrashInv, Local, QueueInv
  <2>4. Primed(d)
    BY <2>1, <2>2 DEF Primed, Writing, Inserting
  <2> QED
    BY <1>2, <2>2, <2>3, <2>4 DEF PrimedSet
<1> QED
  BY <1>3, <1>4 DEF Raise

LEMMA NextCrashInv == TypeInv /\ CrashInv /\ [Next]_vars => CrashInv'
<1> SUFFICES ASSUME TypeInv, CrashInv, [Next]_vars PROVE CrashInv'
  OBVIOUS
<1>1. \A c \in CIK : Local(c)' /\ Spared(c)
  BY LocalStep DEF CrashInv
<1>2. crashes \in Nat /\ raises \in Nat
  BY DEF TypeInv, TypeOK
<1>3. /\ BrokenSet \in SUBSET CIK /\ BrokenSet' \in SUBSET CIK
      /\ PrimedSet \in SUBSET CIK /\ PrimedSet' \in SUBSET CIK
  BY DEF BrokenSet, PrimedSet
<1>4. /\ Cardinality(BrokenSet) \in Nat /\ Cardinality(BrokenSet') \in Nat
      /\ Cardinality(PrimedSet) \in Nat /\ Cardinality(PrimedSet') \in Nat
  BY <1>3, Smaller
<1>5. CASE Crash
  <2>1. BrokenSet' \subseteq BrokenSet \cup {run.file}
    BY <1>1 DEF Spared, BrokenSet
  <2>2. PrimedSet' \subseteq PrimedSet \cup {run.file}
    BY <1>1 DEF Spared, PrimedSet
  <2>3. Cardinality(BrokenSet') <= Cardinality(BrokenSet) + 1
    BY <1>3, <2>1, OneMore
  <2>4. Cardinality(PrimedSet') <= Cardinality(PrimedSet) + 1
    BY <1>3, <2>2, OneMore
  <2>5. crashes' = crashes + 1 /\ raises' = raises
    BY <1>5 DEF Crash
  <2>6. Cardinality(BrokenSet') <= crashes'
    BY <1>2, <1>4, <2>3, <2>5 DEF CrashInv
  <2>7. Cardinality(PrimedSet') + raises' <= crashes'
    BY <1>2, <1>4, <2>4, <2>5 DEF CrashInv
  <2> QED
    BY <1>1, <2>6, <2>7 DEF CrashInv
<1>6. CASE ~Crash
  <2>1. BrokenSet' \subseteq BrokenSet
    BY <1>1, <1>6 DEF Spared, BrokenSet
  <2>2. PrimedSet' \subseteq PrimedSet
    BY <1>1, <1>6 DEF Spared, PrimedSet
  <2>3. crashes' = crashes
    BY <1>6 DEF Next, RunStep, vars, counters, FileFinancials, FileOther, Unresolved, StartRun,
       SkipFacts, OpenFacts, InsertStatements, SkipSubmissions, OpenSubmissions,
       Materialize, StoreFacts, LeaveEmpty, BeginFlush, InsertOtherStatements,
       RecomputeProcessed, StoreSubmissions, AfterSubmissions, AfterStatements, Raise
  <2>4. Cardinality(BrokenSet') <= Cardinality(BrokenSet)
    BY <1>3, <2>1, Smaller
  <2>5. Cardinality(BrokenSet') <= crashes'
    BY <1>2, <1>4, <2>3, <2>4 DEF CrashInv
  <2>6. CASE Raise
    <3>1. PICK d \in PrimedSet : ~Primed(d)'
      BY <2>6, RaiseUnprimes
    <3>2. PrimedSet' \subseteq PrimedSet \ {d}
      BY <2>2, <3>1 DEF PrimedSet
    <3>3. Cardinality(PrimedSet') + 1 <= Cardinality(PrimedSet)
      BY <1>3, <3>2, OneLess
    <3>4. raises' \in Nat /\ raises' <= raises + 1
      BY <1>2, <2>6 DEF Raise
    <3>5. Cardinality(PrimedSet') + raises' <= crashes'
      BY <1>2, <1>4, <2>3, <3>3, <3>4 DEF CrashInv
    <3> QED
      BY <1>1, <2>5, <3>5 DEF CrashInv
  <2>7. CASE ~Raise
    <3>1. raises' = raises
      BY <1>6, <2>7 DEF Next, RunStep, vars, counters, FileFinancials, FileOther, Unresolved,
         StartRun, SkipFacts, OpenFacts, InsertStatements, SkipSubmissions, OpenSubmissions,
         Materialize, StoreFacts, LeaveEmpty, BeginFlush, InsertOtherStatements,
         RecomputeProcessed, StoreSubmissions, AfterSubmissions, AfterStatements
    <3>2. Cardinality(PrimedSet') <= Cardinality(PrimedSet)
      BY <1>3, <2>2, Smaller
    <3>3. Cardinality(PrimedSet') + raises' <= crashes'
      BY <1>2, <1>4, <2>3, <3>1, <3>2 DEF CrashInv
    <3> QED
      BY <1>1, <2>5, <3>3 DEF CrashInv
  <2> QED
    BY <2>6, <2>7
<1> QED
  BY <1>5, <1>6

\* Hash, tags and facts of every company but the one being read are one whole
\* document, except for one company per crash: ingest_companyfacts_zip deletes
\* what a run left of a company before it reads the next document of it.
THEOREM CrashesDamageOne == Spec => []CrashDamagesOne
<1>1. TypeInv /\ CrashInv => CrashDamagesOne
  <2> SUFFICES ASSUME TypeInv, CrashInv PROVE CrashDamagesOne
    OBVIOUS
  <2> DEFINE T == {c \in CIK \ {run.file} : Torn(c)}
  <2>1. T \subseteq BrokenSet /\ BrokenSet \in SUBSET CIK
    BY DEF BrokenSet, Broken, Writing
  <2>2. /\ Cardinality(T) <= Cardinality(BrokenSet) /\ Cardinality(T) \in Nat
        /\ Cardinality(BrokenSet) \in Nat
    BY <2>1, Smaller
  <2>3. crashes \in Nat /\ Cardinality(BrokenSet) <= crashes
    BY DEF TypeInv, TypeOK, CrashInv
  <2>4. Cardinality(T) <= crashes
    BY <2>2, <2>3
  <2> QED
    BY <2>4 DEF CrashDamagesOne
<1>2. Init => TypeInv /\ CrashInv
  BY InitTypeInv, InitCrashInv
<1>3. TypeInv /\ CrashInv /\ [Next]_vars => TypeInv' /\ CrashInv'
  BY NextTypeInv, NextCrashInv
<1> QED
  BY <1>1, <1>2, <1>3, PTL DEF Spec

\* Rows left behind make at most one later run die of a duplicate key for each
\* crash, whatever the run that dies leaves behind in its turn.
THEOREM CrashesRaiseOnce == Spec => []OneRaisePerCrash
<1>1. TypeInv /\ CrashInv => OneRaisePerCrash
  <2> SUFFICES ASSUME TypeInv, CrashInv PROVE OneRaisePerCrash
    OBVIOUS
  <2>1. Cardinality(PrimedSet) \in Nat
    BY Smaller DEF PrimedSet
  <2>2. crashes \in Nat /\ raises \in Nat /\ Cardinality(PrimedSet) + raises <= crashes
    BY DEF TypeInv, TypeOK, CrashInv
  <2> QED
    BY <2>1, <2>2 DEF OneRaisePerCrash
<1>2. Init => TypeInv /\ CrashInv
  BY InitTypeInv, InitCrashInv
<1>3. TypeInv /\ CrashInv /\ [Next]_vars => TypeInv' /\ CrashInv'
  BY NextTypeInv, NextCrashInv
<1> QED
  BY <1>1, <1>2, <1>3, PTL DEF Spec

\* What a crash costs in both ways.
THEOREM CrashesAreBounded == Spec => []CrashesCostOne
  BY CrashesDamageOne, CrashesRaiseOnce, PTL DEF CrashesCostOne

-----------------------------------------------------------------------------
(* processed_ciks, and the dei rows taken from submissions.                 *)

LEMMA ProcessedInit == Init => ProcessedIsFresh
  BY BulkDocuments, BulkBounds
     DEF BulkDocuments, BulkBounds, Init, ProcessedIsFresh, Ended, NoRows, None, Version

LEMMA ProcessedNext == TypeInv /\ ProcessedIsFresh /\ [Next]_vars => ProcessedIsFresh'
<1> SUFFICES ASSUME TypeInv, ProcessedIsFresh, [Next]_vars PROVE ProcessedIsFresh'
  OBVIOUS
<1>1. run \in Run /\ db \in Db
  BY DEF TypeInv, TypeOK
<1>2. CASE RecomputeProcessed
  BY <1>1, <1>2 DEF RecomputeProcessed, ProcessedIsFresh, Processed, Db
<1>3. CASE StoreFacts
  <2>1. run'.stage = "facts"
    BY <1>1, <1>3 DEF StoreFacts, FileRead, Run
  <2> QED
    BY <2>1 DEF ProcessedIsFresh
<1>4. CASE StoreSubmissions
  <2>1. run.stage = "submissions" /\ run.step \in 1..4
    BY <1>1, <1>4 DEF StoreSubmissions, TypeInv, Shape, Run
  <2>2. db'.processed = db.processed /\ db'.tags = db.tags
    BY <1>1, <1>4, <2>1 DEF StoreSubmissions, SubsStatement, Db
  <2> QED
    BY <2>1, <2>2 DEF ProcessedIsFresh
<1>5. ASSUME NEW c \in CIK, InsertStatements(c) \/ Materialize(c) PROVE ProcessedIsFresh'
  <2>1. db'.processed = db.processed /\ db'.tags = db.tags /\ run'.stage = run.stage
    BY <1>1, <1>5 DEF InsertStatements, Materialize, Db, Run
  <2> QED
    BY <2>1 DEF ProcessedIsFresh
<1>6. CASE InsertOtherStatements
  <2>1. run.stage = "facts" /\ run'.stage = "facts"
    BY <1>1, <1>6 DEF InsertOtherStatements, Run
  <2> QED
    BY <2>1 DEF ProcessedIsFresh
<1>7. ASSUME NEW c \in CIK,
             \/ SkipFacts(c) \/ OpenFacts(c) \/ SkipSubmissions(c) \/ OpenSubmissions(c)
             \/ FileFinancials(c) \/ FileOther(c) \/ Unresolved(c)
      PROVE  ProcessedIsFresh'
  <2>1. db' = db /\ run'.stage = run.stage
    BY <1>1, <1>7 DEF SkipFacts, OpenFacts, SkipSubmissions, OpenSubmissions,
       FileFinancials, FileOther, Unresolved, Run
  <2> QED
    BY <2>1 DEF ProcessedIsFresh
<1>8. CASE StartRun
  BY <1>8 DEF StartRun, Ended, ProcessedIsFresh
<1>9. CASE LeaveEmpty \/ BeginFlush
  <2>1. db' = db /\ run'.stage = run.stage
    BY <1>1, <1>9 DEF LeaveEmpty, BeginFlush, Run
  <2> QED
    BY <2>1 DEF ProcessedIsFresh
<1>10. CASE AfterSubmissions \/ AfterStatements
  <2>1. db' = db /\ run.stage \in {"submissions", "std"}
    BY <1>10 DEF AfterSubmissions, AfterStatements
  <2> QED
    BY <2>1 DEF ProcessedIsFresh
<1>11. CASE Crash \/ Raise
  BY <1>11 DEF Crash, Raise, Ended, ProcessedIsFresh
<1>12. CASE UNCHANGED vars
  BY <1>12 DEF vars, ProcessedIsFresh
<1> QED
  BY <1>2, <1>3, <1>4, <1>5, <1>6, <1>7, <1>8, <1>9, <1>10, <1>11, <1>12 DEF Next, RunStep

\* compute_processed_ciks leaves nothing of what it finds: from stage 4 on the
\* table says which companies have tags of all three statements.
THEOREM ProcessedStaysFresh == Spec => []ProcessedIsFresh
  BY InitTypeInv, NextTypeInv, ProcessedInit, ProcessedNext, PTL DEF Spec

\* What the delete and insert statements of a company's submissions have
\* established; any statement may be the last of its run.
DeiInv(c) ==
    /\ db.submissions[c] # None => db.dei[c] \subseteq {db.submissions[c]}
    /\ run.stage = "submissions" /\ run.file = c =>
          /\ run.step = 2 => db.submissions[c] = None
          /\ run.step \in 3..4 => db.dei[c] = {}
          /\ run.step = 4 => db.submissions[c] = run.zip[c]

LEMMA DeiNext == TypeInv /\ (\A c \in CIK : DeiInv(c)) /\ [Next]_vars => (\A c \in CIK : DeiInv(c))'
<1> SUFFICES ASSUME TypeInv, [Next]_vars, NEW c \in CIK, DeiInv(c) PROVE DeiInv(c)'
  OBVIOUS
<1> USE NoFileAssumption
<1>1. run \in Run /\ db \in Db /\ c # NoFile
  BY NoFileAssumption DEF TypeInv, TypeOK
<1>2. ASSUME db'.submissions[c] = db.submissions[c], db'.dei[c] = db.dei[c] \/ db'.dei[c] = {},
             run'.stage = "submissions" => run'.file # c \/ run'.step = 1
      PROVE  DeiInv(c)'
  BY <1>2 DEF DeiInv
<1>3. CASE StoreSubmissions
  <2>1. run.stage = "submissions" /\ run.step \in 1..4 /\ run.file \in CIK
    BY <1>1, <1>3 DEF StoreSubmissions, TypeInv, Shape, Run
  <2>2. /\ run'.stage = "submissions" /\ run'.zip = run.zip
        /\ IF run.step = 4 THEN run'.file = NoFile
           ELSE run'.file = run.file /\ run'.step = run.step + 1
    BY <1>1, <1>3, <2>1 DEF StoreSubmissions, Run
  <2>3. CASE run.file = c
    <3>1. db' = SubsStatement(c, run.zip[c], run.step)
      BY <1>3, <2>3 DEF StoreSubmissions
    <3>2. CASE run.step = 1
      <4>1. db' = [db EXCEPT !.submissions = [db.submissions EXCEPT ![c] = None]]
        BY <1>1, <3>1, <3>2 DEF SubsStatement
      <4>2. db'.submissions[c] = None
        BY <1>1, <4>1 DEF Db, Table
      <4> QED
        BY <2>2, <2>3, <3>2, <4>2 DEF DeiInv
    <3>3. CASE run.step = 2
      <4>1. db' = [db EXCEPT !.dei = [db.dei EXCEPT ![c] = {}]]
        BY <1>1, <3>1, <3>3 DEF SubsStatement
      <4>2. db'.submissions = db.submissions /\ db'.dei[c] = {}
        BY <1>1, <4>1 DEF Db
      <4> QED
        BY <2>2, <2>3, <3>3, <4>2 DEF DeiInv
    <3>4. CASE run.step = 3
      <4>1. db' = [db EXCEPT !.submissions = [db.submissions EXCEPT ![c] = run.zip[c]]]
        BY <1>1, <3>1, <3>4 DEF SubsStatement
      <4>2. db'.submissions[c] = run.zip[c] /\ db'.dei = db.dei
        BY <1>1, <4>1 DEF Db, Table
      <4>3. db'.dei[c] = {}
        BY <2>1, <2>3, <3>4, <4>2 DEF DeiInv
      <4> QED
        BY <2>2, <2>3, <3>4, <4>2, <4>3 DEF DeiInv
    <3>5. CASE run.step = 4
      <4>1. db' = [db EXCEPT !.dei = [db.dei EXCEPT ![c] = db.dei[c] \cup {run.zip[c]}]]
        BY <1>1, <3>1, <3>5 DEF SubsStatement
      <4>2. db'.submissions = db.submissions /\ db'.dei[c] = db.dei[c] \cup {run.zip[c]}
        BY <1>1, <4>1 DEF Db
      <4>3. db.dei[c] = {} /\ db.submissions[c] = run.zip[c]
        BY <2>1, <2>3, <3>5 DEF DeiInv
      <4> QED
        BY <1>1, <2>2, <3>5, <4>2, <4>3 DEF DeiInv
    <3> QED
      BY <2>1, <3>2, <3>3, <3>4, <3>5
  <2>4. CASE run.file # c
    <3>1. db'.submissions[c] = db.submissions[c] /\ db'.dei[c] = db.dei[c]
      BY <1>1, <1>3, <2>1, <2>4 DEF StoreSubmissions, SubsStatement, Db, Table
    <3>2. run'.file # c
      BY <1>1, <2>2, <2>4
    <3> QED
      BY <1>2, <3>1, <3>2
  <2> QED
    BY <2>3, <2>4
<1>4. CASE StoreFacts
  <2>1. run.stage = "facts" /\ run.step \in 1..8 /\ run.file \in CIK /\ run'.stage = "facts"
    BY <1>1, <1>4 DEF StoreFacts, FileRead, TypeInv, Shape, Run
  <2>2. db'.submissions = db.submissions
    BY <1>1, <1>4, <2>1 DEF StoreFacts, DeleteRows, InsertRows, Db
  <2>3. db'.dei[c] = db.dei[c] \/ db'.dei[c] = {}
    <3>1. CASE run.step = 3
      <4> DEFINE d == run.file
      <4>1. db' = [db EXCEPT !.facts = [db.facts EXCEPT ![d] = {}],
                             !.dei = [db.dei EXCEPT ![d] = {}]]
        BY <1>1, <1>4, <3>1 DEF StoreFacts, DeleteRows
      <4>2. db'.dei = [db.dei EXCEPT ![d] = {}]
        BY <1>1, <4>1 DEF Db
      <4> QED
        BY <1>1, <4>2 DEF Db
    <3>2. CASE run.step # 3
      BY <1>1, <1>4, <2>1, <3>2 DEF StoreFacts, DeleteRows, InsertRows, Db
    <3> QED
      BY <3>1, <3>2
  <2> QED
    BY <1>2, <2>1, <2>2, <2>3
<1>5. ASSUME NEW d \in CIK, InsertStatements(d) \/ Materialize(d) PROVE DeiInv(c)'
  <2>1. /\ db'.submissions = db.submissions /\ db'.dei = db.dei
        /\ run'.stage \in {"facts", "std"}
    BY <1>1, <1>5 DEF InsertStatements, Materialize, Db, Run
  <2> QED
    BY <1>2, <2>1
<1>6. CASE InsertOtherStatements \/ RecomputeProcessed
  <2>1. /\ db'.submissions = db.submissions /\ db'.dei = db.dei
        /\ run'.stage = "submissions" => run'.file = NoFile
    BY <1>1, <1>6 DEF InsertOtherStatements, RecomputeProcessed, Ended, Db, Run
  <2> QED
    BY <1>1, <1>2, <2>1
<1>7. ASSUME NEW d \in CIK,
             SkipFacts(d) \/ OpenFacts(d) \/ SkipSubmissions(d) \/ Unresolved(d)
      PROVE  DeiInv(c)'
  <2>1. /\ db' = db
        /\ run'.stage = "submissions" => run'.file = NoFile
    BY <1>1, <1>7 DEF SkipFacts, OpenFacts, SkipSubmissions, Unresolved, NextFile, Run
  <2> QED
    BY <1>1, <1>2, <2>1
<1>8. ASSUME NEW d \in CIK, OpenSubmissions(d) PROVE DeiInv(c)'
  <2>1. db' = db /\ run'.step = 1
    BY <1>1, <1>8 DEF OpenSubmissions, FirstSubsStep, Run
  <2> QED
    BY <1>2, <2>1
<1>9. CASE LeaveEmpty \/ BeginFlush
  <2>1. db' = db /\ run'.stage = "facts"
    BY <1>1, <1>9 DEF LeaveEmpty, BeginFlush, Run
  <2> QED
    BY <1>2, <2>1
<1>10. CASE StartRun \/ AfterSubmissions \/ AfterStatements \/ Crash \/ Raise
  <2>1. db' = db /\ run'.stage # "submissions"
    <3>1. CASE StartRun
      BY <3>1 DEF StartRun, Ended
    <3>2. CASE AfterSubmissions
      BY <3>2 DEF AfterSubmissions, Ended
    <3>3. CASE AfterStatements \/ Crash \/ Raise
      BY <3>3 DEF AfterStatements, Crash, Raise, Ended
    <3> QED
      BY <1>10, <3>1, <3>2, <3>3
  <2> QED
    BY <1>2, <2>1
<1>11. ASSUME db' = db, run' = run PROVE DeiInv(c)'
  BY <1>11 DEF DeiInv
<1>12. ASSUME NEW d \in CIK, FileFinancials(d) \/ FileOther(d) PROVE DeiInv(c)'
  BY <1>11, <1>12 DEF FileFinancials, FileOther
<1> QED
  BY <1>3, <1>4, <1>5, <1>6, <1>7, <1>8, <1>9, <1>10, <1>11, <1>12 DEF Next, RunStep, vars

\* The dei rows beside a submissions payload are those taken from it, wherever
\* the statements that replace both were cut off.
THEOREM DeiStaysFresh == Spec => []DeiNeverStale
<1>1. Init => \A c \in CIK : DeiInv(c)
  BY DEF Init, Ended, NoRows, NoParts, DeiInv
<1>2. (\A c \in CIK : DeiInv(c)) => DeiNeverStale
  BY DEF DeiInv, DeiNeverStale
<1> QED
  BY InitTypeInv, NextTypeInv, DeiNext, <1>1, <1>2, PTL DEF Spec

\* The tables taken from others are never older than what they are taken from.
THEOREM DerivedStaysFresh == Spec => []DerivedIsFresh
  BY ProcessedStaysFresh, DeiStaysFresh, PTL DEF DerivedIsFresh

-----------------------------------------------------------------------------
(* The statements.  A run that dies takes its batch, and the company of the *)
(* file it was reading, with it: at most BatchSize companies in all, since  *)
(* a file is only opened while the batch has room.  Apart from that no      *)
(* company that will get its statements ceases to be one.                   *)

Queued(c) == c \in run.batch \cup run.flush

\* A company whose statements are wrong, or will be when its file has been
\* read and its batch resolved.
Astray(c) ==
    IF Writing(c)
    THEN \/ run.step \in 5..6 /\ (db.tags[c] # None \/ db.facts[c] # {} \/ db.std[c] # {})
         \/ run.step = 7 /\ (db.facts[c] # {} \/ db.std[c] # {})
         \/ run.step = 8 /\ (db.facts[c] # {<<run.zip[c], 1>>} \/ db.std[c] # {})
    ELSE \/ Torn(c)
         \/ IF Queued(c)
            THEN \/ db.companies[c] # run.zip[c]
                 \/ <<c, run.zip[c]>> \notin HasStatement
                 \/ db.std[c] # (IF Inserting(c) THEN {<<run.zip[c], 1>>} ELSE {})
            ELSE db.std[c] # Wanted(c)

\* What the running process alone knows of.
AtRisk == CIK \cap (run.batch \cup run.flush \cup {run.file})

Excused(c) == ((Crash \/ Raise) /\ c \in AtRisk) \/ Unresolved(c)

BatchInv ==
    /\ Cardinality(run.batch) <= BatchSize /\ Cardinality(run.flush) <= BatchSize
    /\ run.step # 0 => Cardinality(run.batch) < BatchSize
    /\ run.stage = "std" => run.todo \subseteq db.processed
    /\ crashes + unresolved <= MaxFailures

\* The steps that leave the rows of c and its place alone.
LEMMA QuietAstray ==
  ASSUME NEW c \in CIK, Rows(c)' = Rows(c), ~Writing(c), ~Writing(c)',
         Inserting(c)' <=> Inserting(c), Queued(c)' <=> Queued(c),
         Queued(c) => run'.zip = run.zip
  PROVE  Astray(c)' => Astray(c)
BY DEF Astray, Rows, Torn, Wanted

\* Without a hash nothing is wanted.
LEMMA NothingWanted ==
  ASSUME NEW c \in CIK, db.companies[c] = None
  PROVE  Wanted(c) = {}
BY BulkDocuments, BulkBounds DEF BulkDocuments, BulkBounds, Wanted, Version, None

LEMMA OpenAstray ==
  ASSUME TypeInv, NEW c \in CIK, OpenFacts(c)
  PROVE  Astray(c)' => Astray(c)
<1>1. /\ run'.stage = "facts" /\ run'.file = c /\ run'.step = FirstStep(c) /\ db' = db
      /\ run.file = NoFile /\ c # NoFile /\ c \in run.todo
  BY NoFileAssumption DEF OpenFacts, NextFile, TypeInv, TypeOK, Run
<1>2. ~Writing(c) /\ ~Queued(c)
  BY <1>1 DEF Writing, Queued, TypeInv, Shape
<1>3. CASE db.companies[c] # None
  BY <1>1, <1>3 DEF FirstStep, Writing, Astray
<1>4. CASE db.companies[c] = None
  <2>1. run'.step = 5 /\ Writing(c)'
    BY <1>1, <1>4 DEF FirstStep, Writing
  <2>2. Astray(c)' => db.tags[c] # None \/ db.facts[c] # {} \/ db.std[c] # {}
    BY <1>1, <2>1 DEF Astray
  <2>3. Astray(c) <=> Torn(c) \/ db.std[c] # {}
    BY <1>2, <1>4, NothingWanted DEF Astray
  <2>4. Torn(c) <=> db.tags[c] # None \/ db.facts[c] # {}
    BY <1>4 DEF Torn, Whole
  <2> QED
    BY <2>2, <2>3, <2>4
<1> QED
  BY <1>3, <1>4

LEMMA StoreAstray ==
  ASSUME TypeInv, NEW c \in CIK, Local(c), StoreFacts, run.file = c
  PROVE  Astray(c)' => Astray(c)
<1>1. /\ run.stage = "facts" /\ run.step \in 1..8 /\ run.zip[c] \in Version
      /\ run.flush = {} /\ c \notin run.batch /\ run \in Run /\ db \in Db /\ c # NoFile
  BY NoFileAssumption DEF StoreFacts, TypeInv, TypeOK, Shape, Reading, Run
<1>2. Writing(c) /\ StepInv(c)
  BY <1>1 DEF Writing, Local
<1>3. /\ run.step <= 4 => db' = DeleteRows(c, run.step)
      /\ run.step > 4 => db' = InsertRows(c, run.zip[c], run.step)
  BY <1>1 DEF StoreFacts
<1>4. /\ db.companies \in Table /\ db.tags \in Table /\ db.facts \in Parts /\ db.std \in Parts
  BY <1>1 DEF Db
<1>5. ASSUME run.step # 8
      PROVE  Writing(c)' /\ run'.step = run.step + 1 /\ run'.zip = run.zip
  BY <1>1, <1>5 DEF StoreFacts, Run, Writing
<1>6. CASE run.step \in 1..3
  <2>1. Writing(c)' /\ run'.step \in 2..4
    BY <1>5, <1>6
  <2> QED
    BY <2>1 DEF Astray
<1>7. CASE run.step = 4
  <2>1. Rows(c)' = <<None, None, {}, {}>>
    BY <1>1, <1>2, <1>3, <1>4, <1>7 DEF DeleteRows, Rows, Db, Parts, StepInv
  <2>2. run'.step = 5 /\ Writing(c)'
    BY <1>5, <1>7
  <2> QED
    BY <2>1, <2>2 DEF Astray, Rows
<1>8. CASE run.step = 5
  <2>1. Rows(c)' = <<run.zip[c], db.tags[c], db.facts[c], db.std[c]>>
    BY <1>1, <1>3, <1>4, <1>8 DEF InsertRows, Rows, Db, Table
  <2>2. run'.step = 6 /\ Writing(c)'
    BY <1>5, <1>8
  <2> QED
    BY <1>2, <1>8, <2>1, <2>2 DEF Astray, Rows
<1>9. CASE run.step = 6
  <2>1. Rows(c)' = <<run.zip[c], run.zip[c], db.facts[c], db.std[c]>>
    BY <1>1, <1>2, <1>3, <1>4, <1>9 DEF InsertRows, Rows, Db, Table, StepInv
  <2>2. run'.step = 7 /\ Writing(c)'
    BY <1>5, <1>9
  <2> QED
    BY <1>2, <1>9, <2>1, <2>2 DEF Astray, Rows
<1>10. CASE run.step = 7
  <2>1. Rows(c)' = <<run.zip[c], run.zip[c], db.facts[c] \cup {<<run.zip[c], 1>>}, db.std[c]>>
    BY <1>1, <1>2, <1>3, <1>4, <1>10 DEF InsertRows, Rows, Db, Parts, StepInv
  <2>2. run'.step = 8 /\ Writing(c)' /\ run'.zip = run.zip
    BY <1>5, <1>10
  <2> QED
    BY <1>2, <1>10, <2>1, <2>2 DEF Astray, Rows
<1>11. CASE run.step = 8
  <2>1. Rows(c)' = <<run.zip[c], run.zip[c], db.facts[c] \cup {<<run.zip[c], 2>>}, db.std[c]>>
    BY <1>1, <1>2, <1>3, <1>4, <1>11 DEF InsertRows, Rows, Db, Parts, StepInv
  <2>2. /\ run'.stage = "facts" /\ run'.file = NoFile /\ run'.flush = {} /\ run'.zip = run.zip
        /\ run'.batch = IF <<c, run.zip[c]>> \in HasStatement THEN run.batch \cup {c} ELSE run.batch
    BY <1>1, <1>11 DEF StoreFacts, FileRead, Run
  <2>3. /\ ~Writing(c)' /\ ~Inserting(c)'
        /\ Queued(c)' <=> <<c, run.zip[c]>> \in HasStatement
    BY <1>1, <2>2 DEF Writing, Inserting, Queued
  <2>4. SUFFICES ASSUME ~Astray(c) PROVE ~Astray(c)'
    OBVIOUS
  <2>5. db.facts[c] = {<<run.zip[c], 1>>} /\ db.std[c] = {} /\ run.zip[c] # None
    BY <1>1, <1>2, <1>11, <2>4 DEF Astray, Version, None
  <2>6. Rows(c)' = <<run.zip[c], run.zip[c], Whole(run.zip[c]), {}>>
    BY <2>1, <2>5 DEF Whole
  <2>7. ~Torn(c)'
    BY <2>6 DEF Torn, Rows
  <2>8. CASE <<c, run.zip[c]>> \in HasStatement
    BY <2>2, <2>3, <2>6, <2>7, <2>8 DEF Astray, Rows
  <2>9. CASE <<c, run.zip[c]>> \notin HasStatement
    <3>1. Wanted(c)' = {}
      BY <2>6, <2>9 DEF Wanted, Rows
    <3> QED
      BY <2>3, <2>6, <2>7, <2>9, <3>1 DEF Astray, Rows
  <2> QED
    BY <2>8, <2>9
<1> QED
  BY <1>1, <1>6, <1>7, <1>8, <1>9, <1>10, <1>11

\* The rows of a company of the batch that is resolved, in their two inserts.
LEMMA FlushAstray ==
  ASSUME TypeInv, NEW c \in CIK, Local(c),
         InsertStatements(c) \/ (InsertOtherStatements /\ run.file = c)
  PROVE  Astray(c)' => Astray(c)
<1> USE NoFileAssumption
<1>0. run \in Run /\ db \in Db /\ c # NoFile
  BY DEF TypeInv, TypeOK
<1> SUFFICES ASSUME ~Astray(c) PROVE ~Astray(c)'
  OBVIOUS
<1>1. CASE InsertStatements(c)
  <2>1. /\ run'.stage = "facts" /\ run'.file = c /\ run'.step = 0 /\ run'.zip = run.zip
        /\ run'.batch = run.batch /\ run'.flush = run.flush /\ c \in run.flush
        /\ run.file = NoFile
    BY <1>0, <1>1 DEF InsertStatements, Run
  <2>2. /\ db'.companies = db.companies /\ db'.tags = db.tags /\ db'.facts = db.facts
        /\ db'.std[c] = {<<run.zip[c], 1>>}
    BY <1>0, <1>1 DEF InsertStatements, Db, Parts
  <2>3. ~Writing(c) /\ ~Writing(c)' /\ Inserting(c)' /\ Queued(c) /\ Queued(c)'
    BY <1>0, <2>1 DEF Writing, Inserting, Queued
  <2>4. Torn(c)' <=> Torn(c)
    BY <2>2 DEF Torn
  <2> QED
    BY <2>1, <2>2, <2>3, <2>4 DEF Astray
<1>2. CASE InsertOtherStatements /\ run.file = c
  <2>1. /\ run'.stage = "facts" /\ run'.file = NoFile /\ run'.step = 0 /\ run'.zip = run.zip
        /\ run'.batch = run.batch /\ run'.flush = run.flush \ {c} /\ c \in run.flush
        /\ run.stage = "facts" /\ run.step = 0 /\ run.batch = {}
    BY <1>0, <1>2 DEF InsertOtherStatements, TypeInv, Shape, Run
  <2>2. /\ db'.companies = db.companies /\ db'.tags = db.tags /\ db'.facts = db.facts
        /\ db'.std[c] = db.std[c] \cup {<<run.zip[c], 2>>}
    BY <1>0, <1>2 DEF InsertOtherStatements, Db, Parts
  <2>3. ~Writing(c) /\ Inserting(c) /\ Queued(c) /\ ~Writing(c)' /\ ~Queued(c)'
    BY <1>0, <1>2, <2>1 DEF Writing, Inserting, Queued
  <2>4. /\ ~Torn(c) /\ db.companies[c] = run.zip[c] /\ <<c, run.zip[c]>> \in HasStatement
        /\ db.std[c] = {<<run.zip[c], 1>>}
    BY <2>3 DEF Astray
  <2>5. run.zip[c] # None
    BY BulkDocuments, BulkBounds, <2>4 DEF BulkDocuments, BulkBounds, Version, None
  <2>6. db'.facts[c] = Whole(run.zip[c]) /\ ~Torn(c)'
    BY <2>2, <2>4 DEF Torn
  <2>7. db'.std[c] = Whole(run.zip[c])
    BY <2>2, <2>4, <2>5 DEF Whole
  <2>8. Wanted(c)' = Whole(run.zip[c])
    BY <2>2, <2>4, <2>6 DEF Wanted
  <2> QED
    BY <2>3, <2>6, <2>7, <2>8 DEF Astray
<1> QED
  BY <1>1, <1>2

\* Stage 5 gives whole companies of processed_ciks what they want.
LEMMA MaterializeAstray ==
  ASSUME TypeInv, BatchInv, ProcessedIsFresh, NEW c \in CIK, NEW d \in CIK, Materialize(d)
  PROVE  Astray(c)' => Astray(c)
<1>0. run \in Run /\ db \in Db
  BY DEF TypeInv, TypeOK
<1>1. /\ run.stage = "std" /\ run'.stage = "std" /\ run'.batch = {} /\ run'.flush = {}
      /\ run.batch = {} /\ run.flush = {} /\ d \in db.processed
  BY <1>0 DEF Materialize, BatchInv, TypeInv, Shape, Run
<1>2. ~Writing(c) /\ ~Writing(c)' /\ ~Queued(c) /\ ~Queued(c)'
  BY <1>1 DEF Writing, Queued
<1>3. /\ db'.companies = db.companies /\ db'.tags = db.tags /\ db'.facts = db.facts
      /\ db'.std[c] = IF c = d /\ db.companies[c] # None THEN db.facts[c] ELSE db.std[c]
  BY <1>0 DEF Materialize, Db, Parts
<1>4. (Torn(c)' <=> Torn(c)) /\ Wanted(c)' = Wanted(c)
  BY <1>3 DEF Torn, Wanted
<1>5. ASSUME c = d, ~Torn(c), db.companies[c] # None PROVE db.facts[c] = Wanted(c)
  <2>1. <<c, db.tags[c]>> \in Complete
    BY <1>1, <1>5 DEF ProcessedIsFresh
  <2>2. <<c, db.companies[c]>> \in HasStatement
    BY BulkDocuments, <1>5, <2>1 DEF BulkDocuments, Torn
  <2> QED
    BY <2>2 DEF Wanted
<1> QED
  BY <1>2, <1>3, <1>4, <1>5 DEF Astray

\* Every step, seen from one company.
LEMMA AstrayStep ==
  ASSUME TypeInv, BatchInv, ProcessedIsFresh, [Next]_vars, NEW c \in CIK, Local(c)
  PROVE  Astray(c)' => Astray(c) \/ Excused(c)
<1> USE NoFileAssumption
<1>0. run \in Run /\ db \in Db /\ c # NoFile
  BY DEF TypeInv, TypeOK
<1> DEFINE Quiet == /\ Rows(c)' = Rows(c) /\ ~Writing(c) /\ ~Writing(c)'
                    /\ Inserting(c)' <=> Inserting(c)
                    /\ Queued(c)' <=> Queued(c)
                    /\ Queued(c) => run'.zip = run.zip
<1>1. CASE db' = db /\ run' = run
  BY <1>1 DEF Astray, Torn, Wanted, Writing, Inserting, Queued
<1>2. CASE StartRun
  <2>1. run.batch = {} /\ run.flush = {} /\ run.stage \in {"down", "done"}
    BY <1>2 DEF StartRun, TypeInv, Shape
  <2>2. Quiet
    BY <1>0, <1>2, <2>1 DEF StartRun, Ended, Rows, Writing, Inserting, Queued
  <2> QED
    BY <2>2, QuietAstray
<1>3. ASSUME NEW d \in CIK, SkipFacts(d) \/ SkipSubmissions(d) \/ OpenSubmissions(d)
      PROVE  Astray(c)' => Astray(c)
  <2>1. Quiet
    BY <1>0, <1>3 DEF SkipFacts, SkipSubmissions, OpenSubmissions, NextFile, Rows, Writing,
       Inserting, Queued, Run
  <2> QED
    BY <2>1, QuietAstray
<1>4. ASSUME NEW d \in CIK, OpenFacts(d) PROVE Astray(c)' => Astray(c)
  <2>1. CASE d = c
    BY <1>4, <2>1, OpenAstray
  <2>2. CASE d # c
    <3>1. Quiet
      BY <1>0, <1>4, <2>2 DEF OpenFacts, NextFile, Rows, Writing, Inserting, Queued, Run
    <3> QED
      BY <3>1, QuietAstray
  <2> QED
    BY <2>1, <2>2
<1>5. CASE StoreFacts
  <2>1. CASE run.file = c
    BY <1>5, <2>1, StoreAstray
  <2>2. CASE run.file # c
    <3>1. run.file \in CIK /\ run.step \in 1..8 /\ run.flush = {}
      BY <1>0, <1>5 DEF StoreFacts, TypeInv, Shape, Run
    <3>2. Rows(c)' = Rows(c)
      <4>1. CASE run.step <= 4
        BY <1>0, <1>5, <2>2, <3>1, <4>1 DEF StoreFacts, DeleteRows, Rows, Db, Table, Parts
      <4>2. CASE run.step > 4
        BY <1>0, <1>5, <2>2, <3>1, <4>2 DEF StoreFacts, InsertRows, Rows, Db, Table, Parts
      <4> QED
        BY <3>1, <4>1, <4>2
    <3>3. /\ run'.file \in {run.file, NoFile} /\ run'.flush = run.flush /\ run'.zip = run.zip
          /\ run'.batch \in {run.batch, run.batch \cup {run.file}}
      <4>1. CASE run.step = 8
        BY <1>0, <1>5, <4>1 DEF StoreFacts, FileRead, Run
      <4>2. CASE run.step # 8
        BY <1>0, <1>5, <4>2 DEF StoreFacts, Run
      <4> QED
        BY <4>1, <4>2
    <3>4. Quiet
      BY <1>0, <2>2, <3>2, <3>3 DEF Writing, Inserting, Queued
    <3> QED
      BY <3>4, QuietAstray
  <2> QED
    BY <2>1, <2>2
<1>6. CASE LeaveEmpty
  <2>1. /\ run'.stage = "facts" /\ run'.file = NoFile /\ run'.step = 0 /\ db' = db
        /\ run'.batch = run.batch /\ run'.flush = run.flush /\ run.stage = "facts" /\ run.step = 5
        /\ run'.zip = run.zip
    BY <1>0, <1>6 DEF LeaveEmpty, Run
  <2>2. CASE run.file = c
    <3>1. Writing(c) /\ ~Writing(c)' /\ ~Queued(c)'
      BY <1>0, <2>1, <2>2 DEF Writing, Queued, TypeInv, Shape
    <3>2. db.companies[c] = None
      BY <2>1, <3>1 DEF Local, StepInv
    <3>3. Wanted(c)' = {}
      BY <2>1, <3>2, NothingWanted DEF Wanted
    <3> QED
      BY <2>1, <3>1, <3>2, <3>3 DEF Astray, Torn, Whole
  <2>3. CASE run.file # c
    <3>1. Quiet
      BY <1>0, <2>1, <2>3 DEF Rows, Writing, Inserting, Queued
    <3> QED
      BY <3>1, QuietAstray
  <2> QED
    BY <2>2, <2>3
<1>7. CASE BeginFlush
  <2>1. Quiet
    BY <1>0, <1>7 DEF BeginFlush, Rows, Writing, Inserting, Queued, Run
  <2> QED
    BY <2>1, QuietAstray
<1>8. ASSUME NEW d \in CIK, InsertStatements(d) PROVE Astray(c)' => Astray(c)
  <2>1. CASE d = c
    BY <1>8, <2>1, FlushAstray
  <2>2. CASE d # c
    <3>1. db'.companies = db.companies /\ db'.tags = db.tags /\ db'.facts = db.facts
          /\ db'.std[c] = db.std[c]
      BY <1>0, <1>8, <2>2 DEF InsertStatements, Db, Parts
    <3>2. Quiet
      BY <1>0, <1>8, <2>2, <3>1 DEF InsertStatements, Rows, Writing, Inserting, Queued, Run
    <3> QED
      BY <3>2, QuietAstray
  <2> QED
    BY <2>1, <2>2
<1>9. CASE InsertOtherStatements
  <2>1. CASE run.file = c
    BY <1>9, <2>1, FlushAstray
  <2>2. CASE run.file # c
    <3>1. db'.companies = db.companies /\ db'.tags = db.tags /\ db'.facts = db.facts
          /\ db'.std[c] = db.std[c]
      BY <1>0, <1>9, <2>2 DEF InsertOtherStatements, Db, Parts
    <3>2. /\ run'.file = NoFile /\ run'.batch = run.batch /\ run'.flush = run.flush \ {run.file}
          /\ run'.zip = run.zip /\ run'.step = run.step
      BY <1>0, <1>9 DEF InsertOtherStatements, Run
    <3>3. Quiet
      BY <1>0, <2>2, <3>1, <3>2 DEF Rows, Writing, Inserting, Queued
    <3> QED
      BY <3>3, QuietAstray
  <2> QED
    BY <2>1, <2>2
<1>10. CASE RecomputeProcessed
  <2>1. Quiet
    BY <1>0, <1>10 DEF RecomputeProcessed, Ended, Rows, Writing, Inserting, Queued, Db
  <2> QED
    BY <2>1, QuietAstray
<1>11. CASE StoreSubmissions
  <2>1. run.step \in 1..4 /\ run.stage = "submissions"
    BY <1>0, <1>11 DEF StoreSubmissions, TypeInv, Shape, Run
  <2>2. Rows(c)' = Rows(c)
    BY <1>0, <1>11, <2>1 DEF StoreSubmissions, SubsStatement, Rows, Db
  <2>3. /\ run'.stage = "submissions" /\ run'.batch = run.batch /\ run'.flush = run.flush
        /\ run'.zip = run.zip
    BY <1>0, <1>11 DEF StoreSubmissions, Run
  <2>4. Quiet
    BY <2>1, <2>2, <2>3 DEF Writing, Inserting, Queued
  <2> QED
    BY <2>4, QuietAstray
<1>12. CASE AfterSubmissions \/ AfterStatements
  <2>1. run.stage # "facts" /\ run.batch = {} /\ run.flush = {}
    BY <1>12 DEF AfterSubmissions, AfterStatements, TypeInv, Shape
  <2>2. run'.stage # "facts" /\ run'.batch = {} /\ run'.flush = {} /\ db' = db
    BY <1>12 DEF AfterSubmissions, AfterStatements, Ended
  <2>3. Quiet
    BY <2>1, <2>2 DEF Rows, Writing, Inserting, Queued
  <2> QED
    BY <2>3, QuietAstray
<1>13. ASSUME NEW d \in CIK, Materialize(d) PROVE Astray(c)' => Astray(c)
  BY <1>13, MaterializeAstray
<1>14. CASE Crash \/ Raise
  <2>1. CASE c \in AtRisk
    BY <1>14, <2>1 DEF Excused
  <2>2. CASE c \notin AtRisk
    <3>1. run' = Ended("down") /\ db' = db
      BY <1>14 DEF Crash, Raise
    <3>2. Quiet
      BY <1>0, <2>2, <3>1 DEF AtRisk, Ended, Rows, Writing, Inserting, Queued
    <3> QED
      BY <3>2, QuietAstray
  <2> QED
    BY <2>1, <2>2
<1>15. ASSUME NEW d \in CIK, Unresolved(d) PROVE Astray(c)' => Astray(c) \/ Excused(c)
  <2>1. CASE d = c
    BY <1>15, <2>1 DEF Excused
  <2>2. CASE d # c
    <3>1. /\ db' = db /\ run'.stage = run.stage /\ run'.file = run.file /\ run'.step = run.step
          /\ run'.batch = run.batch /\ run'.zip = run.zip
          /\ run'.flush \in {run.flush, run.flush \ {d}}
          /\ run.stage = "facts" => run.file = NoFile
      BY <1>0, <1>15 DEF Unresolved, Run
    <3>2. Quiet
      BY <1>0, <2>2, <3>1 DEF Rows, Writing, Inserting, Queued
    <3> QED
      BY <3>2, QuietAstray
  <2> QED
    BY <2>1, <2>2
<1>16. ASSUME NEW d \in CIK, FileFinancials(d) \/ FileOther(d)
       PROVE  Astray(c)' => Astray(c) \/ Excused(c)
  BY <1>1, <1>16 DEF FileFinancials, FileOther
<1> QED
  BY <1>1, <1>2, <1>3, <1>4, <1>5, <1>6, <1>7, <1>8, <1>9, <1>10, <1>11, <1>12,
     <1>13, <1>14, <1>15, <1>16 DEF Next, RunStep, vars

LEMMA InitBatch == Init => BatchInv
<1>1. Cardinality({}) = 0
  BY FS_EmptySet
<1> QED
  BY <1>1, BulkBounds DEF BulkBounds, Init, Ended, BatchInv

LEMMA NextBatch == TypeInv /\ BatchInv /\ [Next]_vars => BatchInv'
<1> SUFFICES ASSUME TypeInv, BatchInv, [Next]_vars PROVE BatchInv'
  OBVIOUS
<1> USE BulkBounds DEF BulkBounds
<1>0. /\ run \in Run /\ db \in Db /\ crashes \in Nat /\ unresolved \in Nat
      /\ run.batch \in SUBSET CIK /\ run.flush \in SUBSET CIK
      /\ Cardinality(run.batch) \in Nat /\ Cardinality(run.flush) \in Nat
  <2>1. run \in Run /\ run.batch \in SUBSET CIK /\ run.flush \in SUBSET CIK
    BY DEF TypeInv, TypeOK, Run
  <2> QED
    BY <2>1, Smaller DEF TypeInv, TypeOK
<1>1. Cardinality({}) = 0
  BY FS_EmptySet
<1>2. ASSUME run'.batch = {}, run'.flush = {}, run'.stage # "std",
             crashes' + unresolved' <= MaxFailures
      PROVE  BatchInv'
  BY <1>1, <1>2 DEF BatchInv
<1>3. ASSUME run'.batch = run.batch, run'.flush = run.flush,
             run'.step # 0 => run.step # 0 \/ Cardinality(run.batch) < BatchSize,
             run'.stage = "std" => run'.todo \subseteq db'.processed,
             crashes' = crashes, unresolved' = unresolved
      PROVE  BatchInv'
  BY <1>3 DEF BatchInv
<1>4. CASE StartRun \/ RecomputeProcessed \/ AfterStatements \/ Raise
  <2>1. /\ run'.batch = {} /\ run'.flush = {} /\ run'.stage # "std"
    <3>1. CASE StartRun
      BY <3>1 DEF StartRun, Ended
    <3>2. CASE RecomputeProcessed
      <4>1. PICK t : t = Processed
        OBVIOUS
      <4>2. run' = [Ended("submissions") EXCEPT !.zip = archive.subs, !.todo = t]
        BY <3>2, <4>1 DEF RecomputeProcessed
      <4> QED
        BY <4>2 DEF Ended
    <3>3. CASE AfterStatements \/ Raise
      BY <3>3 DEF AfterStatements, Raise, Ended
    <3> QED
      BY <1>4, <3>1, <3>2, <3>3
  <2>2. crashes' = crashes /\ unresolved' = unresolved
    BY <1>4 DEF StartRun, RecomputeProcessed, AfterStatements, Raise, counters
  <2> QED
    BY <1>2, <2>1, <2>2 DEF BatchInv
<1>5. CASE Crash
  <2>1. run'.batch = {} /\ run'.flush = {} /\ run'.stage # "std"
    BY <1>5 DEF Crash, Ended
  <2>2. crashes' + unresolved' <= MaxFailures
    BY <1>0, <1>5 DEF Crash, MayFail
  <2> QED
    BY <1>2, <2>1, <2>2
<1>6. ASSUME NEW c \in CIK,
             \/ SkipFacts(c) \/ OpenFacts(c) \/ SkipSubmissions(c) \/ OpenSubmissions(c)
             \/ InsertStatements(c)
      PROVE  BatchInv'
  <2>1. /\ run'.batch = run.batch /\ run'.flush = run.flush /\ run'.stage # "std"
        /\ run'.step # 0 => run.step # 0 \/ Cardinality(run.batch) < BatchSize
    BY <1>0, <1>6 DEF SkipFacts, OpenFacts, SkipSubmissions, OpenSubmissions,
       InsertStatements, NextFile, Run
  <2>2. crashes' = crashes /\ unresolved' = unresolved
    BY <1>6 DEF SkipFacts, OpenFacts, SkipSubmissions, OpenSubmissions, InsertStatements, counters
  <2> QED
    BY <1>3, <2>1, <2>2
<1>7. CASE LeaveEmpty \/ InsertOtherStatements
  <2>1. /\ run'.batch = run.batch /\ run'.flush \in {run.flush, run.flush \ {run.file}}
        /\ run'.stage # "std" /\ run'.step = 0
    BY <1>0, <1>7 DEF LeaveEmpty, InsertOtherStatements, Run
  <2>2. crashes' = crashes /\ unresolved' = unresolved
    BY <1>7 DEF LeaveEmpty, InsertOtherStatements, counters
  <2>3. Cardinality(run'.flush) <= Cardinality(run.flush) /\ Cardinality(run'.flush) \in Nat
    BY <1>0, <2>1, Smaller
  <2> QED
    BY <1>0, <2>1, <2>2, <2>3 DEF BatchInv
<1>8. CASE StoreFacts
  <2>1. /\ run'.flush = run.flush /\ run'.stage = "facts" /\ run.step # 0
        /\ IF run.step = 8
           THEN run'.step = 0 /\ run'.batch \in {run.batch, run.batch \cup {run.file}}
           ELSE run'.batch = run.batch
    <3>1. CASE run.step = 8
      BY <1>0, <1>8, <3>1 DEF StoreFacts, FileRead, Run
    <3>2. CASE run.step # 8
      BY <1>0, <1>8, <3>2 DEF StoreFacts, Run
    <3> QED
      BY <3>1, <3>2
  <2>2. crashes' = crashes /\ unresolved' = unresolved
    BY <1>8 DEF StoreFacts, counters
  <2>3. CASE run.step = 8
    <3>1. run.file \in CIK
      BY <1>0, <2>1 DEF TypeInv, Shape, Run
    <3>2. /\ run'.batch \in SUBSET CIK /\ run'.batch \subseteq run.batch \cup {run.file}
          /\ run'.step = 0
      BY <1>0, <2>1, <2>3, <3>1
    <3>3. Cardinality(run'.batch) <= Cardinality(run.batch) + 1 /\ Cardinality(run'.batch) \in Nat
      BY <1>0, <3>2, OneMore, Smaller
    <3>4. Cardinality(run.batch) < BatchSize
      BY <2>1 DEF BatchInv
    <3>5. Cardinality(run'.batch) <= BatchSize
      BY <1>0, <3>3, <3>4
    <3> QED
      BY <2>1, <2>2, <3>2, <3>5 DEF BatchInv
  <2>4. CASE run.step # 8
    BY <1>3, <2>1, <2>2, <2>4
  <2> QED
    BY <2>3, <2>4
<1>9. CASE BeginFlush
  <2>1. run'.flush = run.batch /\ run'.batch = {} /\ run'.stage = "facts"
    BY <1>0, <1>9 DEF BeginFlush, Run
  <2>2. crashes' = crashes /\ unresolved' = unresolved
    BY <1>9 DEF BeginFlush, counters
  <2> QED
    BY <1>0, <1>1, <2>1, <2>2 DEF BatchInv
<1>10. CASE StoreSubmissions
  <2>1. run'.batch = {} /\ run'.flush = {} /\ run'.stage = "submissions"
    BY <1>0, <1>10 DEF StoreSubmissions, TypeInv, Shape, Run
  <2>2. crashes' = crashes /\ unresolved' = unresolved
    BY <1>10 DEF StoreSubmissions, counters
  <2> QED
    BY <1>2, <2>1, <2>2 DEF BatchInv
<1>11. CASE AfterSubmissions
  <2>1. /\ run'.batch = {} /\ run'.flush = {} /\ run'.step = 0
        /\ run'.stage = "std" => run'.todo = db.processed
    BY <1>11 DEF AfterSubmissions, Ended
  <2>2. db' = db /\ crashes' = crashes /\ unresolved' = unresolved
    BY <1>11 DEF AfterSubmissions, counters
  <2> QED
    BY <1>1, <2>1, <2>2 DEF BatchInv
<1>12. ASSUME NEW c \in CIK, Materialize(c) PROVE BatchInv'
  <2>1. /\ run'.batch = run.batch /\ run'.flush = run.flush /\ run'.step = run.step
        /\ run'.todo \subseteq run.todo /\ run.stage = "std"
    BY <1>0, <1>12 DEF Materialize, Run
  <2>2. db'.processed = db.processed
    BY <1>0, <1>12 DEF Materialize, Db
  <2>3. crashes' = crashes /\ unresolved' = unresolved
    BY <1>12 DEF Materialize, counters
  <2> QED
    BY <1>3, <2>1, <2>2, <2>3 DEF BatchInv
<1>13. ASSUME NEW c \in CIK, Unresolved(c) PROVE BatchInv'
  <2>1. /\ run'.batch = run.batch /\ run'.flush \in {run.flush, run.flush \ {c}}
        /\ run'.step = run.step /\ run'.stage = run.stage /\ run'.todo \subseteq run.todo
        /\ db' = db
    BY <1>0, <1>13 DEF Unresolved, Run
  <2>2. crashes' + unresolved' <= MaxFailures
    BY <1>0, <1>13 DEF Unresolved, MayFail
  <2>3. Cardinality(run'.flush) <= Cardinality(run.flush) /\ Cardinality(run'.flush) \in Nat
    BY <1>0, <2>1, Smaller
  <2> QED
    BY <1>0, <2>1, <2>2, <2>3 DEF BatchInv
<1>14. ASSUME NEW c \in CIK, FileFinancials(c) \/ FileOther(c) PROVE BatchInv'
  BY <1>14 DEF FileFinancials, FileOther, counters, BatchInv
<1>15. CASE UNCHANGED vars
  BY <1>15 DEF vars, BatchInv
<1> QED
  BY <1>4, <1>5, <1>6, <1>7, <1>8, <1>9, <1>10, <1>11, <1>12, <1>13, <1>14, <1>15
     DEF Next, RunStep

\* A batch and the company being read are never more than a full batch.
LEMMA RiskIsOneBatch ==
  ASSUME TypeInv, BatchInv
  PROVE  AtRisk \in SUBSET CIK /\ Cardinality(AtRisk) \in Nat /\ Cardinality(AtRisk) <= BatchSize
<1>0. run \in Run /\ NoFile \notin CIK /\ run.batch \in SUBSET CIK /\ run.flush \in SUBSET CIK
  BY NoFileAssumption DEF TypeInv, TypeOK, Run
<1>1. AtRisk \in SUBSET CIK
  BY DEF AtRisk
<1>2. Cardinality(AtRisk) \in Nat /\ Cardinality(run.batch) \in Nat
  BY <1>0, <1>1, Smaller
<1>3. CASE run.step # 0
  <2>1. run.flush = {}
    BY <1>3 DEF TypeInv, Shape, Reading
  <2>2. AtRisk \subseteq run.batch \cup {run.file}
    BY <2>1 DEF AtRisk
  <2>3. Cardinality(AtRisk) <= Cardinality(run.batch) + 1
    BY <1>0, <1>1, <2>2, OneMore
  <2>4. Cardinality(run.batch) < BatchSize
    BY <1>3 DEF BatchInv
  <2> QED
    BY <1>1, <1>2, <2>3, <2>4, BulkBounds DEF BulkBounds
<1>4. CASE run.step = 0
  <2>1. AtRisk \subseteq run.batch \/ AtRisk \subseteq run.flush
    <3>1. CASE run.file = NoFile
      BY <1>0, <3>1 DEF AtRisk, TypeInv, Shape
    <3>2. CASE run.file # NoFile
      <4>1. run.stage = "facts" /\ run.file \in run.flush
        BY <1>4, <3>2 DEF TypeInv, Shape, Reading
      <4>2. run.batch = {}
        BY <4>1 DEF TypeInv, Shape
      <4> QED
        BY <4>1, <4>2 DEF AtRisk
    <3> QED
      BY <3>1, <3>2
  <2>2. Cardinality(AtRisk) <= Cardinality(run.batch) \/ Cardinality(AtRisk) <= Cardinality(run.flush)
    BY <1>0, <2>1, Smaller
  <2>3. Cardinality(run.flush) \in Nat
    BY <1>0, Smaller
  <2> QED
    BY <1>1, <1>2, <2>2, <2>3, BulkBounds DEF BulkBounds, BatchInv
<1> QED
  BY <1>3, <1>4

LEMMA AtMost ==
  ASSUME NEW S \in SUBSET CIK, NEW R \in SUBSET CIK, NEW T \in SUBSET (S \cup R)
  PROVE  Cardinality(T) <= Cardinality(S) + Cardinality(R)
<1>1. IsFiniteSet(S) /\ IsFiniteSet(R)
  BY FiniteArchive, FS_Subset DEF FiniteArchive
<1>2. /\ IsFiniteSet(S \cup R)
      /\ Cardinality(S \cup R) = Cardinality(S) + Cardinality(R) - Cardinality(S \cap R)
  BY <1>1, FS_Union
<1>3. Cardinality(S \cap R) \in Nat /\ Cardinality(S) \in Nat /\ Cardinality(R) \in Nat
  BY Smaller
<1>4. Cardinality(T) <= Cardinality(S \cup R) /\ Cardinality(T) \in Nat
  BY Smaller
<1> QED
  BY <1>2, <1>3, <1>4

AstraySet == {c \in CIK : Astray(c)}
Allowed == BatchSize * (crashes + raises) + unresolved

LostInv == BatchInv /\ Cardinality(AstraySet) <= Allowed

LEMMA InitLost == Init => LostInv
<1> SUFFICES ASSUME Init PROVE LostInv
  OBVIOUS
<1>1. ASSUME NEW c \in CIK PROVE ~Astray(c)
  <2>1. db.companies[c] = None /\ db.tags[c] = None /\ db.facts[c] = {} /\ db.std[c] = {}
    BY DEF Init, NoRows, NoParts
  <2>2. ~Writing(c) /\ ~Queued(c)
    BY DEF Init, Ended, Writing, Queued
  <2>3. Wanted(c) = {}
    BY <2>1, NothingWanted
  <2> QED
    BY <2>1, <2>2, <2>3 DEF Astray, Torn, Whole
<1>2. AstraySet = {}
  BY <1>1 DEF AstraySet
<1>3. Cardinality(AstraySet) = 0
  BY <1>2, FS_EmptySet
<1>4. Allowed = 0
  BY BulkBounds DEF BulkBounds, Init, Allowed
<1> QED
  BY <1>3, <1>4, InitBatch DEF LostInv

LEMMA NextLost ==
  TypeInv /\ CrashInv /\ ProcessedIsFresh /\ LostInv /\ [Next]_vars => LostInv'
<1> SUFFICES ASSUME TypeInv, CrashInv, ProcessedIsFresh, LostInv, [Next]_vars PROVE LostInv'
  OBVIOUS
<1> USE BulkBounds DEF BulkBounds
<1>0. BatchInv /\ BatchInv' /\ Cardinality(AstraySet) <= Allowed
  BY NextBatch DEF LostInv
<1>1. \A c \in CIK : Astray(c)' => Astray(c) \/ Excused(c)
  BY <1>0, AstrayStep DEF CrashInv
<1>2. crashes \in Nat /\ raises \in Nat /\ unresolved \in Nat
  BY DEF TypeInv, TypeOK
<1>3. AstraySet \in SUBSET CIK /\ AstraySet' \in SUBSET CIK
  BY DEF AstraySet
<1>4. Cardinality(AstraySet) \in Nat /\ Cardinality(AstraySet') \in Nat
  BY <1>3, Smaller
<1>5. raises <= MaxFailures
  <2>1. Cardinality(PrimedSet) \in Nat
    BY Smaller DEF PrimedSet
  <2>2. Cardinality(PrimedSet) + raises <= crashes /\ crashes + unresolved <= MaxFailures
    BY <1>0 DEF CrashInv, BatchInv
  <2> QED
    BY <1>2, <2>1, <2>2
<1>6. ASSUME NEW n \in Nat PROVE BatchSize * (n + 1) = BatchSize * n + BatchSize
  OBVIOUS
<1>7. Allowed \in Nat
  <2>1. BatchSize * (crashes + raises) \in Nat
    BY <1>2
  <2> QED
    BY <1>2, <2>1 DEF Allowed
<1>8. CASE Crash \/ Raise
  <2>1. AstraySet' \subseteq AstraySet \cup AtRisk
    <3>1. ASSUME NEW c \in CIK, Unresolved(c) PROVE FALSE
      <4>1. unresolved' = unresolved + 1
        BY <3>1 DEF Unresolved
      <4>2. unresolved' = unresolved
        BY <1>8 DEF Crash, Raise
      <4> QED
        BY <1>2, <4>1, <4>2
    <3> QED
      BY <1>1, <3>1 DEF AstraySet, Excused
  <2>2. Cardinality(AstraySet') <= Cardinality(AstraySet) + Cardinality(AtRisk)
    BY <1>3, <2>1, AtMost, RiskIsOneBatch, <1>0
  <2>3. Cardinality(AtRisk) \in Nat /\ Cardinality(AtRisk) <= BatchSize
    BY <1>0, RiskIsOneBatch
  <2>4. crashes' + raises' = crashes + raises + 1 /\ unresolved' = unresolved
    BY <1>2, <1>5, <1>8 DEF Crash, Raise
  <2>5. Allowed' = Allowed + BatchSize
    <3>1. BatchSize * (crashes + raises + 1) = BatchSize * (crashes + raises) + BatchSize
      BY <1>2, <1>6
    <3>2. BatchSize * (crashes + raises) \in Nat
      BY <1>2
    <3> QED
      BY <1>2, <2>4, <3>1, <3>2 DEF Allowed
  <2>6. Cardinality(AstraySet') <= Allowed'
    BY <1>0, <1>4, <1>7, <2>2, <2>3, <2>5
  <2> QED
    BY <1>0, <2>6 DEF LostInv
<1>9. ASSUME NEW c \in CIK, Unresolved(c), ~(Crash \/ Raise) PROVE LostInv'
  <2>1. \A d \in CIK : Unresolved(d) => d = c
    BY <1>9 DEF Unresolved, TypeInv, TypeOK, Run
  <2>2. AstraySet' \subseteq AstraySet \cup {c}
    BY <1>1, <1>9, <2>1 DEF AstraySet, Excused
  <2>3. Cardinality(AstraySet') <= Cardinality(AstraySet) + 1
    BY <1>3, <2>2, OneMore
  <2>4. crashes' = crashes /\ raises' = raises /\ unresolved' = unresolved + 1
    BY <1>9 DEF Unresolved
  <2>5. Allowed' = Allowed + 1
    <3>1. BatchSize * (crashes + raises) \in Nat
      BY <1>2
    <3> QED
      BY <1>2, <2>4, <3>1 DEF Allowed
  <2>6. Cardinality(AstraySet') <= Allowed'
    BY <1>0, <1>4, <1>7, <2>3, <2>5
  <2> QED
    BY <1>0, <2>6 DEF LostInv
<1>10. ASSUME ~(Crash \/ Raise), ~\E c \in CIK : Unresolved(c) PROVE LostInv'
  <2>1. AstraySet' \subseteq AstraySet
    BY <1>1, <1>10 DEF AstraySet, Excused
  <2>2. Cardinality(AstraySet') <= Cardinality(AstraySet)
    BY <1>3, <2>1, Smaller
  <2>3. crashes' = crashes /\ raises' = raises /\ unresolved' = unresolved
    BY <1>10 DEF Next, RunStep, vars, counters, FileFinancials, FileOther, StartRun,
       SkipFacts, OpenFacts, InsertStatements, SkipSubmissions, OpenSubmissions,
       Materialize, StoreFacts, LeaveEmpty, BeginFlush, InsertOtherStatements,
       RecomputeProcessed, StoreSubmissions, AfterSubmissions, AfterStatements
  <2>4. Allowed' = Allowed
    BY <2>3 DEF Allowed
  <2>5. Cardinality(AstraySet') <= Allowed'
    BY <1>0, <1>4, <1>7, <2>2, <2>4
  <2> QED
    BY <1>0, <2>5 DEF LostInv
<1> QED
  BY <1>8, <1>9, <1>10

\* A run that dies loses the standardized statements of at most one batch of
\* SEC_INGEST_BATCH companies, the one being read included, and a company that
\* does not resolve its own; what was lost before, or is torn, is paid for.
THEOREM BatchesAreAllThatIsLost == Spec => []LosesOneBatch
<1>1. TypeInv /\ LostInv => LosesOneBatch
  <2> SUFFICES ASSUME TypeInv, LostInv PROVE LosesOneBatch
    OBVIOUS
  <2>1. Lost \subseteq AstraySet /\ AstraySet \in SUBSET CIK
    BY DEF Lost, AstraySet, Astray, Writing, Queued
  <2>2. /\ Cardinality(Lost) <= Cardinality(AstraySet)
        /\ Cardinality(Lost) \in Nat /\ Cardinality(AstraySet) \in Nat
    BY <2>1, Smaller
  <2>3. Allowed \in Nat
    <3>1. crashes + raises \in Nat /\ unresolved \in Nat /\ BatchSize \in Nat
      BY BulkBounds DEF BulkBounds, TypeInv, TypeOK
    <3>2. BatchSize * (crashes + raises) \in Nat
      BY <3>1
    <3> QED
      BY <3>1, <3>2 DEF Allowed
  <2>4. Cardinality(Lost) <= Allowed
    BY <2>2, <2>3 DEF LostInv
  <2> QED
    BY <2>4 DEF LosesOneBatch, Allowed
<1>2. Init => TypeInv /\ CrashInv /\ ProcessedIsFresh /\ LostInv
  BY InitTypeInv, InitCrashInv, ProcessedInit, InitLost
<1>3. TypeInv /\ CrashInv /\ ProcessedIsFresh /\ LostInv /\ [Next]_vars
        => TypeInv' /\ CrashInv' /\ ProcessedIsFresh' /\ LostInv'
  BY NextTypeInv, NextCrashInv, ProcessedNext, NextLost
<1> QED
  BY <1>1, <1>2, <1>3, PTL DEF Spec
=============================================================================
