------------------------- MODULE DeltaUpdateProofs -------------------------
(* Machine-checked proofs about DeltaUpdate, for any companies, processes,  *)
(* versions, limits and number of failures.                                 *)
EXTENDS DeltaUpdate, FiniteSetTheorems, TLAPS

-----------------------------------------------------------------------------
(* What the statements do to the tables.                                    *)

LEMMA TableOps ==
    ASSUME NEW t \in Table, NEW C \in SUBSET CIK, NEW from \in Table
    PROVE  Deleted(t, C) \in Table /\ Inserted(t, C, from) \in Table
BY BoundsAssumption DEF Table, Deleted, Inserted, MaybeVersion, None

LEMMA ConstantTypes ==
    /\ NoRows \in Table /\ EmptyDb \in Db /\ IdleJob \in Job /\ NoTx \in Tx
<1>1. NoRows \in Table
  BY BoundsAssumption DEF NoRows, Table, MaybeVersion, None
<1>2. EmptyDb \in Db
  BY <1>1 DEF EmptyDb, Db
<1>3. IdleJob \in Job
  BY <1>1 DEF IdleJob, Job
<1>4. NoTx \in Tx
  BY <1>2 DEF NoTx, Tx
<1> QED
  BY <1>1, <1>2, <1>3, <1>4

LEMMA SubsStatementType ==
    ASSUME NEW d \in Db, NEW C \in SUBSET CIK, NEW from \in Table, NEW n \in 1..4
    PROVE  SubsStatement(d, C, from, n) \in Db
<1>1. CASE n = 1
  BY <1>1, TableOps DEF SubsStatement, Db
<1>2. CASE n = 2
  <2>1. Deleted(d.deiFacts, C) \in Table /\ Deleted(d.deiSubs, C) \in Table
    BY TableOps DEF Db
  <2>2. [d EXCEPT !.deiFacts = Deleted(@, C), !.deiSubs = Deleted(@, C)] \in Db
    BY <2>1 DEF Db
  <2> QED
    BY <1>2, <2>2 DEF SubsStatement
<1>3. CASE n = 3
  BY <1>3, TableOps DEF SubsStatement, Db
<1>4. CASE n = 4
  BY <1>4, TableOps DEF SubsStatement, Db
<1> QED
  BY <1>1, <1>2, <1>3, <1>4

LEMMA FactsStatementType ==
    ASSUME NEW d \in Db, NEW C \in SUBSET CIK, NEW from \in Table,
           NEW cache, NEW n \in 1..6,
           \A c \in C : from[c] # None
    PROVE  FactsStatement(d, C, from, cache, n) \in Db
<1>0. {from[c] : c \in C} \subseteq Version
  BY BoundsAssumption DEF Table, MaybeVersion, Version, None
<1>1. CASE n = 1
  BY <1>1, TableOps DEF FactsStatement, Db
<1>2. CASE n = 2
  BY <1>2, TableOps DEF FactsStatement, Db
<1>3. CASE n = 3
  <2>1. /\ Deleted(d.rows, C) \in Table
        /\ Deleted(d.deiFacts, C) \in Table
        /\ Deleted(d.deiSubs, C) \in Table
    BY TableOps DEF Db
  <2>2. [d EXCEPT !.rows = Deleted(@, C), !.deiFacts = Deleted(@, C),
                  !.deiSubs = Deleted(@, C)] \in Db
    BY <2>1 DEF Db
  <2> QED
    BY <1>3, <2>2 DEF FactsStatement
<1>4. CASE n = 4
  BY <1>4, TableOps DEF FactsStatement, Db
<1>5. CASE n = 5
  <2>1. WithIds(d, C, from, cache) \in Db
    BY <1>0 DEF WithIds, Db
  <2> QED
    BY <1>5, <2>1, TableOps DEF FactsStatement, Db, WithIds
<1>6. CASE n = 6
  <2>1. Inserted(d.rows, C, from) \in Table /\ Inserted(d.deiFacts, C, from) \in Table
    BY TableOps DEF Db
  <2>2. [d EXCEPT !.rows = Inserted(@, C, from), !.deiFacts = Inserted(@, C, from)] \in Db
    BY <2>1 DEF Db
  <2> QED
    BY <1>6, <2>2 DEF FactsStatement
<1> QED
  BY <1>1, <1>2, <1>3, <1>4, <1>5, <1>6

LEMMA DerivedStatementType ==
    ASSUME NEW d \in Db, NEW C \in SUBSET CIK, NEW n \in 1..2
    PROVE  ProcessedStatement(d, C, n) \in Db /\ StdStatement(d, C, n) \in Db
<1>1. CASE n = 1
  BY <1>1, TableOps DEF ProcessedStatement, StdStatement, Db
<1>2. CASE n = 2
  BY <1>2, TableOps DEF ProcessedStatement, StdStatement, Db
<1> QED
  BY <1>1, <1>2

-----------------------------------------------------------------------------
(* Types.  TypeOK is not inductive by itself: that the tags a facts         *)
(* transaction inserts are those of a document, never of None, depends on   *)
(* the scan having kept only companies the archive has, on transactions     *)
(* working on companies still to do, and on a closed connection being reset.*)

LEMMA StatementsOfPhase ==
    /\ DOMAIN Statements = {"subs", "facts", "processed", "std"}
    /\ Statements["subs"] = 4 /\ Statements["facts"] = 6
    /\ Statements["processed"] = 2 /\ Statements["std"] = 2
    /\ \A k \in DOMAIN Statements : Statements[k] \in 2..6
BY DEF Statements

ConnectionOK(p) ==
    \/ tx[p] = NoTx
    \/ /\ tx[p].open
       /\ pc[p] \in DOMAIN Statements
       /\ tx[p].ciks \subseteq job[p].todo
       /\ tx[p].step <= Statements[pc[p]]

ScopeOK(p) == pc[p] = "facts" => \A c \in job[p].todo : job[p].factsZip[c] # None

TypeInv == TypeOK /\ \A p \in Proc : ConnectionOK(p) /\ ScopeOK(p)

LEMMA InitTypeInv == Init => TypeInv
<1> SUFFICES ASSUME Init PROVE TypeInv
  OBVIOUS
<1>0. [c \in CIK |-> 1] \in Table
  BY BoundsAssumption DEF Table, MaybeVersion
<1>1. \A S \in SUBSET CIK : Inserted(NoRows, S, [c \in CIK |-> 1]) \in Table
  BY <1>0, TableOps, ConstantTypes
<1>2. archive \in [facts: Table, subs: Table]
  BY <1>0, <1>1 DEF Init
<1>3. db \in Db
  <2>1. PICK F \in SUBSET CIK : \E C \in SUBSET F : db = Loaded(C)
    BY DEF Init
  <2>2. PICK C \in SUBSET CIK : db = Loaded(C)
    BY <2>1
  <2>3. {1 : c \in C} \subseteq Version
    BY BoundsAssumption DEF Version
  <2> QED
    BY <1>1, <2>2, <2>3 DEF Loaded, Db
<1>4. TypeOK
  BY <1>2, <1>3, ConstantTypes, BoundsAssumption DEF Init, TypeOK, Phases
<1> QED
  BY <1>4 DEF Init, TypeInv, ConnectionOK, ScopeOK

\* An action that only moves p to another phase, with a typed job and no
\* open transaction.
LEMMA GotoTypeInv ==
    ASSUME TypeInv, NEW p \in Proc, NEW phase \in Phases, NEW j \in Job,
           Goto(p, phase, j), lock' \in Proc \cup {NoProc},
           tx[p] = NoTx,
           phase = "facts" => \A c \in j.todo : j.factsZip[c] # None,
           UNCHANGED <<archive, db, tx, idCache, faults>>
    PROVE  TypeInv'
<1>1. TypeOK'
  BY DEF TypeInv, TypeOK, Goto
<1>2. \A q \in Proc : ConnectionOK(q)' /\ ScopeOK(q)'
  <2> TAKE q \in Proc
  <2>1. CASE q = p
    BY <2>1 DEF TypeInv, TypeOK, Goto, ConnectionOK, ScopeOK
  <2>2. CASE q # p
    BY <2>2 DEF TypeInv, TypeOK, Goto, ConnectionOK, ScopeOK
  <2> QED
    BY <2>1, <2>2
<1> QED
  BY <1>1, <1>2 DEF TypeInv

\* The end of a run, whatever its cause.
LEMMA EndTypeInv ==
    ASSUME TypeInv, NEW p \in Proc, End(p), db' \in Db, faults' \in 0..MaxFaults
    PROVE  TypeInv'
<1>1. TypeOK'
  BY ConstantTypes DEF TypeInv, TypeOK, End, Goto, Phases
<1>2. \A q \in Proc : ConnectionOK(q)' /\ ScopeOK(q)'
  <2> TAKE q \in Proc
  <2>1. CASE q = p
    BY <2>1 DEF TypeInv, TypeOK, End, Goto, ConnectionOK, ScopeOK
  <2>2. CASE q # p
    BY <2>2 DEF TypeInv, TypeOK, End, Goto, ConnectionOK, ScopeOK
  <2> QED
    BY <2>1, <2>2
<1> QED
  BY <1>1, <1>2 DEF TypeInv

LEMMA FilingTypeInv ==
    ASSUME TypeInv, NEW c \in CIK, FileFinancials(c) \/ FileOther(c)
    PROVE  TypeInv'
<1>1. archive' \in [facts: Table, subs: Table]
  <2>0. archive \in [facts: Table, subs: Table]
    BY DEF TypeInv, TypeOK
  <2>1. CASE FileFinancials(c)
    <3>1. /\ [archive.facts EXCEPT ![c] = @ + 1] \in Table
          /\ [archive.subs EXCEPT ![c] = @ + 1] \in Table
      BY <2>0, <2>1, BoundsAssumption DEF FileFinancials, Table, MaybeVersion
    <3>2. archive' = [facts |-> [archive.facts EXCEPT ![c] = @ + 1],
                      subs |-> [archive.subs EXCEPT ![c] = @ + 1]]
      BY <2>0, <2>1 DEF FileFinancials
    <3> QED
      BY <3>1, <3>2
  <2>2. CASE FileOther(c)
    <3>1. [archive.subs EXCEPT ![c] = @ + 1] \in Table
      BY <2>0, <2>2, BoundsAssumption DEF FileOther, Table, MaybeVersion
    <3>2. archive' = [facts |-> archive.facts, subs |-> [archive.subs EXCEPT ![c] = @ + 1]]
      BY <2>0, <2>2 DEF FileOther
    <3> QED
      BY <2>0, <3>1, <3>2
  <2> QED
    BY <2>1, <2>2
<1>2. UNCHANGED <<db, lock, pc, job, tx, idCache, faults>>
  BY DEF FileFinancials, FileOther
<1> QED
  BY <1>1, <1>2 DEF TypeInv, TypeOK, ConnectionOK, ScopeOK

\* A connection without transaction has nothing left over of the last one.
LEMMA ClosedConnection ==
    ASSUME TypeInv, NEW p \in Proc,
           pc[p] \notin DOMAIN Statements \/ ~tx[p].open
    PROVE  tx[p] = NoTx
BY DEF TypeInv, ConnectionOK

LEMMA BeginTypeInv ==
    ASSUME TypeInv, NEW p \in Proc, Begin(p)
    PROVE  TypeInv'
<1>1. PICK C : /\ C \in Batches(p)
               /\ tx' = [tx EXCEPT ![p] = [open |-> TRUE, ciks |-> C, step |-> 0, work |-> db]]
  BY DEF Begin
<1>2. UNCHANGED <<archive, db, lock, pc, job, idCache, faults>>
  BY DEF Begin
<1>3. C \subseteq job[p].todo /\ job[p].todo \subseteq CIK
  BY <1>1 DEF Batches, TypeInv, TypeOK, Job
<1>4. [open |-> TRUE, ciks |-> C, step |-> 0, work |-> db] \in Tx
  BY <1>3 DEF Tx, TypeInv, TypeOK
<1>5. TypeOK'
  BY <1>1, <1>2, <1>4 DEF TypeInv, TypeOK
<1>6. \A q \in Proc : ConnectionOK(q)' /\ ScopeOK(q)'
  <2> TAKE q \in Proc
  <2>1. CASE q = p
    <3>1. tx'[q] = [open |-> TRUE, ciks |-> C, step |-> 0, work |-> db]
      BY <1>1, <2>1 DEF TypeInv, TypeOK
    <3>2. pc[q] \in DOMAIN Statements /\ 0 <= Statements[pc[q]]
      BY <2>1, StatementsOfPhase DEF Begin
    <3> QED
      BY <1>2, <1>3, <2>1, <3>1, <3>2 DEF ConnectionOK, ScopeOK, TypeInv
  <2>2. CASE q # p
    <3>1. tx'[q] = tx[q]
      BY <1>1, <2>2 DEF TypeInv, TypeOK
    <3> QED
      BY <1>2, <3>1 DEF ConnectionOK, ScopeOK, TypeInv
  <2> QED
    BY <2>1, <2>2
<1> QED
  BY <1>5, <1>6 DEF TypeInv

\* What a statement of process p does, whichever its kind: it works on the
\* open transaction, leaves the committed tables alone and keeps types.
LEMMA StatementEffect ==
    ASSUME TypeInv, NEW p \in Proc, Statement(p)
    PROVE  \E work \in Db :
             /\ tx' = [tx EXCEPT ![p].step = @ + 1, ![p].work = work]
             /\ db' = db
             /\ idCache' \in [Proc -> SUBSET Version]
             /\ tx[p].open
             /\ tx[p].step + 1 \in 1..Statements[pc[p]]
<1> DEFINE n == tx[p].step + 1
           d == tx[p].work
           C == tx[p].ciks
<1>1. /\ tx[p] \in Tx /\ job[p] \in Job
      /\ tx[p].step < Statements[pc[p]] /\ tx[p].ciks # {}
      /\ pc[p] \in DOMAIN Statements
  BY DEF Statement, TypeInv, TypeOK
<1>2. tx[p].open /\ C \subseteq job[p].todo
  BY <1>1 DEF TypeInv, ConnectionOK, NoTx
<1>3. d \in Db /\ C \in SUBSET CIK
  BY <1>1 DEF Tx
<1>4. n \in 1..Statements[pc[p]]
  BY <1>1, StatementsOfPhase DEF Tx
<1>5. \A w : Execute(p, w) => /\ db' = db
                             /\ tx' = [tx EXCEPT ![p].step = @ + 1, ![p].work = w]
  BY <1>2 DEF Execute
<1>6. idCache \in [Proc -> SUBSET Version]
  BY DEF TypeInv, TypeOK
<1>7. CASE pc[p] = "subs"
  <2>1. SubsStatement(d, C, job[p].subsZip, n) \in Db
    BY <1>1, <1>3, <1>4, <1>7, SubsStatementType, StatementsOfPhase DEF Job
  <2>2. Execute(p, SubsStatement(d, C, job[p].subsZip, n)) /\ UNCHANGED idCache
    BY <1>7 DEF Statement
  <2> QED
    BY <1>2, <1>4, <1>5, <1>6, <2>1, <2>2
<1>8. CASE pc[p] = "facts"
  <2>0. \A c \in C : job[p].factsZip[c] # None
    BY <1>2, <1>8 DEF TypeInv, ScopeOK
  <2>1. FactsStatement(d, C, job[p].factsZip, idCache[p], n) \in Db
    BY <1>1, <1>3, <1>4, <1>8, <2>0, FactsStatementType, StatementsOfPhase DEF Job
  <2>2. Execute(p, FactsStatement(d, C, job[p].factsZip, idCache[p], n))
    BY <1>8 DEF Statement
  <2>3. {job[p].factsZip[c] : c \in C} \subseteq Version
    BY <1>1, <1>3, <2>0, BoundsAssumption DEF Job, Table, MaybeVersion, Version, None
  <2>4. idCache' = IF n = 5
                   THEN [idCache EXCEPT ![p] = @ \cup {job[p].factsZip[c] : c \in C}]
                   ELSE idCache
    BY <1>8 DEF Statement
  <2>5. idCache' \in [Proc -> SUBSET Version]
    BY <1>6, <2>3, <2>4
  <2> QED
    BY <1>2, <1>4, <1>5, <2>1, <2>2, <2>5
<1>9. CASE pc[p] = "processed"
  <2>1. ProcessedStatement(d, C, n) \in Db
    BY <1>3, <1>4, <1>9, DerivedStatementType, StatementsOfPhase
  <2>2. Execute(p, ProcessedStatement(d, C, n)) /\ UNCHANGED idCache
    BY <1>9 DEF Statement
  <2> QED
    BY <1>2, <1>4, <1>5, <1>6, <2>1, <2>2
<1>10. CASE pc[p] = "std"
  <2>1. StdStatement(d, C, n) \in Db
    BY <1>3, <1>4, <1>10, DerivedStatementType, StatementsOfPhase
  <2>2. Execute(p, StdStatement(d, C, n)) /\ UNCHANGED idCache
    BY <1>10 DEF Statement
  <2> QED
    BY <1>2, <1>4, <1>5, <1>6, <2>1, <2>2
<1> QED
  BY <1>1, <1>7, <1>8, <1>9, <1>10, StatementsOfPhase

LEMMA StatementTypeInv ==
    ASSUME TypeInv, NEW p \in Proc, Statement(p)
    PROVE  TypeInv'
<1>1. PICK work \in Db :
        /\ tx' = [tx EXCEPT ![p].step = @ + 1, ![p].work = work]
        /\ db' = db
        /\ idCache' \in [Proc -> SUBSET Version]
        /\ tx[p].open
        /\ tx[p].step + 1 \in 1..Statements[pc[p]]
  BY StatementEffect
<1>2. UNCHANGED <<archive, lock, pc, job, faults>>
  BY DEF Statement
<1>3. tx[p] \in Tx /\ pc[p] \in DOMAIN Statements
  BY DEF TypeInv, TypeOK, Statement
<1>4. tx'[p] = [open |-> tx[p].open, ciks |-> tx[p].ciks, step |-> tx[p].step + 1, work |-> work]
  BY <1>1, <1>3 DEF TypeInv, TypeOK, Tx
<1>5. tx'[p] \in Tx
  <2>1. tx[p].step + 1 \in 0..6
    BY <1>1, <1>3, StatementsOfPhase DEF Tx
  <2> QED
    BY <1>3, <1>4, <2>1 DEF Tx
<1>6. \A q \in Proc : q # p => tx'[q] = tx[q]
  BY <1>1 DEF TypeInv, TypeOK
<1>7. tx' \in [Proc -> Tx]
  BY <1>1, <1>5 DEF TypeInv, TypeOK
<1>8. TypeOK'
  BY <1>1, <1>2, <1>7 DEF TypeInv, TypeOK
<1>9. \A q \in Proc : ConnectionOK(q)' /\ ScopeOK(q)'
  <2> TAKE q \in Proc
  <2>1. CASE q = p
    <3>1. tx[p].ciks \subseteq job[p].todo
      BY <1>1 DEF TypeInv, ConnectionOK, NoTx
    <3>2. /\ tx'[p].open /\ tx'[p].ciks = tx[p].ciks
          /\ tx'[p].step <= Statements[pc[p]]
      BY <1>1, <1>4, <1>3, StatementsOfPhase
    <3>3. ConnectionOK(p)'
      BY <1>2, <1>3, <3>1, <3>2 DEF ConnectionOK
    <3> QED
      BY <1>2, <2>1, <3>3 DEF ScopeOK, TypeInv
  <2>2. CASE q # p
    BY <1>2, <1>6, <2>2 DEF ConnectionOK, ScopeOK, TypeInv
  <2> QED
    BY <2>1, <2>2
<1> QED
  BY <1>8, <1>9 DEF TypeInv

LEMMA CommitTypeInv ==
    ASSUME TypeInv, NEW p \in Proc, Commit(p)
    PROVE  TypeInv'
<1>1. /\ tx[p] \in Tx /\ job[p] \in Job /\ job \in [Proc -> Job]
  BY DEF TypeInv, TypeOK
<1>2. /\ db' = tx[p].work
      /\ tx' = [tx EXCEPT ![p] = NoTx]
      /\ job' = [job EXCEPT ![p].todo = @ \ tx[p].ciks]
      /\ UNCHANGED <<archive, lock, pc, idCache, faults>>
  BY DEF Commit
<1>3. /\ job'[p] = [job[p] EXCEPT !.todo = @ \ tx[p].ciks]
      /\ \A q \in Proc : q # p => job'[q] = job[q]
  BY <1>1, <1>2
<1>4. job'[p] \in Job
  BY <1>1, <1>3 DEF Job
<1>5. job' \in [Proc -> Job]
  BY <1>1, <1>2, <1>4
<1>6. TypeOK'
  BY <1>1, <1>2, <1>5, ConstantTypes DEF TypeInv, TypeOK, Tx
<1>7. \A q \in Proc : ConnectionOK(q)' /\ ScopeOK(q)'
  <2> TAKE q \in Proc
  <2>1. CASE q = p
    <3>1. tx'[p] = NoTx
      BY <1>2 DEF TypeInv, TypeOK
    <3>2. job'[p].todo \subseteq job[p].todo /\ job'[p].factsZip = job[p].factsZip
      BY <1>1, <1>3 DEF Job
    <3> QED
      BY <1>2, <2>1, <3>1, <3>2 DEF ConnectionOK, ScopeOK, TypeInv
  <2>2. CASE q # p
    BY <1>2, <1>3, <2>2 DEF ConnectionOK, ScopeOK, TypeInv, TypeOK
  <2> QED
    BY <2>1, <2>2
<1> QED
  BY <1>6, <1>7 DEF TypeInv

LEMMA SkipTypeInv ==
    ASSUME TypeInv, NEW p \in Proc, SkipUnresolved(p)
    PROVE  TypeInv'
<1>1. PICK c \in job[p].todo : job' = [job EXCEPT ![p].todo = @ \ {c}]
  BY DEF SkipUnresolved
<1>2. UNCHANGED <<archive, db, lock, pc, tx, idCache>> /\ faults' \in 0..MaxFaults
  BY BoundsAssumption DEF SkipUnresolved, TypeInv, TypeOK
<1>3. tx[p] = NoTx
  BY ClosedConnection DEF SkipUnresolved
<1>4. job[p] \in Job /\ job \in [Proc -> Job]
  BY DEF TypeInv, TypeOK
<1>5. [job[p] EXCEPT !.todo = @ \ {c}] \in Job
  BY <1>4 DEF Job
<1>6. job' \in [Proc -> Job]
  BY <1>1, <1>4, <1>5
<1>7. TypeOK'
  BY <1>2, <1>6 DEF TypeInv, TypeOK
<1>8. \A q \in Proc : ConnectionOK(q)' /\ ScopeOK(q)'
  <2> TAKE q \in Proc
  <2>1. CASE q = p
    BY <1>2, <1>3, <2>1 DEF ConnectionOK, ScopeOK, SkipUnresolved
  <2>2. CASE q # p
    <3>1. job'[q] = job[q]
      BY <1>1, <1>4, <2>2
    <3> QED
      BY <1>2, <3>1 DEF ConnectionOK, ScopeOK, TypeInv
  <2> QED
    BY <2>1, <2>2
<1> QED
  BY <1>7, <1>8 DEF TypeInv

LEMMA PhaseTypeInv ==
    ASSUME TypeInv, NEW p \in Proc,
           \/ Start(p) \/ DownloadFacts(p) \/ ScanSubmissions(p)
           \/ ScanFacts(p) \/ AfterFacts(p) \/ AfterProcessed(p)
    PROVE  TypeInv'
<1>1. job[p] \in Job /\ archive \in [facts: Table, subs: Table] /\ db \in Db
  BY DEF TypeInv, TypeOK
<1>2. lock \in Proc \cup {NoProc}
  BY DEF TypeInv, TypeOK
<1>3. CASE Start(p)
  <2>1. PICK skip \in SkipModes, large \in LargeModes :
          Goto(p, "locked", [IdleJob EXCEPT !.skip = skip, !.large = large])
    BY <1>3 DEF Start
  <2>2. [IdleJob EXCEPT !.skip = skip, !.large = large] \in Job
    BY ConstantTypes, ModesAssumption DEF Job
  <2>3. tx[p] = NoTx
    BY <1>3, ClosedConnection, StatementsOfPhase DEF Start
  <2> QED
    BY <1>3, <2>1, <2>2, <2>3, GotoTypeInv DEF Start, Phases
<1>4. CASE DownloadFacts(p)
  <2>1. [job[p] EXCEPT !.factsZip = archive.facts, !.universe = db.processed] \in Job
    BY <1>1 DEF Job, Db
  <2>2. tx[p] = NoTx
    BY <1>4, ClosedConnection, StatementsOfPhase DEF DownloadFacts
  <2> QED
    BY <1>2, <1>4, <2>1, <2>2, GotoTypeInv DEF DownloadFacts, Phases
<1>5. CASE ScanSubmissions(p)
  <2>0. ChangedSubs(p) \subseteq CIK
    BY <1>1 DEF ChangedSubs, Job
  <2>1. [job[p] EXCEPT !.subsZip = archive.subs, !.changedSubs = ChangedSubs(p),
                       !.todo = ChangedSubs(p)] \in Job
    BY <1>1, <2>0 DEF Job
  <2>2. tx[p] = NoTx
    BY <1>5, ClosedConnection, StatementsOfPhase DEF ScanSubmissions
  <2> QED
    BY <1>2, <1>5, <2>1, <2>2, GotoTypeInv DEF ScanSubmissions, Phases
<1>6. CASE ScanFacts(p)
  <2>0. ChangedFacts(p) \subseteq CIK /\ \A c \in ChangedFacts(p) : job[p].factsZip[c] # None
    BY <1>1 DEF ChangedFacts, FactsScope, Job
  <2> DEFINE j == [job[p] EXCEPT !.changedFacts = ChangedFacts(p), !.todo = ChangedFacts(p)]
  <2>1. j \in Job
    BY <1>1, <2>0 DEF Job
  <2>2. j.todo = ChangedFacts(p) /\ j.factsZip = job[p].factsZip
    BY <1>1 DEF Job
  <2>3. tx[p] = NoTx
    BY <1>6, ClosedConnection, StatementsOfPhase DEF ScanFacts
  <2>4. Goto(p, "facts", j) /\ UNCHANGED <<archive, db, lock, tx, idCache, faults>>
    BY <1>6 DEF ScanFacts
  <2> HIDE DEF j
  <2> QED
    BY <1>2, <2>0, <2>1, <2>2, <2>3, <2>4, GotoTypeInv DEF Phases
<1>7. CASE AfterFacts(p)
  <2>1. [job[p] EXCEPT !.todo = job[p].changedFacts] \in Job
    BY <1>1 DEF Job
  <2>2. tx[p] = NoTx
    BY <1>7, ClosedConnection DEF AfterFacts
  <2> QED
    BY <1>2, <1>7, <2>1, <2>2, GotoTypeInv DEF AfterFacts, Phases
<1>8. CASE AfterProcessed(p)
  <2>1. [job[p] EXCEPT !.todo = job[p].changedFacts] \in Job
    BY <1>1 DEF Job
  <2>2. tx[p] = NoTx
    BY <1>8, ClosedConnection DEF AfterProcessed
  <2> QED
    BY <1>2, <1>8, <2>1, <2>2, GotoTypeInv DEF AfterProcessed, Phases
<1> QED
  BY <1>3, <1>4, <1>5, <1>6, <1>7, <1>8

LEMMA NextTypeInv == TypeInv /\ [Next]_vars => TypeInv'
<1> SUFFICES ASSUME TypeInv, [Next]_vars PROVE TypeInv'
  OBVIOUS
<1>1. ASSUME NEW c \in CIK, FileFinancials(c) \/ FileOther(c) PROVE TypeInv'
  BY <1>1, FilingTypeInv
<1>2. ASSUME NEW p \in Proc, Start(p) PROVE TypeInv'
  BY <1>2, PhaseTypeInv
<1>3. ASSUME NEW p \in Proc, UpdateStep(p) PROVE TypeInv'
  <2>1. CASE SafetyStop(p) \/ Finish(p)
    BY <2>1, EndTypeInv DEF SafetyStop, Finish, TypeInv, TypeOK
  <2> QED
    BY <1>3, <2>1, PhaseTypeInv, BeginTypeInv, StatementTypeInv, CommitTypeInv DEF UpdateStep
<1>4. ASSUME NEW p \in Proc, SkipUnresolved(p) PROVE TypeInv'
  BY <1>4, SkipTypeInv
<1>5. ASSUME NEW p \in Proc, Abort(p) \/ Interrupt(p) PROVE TypeInv'
  <2>1. faults' \in 0..MaxFaults
    BY <1>5, BoundsAssumption DEF Abort, Interrupt, TypeInv, TypeOK
  <2>2. db' \in Db
    BY <1>5 DEF Abort, Interrupt, TypeInv, TypeOK, Tx
  <2> QED
    BY <1>5, <2>1, <2>2, EndTypeInv DEF Abort, Interrupt
<1>6. CASE UNCHANGED vars
  BY <1>6 DEF vars, TypeInv, TypeOK, ConnectionOK, ScopeOK
<1> QED
  BY <1>1, <1>2, <1>3, <1>4, <1>5, <1>6 DEF Next

\* The state of an update keeps its types: tables hold published versions,
\* a transaction works on companies the run still has to do, a process
\* remembers ids of tags that documents use.
THEOREM TypeCorrect == Spec => []TypeOK
<1>1. TypeInv => TypeOK
  BY DEF TypeInv
<1> QED
  BY InitTypeInv, NextTypeInv, <1>1, PTL DEF Spec

-----------------------------------------------------------------------------
(* What one statement does to the tables the facts invariants speak of.     *)

LEMMA FactsStatementTables ==
    ASSUME NEW d \in Db, NEW C, NEW from, NEW cache, NEW n \in 1..6,
           NEW w, w = FactsStatement(d, C, from, cache, n)
    PROVE  /\ w.companies = IF n = 1 THEN Deleted(d.companies, C)
                            ELSE IF n = 4 THEN Inserted(d.companies, C, from) ELSE d.companies
           /\ w.tags = IF n = 2 THEN Deleted(d.tags, C)
                       ELSE IF n = 5 THEN Inserted(d.tags, C, from) ELSE d.tags
           /\ w.rows = IF n = 3 THEN Deleted(d.rows, C)
                       ELSE IF n = 6 THEN Inserted(d.rows, C, from) ELSE d.rows
           /\ d.dims \subseteq w.dims
           /\ n = 5 => \A c \in C : from[c] \in w.dims \cup cache
<1>1. CASE n = 1
  BY <1>1 DEF FactsStatement, Db
<1>2. CASE n = 2
  BY <1>2 DEF FactsStatement, Db
<1>3. CASE n = 3
  <2> DEFINE e == [d EXCEPT !.rows = Deleted(@, C), !.deiFacts = Deleted(@, C),
                           !.deiSubs = Deleted(@, C)]
  <2>1. FactsStatement(d, C, from, cache, n) = e
    BY <1>3 DEF FactsStatement
  <2>2. /\ e.companies = d.companies
        /\ e.tags = d.tags
        /\ e.rows = Deleted(d.rows, C)
        /\ e.dims = d.dims
    BY DEF Db
  <2> HIDE DEF e
  <2> QED
    BY <1>3, <2>1, <2>2
<1>4. CASE n = 4
  BY <1>4 DEF FactsStatement, Db
<1>5. CASE n = 5
  <2> DEFINE e == [[d EXCEPT !.dims = @ \cup ({from[c] : c \in C} \ cache)]
                   EXCEPT !.tags = Inserted(@, C, from)]
  <2>1. FactsStatement(d, C, from, cache, n) = e
    BY <1>5 DEF FactsStatement, WithIds
  <2>2. /\ e.companies = d.companies
        /\ e.tags = Inserted(d.tags, C, from)
        /\ e.rows = d.rows
        /\ e.dims = d.dims \cup ({from[c] : c \in C} \ cache)
    BY DEF Db
  <2> HIDE DEF e
  <2> QED
    BY <1>5, <2>1, <2>2
<1>6. CASE n = 6
  <2> DEFINE e == [d EXCEPT !.rows = Inserted(@, C, from), !.deiFacts = Inserted(@, C, from)]
  <2>1. FactsStatement(d, C, from, cache, n) = e
    BY <1>6 DEF FactsStatement
  <2>2. /\ e.companies = d.companies
        /\ e.tags = d.tags
        /\ e.rows = Inserted(d.rows, C, from)
        /\ e.dims = d.dims
    BY DEF Db
  <2> HIDE DEF e
  <2> QED
    BY <1>6, <2>1, <2>2
<1> QED
  BY <1>1, <1>2, <1>3, <1>4, <1>5, <1>6

SameFacts(w, d) == /\ w.companies = d.companies /\ w.tags = d.tags
                   /\ w.rows = d.rows /\ w.dims = d.dims

LEMMA OtherStatementTables ==
    ASSUME NEW d \in Db, NEW C, NEW from
    PROVE  /\ \A n \in 1..4 : SameFacts(SubsStatement(d, C, from, n), d)
           /\ \A n \in 1..2 : SameFacts(ProcessedStatement(d, C, n), d)
           /\ \A n \in 1..2 : SameFacts(StdStatement(d, C, n), d)
<1>1. ASSUME NEW n \in 1..4 PROVE SameFacts(SubsStatement(d, C, from, n), d)
  <2>1. CASE n = 1
    BY <2>1 DEF SubsStatement, SameFacts, Db
  <2>2. CASE n = 2
    BY <2>2 DEF SubsStatement, SameFacts, Db
  <2>3. CASE n = 3
    BY <2>3 DEF SubsStatement, SameFacts, Db
  <2>4. CASE n = 4
    BY <2>4 DEF SubsStatement, SameFacts, Db
  <2> QED
    BY <2>1, <2>2, <2>3, <2>4
<1>2. ASSUME NEW n \in 1..2 PROVE SameFacts(ProcessedStatement(d, C, n), d)
  <2>1. CASE n = 1
    BY <2>1 DEF ProcessedStatement, SameFacts, Db
  <2>2. CASE n = 2
    BY <2>2 DEF ProcessedStatement, SameFacts, Db
  <2> QED
    BY <2>1, <2>2
<1>3. ASSUME NEW n \in 1..2 PROVE SameFacts(StdStatement(d, C, n), d)
  <2>1. CASE n = 1
    BY <2>1 DEF StdStatement, SameFacts, Db
  <2>2. CASE n = 2
    BY <2>2 DEF StdStatement, SameFacts, Db
  <2> QED
    BY <2>1, <2>2
<1> QED
  BY <1>1, <1>2, <1>3

LEMMA StatementWork ==
    ASSUME TypeInv, NEW p \in Proc, Statement(p)
    PROVE  /\ tx[p].open /\ db' = db
           /\ tx[p].step + 1 \in 1..Statements[pc[p]]
           /\ tx'[p].open /\ tx'[p].ciks = tx[p].ciks /\ tx'[p].step = tx[p].step + 1
           /\ \A q \in Proc : q # p => tx'[q] = tx[q]
           /\ pc[p] # "facts" => SameFacts(tx'[p].work, tx[p].work) /\ idCache' = idCache
           /\ pc[p] = "facts" =>
                /\ tx'[p].work = FactsStatement(tx[p].work, tx[p].ciks, job[p].factsZip,
                                                idCache[p], tx[p].step + 1)
                /\ idCache' = IF tx[p].step + 1 = 5
                              THEN [idCache EXCEPT ![p] = @ \cup {job[p].factsZip[c] : c \in tx[p].ciks}]
                              ELSE idCache
<1> DEFINE n == tx[p].step + 1
           d == tx[p].work
           C == tx[p].ciks
<1>1. PICK work \in Db :
        /\ tx' = [tx EXCEPT ![p].step = @ + 1, ![p].work = work]
        /\ db' = db
        /\ tx[p].open
        /\ tx[p].step + 1 \in 1..Statements[pc[p]]
  BY StatementEffect
<1>2. tx \in [Proc -> Tx] /\ tx[p] \in Tx /\ d \in Db /\ pc[p] \in DOMAIN Statements
  BY DEF TypeInv, TypeOK, Statement, Tx
<1>3. /\ tx'[p].open /\ tx'[p].ciks = tx[p].ciks /\ tx'[p].step = tx[p].step + 1
      /\ \A q \in Proc : q # p => tx'[q] = tx[q]
  BY <1>1, <1>2 DEF Tx
<1>4. \A w : Execute(p, w) => tx'[p].work = w
  BY <1>2 DEF Execute, Tx
<1>5. CASE pc[p] = "subs"
  <2>1. n \in 1..4
    BY <1>1, <1>5, StatementsOfPhase
  <2>2. Execute(p, SubsStatement(d, C, job[p].subsZip, n)) /\ UNCHANGED idCache
    BY <1>5 DEF Statement
  <2>3. SameFacts(tx'[p].work, d)
    BY <1>2, <1>4, <2>1, <2>2, OtherStatementTables
  <2> QED
    BY <1>1, <1>3, <1>5, <2>2, <2>3
<1>6. CASE pc[p] = "facts"
  <2>1. Execute(p, FactsStatement(d, C, job[p].factsZip, idCache[p], n))
    BY <1>6 DEF Statement
  <2>2. idCache' = IF n = 5
                   THEN [idCache EXCEPT ![p] = @ \cup {job[p].factsZip[c] : c \in C}]
                   ELSE idCache
    BY <1>6 DEF Statement
  <2> QED
    BY <1>1, <1>3, <1>4, <1>6, <2>1, <2>2
<1>7. CASE pc[p] = "processed"
  <2>1. n \in 1..2
    BY <1>1, <1>7, StatementsOfPhase
  <2>2. Execute(p, ProcessedStatement(d, C, n)) /\ UNCHANGED idCache
    BY <1>7 DEF Statement
  <2>3. SameFacts(tx'[p].work, d)
    BY <1>2, <1>4, <2>1, <2>2, OtherStatementTables
  <2> QED
    BY <1>1, <1>3, <1>7, <2>2, <2>3
<1>8. CASE pc[p] = "std"
  <2>1. n \in 1..2
    BY <1>1, <1>8, StatementsOfPhase
  <2>2. Execute(p, StdStatement(d, C, n)) /\ UNCHANGED idCache
    BY <1>8 DEF Statement
  <2>3. SameFacts(tx'[p].work, d)
    BY <1>2, <1>4, <2>1, <2>2, OtherStatementTables
  <2> QED
    BY <1>1, <1>3, <1>8, <2>2, <2>3
<1> QED
  BY <1>2, <1>5, <1>6, <1>7, <1>8, StatementsOfPhase

-----------------------------------------------------------------------------
(* The facts tables.  Three things carry the proof.  Only the lock holder   *)
(* is running, so what a process read of the tables stays true while it     *)
(* works.  Inside a facts transaction the statements done so far have left  *)
(* the new document in the tables already inserted, and every other company *)
(* as committed.  And the archive on disk is never older than the tables.   *)

Idle(p) == pc[p] = "idle" /\ tx[p] = NoTx /\ idCache[p] = {}
Holding(p) == Idle(p) \/ (pc[p] # "idle" /\ lock = p)

WorkOK(p) == tx[p].open =>
    /\ db.dims \subseteq tx[p].work.dims
    /\ \A c \in CIK :
         IF pc[p] = "facts" /\ c \in tx[p].ciks
         THEN /\ tx[p].work.companies[c] = IF tx[p].step = 0 THEN db.companies[c]
                                          ELSE IF tx[p].step < 4 THEN None
                                          ELSE job[p].factsZip[c]
              /\ tx[p].step >= 5 => /\ tx[p].work.tags[c] = job[p].factsZip[c]
                                   /\ job[p].factsZip[c] \in tx[p].work.dims
              /\ tx[p].work.rows[c] = IF tx[p].step < 3 THEN db.rows[c]
                                     ELSE IF tx[p].step < 6 THEN None
                                     ELSE job[p].factsZip[c]
         ELSE /\ tx[p].work.companies[c] = db.companies[c]
              /\ tx[p].work.tags[c] = db.tags[c]
              /\ tx[p].work.rows[c] = db.rows[c]

IdsOK(p) == idCache[p] \subseteq IF tx[p].open THEN tx[p].work.dims ELSE db.dims

ZipOK(p) ==
    /\ pc[p] \notin {"idle", "locked"} =>
         \A c \in CIK : /\ db.companies[c] <= job[p].factsZip[c]
                       /\ job[p].factsZip[c] <= archive.facts[c]
    /\ pc[p] = "facts" => \A c \in job[p].todo : job[p].factsZip[c] # db.companies[c]
    /\ pc[p] = "facts" /\ tx[p].open => \E c \in CIK : tx[p].ciks = {c}

RunOK(p) == Holding(p) /\ WorkOK(p) /\ IdsOK(p) /\ ZipOK(p)

TablesOK ==
    /\ ~Interrupts => RowsMatchHash
    /\ TagsResolve
    /\ \A c \in CIK : db.companies[c] <= archive.facts[c]

FactsInv == TablesOK /\ \A p \in Proc : RunOK(p)

LEMMA IdleRunOK == \A p \in Proc : Idle(p) => RunOK(p)
BY DEF Idle, RunOK, Holding, WorkOK, IdsOK, ZipOK, NoTx

LEMMA IdleRunOKNext == \A p \in Proc : Idle(p)' => RunOK(p)'
BY DEF Idle, RunOK, Holding, WorkOK, IdsOK, ZipOK, NoTx

LEMMA OthersIdle ==
    ASSUME TypeInv, FactsInv, NEW p \in Proc, NEW q \in Proc, q # p,
           lock \in {p, NoProc}
    PROVE  Idle(q)
BY NoProcAssumption DEF FactsInv, RunOK, Holding

\* The processes other than the one that moves.
LEMMA OthersKeep ==
    ASSUME TypeInv, FactsInv, NEW p \in Proc, lock \in {p, NoProc},
           \A q \in Proc : q # p => pc'[q] = pc[q] /\ tx'[q] = tx[q] /\ idCache'[q] = idCache[q]
    PROVE  \A q \in Proc : q # p => RunOK(q)'
<1> TAKE q \in Proc
<1> HAVE q # p
<1>1. Idle(q)
  BY OthersIdle
<1>2. Idle(q)'
  BY <1>1 DEF Idle
<1> QED
  BY <1>2, IdleRunOKNext

LEMMA InitFactsInv == Init => FactsInv
<1> SUFFICES ASSUME Init PROVE FactsInv
  OBVIOUS
<1>1. \A p \in Proc : RunOK(p)
  BY IdleRunOK DEF Init, Idle
<1>2. PICK F \in SUBSET CIK :
        /\ archive = [facts |-> Inserted(NoRows, F, [c \in CIK |-> 1]), subs |-> [c \in CIK |-> 1]]
        /\ \E C \in SUBSET F : db = Loaded(C)
  BY DEF Init
<1>3. PICK C \in SUBSET F : db = Loaded(C)
  BY <1>2
<1>4. \A c \in CIK : archive.facts[c] = IF c \in F THEN 1 ELSE 0
  BY <1>2 DEF Inserted, NoRows, None
<1>5. /\ \A c \in CIK : /\ db.companies[c] = IF c \in C THEN 1 ELSE 0
                       /\ db.tags[c] = db.companies[c] /\ db.rows[c] = db.companies[c]
      /\ db.dims = {1 : c \in C}
  BY <1>3 DEF Loaded, Inserted, NoRows, None
<1>6. TablesOK
  BY <1>3, <1>4, <1>5 DEF TablesOK, RowsMatchHash, TagsResolve, None
<1> QED
  BY <1>1, <1>6 DEF FactsInv

LEMMA FilingFactsInv ==
    ASSUME TypeInv, FactsInv, NEW c \in CIK, FileFinancials(c) \/ FileOther(c)
    PROVE  FactsInv'
<1>0. \A e \in CIK : archive.facts[e] \in Nat
  BY BoundsAssumption DEF TypeInv, TypeOK, Table, MaybeVersion
<1>1. \A e \in CIK : archive'.facts[e] \in Nat /\ archive.facts[e] <= archive'.facts[e]
  <2>1. CASE FileFinancials(c)
    <3>1. archive'.facts = [archive.facts EXCEPT ![c] = @ + 1] /\ archive.facts \in Table
      BY <2>1 DEF FileFinancials, TypeInv, TypeOK
    <3> QED
      BY <1>0, <3>1 DEF Table
  <2>2. CASE FileOther(c)
    <3>1. archive'.facts = archive.facts
      BY <2>2 DEF FileOther, TypeInv, TypeOK
    <3> QED
      BY <1>0, <3>1
  <2> QED
    BY <2>1, <2>2
<1>2. \A e \in CIK : db.companies[e] \in Nat /\ \A p \in Proc : job[p].factsZip[e] \in Nat
  BY BoundsAssumption DEF TypeInv, TypeOK, Db, Job, Table, MaybeVersion
<1>3. UNCHANGED <<db, lock, pc, job, tx, idCache>>
  BY DEF FileFinancials, FileOther
<1>4. TablesOK'
  BY <1>0, <1>1, <1>2, <1>3 DEF FactsInv, TablesOK, RowsMatchHash, TagsResolve
<1>5. ASSUME NEW p \in Proc PROVE RunOK(p)'
  <2>1. ZipOK(p)'
    BY <1>0, <1>1, <1>2, <1>3 DEF FactsInv, RunOK, ZipOK
  <2> QED
    BY <1>3, <2>1 DEF FactsInv, RunOK, Holding, Idle, WorkOK, IdsOK
<1> QED
  BY <1>4, <1>5 DEF FactsInv

\* Moves of the lock holder that touch no table.
LEMMA QuietFactsInv ==
    ASSUME TypeInv, FactsInv, NEW p \in Proc,
           lock \in {p, NoProc}, tx[p] = NoTx, UNCHANGED <<archive, db, tx, idCache>>,
           \A q \in Proc : q # p => pc'[q] = pc[q],
           pc'[p] # "idle", lock' = p, ZipOK(p)'
    PROVE  FactsInv'
<1>1. \A q \in Proc : q # p => RunOK(q)'
  BY OthersKeep
<1>2. RunOK(p)'
  BY DEF FactsInv, RunOK, Holding, WorkOK, IdsOK, NoTx
<1>3. TablesOK'
  BY DEF FactsInv, TablesOK, RowsMatchHash, TagsResolve
<1> QED
  BY <1>1, <1>2, <1>3 DEF FactsInv

LEMMA EndFactsInv ==
    ASSUME TypeInv, FactsInv, NEW p \in Proc, pc[p] # "idle", End(p), UNCHANGED db
    PROVE  FactsInv'
<1>0. lock = p
  BY DEF FactsInv, RunOK, Holding, Idle
<1>1. \A q \in Proc : q # p => RunOK(q)'
  <2>1. \A q \in Proc : q # p => pc'[q] = pc[q] /\ tx'[q] = tx[q] /\ idCache'[q] = idCache[q]
    BY DEF End, Goto, TypeInv, TypeOK
  <2> QED
    BY <1>0, <2>1, OthersKeep
<1>2. Idle(p)'
  BY DEF End, Goto, TypeInv, TypeOK, Idle
<1>3. TablesOK'
  BY DEF End, FactsInv, TablesOK, RowsMatchHash, TagsResolve
<1> QED
  BY <1>1, <1>2, <1>3, IdleRunOKNext DEF FactsInv

\* The lock holder moves on with new local variables.
LEMMA GotoFactsInv ==
    ASSUME TypeInv, FactsInv, NEW p \in Proc, NEW phase, NEW j,
           Goto(p, phase, j), UNCHANGED <<archive, db, tx, idCache>>,
           lock \in {p, NoProc}, tx[p] = NoTx, lock' = p, phase # "idle",
           phase # "locked" =>
               \A c \in CIK : /\ db.companies[c] <= j.factsZip[c]
                             /\ j.factsZip[c] <= archive.facts[c],
           phase = "facts" => \A c \in j.todo : j.factsZip[c] # db.companies[c]
    PROVE  FactsInv'
<1>1. /\ pc'[p] = phase /\ job'[p] = j
      /\ \A q \in Proc : q # p => pc'[q] = pc[q]
  BY DEF Goto, TypeInv, TypeOK
<1>2. ~tx'[p].open
  BY DEF NoTx
<1>3. ZipOK(p)'
  BY <1>1, <1>2 DEF ZipOK
<1> QED
  BY <1>1, <1>3, QuietFactsInv

LEMMA PhaseFactsInv ==
    ASSUME TypeInv, FactsInv, NEW p \in Proc,
           \/ Start(p) \/ DownloadFacts(p) \/ ScanSubmissions(p)
           \/ ScanFacts(p) \/ AfterFacts(p) \/ AfterProcessed(p)
    PROVE  FactsInv'
<1>1. job[p] \in Job /\ archive \in [facts: Table, subs: Table] /\ db \in Db
  BY DEF TypeInv, TypeOK
<1>2. pc[p] # "idle" => lock = p
  BY DEF FactsInv, RunOK, Holding, Idle
<1>3. pc[p] \notin {"idle", "locked"} =>
        \A c \in CIK : /\ db.companies[c] <= job[p].factsZip[c]
                      /\ job[p].factsZip[c] <= archive.facts[c]
  BY DEF FactsInv, RunOK, ZipOK
<1>4. tx[p] = NoTx
  BY ClosedConnection, StatementsOfPhase
     DEF Start, DownloadFacts, ScanSubmissions, ScanFacts, AfterFacts, AfterProcessed
<1>5. CASE Start(p)
  <2>1. PICK skip \in SkipModes, large \in LargeModes :
          Goto(p, "locked", [IdleJob EXCEPT !.skip = skip, !.large = large])
    BY <1>5 DEF Start
  <2> QED
    BY <1>4, <1>5, <2>1, GotoFactsInv DEF Start
<1>6. CASE DownloadFacts(p)
  <2> DEFINE j == [job[p] EXCEPT !.factsZip = archive.facts, !.universe = db.processed]
  <2>1. j.factsZip = archive.facts
    BY <1>1 DEF Job
  <2>2. \A c \in CIK : db.companies[c] <= archive.facts[c]
    BY DEF FactsInv, TablesOK
  <2>3. \A c \in CIK : archive.facts[c] <= archive.facts[c]
    BY <1>1, BoundsAssumption DEF Table, MaybeVersion
  <2>4. Goto(p, "ready", j) /\ UNCHANGED <<archive, db, lock, tx, idCache>> /\ pc[p] # "idle"
    BY <1>6 DEF DownloadFacts
  <2> HIDE DEF j
  <2> QED
    BY <1>2, <1>4, <2>1, <2>2, <2>3, <2>4, GotoFactsInv
<1>7. CASE ScanSubmissions(p)
  <2> DEFINE j == [job[p] EXCEPT !.subsZip = archive.subs, !.changedSubs = ChangedSubs(p),
                                 !.todo = ChangedSubs(p)]
  <2>1. j.factsZip = job[p].factsZip
    BY <1>1 DEF Job
  <2>2. Goto(p, "subs", j) /\ UNCHANGED <<archive, db, lock, tx, idCache>> /\ pc[p] = "ready"
    BY <1>7 DEF ScanSubmissions
  <2> HIDE DEF j
  <2> QED
    BY <1>2, <1>3, <1>4, <2>1, <2>2, GotoFactsInv
<1>8. CASE ScanFacts(p)
  <2> DEFINE j == [job[p] EXCEPT !.changedFacts = ChangedFacts(p), !.todo = ChangedFacts(p)]
  <2>1. j.factsZip = job[p].factsZip /\ j.todo = ChangedFacts(p)
    BY <1>1 DEF Job
  <2>2. /\ Goto(p, "facts", j) /\ UNCHANGED <<archive, db, lock, tx, idCache>>
        /\ pc[p] \in {"ready", "subs"}
    BY <1>8 DEF ScanFacts
  <2>3. \A c \in ChangedFacts(p) : job[p].factsZip[c] # db.companies[c]
    BY DEF ChangedFacts
  <2> HIDE DEF j
  <2> QED
    BY <1>2, <1>3, <1>4, <2>1, <2>2, <2>3, GotoFactsInv
<1>9. CASE AfterFacts(p)
  <2> DEFINE j == [job[p] EXCEPT !.todo = job[p].changedFacts]
  <2>1. j.factsZip = job[p].factsZip
    BY <1>1 DEF Job
  <2>2. Goto(p, "processed", j) /\ UNCHANGED <<archive, db, lock, tx, idCache>> /\ pc[p] = "facts"
    BY <1>9 DEF AfterFacts
  <2> HIDE DEF j
  <2> QED
    BY <1>2, <1>3, <1>4, <2>1, <2>2, GotoFactsInv
<1>10. CASE AfterProcessed(p)
  <2> DEFINE j == [job[p] EXCEPT !.todo = job[p].changedFacts]
  <2>1. j.factsZip = job[p].factsZip
    BY <1>1 DEF Job
  <2>2. Goto(p, "std", j) /\ UNCHANGED <<archive, db, lock, tx, idCache>> /\ pc[p] = "processed"
    BY <1>10 DEF AfterProcessed
  <2> HIDE DEF j
  <2> QED
    BY <1>2, <1>3, <1>4, <2>1, <2>2, GotoFactsInv
<1> QED
  BY <1>5, <1>6, <1>7, <1>8, <1>9, <1>10

LEMMA BeginFactsInv ==
    ASSUME TypeInv, FactsInv, NEW p \in Proc, Begin(p)
    PROVE  FactsInv'
<1>1. PICK C : /\ C \in Batches(p)
               /\ tx' = [tx EXCEPT ![p] = [open |-> TRUE, ciks |-> C, step |-> 0, work |-> db]]
  BY DEF Begin
<1>2. /\ UNCHANGED <<archive, db, lock, pc, job, idCache>>
      /\ ~tx[p].open /\ pc[p] \in DOMAIN Statements
  BY DEF Begin
<1>3. /\ tx'[p] = [open |-> TRUE, ciks |-> C, step |-> 0, work |-> db]
      /\ \A q \in Proc : q # p => tx'[q] = tx[q]
  BY <1>1 DEF TypeInv, TypeOK
<1>4. lock = p
  BY <1>2, StatementsOfPhase DEF FactsInv, RunOK, Holding, Idle
<1>5. \A q \in Proc : q # p => RunOK(q)'
  BY <1>2, <1>3, <1>4, OthersKeep
<1>6. pc[p] = "facts" => \E c \in CIK : C = {c}
  <2>1. job[p].todo \subseteq CIK
    BY DEF TypeInv, TypeOK, Job
  <2> QED
    BY <1>1, <2>1 DEF Batches
<1>7. RunOK(p)'
  <2>1. Holding(p)' /\ IdsOK(p)'
    BY <1>2, <1>3, <1>4, StatementsOfPhase DEF FactsInv, RunOK, Holding, Idle, IdsOK
  <2>2. WorkOK(p)'
    BY <1>2, <1>3 DEF WorkOK
  <2>3. ZipOK(p)'
    BY <1>2, <1>3, <1>6 DEF FactsInv, RunOK, ZipOK
  <2> QED
    BY <2>1, <2>2, <2>3 DEF RunOK
<1>8. TablesOK'
  BY <1>2 DEF FactsInv, TablesOK, RowsMatchHash, TagsResolve
<1> QED
  BY <1>5, <1>7, <1>8 DEF FactsInv

LEMMA StatementFactsInv ==
    ASSUME TypeInv, FactsInv, NEW p \in Proc, Statement(p)
    PROVE  FactsInv'
<1> DEFINE n == tx[p].step + 1
           d == tx[p].work
           w == tx'[p].work
           C == tx[p].ciks
           zip == job[p].factsZip
<1>1. /\ tx[p].open /\ db' = db /\ n \in 1..Statements[pc[p]]
      /\ tx'[p].open /\ tx'[p].ciks = C /\ tx'[p].step = n
      /\ \A q \in Proc : q # p => tx'[q] = tx[q]
      /\ pc[p] # "facts" => SameFacts(w, d) /\ idCache' = idCache
      /\ pc[p] = "facts" =>
           /\ w = FactsStatement(d, C, zip, idCache[p], n)
           /\ idCache' = IF n = 5 THEN [idCache EXCEPT ![p] = @ \cup {zip[c] : c \in C}]
                                  ELSE idCache
  BY StatementWork
<1>2. UNCHANGED <<archive, lock, pc, job>> /\ pc[p] \in DOMAIN Statements
  BY DEF Statement
<1>3. lock = p
  BY <1>2, StatementsOfPhase DEF FactsInv, RunOK, Holding, Idle
<1>4. /\ d \in Db /\ C \subseteq CIK /\ zip \in Table /\ tx[p].step \in 0..6
      /\ idCache \in [Proc -> SUBSET Version]
  BY DEF TypeInv, TypeOK, Tx, Job
<1>5. \A q \in Proc : q # p => RunOK(q)'
  <2>1. \A q \in Proc : q # p => idCache'[q] = idCache[q]
    BY <1>1, <1>4
  <2> QED
    BY <1>1, <1>2, <1>3, <2>1, OthersKeep
<1>6. pc[p] = "facts" => n \in 1..6
  BY <1>1, StatementsOfPhase
<1>7. pc[p] = "facts" =>
        /\ w.companies = IF n = 1 THEN Deleted(d.companies, C)
                         ELSE IF n = 4 THEN Inserted(d.companies, C, zip) ELSE d.companies
        /\ w.tags = IF n = 2 THEN Deleted(d.tags, C)
                    ELSE IF n = 5 THEN Inserted(d.tags, C, zip) ELSE d.tags
        /\ w.rows = IF n = 3 THEN Deleted(d.rows, C)
                    ELSE IF n = 6 THEN Inserted(d.rows, C, zip) ELSE d.rows
        /\ d.dims \subseteq w.dims
        /\ n = 5 => \A c \in C : zip[c] \in w.dims \cup idCache[p]
  <2> SUFFICES ASSUME pc[p] = "facts"
               PROVE  /\ w.companies = IF n = 1 THEN Deleted(d.companies, C)
                                       ELSE IF n = 4 THEN Inserted(d.companies, C, zip)
                                       ELSE d.companies
                      /\ w.tags = IF n = 2 THEN Deleted(d.tags, C)
                                  ELSE IF n = 5 THEN Inserted(d.tags, C, zip) ELSE d.tags
                      /\ w.rows = IF n = 3 THEN Deleted(d.rows, C)
                                  ELSE IF n = 6 THEN Inserted(d.rows, C, zip) ELSE d.rows
                      /\ d.dims \subseteq w.dims
                      /\ n = 5 => \A c \in C : zip[c] \in w.dims \cup idCache[p]
    OBVIOUS
  <2>1. w = FactsStatement(d, C, zip, idCache[p], n) /\ d \in Db /\ n \in 1..6
    BY <1>1, <1>4, <1>6
  <2> HIDE DEF n, d, w, C, zip
  <2> QED
    BY <2>1, FactsStatementTables
<1>8. WorkOK(p) /\ IdsOK(p) /\ ZipOK(p)
  BY DEF FactsInv, RunOK
<1>9. WorkOK(p)'
  <2>1. CASE pc[p] # "facts"
    BY <1>1, <1>2, <1>8, <2>1 DEF WorkOK, SameFacts
  <2>2. CASE pc[p] = "facts"
    <3>1. db.dims \subseteq w.dims
      BY <1>1, <1>7, <1>8, <2>2 DEF WorkOK
    <3>2. ASSUME NEW c \in CIK \ C
          PROVE  /\ w.companies[c] = db.companies[c]
                 /\ w.tags[c] = db.tags[c]
                 /\ w.rows[c] = db.rows[c]
      BY <1>1, <1>7, <1>8, <2>2 DEF WorkOK, Deleted, Inserted
    <3>3. ASSUME NEW c \in C
          PROVE  /\ w.companies[c] = IF n < 4 THEN None ELSE zip[c]
                 /\ n >= 5 => w.tags[c] = zip[c] /\ zip[c] \in w.dims
                 /\ w.rows[c] = IF n < 3 THEN db.rows[c] ELSE IF n < 6 THEN None ELSE zip[c]
      <4>1. /\ n > 1 => d.companies[c] = IF n < 5 THEN None ELSE zip[c]
            /\ n > 5 => d.tags[c] = zip[c] /\ zip[c] \in d.dims
            /\ d.rows[c] = IF n < 4 THEN db.rows[c] ELSE None
        BY <1>1, <1>4, <1>6, <1>8, <2>2 DEF WorkOK
      <4>2. w.companies[c] = IF n < 4 THEN None ELSE zip[c]
        BY <1>4, <1>6, <1>7, <2>2, <4>1 DEF Inserted, Deleted
      <4>3. n >= 5 => w.tags[c] = zip[c]
        BY <1>4, <1>6, <1>7, <2>2, <4>1 DEF Inserted
      <4>4. n >= 5 => zip[c] \in w.dims
        <5>1. idCache[p] \subseteq d.dims
          BY <1>1, <1>8 DEF IdsOK
        <5> QED
          BY <1>6, <1>7, <2>2, <4>1, <5>1
      <4>5. w.rows[c] = IF n < 3 THEN db.rows[c] ELSE IF n < 6 THEN None ELSE zip[c]
        BY <1>4, <1>6, <1>7, <2>2, <4>1 DEF Inserted, Deleted
      <4> QED
        BY <4>2, <4>3, <4>4, <4>5
    <3> HIDE DEF n, w
    <3> QED
      BY <1>1, <1>2, <2>2, <3>1, <3>2, <3>3 DEF WorkOK, n, w
  <2> QED
    BY <2>1, <2>2
<1>10. IdsOK(p)'
  <2>1. idCache[p] \subseteq d.dims
    BY <1>1, <1>8 DEF IdsOK
  <2>2. idCache'[p] \subseteq w.dims
    <3>1. CASE pc[p] # "facts"
      BY <1>1, <2>1, <3>1 DEF SameFacts
    <3>2. CASE pc[p] = "facts" /\ n # 5
      BY <1>1, <1>7, <2>1, <3>2
    <3>3. CASE pc[p] = "facts" /\ n = 5
      <4>1. idCache'[p] = idCache[p] \cup {zip[c] : c \in C}
        BY <1>1, <1>4, <3>3
      <4>2. d.dims \subseteq w.dims /\ \A c \in C : zip[c] \in w.dims \cup idCache[p]
        BY <1>7, <3>3
      <4> QED
        BY <2>1, <4>1, <4>2
    <3> QED
      BY <3>1, <3>2, <3>3
  <2> QED
    BY <1>1, <2>2 DEF IdsOK
<1>11. RunOK(p)'
  <2>1. Holding(p)' /\ ZipOK(p)'
    BY <1>1, <1>2, <1>3, <1>8, StatementsOfPhase DEF Holding, ZipOK
  <2> QED
    BY <1>9, <1>10, <2>1 DEF RunOK
<1>12. TablesOK'
  BY <1>1, <1>2 DEF FactsInv, TablesOK, RowsMatchHash, TagsResolve
<1> QED
  BY <1>5, <1>11, <1>12 DEF FactsInv

\* What a commit does to the facts tables: in the facts phase one company
\* moves to the document on disk, elsewhere they stay as they are.
LEMMA CommitTables ==
    ASSUME TypeInv, FactsInv, NEW p \in Proc, Commit(p)
    PROVE  /\ db.dims \subseteq db'.dims
           /\ IF pc[p] = "facts"
              THEN \E c \in job[p].todo :
                     /\ tx[p].ciks = {c}
                     /\ db'.companies[c] = job[p].factsZip[c]
                     /\ db'.tags[c] = job[p].factsZip[c]
                     /\ db'.rows[c] = job[p].factsZip[c]
                     /\ job[p].factsZip[c] \in db'.dims
                     /\ \A e \in CIK : e # c => /\ db'.companies[e] = db.companies[e]
                                               /\ db'.tags[e] = db.tags[e]
                                               /\ db'.rows[e] = db.rows[e]
              ELSE \A e \in CIK : /\ db'.companies[e] = db.companies[e]
                                  /\ db'.tags[e] = db.tags[e]
                                  /\ db'.rows[e] = db.rows[e]
<1>1. /\ db' = tx[p].work /\ tx[p].ciks # {} /\ tx[p].step = Statements[pc[p]]
      /\ pc[p] \in DOMAIN Statements
  BY DEF Commit
<1>2. tx[p].open /\ tx[p].ciks \subseteq job[p].todo
  BY <1>1 DEF TypeInv, ConnectionOK, NoTx
<1>3. WorkOK(p) /\ ZipOK(p)
  BY DEF FactsInv, RunOK
<1>4. CASE pc[p] # "facts"
  BY <1>1, <1>2, <1>3, <1>4 DEF WorkOK
<1>5. CASE pc[p] = "facts"
  <2>1. PICK c \in CIK : tx[p].ciks = {c}
    BY <1>2, <1>3, <1>5 DEF ZipOK
  <2>2. tx[p].step = 6
    BY <1>1, <1>5, StatementsOfPhase
  <2>3. c \in job[p].todo
    BY <1>2, <2>1
  <2> QED
    BY <1>1, <1>2, <1>3, <1>5, <2>1, <2>2, <2>3 DEF WorkOK
<1> QED
  BY <1>4, <1>5

LEMMA CommitFactsInv ==
    ASSUME TypeInv, FactsInv, NEW p \in Proc, Commit(p)
    PROVE  FactsInv'
<1>1. /\ tx' = [tx EXCEPT ![p] = NoTx]
      /\ job' = [job EXCEPT ![p].todo = @ \ tx[p].ciks]
      /\ UNCHANGED <<archive, lock, pc, idCache>> /\ pc[p] \in DOMAIN Statements
  BY DEF Commit
<1>2. /\ job[p] \in Job /\ db \in Db /\ archive \in [facts: Table, subs: Table]
      /\ tx'[p] = NoTx /\ \A q \in Proc : q # p => tx'[q] = tx[q]
      /\ job'[p] = [job[p] EXCEPT !.todo = @ \ tx[p].ciks]
  BY <1>1 DEF TypeInv, TypeOK
<1>3. job'[p].factsZip = job[p].factsZip /\ job'[p].todo = job[p].todo \ tx[p].ciks
  BY <1>2 DEF Job
<1>4. lock = p /\ pc[p] \notin {"idle", "locked"}
  BY <1>1, StatementsOfPhase DEF FactsInv, RunOK, Holding, Idle
<1>5. \A q \in Proc : q # p => RunOK(q)'
  BY <1>1, <1>2, <1>4, OthersKeep
<1>6. ZipOK(p) /\ IdsOK(p)
  BY DEF FactsInv, RunOK
<1>7. \A c \in CIK : /\ job[p].factsZip[c] \in Nat /\ db.companies[c] \in Nat
                    /\ db.companies[c] <= job[p].factsZip[c]
                    /\ job[p].factsZip[c] <= archive.facts[c]
                    /\ db.companies[c] <= archive.facts[c]
  BY <1>2, <1>4, <1>6, BoundsAssumption DEF ZipOK, FactsInv, TablesOK, Job, Db, Table, MaybeVersion
<1>8. TablesOK'
  BY <1>1, <1>7, CommitTables DEF FactsInv, TablesOK, RowsMatchHash, TagsResolve
<1>9. ZipOK(p)'
  <2>1. \A c \in CIK : /\ db'.companies[c] <= job[p].factsZip[c]
                      /\ job[p].factsZip[c] <= archive.facts[c]
    BY <1>7, CommitTables
  <2>2. pc[p] = "facts" => \A c \in job'[p].todo : job[p].factsZip[c] # db'.companies[c]
    <3>1. job[p].todo \subseteq CIK
      BY <1>2 DEF Job
    <3> QED
      BY <1>3, <1>6, <3>1, CommitTables DEF ZipOK
  <2> QED
    BY <1>1, <1>2, <1>3, <2>1, <2>2 DEF ZipOK, NoTx
<1>10. IdsOK(p)'
  <2>1. tx[p].open /\ db' = tx[p].work
    BY DEF Commit, TypeInv, ConnectionOK, NoTx
  <2> QED
    BY <1>1, <1>2, <1>6, <2>1 DEF IdsOK, NoTx
<1>11. RunOK(p)'
  BY <1>1, <1>2, <1>4, <1>9, <1>10 DEF RunOK, Holding, WorkOK, NoTx
<1> QED
  BY <1>5, <1>8, <1>11 DEF FactsInv

LEMMA SkipFactsInv ==
    ASSUME TypeInv, FactsInv, NEW p \in Proc, SkipUnresolved(p)
    PROVE  FactsInv'
<1>1. PICK c \in job[p].todo : job' = [job EXCEPT ![p].todo = @ \ {c}]
  BY DEF SkipUnresolved
<1>2. UNCHANGED <<archive, db, lock, pc, tx, idCache>> /\ pc[p] = "std"
  BY DEF SkipUnresolved
<1>3. tx[p] = NoTx
  BY ClosedConnection DEF SkipUnresolved
<1>4. lock = p
  BY <1>2 DEF FactsInv, RunOK, Holding, Idle
<1>5. job'[p].factsZip = job[p].factsZip
  BY <1>1 DEF TypeInv, TypeOK, Job
<1>6. ZipOK(p)'
  BY <1>2, <1>5 DEF FactsInv, RunOK, ZipOK
<1> QED
  BY <1>2, <1>3, <1>4, <1>6, QuietFactsInv

\* An interrupted transaction is committed as far as it got.
LEMMA InterruptFactsInv ==
    ASSUME TypeInv, FactsInv, NEW p \in Proc, Interrupt(p)
    PROVE  FactsInv'
<1>1. /\ Interrupts /\ pc[p] # "idle" /\ End(p)
      /\ db' = IF tx[p].open THEN tx[p].work ELSE db
  BY DEF Interrupt
<1>2. CASE ~tx[p].open
  BY <1>1, <1>2, EndFactsInv
<1>3. CASE tx[p].open
  <2>1. \A q \in Proc : RunOK(q)'
    <3>1. lock = p
      BY <1>1 DEF FactsInv, RunOK, Holding, Idle
    <3>2. \A q \in Proc : q # p => RunOK(q)'
      <4>1. \A q \in Proc : q # p => pc'[q] = pc[q] /\ tx'[q] = tx[q] /\ idCache'[q] = idCache[q]
        BY <1>1 DEF End, Goto, TypeInv, TypeOK
      <4> QED
        BY <3>1, <4>1, OthersKeep
    <3>3. Idle(p)'
      BY <1>1 DEF End, Goto, TypeInv, TypeOK, Idle
    <3> QED
      BY <3>2, <3>3, IdleRunOKNext
  <2>2. /\ db' = tx[p].work /\ archive' = archive /\ WorkOK(p) /\ ZipOK(p)
        /\ tx[p] \in Tx
        /\ TagsResolve /\ \A c \in CIK : db.companies[c] <= archive.facts[c]
    BY <1>1, <1>3 DEF End, FactsInv, RunOK, TablesOK, TypeInv, TypeOK
  <2>3. \A c \in CIK : archive.facts[c] \in Nat /\ db.companies[c] \in Nat
    BY BoundsAssumption DEF TypeInv, TypeOK, Db, Table, MaybeVersion
  <2>4. ASSUME NEW c \in CIK
        PROVE  /\ db'.rows[c] # None => db'.rows[c] \in db'.dims
               /\ db'.companies[c] <= archive.facts[c]
    <3>1. CASE pc[p] = "facts" /\ c \in tx[p].ciks
      <4>1. db'.companies[c] \in {db.companies[c], None, job[p].factsZip[c]}
        BY <1>3, <2>2, <3>1 DEF WorkOK
      <4>2. job[p].factsZip[c] <= archive.facts[c]
        BY <2>2, <3>1 DEF ZipOK
      <4>3. db'.rows[c] # None => db'.rows[c] \in db'.dims
        BY <1>3, <2>2, <3>1 DEF WorkOK, TagsResolve, Tx
      <4> QED
        BY <2>2, <2>3, <4>1, <4>2, <4>3 DEF None
    <3>2. CASE ~(pc[p] = "facts" /\ c \in tx[p].ciks)
      BY <1>3, <2>2, <3>2 DEF WorkOK, TagsResolve
    <3> QED
      BY <3>1, <3>2
  <2>5. TablesOK'
    BY <1>1, <2>2, <2>4 DEF TablesOK, TagsResolve
  <2> QED
    BY <2>1, <2>5 DEF FactsInv
<1> QED
  BY <1>2, <1>3

LEMMA NextFactsInv == TypeInv /\ FactsInv /\ [Next]_vars => FactsInv'
<1> SUFFICES ASSUME TypeInv, FactsInv, [Next]_vars PROVE FactsInv'
  OBVIOUS
<1>1. ASSUME NEW c \in CIK, FileFinancials(c) \/ FileOther(c) PROVE FactsInv'
  BY <1>1, FilingFactsInv
<1>2. ASSUME NEW p \in Proc, Start(p) PROVE FactsInv'
  BY <1>2, PhaseFactsInv
<1>3. ASSUME NEW p \in Proc, UpdateStep(p) PROVE FactsInv'
  <2>1. CASE SafetyStop(p) \/ Finish(p)
    BY <2>1, EndFactsInv DEF SafetyStop, Finish
  <2> QED
    BY <1>3, <2>1, PhaseFactsInv, BeginFactsInv, StatementFactsInv, CommitFactsInv DEF UpdateStep
<1>4. ASSUME NEW p \in Proc, SkipUnresolved(p) PROVE FactsInv'
  BY <1>4, SkipFactsInv
<1>5. ASSUME NEW p \in Proc, Abort(p) \/ Interrupt(p) PROVE FactsInv'
  BY <1>5, EndFactsInv, InterruptFactsInv DEF Abort
<1>6. CASE UNCHANGED vars
  BY <1>6 DEF vars, FactsInv, TablesOK, RowsMatchHash, TagsResolve, RunOK, Holding,
              Idle, WorkOK, IdsOK, ZipOK
<1> QED
  BY <1>1, <1>2, <1>3, <1>4, <1>5, <1>6 DEF Next

LEMMA FactsInvariant == Spec => [](TypeInv /\ FactsInv)
BY InitTypeInv, NextTypeInv, InitFactsInv, NextFactsInv, PTL DEF Spec

\* No reader of the committed tables sees the hash, the tags and the facts of
\* a company taken from different documents, whatever fails and whenever SEC
\* publishes: run_update commits them in one transaction.  (A keyboard
\* interrupt commits half a transaction, hence the assumption.)
THEOREM RowsAlwaysMatchHash ==
    ASSUME ~Interrupts
    PROVE  Spec => []RowsMatchHash
<1>1. FactsInv => RowsMatchHash
  BY DEF FactsInv, TablesOK
<1> QED
  BY FactsInvariant, <1>1, PTL

\* The tag of every committed fact is in xbrl_tags, although the id cache of a
\* process may remember tags a rolled back transaction took with it: the
\* process that rolls back ends, and its cache with it.
THEOREM TagsAlwaysResolve == Spec => []TagsResolve
<1>1. FactsInv => TagsResolve
  BY DEF FactsInv, TablesOK
<1> QED
  BY FactsInvariant, <1>1, PTL

-----------------------------------------------------------------------------
(* The refinement.  With whole companies only, the mirror is companies.     *)

Mirrored == [c \in CIK |-> IF db.companies[c] = db.tags[c] /\ db.tags[c] = db.rows[c]
                           THEN db.companies[c] ELSE Torn]

LEMMA MirroredIsCompanies ==
    ASSUME TypeInv, FactsInv, ~Interrupts
    PROVE  Mirrored = db.companies
BY DEF Mirrored, TypeInv, TypeOK, Db, Table, FactsInv, TablesOK, RowsMatchHash

LEMMA MirroredIsCompaniesNext ==
    ASSUME TypeInv', FactsInv', ~Interrupts
    PROVE  Mirrored' = db'.companies
BY DEF Mirrored, TypeInv, TypeOK, Db, Table, FactsInv, TablesOK, RowsMatchHash

\* Two states of the pair the abstract specification speaks of.
LEMMA FactsTables ==
    ASSUME TypeInv
    PROVE  archive.facts \in [CIK -> 0..MaxVersion] /\ db.companies \in [CIK -> 0..MaxVersion]
BY DEF TypeInv, TypeOK, Db, Table, MaybeVersion

LEMMA FactsTablesNext ==
    ASSUME TypeInv'
    PROVE  archive'.facts \in [CIK -> 0..MaxVersion] /\ db'.companies \in [CIK -> 0..MaxVersion]
BY DEF TypeInv, TypeOK, Db, Table, MaybeVersion

LEMMA CommitMirrors ==
    ASSUME TypeInv, FactsInv, TypeInv', NEW p \in Proc, Commit(p)
    PROVE  /\ archive'.facts = archive.facts
           /\ \/ db'.companies = db.companies
              \/ \E c \in CIK, v \in Nat :
                    /\ v \in db.companies[c] + 1 .. archive.facts[c]
                    /\ db'.companies = [db.companies EXCEPT ![c] = v]
<1>1. archive' = archive
  BY DEF Commit
<1>2. CASE pc[p] # "facts"
  <2>1. \A e \in CIK : db'.companies[e] = db.companies[e]
    BY <1>2, CommitTables
  <2> QED
    BY <1>1, <2>1, FactsTables, FactsTablesNext
<1>3. CASE pc[p] = "facts"
  <2>1. PICK c \in job[p].todo :
          /\ db'.companies[c] = job[p].factsZip[c]
          /\ \A e \in CIK : e # c => db'.companies[e] = db.companies[e]
    BY <1>3, CommitTables
  <2>2. c \in CIK /\ job[p].factsZip[c] \in Nat
    BY BoundsAssumption DEF TypeInv, TypeOK, Job, Table, MaybeVersion
  <2>3. /\ job[p].factsZip[c] # db.companies[c]
        /\ db.companies[c] <= job[p].factsZip[c]
        /\ job[p].factsZip[c] <= archive.facts[c]
    BY <1>3, <2>2 DEF FactsInv, RunOK, ZipOK
  <2>4. job[p].factsZip[c] \in db.companies[c] + 1 .. archive.facts[c]
    BY <2>2, <2>3, FactsTables
  <2>5. db'.companies = [db.companies EXCEPT ![c] = job[p].factsZip[c]]
    BY <2>1, <2>2, FactsTables, FactsTablesNext
  <2> QED
    BY <1>1, <2>2, <2>4, <2>5
<1> QED
  BY <1>2, <1>3

LEMMA StepMirrors ==
    ASSUME TypeInv, FactsInv, TypeInv', FactsInv', ~Interrupts, [Next]_vars
    PROVE  [Mirror!Next]_<<archive.facts, Mirrored>>
<1>1. Mirrored = db.companies /\ Mirrored' = db'.companies
  BY MirroredIsCompanies, MirroredIsCompaniesNext
<1>2. CASE \E c \in CIK : FileFinancials(c)
  <2>1. PICK c \in CIK : FileFinancials(c)
    BY <1>2
  <2>2. /\ archive.facts[c] < MaxVersion
        /\ archive'.facts = [archive.facts EXCEPT ![c] = @ + 1]
        /\ Mirrored' = Mirrored
    BY <1>1, <2>1 DEF FileFinancials, TypeInv, TypeOK
  <2>3. Mirror!Publish(c)
    BY <2>2 DEF Mirror!Publish, Mirrored
  <2> QED
    BY <2>3 DEF Mirror!Next
<1>3. CASE \E p \in Proc : Commit(p)
  <2>1. PICK p \in Proc : Commit(p)
    BY <1>3
  <2>2. CASE db'.companies = db.companies
    BY <1>1, <2>1, <2>2, CommitMirrors
  <2>3. CASE \E c \in CIK, v \in Nat :
               /\ v \in db.companies[c] + 1 .. archive.facts[c]
               /\ db'.companies = [db.companies EXCEPT ![c] = v]
    <3>1. PICK c \in CIK, v \in Nat :
               /\ v \in Mirrored[c] + 1 .. archive.facts[c]
               /\ Mirrored' = [Mirrored EXCEPT ![c] = v]
      BY <1>1, <2>3
    <3>2. archive'.facts = archive.facts
      BY <2>1, CommitMirrors
    <3>3. Mirror!Refresh(c)
      BY <3>1, <3>2 DEF Mirror!Refresh, Mirrored
    <3> QED
      BY <3>3 DEF Mirror!Next
  <2> QED
    BY <2>1, <2>2, <2>3, CommitMirrors
<1>4. ASSUME ~(\E c \in CIK : FileFinancials(c)), ~(\E p \in Proc : Commit(p))
      PROVE  archive'.facts = archive.facts /\ db' = db
  <2>1. CASE \E c \in CIK : FileOther(c)
    BY <2>1 DEF FileOther, TypeInv, TypeOK
  <2>2. CASE \E p \in Proc : Statement(p)
    BY <2>2, StatementWork DEF Statement
  <2>3. CASE \E p \in Proc : Start(p) \/ SkipUnresolved(p) \/ Abort(p) \/ Interrupt(p)
    BY <2>3 DEF Start, SkipUnresolved, Abort, Interrupt, End
  <2>4. CASE \E p \in Proc :
               \/ DownloadFacts(p) \/ ScanSubmissions(p) \/ SafetyStop(p) \/ ScanFacts(p)
               \/ AfterFacts(p) \/ AfterProcessed(p) \/ Finish(p) \/ Begin(p)
    BY <2>4 DEF DownloadFacts, ScanSubmissions, SafetyStop, ScanFacts, AfterFacts,
                AfterProcessed, Finish, Begin, End
  <2>5. CASE UNCHANGED vars
    BY <2>5 DEF vars
  <2> QED
    BY <1>4, <2>1, <2>2, <2>3, <2>4, <2>5 DEF Next, UpdateStep
<1>5. CASE ~(\E c \in CIK : FileFinancials(c)) /\ ~(\E p \in Proc : Commit(p))
  BY <1>1, <1>4, <1>5
<1> QED
  BY <1>2, <1>3, <1>5

\* The delta update implements the mirror: without keyboard interrupts,
\* whatever else fails,
\* the facts a reader sees of a company move in one step from one published
\* document to a newer one.
THEOREM ImplementsMirror ==
    ASSUME ~Interrupts
    PROVE  Spec => MirrorsFacts
<1>1. Init => Mirror!Init
  <2> SUFFICES ASSUME Init PROVE Mirror!Init
    OBVIOUS
  <2>1. TypeInv /\ FactsInv
    BY InitTypeInv, InitFactsInv
  <2>2. /\ Mirrored \in [CIK -> 0..MaxVersion] /\ archive.facts \in [CIK -> 0..MaxVersion]
        /\ \A c \in CIK : Mirrored[c] <= archive.facts[c]
    BY <2>1, MirroredIsCompanies, FactsTables DEF FactsInv, TablesOK
  <2> QED
    BY <2>2 DEF Mirror!Init, Mirrored
<1>2. TypeInv /\ FactsInv /\ TypeInv' /\ FactsInv' /\ [Next]_vars
        => [Mirror!Next]_<<archive.facts, Mirrored>>
  BY StepMirrors
<1> QED
  BY FactsInvariant, <1>1, <1>2, PTL DEF Spec, MirrorsFacts, Mirror!Spec, Mirrored
-----------------------------------------------------------------------------
(* Whom an update touches, and what is left to derive.  A transaction       *)
(* differs from the committed tables only in the rows of its companies, and *)
(* within those only in the tables of its phase; when it is complete, what  *)
(* it derived agrees with what it derived it from.  Together with the way   *)
(* the scans narrow the companies to do, this carries both BlastRadius and  *)
(* LagIsQueued.                                                             *)

RestOK(p) == tx[p].open =>
    \A c \in CIK \ tx[p].ciks : RowsOf(tx[p].work, c) = RowsOf(db, c)

SubsKeeps(w, d) ==
    w.tags = d.tags /\ w.rows = d.rows /\ w.std = d.std /\ w.processed = d.processed
FactsKeeps(w, d) == w.std = d.std /\ w.processed = d.processed
ProcessedKeeps(w, d) == w.tags = d.tags /\ w.rows = d.rows /\ w.std = d.std
StdKeeps(w, d) == w.tags = d.tags /\ w.rows = d.rows /\ w.processed = d.processed

ProcessedDone(w, C) == \A c \in C : (c \in w.processed) = (<<c, w.tags[c]>> \in Complete)
StdDone(w, C) == \A c \in C : w.std[c] = w.rows[c]

DerivedOK(p) == tx[p].open =>
    /\ pc[p] = "subs" => SubsKeeps(tx[p].work, db)
    /\ pc[p] = "facts" => FactsKeeps(tx[p].work, db)
    /\ pc[p] = "processed" => /\ ProcessedKeeps(tx[p].work, db)
                              /\ tx[p].step = 1 => tx[p].ciks \cap tx[p].work.processed = {}
                              /\ tx[p].step = 2 => ProcessedDone(tx[p].work, tx[p].ciks)
    /\ pc[p] = "std" => /\ StdKeeps(tx[p].work, db)
                        /\ tx[p].step = 2 => StdDone(tx[p].work, tx[p].ciks)

RadiusOK(p) ==
    /\ job[p].todo \subseteq TouchedBy(p)
    /\ pc[p] \notin {"facts", "processed", "std"} => job[p].changedFacts = {}
    /\ pc[p] \in {"facts", "processed", "std"} => job[p].todo \subseteq job[p].changedFacts
    /\ ~job[p].skip => job[p].changedFacts \subseteq job[p].changedSubs
    /\ ~job[p].skip /\ ~job[p].large => Cardinality(job[p].changedSubs) <= MaxChanged

SpreadOK(p) == RestOK(p) /\ DerivedOK(p) /\ RadiusOK(p)
SpreadInv == \A p \in Proc : SpreadOK(p)

LEMMA SubsStatementKeeps ==
    ASSUME NEW d \in Db, NEW C \in SUBSET CIK, NEW from, NEW n \in 1..4,
           NEW w, w = SubsStatement(d, C, from, n)
    PROVE  /\ SubsKeeps(w, d)
           /\ \A c \in CIK \ C : RowsOf(w, c) = RowsOf(d, c)
<1>1. CASE n = 1
  BY <1>1 DEF SubsStatement, SubsKeeps, RowsOf, Db, Deleted, Table
<1>2. CASE n = 2
  <2> DEFINE e == [d EXCEPT !.deiFacts = Deleted(@, C), !.deiSubs = Deleted(@, C)]
  <2>1. w = e
    BY <1>2 DEF SubsStatement
  <2>2. /\ e.companies = d.companies /\ e.tags = d.tags /\ e.rows = d.rows
        /\ e.submissions = d.submissions /\ e.std = d.std /\ e.processed = d.processed
        /\ e.deiFacts = Deleted(d.deiFacts, C) /\ e.deiSubs = Deleted(d.deiSubs, C)
    BY DEF Db
  <2> HIDE DEF e
  <2> QED
    BY <2>1, <2>2 DEF SubsKeeps, RowsOf, Db, Deleted, Table
<1>3. CASE n = 3
  BY <1>3 DEF SubsStatement, SubsKeeps, RowsOf, Db, Inserted, Table
<1>4. CASE n = 4
  BY <1>4 DEF SubsStatement, SubsKeeps, RowsOf, Db, Inserted, Table
<1> QED
  BY <1>1, <1>2, <1>3, <1>4

LEMMA FactsStatementKeeps ==
    ASSUME NEW d \in Db, NEW C \in SUBSET CIK, NEW from, NEW cache, NEW n \in 1..6,
           NEW w, w = FactsStatement(d, C, from, cache, n)
    PROVE  /\ FactsKeeps(w, d)
           /\ \A c \in CIK \ C : RowsOf(w, c) = RowsOf(d, c)
<1>1. CASE n = 1
  BY <1>1 DEF FactsStatement, FactsKeeps, RowsOf, Db, Deleted, Table
<1>2. CASE n = 2
  BY <1>2 DEF FactsStatement, FactsKeeps, RowsOf, Db, Deleted, Table
<1>3. CASE n = 3
  <2> DEFINE e == [d EXCEPT !.rows = Deleted(@, C), !.deiFacts = Deleted(@, C),
                           !.deiSubs = Deleted(@, C)]
  <2>1. w = e
    BY <1>3 DEF FactsStatement
  <2>2. /\ e.companies = d.companies /\ e.tags = d.tags /\ e.rows = Deleted(d.rows, C)
        /\ e.submissions = d.submissions /\ e.std = d.std /\ e.processed = d.processed
        /\ e.deiFacts = Deleted(d.deiFacts, C) /\ e.deiSubs = Deleted(d.deiSubs, C)
    BY DEF Db
  <2> HIDE DEF e
  <2> QED
    BY <2>1, <2>2 DEF FactsKeeps, RowsOf, Db, Deleted, Table
<1>4. CASE n = 4
  BY <1>4 DEF FactsStatement, FactsKeeps, RowsOf, Db, Inserted, Table
<1>5. CASE n = 5
  <2> DEFINE e == [[d EXCEPT !.dims = @ \cup ({from[c] : c \in C} \ cache)]
                   EXCEPT !.tags = Inserted(@, C, from)]
  <2>1. w = e
    BY <1>5 DEF FactsStatement, WithIds
  <2>2. /\ e.companies = d.companies /\ e.tags = Inserted(d.tags, C, from)
        /\ e.rows = d.rows
        /\ e.submissions = d.submissions /\ e.std = d.std /\ e.processed = d.processed
        /\ e.deiFacts = d.deiFacts /\ e.deiSubs = d.deiSubs
    BY DEF Db
  <2> HIDE DEF e
  <2> QED
    BY <2>1, <2>2 DEF FactsKeeps, RowsOf, Db, Inserted, Table
<1>6. CASE n = 6
  <2> DEFINE e == [d EXCEPT !.rows = Inserted(@, C, from), !.deiFacts = Inserted(@, C, from)]
  <2>1. w = e
    BY <1>6 DEF FactsStatement
  <2>2. /\ e.companies = d.companies /\ e.tags = d.tags /\ e.rows = Inserted(d.rows, C, from)
        /\ e.submissions = d.submissions /\ e.std = d.std /\ e.processed = d.processed
        /\ e.deiFacts = Inserted(d.deiFacts, C, from) /\ e.deiSubs = d.deiSubs
    BY DEF Db
  <2> HIDE DEF e
  <2> QED
    BY <2>1, <2>2 DEF FactsKeeps, RowsOf, Db, Inserted, Table
<1> QED
  BY <1>1, <1>2, <1>3, <1>4, <1>5, <1>6

LEMMA ProcessedStatementKeeps ==
    ASSUME NEW d \in Db, NEW C \in SUBSET CIK, NEW n \in 1..2,
           NEW w, w = ProcessedStatement(d, C, n),
           n = 2 => C \cap d.processed = {}
    PROVE  /\ ProcessedKeeps(w, d)
           /\ \A c \in CIK \ C : RowsOf(w, c) = RowsOf(d, c)
           /\ n = 1 => C \cap w.processed = {}
           /\ n = 2 => ProcessedDone(w, C)
<1>1. CASE n = 1
  BY <1>1 DEF ProcessedStatement, ProcessedKeeps, RowsOf, Db
<1>2. CASE n = 2
  <2>1. /\ ProcessedKeeps(w, d) /\ w.submissions = d.submissions /\ w.companies = d.companies
        /\ w.deiFacts = d.deiFacts /\ w.deiSubs = d.deiSubs
        /\ w.processed = d.processed \cup {c \in C : <<c, d.tags[c]>> \in Complete}
    BY <1>2 DEF ProcessedStatement, ProcessedKeeps, Db
  <2>2. ProcessedDone(w, C)
    BY <1>2, <2>1 DEF ProcessedDone, ProcessedKeeps
  <2>3. \A c \in CIK \ C : RowsOf(w, c) = RowsOf(d, c)
    BY <2>1 DEF RowsOf, ProcessedKeeps
  <2> QED
    BY <1>2, <2>1, <2>2, <2>3
<1> QED
  BY <1>1, <1>2

LEMMA StdStatementKeeps ==
    ASSUME NEW d \in Db, NEW C \in SUBSET CIK, NEW n \in 1..2,
           NEW w, w = StdStatement(d, C, n)
    PROVE  /\ StdKeeps(w, d)
           /\ \A c \in CIK \ C : RowsOf(w, c) = RowsOf(d, c)
           /\ n = 2 => StdDone(w, C)
<1>1. CASE n = 1
  BY <1>1 DEF StdStatement, StdKeeps, RowsOf, Db, Deleted, Table
<1>2. CASE n = 2
  BY <1>2 DEF StdStatement, StdKeeps, StdDone, RowsOf, Db, Inserted, Table
<1> QED
  BY <1>1, <1>2

\* The statement of each phase, applied to what the connection sees.
LEMMA StatementApplied ==
    ASSUME TypeInv, NEW p \in Proc, Statement(p),
           NEW w, w = tx'[p].work, NEW d, d = tx[p].work, NEW C, C = tx[p].ciks,
           NEW n, n = tx[p].step + 1
    PROVE  /\ pc[p] = "subs" => /\ n \in 1..4
                                /\ w = SubsStatement(d, C, job[p].subsZip, n)
           /\ pc[p] = "facts" => /\ n \in 1..6
                                 /\ w = FactsStatement(d, C, job[p].factsZip, idCache[p], n)
           /\ pc[p] = "processed" => n \in 1..2 /\ w = ProcessedStatement(d, C, n)
           /\ pc[p] = "std" => n \in 1..2 /\ w = StdStatement(d, C, n)
<1>1. tx \in [Proc -> Tx] /\ tx[p] \in Tx
  BY DEF TypeInv, TypeOK
<1>2. \A v : Execute(p, v) => tx'[p].work = v
  BY <1>1 DEF Execute, Tx
<1>3. n \in 1..Statements[pc[p]]
  BY StatementWork
<1> QED
  BY <1>2, <1>3, StatementsOfPhase DEF Statement

\* A step of p leaves the others, which are idle, as they were.
LEMMA OthersSpread ==
    ASSUME TypeInv, FactsInv, SpreadInv, NEW p \in Proc, lock \in {p, NoProc},
           \A q \in Proc : q # p => pc'[q] = pc[q] /\ tx'[q] = tx[q] /\ job'[q] = job[q],
           SpreadOK(p)'
    PROVE  SpreadInv'
<1>1. ASSUME NEW q \in Proc, q # p PROVE SpreadOK(q)'
  <2>1. tx[q] = NoTx
    BY <1>1, OthersIdle DEF Idle
  <2>2. RestOK(q)' /\ DerivedOK(q)'
    BY <1>1, <2>1 DEF RestOK, DerivedOK, NoTx
  <2>3. RadiusOK(q)'
    BY <1>1 DEF SpreadInv, SpreadOK, RadiusOK, TouchedBy
  <2> QED
    BY <2>2, <2>3 DEF SpreadOK
<1> QED
  BY <1>1 DEF SpreadInv

LEMMA IdleRadius ==
    ASSUME NEW p \in Proc, pc[p] = "idle", job[p] = IdleJob
    PROVE  RadiusOK(p)
<1>1. Cardinality({}) <= MaxChanged
  BY FS_EmptySet, BoundsAssumption
<1> QED
  BY <1>1 DEF RadiusOK, TouchedBy, IdleJob

LEMMA InitSpread == Init => SpreadInv
<1> SUFFICES ASSUME Init, NEW p \in Proc PROVE SpreadOK(p)
  BY DEF SpreadInv
<1>1. RadiusOK(p)
  BY IdleRadius DEF Init
<1>2. RestOK(p) /\ DerivedOK(p)
  BY DEF Init, RestOK, DerivedOK, NoTx
<1> QED
  BY <1>1, <1>2 DEF SpreadOK

\* The lock holder moves on with new local variables and no transaction.
LEMMA GotoSpread ==
    ASSUME TypeInv, FactsInv, SpreadInv, NEW p \in Proc, NEW phase, NEW j,
           Goto(p, phase, j), tx' = tx, tx[p] = NoTx, lock \in {p, NoProc},
           j.todo \subseteq j.changedSubs \cup j.changedFacts,
           phase \notin {"facts", "processed", "std"} => j.changedFacts = {},
           phase \in {"facts", "processed", "std"} => j.todo \subseteq j.changedFacts,
           ~j.skip => j.changedFacts \subseteq j.changedSubs,
           ~j.skip /\ ~j.large => Cardinality(j.changedSubs) <= MaxChanged
    PROVE  SpreadInv'
<1>1. /\ pc'[p] = phase /\ job'[p] = j
      /\ \A q \in Proc : q # p => pc'[q] = pc[q] /\ job'[q] = job[q]
  BY DEF Goto, TypeInv, TypeOK
<1>2. RestOK(p)' /\ DerivedOK(p)'
  BY DEF RestOK, DerivedOK, NoTx
<1>3. RadiusOK(p)'
  BY <1>1 DEF RadiusOK, TouchedBy
<1>4. SpreadOK(p)'
  BY <1>2, <1>3 DEF SpreadOK
<1> QED
  BY <1>1, <1>4, OthersSpread

LEMMA PhaseSpread ==
    ASSUME TypeInv, FactsInv, SpreadInv, NEW p \in Proc,
           \/ Start(p) \/ DownloadFacts(p) \/ ScanSubmissions(p)
           \/ ScanFacts(p) \/ AfterFacts(p) \/ AfterProcessed(p)
    PROVE  SpreadInv'
<1>1. job[p] \in Job /\ RadiusOK(p)
  BY DEF TypeInv, TypeOK, SpreadInv, SpreadOK
<1>2. lock \in {p, NoProc}
  BY DEF FactsInv, RunOK, Holding, Idle, Start, DownloadFacts, ScanSubmissions,
         ScanFacts, AfterFacts, AfterProcessed
<1>3. tx[p] = NoTx /\ tx' = tx
  BY ClosedConnection, StatementsOfPhase
     DEF Start, DownloadFacts, ScanSubmissions, ScanFacts, AfterFacts, AfterProcessed
<1>4. CASE Start(p)
  <2>1. PICK skip \in SkipModes, large \in LargeModes :
          Goto(p, "locked", [IdleJob EXCEPT !.skip = skip, !.large = large])
    BY <1>4 DEF Start
  <2> DEFINE j == [IdleJob EXCEPT !.skip = skip, !.large = large]
  <2>2. j.todo = {} /\ j.changedSubs = {} /\ j.changedFacts = {}
    BY DEF IdleJob
  <2>3. Cardinality({}) <= MaxChanged
    BY FS_EmptySet, BoundsAssumption
  <2>4. Goto(p, "locked", j)
    BY <2>1
  <2> HIDE DEF j
  <2> QED
    BY <1>2, <1>3, <2>2, <2>3, <2>4, GotoSpread
<1>5. CASE DownloadFacts(p)
  <2> DEFINE j == [job[p] EXCEPT !.factsZip = archive.facts, !.universe = db.processed]
  <2>1. /\ j.todo = job[p].todo /\ j.changedSubs = job[p].changedSubs
        /\ j.changedFacts = job[p].changedFacts /\ j.skip = job[p].skip /\ j.large = job[p].large
    BY <1>1 DEF Job
  <2>2. Goto(p, "ready", j) /\ pc[p] = "locked"
    BY <1>5 DEF DownloadFacts
  <2> HIDE DEF j
  <2> QED
    BY <1>1, <1>2, <1>3, <2>1, <2>2, GotoSpread DEF RadiusOK, TouchedBy
<1>6. CASE ScanSubmissions(p)
  <2> DEFINE j == [job[p] EXCEPT !.subsZip = archive.subs, !.changedSubs = ChangedSubs(p),
                                 !.todo = ChangedSubs(p)]
  <2>1. /\ j.todo = ChangedSubs(p) /\ j.changedSubs = ChangedSubs(p)
        /\ j.changedFacts = job[p].changedFacts /\ j.skip = job[p].skip /\ j.large = job[p].large
    BY <1>1 DEF Job
  <2>2. Goto(p, "subs", j) /\ pc[p] = "ready" /\ ~TooMany(p, ChangedSubs(p))
    BY <1>6 DEF ScanSubmissions
  <2>3. Cardinality(ChangedSubs(p)) \in Nat
    <3>1. ChangedSubs(p) \subseteq CIK
      BY <1>1 DEF ChangedSubs, Job
    <3> QED
      BY <3>1, CikAssumption, FS_Subset, FS_CardinalityType
  <2>4. ~job[p].large => Cardinality(ChangedSubs(p)) <= MaxChanged
    BY <2>2, <2>3, BoundsAssumption DEF TooMany
  <2> HIDE DEF j
  <2> QED
    BY <1>1, <1>2, <1>3, <2>1, <2>2, <2>4, GotoSpread DEF RadiusOK
<1>7. CASE ScanFacts(p)
  <2> DEFINE j == [job[p] EXCEPT !.changedFacts = ChangedFacts(p), !.todo = ChangedFacts(p)]
  <2>1. /\ j.todo = ChangedFacts(p) /\ j.changedSubs = job[p].changedSubs
        /\ j.changedFacts = ChangedFacts(p) /\ j.skip = job[p].skip /\ j.large = job[p].large
    BY <1>1 DEF Job
  <2>2. Goto(p, "facts", j)
    BY <1>7 DEF ScanFacts
  <2>3. ~job[p].skip => ChangedFacts(p) \subseteq job[p].changedSubs
    BY DEF ChangedFacts, FactsScope
  <2> HIDE DEF j
  <2> QED
    BY <1>1, <1>2, <1>3, <2>1, <2>2, <2>3, GotoSpread DEF RadiusOK
<1>8. CASE AfterFacts(p) \/ AfterProcessed(p)
  <2> DEFINE j == [job[p] EXCEPT !.todo = job[p].changedFacts]
  <2>1. /\ j.todo = job[p].changedFacts /\ j.changedSubs = job[p].changedSubs
        /\ j.changedFacts = job[p].changedFacts /\ j.skip = job[p].skip /\ j.large = job[p].large
    BY <1>1 DEF Job
  <2>2. Goto(p, "processed", j) \/ Goto(p, "std", j)
    BY <1>8 DEF AfterFacts, AfterProcessed
  <2> HIDE DEF j
  <2> QED
    BY <1>1, <1>2, <1>3, <2>1, <2>2, GotoSpread DEF RadiusOK
<1> QED
  BY <1>4, <1>5, <1>6, <1>7, <1>8

LEMMA EndSpread ==
    ASSUME TypeInv, FactsInv, SpreadInv, NEW p \in Proc, pc[p] # "idle", End(p)
    PROVE  SpreadInv'
<1>1. /\ pc'[p] = "idle" /\ job'[p] = IdleJob /\ tx'[p] = NoTx
      /\ \A q \in Proc : q # p => pc'[q] = pc[q] /\ tx'[q] = tx[q] /\ job'[q] = job[q]
  BY DEF End, Goto, TypeInv, TypeOK
<1>2. Cardinality({}) <= MaxChanged
  BY FS_EmptySet, BoundsAssumption
<1>3. SpreadOK(p)'
  BY <1>1, <1>2 DEF SpreadOK, RestOK, DerivedOK, RadiusOK, TouchedBy, IdleJob, NoTx
<1>4. lock = p
  BY DEF FactsInv, RunOK, Holding, Idle
<1> QED
  BY <1>1, <1>3, <1>4, OthersSpread

LEMMA BeginSpread ==
    ASSUME TypeInv, FactsInv, SpreadInv, NEW p \in Proc, Begin(p)
    PROVE  SpreadInv'
<1>1. PICK C : tx' = [tx EXCEPT ![p] = [open |-> TRUE, ciks |-> C, step |-> 0, work |-> db]]
  BY DEF Begin
<1>2. UNCHANGED <<db, lock, pc, job>> /\ pc[p] \in DOMAIN Statements
  BY DEF Begin
<1>3. /\ tx'[p] = [open |-> TRUE, ciks |-> C, step |-> 0, work |-> db]
      /\ \A q \in Proc : q # p => tx'[q] = tx[q]
  BY <1>1 DEF TypeInv, TypeOK
<1>4. RestOK(p)'
  BY <1>2, <1>3 DEF RestOK, RowsOf
<1>5. DerivedOK(p)'
  BY <1>2, <1>3 DEF DerivedOK, SubsKeeps, FactsKeeps, ProcessedKeeps, StdKeeps
<1>6. RadiusOK(p)'
  BY <1>2 DEF SpreadInv, SpreadOK, RadiusOK, TouchedBy
<1>7. lock = p
  BY <1>2, StatementsOfPhase DEF FactsInv, RunOK, Holding, Idle
<1> QED
  BY <1>2, <1>3, <1>4, <1>5, <1>6, <1>7, OthersSpread DEF SpreadOK

LEMMA StatementSpread ==
    ASSUME TypeInv, FactsInv, SpreadInv, NEW p \in Proc, Statement(p)
    PROVE  SpreadInv'
<1>1. PICK w, d, C, n : /\ w = tx'[p].work /\ d = tx[p].work
                        /\ C = tx[p].ciks /\ n = tx[p].step + 1
  OBVIOUS
<1>2. /\ tx[p].open /\ db' = db /\ tx'[p].open /\ tx'[p].ciks = C /\ tx'[p].step = n
      /\ \A q \in Proc : q # p => tx'[q] = tx[q]
  BY <1>1, StatementWork
<1>3. UNCHANGED <<lock, pc, job>> /\ pc[p] \in DOMAIN Statements
  BY DEF Statement
<1>4. d \in Db /\ C \in SUBSET CIK /\ tx[p].step \in 0..6
  BY <1>1 DEF TypeInv, TypeOK, Tx
<1>5. RestOK(p) /\ DerivedOK(p) /\ RadiusOK(p)
  BY DEF SpreadInv, SpreadOK
<1>6. \A c \in CIK \ C : RowsOf(d, c) = RowsOf(db, c)
  BY <1>1, <1>2, <1>5 DEF RestOK
<1>7. /\ \A c \in CIK \ C : RowsOf(w, c) = RowsOf(d, c)
      /\ DerivedOK(p)'
  <2>1. CASE pc[p] = "subs"
    <3>1. n \in 1..4 /\ w = SubsStatement(d, C, job[p].subsZip, n)
      BY <1>1, <2>1, StatementApplied
    <3>2. /\ SubsKeeps(w, d)
          /\ \A c \in CIK \ C : RowsOf(w, c) = RowsOf(d, c)
      BY <1>4, <3>1, SubsStatementKeeps
    <3>3. DerivedOK(p)'
      BY <1>1, <1>2, <1>3, <1>5, <2>1, <3>2 DEF DerivedOK, SubsKeeps
    <3> QED
      BY <3>2, <3>3
  <2>2. CASE pc[p] = "facts"
    <3>1. n \in 1..6 /\ w = FactsStatement(d, C, job[p].factsZip, idCache[p], n)
      BY <1>1, <2>2, StatementApplied
    <3>2. /\ FactsKeeps(w, d)
          /\ \A c \in CIK \ C : RowsOf(w, c) = RowsOf(d, c)
      BY <1>4, <3>1, FactsStatementKeeps
    <3>3. DerivedOK(p)'
      BY <1>1, <1>2, <1>3, <1>5, <2>2, <3>2 DEF DerivedOK, FactsKeeps
    <3> QED
      BY <3>2, <3>3
  <2>3. CASE pc[p] = "processed"
    <3>1. n \in 1..2 /\ w = ProcessedStatement(d, C, n)
      BY <1>1, <2>3, StatementApplied
    <3>2. n = 2 => C \cap d.processed = {}
      BY <1>1, <1>2, <1>4, <1>5, <2>3 DEF DerivedOK
    <3>3. /\ ProcessedKeeps(w, d)
          /\ \A c \in CIK \ C : RowsOf(w, c) = RowsOf(d, c)
          /\ n = 1 => C \cap w.processed = {}
          /\ n = 2 => ProcessedDone(w, C)
      BY <1>4, <3>1, <3>2, ProcessedStatementKeeps
    <3>4. ProcessedKeeps(w, db)
      BY <1>1, <1>2, <1>5, <2>3, <3>3 DEF DerivedOK, ProcessedKeeps
    <3>5. DerivedOK(p)'
      BY <1>1, <1>2, <1>3, <2>3, <3>3, <3>4 DEF DerivedOK
    <3> QED
      BY <3>3, <3>5
  <2>4. CASE pc[p] = "std"
    <3>1. n \in 1..2 /\ w = StdStatement(d, C, n)
      BY <1>1, <2>4, StatementApplied
    <3>2. /\ StdKeeps(w, d)
          /\ \A c \in CIK \ C : RowsOf(w, c) = RowsOf(d, c)
          /\ n = 2 => StdDone(w, C)
      BY <1>4, <3>1, StdStatementKeeps
    <3>3. StdKeeps(w, db)
      BY <1>1, <1>2, <1>5, <2>4, <3>2 DEF DerivedOK, StdKeeps
    <3>4. DerivedOK(p)'
      BY <1>1, <1>2, <1>3, <2>4, <3>2, <3>3 DEF DerivedOK
    <3> QED
      BY <3>2, <3>4
  <2> QED
    BY <1>3, <2>1, <2>2, <2>3, <2>4, StatementsOfPhase
<1>8. RestOK(p)'
  BY <1>1, <1>2, <1>6, <1>7 DEF RestOK, RowsOf
<1>9. RadiusOK(p)'
  BY <1>3, <1>5 DEF RadiusOK, TouchedBy
<1>10. lock = p
  BY <1>3, StatementsOfPhase DEF FactsInv, RunOK, Holding, Idle
<1> QED
  BY <1>2, <1>3, <1>7, <1>8, <1>9, <1>10, OthersSpread DEF SpreadOK

\* Companies done are crossed off the list, by a commit or by a skip.
LEMMA CrossedOffSpread ==
    ASSUME TypeInv, FactsInv, SpreadInv, NEW p \in Proc, pc[p] # "idle", NEW D,
           job' = [job EXCEPT ![p].todo = @ \ D], pc' = pc, tx' = [tx EXCEPT ![p] = NoTx]
    PROVE  SpreadInv'
<1>1. job[p] \in Job /\ job'[p] = [job[p] EXCEPT !.todo = @ \ D]
  BY DEF TypeInv, TypeOK
<1>2. /\ job'[p].todo = job[p].todo \ D /\ job'[p].changedSubs = job[p].changedSubs
      /\ job'[p].changedFacts = job[p].changedFacts
      /\ job'[p].skip = job[p].skip /\ job'[p].large = job[p].large
  BY <1>1 DEF Job
<1>3. RadiusOK(p)'
  BY <1>2 DEF SpreadInv, SpreadOK, RadiusOK, TouchedBy
<1>4. /\ tx'[p] = NoTx
      /\ \A q \in Proc : q # p => pc'[q] = pc[q] /\ tx'[q] = tx[q] /\ job'[q] = job[q]
  BY DEF TypeInv, TypeOK
<1>5. RestOK(p)' /\ DerivedOK(p)'
  BY <1>4 DEF RestOK, DerivedOK, NoTx
<1>6. lock = p
  BY DEF FactsInv, RunOK, Holding, Idle
<1> QED
  BY <1>3, <1>4, <1>5, <1>6, OthersSpread DEF SpreadOK

LEMMA NextSpread == TypeInv /\ FactsInv /\ SpreadInv /\ [Next]_vars => SpreadInv'
<1> SUFFICES ASSUME TypeInv, FactsInv, SpreadInv, [Next]_vars PROVE SpreadInv'
  OBVIOUS
<1>1. ASSUME UNCHANGED <<db, pc, job, tx>> PROVE SpreadInv'
  BY <1>1 DEF SpreadInv, SpreadOK, RestOK, DerivedOK, RadiusOK, TouchedBy, RowsOf,
              SubsKeeps, FactsKeeps, ProcessedKeeps, StdKeeps, ProcessedDone, StdDone
<1>2. ASSUME NEW c \in CIK, FileFinancials(c) \/ FileOther(c) PROVE SpreadInv'
  BY <1>1, <1>2 DEF FileFinancials, FileOther
<1>3. ASSUME NEW p \in Proc, Start(p) PROVE SpreadInv'
  BY <1>3, PhaseSpread
<1>4. ASSUME NEW p \in Proc, UpdateStep(p) PROVE SpreadInv'
  <2>1. CASE SafetyStop(p) \/ Finish(p)
    BY <2>1, EndSpread DEF SafetyStop, Finish
  <2>2. CASE Commit(p)
    BY <2>2, CrossedOffSpread, StatementsOfPhase DEF Commit
  <2> QED
    BY <1>4, <2>1, <2>2, PhaseSpread, BeginSpread, StatementSpread DEF UpdateStep
<1>5. ASSUME NEW p \in Proc, SkipUnresolved(p) PROVE SpreadInv'
  <2>1. PICK c : job' = [job EXCEPT ![p].todo = @ \ {c}]
    BY <1>5 DEF SkipUnresolved
  <2>2. tx[p] = NoTx /\ tx' = tx /\ pc' = pc /\ pc[p] = "std"
    BY <1>5, ClosedConnection DEF SkipUnresolved
  <2>3. tx' = [tx EXCEPT ![p] = NoTx]
    BY <2>2 DEF TypeInv, TypeOK
  <2> QED
    BY <2>1, <2>2, <2>3, CrossedOffSpread
<1>6. ASSUME NEW p \in Proc, Abort(p) \/ Interrupt(p) PROVE SpreadInv'
  BY <1>6, EndSpread DEF Abort, Interrupt
<1>7. CASE UNCHANGED vars
  BY <1>1, <1>7 DEF vars
<1> QED
  BY <1>2, <1>3, <1>4, <1>5, <1>6, <1>7 DEF Next

LEMMA SpreadInvariant == Spec => [](TypeInv /\ FactsInv /\ SpreadInv)
BY FactsInvariant, InitSpread, NextSpread, PTL DEF Spec

\* Only a commit, of the run or of the exit hook, changes the tables.
LEMMA WhoChangesTables ==
    ASSUME TypeInv, [Next]_vars, db' # db
    PROVE  \E p \in Proc : /\ Commit(p) \/ Interrupt(p)
                           /\ tx[p].open /\ pc[p] # "idle" /\ db' = tx[p].work
<1>1. ASSUME NEW p \in Proc, Commit(p)
      PROVE  tx[p].open /\ pc[p] # "idle" /\ db' = tx[p].work
  BY <1>1, StatementsOfPhase DEF Commit, TypeInv, ConnectionOK, NoTx
<1>2. ASSUME NEW p \in Proc, Interrupt(p)
      PROVE  tx[p].open /\ pc[p] # "idle" /\ db' = tx[p].work
  BY <1>2 DEF Interrupt
<1>3. ~\E p \in Proc : Statement(p)
  BY StatementWork
<1>4. ~\E p \in Proc : \/ Start(p) \/ SkipUnresolved(p) \/ Abort(p)
                       \/ DownloadFacts(p) \/ ScanSubmissions(p) \/ SafetyStop(p)
                       \/ ScanFacts(p) \/ AfterFacts(p) \/ AfterProcessed(p)
                       \/ Finish(p) \/ Begin(p)
  BY DEF Start, SkipUnresolved, Abort, DownloadFacts, ScanSubmissions, SafetyStop, ScanFacts,
         AfterFacts, AfterProcessed, Finish, Begin
<1>5. ~\E c \in CIK : FileFinancials(c) \/ FileOther(c)
  BY DEF FileFinancials, FileOther
<1>6. ~UNCHANGED vars
  BY DEF vars
<1> QED
  BY <1>1, <1>2, <1>3, <1>4, <1>5, <1>6 DEF Next, UpdateStep

\* Without SEC_ALLOW_LARGE_UPDATE a run that looks at submissions changes the
\* rows of at most SEC_MAX_CHANGED_CIKS companies, in any table and whether it
\* is committed or interrupted: the limit is checked on the companies whose
\* submissions changed, and every later list is drawn from those.
THEOREM RadiusIsBounded == Spec => BlastRadius
<1>1. ASSUME TypeInv, FactsInv, SpreadInv, [Next]_vars, NEW c \in CIK,
             RowsOf(db', c) # RowsOf(db, c)
      PROVE  \E p \in Proc :
               /\ lock = p /\ c \in TouchedBy(p)
               /\ job[p].skip \/ job[p].large \/ Cardinality(TouchedBy(p)) <= MaxChanged
  <2>1. PICK p \in Proc : tx[p].open /\ pc[p] # "idle" /\ db' = tx[p].work
    BY <1>1, WhoChangesTables
  <2>2. lock = p
    BY <1>1, <2>1 DEF FactsInv, RunOK, Holding, Idle
  <2>3. c \in tx[p].ciks
    BY <1>1, <2>1 DEF SpreadInv, SpreadOK, RestOK
  <2>4. tx[p].ciks \subseteq job[p].todo
    BY <1>1, <2>1 DEF TypeInv, ConnectionOK, NoTx
  <2>5. RadiusOK(p)
    BY <1>1 DEF SpreadInv, SpreadOK
  <2>6. c \in TouchedBy(p)
    BY <2>3, <2>4, <2>5 DEF RadiusOK
  <2>7. ~job[p].skip => TouchedBy(p) = job[p].changedSubs
    BY <2>5 DEF RadiusOK, TouchedBy
  <2> QED
    BY <2>2, <2>5, <2>6, <2>7 DEF RadiusOK
<1>2. TypeInv /\ FactsInv /\ SpreadInv /\ [Next]_vars =>
        [\A c \in CIK : RowsOf(db', c) # RowsOf(db, c) =>
           \E p \in Proc :
             /\ lock = p /\ c \in TouchedBy(p)
             /\ job[p].skip \/ job[p].large \/ Cardinality(TouchedBy(p)) <= MaxChanged]_vars
  BY <1>1
<1> QED
  BY SpreadInvariant, <1>2, PTL DEF Spec, BlastRadius

-----------------------------------------------------------------------------
(* What is derived lags behind only where it is queued.                     *)

StdLags(c) == db.std[c] # db.rows[c]
ProcessedLags(c) == (c \in db.processed) # (<<c, db.tags[c]>> \in Complete)

StdQueued(p, c) ==
    \/ pc[p] \in {"facts", "processed"} /\ c \in job[p].changedFacts
    \/ pc[p] = "std" /\ c \in job[p].todo
ProcessedQueued(p, c) ==
    \/ pc[p] = "facts" /\ c \in job[p].changedFacts
    \/ pc[p] = "processed" /\ c \in job[p].todo

\* The lags of company c are on the lists of process p.
Covered(p, c) == /\ StdLags(c) => StdQueued(p, c)
                 /\ ProcessedLags(c) => ProcessedQueued(p, c)
UpToDate(c) == ~StdLags(c) /\ ~ProcessedLags(c)

\* Only the lock holder has a list.
LEMMA HolderCovers ==
    ASSUME TypeInv, FactsInv, LagIsQueued, faults = 0, NEW p \in Proc, pc[p] # "idle",
           NEW c \in CIK
    PROVE  Covered(p, c)
<1>1. \A q \in Proc : pc[q] # "idle" => q = p
  BY DEF FactsInv, RunOK, Holding, Idle
<1> QED
  BY <1>1 DEF LagIsQueued, Covered, StdLags, ProcessedLags, StdQueued, ProcessedQueued

LEMMA NobodyCovers ==
    ASSUME TypeInv, FactsInv, LagIsQueued, faults = 0, lock = NoProc, NEW c \in CIK
    PROVE  UpToDate(c)
<1>1. \A q \in Proc : pc[q] = "idle"
  BY NoProcAssumption DEF FactsInv, RunOK, Holding, Idle
<1> QED
  BY <1>1 DEF LagIsQueued, UpToDate, StdLags, ProcessedLags

LEMMA CoveredNext ==
    ASSUME NEW p \in Proc, \A c \in CIK : Covered(p, c)'
    PROVE  LagIsQueued'
BY DEF LagIsQueued, Covered, StdLags, ProcessedLags, StdQueued, ProcessedQueued

LEMMA UpToDateNext ==
    ASSUME \A c \in CIK : UpToDate(c), UNCHANGED db
    PROVE  LagIsQueued'
BY DEF LagIsQueued, UpToDate, StdLags, ProcessedLags

LEMMA CommitLag ==
    ASSUME TypeInv, FactsInv, SpreadInv, LagIsQueued, faults = 0, NEW p \in Proc, Commit(p)
    PROVE  LagIsQueued'
<1>1. /\ tx[p].open /\ pc[p] # "idle" /\ pc[p] \in DOMAIN Statements
      /\ tx[p].step = Statements[pc[p]] /\ db' = tx[p].work /\ pc' = pc
      /\ tx[p].ciks \subseteq job[p].todo
  BY StatementsOfPhase DEF Commit, TypeInv, ConnectionOK, NoTx
<1>2. /\ job'[p].todo = job[p].todo \ tx[p].ciks
      /\ job'[p].changedFacts = job[p].changedFacts
  BY DEF Commit, TypeInv, TypeOK, Job
<1>3. RestOK(p) /\ DerivedOK(p) /\ RadiusOK(p)
  BY DEF SpreadInv, SpreadOK
<1>4. ASSUME NEW c \in CIK PROVE Covered(p, c)'
  <2>1. Covered(p, c)
    BY <1>1, HolderCovers
  <2>2. c \notin tx[p].ciks => (StdLags(c)' <=> StdLags(c)) /\ (ProcessedLags(c)' <=> ProcessedLags(c))
    BY <1>1, <1>3 DEF RestOK, RowsOf, StdLags, ProcessedLags
  <2>3. CASE pc[p] = "subs"
    <3>1. (StdLags(c)' <=> StdLags(c)) /\ (ProcessedLags(c)' <=> ProcessedLags(c))
      BY <1>1, <1>3, <2>3 DEF DerivedOK, SubsKeeps, StdLags, ProcessedLags
    <3> QED
      BY <1>1, <2>1, <2>3, <3>1 DEF Covered, StdQueued, ProcessedQueued
  <2>4. CASE pc[p] = "facts"
    <3>1. c \in tx[p].ciks => c \in job[p].changedFacts
      BY <1>1, <1>3, <2>4 DEF RadiusOK
    <3> QED
      BY <1>1, <1>2, <2>1, <2>2, <2>4, <3>1 DEF Covered, StdQueued, ProcessedQueued
  <2>5. CASE pc[p] = "processed"
    <3>1. StdLags(c)' <=> StdLags(c)
      BY <1>1, <1>3, <2>5 DEF DerivedOK, ProcessedKeeps, StdLags
    <3>2. c \in tx[p].ciks => ~ProcessedLags(c)'
      BY <1>1, <1>3, <2>5, StatementsOfPhase DEF DerivedOK, ProcessedDone, ProcessedLags
    <3> QED
      BY <1>1, <1>2, <2>1, <2>2, <2>5, <3>1, <3>2 DEF Covered, StdQueued, ProcessedQueued
  <2>6. CASE pc[p] = "std"
    <3>1. ProcessedLags(c)' <=> ProcessedLags(c)
      BY <1>1, <1>3, <2>6 DEF DerivedOK, StdKeeps, ProcessedLags
    <3>2. c \in tx[p].ciks => ~StdLags(c)'
      BY <1>1, <1>3, <2>6, StatementsOfPhase DEF DerivedOK, StdDone, StdLags
    <3> QED
      BY <1>1, <1>2, <2>1, <2>2, <2>6, <3>1, <3>2 DEF Covered, StdQueued, ProcessedQueued
  <2> QED
    BY <1>1, <2>3, <2>4, <2>5, <2>6, StatementsOfPhase
<1> QED
  BY <1>4, CoveredNext

LEMMA PhaseLag ==
    ASSUME TypeInv, FactsInv, SpreadInv, LagIsQueued, faults = 0, NEW p \in Proc,
           \/ Start(p) \/ DownloadFacts(p) \/ ScanSubmissions(p)
           \/ ScanFacts(p) \/ AfterFacts(p) \/ AfterProcessed(p)
    PROVE  LagIsQueued'
<1>1. UNCHANGED db
  BY DEF Start, DownloadFacts, ScanSubmissions, ScanFacts, AfterFacts, AfterProcessed
<1>2. CASE Start(p)
  BY <1>1, <1>2, NobodyCovers, UpToDateNext DEF Start
<1>3. CASE DownloadFacts(p) \/ ScanSubmissions(p) \/ ScanFacts(p)
  <2>1. pc[p] \in {"locked", "ready", "subs"}
    BY <1>3 DEF DownloadFacts, ScanSubmissions, ScanFacts
  <2>2. \A c \in CIK : UpToDate(c)
    BY <2>1, HolderCovers DEF Covered, UpToDate, StdQueued, ProcessedQueued
  <2> QED
    BY <1>1, <2>2, UpToDateNext
<1>4. CASE AfterFacts(p) \/ AfterProcessed(p)
  <2>1. /\ pc[p] \in {"facts", "processed"} /\ job[p].todo = {}
        /\ pc' = [pc EXCEPT ![p] = IF pc[p] = "facts" THEN "processed" ELSE "std"]
        /\ job' = [job EXCEPT ![p] = [job[p] EXCEPT !.todo = job[p].changedFacts]]
    BY <1>4 DEF AfterFacts, AfterProcessed, Goto
  <2>2. /\ pc'[p] = IF pc[p] = "facts" THEN "processed" ELSE "std"
        /\ job'[p].todo = job[p].changedFacts
        /\ job'[p].changedFacts = job[p].changedFacts
    BY <2>1 DEF TypeInv, TypeOK, Job
  <2>3. ASSUME NEW c \in CIK PROVE Covered(p, c)'
    <3>1. Covered(p, c)
      BY <2>1, HolderCovers
    <3>2. (StdLags(c)' <=> StdLags(c)) /\ (ProcessedLags(c)' <=> ProcessedLags(c))
      BY <1>1 DEF StdLags, ProcessedLags
    <3> QED
      BY <2>1, <2>2, <3>1, <3>2 DEF Covered, StdQueued, ProcessedQueued
  <2> QED
    BY <2>3, CoveredNext
<1> QED
  BY <1>2, <1>3, <1>4

LEMMA NextLag == TypeInv /\ FactsInv /\ SpreadInv /\ LagIsQueued /\ [Next]_vars => LagIsQueued'
<1> SUFFICES ASSUME TypeInv, FactsInv, SpreadInv, LagIsQueued, [Next]_vars PROVE LagIsQueued'
  OBVIOUS
<1>1. CASE faults' # 0
  BY <1>1 DEF LagIsQueued
<1>2. ASSUME UNCHANGED <<db, pc, job, faults>> PROVE LagIsQueued'
  BY <1>2 DEF LagIsQueued
<1>3. ASSUME NEW c \in CIK, FileFinancials(c) \/ FileOther(c) PROVE LagIsQueued'
  BY <1>2, <1>3 DEF FileFinancials, FileOther
<1>4. ASSUME NEW p \in Proc, Start(p), faults' = 0 PROVE LagIsQueued'
  BY <1>4, PhaseLag DEF Start
<1>5. ASSUME NEW p \in Proc, UpdateStep(p), faults' = 0 PROVE LagIsQueued'
  <2>1. faults = 0
    BY <1>5 DEF UpdateStep, DownloadFacts, ScanSubmissions, SafetyStop, ScanFacts, AfterFacts,
                AfterProcessed, Finish, Begin, Statement, Commit
  <2>2. CASE SafetyStop(p) \/ Finish(p)
    <3>1. /\ pc[p] \in {"ready", "facts", "std"}
          /\ pc[p] = "facts" => job[p].changedFacts = {}
          /\ pc[p] = "std" => job[p].todo = {}
          /\ UNCHANGED db
      BY <2>2 DEF SafetyStop, Finish
    <3>2. \A c \in CIK : UpToDate(c)
      BY <2>1, <3>1, HolderCovers DEF Covered, UpToDate, StdQueued, ProcessedQueued
    <3> QED
      BY <3>1, <3>2, UpToDateNext
  <2>3. CASE Begin(p)
    BY <1>2, <2>3 DEF Begin
  <2>4. CASE Statement(p)
    BY <1>2, <2>4, StatementWork DEF Statement
  <2> QED
    BY <1>5, <2>1, <2>2, <2>3, <2>4, PhaseLag, CommitLag DEF UpdateStep
<1>6. ASSUME NEW p \in Proc, SkipUnresolved(p) \/ Abort(p) \/ Interrupt(p) PROVE LagIsQueued'
  <2>1. faults \in Nat /\ faults' = faults + 1
    BY <1>6, BoundsAssumption DEF SkipUnresolved, Abort, Interrupt, TypeInv, TypeOK
  <2> QED
    BY <1>1, <2>1
<1>7. CASE UNCHANGED vars
  BY <1>2, <1>7 DEF vars
<1> QED
  BY <1>1, <1>3, <1>4, <1>5, <1>6, <1>7 DEF Next

LEMMA InitLag == Init => LagIsQueued
<1> SUFFICES ASSUME Init PROVE LagIsQueued
  OBVIOUS
<1>1. PICK F \in SUBSET CIK : \E C \in SUBSET F : db = Loaded(C)
  BY DEF Init
<1>2. PICK C \in SUBSET CIK : db = Loaded(C)
  BY <1>1
<1>3. /\ db.std = db.rows
      /\ db.tags = Inserted(NoRows, C, [c \in CIK |-> 1])
      /\ db.processed = {c \in C : <<c, 1>> \in Complete}
  BY <1>2 DEF Loaded
<1>4. \A c \in CIK : <<c, None>> \notin Complete
  BY CompleteAssumption, BoundsAssumption DEF Version, None
<1>5. ASSUME NEW c \in CIK PROVE (c \in db.processed) = (<<c, db.tags[c]>> \in Complete)
  <2>1. db.tags[c] = IF c \in C THEN 1 ELSE None
    BY <1>3 DEF Inserted, NoRows
  <2>2. CASE c \in C
    BY <1>3, <2>1, <2>2
  <2>3. CASE c \notin C
    BY <1>3, <1>4, <2>1, <2>3
  <2> QED
    BY <2>2, <2>3
<1> QED
  BY <1>3, <1>5 DEF LagIsQueued

\* While nothing fails, the standardized rows and processed_ciks lag behind
\* the facts only for companies the running update still has on a list, so a
\* run that ends leaves both up to date.
THEOREM LagIsAlwaysQueued == Spec => []LagIsQueued
BY SpreadInvariant, InitLag, NextLag, PTL DEF Spec
=============================================================================
