------------------------ MODULE CrossReferenceProofs ------------------------
(***************************************************************************)
(* Theorems about the lists and their lookups: for any companies, names,   *)
(* processes and lists, and any sizes of the batches.                      *)
(***************************************************************************)
EXTENDS CrossReference, FiniteSetTheorems, WellFoundedInduction, TLAPS

-----------------------------------------------------------------------------
(* Data.                                                                    *)

LEMMA OrderType ==
  /\ Len(Order) = 4
  /\ \A i \in 1..4 : Order[i] \in Tables
  /\ \A t \in Tables : \E i \in 1..4 : Order[i] = t
  BY DEF Order, Tables

LEMMA ListType ==
  ASSUME NEW t \in Tables, NEW v \in 1..Versions[t]
  PROVE  Listed[t][v] \in SUBSET (CIK \X Name \X Line) /\ IsFiniteSet(Listed[t][v])
  BY XrefLists, FiniteLists DEF XrefLists, FiniteLists

LEMMA MaxExists ==
  ASSUME NEW n \in Nat, NEW S \in SUBSET (0..n), S # {}
  PROVE  Max(S) \in S /\ \A y \in S : y <= Max(S)
<1> DEFINE T == {n - x : x \in S}
<1>1. T \subseteq Nat
  OBVIOUS
<1>2. T # {}
  OBVIOUS
<1> HIDE DEF T
<1>3. PICK m \in T : \A y \in T : ~(<<y, m>> \in OpToRel(<, Nat))
  BY <1>1, <1>2, NatLessThanWellFounded, WFMin
<1>4. \A y \in T : ~(y < m)
  BY <1>1, <1>3 DEF OpToRel
<1>5. \E x \in S : \A y \in S : x >= y
  <2>1. PICK x \in S : m = n - x
    BY DEF T
  <2>2. \A y \in S : ~(n - y < n - x)
    BY <1>4, <2>1 DEF T
  <2> QED
    BY <2>2
<1> QED
  BY <1>5 DEF Max

-----------------------------------------------------------------------------
(* Types, with what the locals of a run say of each other.                  *)

\* The list a run is replacing table At(p) by.
ListOf(j) == Listed[Order[j.at]][j.lists[Order[j.at]]]

\* Nothing is inserted before all is deleted, nor an id taken.
JobShape(j) ==
    j.at # 0 =>
      /\ \A t \in Tables : j.lists[t] \in 1..Versions[t]
      /\ j.put \subseteq ListOf(j)
      /\ j.drop # {} => j.put = ListOf(j)
      /\ j.top # NoTop => j.drop = {} /\ Order[j.at] = "entities"

\* Rows of the other tables have no id.
Keyed == \A t \in Tables \ {"entities"} : \A r \in db[t] : r.id = 0

TypeInv == TypeOK /\ Keyed /\ \A p \in Pipeline : JobShape(job[p])

LEMMA IdleType == Idle \in Job /\ JobShape(Idle) /\ Idle.at = 0
<1>1. NoLists \in [Tables -> Nat]
  BY DEF NoLists
<1>2. NoTop \in NoTop..MaxId
  BY XrefBounds DEF XrefBounds, NoTop
<1> QED
  BY <1>1, <1>2, OrderType DEF Idle, Job, JobShape

LEMMA OpenType ==
  ASSUME NEW i \in 1..4, NEW lists \in [Tables -> Nat],
         \A t \in Tables : lists[t] \in 1..Versions[t]
  PROVE  Open(i, lists) \in Job /\ JobShape(Open(i, lists))
<1> DEFINE L == Listed[Order[i]][lists[Order[i]]]
<1>1. Order[i] \in Tables /\ lists[Order[i]] \in 1..Versions[Order[i]]
  BY OrderType
<1>2. L \in SUBSET (CIK \X Name \X Line)
  BY <1>1, ListType
<1> HIDE DEF L
<1>3. Companies(L) \in SUBSET CIK
  BY <1>2 DEF Companies
<1>4. NoTop \in NoTop..MaxId
  BY XrefBounds DEF XrefBounds, NoTop
<1>5. Open(i, lists) = [at |-> i, lists |-> lists, drop |-> Companies(L),
                        put |-> L, top |-> NoTop]
  BY DEF Open, L
<1>6. Open(i, lists) \in Job
  BY <1>2, <1>3, <1>4, <1>5, OrderType DEF Job
<1>7. ListOf(Open(i, lists)) = L
  BY <1>5 DEF ListOf, L
<1> QED
  BY <1>5, <1>6, <1>7 DEF JobShape

\* The tables that are left alone keep their types, and so do other jobs.
LEMMA TypeStep ==
  ASSUME TypeInv, NEW p \in Pipeline, NEW j \in Job, JobShape(j),
         job' = [job EXCEPT ![p] = j], UNCHANGED <<list, db>>,
         solo' \subseteq Pipeline, overlapped' \in BOOLEAN, clean' \in BOOLEAN
  PROVE  TypeInv'
<1>1. job' \in [Pipeline -> Job] /\ \A q \in Pipeline : JobShape(job'[q])
  BY DEF TypeInv, TypeOK
<1>2. list' \in [Tables -> Nat] /\ \A t \in Tables : list'[t] \in 1..Versions[t]
  BY DEF TypeInv, TypeOK
<1>3. db' \in [Tables -> SUBSET Row] /\ Keyed'
  BY DEF TypeInv, TypeOK, Keyed
<1> QED
  BY <1>1, <1>2, <1>3 DEF TypeInv, TypeOK, JobShape, ListOf

\* A batch has as many rows as it has entries.
LEMMA ChunkSize ==
  ASSUME NEW S, NEW n \in Nat \ {0}, NEW C \in Chunks(S, n), IsFiniteSet(S)
  PROVE  C \subseteq S /\ C # {} /\ Cardinality(C) \in Nat
  BY FS_Subset, FS_CardinalityType DEF Chunks

LEMMA BatchType ==
  ASSUME TypeInv, NEW p \in Pipeline, NEW C \in Batches(p)
  PROVE  /\ job[p].at \in 1..4 /\ At(p) \in Tables /\ job[p].drop = {}
         /\ C \subseteq job[p].put /\ C # {}
         /\ C \in SUBSET (CIK \X Name \X Line) /\ Cardinality(C) \in Nat
         /\ At(p) = "entities" =>
              job[p].top \in Nat /\ job[p].top + Cardinality(C) <= MaxId
<1>1. job[p] \in Job /\ JobShape(job[p])
  BY DEF TypeInv, TypeOK
<1>2. /\ Inserting(p) /\ (At(p) = "entities" => job[p].top # NoTop)
      /\ C \in Chunks(job[p].put, InsertBatch)
      /\ At(p) = "entities" => job[p].top + Cardinality(C) <= MaxId
  BY DEF Batches
<1>3. job[p].at \in 1..4 /\ job[p].drop = {}
  BY <1>1, <1>2, OrderType DEF Inserting, Job
<1>4. At(p) \in Tables
  BY <1>3, OrderType DEF At
<1>5. job[p].put \subseteq ListOf(job[p]) /\ job[p].lists[At(p)] \in 1..Versions[At(p)]
  BY <1>1, <1>3, <1>4 DEF JobShape
<1>6. IsFiniteSet(job[p].put)
  BY <1>4, <1>5, ListType, FS_Subset DEF ListOf, At
<1>7. C \subseteq job[p].put /\ C # {} /\ Cardinality(C) \in Nat
  BY <1>2, <1>6, ChunkSize, XrefBounds DEF XrefBounds
<1>8. job[p].put \in SUBSET (CIK \X Name \X Line) /\ job[p].top \in NoTop..MaxId
  BY <1>1 DEF Job
<1> QED
  BY <1>2, <1>3, <1>4, <1>7, <1>8, XrefBounds DEF XrefBounds, NoTop

\* The rows a batch becomes: one for each entry, the new ids above the top.
LEMMA EncodedType ==
  ASSUME TypeInv, NEW p \in Pipeline, NEW C \in Batches(p), NEW rows \in Encoded(p, C)
  PROVE  /\ rows \in SUBSET Row
         /\ \A r \in rows : Entry(r) \in C
         /\ \A e \in C : \E r \in rows : Entry(r) = e
         /\ \A r, s \in rows : Entry(r) = Entry(s) => r = s
         /\ At(p) # "entities" => \A r \in rows : r.id = 0
         /\ At(p) = "entities" =>
              /\ \A r \in rows : job[p].top < r.id /\ r.id <= job[p].top + Cardinality(C)
              /\ \A r, s \in rows : r.id = s.id => r = s
<1>0. /\ C \in SUBSET (CIK \X Name \X Line) /\ Cardinality(C) \in Nat
      /\ At(p) = "entities" => job[p].top \in Nat /\ job[p].top + Cardinality(C) <= MaxId
  BY BatchType
<1>1. MaxId \in Nat
  BY XrefBounds DEF XrefBounds
<1>2. \A e \in C : e = <<e[1], e[2], e[3]>> /\ e[1] \in CIK /\ e[2] \in Name /\ e[3] \in Line
  BY <1>0
<1>3. CASE At(p) = "entities"
  <2> DEFINE Ids == job[p].top + 1 .. job[p].top + Cardinality(C)
  <2>1. PICK f \in Injection(C, Ids) :
              rows = {[id |-> f[e], cik |-> e[1], name |-> e[2], line |-> e[3]] : e \in C}
    BY <1>3 DEF Encoded
  <2>2. \A e \in C : f[e] \in Ids
    BY <2>1 DEF Injection
  <2>3. Ids \subseteq 0..MaxId /\ \A i \in Ids : job[p].top < i /\ i <= job[p].top + Cardinality(C)
    BY <1>0, <1>1, <1>3
  <2> HIDE DEF Ids
  <2>4. \A r \in rows : \E e \in C : r = [id |-> f[e], cik |-> e[1], name |-> e[2], line |-> e[3]] /\ Entry(r) = e
    BY <1>2, <2>1 DEF Entry
  <2>5. rows \in SUBSET Row
    BY <1>2, <2>1, <2>2, <2>3 DEF Row
  <2>6. ASSUME NEW e \in C PROVE \E r \in rows : Entry(r) = e
    <3> DEFINE r == [id |-> f[e], cik |-> e[1], name |-> e[2], line |-> e[3]]
    <3>1. r \in rows
      BY <2>1
    <3>2. Entry(r) = e
      BY <1>2 DEF Entry
    <3> QED
      BY <3>1, <3>2
  <2>7. \A r, s \in rows : Entry(r) = Entry(s) => r = s
    BY <2>4
  <2>8. \A r \in rows : job[p].top < r.id /\ r.id <= job[p].top + Cardinality(C)
    BY <2>2, <2>3, <2>4
  <2>9. \A r \in rows : Entry(r) \in C
    BY <2>4
  <2>10. \A r, s \in rows : r.id = s.id => r = s
    <3>1. \A d, e \in C : f[d] = f[e] => d = e
      BY <2>1 DEF Injection, IsInjective
    <3> QED
      BY <2>4, <3>1
  <2> QED
    BY <1>3, <2>5, <2>6, <2>7, <2>8, <2>9, <2>10
<1>4. CASE At(p) # "entities"
  <2>1. rows = {[id |-> 0, cik |-> e[1], name |-> e[2], line |-> e[3]] : e \in C}
    BY <1>4 DEF Encoded
  <2>2. \A r \in rows : \E e \in C : r = [id |-> 0, cik |-> e[1], name |-> e[2], line |-> e[3]] /\ Entry(r) = e
    BY <1>2, <2>1 DEF Entry
  <2>3. rows \in SUBSET Row
    BY <1>1, <1>2, <2>1 DEF Row
  <2>4. ASSUME NEW e \in C PROVE \E r \in rows : Entry(r) = e
    <3> DEFINE r == [id |-> 0, cik |-> e[1], name |-> e[2], line |-> e[3]]
    <3>1. r \in rows
      BY <2>1
    <3>2. Entry(r) = e
      BY <1>2 DEF Entry
    <3> QED
      BY <3>1, <3>2
  <2> QED
    BY <1>4, <2>2, <2>3, <2>4
<1> QED
  BY <1>3, <1>4

-----------------------------------------------------------------------------

LEMMA InitTypes == Init => TypeInv
<1> SUFFICES ASSUME Init PROVE TypeInv
  OBVIOUS
<1>1. \A t \in Tables : 1 \in 1..Versions[t]
  BY XrefBounds DEF XrefBounds
<1>2. job \in [Pipeline -> Job] /\ \A p \in Pipeline : JobShape(job[p])
  BY IdleType DEF Init
<1>3. list \in [Tables -> Nat] /\ \A t \in Tables : list[t] \in 1..Versions[t]
  BY <1>1 DEF Init
<1>4. db \in [Tables -> SUBSET Row] /\ Keyed
  BY DEF Init, Keyed
<1> QED
  BY <1>2, <1>3, <1>4 DEF Init, TypeInv, TypeOK

LEMMA NextTypes == TypeInv /\ [Next]_vars => TypeInv'
<1> SUFFICES ASSUME TypeInv, [Next]_vars PROVE TypeInv'
  OBVIOUS
<1>0. /\ list \in [Tables -> Nat] /\ \A t \in Tables : list[t] \in 1..Versions[t]
      /\ db \in [Tables -> SUBSET Row] /\ job \in [Pipeline -> Job]
      /\ solo \subseteq Pipeline /\ overlapped \in BOOLEAN /\ clean \in BOOLEAN
      /\ \A p \in Pipeline : job[p] \in Job /\ JobShape(job[p])
  BY DEF TypeInv, TypeOK
<1>1. ASSUME NEW t \in Tables, Publish(t) PROVE TypeInv'
  <2>1. list[t] + 1 \in 1..Versions[t]
    <3>1. Versions[t] \in Nat /\ list[t] \in 1..Versions[t] /\ list[t] < Versions[t]
      BY <1>0, <1>1, XrefBounds DEF Publish, XrefBounds
    <3> QED
      BY <3>1
  <2>2. list' \in [Tables -> Nat] /\ \A u \in Tables : list'[u] \in 1..Versions[u]
    BY <1>0, <1>1, <2>1 DEF Publish
  <2>3. UNCHANGED <<db, job, solo, overlapped>> /\ clean' \in BOOLEAN
    BY <1>1 DEF Publish
  <2> QED
    BY <1>0, <2>2, <2>3 DEF TypeInv, TypeOK, Keyed, JobShape, ListOf
<1>2. ASSUME NEW p \in Pipeline, Begin(p) PROVE TypeInv'
  <2>1. Open(1, list) \in Job /\ JobShape(Open(1, list))
    BY <1>0, OpenType
  <2>2. /\ job' = [job EXCEPT ![p] = Open(1, list)] /\ UNCHANGED <<list, db>>
        /\ solo' \subseteq Pipeline /\ overlapped' \in BOOLEAN /\ clean' \in BOOLEAN
    BY <1>0, <1>2 DEF Begin
  <2> QED
    BY <2>1, <2>2, TypeStep
<1>3. ASSUME NEW p \in Pipeline, Delete(p) PROVE TypeInv'
  <2>1. PICK C \in Chunks(job[p].drop, DeleteBatch) :
           /\ db' = [db EXCEPT ![At(p)] = {r \in @ : r.cik \notin C}]
           /\ job' = [job EXCEPT ![p].drop = @ \ C]
    BY <1>3 DEF Delete
  <2> DEFINE j == [job[p] EXCEPT !.drop = @ \ C]
  <2>2. C \subseteq job[p].drop /\ C # {}
    BY XrefBounds DEF Chunks, XrefBounds
  <2>3. j \in Job
    BY <1>0 DEF Job
  <2>4. JobShape(j)
    BY <1>0, <2>2 DEF JobShape, ListOf, Job
  <2>5. job' = [job EXCEPT ![p] = j]
    BY <1>0, <2>1
  <2> HIDE DEF j
  <2>6. job' \in [Pipeline -> Job] /\ \A q \in Pipeline : JobShape(job'[q])
    BY <1>0, <2>3, <2>4, <2>5
  <2>7. db' \in [Tables -> SUBSET Row] /\ \A t \in Tables : db'[t] \subseteq db[t]
    BY <1>0, <2>1
  <2>8. Keyed'
    BY <2>7 DEF TypeInv, Keyed
  <2>9. UNCHANGED <<list, solo, overlapped, clean>>
    BY <1>3 DEF Delete
  <2> QED
    BY <1>0, <2>6, <2>7, <2>8, <2>9 DEF TypeInv, TypeOK
<1>4. ASSUME NEW p \in Pipeline, ReadTop(p) PROVE TypeInv'
  <2> DEFINE top == Max({0} \cup {r.id : r \in db["entities"]})
             j == [job[p] EXCEPT !.top = top]
  <2>1. top \in 0..MaxId
    <3>1. MaxId \in Nat /\ "entities" \in Tables
      BY XrefBounds DEF XrefBounds, Tables
    <3>2. {0} \cup {r.id : r \in db["entities"]} \in SUBSET (0..MaxId)
      BY <1>0, <3>1 DEF Row
    <3> QED
      BY <3>1, <3>2, MaxExists
  <2> HIDE DEF top
  <2>2. j \in Job
    <3>1. top \in NoTop..MaxId
      BY <2>1, XrefBounds DEF NoTop, XrefBounds
    <3> QED
      BY <1>0, <3>1 DEF Job
  <2>3. JobShape(j)
    BY <1>0, <1>4 DEF JobShape, ListOf, Job, ReadTop, Inserting, At
  <2>4. job' = [job EXCEPT ![p] = j] /\ UNCHANGED <<list, db, solo, overlapped, clean>>
    BY <1>0, <1>4 DEF ReadTop, top
  <2> HIDE DEF j
  <2> QED
    BY <1>0, <2>2, <2>3, <2>4, TypeStep
<1>5. ASSUME NEW p \in Pipeline, Insert(p) PROVE TypeInv'
  <2>0. PICK C \in Batches(p) : \E rows \in Encoded(p, C) :
           /\ db' = [db EXCEPT ![At(p)] = @ \cup rows]
           /\ job' = [job EXCEPT ![p].put = @ \ C,
                                 ![p].top = IF @ = NoTop THEN @ ELSE @ + Cardinality(C)]
    BY <1>5 DEF Insert
  <2>1. PICK rows \in Encoded(p, C) :
           /\ db' = [db EXCEPT ![At(p)] = @ \cup rows]
           /\ job' = [job EXCEPT ![p].put = @ \ C,
                                 ![p].top = IF @ = NoTop THEN @ ELSE @ + Cardinality(C)]
    BY <2>0
  <2> DEFINE top == IF job[p].top = NoTop THEN job[p].top ELSE job[p].top + Cardinality(C)
             j == [job[p] EXCEPT !.put = @ \ C, !.top = top]
  <2>2. /\ job[p].at \in 1..4 /\ At(p) \in Tables /\ job[p].drop = {}
        /\ Cardinality(C) \in Nat
        /\ At(p) = "entities" => job[p].top \in Nat /\ job[p].top + Cardinality(C) <= MaxId
    BY BatchType
  <2>3. top \in NoTop..MaxId /\ (top # NoTop => job[p].top # NoTop)
    <3>1. job[p].top # NoTop => At(p) = "entities"
      BY <1>0, <2>2 DEF JobShape, At
    <3>2. job[p].top \in NoTop..MaxId /\ MaxId \in Nat
      BY <1>0, XrefBounds DEF Job, XrefBounds
    <3> QED
      BY <2>2, <3>1, <3>2 DEF NoTop
  <2>4. job' = [job EXCEPT ![p] = j]
    BY <1>0, <2>1
  <2> HIDE DEF top
  <2>5. j \in Job
    BY <1>0, <2>3 DEF Job
  <2>6. JobShape(j)
    BY <1>0, <2>2, <2>3 DEF JobShape, ListOf, Job
  <2> HIDE DEF j
  <2>7. job' \in [Pipeline -> Job] /\ \A q \in Pipeline : JobShape(job'[q])
    BY <1>0, <2>4, <2>5, <2>6
  <2>8. rows \in SUBSET Row /\ (At(p) # "entities" => \A r \in rows : r.id = 0)
    BY EncodedType
  <2>9. db' \in [Tables -> SUBSET Row]
    BY <1>0, <2>1, <2>8
  <2>10. Keyed'
    BY <1>0, <2>1, <2>2, <2>8 DEF TypeInv, Keyed
  <2>11. UNCHANGED <<list, solo, overlapped, clean>>
    BY <1>5 DEF Insert
  <2> QED
    BY <1>0, <2>7, <2>9, <2>10, <2>11 DEF TypeInv, TypeOK
<1>6. ASSUME NEW p \in Pipeline, NextTable(p) PROVE TypeInv'
  <2> DEFINE j == Open(job[p].at + 1, job[p].lists)
  <2>1. job[p].at + 1 \in 1..4
    BY <1>0, <1>6, OrderType DEF NextTable, Replaced, Job
  <2>2. job[p].lists \in [Tables -> Nat] /\ \A t \in Tables : job[p].lists[t] \in 1..Versions[t]
    BY <1>0, <1>6 DEF NextTable, Replaced, Job, JobShape
  <2>3. j \in Job /\ JobShape(j)
    BY <2>1, <2>2, OpenType
  <2>4. job' = [job EXCEPT ![p] = j] /\ UNCHANGED <<list, db, solo, overlapped, clean>>
    BY <1>6 DEF NextTable
  <2> HIDE DEF j
  <2> QED
    BY <1>0, <2>3, <2>4, TypeStep
<1>7. ASSUME NEW p \in Pipeline, Finish(p) PROVE TypeInv'
  <2>1. /\ job' = [job EXCEPT ![p] = Idle] /\ UNCHANGED <<list, db, overlapped>>
        /\ clean' \in BOOLEAN /\ solo' \subseteq solo
    BY <1>7 DEF Finish
  <2> QED
    BY <1>0, <2>1, IdleType, TypeStep
<1>8. ASSUME NEW p \in Pipeline, Stopped(p) PROVE TypeInv'
  <2>1. /\ job' = [job EXCEPT ![p] = Idle] /\ UNCHANGED <<list, db, overlapped, clean>>
        /\ solo' \subseteq solo
    BY <1>8 DEF Stopped
  <2> QED
    BY <1>0, <2>1, IdleType, TypeStep
<1>9. CASE UNCHANGED vars
  BY <1>9 DEF vars, TypeInv, TypeOK, Keyed, JobShape, ListOf
<1> QED
  BY <1>1, <1>2, <1>3, <1>4, <1>5, <1>6, <1>7, <1>8, <1>9 DEF Next, Raise, Crash

\* Types of the lists, the tables and the runs.
THEOREM TypeCorrect == Spec => []TypeOK
<1>1. Spec => []TypeInv
  BY InitTypes, NextTypes, PTL DEF Spec
<1> QED
  BY <1>1, PTL DEF TypeInv

-----------------------------------------------------------------------------
(* What a run that is alone has made of the tables.                         *)

\* The rows R of a table while it is replaced by the list L: companies of drop
\* have their old rows still, the others what has been inserted, each entry once.
Partly(R, L, drop, put) ==
    /\ \A r \in R : r.cik \in Companies(L) => r.cik \in drop \/ Entry(r) \in L \ put
    /\ \A e \in L \ put : \E r \in R : Entry(r) = e
    /\ \A r, s \in R :
         r.cik \in Companies(L) \ drop /\ Entry(r) = Entry(s) => r = s

Healed(R, L) == Partly(R, L, {}, {})

\* The tables d a run has done with.
HealedBefore(d, j) ==
    \A i \in 1..(j.at - 1) : Healed(d[Order[i]], Listed[Order[i]][j.lists[Order[i]]])

SoloInv ==
    \A p \in solo :
      /\ Active = {p}
      /\ HealedBefore(db, job[p])
      /\ Partly(db[At(p)], ListOf(job[p]), job[p].drop, job[p].put)
      /\ job[p].top # NoTop => \A r \in db["entities"] : r.id <= job[p].top

CleanInv == clean => Active = {} /\ \A t \in Tables : Healed(db[t], Current(t))

NoDoubles == \A r, s \in db["entities"] : Entry(r) = Entry(s) => r = s

OneList ==
    \A c \in CIK : \E v \in 1..list["entities"] :
      \A r \in db["entities"] : r.cik = c => Entry(r) \in Listed["entities"][v]

\* The entities of a company are lines of one published list.
Single == NoDoubles /\ OneList

OverlapInv == ~overlapped => Active \subseteq solo /\ Single

\* A run has fetched lists that have been published.
ListsKnown == \A p \in Active : \A t \in Tables : job[p].lists[t] <= list[t]

HealInv == SoloInv /\ CleanInv /\ OverlapInv /\ ListsKnown

LEMMA OpenPartly ==
  ASSUME NEW i \in 1..4, NEW lists, NEW R
  PROVE  LET j == Open(i, lists)
         IN  Partly(R, ListOf(j), j.drop, j.put) /\ j.top = NoTop /\ j.at = i
             /\ j.lists = lists
  BY DEF Open, ListOf, Partly

\* Neither an entry nor an id of a run that is alone is there already, and a
\* key only if the list has it twice.
LEMMA NoClash ==
  ASSUME TypeInv, SoloInv, NEW p \in solo, NEW C \in Batches(p), NEW rows \in Encoded(p, C),
         NEW r \in rows, NEW s \in db[At(p)] \cup rows, r # s
  PROVE  /\ Entry(r) # Entry(s)
         /\ Key(At(p), r) = Key(At(p), s) => RepeatsKey(At(p), ListOf(job[p]))
<1>0. p \in Pipeline
  BY DEF TypeInv, TypeOK
<1>1. /\ job[p].at \in 1..4 /\ At(p) \in Tables /\ job[p].drop = {}
      /\ C \subseteq job[p].put
      /\ At(p) = "entities" => job[p].top \in Nat
  BY <1>0, BatchType
<1>2. /\ \A q \in rows : Entry(q) \in C /\ q \in Row
      /\ \A q, u \in rows : Entry(q) = Entry(u) => q = u
      /\ At(p) = "entities" => (\A q \in rows : job[p].top < q.id)
                                /\ \A q, u \in rows : q.id = u.id => q = u
  BY <1>0, EncodedType
<1>3. C \subseteq ListOf(job[p])
  BY <1>0, <1>1 DEF TypeInv, JobShape
<1>4. s.cik = r.cik => Entry(s) # Entry(r) /\ Entry(s) \in ListOf(job[p])
  <2> SUFFICES ASSUME s.cik = r.cik PROVE Entry(s) # Entry(r) /\ Entry(s) \in ListOf(job[p])
    OBVIOUS
  <2>1. CASE s \in rows
    BY <1>2, <1>3, <2>1
  <2>2. CASE s \in db[At(p)]
    <3>1. Entry(r) \in ListOf(job[p]) /\ Entry(r)[1] = s.cik
      BY <1>2, <1>3 DEF Entry
    <3>2. s.cik \in Companies(ListOf(job[p]))
      BY <3>1 DEF Companies
    <3>3. Entry(s) \in ListOf(job[p]) \ job[p].put
      BY <1>1, <2>2, <3>2 DEF SoloInv, Partly
    <3> QED
      BY <1>1, <1>2, <3>3
  <2> QED
    BY <2>1, <2>2
<1>5. Entry(r) # Entry(s)
  BY <1>4 DEF Entry
<1>6. CASE At(p) = "entities"
  <2>1. ASSUME s \in db[At(p)] PROVE r.id # s.id
    <3>1. s \in Row /\ s.id \in Nat /\ r.id \in Nat
      BY <1>2, <1>6, <1>1, <2>1, XrefBounds DEF TypeInv, TypeOK, Row, XrefBounds
    <3>2. s.id <= job[p].top
      BY <1>1, <1>6, <2>1, XrefBounds DEF SoloInv, NoTop
    <3> QED
      BY <1>1, <1>2, <1>6, <3>1, <3>2
  <2> QED
    BY <1>2, <1>5, <1>6, <2>1 DEF Key
<1>7. CASE At(p) # "entities"
  <2> SUFFICES ASSUME Key(At(p), r) = Key(At(p), s) PROVE RepeatsKey(At(p), ListOf(job[p]))
    BY <1>5
  <2>1. EntryKey(At(p), Entry(r)) = EntryKey(At(p), Entry(s))
    BY <1>7 DEF Key
  <2>2. r.cik = s.cik
    BY <2>1 DEF EntryKey, Entry
  <2> QED
    BY <1>2, <1>3, <1>4, <1>7, <2>1, <2>2 DEF RepeatsKey
<1> QED
  BY <1>6, <1>7

LEMMA InitHeal == Init => HealInv
<1> SUFFICES ASSUME Init PROVE HealInv
  OBVIOUS
<1>1. Active = {}
  BY DEF Init, Active, Idle
<1>2. "entities" \in Tables
  BY DEF Tables
<1>3. Single
  BY <1>2 DEF Init, Single, NoDoubles, OneList
<1> QED
  BY <1>1, <1>3 DEF Init, HealInv, SoloInv, CleanInv, OverlapInv, ListsKnown

LEMMA Untouched ==
  ASSUME TypeInv, HealInv, UNCHANGED <<db, job, solo, overlapped>>,
         list' \in [Tables -> Nat], \A t \in Tables : list[t] <= list'[t],
         clean' => clean /\ list' = list
  PROVE  HealInv'
<1>1. Active' = Active /\ NoDoubles' = NoDoubles
  BY DEF Active, NoDoubles
<1>2. OneList => OneList'
  <2>1. "entities" \in Tables /\ list["entities"] \in Nat
    BY DEF Tables, TypeInv, TypeOK
  <2>2. 1..list["entities"] \subseteq 1..list'["entities"]
    BY <2>1
  <2> QED
    BY <2>2 DEF OneList
<1>3. SoloInv'
  <2> SUFFICES ASSUME NEW p \in solo
      PROVE  /\ Active' = {p}
             /\ HealedBefore(db', job'[p])
             /\ Partly(db'[Order[job'[p].at]], ListOf(job'[p]), job'[p].drop, job'[p].put)
             /\ job'[p].top # NoTop => \A r \in db'["entities"] : r.id <= job'[p].top
    BY DEF SoloInv, At, ListOf
  <2> QED
    BY <1>1 DEF HealInv, SoloInv, At
<1>4. CleanInv'
  BY <1>1 DEF HealInv, CleanInv, Current
<1>5. OverlapInv'
  BY <1>1, <1>2 DEF HealInv, OverlapInv, Single
<1>6. ListsKnown'
  <2> SUFFICES ASSUME NEW p \in Active, NEW t \in Tables PROVE job[p].lists[t] <= list'[t]
    BY <1>1 DEF ListsKnown
  <2>1. p \in Pipeline /\ job[p].lists[t] \in Nat /\ list[t] \in Nat
    BY DEF Active, TypeInv, TypeOK, Job
  <2>2. job[p].lists[t] <= list[t] /\ list[t] <= list'[t] /\ list'[t] \in Nat
    BY DEF HealInv, ListsKnown
  <2> QED
    BY <2>1, <2>2
<1> QED
  BY <1>3, <1>4, <1>5, <1>6 DEF HealInv

\* While a run is alone only its own steps count, and a clean table is clean
\* until a run begins.
LEMMA WhoActs ==
  ASSUME HealInv, NEW p \in Pipeline, job[p].at # 0
  PROVE  /\ p \in Active /\ ~clean
         /\ \A q \in solo : q = p
         /\ ~overlapped => p \in solo
  BY DEF HealInv, SoloInv, CleanInv, OverlapInv, Active

\* A step of a run that goes on: what has to be shown of it.
LEMMA GoesOn ==
  ASSUME TypeInv, HealInv, NEW p \in Pipeline, job[p].at # 0, NEW j, j.at # 0,
         j.lists = job[p].lists,
         job' = [job EXCEPT ![p] = j], UNCHANGED <<list, solo, overlapped, clean>>,
         p \in solo =>
           /\ HealedBefore(db', j)
           /\ Partly(db'[Order[j.at]], ListOf(j), j.drop, j.put)
           /\ j.top # NoTop => \A r \in db'["entities"] : r.id <= j.top,
         Single /\ p \in solo => Single'
  PROVE  HealInv'
<1>0. job \in [Pipeline -> Job] /\ solo \subseteq Pipeline
  BY DEF TypeInv, TypeOK
<1>1. p \in Active /\ ~clean /\ (\A q \in solo : q = p) /\ (~overlapped => p \in solo)
  BY WhoActs
<1>2. Active' = Active
  BY <1>0 DEF Active
<1>3. job'[p] = j /\ At(p)' = Order[j.at]
  BY <1>0 DEF At
<1>4. SoloInv'
  <2> SUFFICES ASSUME NEW q \in solo
      PROVE  /\ Active' = {q}
             /\ HealedBefore(db', job'[q])
             /\ Partly(db'[Order[job'[q].at]], ListOf(job'[q]), job'[q].drop, job'[q].put)
             /\ job'[q].top # NoTop => \A r \in db'["entities"] : r.id <= job'[q].top
    BY DEF SoloInv, At, ListOf
  <2>1. q = p /\ p \in solo
    BY <1>1
  <2>2. Active = {p}
    BY <2>1 DEF HealInv, SoloInv
  <2> QED
    BY <1>2, <1>3, <2>1, <2>2
<1>5. OverlapInv'
  BY <1>1, <1>2 DEF HealInv, OverlapInv
<1>6. ListsKnown'
  BY <1>0, <1>1, <1>2 DEF HealInv, ListsKnown
<1> QED
  BY <1>1, <1>4, <1>5, <1>6 DEF HealInv, CleanInv

\* A run that ends, in whatever way.
LEMMA IsOver ==
  ASSUME TypeInv, HealInv, NEW p \in Pipeline, job[p].at # 0,
         job' = [job EXCEPT ![p] = Idle], UNCHANGED <<list, db, overlapped>>,
         solo' = solo \ {p},
         clean' => /\ p \in solo
                   /\ \A t \in Tables : Healed(db[t], Current(t))
  PROVE  HealInv'
<1>0. job \in [Pipeline -> Job] /\ solo \subseteq Pipeline
  BY DEF TypeInv, TypeOK
<1>1. p \in Active /\ ~clean /\ (\A q \in solo : q = p) /\ (~overlapped => p \in solo)
  BY WhoActs
<1>2. Active' = Active \ {p}
  BY <1>0, IdleType DEF Active
<1>3. solo' = {}
  BY <1>1
<1>4. SoloInv'
  BY <1>3 DEF SoloInv
<1>5. CleanInv'
  <2>1. clean' => Active = {p}
    BY DEF HealInv, SoloInv
  <2>2. \A t \in Tables : db'[t] = db[t] /\ Current(t)' = Current(t)
    BY DEF Current
  <2> QED
    BY <1>2, <2>1, <2>2 DEF CleanInv
<1>6. OverlapInv'
  BY <1>1, <1>2 DEF HealInv, OverlapInv, Single, NoDoubles, OneList
<1>7. ListsKnown'
  BY <1>0, <1>2 DEF HealInv, ListsKnown, Active
<1> QED
  BY <1>4, <1>5, <1>6, <1>7 DEF HealInv

LEMMA NextHeal == TypeInv /\ HealInv /\ [Next]_vars => HealInv'
<1> SUFFICES ASSUME TypeInv, HealInv, [Next]_vars PROVE HealInv'
  OBVIOUS
<1>0. /\ list \in [Tables -> Nat]
      /\ db \in [Tables -> SUBSET Row] /\ job \in [Pipeline -> Job]
      /\ solo \subseteq Pipeline /\ overlapped \in BOOLEAN /\ clean \in BOOLEAN
      /\ \A p \in Pipeline : job[p] \in Job /\ JobShape(job[p])
  BY DEF TypeInv, TypeOK
<1>a. "entities" \in Tables
  BY DEF Tables
<1>b. \A p \in Pipeline : job[p].at \in 0..4
  BY <1>0, OrderType DEF Job
<1>1. ASSUME NEW t \in Tables, Publish(t) PROVE HealInv'
  <2>1. Versions[t] \in Nat /\ list[t] \in Nat
    BY <1>0, XrefBounds DEF XrefBounds
  <2>2. list' \in [Tables -> Nat] /\ \A u \in Tables : list[u] <= list'[u]
    BY <1>0, <1>1, <2>1 DEF Publish
  <2> QED
    BY <1>1, <2>2, Untouched DEF Publish
<1>2. ASSUME NEW p \in Pipeline, Begin(p) PROVE HealInv'
  <2> DEFINE j == Open(1, list)
  <2>1. /\ job' = [job EXCEPT ![p] = j] /\ UNCHANGED <<list, db>> /\ ~clean'
        /\ solo' = IF Active = {} THEN {p} ELSE {}
        /\ overlapped' = (overlapped \/ Active # {})
    BY <1>2 DEF Begin
  <2>2. Partly(db[Order[1]], ListOf(j), j.drop, j.put) /\ j.top = NoTop /\ j.at = 1
    BY OpenPartly
  <2> HIDE DEF j
  <2>3. job'[p] = j
    BY <1>0, <2>1
  <2>4. ASSUME Active = {} PROVE Active' = {p}
    BY <1>0, <2>1, <2>2, <2>4 DEF Active
  <2>5. SoloInv'
    <3> SUFFICES ASSUME Active = {}
        PROVE  /\ Active' = {p}
               /\ HealedBefore(db', job'[p])
               /\ Partly(db'[Order[job'[p].at]], ListOf(job'[p]), job'[p].drop, job'[p].put)
               /\ job'[p].top # NoTop => \A r \in db'["entities"] : r.id <= job'[p].top
      BY <2>1 DEF SoloInv, At, ListOf
    <3>1. HealedBefore(db', j)
      BY <2>2 DEF HealedBefore
    <3>2. Partly(db'[Order[j.at]], ListOf(j), j.drop, j.put)
      BY <2>1, <2>2
    <3> QED
      BY <2>2, <2>3, <2>4, <3>1, <3>2
  <2>6. OverlapInv'
    BY <2>1, <2>4 DEF HealInv, OverlapInv, Single, NoDoubles, OneList
  <2>7. ListsKnown'
    <3>1. j.lists = list
      BY OpenPartly DEF j
    <3>2. ASSUME NEW q \in Active' PROVE q = p \/ (q \in Active /\ job'[q] = job[q])
      <4>1. q \in Pipeline /\ job'[q].at # 0
        BY DEF Active
      <4>2. q # p => job'[q] = job[q]
        BY <1>0, <2>1, <4>1
      <4> QED
        BY <4>1, <4>2 DEF Active
    <3>3. \A t \in Tables : list[t] <= list[t]
      BY <1>0
    <3> QED
      BY <2>1, <2>3, <3>1, <3>2, <3>3 DEF HealInv, ListsKnown
  <2> QED
    BY <2>1, <2>5, <2>6, <2>7 DEF HealInv, CleanInv
<1>3. ASSUME NEW p \in Pipeline, Delete(p) PROVE HealInv'
  <2>1. PICK C \in Chunks(job[p].drop, DeleteBatch) :
           /\ db' = [db EXCEPT ![At(p)] = {r \in @ : r.cik \notin C}]
           /\ job' = [job EXCEPT ![p].drop = @ \ C]
    BY <1>3 DEF Delete
  <2> DEFINE j == [job[p] EXCEPT !.drop = @ \ C]
  <2>2. C \subseteq job[p].drop /\ C # {} /\ job[p].at \in 1..4
    BY <1>3, <1>b DEF Chunks, Delete
  <2>3. /\ job' = [job EXCEPT ![p] = j] /\ UNCHANGED <<list, solo, overlapped, clean>>
        /\ j.at = job[p].at /\ j.lists = job[p].lists /\ j.put = job[p].put
        /\ j.top = job[p].top /\ j.drop = job[p].drop \ C
    BY <1>0, <1>3, <2>1 DEF Delete, Job
  <2> HIDE DEF j
  <2>4. /\ At(p) \in Tables /\ \A t \in Tables \ {At(p)} : db'[t] = db[t]
        /\ db'[At(p)] = {r \in db[At(p)] : r.cik \notin C}
    BY <1>0, <2>1, <2>2, OrderType DEF At
  <2>5. job[p].put = ListOf(job[p]) /\ job[p].top = NoTop /\ ListOf(j) = ListOf(job[p])
    BY <1>0, <2>2, <2>3 DEF JobShape, ListOf
  <2>6. ASSUME p \in solo PROVE HealedBefore(db', j)
    <3>1. \A i \in 1..(job[p].at - 1) :
             Order[i] \in Tables /\ Order[i] # At(p)
             /\ Healed(db[Order[i]], Listed[Order[i]][job[p].lists[Order[i]]])
      BY <2>2, <2>6 DEF HealInv, SoloInv, HealedBefore, At, Order, Tables
    <3> QED
      BY <2>3, <2>4, <3>1 DEF HealedBefore, Healed, Partly
  <2>7. ASSUME p \in solo PROVE Partly(db'[Order[j.at]], ListOf(j), j.drop, j.put)
    <3>1. Partly(db[At(p)], ListOf(job[p]), job[p].drop, job[p].put)
      BY <2>7 DEF HealInv, SoloInv
    <3> QED
      BY <2>2, <2>3, <2>4, <2>5, <3>1 DEF Partly, At, ListOf
  <2>8. Single => Single'
    <3>1. db'["entities"] \subseteq db["entities"] /\ list' = list
      BY <1>a, <2>3, <2>4
    <3> QED
      BY <3>1 DEF Single, NoDoubles, OneList
  <2> QED
    <3>1. job[p].at # 0 /\ j.at # 0 /\ j.top = NoTop
      BY <2>2, <2>3, <2>5
    <3>2. p \in solo => HealedBefore(db', j) /\ Partly(db'[Order[j.at]], ListOf(j), j.drop, j.put)
      BY <2>6, <2>7
    <3> QED
      BY <2>3, <2>8, <3>1, <3>2, GoesOn
<1>4. ASSUME NEW p \in Pipeline, ReadTop(p) PROVE HealInv'
  <2> DEFINE top == Max({0} \cup {r.id : r \in db["entities"]})
             j == [job[p] EXCEPT !.top = top]
  <2>1. \A r \in db["entities"] : r.id <= top
    <3>1. MaxId \in Nat
      BY XrefBounds DEF XrefBounds
    <3>2. {0} \cup {r.id : r \in db["entities"]} \in SUBSET (0..MaxId)
      BY <1>0, <1>a, <3>1 DEF Row
    <3> QED
      BY <3>1, <3>2, MaxExists
  <2> HIDE DEF top
  <2>2. /\ job' = [job EXCEPT ![p] = j] /\ UNCHANGED <<list, db, solo, overlapped, clean>>
        /\ j.at = job[p].at /\ j.lists = job[p].lists /\ j.put = job[p].put
        /\ j.top = top /\ j.drop = job[p].drop /\ job[p].at # 0
    BY <1>0, <1>4 DEF ReadTop, Inserting, top, Job
  <2> HIDE DEF j
  <2>3. ASSUME p \in solo
        PROVE  HealedBefore(db', j) /\ Partly(db'[Order[j.at]], ListOf(j), j.drop, j.put)
    <3>1. HealedBefore(db, job[p]) /\ Partly(db[At(p)], ListOf(job[p]), job[p].drop, job[p].put)
      BY <2>3 DEF HealInv, SoloInv
    <3>2. HealedBefore(db', j)
      BY <2>2, <3>1 DEF HealedBefore
    <3>3. ListOf(j) = ListOf(job[p]) /\ Order[j.at] = At(p)
      BY <2>2 DEF ListOf, At
    <3> QED
      BY <2>2, <3>1, <3>2, <3>3
  <2>4. Single => Single'
    BY <2>2 DEF Single, NoDoubles, OneList
  <2> QED
    BY <2>1, <2>2, <2>3, <2>4, GoesOn
<1>5. ASSUME NEW p \in Pipeline, Insert(p) PROVE HealInv'
  <2>0. PICK C \in Batches(p) : \E rows \in Encoded(p, C) :
           /\ db' = [db EXCEPT ![At(p)] = @ \cup rows]
           /\ job' = [job EXCEPT ![p].put = @ \ C,
                                 ![p].top = IF @ = NoTop THEN @ ELSE @ + Cardinality(C)]
    BY <1>5 DEF Insert
  <2>1. PICK rows \in Encoded(p, C) :
           /\ db' = [db EXCEPT ![At(p)] = @ \cup rows]
           /\ job' = [job EXCEPT ![p].put = @ \ C,
                                 ![p].top = IF @ = NoTop THEN @ ELSE @ + Cardinality(C)]
    BY <2>0
  <2> DEFINE top == IF job[p].top = NoTop THEN job[p].top ELSE job[p].top + Cardinality(C)
             j == [job[p] EXCEPT !.put = @ \ C, !.top = top]
  <2>2. /\ job[p].at \in 1..4 /\ At(p) \in Tables /\ job[p].drop = {}
        /\ C \subseteq job[p].put /\ C \subseteq ListOf(job[p]) /\ Cardinality(C) \in Nat
        /\ At(p) = "entities" => job[p].top \in Nat
    BY <1>0, BatchType DEF JobShape
  <2>3. /\ \A r \in rows : Entry(r) \in C
        /\ \A e \in C : \E r \in rows : Entry(r) = e
        /\ \A r, s \in rows : Entry(r) = Entry(s) => r = s
        /\ At(p) = "entities" => \A r \in rows : r.id <= job[p].top + Cardinality(C)
    BY EncodedType
  <2>4. /\ job' = [job EXCEPT ![p] = j] /\ UNCHANGED <<list, solo, overlapped, clean>>
        /\ j.at = job[p].at /\ j.lists = job[p].lists /\ j.put = job[p].put \ C
        /\ j.top = top /\ j.drop = {}
    BY <1>0, <1>5, <2>1, <2>2 DEF Insert, Job
  <2> HIDE DEF j
  <2>5. /\ \A t \in Tables \ {At(p)} : db'[t] = db[t]
        /\ db'[At(p)] = db[At(p)] \cup rows
    BY <1>0, <2>1, <2>2
  <2>6. ListOf(j) = ListOf(job[p]) /\ Order[j.at] = At(p)
    BY <2>4 DEF ListOf, At
  <2>7. ASSUME p \in solo, NEW r \in rows, NEW s \in db[At(p)], Entry(r) = Entry(s) PROVE r = s
    BY <2>7, NoClash DEF HealInv
  <2>8. ASSUME p \in solo PROVE HealedBefore(db', j)
    <3>1. \A i \in 1..(job[p].at - 1) :
             Order[i] \in Tables /\ Order[i] # At(p)
             /\ Healed(db[Order[i]], Listed[Order[i]][job[p].lists[Order[i]]])
      BY <2>2, <2>8 DEF HealInv, SoloInv, HealedBefore, At, Order, Tables
    <3> QED
      BY <2>4, <2>5, <3>1 DEF HealedBefore, Healed, Partly
  <2>9. ASSUME p \in solo PROVE Partly(db'[Order[j.at]], ListOf(j), j.drop, j.put)
    <3> DEFINE L == ListOf(job[p])
               R == db[At(p)]
    <3>0. Partly(R, L, {}, job[p].put)
      BY <2>2, <2>9 DEF HealInv, SoloInv
    <3> HIDE DEF L, R
    <3>1. \A r \in R \cup rows : r.cik \in Companies(L) => Entry(r) \in L \ (job[p].put \ C)
      BY <2>2, <2>3, <3>0 DEF Partly, L
    <3>2. \A e \in L \ (job[p].put \ C) : \E r \in R \cup rows : Entry(r) = e
      BY <2>3, <3>0 DEF Partly
    <3>3. ASSUME NEW r \in R \cup rows, NEW s \in R \cup rows,
                 r.cik \in Companies(L), Entry(r) = Entry(s)
          PROVE  r = s
      <4>1. s.cik \in Companies(L)
        BY <3>3 DEF Entry
      <4> QED
        BY <2>3, <2>7, <2>9, <3>0, <3>3, <4>1 DEF Partly, R
    <3>4. Partly(R \cup rows, L, {}, job[p].put \ C)
      BY <3>1, <3>2, <3>3 DEF Partly
    <3> QED
      BY <2>4, <2>5, <2>6, <3>4 DEF L, R
  <2>10. ASSUME p \in solo, top # NoTop PROVE \A r \in db'["entities"] : r.id <= top
    <3>1. job[p].top # NoTop /\ At(p) = "entities" /\ top = job[p].top + Cardinality(C)
      BY <1>0, <2>2, <2>10 DEF JobShape, At
    <3>2. \A r \in db["entities"] : r.id \in Nat /\ r.id <= job[p].top
      <4>1. \A r \in db["entities"] : r.id <= job[p].top
        BY <2>10, <3>1 DEF HealInv, SoloInv
      <4>2. \A r \in db["entities"] : r \in Row /\ r.id \in Nat
        BY <1>0, <1>a, XrefBounds DEF Row, XrefBounds
      <4> QED
        BY <4>1, <4>2
    <3> QED
      BY <2>2, <2>3, <2>5, <3>1, <3>2
  <2>11. ASSUME Single, p \in solo PROVE Single'
    <3>1. NoDoubles'
      BY <1>a, <2>3, <2>5, <2>7, <2>11 DEF Single, NoDoubles
    <3>2. OneList'
      <4> SUFFICES ASSUME NEW c \in CIK
          PROVE  \E v \in 1..list["entities"] :
                   \A r \in db'["entities"] : r.cik = c => Entry(r) \in Listed["entities"][v]
        BY <2>4 DEF OneList
      <4>1. CASE At(p) = "entities" /\ c \in Companies(ListOf(job[p]))
        <5>1. p \in Active /\ ListOf(j) = Listed["entities"][job[p].lists["entities"]]
          BY <2>2, <2>6, <4>1 DEF Active, ListOf, At
        <5>2. job[p].lists["entities"] \in 1..list["entities"]
          <6>1. job[p].lists["entities"] \in 1..Versions["entities"] /\ Versions["entities"] \in Nat
            BY <1>0, <1>a, <2>2, XrefBounds DEF JobShape, XrefBounds
          <6>2. job[p].lists["entities"] <= list["entities"] /\ list["entities"] \in Nat
            BY <1>0, <1>a, <5>1 DEF HealInv, ListsKnown
          <6> QED
            BY <6>1, <6>2
        <5>3. \A r \in db'["entities"] : r.cik = c => Entry(r) \in ListOf(j)
          BY <2>4, <2>6, <2>9, <2>11, <4>1 DEF Partly
        <5> QED
          BY <5>1, <5>2, <5>3
      <4>2. CASE At(p) = "entities" /\ c \notin Companies(ListOf(job[p]))
        <5>1. ASSUME NEW r \in rows PROVE r.cik # c
          <6>1. Entry(r) \in ListOf(job[p]) /\ Entry(r)[1] = r.cik
            BY <2>2, <2>3 DEF Entry
          <6>2. r.cik \in Companies(ListOf(job[p]))
            BY <6>1 DEF Companies
          <6> QED
            BY <4>2, <6>2
        <5>2. \A r \in db'["entities"] : r.cik = c => r \in db["entities"]
          BY <2>5, <4>2, <5>1
        <5> QED
          BY <2>11, <5>2 DEF Single, OneList
      <4>3. CASE At(p) # "entities"
        BY <1>a, <2>5, <2>11, <4>3 DEF Single, OneList
      <4> QED
        BY <4>1, <4>2, <4>3
    <3> QED
      BY <3>1, <3>2 DEF Single
  <2> HIDE DEF top
  <2> QED
    <3>1. job[p].at # 0 /\ j.at # 0
      BY <2>2, <2>4
    <3>2. p \in solo =>
            /\ HealedBefore(db', j) /\ Partly(db'[Order[j.at]], ListOf(j), j.drop, j.put)
            /\ j.top # NoTop => \A r \in db'["entities"] : r.id <= j.top
      BY <2>4, <2>8, <2>9, <2>10
    <3>3. Single /\ p \in solo => Single'
      BY <2>11
    <3> QED
      BY <2>4, <3>1, <3>2, <3>3, GoesOn
<1>6. ASSUME NEW p \in Pipeline, NextTable(p) PROVE HealInv'
  <2> DEFINE j == Open(job[p].at + 1, job[p].lists)
  <2>1. /\ job[p].at \in 1..3 /\ job[p].drop = {} /\ job[p].put = {}
        /\ job' = [job EXCEPT ![p] = j] /\ UNCHANGED <<list, db, solo, overlapped, clean>>
    BY <1>6, <1>b, OrderType DEF NextTable, Replaced
  <2>2. /\ Partly(db[Order[j.at]], ListOf(j), j.drop, j.put) /\ j.top = NoTop
        /\ j.at = job[p].at + 1 /\ j.lists = job[p].lists
    BY <2>1, OpenPartly
  <2> HIDE DEF j
  <2>3. ASSUME p \in solo PROVE HealedBefore(db', j)
    <3>1. HealedBefore(db, job[p]) /\ Healed(db[At(p)], ListOf(job[p]))
      BY <2>1, <2>3 DEF HealInv, SoloInv, Healed
    <3>2. \A i \in 1..(j.at - 1) : i \in 1..(job[p].at - 1) \/ i = job[p].at
      BY <2>1, <2>2
    <3>3. HealedBefore(db, j)
      BY <2>2, <3>1, <3>2 DEF HealedBefore, At, ListOf
    <3> QED
      BY <2>1, <3>3
  <2>4. Partly(db'[Order[j.at]], ListOf(j), j.drop, j.put)
    BY <2>1, <2>2
  <2>5. Single => Single'
    BY <2>1 DEF Single, NoDoubles, OneList
  <2> QED
    <3>1. job[p].at # 0 /\ j.at # 0
      BY <2>1, <2>2
    <3>2. p \in solo => HealedBefore(db', j)
      BY <2>3
    <3> QED
      BY <2>1, <2>2, <2>4, <2>5, <3>1, <3>2, GoesOn
<1>7. ASSUME NEW p \in Pipeline, Finish(p) PROVE HealInv'
  <2>1. /\ job[p].at = 4 /\ job[p].drop = {} /\ job[p].put = {}
        /\ job' = [job EXCEPT ![p] = Idle] /\ UNCHANGED <<list, db, overlapped>>
        /\ solo' = solo \ {p} /\ clean' = (p \in solo /\ job[p].lists = list)
    BY <1>7, OrderType DEF Finish, Replaced
  <2>2. ASSUME p \in solo, job[p].lists = list, NEW t \in Tables PROVE Healed(db[t], Current(t))
    <3>1. PICK i \in 1..4 : Order[i] = t
      BY OrderType
    <3>2. HealedBefore(db, job[p]) /\ Healed(db[Order[4]], ListOf(job[p]))
      BY <2>1, <2>2 DEF HealInv, SoloInv, Healed, At
    <3>3. Healed(db[Order[i]], Listed[Order[i]][job[p].lists[Order[i]]])
      <4>1. i \in 1..(job[p].at - 1) \/ i = 4
        BY <2>1
      <4> QED
        BY <2>1, <3>2, <4>1 DEF HealedBefore, ListOf
    <3> QED
      BY <2>2, <3>1, <3>3 DEF Current
  <2> QED
    <3>1. clean' => p \in solo /\ \A t \in Tables : Healed(db[t], Current(t))
      BY <2>1, <2>2
    <3>2. job[p].at # 0
      BY <2>1
    <3> QED
      BY <2>1, <3>1, <3>2, IsOver
<1>8. ASSUME NEW p \in Pipeline, job[p].at # 0, Stopped(p) PROVE HealInv'
  <2>1. ~clean
    BY <1>8, WhoActs
  <2> QED
    BY <1>8, <2>1, IsOver DEF Stopped
<1>9. ASSUME NEW p \in Pipeline, Raise(p) \/ Crash(p) PROVE HealInv'
  <2>1. job[p].at # 0
    BY <1>9 DEF Raise, Crash, Clashes, Batches, Inserting, Active
  <2> QED
    BY <1>8, <1>9, <2>1 DEF Raise, Crash
<1>10. CASE UNCHANGED vars
  <2>1. list' \in [Tables -> Nat] /\ \A t \in Tables : list[t] <= list'[t]
    BY <1>0, <1>10 DEF vars
  <2> QED
    BY <1>10, <2>1, Untouched DEF vars
<1> QED
  BY <1>1, <1>2, <1>3, <1>4, <1>5, <1>6, <1>7, <1>9, <1>10 DEF Next

LEMMA HealAlways == Spec => [](TypeInv /\ HealInv)
  BY InitTypes, InitHeal, NextTypes, NextHeal, PTL DEF Spec

-----------------------------------------------------------------------------

\* Healed rows are the list, each entry once.
LEMMA HealedRows ==
  ASSUME NEW L \in SUBSET (CIK \X Name \X Line), IsFiniteSet(L), NEW R \in SUBSET Row, Healed(R, L)
  PROVE  LET rows == {r \in R : r.cik \in Companies(L)}
         IN  {Entry(r) : r \in rows} = L /\ Cardinality(rows) = Cardinality(L)
<1> DEFINE rows == {r \in R : r.cik \in Companies(L)}
           g == [e \in L |-> CHOOSE r \in rows : Entry(r) = e]
<1>1. \A r \in rows : Entry(r) \in L
  BY DEF Healed, Partly
<1>2. ASSUME NEW e \in L PROVE \E r \in rows : Entry(r) = e
  <2>1. PICK r \in R : Entry(r) = e
    BY DEF Healed, Partly
  <2>2. r.cik \in Companies(L)
    BY <2>1 DEF Entry, Companies
  <2> QED
    BY <2>1, <2>2
<1>3. \A r, s \in rows : Entry(r) = Entry(s) => r = s
  BY DEF Healed, Partly
<1> HIDE DEF rows
<1>4. \A e \in L : g[e] \in rows /\ Entry(g[e]) = e
  BY <1>2
<1> HIDE DEF g
<1>5. g \in [L -> rows]
  BY <1>4 DEF g
<1>6. \A r \in rows : g[Entry(r)] = r
  BY <1>1, <1>3, <1>4
<1>7. g \in Bijection(L, rows)
  <2>1. g \in Injection(L, rows)
    BY <1>4, <1>5 DEF Injection, IsInjective
  <2>2. g \in Surjection(L, rows)
    BY <1>1, <1>5, <1>6 DEF Surjection
  <2> QED
    BY <2>1, <2>2 DEF Bijection
<1>8. Cardinality(rows) = Cardinality(L)
  BY <1>7, FS_Bijection DEF ExistsBijection
<1>9. {Entry(r) : r \in rows} = L
  BY <1>1, <1>2
<1> QED
  BY <1>8, <1>9 DEF rows

LEMMA CleanRows == TypeInv /\ HealInv => ReplacesListed
<1> SUFFICES ASSUME TypeInv, HealInv, clean, NEW t \in Tables
    PROVE  LET rows == {r \in db[t] : r.cik \in Companies(Current(t))}
           IN  {Entry(r) : r \in rows} = Current(t) /\ Cardinality(rows) = Cardinality(Current(t))
  BY DEF ReplacesListed
<1>1. Current(t) \in SUBSET (CIK \X Name \X Line) /\ IsFiniteSet(Current(t))
  BY ListType DEF TypeInv, TypeOK, Current
<1>2. db[t] \in SUBSET Row
  BY DEF TypeInv, TypeOK
<1>3. Healed(db[t], Current(t))
  BY DEF HealInv, CleanInv
<1> QED
  BY <1>1, <1>2, <1>3, HealedRows

\* What a run that had the database to itself leaves is the list, entry by
\* entry, for every listed company: it has healed whatever crashed and
\* overlapping runs left.
THEOREM RunsHeal == Spec => []ReplacesListed
<1>1. TypeInv /\ HealInv => ReplacesListed
  BY CleanRows
<1> QED
  BY <1>1, HealAlways, PTL

\* Nor does it meet a duplicate key in what they left, or in an id: only in a
\* list that has the key twice.
THEOREM AloneIsSafe == Spec => []AloneNeverRaises
<1>1. TypeInv /\ HealInv => AloneNeverRaises
  <2> SUFFICES ASSUME TypeInv, HealInv, NEW p \in solo, Clashes(p)
      PROVE  RepeatsKey(At(p), ListOf(job[p]))
    BY DEF AloneNeverRaises, ListOf, At
  <2>1. PICK C \in Batches(p) : \E rows \in Encoded(p, C) : Clash(At(p), rows)
    BY DEF Clashes
  <2>2. PICK rows \in Encoded(p, C) : Clash(At(p), rows)
    BY <2>1
  <2>3. PICK r \in rows : \E s \in db[At(p)] \cup rows : r # s /\ Key(At(p), r) = Key(At(p), s)
    BY <2>2 DEF Clash
  <2> QED
    BY <2>3, NoClash DEF HealInv
<1> QED
  BY <1>1, HealAlways, PTL

\* A run without others heals the tables, and fails on nothing.
THEOREM LoneRunsHeal == Spec => []AloneHeals
  BY RunsHeal, AloneIsSafe, PTL DEF AloneHeals

\* As long as no two runs have overlapped a company's entities are lines of one
\* published list, no more rows than lines, wherever runs have died.
THEOREM CrashesDoNotDouble == Spec => []DoublesNeedOverlap
<1>1. TypeInv /\ HealInv => DoublesNeedOverlap
  <2> SUFFICES ASSUME TypeInv, HealInv, ~overlapped, NEW c \in CIK
      PROVE  \E v \in 1..list["entities"] : \A n \in Name :
               Cardinality({r \in db["entities"] : r.cik = c /\ r.name = n})
                 <= Count(Listed["entities"][v], c, n)
    BY DEF DoublesNeedOverlap
  <2>1. "entities" \in Tables
    BY DEF Tables
  <2>2. PICK v \in 1..list["entities"] :
           \A r \in db["entities"] : r.cik = c => Entry(r) \in Listed["entities"][v]
    BY DEF HealInv, OverlapInv, Single, OneList
  <2>3. v \in 1..Versions["entities"]
    <3>1. list["entities"] \in 1..Versions["entities"] /\ Versions["entities"] \in Nat
      BY <2>1, XrefBounds DEF TypeInv, TypeOK, XrefBounds
    <3> QED
      BY <3>1
  <2>4. ASSUME NEW n \in Name
        PROVE  Cardinality({r \in db["entities"] : r.cik = c /\ r.name = n})
                 <= Count(Listed["entities"][v], c, n)
    <3> DEFINE R == {r \in db["entities"] : r.cik = c /\ r.name = n}
               E == {e \in Listed["entities"][v] : e[1] = c /\ e[2] = n}
               g == [r \in R |-> Entry(r)]
    <3>1. IsFiniteSet(E)
      BY <2>1, <2>3, ListType, FS_Subset
    <3>2. \A r \in R : Entry(r) \in E
      BY <2>2 DEF Entry
    <3>3. \A r, s \in R : Entry(r) = Entry(s) => r = s
      BY DEF HealInv, OverlapInv, Single, NoDoubles
    <3> HIDE DEF R, E
    <3>4. g \in Injection(R, E)
      BY <3>2, <3>3 DEF Injection, IsInjective
    <3> HIDE DEF g
    <3>5. Cardinality(R) <= Cardinality(E)
      BY <3>1, <3>4, FS_Injection
    <3> QED
      BY <3>5 DEF R, E, Count
  <2> QED
    BY <2>4
<1> QED
  BY <1>1, HealAlways, PTL

\* After such a run a listed symbol is found, and with companies listed under
\* it or not listed at all.
THEOREM SymbolsResolve == Spec => []ResolvesToHolder
<1>1. TypeInv /\ HealInv => ResolvesToHolder
  <2> SUFFICES ASSUME TypeInv, HealInv, clean, NEW s \in Name
      PROVE  /\ \A c \in Holders("overrides", s) :
                  \E a \in Answers(s) : a.from = "overrides" /\ c \in a.companies
             /\ \A c \in Holders("tickers", s) :
                  \E a \in Answers(s) : a.from = "overrides" \/ c \in a.companies
             /\ \A c \in Holders("funds", s) :
                  \E a \in Answers(s) : a.from # "funds" \/ c \in a.companies
             /\ \A a \in Answers(s) : \A c \in a.companies :
                  c \in Holders(a.from, s) \/ c \notin Companies(Current(a.from))
    BY DEF ResolvesToHolder
  <2>1. /\ "overrides" \in Tables /\ "tickers" \in Tables /\ "funds" \in Tables
    BY DEF Tables
  <2>2. ASSUME NEW t \in Tables, NEW c \in Holders(t, s) PROVE c \in Found(t, s)
    <3>1. PICK e \in Current(t) : e[1] = c /\ e[2] = s
      BY DEF Holders
    <3>2. PICK r \in db[t] : Entry(r) = e
      BY DEF HealInv, CleanInv, Healed, Partly
    <3>3. r.cik = c /\ r.name = s
      BY <3>1, <3>2 DEF Entry
    <3> QED
      BY <3>3 DEF Found
  <2>3. ASSUME NEW t \in Tables, NEW c \in Found(t, s)
        PROVE  c \in Holders(t, s) \/ c \notin Companies(Current(t))
    <3>1. PICK r \in db[t] : r.cik = c /\ r.name = s
      BY DEF Found
    <3>2. c \in Companies(Current(t)) => Entry(r) \in Current(t)
      BY <3>1 DEF HealInv, CleanInv, Healed, Partly
    <3> QED
      BY <3>1, <3>2 DEF Entry, Holders
  <2>4. ASSUME NEW a \in Answers(s)
        PROVE  a.from \in Tables /\ a.companies \subseteq Found(a.from, s)
    BY <2>1 DEF Answers
  <2>5. ASSUME NEW c \in Holders("overrides", s)
        PROVE  \E a \in Answers(s) : a.from = "overrides" /\ c \in a.companies
    <3>1. c \in Found("overrides", s)
      BY <2>1, <2>2
    <3>2. [from |-> "overrides", companies |-> Found("overrides", s)] \in Answers(s)
      BY <3>1 DEF Answers
    <3> QED
      BY <3>1, <3>2
  <2>6. ASSUME NEW t \in {"tickers", "funds"}, NEW c \in Holders(t, s)
        PROVE  \E a \in Answers(s) :
                  \/ t = "tickers" /\ a.from = "overrides"
                  \/ t = "funds" /\ a.from # "funds"
                  \/ c \in a.companies
    <3>1. c \in Found(t, s)
      BY <2>1, <2>2
    <3>2. CASE Found("overrides", s) # {}
      <4>1. [from |-> "overrides", companies |-> Found("overrides", s)] \in Answers(s)
        BY <3>2 DEF Answers
      <4> QED
        BY <4>1
    <3>3. CASE Found("overrides", s) = {} /\ (t = "tickers" \/ Found("tickers", s) = {})
      <4>1. [from |-> t, companies |-> {c}] \in Answers(s)
        BY <3>1, <3>3 DEF Answers
      <4> QED
        BY <4>1
    <3>4. CASE Found("overrides", s) = {} /\ t = "funds" /\ Found("tickers", s) # {}
      <4>1. PICK d \in Found("tickers", s) : TRUE
        BY <3>4
      <4>2. [from |-> "tickers", companies |-> {d}] \in Answers(s)
        BY <3>4 DEF Answers
      <4> QED
        BY <3>4, <4>2
    <3> QED
      BY <3>2, <3>3, <3>4
  <2> QED
    BY <2>3, <2>4, <2>5, <2>6
<1> QED
  BY <1>1, HealAlways, PTL
=============================================================================
