--------------------------- MODULE CrossReference ---------------------------
(***************************************************************************)
(* The lists SEC publishes of tickers, funds and entities, the overrides   *)
(* of tickers of several companies, and symbol lookups: the functions      *)
(* ingest_cross_reference and ingest_multi_cik_overrides of db/ingest.py,  *)
(* surrogate ids of db/backend.py, resolve_symbol of db/query.py.          *)
(*                                                                         *)
(* A run replaces the four tables one after the other: the rows of every   *)
(* listed company are deleted in batches, then the list is inserted in     *)
(* batches, each statement committed by itself.  Nothing keeps a bulk run  *)
(* and another run apart, and a run may die between any two statements.    *)
(*                                                                         *)
(* An entry of a list is a company, what it is listed under, and the line  *)
(* it stands on: the lists may name a company twice under the same name.   *)
(***************************************************************************)
EXTENDS Integers, Sequences, FiniteSets, FiniteSetsExt, Functions

CONSTANTS
    CIK,          \* companies
    Name,         \* tickers, fund symbols, entity names
    Line,         \* what tells entries apart: class_id of a fund, else the position
    Pipeline,     \* processes
    Versions,     \* bound: how often each list changes
    Listed,       \* Listed[t][v]: version v of the list of table t
    DeleteBatch,  \* 500
    InsertBatch,  \* 1000
    MaxId         \* bound: surrogate ids

Order == <<"tickers", "funds", "entities", "overrides">>
Tables == {"tickers", "funds", "entities", "overrides"}

ASSUME XrefBounds ==
    /\ Versions \in [Tables -> Nat \ {0}]
    /\ DeleteBatch \in Nat \ {0} /\ InsertBatch \in Nat \ {0} /\ MaxId \in Nat
ASSUME XrefLists ==
    \A t \in Tables :
      /\ Listed[t] \in [1..Versions[t] -> SUBSET (CIK \X Name \X Line)]
      /\ \A v \in 1..Versions[t] : \A e, f \in Listed[t][v] : e[3] = f[3] => e = f
ASSUME FiniteLists ==
    \A t \in Tables : \A v \in 1..Versions[t] : IsFiniteSet(Listed[t][v])

VARIABLES
    list,        \* version of each list that SEC, or the package, has now
    db,          \* rows of the tables
    job,         \* the run of each process
    solo,        \* history: runs that have been the only one since they began
    overlapped,  \* history: two runs have been active at once
    clean        \* history: the last run was alone, has ended, lists are the same

vars == <<list, db, job, solo, overlapped, clean>>

\* id is the surrogate id of an entity, 0 where the key is of columns.  The line
\* a row comes from is stored for a fund; of the others no statement reads it.
Row == [id: 0..MaxId, cik: CIK, name: Name, line: Line]
Entry(r) == <<r.cik, r.name, r.line>>
Companies(entries) == {e[1] : e \in entries}

\* at: position in Order; drop, put: what is still to be deleted and inserted;
\* top: _id_high_water of the connection.
NoTop == -1
Job == [at: 0..Len(Order), lists: [Tables -> Nat], drop: SUBSET CIK,
        put: SUBSET (CIK \X Name \X Line), top: NoTop..MaxId]
NoLists == [t \in Tables |-> 0]
Idle == [at |-> 0, lists |-> NoLists, drop |-> {}, put |-> {}, top |-> NoTop]

At(p) == Order[job[p].at]
Active == {p \in Pipeline : job[p].at # 0}

Init ==
    /\ list = [t \in Tables |-> 1]
    /\ db = [t \in Tables |-> {}]
    /\ job = [p \in Pipeline |-> Idle]
    /\ solo = {} /\ overlapped = FALSE /\ clean = FALSE

-----------------------------------------------------------------------------
\* SEC publishes a list, or the package comes with other overrides.
Publish(t) ==
    /\ list[t] < Versions[t]
    /\ list' = [list EXCEPT ![t] = @ + 1]
    /\ clean' = FALSE
    /\ UNCHANGED <<db, job, solo, overlapped>>

\* _replace_rows_for_ciks begins with table i.
Open(i, lists) ==
    LET rows == Listed[Order[i]][lists[Order[i]]]
    IN [at |-> i, lists |-> lists, drop |-> Companies(rows), put |-> rows, top |-> NoTop]

\* The lists are fetched before anything is written; each is published by
\* itself, so that fetching them in one step loses nothing.
Begin(p) ==
    /\ job[p] = Idle
    /\ job' = [job EXCEPT ![p] = Open(1, list)]
    /\ solo' = IF Active = {} THEN {p} ELSE {}
    /\ overlapped' = (overlapped \/ Active # {})
    /\ clean' = FALSE
    /\ UNCHANGED <<list, db>>

Chunks(S, n) == {C \in SUBSET S : C # {} /\ (Cardinality(C) = n \/ (C = S /\ Cardinality(C) < n))}

Delete_ListedRows(p) ==
    /\ job[p].at # 0
    /\ \E C \in Chunks(job[p].drop, DeleteBatch) :
         /\ db' = [db EXCEPT ![At(p)] =
              {r \in @ : r.cik \notin C \/ <<r.cik, r.name>> \notin {<<e[1], e[2]>> : e \in job[p].put}}]
         /\ job' = [job EXCEPT ![p].drop = @ \ C]
    /\ UNCHANGED <<list, solo, overlapped, clean>>

Delete_KeyedOnly(p) ==
    /\ job[p].at # 0
    /\ \E C \in Chunks(job[p].drop, DeleteBatch) :
         /\ db' = [db EXCEPT ![At(p)] = {r \in @ : r.cik \notin C \/ r.id # 0}]
         /\ job' = [job EXCEPT ![p].drop = @ \ C]
    /\ UNCHANGED <<list, solo, overlapped, clean>>

Delete(p) ==
    /\ job[p].at # 0
    /\ \E C \in Chunks(job[p].drop, DeleteBatch) :
         /\ db' = [db EXCEPT ![At(p)] = {r \in @ : r.cik \notin C}]
         /\ job' = [job EXCEPT ![p].drop = @ \ C]
    /\ UNCHANGED <<list, solo, overlapped, clean>>

Inserting(p) == job[p].at # 0 /\ job[p].drop = {} /\ job[p].put # {}

\* _next_id_block asks for the largest id once per connection.
ReadTop(p) ==
    /\ Inserting(p) /\ At(p) = "entities" /\ job[p].top = NoTop
    /\ job' = [job EXCEPT ![p].top = Max({0} \cup {r.id : r \in db["entities"]})]
    /\ UNCHANGED <<list, db, solo, overlapped, clean>>

\* The rows a batch may become: with the next ids, in any order, or without.
Encoded(p, C) ==
    IF At(p) = "entities"
    THEN {{[id |-> f[e], cik |-> e[1], name |-> e[2], line |-> e[3]] : e \in C} :
            f \in Injection(C, job[p].top + 1 .. job[p].top + Cardinality(C))}
    ELSE {{[id |-> 0, cik |-> e[1], name |-> e[2], line |-> e[3]] : e \in C}}

\* What the primary keys of the four tables keep apart.
EntryKey(t, e) == IF t = "funds" THEN <<e[1], e[3]>> ELSE <<e[1], e[2]>>
Key(t, r) == IF t = "entities" THEN r.id ELSE EntryKey(t, Entry(r))

\* A key is in the table already, or twice in one statement.
Clash(t, rows) ==
    \E r \in rows, s \in db[t] \cup rows : r # s /\ Key(t, r) = Key(t, s)

\* The batches that may be next.
Batches(p) ==
    IF Inserting(p) /\ (At(p) = "entities" => job[p].top # NoTop)
    THEN {C \in Chunks(job[p].put, InsertBatch) :
            At(p) = "entities" => job[p].top + Cardinality(C) <= MaxId}
    ELSE {}

Insert(p) ==
    /\ \E C \in Batches(p) : \E rows \in Encoded(p, C) :
         /\ ~Clash(At(p), rows)
         /\ db' = [db EXCEPT ![At(p)] = @ \cup rows]
         /\ job' = [job EXCEPT ![p].put = @ \ C,
                               ![p].top = IF @ = NoTop THEN @ ELSE @ + Cardinality(C)]
    /\ UNCHANGED <<list, solo, overlapped, clean>>

Replaced(p) == job[p].at # 0 /\ job[p].drop = {} /\ job[p].put = {}

NextTable(p) ==
    /\ Replaced(p) /\ job[p].at < Len(Order)
    /\ job' = [job EXCEPT ![p] = Open(job[p].at + 1, job[p].lists)]
    /\ UNCHANGED <<list, db, solo, overlapped, clean>>

Finish(p) ==
    /\ Replaced(p) /\ job[p].at = Len(Order)
    /\ job' = [job EXCEPT ![p] = Idle]
    /\ clean' = (p \in solo /\ job[p].lists = list)
    /\ solo' = solo \ {p}
    /\ UNCHANGED <<list, db, overlapped>>

Stopped(p) ==
    /\ job' = [job EXCEPT ![p] = Idle]
    /\ solo' = solo \ {p}
    /\ UNCHANGED <<list, db, overlapped, clean>>

Clashes(p) == \E C \in Batches(p) : \E rows \in Encoded(p, C) : Clash(At(p), rows)

\* A duplicate key ends the run.
Raise(p) == Clashes(p) /\ Stopped(p)

\* So does anything else, at any time.
Crash(p) == p \in Active /\ Stopped(p)

Next ==
    \/ \E t \in Tables : Publish(t)
    \/ \E p \in Pipeline :
         \/ Begin(p) \/ Delete(p) \/ ReadTop(p) \/ Insert(p) \/ NextTable(p)
         \/ Finish(p) \/ Raise(p) \/ Crash(p)

Spec == Init /\ [][Next]_vars

-----------------------------------------------------------------------------
(* resolve_symbol.                                                          *)

Found(t, s) == {r.cik : r \in {r \in db[t] : r.name = s}}

Answers_TickersFirst(s) ==
    IF Found("tickers", s) # {}
    THEN {[from |-> "tickers", companies |-> {c}] : c \in Found("tickers", s)}
    ELSE IF Found("overrides", s) # {}
    THEN {[from |-> "overrides", companies |-> Found("overrides", s)]}
    ELSE {[from |-> "funds", companies |-> {c}] : c \in Found("funds", s)}

\* The table that answers, and the companies it may answer with: all of an
\* override, any one of the others.
Answers(s) ==
    IF Found("overrides", s) # {}
    THEN {[from |-> "overrides", companies |-> Found("overrides", s)]}
    ELSE IF Found("tickers", s) # {}
    THEN {[from |-> "tickers", companies |-> {c}] : c \in Found("tickers", s)}
    ELSE {[from |-> "funds", companies |-> {c}] : c \in Found("funds", s)}

-----------------------------------------------------------------------------
(* Properties.                                                              *)

Current(t) == Listed[t][list[t]]

\* Types of the state.
TypeOK ==
    /\ list \in [Tables -> Nat] /\ \A t \in Tables : list[t] \in 1..Versions[t]
    /\ db \in [Tables -> SUBSET Row]
    /\ job \in [Pipeline -> Job]
    /\ solo \subseteq Pipeline /\ overlapped \in BOOLEAN /\ clean \in BOOLEAN

\* After a run that had the database to itself every listed company has exactly
\* the rows of the list, one for each entry, whatever crashed and overlapping
\* runs have left: the run has healed it.
ReplacesListed ==
    clean => \A t \in Tables :
      LET rows == {r \in db[t] : r.cik \in Companies(Current(t))}
      IN {Entry(r) : r \in rows} = Current(t) /\ Cardinality(rows) = Cardinality(Current(t))

\* A list no table keyed by columns can take.
RepeatsKey(t, entries) ==
    t # "entities" /\ \E e, f \in entries : e # f /\ EntryKey(t, e) = EntryKey(t, f)

\* Nor does such a run fail on what they have left, neither on rows nor on ids:
\* only a list that has a key twice ends it.
AloneNeverRaises ==
    \A p \in solo : Clashes(p) => RepeatsKey(At(p), Listed[At(p)][job[p].lists[At(p)]])

\* So a run without others heals the tables, and cannot be kept from it.
AloneHeals == ReplacesListed /\ AloneNeverRaises

Count(S, c, n) == Cardinality({e \in S : e[1] = c /\ e[2] = n})

\* Crashes alone, wherever they strike, never double an entity, though nothing
\* but the surrogate id keeps its rows apart: a company has rows of one
\* published list only, and no more under a name than that list has lines.  Two
\* runs at once may leave it the rows of both.
DoublesNeedOverlap ==
    ~overlapped => \A c \in CIK : \E v \in 1..list["entities"] : \A n \in Name :
      Cardinality({r \in db["entities"] : r.cik = c /\ r.name = n})
        <= Count(Listed["entities"][v], c, n)

\* The companies list t has under a symbol.
Holders(t, s) == {e[1] : e \in {e \in Current(t) : e[2] = s}}

\* After a clean run a listed symbol is found, overrides before tickers before
\* funds, with companies that are listed under it - or are not listed at all any
\* more: their rows are never deleted, and may answer for their symbol for ever.
ResolvesToHolder ==
    clean => \A s \in Name :
      /\ \A c \in Holders("overrides", s) :
           \E a \in Answers(s) : a.from = "overrides" /\ c \in a.companies
      /\ \A c \in Holders("tickers", s) :
           \E a \in Answers(s) : a.from = "overrides" \/ c \in a.companies
      /\ \A c \in Holders("funds", s) :
           \E a \in Answers(s) : a.from # "funds" \/ c \in a.companies
      /\ \A a \in Answers(s) : \A c \in a.companies :
           c \in Holders(a.from, s) \/ c \notin Companies(Current(a.from))
=============================================================================
