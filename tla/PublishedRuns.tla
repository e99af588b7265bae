--------------------------- MODULE PublishedRuns ----------------------------
(***************************************************************************)
(* What those who follow the database on DoltHub are promised: its branch  *)
(* only ever holds the tables of one finished update, and a follower only  *)
(* ever moves forward from one such state to another.                      *)
(***************************************************************************)
EXTENDS Integers

CONSTANTS
    Company,
    Part  \* tables that are derived one after the other

VARIABLES
    sec,    \* the version of its documents each company has filed
    head,   \* the branch on DoltHub: the version of each company in each table
    served  \* what a follower has, 0 if nothing yet

vars == <<sec, head, served>>
All(v) == [c \in Company |-> v]
Whole(versions) == [p \in Part |-> versions]

Init == sec = All(1) /\ head = Whole(All(1)) /\ served = Whole(All(0))

Publish ==
    /\ \E c \in Company : sec' = [sec EXCEPT ![c] = @ + 1]
    /\ UNCHANGED <<head, served>>

\* All tables are of the same versions, none older than before.
FinishRun ==
    /\ \E p \in Part : head' = Whole(head'[p])
    /\ \A p \in Part, c \in Company : head'[p][c] \in head[p][c]..sec[c]
    /\ UNCHANGED <<sec, served>>

Follow ==
    /\ served' = head
    /\ UNCHANGED <<sec, head>>

Next == Publish \/ FinishRun \/ Follow
Spec == Init /\ [][Next]_vars
=============================================================================
