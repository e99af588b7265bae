---------------------------- MODULE FactsMirror ----------------------------
(***************************************************************************)
(* What the ingest promises its readers about companyfacts: each company   *)
(* mirrors one published document, moves to another in one step, and never *)
(* returns to an older one.  It does not promise to visit every document.  *)
(***************************************************************************)
EXTENDS Integers

CONSTANTS CIK,        \* companies
          MaxVersion  \* bound: versions published of one document

VARIABLES published,  \* latest document SEC serves of each company
          mirror      \* document the tables hold of each company, 0 for none

Init ==
    /\ published \in [CIK -> 0..MaxVersion]
    /\ mirror \in [CIK -> 0..MaxVersion]
    /\ \A c \in CIK : mirror[c] <= published[c]

Publish(c) ==
    /\ published[c] < MaxVersion
    /\ published' = [published EXCEPT ![c] = @ + 1]
    /\ UNCHANGED mirror

Refresh(c) ==
    /\ \E v \in mirror[c] + 1 .. published[c] : mirror' = [mirror EXCEPT ![c] = v]
    /\ UNCHANGED published

Next == \E c \in CIK : Publish(c) \/ Refresh(c)

Spec == Init /\ [][Next]_<<published, mirror>>
=============================================================================
