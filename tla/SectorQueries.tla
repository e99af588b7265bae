--------------------------- MODULE SectorQueries ----------------------------
(***************************************************************************)
(* The queries of db/sectors.py beside the rebuilds of cik_gics.           *)
(*                                                                         *)
(* A query reads the classification from cik_gics when the table is there  *)
(* and computes it otherwise.  Whether it is there is remembered for TTL   *)
(* seconds in two module globals, which the threads of the server read and *)
(* write without a lock: the answer first, the time of the check after it. *)
(*                                                                         *)
(* Time is counted in ticks and kept as ages, capped where nothing tells   *)
(* them apart any more.  A thread takes at most Slow ticks from looking at *)
(* the clock to using what it was told.                                    *)
(***************************************************************************)
EXTENDS GicsRebuild

CONSTANTS
    Thread,  \* threads of the server
    TTL,     \* 60.0, in ticks
    Slow     \* bound: ticks a thread spends in _has_cik_gics

ASSUME ClockSizes == TTL \in Nat \ {0} /\ Slow \in Nat

VARIABLES
    present,  \* _cik_gics_present
    age,      \* time since _cik_gics_checked_at
    call,     \* the threads: where they are in _has_cik_gics
    gone      \* history: time since the table was dropped

readerVars == <<present, age, call, gone>>
vars == <<rebuildVars, readerVars>>

MaxAge == TTL + Slow
Bound == TTL + 2 * Slow
Older(n, max) == IF n < max THEN n + 1 ELSE max

CallPhases == {"idle", "check", "look", "assign", "stamp", "use"}
\* waited: time since its monotonic(); seen: was the table there.
Call == [phase: CallPhases, waited: 0..Slow, seen: BOOLEAN]
NoCall == [phase |-> "idle", waited |-> 0, seen |-> FALSE]

Init ==
    /\ RebuildInit
    /\ present = FALSE
    /\ age \in 0..MaxAge
    /\ call = [t \in Thread |-> NoCall]
    /\ gone = 0

Step(t, from, to) == call[t].phase = from /\ call' = [call EXCEPT ![t].phase = to]

-----------------------------------------------------------------------------
(* _has_cik_gics.                                                           *)

\* now = time.monotonic()
Ask(t) ==
    /\ call[t].phase = "idle"
    /\ call' = [call EXCEPT ![t] = [phase |-> "check", waited |-> 0, seen |-> FALSE]]
    /\ UNCHANGED <<rebuildVars, present, age, gone>>

Recent(t) == age - call[t].waited < TTL

StillKnown_Slides(t) ==
    /\ Recent(t)
    /\ Step(t, "check", "use")
    /\ age' = call[t].waited
    /\ UNCHANGED <<rebuildVars, present, gone>>

StillKnown(t) ==
    /\ Recent(t)
    /\ Step(t, "check", "use")
    /\ UNCHANGED <<rebuildVars, present, age, gone>>

Expired(t) ==
    /\ ~Recent(t)
    /\ Step(t, "check", "look")
    /\ UNCHANGED <<rebuildVars, present, age, gone>>

\* SHOW TABLES; a connection that fails counts as no table.
Look(t) ==
    /\ call[t].phase = "look"
    /\ \E seen \in {FALSE, table.there} :
         call' = [call EXCEPT ![t].phase = "assign", ![t].seen = seen]
    /\ UNCHANGED <<rebuildVars, present, age, gone>>

Assign(t) ==
    /\ Step(t, "assign", "stamp")
    /\ present' = call[t].seen
    /\ UNCHANGED <<rebuildVars, age, gone>>

Stamp(t) ==
    /\ Step(t, "stamp", "use")
    /\ age' = call[t].waited
    /\ UNCHANGED <<rebuildVars, present, gone>>

\* return _cik_gics_present, whatever it is by now; the query that follows is
\* one statement, on cik_gics or on the facts.
Use(t) ==
    /\ call[t].phase = "use"
    /\ call' = [call EXCEPT ![t] = NoCall]
    /\ UNCHANGED <<rebuildVars, present, age, gone>>

ThreadStep(t) ==
    \/ StillKnown(t) \/ Expired(t) \/ Look(t) \/ Assign(t) \/ Stamp(t)
    \/ Use(t)

-----------------------------------------------------------------------------
\* Threads inside _has_cik_gics are not slower than that.
Tick ==
    /\ \A t \in Thread : call[t].phase # "idle" => call[t].waited < Slow
    /\ age' = Older(age, MaxAge)
    /\ gone' = IF table.there THEN 0 ELSE Older(gone, Bound)
    /\ call' = [t \in Thread |->
                  IF call[t].phase = "idle" THEN call[t]
                  ELSE [call[t] EXCEPT !.waited = @ + 1]]
    /\ UNCHANGED <<rebuildVars, present>>

Rebuild ==
    /\ RebuildNext
    /\ gone' = IF table.there # table'.there THEN 0 ELSE gone
    /\ UNCHANGED <<present, age, call>>

Next == Rebuild \/ Tick \/ \E t \in Thread : Ask(t) \/ ThreadStep(t)

Spec == Init /\ [][Next]_vars

-----------------------------------------------------------------------------
(* Properties.                                                              *)

\* Types of the state.
TypeOK ==
    /\ RebuildTypeOK
    /\ present \in BOOLEAN
    /\ age \in 0..MaxAge
    /\ call \in [Thread -> Call]
    /\ gone \in 0..Bound

\* A query is sent to a table that is gone for less than TTL and the time two
\* threads may take: one that saw the table and says so late, and one that is
\* told so late.  That the two globals are written apart and without a lock
\* does not make a stale answer last.
MissingIsNoticed ==
    \A t \in Thread : call[t].phase = "use" /\ present /\ ~table.there => gone < Bound
=============================================================================
