--------------------------- MODULE ExchangeRates ----------------------------
(***************************************************************************)
(* The table of exchange rates: db/exchange_rates.py, which replaces it,   *)
(* and the two ways the program looks a rate up.                           *)
(*                                                                         *)
(* The ECB publishes one file with a cube per business day.  A load turns  *)
(* the cubes of the last ten years into rows and puts them in the place of *)
(* all rows there are, in one transaction.  run_update does not mind a     *)
(* load that fails.                                                        *)
(***************************************************************************)
EXTENDS Integers, FiniteSets

CONSTANTS
    Currency,  \* currencies other than USD, "EUR" among them
    FirstDay, MaxDay,  \* bound: days on which rates are loaded
    Quoted,    \* the ECB's file: per day and currency, its price in EUR
    Lookback,  \* lookback_days
    Batch      \* days whose rows one batch of the INSERT takes

Day == 1..MaxDay

\* Days without a cube (weekends) are days with no prices; a price that does
\* not parse, or is not there, is no price.  What was published stays.
ASSUME RatesAssumption ==
    /\ MaxDay \in Nat /\ FirstDay \in Day /\ Lookback \in Nat /\ Batch \in Nat \ {0}
    /\ "USD" \notin Currency /\ "EUR" \in Currency
    /\ \A d \in Day : DOMAIN Quoted[d] \subseteq (Currency \ {"EUR"}) \cup {"USD"}
    /\ \A d \in Day : \A c \in DOMAIN Quoted[d] : Quoted[d][c] \in Nat

VARIABLES
    today,  \* datetime.now(), the last day the file knows
    rates,  \* exchange_rates as committed
    load    \* the load that runs, or how the last one ended
            \* (left: rows to insert, seen: what its transaction sees)

rateVars == <<today, rates, load>>

Running == {"delete", "insert"}

Rate == [date: Day, currency: Currency \cup {"USD"}, rate: Nat]
Ended(how) == [phase |-> how, left |-> {}, seen |-> {}]

-----------------------------------------------------------------------------
(* The rows of a file.                                                      *)

\* Price of the currency in USD over its price in EUR; a day on which the USD
\* has no price has no rows, a price of zero counts as a dollar.
RowsOf(d) ==
    IF "USD" \notin DOMAIN Quoted[d] THEN {}
    ELSE LET usd == Quoted[d]["USD"]
             cross(c) == IF Quoted[d][c] = 0 THEN 1 ELSE usd \div Quoted[d][c]
         IN  {[date |-> d, currency |-> "USD", rate |-> 1],
              [date |-> d, currency |-> "EUR", rate |-> usd]}
             \cup {[date |-> d, currency |-> c, rate |-> cross(c)] :
                     c \in DOMAIN Quoted[d] \ {"USD"}}

FileRows(t) == UNION {RowsOf(d) : d \in {e \in Day : t - Lookback <= e /\ e <= t}}

-----------------------------------------------------------------------------
(* load_exchange_rates.                                                     *)

\* Download and parse; a download that fails, or a file without rows, leaves
\* the table alone (nothing happens here).
Fetch ==
    /\ load.phase \notin Running
    /\ FileRows(today) # {}
    /\ load' = [phase |-> "delete", left |-> FileRows(today), seen |-> rates]
    /\ UNCHANGED <<today, rates>>

Clear ==
    /\ load.phase = "delete"
    /\ load' = [load EXCEPT !.phase = "insert", !.seen = {}]
    /\ UNCHANGED <<today, rates>>

\* executemany of a batch: the file has its newest days first.
Insert ==
    /\ load.phase = "insert"
    /\ load.left # {}
    /\ \E first \in Day :
         LET batch == {r \in load.left : r.date >= first} IN
         /\ \/ Cardinality({r.date : r \in batch}) = Batch
            \/ batch = load.left
         /\ Cardinality({r.date : r \in batch}) \in 1..Batch
         /\ load' = [load EXCEPT !.left = @ \ batch, !.seen = @ \cup batch]
    /\ UNCHANGED <<today, rates>>

Commit ==
    /\ load.phase = "insert"
    /\ load.left = {}
    /\ rates' = load.seen
    /\ load' = Ended("done")
    /\ UNCHANGED today

Fail_Commits ==
    /\ load.phase \in Running
    /\ load' = Ended("failed")
    /\ rates' = load.seen
    /\ UNCHANGED today

\* A statement fails and the handler rolls back, or the process is killed.
Fail ==
    /\ load.phase \in Running
    /\ load' = Ended("failed")
    /\ UNCHANGED <<today, rates>>

\* A KeyboardInterrupt is no Exception: it passes the handler, and the finally
\* of ingest_exchange_rates finalizes the connection, which commits.
Interrupt ==
    /\ load.phase \in Running
    /\ rates' = load.seen
    /\ load' = Ended("interrupted")
    /\ UNCHANGED today

NextDay ==
    /\ today < MaxDay
    /\ today' = today + 1
    /\ UNCHANGED <<rates, load>>

RatesInit ==
    /\ today = FirstDay
    /\ rates = {}
    /\ load = Ended("done")

RatesNext == Fetch \/ Clear \/ Insert \/ Commit \/ Fail \/ Interrupt \/ NextDay

-----------------------------------------------------------------------------
(* Looking a rate up.                                                       *)

OnOrBefore(c, p) == {r \in rates : r.currency = c /\ r.date <= p}

\* nearest_rates of the rankings: the rows of the currency up to the period,
\* the newest of them.
NearestRate(c, p) ==
    CHOOSE r \in OnOrBefore(c, p) : \A s \in OnOrBefore(c, p) : s.date <= r.date

Bisect_Left(c, p, last) ==
    LET asked == OnOrBefore(c, last)
        place(r) == Cardinality({s \in asked : s.date <= r.date})
        index == Cardinality({s \in asked : s.date < p})
    IN  {r \in asked : place(r) = index}

\* _convert_rows_to_usd of the server asks once for a whole statement, up to
\* its last period; bisect_right then counts the rows up to the period asked
\* for, and the row before that place is taken.
Bisect(c, p, last) ==
    LET asked == OnOrBefore(c, last)
        place(r) == Cardinality({s \in asked : s.date <= r.date})
        index == Cardinality({s \in asked : s.date <= p})
    IN  {r \in asked : place(r) = index}

-----------------------------------------------------------------------------
(* Properties.                                                              *)

\* Types of the state.
RatesTypeOK ==
    /\ today \in Day
    /\ rates \subseteq Rate
    /\ load.phase \in Running \cup {"done", "failed", "interrupted"}
    /\ load.left \subseteq Rate /\ load.seen \subseteq Rate

\* A rate that was there and is not too old for the lookback is there after
\* every load: though a load deletes everything first, its failure at any
\* statement, a file that ends early or days without prices take no rate away.
\* Only an interrupt from the keyboard can.
OnlyInterruptLoses ==
    [][load'.phase = "interrupted" \/ \A r \in rates : r.date >= today - Lookback => r \in rates']_rateVars
=============================================================================
