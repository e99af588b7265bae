--------------------------- MODULE RankingsProofs ---------------------------
(***************************************************************************)
(* Theorems about the exchange rates, the rankings and the totals of       *)
(* sectors: for any companies, statements, currencies and prices, any      *)
(* lookback and batch size, and loads that fail at any statement.          *)
(***************************************************************************)
EXTENDS Rankings, FiniteSetTheorems, WellFoundedInduction, TLAPS

-----------------------------------------------------------------------------
(* The rates.                                                               *)

\* A row is one that the file has for its day, and was made of prices that
\* were known on day t.
Published(R, t) == \A r \in R : r \in RowsOf(r.date) /\ r.date \in Day /\ r.date <= t

\* A load works on the file of some day t up to today; what is committed is
\* not newer, and what was deleted is on its way back.
LoadOK ==
    load.phase \in Running =>
      \E t \in Day :
        /\ t <= today
        /\ Published(rates, t)
        /\ load.phase = "delete" => load.left = FileRows(t) /\ load.seen = rates
        /\ load.phase = "insert" => load.left \cup load.seen = FileRows(t)

LoadShape ==
    /\ load \in [phase : Running \cup {"done", "failed", "interrupted"},
                 left : SUBSET Rate, seen : SUBSET Rate]
    /\ today \in Day
    /\ rates \subseteq Rate

RatesInv == LoadShape /\ Published(rates, today) /\ LoadOK

\* Rows have the types of the table: a price is a natural number, and none is
\* divided by zero.
LEMMA RowsType ==
  ASSUME NEW d \in Day
  PROVE  /\ RowsOf(d) \subseteq Rate
         /\ \A r \in RowsOf(d) : r.date = d
<1> SUFFICES ASSUME NEW r \in RowsOf(d) PROVE r \in Rate /\ r.date = d
  OBVIOUS
<1>1. "USD" \in DOMAIN Quoted[d]
  BY DEF RowsOf
<1> DEFINE usd == Quoted[d]["USD"]
           cross(c) == IF Quoted[d][c] = 0 THEN 1 ELSE usd \div Quoted[d][c]
<1>2. usd \in Nat
  BY <1>1, RatesAssumption DEF RatesAssumption
<1>3. CASE r = [date |-> d, currency |-> "USD", rate |-> 1]
  BY <1>3 DEF Rate
<1>4. CASE r = [date |-> d, currency |-> "EUR", rate |-> usd]
  BY <1>2, <1>4, RatesAssumption DEF Rate, RatesAssumption
<1>5. ASSUME NEW c \in DOMAIN Quoted[d] \ {"USD"},
             r = [date |-> d, currency |-> c, rate |-> cross(c)]
      PROVE  r \in Rate /\ r.date = d
  <2>1. Quoted[d][c] \in Nat /\ c \in Currency
    BY RatesAssumption DEF RatesAssumption
  <2> DEFINE q == Quoted[d][c]
  <2> HIDE DEF q, usd
  <2>2. (IF q = 0 THEN 1 ELSE usd \div q) \in Nat
    BY <1>2, <2>1 DEF q
  <2>3. cross(c) \in Nat
    BY <2>2 DEF q, usd
  <2> HIDE DEF cross
  <2> QED
    BY <1>5, <2>1, <2>3 DEF Rate
<1> QED
  BY <1>1, <1>3, <1>4, <1>5 DEF RowsOf

\* A day has one rate of a currency.
LEMMA OneRatePerDay ==
  ASSUME NEW d \in Day, NEW r \in RowsOf(d), NEW s \in RowsOf(d), r.currency = s.currency
  PROVE  r = s
<1>1. "USD" \in DOMAIN Quoted[d] /\ "EUR" \notin DOMAIN Quoted[d]
  BY RatesAssumption DEF RatesAssumption, RowsOf
<1> QED
  BY <1>1 DEF RowsOf

LEMMA FileType ==
  ASSUME NEW t \in Day
  PROVE  FileRows(t) \subseteq Rate /\ Published(FileRows(t), t)
  BY RowsType DEF FileRows, Published

LEMMA InitRates == RatesInit => RatesInv
  BY RatesAssumption
     DEF RatesAssumption, RatesInit, RatesInv, LoadShape, Published, LoadOK, Ended, Running

\* What a failed load would commit is published in its turn.
LEMMA SeenIsPublished ==
  ASSUME RatesInv, load.phase \in Running
  PROVE  Published(load.seen, today)
<1>1. PICK t \in Day : /\ t <= today
                       /\ Published(rates, t)
                       /\ load.phase = "delete" => load.left = FileRows(t) /\ load.seen = rates
                       /\ load.phase = "insert" => load.left \cup load.seen = FileRows(t)
  BY DEF RatesInv, LoadOK
<1>2. Published(load.seen, t)
  BY <1>1, FileType DEF Running, Published
<1> QED
  BY <1>1, <1>2 DEF Published, RatesInv, LoadShape, Day

LEMMA FetchRates == RatesInv /\ Fetch => RatesInv'
<1> SUFFICES ASSUME RatesInv, Fetch PROVE RatesInv'
  OBVIOUS
<1> USE DEF Running
<1>1. today \in Day /\ FileRows(today) \subseteq Rate
  BY FileType DEF RatesInv, LoadShape
<1>2. LoadShape'
  BY <1>1 DEF RatesInv, LoadShape, Fetch
<1>3. Published(rates', today')
  BY DEF RatesInv, Fetch, Published
<1>4. LoadOK'
  <2>1. today' \in Day /\ today' <= today'
    BY <1>1 DEF Fetch, Day
  <2>2. load'.phase = "delete" /\ load'.left = FileRows(today') /\ load'.seen = rates'
    BY DEF Fetch
  <2> QED
    BY <1>3, <2>1, <2>2 DEF LoadOK
<1> QED
  BY <1>2, <1>3, <1>4 DEF RatesInv

LEMMA ClearRates == RatesInv /\ Clear => RatesInv'
<1> SUFFICES ASSUME RatesInv, Clear PROVE RatesInv'
  OBVIOUS
<1> USE DEF Running
<1>1. LoadShape'
  BY DEF RatesInv, LoadShape, Clear
<1>2. PICK t \in Day : t <= today /\ Published(rates, t) /\ load.left = FileRows(t)
  BY DEF RatesInv, LoadOK, Clear
<1>3. load'.phase = "insert" /\ load'.left = load.left /\ load'.seen = {}
  BY DEF Clear, RatesInv, LoadShape
<1>4. LoadOK'
  BY <1>2, <1>3 DEF LoadOK, Clear
<1> QED
  BY <1>1, <1>4 DEF RatesInv, Clear

LEMMA InsertRates == RatesInv /\ Insert => RatesInv'
<1> SUFFICES ASSUME RatesInv, Insert PROVE RatesInv'
  OBVIOUS
<1> USE DEF Running
<1>1. PICK first \in Day :
        load' = [load EXCEPT !.left = @ \ {r \in load.left : r.date >= first},
                             !.seen = @ \cup {r \in load.left : r.date >= first}]
  BY DEF Insert
<1> DEFINE batch == {r \in load.left : r.date >= first}
<1>2. batch \subseteq load.left
  OBVIOUS
<1> HIDE DEF batch
<1>3. /\ load'.phase = "insert"
      /\ load'.left = load.left \ batch /\ load'.seen = load.seen \cup batch
  BY <1>1 DEF RatesInv, LoadShape, Insert, batch
<1>4. LoadShape'
  BY <1>1, <1>2 DEF RatesInv, LoadShape, Insert, batch
<1>5. PICK t \in Day : /\ t <= today /\ Published(rates, t)
                       /\ load.left \cup load.seen = FileRows(t)
  BY DEF RatesInv, LoadOK, Insert
<1>6. load'.left \cup load'.seen = FileRows(t)
  BY <1>2, <1>3, <1>5
<1>7. LoadOK'
  BY <1>3, <1>5, <1>6 DEF LoadOK, Insert
<1> QED
  BY <1>4, <1>7 DEF RatesInv, Insert

LEMMA EndRates == RatesInv /\ (Commit \/ Fail \/ Interrupt) => RatesInv'
<1> SUFFICES ASSUME RatesInv, Commit \/ Fail \/ Interrupt PROVE RatesInv'
  OBVIOUS
<1> USE DEF Running
<1>1. load.phase \in Running
  BY DEF Commit, Fail, Interrupt
<1>2. rates' \in {rates, load.seen} /\ today' = today
  BY DEF Commit, Fail, Interrupt
<1>3. Published(rates', today')
  BY <1>1, <1>2, SeenIsPublished DEF RatesInv
<1>4. load' \in {Ended("done"), Ended("failed"), Ended("interrupted")}
  BY DEF Commit, Fail, Interrupt
<1>5. LoadShape'
  BY <1>2, <1>4 DEF RatesInv, LoadShape, Ended
<1>6. LoadOK'
  BY <1>4 DEF LoadOK, Ended
<1> QED
  BY <1>3, <1>5, <1>6 DEF RatesInv

LEMMA NextDayRates == RatesInv /\ NextDay => RatesInv'
<1> SUFFICES ASSUME RatesInv, NextDay PROVE RatesInv'
  OBVIOUS
<1>1. /\ today \in Nat /\ today' = today + 1 /\ today' \in Day
      /\ rates' = rates /\ load' = load
  BY RatesAssumption DEF RatesAssumption, RatesInv, LoadShape, NextDay, Day
<1>2. LoadShape'
  BY <1>1 DEF RatesInv, LoadShape
<1>3. ASSUME NEW t \in Day, t <= today PROVE t <= today'
  BY <1>1, <1>3 DEF Day
<1>4. Published(rates', today')
  BY <1>1, <1>3 DEF RatesInv, Published
<1>5. LoadOK'
  BY <1>1, <1>3 DEF RatesInv, LoadOK
<1> QED
  BY <1>2, <1>4, <1>5 DEF RatesInv

LEMMA RatesKept == RatesInv /\ UNCHANGED rateVars => RatesInv'
  BY DEF RatesInv, rateVars, LoadShape, Published, LoadOK

LEMMA StepRates == RatesInv /\ [RatesNext]_rateVars => RatesInv'
  BY FetchRates, ClearRates, InsertRates, EndRates, NextDayRates, RatesKept DEF RatesNext

\* A query leaves the rates alone.
LEMMA QueriesKeepRates == [Next]_vars => [RatesNext]_rateVars
  BY DEF Next, vars, LoadRates, AskRanking, AskSector, TopByMetric, TopBySum, TopByRatio, Asked

THEOREM RatesInvariant == Spec => []RatesInv
<1>1. Init => RatesInv
  BY InitRates DEF Init
<1>2. RatesInv /\ [Next]_vars => RatesInv'
  BY StepRates, QueriesKeepRates
<1> QED
  BY <1>1, <1>2, PTL DEF Spec

\* Whatever the prices of the file, rows and loads keep their types: no rate is
\* made of a price that is missing or zero.
THEOREM RatesTypes == Spec => []RatesTypeOK
<1>1. RatesInv => RatesTypeOK
  BY DEF RatesInv, LoadShape, RatesTypeOK, Running
<1> QED
  BY RatesInvariant, <1>1, PTL

\* A load that is not interrupted loses no rate the lookback reaches: the file
\* it commits is of a day no older than any rate there is.
LEMMA CommitLosesNothing ==
  ASSUME RatesInv, Commit, NEW r \in rates, r.date >= today - Lookback
  PROVE  r \in rates'
<1>1. PICK t \in Day : t <= today /\ Published(rates, t) /\ load.seen = FileRows(t)
  BY DEF RatesInv, LoadOK, Commit, Running
<1>2. r.date \in {e \in Day : t - Lookback <= e /\ e <= t} /\ r \in RowsOf(r.date)
  BY <1>1, RatesAssumption DEF RatesAssumption, Published, RatesInv, LoadShape, Day
<1>3. r \in FileRows(t)
  BY <1>2 DEF FileRows
<1> QED
  BY <1>1, <1>3 DEF Commit

\* Though a load deletes all rates first, only an interrupt from the keyboard
\* takes away a rate the lookback still reaches: a load that fails, at
\* whichever statement, leaves the table as it was, and one that is committed
\* has all rates there were again.
THEOREM LoadsLoseNoRate == Spec => OnlyInterruptLoses
<1>1. RatesInv /\ [Next]_vars =>
        [load'.phase = "interrupted"
         \/ \A r \in rates : r.date >= today - Lookback => r \in rates']_rateVars
  <2> SUFFICES ASSUME RatesInv, [Next]_vars, rateVars' # rateVars, load'.phase # "interrupted",
                      NEW r \in rates, r.date >= today - Lookback
               PROVE  r \in rates'
    OBVIOUS
  <2>1. RatesNext
    BY QueriesKeepRates
  <2>2. CASE Commit
    BY <2>2, CommitLosesNothing
  <2>3. CASE Fetch \/ Clear \/ Insert \/ Fail \/ NextDay
    BY <2>3 DEF Fetch, Clear, Insert, Fail, NextDay
  <2>4. CASE Interrupt
    BY <2>4 DEF Interrupt, Ended
  <2> QED
    BY <2>1, <2>2, <2>3, <2>4 DEF RatesNext
<1> QED
  BY RatesInvariant, <1>1, PTL DEF Spec, OnlyInterruptLoses

-----------------------------------------------------------------------------
(* What a ranking cuts off.                                                 *)

LEMMA MinOfTwo ==
  ASSUME NEW m \in Nat, NEW n \in Nat
  PROVE  Min({m, n}) = IF m <= n THEN m ELSE n
<1> DEFINE least == IF m <= n THEN m ELSE n
<1>1. least \in {m, n} /\ \A y \in {m, n} : least <= y
  OBVIOUS
<1>2. \A x \in {m, n} : (\A y \in {m, n} : x <= y) => x = least
  OBVIOUS
<1> QED
  BY <1>1, <1>2 DEF Min

LEMMA FiniteImage ==
  ASSUME NEW S, IsFiniteSet(S), NEW F, F = [x \in S |-> F[x]]
  PROVE  IsFiniteSet({F[x] : x \in S})
<1> DEFINE T == {F[x] : x \in S}
<1>1. F \in [S -> T]
  OBVIOUS
<1>2. \A t \in T : \E x \in S : F[x] = t
  OBVIOUS
<1> HIDE DEF T
<1>3. F \in Surjection(S, T)
  BY <1>1, <1>2 DEF Surjection
<1> QED
  BY <1>3, FS_Surjection DEF T

\* The first n of S are all of S, or n that none of the others exceeds.
LEMMA LargestFacts ==
  ASSUME NEW S, IsFiniteSet(S), NEW n \in Nat, NEW T \in Largest(S, n)
  PROVE  /\ T \subseteq S /\ IsFiniteSet(T)
         /\ \A t \in T, u \in S \ T : t.value >= u.value
         /\ Cardinality(T) \in Nat
         /\ Cardinality(T) = n \/ (T = S /\ Cardinality(T) < n)
<1>1. T \subseteq S /\ Cardinality(T) = Min({n, Cardinality(S)})
  BY DEF Largest
<1>2. Cardinality(S) \in Nat
  BY FS_CardinalityType
<1>3. IsFiniteSet(T) /\ (Cardinality(S) = Cardinality(T) => S = T)
  BY <1>1, FS_Subset
<1>4. Cardinality(T) \in Nat
  BY <1>3, FS_CardinalityType
<1>5. Cardinality(T) = IF n <= Cardinality(S) THEN n ELSE Cardinality(S)
  BY <1>1, <1>2, MinOfTwo
<1>6. \A t \in T, u \in S \ T : t.value >= u.value
  BY DEF Largest
<1> QED
  BY <1>1, <1>2, <1>3, <1>4, <1>5, <1>6

\* What the server answers of the figures scored.
RanksWell(figures, scored, limit, L) ==
    \A s \in scored \ figures : s.cik \in L =>
      /\ \A f \in figures : f.value >= s.value
      /\ \/ Cardinality(figures) = limit
         \/ LET ahead == {u \in scored : u.cik \notin L /\ u.value >= s.value}
            IN  Cardinality(ahead) > (Scan - 1) * limit

\* Where fewer are answered than asked for, the first cut was full, and all of
\* it but the answer is without a ticker.
LEMMA RankedWell ==
  ASSUME NEW scored, IsFiniteSet(scored), NEW limit \in Nat,
         NEW figures \in Ranked(scored, limit)
  PROVE  figures \subseteq scored /\ RanksWell(figures, scored, limit, listed)
<1>1. PICK T \in Largest(scored, Scan * limit) :
             figures \in Largest({s \in T : s.cik \in listed}, limit)
  BY DEF Ranked
<1> DEFINE TL == {s \in T : s.cik \in listed}
<1>2. Scan \in Nat \ {0} /\ Scan * limit \in Nat
  BY RankingAssumption DEF RankingAssumption
<1>3. /\ T \subseteq scored /\ IsFiniteSet(T)
      /\ \A t \in T, u \in scored \ T : t.value >= u.value
      /\ Cardinality(T) \in Nat
      /\ Cardinality(T) = Scan * limit \/ (T = scored /\ Cardinality(T) < Scan * limit)
  BY <1>1, <1>2, LargestFacts
<1>4. TL \subseteq T /\ IsFiniteSet(TL)
  BY <1>3, FS_Subset
<1>5. /\ figures \subseteq TL
      /\ \A t \in figures, u \in TL \ figures : t.value >= u.value
      /\ Cardinality(figures) \in Nat
      /\ Cardinality(figures) = limit \/ (figures = TL /\ Cardinality(figures) < limit)
  BY <1>1, <1>4, LargestFacts
<1>6. ASSUME NEW s \in scored \ figures, s.cik \in listed
      PROVE  \A f \in figures : f.value >= s.value
  BY <1>3, <1>5, <1>6
<1>7. ASSUME NEW s \in scored \ figures, s.cik \in listed, Cardinality(figures) # limit
      PROVE  Cardinality({u \in scored : u.cik \notin listed /\ u.value >= s.value})
               > (Scan - 1) * limit
  <2> DEFINE ahead == {u \in scored : u.cik \notin listed /\ u.value >= s.value}
  <2>1. figures = TL /\ Cardinality(TL) < limit
    BY <1>5, <1>7
  <2>2. s \notin T
    BY <1>7, <2>1
  <2>3. Cardinality(T) = Scan * limit
    BY <1>3, <2>2
  <2>4. IsFiniteSet(T \ TL) /\ Cardinality(T \ TL) = Cardinality(T) - Cardinality(T \cap TL)
    BY <1>3, FS_Difference
  <2>5. T \cap TL = TL
    BY <1>4
  <2>6. T \ TL \subseteq ahead
    BY <1>3, <2>2
  <2>7. IsFiniteSet(ahead)
    BY FS_Subset
  <2>8. Cardinality(T \ TL) <= Cardinality(ahead) /\ Cardinality(ahead) \in Nat
    BY <2>6, <2>7, FS_Subset, FS_CardinalityType
  <2>9. Cardinality(T \ TL) = Scan * limit - Cardinality(TL) /\ Cardinality(TL) \in Nat
    BY <1>5, <2>1, <2>3, <2>4, <2>5
  <2>10. (Scan - 1) * limit = Scan * limit - limit
    BY <1>2
  <2> HIDE DEF ahead, TL
  <2> QED
    BY <1>2, <2>1, <2>8, <2>9, <2>10 DEF ahead
<1> QED
  BY <1>3, <1>4, <1>5, <1>6, <1>7 DEF RanksWell

-----------------------------------------------------------------------------
(* What is ranked.                                                          *)

StoreInv == statements \in Store /\ listed \in Listings

LEMMA StoreType ==
  ASSUME StoreInv
  PROVE  /\ IsFiniteSet(statements) /\ statements \subseteq Statement
         /\ \A s, t \in statements : s.cik = t.cik =>
              /\ s.financial = t.financial /\ s.currency = t.currency
              /\ s.tag = t.tag /\ SameFiling(s, t) => s = t
  BY StoreAssumption DEF StoreAssumption, StoreInv

LEMMA StatementType ==
  ASSUME StoreInv, NEW s \in statements
  PROVE  /\ s.cik \in Company /\ s.period \in Day /\ s.period \in Int
         /\ s.val # Null => s.val \in Int
         /\ s.fiscal_year \in Int
         /\ s.currency \in Currency \cup {"USD"}
  BY StoreType DEF Statement, Day

\* Of days there is a last one.
LEMMA LastDay ==
  ASSUME NEW S \in SUBSET Day, S # {}
  PROVE  \E x \in S : \A y \in S : y <= x
<1> DEFINE T == {MaxDay - x : x \in S}
<1>1. T \subseteq Nat /\ T # {}
  <2>1. ASSUME NEW x \in S PROVE MaxDay - x \in Nat
    BY RatesAssumption DEF RatesAssumption, Day
  <2> QED
    BY <2>1
<1> HIDE DEF T
<1>2. PICK m \in T : \A y \in T : ~(<<y, m>> \in OpToRel(<, Nat))
  BY <1>1, NatLessThanWellFounded, WFMin
<1>3. \A y \in T : ~(y < m)
  BY <1>1, <1>2 DEF OpToRel
<1>4. PICK x \in S : m = MaxDay - x
  BY DEF T
<1>5. \A y \in S : ~(MaxDay - y < MaxDay - x)
  BY <1>3, <1>4 DEF T
<1>6. ASSUME NEW y \in S PROVE y <= x
  <2>1. y \in Int /\ x \in Int /\ MaxDay \in Int
    BY RatesAssumption DEF RatesAssumption, Day
  <2>2. ~(MaxDay - y < MaxDay - x)
    BY <1>5
  <2> QED
    BY <2>1, <2>2
<1> QED
  BY <1>6

\* The rate the rankings look up is there, and is the newest up to the day.
LEMMA NearestIsNewest ==
  ASSUME RatesInv, NEW c, NEW p, OnOrBefore(c, p) # {}
  PROVE  /\ NearestRate(c, p) \in OnOrBefore(c, p)
         /\ \A r \in OnOrBefore(c, p) : r.date <= NearestRate(c, p).date
<1> DEFINE asked == OnOrBefore(c, p)
           days == {r.date : r \in asked}
<1>1. asked \subseteq Rate
  BY DEF OnOrBefore, RatesInv, LoadShape
<1>2. days \subseteq Day /\ days # {}
  BY <1>1 DEF Rate
<1>3. PICK x \in days : \A y \in days : y <= x
  BY <1>2, LastDay
<1>4. \E r \in asked : \A s \in asked : s.date <= r.date
  BY <1>3
<1> QED
  BY <1>4 DEF NearestRate

\* A rate that is used is one there is.
LEMMA RateForType ==
  ASSUME RatesInv, NEW s, Convertible(s)
  PROVE  RateFor(s) \in Nat
<1>1. CASE s.currency = "USD"
  BY <1>1 DEF RateFor
<1>2. CASE s.currency # "USD"
  <2>1. NearestRate(s.currency, s.period) \in OnOrBefore(s.currency, s.period)
    BY <1>2, NearestIsNewest DEF Convertible
  <2>2. NearestRate(s.currency, s.period) \in Rate
    BY <2>1 DEF OnOrBefore, RatesInv, LoadShape
  <2> QED
    BY <1>2, <2>2 DEF RateFor, Rate
<1> QED
  BY <1>1, <1>2

\* A figure of each ranking, and where it comes from.
MetricFigure(f, tag, ciks) ==
    \E s \in Newest(Reported(tag, IF tag = "equity" THEN {"annual", "quarterly"} ELSE {"annual"},
                             ciks)) :
      /\ Convertible(s)
      /\ f.cik = s.cik /\ f.period = s.period
      /\ f.value = IF tag = "capex" THEN -(s.val * RateFor(s)) ELSE s.val * RateFor(s)

SumFigure(f, tagA, tagB, ciks) ==
    \E As \in OnePerPeriod(Annual(tagA, ciks)), Bs \in OnePerPeriod(Annual(tagB, ciks)) :
      \E p \in NewestPairs(Pairs(As, Bs)) :
        /\ Convertible(p.a)
        /\ f.cik = p.a.cik /\ f.period = p.a.period
        /\ f.value = (p.a.val + p.b.val) * RateFor(p.a)

RatioFigure(f, tagA, tagB, ciks) ==
    \E As \in OnePerPeriod({s \in Annual(tagA, ciks) : ~s.financial}),
       Bs \in OnePerPeriod(Annual(tagB, Company)) :
      \E p \in NewestPairs({q \in Pairs(As, Bs) : q.b.val > 0 /\ q.b.val >= MinDenominator}) :
        f.cik = p.a.cik /\ f.period = p.a.period

LEMMA ReportedType ==
  /\ \A tag, frequencies, ciks : Recorded(tag, frequencies, ciks) \subseteq statements
  /\ \A tag, frequencies, ciks : Reported(tag, frequencies, ciks) \subseteq statements
  /\ \A tag, frequencies, ciks : \A s \in Reported(tag, frequencies, ciks) : s.val # Null
  /\ \A tag, ciks : Annual(tag, ciks) \subseteq statements
  BY DEF Recorded, Reported, Annual

\* A ranking is answered from finitely many figures, of which each comes from
\* statements of its company and period.
Answered(kind, tags, limit, scored, figures) ==
    /\ answer' = [kind |-> kind, tags |-> tags, limit |-> limit,
                  figures |-> figures, scored |-> scored]
    /\ IsFiniteSet(scored)
    /\ figures \in Ranked(scored, limit)

LEMMA MetricAnswer ==
  ASSUME StoreInv, RatesInv, NEW tag, NEW limit, NEW ciks, TopByMetric(tag, limit, ciks)
  PROVE  \E scored, figures :
           /\ Answered("metric", <<tag>>, limit, scored, figures)
           /\ \A f \in scored : MetricFigure(f, tag, ciks)
<1> DEFINE source == Reported(tag, IF tag = "equity" THEN {"annual", "quarterly"} ELSE {"annual"},
                              ciks)
           kept(latest) == {s \in latest : /\ Convertible(s)
                                           /\ tag = "capex" => s.val < 0
                                           /\ s.financial => tag = "net_income"
                                           /\ ~DroppedAsPassThrough(s)}
           sign == IF tag = "capex" THEN -1 ELSE 1
           figure(s) == [cik |-> s.cik, period |-> s.period, value |-> s.val * RateFor(s) * sign]
<1>1. PICK latest \in OnePerPeriod(Newest(source)) :
             Answer("metric", <<tag>>, limit, {figure(s) : s \in kept(latest)})
  BY DEF TopByMetric
<1> DEFINE K == kept(latest)
           scored == {figure(s) : s \in K}
<1>2. K \subseteq Newest(source) /\ \A s \in K : Convertible(s)
  BY DEF OnePerPeriod
<1>3. Newest(source) \subseteq statements /\ \A s \in Newest(source) : s.val # Null
  BY ReportedType DEF Newest
<1>4. IsFiniteSet(K)
  BY <1>2, <1>3, StoreType, FS_Subset
<1>5. IsFiniteSet(scored)
  <2> DEFINE F == [s \in K |-> figure(s)]
  <2>1. IsFiniteSet({F[s] : s \in K})
    <3> HIDE DEF K
    <3>1. F = [s \in K |-> F[s]]
      OBVIOUS
    <3> HIDE DEF F
    <3> QED
      BY <1>4, <3>1, FiniteImage
  <2>2. {F[s] : s \in K} = scored
    OBVIOUS
  <2> QED
    BY <2>1, <2>2
<1>6. ASSUME NEW f \in scored PROVE MetricFigure(f, tag, ciks)
  <2>1. PICK s \in K : f = figure(s)
    OBVIOUS
  <2>2. s \in Newest(source) /\ Convertible(s) /\ s.val \in Int
    BY <1>2, <1>3, StatementType
  <2>3. RateFor(s) \in Nat
    BY <2>2, RateForType
  <2>4. \A n \in Int : n * sign \in {n, -n}
    OBVIOUS
  <2>5. f.cik = s.cik /\ f.period = s.period
        /\ f.value = IF tag = "capex" THEN -(s.val * RateFor(s)) ELSE s.val * RateFor(s)
    BY <2>1, <2>2, <2>3, <2>4
  <2> QED
    BY <2>2, <2>5 DEF MetricFigure
<1>7. PICK figures \in Ranked(scored, limit) :
             answer' = [kind |-> "metric", tags |-> <<tag>>, limit |-> limit,
                        figures |-> figures, scored |-> scored]
  BY <1>1 DEF Answer
<1> HIDE DEF scored
<1> QED
  BY <1>5, <1>6, <1>7 DEF Answered

\* Finitely many statements make finitely many pairs.
LEMMA FinitePairs ==
  ASSUME NEW As, NEW Bs, IsFiniteSet(As), IsFiniteSet(Bs)
  PROVE  IsFiniteSet(Pairs(As, Bs))
<1> DEFINE S == As \X Bs
           F == [x \in S |-> [a |-> x[1], b |-> x[2]]]
<1>1. IsFiniteSet(S)
  BY FS_Product
<1>2. IsFiniteSet({F[x] : x \in S})
  <2>1. F = [x \in S |-> F[x]]
    OBVIOUS
  <2> HIDE DEF F, S
  <2> QED
    BY <1>1, <2>1, FiniteImage
<1>3. Pairs(As, Bs) \subseteq {F[x] : x \in S}
  <2> SUFFICES ASSUME NEW p \in Pairs(As, Bs) PROVE \E x \in S : p = F[x]
    OBVIOUS
  <2>1. p \in [a : As, b : Bs]
    BY DEF Pairs
  <2>2. <<p.a, p.b>> \in S /\ p = [a |-> p.a, b |-> p.b]
    BY <2>1
  <2> QED
    BY <2>2
<1> QED
  BY <1>2, <1>3, FS_Subset

LEMMA SumAnswer ==
  ASSUME StoreInv, RatesInv, NEW tagA, NEW tagB, NEW limit, NEW ciks,
         TopBySum(tagA, tagB, limit, ciks)
  PROVE  \E scored, figures :
           /\ Answered("sum", <<tagA, tagB>>, limit, scored, figures)
           /\ \A f \in scored : SumFigure(f, tagA, tagB, ciks)
<1> DEFINE kept(As, Bs) == {p \in NewestPairs(Pairs(As, Bs)) : Convertible(p.a) /\ ~p.a.financial}
           figure(p) == [cik |-> p.a.cik, period |-> p.a.period,
                         value |-> (p.a.val + p.b.val) * RateFor(p.a)]
<1>1. PICK As \in OnePerPeriod(Annual(tagA, ciks)), Bs \in OnePerPeriod(Annual(tagB, ciks)) :
             Answer("sum", <<tagA, tagB>>, limit, {figure(p) : p \in kept(As, Bs)})
  BY DEF TopBySum
<1> DEFINE K == kept(As, Bs)
           scored == {figure(p) : p \in K}
<1>2. As \subseteq statements /\ Bs \subseteq statements
  BY ReportedType DEF OnePerPeriod
<1>3. IsFiniteSet(K)
  BY <1>2, StoreType, FS_Subset, FinitePairs DEF NewestPairs
<1>4. IsFiniteSet(scored)
  <2> DEFINE F == [p \in K |-> figure(p)]
  <2>1. IsFiniteSet({F[p] : p \in K})
    <3> HIDE DEF K
    <3>1. F = [p \in K |-> F[p]]
      OBVIOUS
    <3> HIDE DEF F
    <3> QED
      BY <1>3, <3>1, FiniteImage
  <2>2. {F[p] : p \in K} = scored
    OBVIOUS
  <2> QED
    BY <2>1, <2>2
<1>5. ASSUME NEW f \in scored PROVE SumFigure(f, tagA, tagB, ciks)
  <2>1. PICK p \in K : f = figure(p)
    OBVIOUS
  <2>2. p \in NewestPairs(Pairs(As, Bs)) /\ Convertible(p.a)
    OBVIOUS
  <2>3. /\ f.cik = p.a.cik /\ f.period = p.a.period
        /\ f.value = (p.a.val + p.b.val) * RateFor(p.a)
    BY <2>1
  <2> QED
    BY <1>1, <2>2, <2>3 DEF SumFigure
<1>6. PICK figures \in Ranked(scored, limit) :
             answer' = [kind |-> "sum", tags |-> <<tagA, tagB>>, limit |-> limit,
                        figures |-> figures, scored |-> scored]
  BY <1>1 DEF Answer
<1> HIDE DEF scored
<1> QED
  BY <1>4, <1>5, <1>6 DEF Answered

LEMMA RatioAnswer ==
  ASSUME StoreInv, NEW tagA, NEW tagB, NEW limit, NEW ciks, TopByRatio(tagA, tagB, limit, ciks)
  PROVE  \E scored, figures :
           /\ Answered("ratio", <<tagA, tagB>>, limit, scored, figures)
           /\ \A f \in scored : RatioFigure(f, tagA, tagB, ciks)
<1> DEFINE large(As, Bs) == {p \in Pairs(As, Bs) : p.b.val > 0 /\ p.b.val >= MinDenominator}
           figure(p) == [cik |-> p.a.cik, period |-> p.a.period,
                         value |-> (100 * p.a.val) \div p.b.val]
           ratios(As, Bs) == {figure(p) : p \in NewestPairs(large(As, Bs))}
<1>1. PICK As \in OnePerPeriod({s \in Annual(tagA, ciks) : ~s.financial}),
           Bs \in OnePerPeriod(Annual(tagB, Company)) :
             Answer("ratio", <<tagA, tagB>>, limit, {r \in ratios(As, Bs) : r.value \in 0..MaxRatio})
  BY DEF TopByRatio
<1> DEFINE K == NewestPairs(large(As, Bs))
           scored == {r \in ratios(As, Bs) : r.value \in 0..MaxRatio}
<1>2. As \subseteq statements /\ Bs \subseteq statements
  BY ReportedType DEF OnePerPeriod
<1>3. IsFiniteSet(K)
  BY <1>2, StoreType, FS_Subset, FinitePairs DEF NewestPairs
<1>4. IsFiniteSet(ratios(As, Bs))
  <2> DEFINE F == [p \in K |-> figure(p)]
  <2>1. IsFiniteSet({F[p] : p \in K})
    <3> HIDE DEF K
    <3>1. F = [p \in K |-> F[p]]
      OBVIOUS
    <3> HIDE DEF F
    <3> QED
      BY <1>3, <3>1, FiniteImage
  <2>2. {F[p] : p \in K} = ratios(As, Bs)
    OBVIOUS
  <2> QED
    BY <2>1, <2>2
<1>5. IsFiniteSet(scored)
  BY <1>4, FS_Subset
<1>6. ASSUME NEW f \in scored PROVE RatioFigure(f, tagA, tagB, ciks)
  <2>1. PICK p \in K : f = figure(p)
    OBVIOUS
  <2>2. f.cik = p.a.cik /\ f.period = p.a.period
    BY <2>1
  <2> QED
    BY <1>1, <2>2 DEF RatioFigure
<1>7. PICK figures \in Ranked(scored, limit) :
             answer' = [kind |-> "ratio", tags |-> <<tagA, tagB>>, limit |-> limit,
                        figures |-> figures, scored |-> scored]
  BY <1>1 DEF Answer
<1> HIDE DEF scored
<1> QED
  BY <1>5, <1>6, <1>7 DEF Answered

-----------------------------------------------------------------------------
(* A query changes nothing, so that what it was answered from is still there. *)

Nearest(S) == CHOOSE r \in S : \A s \in S : s.date <= r.date
LastPeriod(S, cik) == CHOOSE p \in Day : \A t \in S : t.cik = cik => t.period <= p
ConvertedBy(s, found) ==
    IF s.currency = "USD" \/ found = {} THEN s.val ELSE s.val * (CHOOSE r \in found : TRUE).rate
Kept(newest) == {r \in newest : r.val > 0 /\ ~DroppedAsPassThrough(r)}
Apart(ciks) == {c \in ciks : ~Comparable(c)}

LEMMA ConvertedIs ==
  \A s : Converted(s) =
           ConvertedBy(s, Bisect(s.currency, s.period, LastPeriod(statements, s.cik)))
  BY DEF Converted, ConvertedBy, LastPeriod

LEMMA SameTables ==
  ASSUME UNCHANGED <<rateVars, statements, listed>>
  PROVE  /\ \A tag, frequencies, ciks :
              Reported(tag, frequencies, ciks)' = Reported(tag, frequencies, ciks)
         /\ \A tag, ciks : Annual(tag, ciks)' = Annual(tag, ciks)
         /\ \A newest : Kept(newest)' = Kept(newest)
         /\ \A ciks : Apart(ciks)' = Apart(ciks)
         /\ \A cik, tag : Rows(cik, tag)' = Rows(cik, tag)
         /\ \A s : Converted(s)' = Converted(s)
<1> USE DEF rateVars
<1>0. \A tag, frequencies, ciks :
        Recorded(tag, frequencies, ciks)' = Recorded(tag, frequencies, ciks)
  BY DEF Recorded
<1>1. \A tag, frequencies, ciks :
        Reported(tag, frequencies, ciks)' = Reported(tag, frequencies, ciks)
  BY <1>0 DEF Reported
<1>2. \A tag, ciks : Annual(tag, ciks)' = Annual(tag, ciks)
  BY <1>1 DEF Annual
<1>3. \A s : DroppedAsPassThrough(s)' <=> DroppedAsPassThrough(s)
  BY <1>2 DEF DroppedAsPassThrough
<1>4. \A newest : Kept(newest)' = Kept(newest)
  BY <1>3 DEF Kept
<1>7. \A ciks : Apart(ciks)' = Apart(ciks)
  <2>1. \A cik : NewestRecorded(cik)' = NewestRecorded(cik)
    <3>1. \A tag, cik : Newest(Recorded(tag, {"annual"}, {cik}))'
                         = Newest(Recorded(tag, {"annual"}, {cik}))
      BY <1>0 DEF Newest
    <3> QED
      BY <3>1 DEF NewestRecorded
  <2>2. \A cik : Comparable(cik)' <=> Comparable(cik)
    BY <2>1 DEF Comparable
  <2> QED
    BY <2>2 DEF Apart
<1>5. \A cik, tag : Rows(cik, tag)' = Rows(cik, tag)
  BY DEF Rows
<1>6. \A s : Converted(s)' = Converted(s)
  <2>1. \A c, p : OnOrBefore(c, p)' = OnOrBefore(c, p)
    BY DEF OnOrBefore
  <2>2. \A c, p, last : Bisect(c, p, last)' = Bisect(c, p, last)
    BY <2>1 DEF Bisect
  <2>3. \A s : Converted(s)' =
                 ConvertedBy(s, Bisect(s.currency, s.period, LastPeriod(statements, s.cik))')
    BY DEF Converted, ConvertedBy, LastPeriod
  <2>4. \A s : Bisect(s.currency, s.period, LastPeriod(statements, s.cik))'
                 = Bisect(s.currency, s.period, LastPeriod(statements, s.cik))
    BY <2>2
  <2> QED
    BY <2>3, <2>4, ConvertedIs
<1> QED
  BY <1>1, <1>2, <1>4, <1>5, <1>6, <1>7

-----------------------------------------------------------------------------
(* The rate by bisection.                                                   *)

LEMMA FiniteRates ==
  ASSUME RatesInv, NEW c, NEW p
  PROVE  IsFiniteSet(OnOrBefore(c, p))
<1> DEFINE asked == OnOrBefore(c, p)
           F == [d \in Day |-> CHOOSE r \in asked : r.date = d]
<1>1. IsFiniteSet(Day)
  BY RatesAssumption, FS_Interval DEF RatesAssumption, Day
<1>2. IsFiniteSet({F[d] : d \in Day})
  <2>1. F = [d \in Day |-> F[d]]
    OBVIOUS
  <2> HIDE DEF F
  <2> QED
    BY <1>1, <2>1, FiniteImage
<1>3. ASSUME NEW r \in asked PROVE r \in {F[d] : d \in Day}
  <2>1. r.date \in Day /\ r \in RowsOf(r.date) /\ r.currency = c
    BY DEF OnOrBefore, RatesInv, Published
  <2>2. F[r.date] \in asked /\ F[r.date].date = r.date
    BY <2>1
  <2>3. F[r.date] \in RowsOf(r.date) /\ F[r.date].currency = c
    BY <2>2 DEF OnOrBefore, RatesInv, Published
  <2>4. F[r.date] = r
    <3> DEFINE q == F[r.date]
    <3> HIDE DEF q
    <3>1. q \in RowsOf(r.date) /\ q.currency = r.currency
      BY <2>1, <2>3 DEF q
    <3> QED
      BY <2>1, <3>1, OneRatePerDay DEF q
  <2> QED
    BY <2>1, <2>4
<1> QED
  BY <1>2, <1>3, FS_Subset

\* Bisection over the rates up to the last period of a statement finds the
\* rate that the rankings look up for the period itself.
LEMMA BisectFinds ==
  ASSUME RatesInv, NEW c, NEW p \in Day, NEW last \in Day, p <= last
  PROVE  Bisect(c, p, last) = IF OnOrBefore(c, p) = {} THEN {} ELSE {NearestRate(c, p)}
<1> DEFINE asked == OnOrBefore(c, last)
           upTo(d) == {s \in asked : s.date <= d}
<1>1. /\ IsFiniteSet(asked)
      /\ \A r \in asked : r.date \in Day /\ r.date \in Int /\ r \in RowsOf(r.date) /\ r.currency = c
  <2>1. IsFiniteSet(asked)
    BY FiniteRates
  <2>2. \A r \in asked : r.date \in Day /\ r \in RowsOf(r.date) /\ r.currency = c
    BY DEF OnOrBefore, RatesInv, Published
  <2>3. \A d \in Day : d \in Int
    BY DEF Day
  <2> QED
    BY <2>1, <2>2, <2>3
<1>2. \A d : IsFiniteSet(upTo(d))
  BY <1>1, FS_Subset
<1>3. upTo(p) = OnOrBefore(c, p)
  <2>1. OnOrBefore(c, p) \subseteq asked
    BY DEF OnOrBefore, RatesInv, Published, Day
  <2> QED
    BY <2>1 DEF OnOrBefore
<1>4. Bisect(c, p, last) = {r \in asked : Cardinality(upTo(r.date)) = Cardinality(upTo(p))}
  BY DEF Bisect
<1>5. CASE OnOrBefore(c, p) = {}
  <2>1. Cardinality(upTo(p)) = 0
    BY <1>3, <1>5, FS_EmptySet
  <2>2. ASSUME NEW r \in asked PROVE Cardinality(upTo(r.date)) # 0
    <3>1. r \in upTo(r.date)
      BY <1>1
    <3> HIDE DEF upTo
    <3> QED
      BY <1>2, <3>1, FS_EmptySet
  <2> QED
    BY <1>4, <1>5, <2>1, <2>2
<1>6. CASE OnOrBefore(c, p) # {}
  <2> DEFINE n == NearestRate(c, p)
  <2>1. n \in upTo(p) /\ \A r \in upTo(p) : r.date <= n.date
    BY <1>3, <1>6, NearestIsNewest
  <2> HIDE DEF n
  <2>2. n \in asked /\ n.date <= p
    BY <2>1
  <2>3. upTo(n.date) = upTo(p)
    BY <1>1, <2>1, <2>2 DEF Day
  <2>4. ASSUME NEW r \in asked, Cardinality(upTo(r.date)) = Cardinality(upTo(n.date))
        PROVE  r = n
    <3>1. r \in upTo(r.date) /\ n \in upTo(n.date)
      BY <1>1, <2>2
    <3>2. CASE r.date <= n.date
      <4>1. upTo(r.date) \subseteq upTo(n.date)
        BY <1>1, <2>2, <3>2
      <4>2. upTo(r.date) = upTo(n.date)
        BY <1>2, <2>4, <4>1, FS_Subset
      <4> QED
        BY <1>1, <2>2, <3>1, <3>2, <4>2, OneRatePerDay
    <3>3. CASE n.date <= r.date
      <4>1. upTo(n.date) \subseteq upTo(r.date)
        BY <1>1, <2>2, <3>3
      <4>2. upTo(r.date) = upTo(n.date)
        BY <1>2, <2>4, <4>1, FS_Subset
      <4> QED
        BY <1>1, <2>2, <3>1, <3>3, <4>2, OneRatePerDay
    <3> QED
      BY <1>1, <2>2, <3>2, <3>3
  <2>5. {r \in asked : Cardinality(upTo(r.date)) = Cardinality(upTo(p))} = {n}
    BY <2>2, <2>3, <2>4
  <2> QED
    BY <1>4, <1>6, <2>5 DEF n
<1> QED
  BY <1>5, <1>6

\* A statement shows a figure in USD by the rate that ranks it.
LEMMA ShownByTheRate ==
  ASSUME StoreInv, RatesInv, NEW s \in statements, s.val # Null, Convertible(s)
  PROVE  Converted(s) = s.val * RateFor(s)
<1> DEFINE last == LastPeriod(statements, s.cik)
           found == Bisect(s.currency, s.period, last)
<1>1. MaxDay \in Day /\ \A t \in statements : t.period <= MaxDay
  BY RatesAssumption, StatementType DEF RatesAssumption, Day
<1>2. last \in Day /\ s.period <= last
  BY <1>1 DEF LastPeriod
<1>3. s.period \in Day /\ s.val \in Int
  BY StatementType
<1> HIDE DEF last
<1>4. CASE s.currency = "USD"
  <2>1. RateFor(s) = 1
    BY <1>4 DEF RateFor
  <2>2. Converted(s) = s.val
    BY <1>4, ConvertedIs DEF ConvertedBy
  <2> QED
    BY <1>3, <2>1, <2>2
<1>5. CASE s.currency # "USD"
  <2>1. OnOrBefore(s.currency, s.period) # {}
    BY <1>5 DEF Convertible
  <2>2. found = {NearestRate(s.currency, s.period)}
    BY <1>2, <1>3, <2>1, BisectFinds
  <2>3. Converted(s) = ConvertedBy(s, found)
    BY ConvertedIs DEF last
  <2> HIDE DEF found
  <2>4. (CHOOSE r \in found : TRUE) = NearestRate(s.currency, s.period)
    BY <2>2
  <2> QED
    BY <1>5, <2>2, <2>3, <2>4 DEF ConvertedBy, RateFor
<1> QED
  BY <1>4, <1>5

-----------------------------------------------------------------------------
(* What figures come from.                                                  *)

MetricRows(f, tag) ==
    \E s \in {r \in Rows(f.cik, tag) : r.period = f.period} :
      f.value = IF tag = "capex" THEN -Converted(s) ELSE Converted(s)

SumRows(f, tagA, tagB) ==
    \E s \in {r \in Rows(f.cik, tagA) : r.period = f.period},
       t \in {r \in Rows(f.cik, tagB) : r.period = f.period} :
      f.value = Converted(s) + Converted(t)

LEMMA MetricMatches ==
  ASSUME StoreInv, RatesInv, NEW f, NEW tag, NEW ciks, MetricFigure(f, tag, ciks)
  PROVE  MetricRows(f, tag)
<1>1. PICK s \in statements :
        /\ s.tag = tag /\ s.val # Null /\ Convertible(s)
        /\ f.cik = s.cik /\ f.period = s.period
        /\ f.value = IF tag = "capex" THEN -(s.val * RateFor(s)) ELSE s.val * RateFor(s)
  BY DEF MetricFigure, Newest, Reported, Recorded
<1>2. f.value = IF tag = "capex" THEN -Converted(s) ELSE Converted(s)
  BY <1>1, ShownByTheRate
<1> QED
  BY <1>1, <1>2 DEF MetricRows, Rows

LEMMA SumMatches ==
  ASSUME StoreInv, RatesInv, NEW f, NEW tagA, NEW tagB, NEW ciks, SumFigure(f, tagA, tagB, ciks)
  PROVE  SumRows(f, tagA, tagB)
<1>1. PICK As \in OnePerPeriod(Annual(tagA, ciks)), Bs \in OnePerPeriod(Annual(tagB, ciks)) :
        \E p \in NewestPairs(Pairs(As, Bs)) :
          /\ Convertible(p.a)
          /\ f.cik = p.a.cik /\ f.period = p.a.period
          /\ f.value = (p.a.val + p.b.val) * RateFor(p.a)
  BY DEF SumFigure
<1>2. PICK p \in NewestPairs(Pairs(As, Bs)) :
          /\ Convertible(p.a)
          /\ f.cik = p.a.cik /\ f.period = p.a.period
          /\ f.value = (p.a.val + p.b.val) * RateFor(p.a)
  BY <1>1
<1>3. p.a \in As /\ p.b \in Bs /\ p.a.cik = p.b.cik /\ p.a.period = p.b.period
  BY DEF NewestPairs, Pairs
<1>4. /\ p.a \in statements /\ p.a.tag = tagA /\ p.a.val # Null
      /\ p.b \in statements /\ p.b.tag = tagB /\ p.b.val # Null
  BY <1>3 DEF OnePerPeriod, Annual, Reported, Recorded
<1>5. f.value = Converted(p.a) + Converted(p.b)
  <2>0. p.a.currency = p.b.currency
    BY <1>3, <1>4, StoreType
  <2>1. Convertible(p.b) /\ RateFor(p.b) = RateFor(p.a)
    BY <1>2, <1>3, <2>0 DEF Convertible, RateFor
  <2>2. Converted(p.a) = p.a.val * RateFor(p.a) /\ Converted(p.b) = p.b.val * RateFor(p.a)
    BY <1>2, <1>4, <2>1, ShownByTheRate
  <2>3. p.a.val \in Int /\ p.b.val \in Int /\ RateFor(p.a) \in Nat
    BY <1>2, <1>4, StatementType, RateForType
  <2>4. \A x, y, z \in Int : (x + y) * z = x * z + y * z
    OBVIOUS
  <2> QED
    BY <1>2, <2>2, <2>3, <2>4
<1> QED
  BY <1>2, <1>3, <1>4, <1>5 DEF SumRows, Rows

\* Of every company and period there is one row.
LEMMA PeriodKept ==
  ASSUME NEW S, NEW R \in OnePerPeriod(S), NEW s \in S
  PROVE  \E r \in R : r.cik = s.cik /\ r.period = s.period
<1>1. Cardinality({r \in R : r.cik = s.cik /\ r.period = s.period}) = 1
  BY DEF OnePerPeriod
<1>2. {r \in R : r.cik = s.cik /\ r.period = s.period} # {}
  BY <1>1, FS_EmptySet
<1> QED
  BY <1>2

\* A statement that is newer than one a query reads is read as well.
LEMMA NewerIsReported ==
  ASSUME RatesInv, StoreInv, NEW tag, NEW other, NEW ciks,
         NEW r \in Reported(tag, {"annual"}, ciks),
         NEW s \in statements, s.cik = r.cik, s.tag = other, s.frequency = "annual",
         s.val # Null, s.period >= r.period
  PROVE  s \in Annual(other, ciks)
<1>1. /\ r \in statements /\ r.cik \in ciks /\ r.period >= today - Recent
      /\ r.period \in Int /\ s.period \in Int
  BY StatementType DEF Reported, Recorded
<1>2. today \in Int /\ Recent \in Int
  BY RankingAssumption DEF RankingAssumption, RatesInv, LoadShape, Day
<1>3. s.period >= today - Recent
  BY <1>1, <1>2
<1> QED
  BY <1>1, <1>3 DEF Annual, Reported, Recorded

LEMMA MetricNewest ==
  ASSUME RatesInv, StoreInv, NEW f, NEW tag, tag # "equity", NEW ciks,
         MetricFigure(f, tag, ciks),
         NEW s \in Rows(f.cik, tag), s.frequency = "annual", s.period > f.period
  PROVE  FALSE
<1>1. PICK m \in Newest(Reported(tag, {"annual"}, ciks)) : f.cik = m.cik /\ f.period = m.period
  BY DEF MetricFigure
<1>2. m \in Reported(tag, {"annual"}, ciks) /\ m.period \in Int
  BY StatementType DEF Newest, Reported, Recorded
<1>3. s \in statements /\ s.cik = m.cik /\ s.tag = tag /\ s.val # Null /\ s.period \in Int
  BY <1>1, StatementType DEF Rows
<1>4. s \in Annual(tag, ciks)
  BY <1>1, <1>2, <1>3, NewerIsReported
<1>5. s.period <= m.period
  BY <1>3, <1>4 DEF Newest, Annual
<1> QED
  BY <1>1, <1>2, <1>3, <1>5

LEMMA SumNewest ==
  ASSUME RatesInv, StoreInv, NEW f, NEW tagA, NEW tagB, NEW ciks, SumFigure(f, tagA, tagB, ciks),
         NEW s \in Rows(f.cik, tagA), s.frequency = "annual", s.period > f.period,
         NEW t \in Rows(f.cik, tagB), t.frequency = "annual", t.period = s.period
  PROVE  FALSE
<1>1. PICK As \in OnePerPeriod(Annual(tagA, ciks)), Bs \in OnePerPeriod(Annual(tagB, ciks)) :
        \E p \in NewestPairs(Pairs(As, Bs)) : f.cik = p.a.cik /\ f.period = p.a.period
  BY DEF SumFigure
<1>2. PICK p \in NewestPairs(Pairs(As, Bs)) : f.cik = p.a.cik /\ f.period = p.a.period
  BY <1>1
<1>3. p.a \in Reported(tagA, {"annual"}, ciks) /\ p.a.period \in Int
  BY StatementType DEF NewestPairs, Pairs, OnePerPeriod, Annual, Reported, Recorded
<1>4. /\ s \in statements /\ s.cik = p.a.cik /\ s.tag = tagA /\ s.val # Null
      /\ t \in statements /\ t.cik = p.a.cik /\ t.tag = tagB /\ t.val # Null
      /\ s.period \in Int
  BY <1>2, StatementType DEF Rows
<1>5. s \in Annual(tagA, ciks) /\ t \in Annual(tagB, ciks)
  BY <1>2, <1>3, <1>4, NewerIsReported
<1>6. PICK a \in As : a.cik = s.cik /\ a.period = s.period
  BY <1>5, PeriodKept
<1>7. PICK b \in Bs : b.cik = t.cik /\ b.period = t.period
  BY <1>5, PeriodKept
<1> DEFINE q == [a |-> a, b |-> b]
<1>8. q \in Pairs(As, Bs) /\ q.a.cik = p.a.cik /\ q.a.period = s.period
  BY <1>4, <1>6, <1>7 DEF Pairs
<1> HIDE DEF q
<1>9. s.period <= p.a.period
  BY <1>8 DEF NewestPairs
<1> QED
  BY <1>2, <1>3, <1>4, <1>9

LEMMA RatioNewest ==
  ASSUME RatesInv, StoreInv, NEW f, NEW tagA, NEW tagB, NEW ciks, RatioFigure(f, tagA, tagB, ciks),
         NEW s \in Rows(f.cik, tagA), s.frequency = "annual", s.period > f.period,
         NEW t \in Rows(f.cik, tagB), t.frequency = "annual", t.period = s.period
  PROVE  \E u \in Rows(f.cik, tagB) : /\ u.frequency = "annual" /\ u.period = s.period
                                      /\ u.val < MinDenominator
<1> DEFINE Sound == {r \in Annual(tagA, ciks) : ~r.financial}
           large(As, Bs) == {q \in Pairs(As, Bs) : q.b.val > 0 /\ q.b.val >= MinDenominator}
<1>1. PICK As \in OnePerPeriod(Sound), Bs \in OnePerPeriod(Annual(tagB, Company)) :
        \E p \in NewestPairs(large(As, Bs)) : f.cik = p.a.cik /\ f.period = p.a.period
  BY DEF RatioFigure
<1>2. PICK p \in NewestPairs(large(As, Bs)) : f.cik = p.a.cik /\ f.period = p.a.period
  BY <1>1
<1>3. /\ p.a \in Reported(tagA, {"annual"}, ciks) /\ ~p.a.financial
      /\ p.a \in statements /\ p.a.period \in Int
      /\ p.b \in Reported(tagB, {"annual"}, Company)
      /\ p.b.cik = p.a.cik /\ p.b.period = p.a.period
  BY StatementType DEF NewestPairs, Pairs, OnePerPeriod, Annual, Reported, Recorded
<1>4. /\ s \in statements /\ s.cik = p.a.cik /\ s.tag = tagA /\ s.val # Null
      /\ t \in statements /\ t.cik = p.a.cik /\ t.tag = tagB /\ t.val # Null
      /\ s.period \in Int
  BY <1>2, StatementType DEF Rows
<1>5. s \in Sound /\ t \in Annual(tagB, Company)
  BY <1>2, <1>3, <1>4, NewerIsReported, StoreType
<1>6. PICK a \in As : a.cik = s.cik /\ a.period = s.period
  BY <1>5, PeriodKept
<1>7. PICK b \in Bs : b.cik = t.cik /\ b.period = t.period
  BY <1>5, PeriodKept
<1>8. b \in Rows(f.cik, tagB) /\ b.frequency = "annual" /\ b.val \in Int
  BY <1>2, <1>4, <1>7, StatementType DEF OnePerPeriod, Annual, Reported, Recorded, Rows
<1> DEFINE q == [a |-> a, b |-> b]
<1>9. /\ q \in Pairs(As, Bs) /\ q.b = b
      /\ q.a.cik = p.a.cik /\ q.a.period = s.period
  BY <1>4, <1>6, <1>7 DEF Pairs
<1> HIDE DEF q
<1>10. q \notin large(As, Bs)
  BY <1>2, <1>3, <1>4, <1>9 DEF NewestPairs
<1>11. ~(b.val > 0 /\ b.val >= MinDenominator)
  BY <1>9, <1>10
<1>12. b.val < MinDenominator
  BY <1>8, <1>11, RankingAssumption DEF RankingAssumption
<1> QED
  BY <1>7, <1>8, <1>12

-----------------------------------------------------------------------------
(* The totals of a sector.                                                  *)

Combined == RevenueTags \cup CostTags
NewestOf(tag, cik) == Newest(Recorded(tag, {"annual"}, {cik}))

LEMMA NewestRows ==
  ASSUME NEW tag \in Combined, NEW cik, NEW s \in NewestOf(tag, cik)
  PROVE  s \in NewestRecorded(cik) /\ s \in statements /\ s.cik = cik /\ s.tag = tag
<1>1. s \in Recorded(tag, {"annual"}, {cik})
  BY DEF NewestOf, Newest
<1>2. s \in NewestRecorded(cik)
  BY DEF NewestOf, NewestRecorded, Combined
<1> QED
  BY <1>1, <1>2 DEF Recorded

LEMMA NewestIsLast ==
  ASSUME NEW tag, NEW cik, NEW s \in NewestOf(tag, cik)
  PROVE  \A t \in Recorded(tag, {"annual"}, {cik}) : t.period <= s.period
<1>1. s \in Recorded(tag, {"annual"}, {cik})
  BY DEF NewestOf, Newest
<1>2. \A t \in Recorded(tag, {"annual"}, {cik}) : t.cik = s.cik
  BY <1>1 DEF Recorded
<1> QED
  BY <1>2 DEF NewestOf, Newest

LEMMA RowIsNewest ==
  ASSUME NEW tag, NEW cik, NEW s \in Recorded(tag, {"annual"}, {cik}),
         \A t \in Recorded(tag, {"annual"}, {cik}) : t.period <= s.period
  PROVE  s \in NewestOf(tag, cik)
  BY DEF NewestOf, Newest

\* Where a company has rows of a tag, it has newest ones.
LEMMA HasNewest ==
  ASSUME StoreInv, NEW tag, NEW cik, NEW s \in Recorded(tag, {"annual"}, {cik})
  PROVE  \E x \in NewestOf(tag, cik) : TRUE
<1> DEFINE own == Recorded(tag, {"annual"}, {cik})
           days == {d.period : d \in own}
<1>1. days \subseteq Day /\ days # {}
  BY ReportedType, StatementType
<1>2. PICK x \in days : \A y \in days : y <= x
  BY <1>1, LastDay
<1>3. PICK n \in own : \A d \in own : d.period <= n.period
  BY <1>2
<1> QED
  BY <1>3, RowIsNewest

\* A comparable company has one newest row of a tag, for those are of one filing.
LEMMA OneNewest ==
  ASSUME StoreInv, NEW tag \in Combined, NEW cik, Comparable(cik),
         NEW s \in NewestOf(tag, cik), NEW t \in NewestOf(tag, cik)
  PROVE  s = t
<1>1. /\ s \in NewestRecorded(cik) /\ s \in statements /\ s.cik = cik /\ s.tag = tag
      /\ t \in NewestRecorded(cik) /\ t \in statements /\ t.cik = cik /\ t.tag = tag
  BY NewestRows
<1>2. SameFiling(s, t)
  BY <1>1 DEF Comparable
<1> QED
  BY <1>1, <1>2, StoreType

\* It is the row the sector picks ...
LEMMA SectorPick ==
  ASSUME StoreInv, NEW tag \in Combined, NEW ciks, NEW cik \in ciks, Comparable(cik),
         NEW L \in LatestRows(tag, ciks), NEW s
  PROVE  s \in L /\ s.cik = cik <=> s \in NewestOf(tag, cik)
<1> DEFINE all == Recorded(tag, {"annual"}, ciks)
           own == Recorded(tag, {"annual"}, {cik})
<1>1. \A r : r \in own <=> r \in all /\ r.cik = cik
  BY DEF Recorded
<1>2. L \subseteq NewestFiled(all) /\ NewestFiled(all) \subseteq Newest(all)
  BY DEF LatestRows, OnePerPeriod, NewestFiled
<1>3. \A r : r \in NewestOf(tag, cik) <=> r \in Newest(all) /\ r.cik = cik
  BY <1>1 DEF NewestOf, Newest
<1>4. ASSUME s \in NewestOf(tag, cik) PROVE s \in L
  <2>1. s \in Newest(all) /\ s.cik = cik /\ s.fiscal_year \in Int
    BY <1>3, <1>4, NewestRows, StatementType
  <2>2. \A t \in Newest(all) : t.cik = s.cik => t = s
    BY <1>3, <1>4, <2>1, OneNewest
  <2>3. s \in NewestFiled(all)
    BY <2>1, <2>2 DEF NewestFiled
  <2>4. PICK r \in L : r.cik = s.cik /\ r.period = s.period
    BY <2>3, PeriodKept DEF LatestRows
  <2> QED
    BY <1>2, <2>2, <2>4
<1>5. ASSUME s \in NewestOf(tag, cik) PROVE s.cik = cik
  BY <1>5, NewestRows
<1> QED
  BY <1>2, <1>3, <1>4, <1>5

\* ... and the one the rankings go by: it has a figure.
LEMMA RankingPick ==
  ASSUME StoreInv, NEW tag \in Combined, NEW ciks, NEW cik \in ciks, Comparable(cik),
         NEW N \in OnePerPeriod(Newest(Annual(tag, ciks))), NEW s
  PROVE  s \in N /\ s.cik = cik <=> s \in NewestOf(tag, cik)
<1> DEFINE own == Recorded(tag, {"annual"}, {cik})
<1>1. \A r : r \in Annual(tag, ciks) /\ r.cik = cik <=> r \in own /\ r.val # Null
  BY DEF Annual, Reported, Recorded
<1>2. \A r \in NewestOf(tag, cik) :
        r.val # Null /\ r \in own /\ r \in Annual(tag, ciks) /\ r.cik = cik
  <2>1. \A r \in NewestOf(tag, cik) : r.val # Null
    BY NewestRows DEF Comparable
  <2> QED
    BY <1>1, <2>1 DEF NewestOf, Newest
<1>3. \A r \in own : r.period \in Int
  BY ReportedType, StatementType
<1>4. ASSUME NEW r \in Newest(Annual(tag, ciks)), r.cik = cik PROVE r \in NewestOf(tag, cik)
  <2>1. r \in own /\ r \in Annual(tag, ciks)
    BY <1>1, <1>4 DEF Newest
  <2>2. PICK x \in NewestOf(tag, cik) : TRUE
    BY <2>1, HasNewest
  <2>3. x.period <= r.period
    BY <1>2, <1>4, <2>2 DEF Newest
  <2>4. \A t \in own : t.period <= x.period
    BY <2>2, NewestIsLast
  <2>5. \A t \in own : t.period <= r.period
    <3> SUFFICES ASSUME NEW t \in own PROVE t.period <= r.period
      OBVIOUS
    <3>1. x \in own
      BY <1>2, <2>2
    <3>2. t.period \in Int /\ x.period \in Int /\ r.period \in Int
      BY <1>3, <2>1, <3>1
    <3> QED
      BY <2>3, <2>4, <3>2
  <2> QED
    BY <2>1, <2>5, RowIsNewest
<1>5. N \subseteq Newest(Annual(tag, ciks))
  BY DEF OnePerPeriod
<1>6. ASSUME s \in NewestOf(tag, cik) PROVE s \in N /\ s.cik = cik
  <2>1. \A t \in Annual(tag, ciks) : t.cik = s.cik => t.period <= s.period
    BY <1>1, <1>2, <1>6, NewestIsLast
  <2>2. s \in Newest(Annual(tag, ciks)) /\ s.cik = cik
    BY <1>2, <1>6, <2>1 DEF Newest
  <2>3. PICK r \in N : r.cik = s.cik /\ r.period = s.period
    BY <2>2, PeriodKept
  <2>4. r = s
    BY <1>4, <1>5, <1>6, <2>2, <2>3, OneNewest
  <2> QED
    BY <2>2, <2>3, <2>4
<1> QED
  BY <1>4, <1>5, <1>6

\* What is coalesced for a company depends on its own rows alone.
LEMMA CoalescedPick ==
  ASSUME NEW first, NEW second, NEW others, NEW rest, NEW cik,
         \A s : s \in first /\ s.cik = cik <=> s \in others /\ s.cik = cik,
         \A s : s \in second /\ s.cik = cik <=> s \in rest /\ s.cik = cik,
         NEW s, s.cik = cik
  PROVE  s \in Coalesced(first, second) <=> s \in Coalesced(others, rest)
  BY DEF Coalesced

\* The cost of a comparable company that the sector sets against its revenue
\* makes a pass-through of it just where a cost of the same filing does.
LEMMA SameVerdict ==
  ASSUME StoreInv, RatesInv, NEW ciks, NEW cik \in ciks, Comparable(cik),
         NEW totalCosts \in LatestRows("total_cost_of_revenue", ciks),
         NEW operatingCosts \in LatestRows("operating_cost_of_revenue", ciks),
         NEW rev \in RevenueTags, NEW r \in NewestOf(rev, cik)
  PROVE  (\E c \in Coalesced(totalCosts, operatingCosts) : c.cik = cik /\ PassThrough(r.val, c.val))
           <=> DroppedAsPassThrough(r)
<1> DEFINE costs == Coalesced(totalCosts, operatingCosts)
           total == "total_cost_of_revenue"
           operating == "operating_cost_of_revenue"
<1>1. /\ total \in CostTags /\ operating \in CostTags /\ CostTags = {total, operating}
      /\ CostTags \subseteq Combined /\ rev \in Combined
  BY DEF CostTags, Combined
<1>2. /\ \A s : s \in totalCosts /\ s.cik = cik <=> s \in NewestOf(total, cik)
      /\ \A s : s \in operatingCosts /\ s.cik = cik <=> s \in NewestOf(operating, cik)
  BY <1>1, SectorPick
<1>3. /\ r \in NewestRecorded(cik) /\ r \in statements /\ r.cik = cik /\ r.tag = rev
      /\ r.val \in Int
  <2>1. r \in NewestRecorded(cik) /\ r \in statements /\ r.cik = cik /\ r.tag = rev
    BY <1>1, NewestRows
  <2>2. r.val # Null
    BY <2>1 DEF Comparable
  <2> QED
    BY <2>1, <2>2, StatementType
<1>4. ASSUME NEW c \in costs, c.cik = cik, PassThrough(r.val, c.val)
      PROVE  DroppedAsPassThrough(r)
  <2>1. (c \in totalCosts \/ c \in operatingCosts) /\ c.val # Null
    BY DEF Coalesced
  <2>2. PICK tag \in CostTags : c \in NewestOf(tag, cik)
    BY <1>1, <1>2, <1>4, <2>1
  <2>3. c \in NewestRecorded(cik) /\ c \in Recorded(tag, {"annual"}, {cik})
    BY <1>1, <2>2, NewestRows DEF NewestOf, Newest
  <2>4. SameFiling(c, r)
    BY <1>3, <2>3 DEF Comparable
  <2>5. c \in Annual(tag, {r.cik})
    BY <1>3, <2>1, <2>3 DEF Annual, Reported
  <2> QED
    BY <1>3, <1>4, <2>2, <2>4, <2>5 DEF DroppedAsPassThrough
<1>5. ASSUME DroppedAsPassThrough(r)
      PROVE  \E c \in costs : c.cik = cik /\ PassThrough(r.val, c.val)
  <2>1. PICK tag \in CostTags :
          \E c \in Annual(tag, {r.cik}) : SameFiling(c, r) /\ PassThrough(r.val, c.val)
    BY <1>5 DEF DroppedAsPassThrough
  <2>2. PICK c \in Annual(tag, {r.cik}) : SameFiling(c, r) /\ PassThrough(r.val, c.val)
    BY <2>1
  <2>3. c \in Recorded(tag, {"annual"}, {cik}) /\ c.val # Null /\ c.cik = cik /\ c.tag = tag
        /\ c \in statements
    BY <1>3, <2>2 DEF Annual, Reported, Recorded
  <2>4. PICK x \in NewestOf(tag, cik) : TRUE
    BY <2>3, HasNewest
  <2>5. x \in NewestRecorded(cik) /\ x \in statements /\ x.cik = cik /\ x.tag = tag
    BY <1>1, <2>4, NewestRows
  <2>6. SameFiling(x, r)
    BY <1>3, <2>5 DEF Comparable
  <2>7. SameFiling(x, c)
    BY <2>2, <2>6 DEF SameFiling
  <2>8. x = c
    BY <2>3, <2>5, <2>7, StoreType
  <2>9. c.val \in Int
    BY <2>3, StatementType
  <2>10. CASE tag = total
    <3>1. c \in totalCosts
      BY <1>2, <2>4, <2>8, <2>10
    <3> QED
      BY <2>2, <2>3, <3>1 DEF Coalesced
  <2>11. CASE tag = operating /\ ~\E t \in totalCosts : t.val # Null /\ t.cik = cik
    <3>1. c \in operatingCosts
      BY <1>2, <2>4, <2>8, <2>11
    <3> QED
      BY <2>2, <2>3, <2>11, <3>1 DEF Coalesced
  <2>12. ASSUME tag = operating, NEW t \in totalCosts, t.val # Null, t.cik = cik
         PROVE  \E d \in costs : d.cik = cik /\ PassThrough(r.val, d.val)
    <3>1. t \in NewestOf(total, cik)
      BY <1>2, <2>12
    <3>2. t \in NewestRecorded(cik) /\ t.tag = total /\ t \in statements
      BY <1>1, <3>1, NewestRows
    <3>3. t.val \in Int
      BY <2>12, <3>2, StatementType
    <3>4. c.val <= t.val
      BY <2>3, <2>5, <2>8, <2>12, <3>2 DEF Comparable
    <3>5. PassThrough(r.val, t.val)
      BY <1>3, <2>2, <2>9, <3>3, <3>4 DEF PassThrough
    <3> QED
      BY <2>12, <3>5 DEF Coalesced
  <2> QED
    BY <1>1, <2>10, <2>11, <2>12
<1> QED
  BY <1>4, <1>5

\* Of a comparable company, both keep the same row.
LEMMA EarningIsKept ==
  ASSUME StoreInv, RatesInv, NEW ciks,
         NEW totals \in LatestRows("total_revenue", ciks),
         NEW operating \in LatestRows("operating_revenue", ciks),
         NEW totalCosts \in LatestRows("total_cost_of_revenue", ciks),
         NEW operatingCosts \in LatestRows("operating_cost_of_revenue", ciks),
         NEW first \in OnePerPeriod(Newest(Annual("total_revenue", ciks))),
         NEW second \in OnePerPeriod(Newest(Annual("operating_revenue", ciks))),
         NEW r, r.cik \in ciks, Comparable(r.cik)
  PROVE  r \in Earning(Coalesced(totals, operating), Coalesced(totalCosts, operatingCosts))
           <=> r \in Kept(Coalesced(first, second))
<1> DEFINE cik == r.cik
           costs == Coalesced(totalCosts, operatingCosts)
<1>1. /\ "total_revenue" \in RevenueTags /\ "operating_revenue" \in RevenueTags
      /\ RevenueTags \subseteq Combined
  BY DEF RevenueTags, Combined
<1>2. /\ \A s : s \in totals /\ s.cik = cik <=> s \in NewestOf("total_revenue", cik)
      /\ \A s : s \in operating /\ s.cik = cik <=> s \in NewestOf("operating_revenue", cik)
  BY <1>1, SectorPick
<1>3. /\ \A s : s \in first /\ s.cik = cik <=> s \in NewestOf("total_revenue", cik)
      /\ \A s : s \in second /\ s.cik = cik <=> s \in NewestOf("operating_revenue", cik)
  BY <1>1, RankingPick
<1>4. r \in Coalesced(totals, operating) <=> r \in Coalesced(first, second)
  BY <1>2, <1>3, CoalescedPick
<1>5. ASSUME r \in Coalesced(totals, operating)
      PROVE  (\E c \in costs : c.cik = r.cik /\ PassThrough(r.val, c.val))
               <=> DroppedAsPassThrough(r)
  <2>1. r \in totals \/ r \in operating
    BY <1>5 DEF Coalesced
  <2>2. PICK rev \in RevenueTags : r \in NewestOf(rev, cik)
    BY <1>1, <1>2, <2>1
  <2> QED
    BY <2>2, SameVerdict
<1> QED
  BY <1>4, <1>5 DEF Earning, Kept

\* A pick has one row of a company, and so has what is coalesced of two.
LEMMA OneOfCompany ==
  ASSUME StoreInv, NEW S \in SUBSET statements, NEW P \in SUBSET Newest(S),
         NEW R \in OnePerPeriod(P)
  PROVE  R \subseteq S /\ \A s, t \in R : s.cik = t.cik => s = t
<1>1. R \subseteq P /\ R \subseteq S /\ R \subseteq statements
  BY DEF OnePerPeriod, Newest
<1> SUFFICES ASSUME NEW s \in R, NEW t \in R, s.cik = t.cik PROVE s = t
  BY <1>1
<1> DEFINE same == {r \in R : r.cik = s.cik /\ r.period = s.period}
<1>2. /\ s.period \in Int /\ t.period \in Int
      /\ s.period <= t.period /\ t.period <= s.period
  BY <1>1, StatementType DEF Newest
<1>3. s \in same /\ t \in same
  BY <1>2
<1>4. Cardinality(same) = 1
  BY <1>1 DEF OnePerPeriod
<1>5. IsFiniteSet(same)
  BY <1>1, StoreType, FS_Subset
<1> HIDE DEF same
<1>6. \E x : same = {x}
  BY <1>4, <1>5, FS_Singleton
<1> QED
  BY <1>3, <1>6

LEMMA OneCoalesced ==
  ASSUME NEW first, NEW second,
         \A s, t \in first : s.cik = t.cik => s = t,
         \A s, t \in second : s.cik = t.cik => s = t
  PROVE  \A s, t \in Coalesced(first, second) : s.cik = t.cik => s = t
  BY DEF Coalesced

\* A company without statements has nothing to be set apart for.
LEMMA ApartIsFinite ==
  ASSUME StoreInv, NEW ciks
  PROVE  IsFiniteSet(Apart(ciks))
<1> DEFINE F == [s \in statements |-> s.cik]
<1>1. IsFiniteSet({F[s] : s \in statements})
  <2>1. F = [s \in statements |-> F[s]]
    OBVIOUS
  <2> HIDE DEF F
  <2> QED
    BY <2>1, StoreType, FiniteImage
<1>2. ASSUME NEW c \in Apart(ciks) PROVE c \in {F[s] : s \in statements}
  <2>1. NewestRecorded(c) # {}
    BY DEF Apart, Comparable
  <2>2. PICK s : s \in NewestRecorded(c)
    BY <2>1
  <2>3. s \in statements /\ s.cik = c
    BY <2>2 DEF NewestRecorded, Newest, Recorded
  <2> QED
    BY <2>3
<1> QED
  BY <1>1, <1>2, FS_Subset

\* Sets with one row of a company, which differ in companies of A alone, differ
\* by no more rows than A has companies.
LEMMA OffByNoMore ==
  ASSUME NEW A, IsFiniteSet(A), NEW E, IsFiniteSet(E), NEW K, IsFiniteSet(K),
         \A r, s \in E : r.cik = s.cik => r = s,
         \A r, s \in K : r.cik = s.cik => r = s,
         \A r \in E \cup K : r.cik \notin A => (r \in E <=> r \in K)
  PROVE  Cardinality(E) - Cardinality(K) \in -Cardinality(A)..Cardinality(A)
<1> DEFINE EA == {r \in E : r.cik \in A}
           KA == {r \in K : r.cik \in A}
<1>1. ASSUME NEW S, IsFiniteSet(S), \A r, s \in S : r.cik = s.cik => r = s
      PROVE  /\ Cardinality({r \in S : r.cik \in A}) <= Cardinality(A)
             /\ Cardinality({r \in S : r.cik \in A}) \in Nat
             /\ Cardinality(S \ {r \in S : r.cik \in A})
                  = Cardinality(S) - Cardinality({r \in S : r.cik \in A})
  <2> DEFINE SA == {r \in S : r.cik \in A}
             f == [r \in SA |-> r.cik]
  <2>1. f \in Injection(SA, A)
    BY <1>1 DEF Injection, IsInjective
  <2>2. SA \subseteq S /\ S \cap SA = SA
    OBVIOUS
  <2> HIDE DEF SA, f
  <2>3. Cardinality(SA) <= Cardinality(A) /\ IsFiniteSet(SA)
    BY <2>1, FS_Injection
  <2>4. Cardinality(SA) \in Nat
    BY <2>3, FS_CardinalityType
  <2>5. Cardinality(S \ SA) = Cardinality(S) - Cardinality(SA)
    BY <1>1, <2>2, FS_Difference
  <2> QED
    BY <2>3, <2>4, <2>5 DEF SA
<1>2. E \ EA = K \ KA
  OBVIOUS
<1>3. /\ Cardinality(EA) <= Cardinality(A) /\ Cardinality(EA) \in Nat
      /\ Cardinality(E \ EA) = Cardinality(E) - Cardinality(EA)
  BY <1>1
<1>4. /\ Cardinality(KA) <= Cardinality(A) /\ Cardinality(KA) \in Nat
      /\ Cardinality(K \ KA) = Cardinality(K) - Cardinality(KA)
  BY <1>1
<1>5. Cardinality(A) \in Nat /\ Cardinality(E) \in Nat /\ Cardinality(K) \in Nat
  BY FS_CardinalityType
<1>6. ASSUME NEW a \in Nat, NEW e \in Nat, NEW k \in Nat, NEW ea \in Nat, NEW ka \in Nat,
             ea <= a, ka <= a, e - ea = k - ka
      PROVE  e - k \in -a..a
  BY <1>6
<1>7. Cardinality(E) - Cardinality(EA) = Cardinality(K) - Cardinality(KA)
  BY <1>2, <1>3, <1>4
<1> HIDE DEF EA, KA
<1> QED
  BY <1>3, <1>4, <1>5, <1>6, <1>7

-----------------------------------------------------------------------------
(* Answers.                                                                 *)

AnswersInv == RanksTheLargest /\ MatchesStatement /\ RanksNewestYear /\ PassThroughAgrees

PassIn(a, kept, apart) ==
    /\ a.with_revenue - Cardinality(kept) \in -Cardinality(apart)..Cardinality(apart)
    /\ apart = {} => a.revenue = Total(kept)

LEMMA PassThroughIs ==
  PassThroughAgrees <=>
    (answer.kind = "sector" =>
       \A first \in OnePerPeriod(Newest(Annual("total_revenue", answer.ciks))),
          second \in OnePerPeriod(Newest(Annual("operating_revenue", answer.ciks))) :
         PassIn(answer, Kept(Coalesced(first, second)), Apart(answer.ciks)))
  BY DEF PassThroughAgrees, PassIn, Kept, Apart

\* What a sector earns beside what the rankings keep.
LEMMA SectorCounts ==
  ASSUME StoreInv, RatesInv, NEW ciks,
         NEW totals \in LatestRows("total_revenue", ciks),
         NEW operating \in LatestRows("operating_revenue", ciks),
         NEW totalCosts \in LatestRows("total_cost_of_revenue", ciks),
         NEW operatingCosts \in LatestRows("operating_cost_of_revenue", ciks),
         NEW first \in OnePerPeriod(Newest(Annual("total_revenue", ciks))),
         NEW second \in OnePerPeriod(Newest(Annual("operating_revenue", ciks))),
         NEW earning,
         earning = Earning(Coalesced(totals, operating), Coalesced(totalCosts, operatingCosts))
  PROVE  /\ Cardinality(earning) - Cardinality(Kept(Coalesced(first, second)))
               \in -Cardinality(Apart(ciks))..Cardinality(Apart(ciks))
         /\ Apart(ciks) = {} => earning = Kept(Coalesced(first, second))
<1> DEFINE kept == Kept(Coalesced(first, second))
           given == Coalesced(totals, operating)
           known == Coalesced(first, second)
<1>1. ASSUME NEW tag, NEW L \in LatestRows(tag, ciks)
      PROVE  /\ \A s \in L : s \in statements /\ s.cik \in ciks
             /\ \A s, t \in L : s.cik = t.cik => s = t
  <2> DEFINE S == Recorded(tag, {"annual"}, ciks)
  <2>1. S \subseteq statements /\ \A s \in S : s.cik \in ciks
    BY DEF Recorded
  <2>2. NewestFiled(S) \subseteq Newest(S) /\ L \in OnePerPeriod(NewestFiled(S))
    BY DEF NewestFiled, LatestRows
  <2> HIDE DEF S
  <2> QED
    BY <2>1, <2>2, OneOfCompany
<1>2. ASSUME NEW tag, NEW N \in OnePerPeriod(Newest(Annual(tag, ciks)))
      PROVE  /\ \A s \in N : s \in statements /\ s.cik \in ciks
             /\ \A s, t \in N : s.cik = t.cik => s = t
  <2> DEFINE S == Annual(tag, ciks)
  <2>1. S \subseteq statements /\ \A s \in S : s.cik \in ciks
    BY DEF Annual, Reported, Recorded
  <2> HIDE DEF S
  <2>2. N \in OnePerPeriod(Newest(S))
    BY DEF S
  <2> QED
    BY <2>1, <2>2, OneOfCompany
<1>3. /\ \A s \in given : s \in statements /\ s.cik \in ciks
      /\ \A s, t \in given : s.cik = t.cik => s = t
  BY <1>1, OneCoalesced DEF Coalesced
<1>4. /\ \A s \in known : s \in statements /\ s.cik \in ciks
      /\ \A s, t \in known : s.cik = t.cik => s = t
  BY <1>2, OneCoalesced DEF Coalesced
<1>5. earning \subseteq given /\ kept \subseteq known
  BY DEF Earning, Kept
<1>6. \A r \in earning \cup kept : r.cik \notin Apart(ciks) => (r \in earning <=> r \in kept)
  <2> SUFFICES ASSUME NEW r \in earning \cup kept, r.cik \notin Apart(ciks)
               PROVE  r \in earning <=> r \in kept
    OBVIOUS
  <2>1. r.cik \in ciks /\ Comparable(r.cik)
    BY <1>3, <1>4, <1>5 DEF Apart
  <2> QED
    BY <2>1, EarningIsKept
<1>7. IsFiniteSet(earning) /\ IsFiniteSet(kept)
  BY <1>3, <1>4, <1>5, StoreType, FS_Subset
<1>8. IsFiniteSet(Apart(ciks))
  BY ApartIsFinite
<1> HIDE DEF kept, given, known
<1>9. Cardinality(earning) - Cardinality(kept) \in -Cardinality(Apart(ciks))..Cardinality(Apart(ciks))
  BY <1>3, <1>4, <1>5, <1>6, <1>7, <1>8, OffByNoMore
<1>10. Apart(ciks) = {} => earning = kept
  BY <1>6
<1> QED
  BY <1>9, <1>10 DEF kept

LEMMA SectorAnswer ==
  ASSUME StoreInv, RatesInv, AskSector
  PROVE  AnswersInv'
<1> DEFINE Totals(ciks, earning) ==
             /\ Asked
             /\ answer' = [kind |-> "sector", ciks |-> ciks,
                           with_revenue |-> Cardinality(earning), revenue |-> Total(earning)]
<1>0. PICK ciks \in Chosen :
        \E totals \in LatestRows("total_revenue", ciks),
          operating \in LatestRows("operating_revenue", ciks),
          totalCosts \in LatestRows("total_cost_of_revenue", ciks),
          operatingCosts \in LatestRows("operating_cost_of_revenue", ciks) :
          Totals(ciks, Earning(Coalesced(totals, operating),
                               Coalesced(totalCosts, operatingCosts)))
  BY DEF AskSector
<1>1. PICK totals \in LatestRows("total_revenue", ciks),
          operating \in LatestRows("operating_revenue", ciks),
          totalCosts \in LatestRows("total_cost_of_revenue", ciks),
          operatingCosts \in LatestRows("operating_cost_of_revenue", ciks) :
        Totals(ciks, Earning(Coalesced(totals, operating), Coalesced(totalCosts, operatingCosts)))
  BY <1>0
<1> DEFINE earning == Earning(Coalesced(totals, operating), Coalesced(totalCosts, operatingCosts))
<1>2. UNCHANGED <<rateVars, statements, listed>>
  BY <1>1 DEF Asked
<1>3. /\ answer'.kind = "sector" /\ answer'.ciks = ciks
      /\ answer'.with_revenue = Cardinality(earning) /\ answer'.revenue = Total(earning)
  BY <1>1
<1>4. RanksTheLargest' /\ MatchesStatement' /\ RanksNewestYear'
  BY <1>3 DEF RanksTheLargest, MatchesStatement, RanksNewestYear, IsRanking
<1>5. ASSUME NEW first \in OnePerPeriod(Newest(Annual("total_revenue", ciks))),
             NEW second \in OnePerPeriod(Newest(Annual("operating_revenue", ciks)))
      PROVE  PassIn(answer', Kept(Coalesced(first, second)), Apart(ciks))
  <2>1. /\ Cardinality(earning) - Cardinality(Kept(Coalesced(first, second)))
              \in -Cardinality(Apart(ciks))..Cardinality(Apart(ciks))
        /\ Apart(ciks) = {} => earning = Kept(Coalesced(first, second))
    BY SectorCounts
  <2> HIDE DEF earning
  <2> QED
    BY <1>3, <2>1 DEF PassIn
<1>6. /\ Annual("total_revenue", answer.ciks)' = Annual("total_revenue", ciks)
      /\ Annual("operating_revenue", answer.ciks)' = Annual("operating_revenue", ciks)
      /\ Apart(answer.ciks)' = Apart(ciks)
      /\ \A newest : Kept(newest)' = Kept(newest)
  BY <1>2, <1>3, SameTables
<1>7. PassThroughAgrees'
  <2>1. PassThroughAgrees' <=>
          (answer'.kind = "sector" =>
             \A first \in OnePerPeriod(Newest(Annual("total_revenue", answer.ciks)')),
                second \in OnePerPeriod(Newest(Annual("operating_revenue", answer.ciks)')) :
               PassIn(answer', Kept(Coalesced(first, second))', Apart(answer.ciks)'))
    BY DEF PassThroughAgrees, PassIn, Kept, Apart
  <2> QED
    BY <1>5, <1>6, <2>1
<1> QED
  BY <1>4, <1>7 DEF AnswersInv

FigureOf(f, kind, tags, ciks) ==
    /\ kind = "metric" => MetricFigure(f, tags[1], ciks)
    /\ kind = "sum" => SumFigure(f, tags[1], tags[2], ciks)
    /\ kind = "ratio" => RatioFigure(f, tags[1], tags[2], ciks)

LEMMA RankingHolds ==
  ASSUME StoreInv, RatesInv, UNCHANGED <<rateVars, statements, listed>>,
         NEW kind \in {"metric", "sum", "ratio"}, NEW tags, NEW limit \in Limits, NEW ciks,
         NEW scored, NEW figures, Answered(kind, tags, limit, scored, figures),
         \A f \in scored : FigureOf(f, kind, tags, ciks)
  PROVE  AnswersInv'
<1>1. /\ answer'.kind = kind /\ answer'.tags = tags /\ answer'.limit = limit
      /\ answer'.figures = figures /\ answer'.scored = scored
      /\ IsFiniteSet(scored) /\ figures \in Ranked(scored, limit) /\ limit \in Nat
  BY RankingAssumption DEF RankingAssumption, Answered
<1>2. figures \subseteq scored /\ RanksWell(figures, scored, limit, listed)
  BY <1>1, RankedWell
<1>3. RanksTheLargest'
  <2>1. RanksTheLargest' <=>
          (IsRanking' => RanksWell(answer'.figures, answer'.scored, answer'.limit, listed'))
    BY DEF RanksTheLargest, RanksWell
  <2> QED
    BY <1>1, <1>2, <2>1
<1>4. MatchesStatement'
  <2>1. \A f, tag : MetricRows(f, tag)' <=> MetricRows(f, tag)
    BY SameTables DEF MetricRows
  <2>2. \A f, tagA, tagB : SumRows(f, tagA, tagB)' <=> SumRows(f, tagA, tagB)
    BY SameTables DEF SumRows
  <2>3. MatchesStatement' <=>
          (IsRanking' =>
             \A f \in answer'.figures :
               /\ answer'.kind = "metric" => MetricRows(f, answer.tags[1])'
               /\ answer'.kind = "sum" => SumRows(f, answer.tags[1], answer.tags[2])')
    BY DEF MatchesStatement, MetricRows, SumRows
  <2>4. ASSUME NEW f \in figures
        PROVE  /\ kind = "metric" => MetricRows(f, tags[1])
               /\ kind = "sum" => SumRows(f, tags[1], tags[2])
    BY <1>2, MetricMatches, SumMatches DEF FigureOf
  <2>5. \A f : /\ MetricRows(f, answer.tags[1])' <=> MetricRows(f, tags[1])
               /\ SumRows(f, answer.tags[1], answer.tags[2])' <=> SumRows(f, tags[1], tags[2])
    BY <1>1, <2>1, <2>2
  <2> QED
    BY <1>1, <2>3, <2>4, <2>5
<1>5. RanksNewestYear'
  <2>1. \A cik, tag : Rows(cik, tag)' = Rows(cik, tag)
    BY SameTables
  <2> SUFFICES ASSUME tags[1] # "equity", NEW f \in figures,
                      NEW s \in Rows(f.cik, tags[1]), s.frequency = "annual", s.period > f.period
               PROVE  /\ kind # "metric"
                      /\ LET others == {t \in Rows(f.cik, tags[2]) : /\ t.frequency = "annual"
                                                                     /\ t.period = s.period}
                         IN  others = {} \/ (kind = "ratio" /\ \E t \in others : t.val < MinDenominator)
    BY <1>1, <2>1 DEF RanksNewestYear
  <2>2. FigureOf(f, kind, tags, ciks)
    BY <1>2
  <2>3. kind # "metric"
    BY <2>2, MetricNewest DEF FigureOf
  <2>4. ASSUME NEW t \in Rows(f.cik, tags[2]), t.frequency = "annual", t.period = s.period
        PROVE  /\ kind = "ratio"
               /\ \E u \in Rows(f.cik, tags[2]) : /\ u.frequency = "annual" /\ u.period = s.period
                                                  /\ u.val < MinDenominator
    <3>1. kind # "sum"
      BY <2>2, <2>4, SumNewest DEF FigureOf
    <3>2. kind = "ratio"
      BY <2>3, <3>1
    <3> QED
      BY <2>2, <2>4, <3>2, RatioNewest DEF FigureOf
  <2> QED
    BY <2>3, <2>4
<1>6. PassThroughAgrees'
  BY <1>1 DEF PassThroughAgrees
<1> QED
  BY <1>3, <1>4, <1>5, <1>6 DEF AnswersInv

LEMMA RankingAnswer ==
  ASSUME StoreInv, RatesInv, AskRanking
  PROVE  AnswersInv'
<1>1. PICK limit \in Limits, ciks \in Chosen :
        \/ \E tag \in RevenueTags \cup {"net_income", "equity", "capex"} :
             TopByMetric(tag, limit, ciks)
        \/ TopBySum("cash", "capex", limit, ciks)
        \/ TopByRatio("net_income", "equity", limit, ciks)
  BY DEF AskRanking
<1>2. UNCHANGED <<rateVars, statements, listed>>
  BY DEF AskRanking, TopByMetric, TopBySum, TopByRatio, Asked
<1>3. ASSUME NEW tag, TopByMetric(tag, limit, ciks) PROVE AnswersInv'
  <2>1. PICK scored, figures : /\ Answered("metric", <<tag>>, limit, scored, figures)
                               /\ \A f \in scored : MetricFigure(f, tag, ciks)
    BY <1>3, MetricAnswer
  <2>2. \A f \in scored : FigureOf(f, "metric", <<tag>>, ciks)
    BY <2>1 DEF FigureOf
  <2> QED
    BY <1>2, <2>1, <2>2, RankingHolds
<1>4. ASSUME TopBySum("cash", "capex", limit, ciks) PROVE AnswersInv'
  <2>1. PICK scored, figures : /\ Answered("sum", <<"cash", "capex">>, limit, scored, figures)
                               /\ \A f \in scored : SumFigure(f, "cash", "capex", ciks)
    BY <1>4, SumAnswer
  <2>2. \A f \in scored : FigureOf(f, "sum", <<"cash", "capex">>, ciks)
    BY <2>1 DEF FigureOf
  <2> QED
    BY <1>2, <2>1, <2>2, RankingHolds
<1>5. ASSUME TopByRatio("net_income", "equity", limit, ciks) PROVE AnswersInv'
  <2>1. PICK scored, figures :
          /\ Answered("ratio", <<"net_income", "equity">>, limit, scored, figures)
          /\ \A f \in scored : RatioFigure(f, "net_income", "equity", ciks)
    BY <1>5, RatioAnswer
  <2>2. \A f \in scored : FigureOf(f, "ratio", <<"net_income", "equity">>, ciks)
    BY <2>1 DEF FigureOf
  <2> QED
    BY <1>2, <2>1, <2>2, RankingHolds
<1> QED
  BY <1>1, <1>3, <1>4, <1>5

LEMMA AnswersKept ==
  ASSUME AnswersInv, UNCHANGED vars
  PROVE  AnswersInv'
<1>1. /\ UNCHANGED <<rateVars, statements, listed>> /\ answer' = answer /\ listed' = listed
      /\ AnswersInv
  BY DEF vars
<1>2. RanksTheLargest'
  <2>1. RanksTheLargest' <=>
          (IsRanking' => RanksWell(answer'.figures, answer'.scored, answer'.limit, listed'))
    BY DEF RanksTheLargest, RanksWell
  <2>2. RanksTheLargest <=>
          (IsRanking => RanksWell(answer.figures, answer.scored, answer.limit, listed))
    BY DEF RanksTheLargest, RanksWell
  <2>3. IsRanking' <=> IsRanking
    BY <1>1 DEF IsRanking
  <2> QED
    BY <1>1, <2>1, <2>2, <2>3 DEF AnswersInv
<1>3. MatchesStatement'
  <2>1. /\ \A cik, tag : Rows(cik, tag)' = Rows(cik, tag)
        /\ \A s : Converted(s)' = Converted(s)
    BY <1>1, SameTables
  <2> QED
    BY <1>1, <2>1 DEF AnswersInv, MatchesStatement, IsRanking
<1>4. RanksNewestYear'
  <2>1. \A cik, tag : Rows(cik, tag)' = Rows(cik, tag)
    BY <1>1, SameTables
  <2> QED
    BY <1>1, <2>1 DEF AnswersInv, RanksNewestYear, IsRanking
<1>5. PassThroughAgrees'
  <2>1. /\ \A tag, ciks : Annual(tag, ciks)' = Annual(tag, ciks)
        /\ \A newest : Kept(newest)' = Kept(newest)
        /\ \A ciks : Apart(ciks)' = Apart(ciks)
    BY <1>1, SameTables
  <2>2. PassThroughAgrees' <=>
          (answer'.kind = "sector" =>
             \A first \in OnePerPeriod(Newest(Annual("total_revenue", answer.ciks)')),
                second \in OnePerPeriod(Newest(Annual("operating_revenue", answer.ciks)')) :
               PassIn(answer', Kept(Coalesced(first, second))', Apart(answer.ciks)'))
    BY DEF PassThroughAgrees, PassIn, Kept, Apart
  <2>3. /\ Annual("total_revenue", answer.ciks)' = Annual("total_revenue", answer.ciks)
        /\ Annual("operating_revenue", answer.ciks)' = Annual("operating_revenue", answer.ciks)
        /\ Apart(answer.ciks)' = Apart(answer.ciks)
    BY <1>1, <2>1
  <2> QED
    BY <1>1, <2>1, <2>2, <2>3, PassThroughIs DEF AnswersInv
<1> QED
  BY <1>2, <1>3, <1>4, <1>5 DEF AnswersInv

LEMMA NoAnswerHolds == answer = NoAnswer => AnswersInv
  BY DEF NoAnswer, AnswersInv, RanksTheLargest, MatchesStatement, RanksNewestYear,
         PassThroughAgrees, IsRanking

LEMMA NoAnswerNext == (answer = NoAnswer)' => AnswersInv'
  BY NoAnswerHolds, PTL

\* Every query is answered as it should be: it is one statement, so that no
\* load of rates comes between its parts.
THEOREM AnswersInvariant == Spec => []AnswersInv
<1>1. Init => StoreInv /\ AnswersInv
  BY NoAnswerHolds DEF Init, StoreInv
<1>2. StoreInv /\ [Next]_vars => StoreInv'
  BY DEF StoreInv, Next, vars, LoadRates, AskRanking, AskSector, TopByMetric, TopBySum, TopByRatio,
         Asked
<1>3. StoreInv /\ RatesInv /\ AnswersInv /\ [Next]_vars => AnswersInv'
  <2> SUFFICES ASSUME StoreInv, RatesInv, AnswersInv, [Next]_vars PROVE AnswersInv'
    OBVIOUS
  <2>1. CASE AskRanking
    BY <2>1, RankingAnswer
  <2>2. CASE AskSector
    BY <2>2, SectorAnswer
  <2>3. CASE LoadRates
    BY <2>3, NoAnswerNext DEF LoadRates
  <2>4. CASE UNCHANGED vars
    BY <2>4, AnswersKept
  <2> QED
    BY <2>1, <2>2, <2>3, <2>4 DEF Next
<1> QED
  BY <1>1, <1>2, <1>3, RatesInvariant, PTL DEF Spec

\* Whoever is left out of a ranking is no larger than those in it; and a
\* ranking is only cut short by companies without a ticker, more than Scan - 1
\* limits of them, that are no smaller than the company left out.
THEOREM LargestAreRanked == Spec => []RanksTheLargest
  BY AnswersInvariant, PTL DEF AnswersInv

\* A figure is ranked by the value the company's own statement shows in USD:
\* the newest rate up to a period and the one bisection finds in all rates up
\* to the last period are the same, for a day has one rate of a currency.
THEOREM RankingsMatchStatements == Spec => []MatchesStatement
  BY AnswersInvariant, PTL DEF AnswersInv

\* A company is ranked by the newest year with all the figures it takes; only
\* a ratio passes over a year, and only one with a denominator too small.
THEOREM NewestYearIsRanked == Spec => []RanksNewestYear
  BY AnswersInvariant, PTL DEF AnswersInv

\* The sector pages and the rankings by revenue drop the same companies as
\* passing their revenue through, but for those whose newest revenues and costs
\* are not of one filing, have no figure, or whose newest total cost is below
\* the operating cost: the numbers of companies differ by no more than there are
\* of these, and where there are none, the revenues are the same.
THEOREM SectorsAgreeWithRankings == Spec => []PassThroughAgrees
  BY AnswersInvariant, PTL DEF AnswersInv
=============================================================================
