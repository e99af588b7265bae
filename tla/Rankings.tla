------------------------------ MODULE Rankings ------------------------------
(***************************************************************************)
(* The rankings of companies (query.py, the three top_companies_by_...)    *)
(* as the server asks for them, and the totals of a sector (sectors.py),   *)
(* over the standardized statements and the exchange rates of a store      *)
(* whose rates are loaded again and again.                                 *)
(*                                                                         *)
(* A query is one SQL statement: it reads one committed state, so that it  *)
(* is one action.  Where its ORDER BY leaves rows of the same rank in any  *)
(* order, the answer is any of those the server may give.                  *)
(***************************************************************************)
EXTENDS ExchangeRates, FiniteSetsExt

CONSTANTS
    Company,
    Store,     \* possible contents of standardized_statements_enc
    Listings,  \* possible sets of companies with a primary ticker
    Sector,    \* the sector of a company, as cik_gics has it
    Null,      \* the figure of a row that has none
    Recent,    \* the two years a period may be old, in days
    Limits,    \* what the caller may ask for
    Scan,      \* 4: so many times the limit are ranked before the tickers
    MinDenominator, MaxRatio  \* bounds of the ratios

RevenueTags == {"total_revenue", "operating_revenue"}
CostTags == {"total_cost_of_revenue", "operating_cost_of_revenue"}

\* Rows of standardized_statements_enc: a tag is of one statement, and may have
\* several rows for one period, of different fiscal years or periods.
Statement ==
    [cik: Company, tag: RevenueTags \cup CostTags \cup {"net_income", "equity", "cash", "capex"},
     period: Day, fiscal_year: Int, fiscal_period: {"FY", "Q1", "Q2", "Q3", "Q4"},
     val: Int \cup {Null}, currency: Currency \cup {"USD"},
     financial: BOOLEAN, frequency: {"annual", "quarterly"}]

\* LEFT JOIN revenue_cost: period_ending, fiscal_year and fiscal_period.
SameFiling(s, t) ==
    s.period = t.period /\ s.fiscal_year = t.fiscal_year /\ s.fiscal_period = t.fiscal_period

ASSUME RankingAssumption ==
    /\ Recent \in Nat /\ Limits \subseteq Nat /\ Scan \in Nat \ {0}
    /\ MinDenominator \in Nat \ {0} /\ MaxRatio \in Nat
    /\ Null \notin Int

\* The rows of a company are written together, from one resolution, which has
\* one currency and knows whether the company is a bank or an insurer; the
\* primary key is of the company, the tag and the filing.
ASSUME StoreAssumption ==
    \A S \in Store :
      /\ IsFiniteSet(S) /\ S \subseteq Statement
      /\ \A s, t \in S : s.cik = t.cik =>
           /\ s.financial = t.financial /\ s.currency = t.currency
           /\ s.tag = t.tag /\ SameFiling(s, t) => s = t

VARIABLES
    statements,  \* standardized_statements_enc: annual and quarterly figures
    listed,      \* companies with a row in primary_tickers
    answer       \* what the server answers in this step

vars == <<rateVars, statements, listed, answer>>
NoAnswer == [kind |-> "none"]

Init ==
    /\ RatesInit
    /\ statements \in Store
    /\ listed \in Listings
    /\ answer = NoAnswer

-----------------------------------------------------------------------------
(* What the queries are built from.                                         *)

\* A tag, a frequency, the two years, and the filter by sector.
Recorded(tag, frequencies, ciks) ==
    {s \in statements : /\ s.tag = tag /\ s.frequency \in frequencies
                        /\ s.cik \in ciks /\ s.period >= today - Recent}

\* _standardized_where_clause has no rows without a figure; the sectors have.
Reported(tag, frequencies, ciks) ==
    {s \in Recorded(tag, frequencies, ciks) : s.val # Null}
Annual(tag, ciks) == Reported(tag, {"annual"}, ciks)

\* row_number() ... = 1 over the rows of a company and period: any of them.
OnePerPeriod(S) ==
    {R \in SUBSET S : \A s \in S :
       Cardinality({r \in R : r.cik = s.cik /\ r.period = s.period}) = 1}

\* ORDER BY period_ending DESC within a company; the sectors' queries go on
\* with fiscal_year DESC.
Newest(S) == {s \in S : \A t \in S : t.cik = s.cik => t.period <= s.period}
NewestFiled(S) ==
    {s \in Newest(S) : \A t \in Newest(S) : t.cik = s.cik => t.fiscal_year <= s.fiscal_year}

Convertible(s) == s.currency = "USD" \/ OnOrBefore(s.currency, s.period) # {}
RateFor(s) == IF s.currency = "USD" THEN 1 ELSE NearestRate(s.currency, s.period).rate

\* A pass-through: at least 99 % of the revenue is its cost.
PassThrough(revenue, cost) == revenue > 0 /\ cost > 0 /\ 100 * cost >= 99 * revenue

\* The larger cost of the same filing decides.
DroppedAsPassThrough(s) ==
    /\ s.tag \in RevenueTags
    /\ \E tag \in CostTags : \E c \in Annual(tag, {s.cik}) :
         SameFiling(c, s) /\ PassThrough(s.val, c.val)

\* ORDER BY value DESC LIMIT n.
Largest(S, n) ==
    {T \in SUBSET S : /\ Cardinality(T) = Min({n, Cardinality(S)})
                      /\ \A t \in T, u \in S \ T : t.value >= u.value}

Ranked_ByTicker(scored, limit) ==
    UNION {Largest({s \in T : s.cik \in listed}, limit) : T \in Largest(scored, limit)}

\* The figures ranked, then those of companies with a ticker, then the limit.
Ranked(scored, limit) ==
    UNION {Largest({s \in T : s.cik \in listed}, limit) : T \in Largest(scored, Scan * limit)}

-----------------------------------------------------------------------------
(* The server's GET /top_companies and GET /sector_aggregates.              *)

Answer(kind, tags, limit, scored) ==
    \E figures \in Ranked(scored, limit) :
      answer' = [kind |-> kind, tags |-> tags, limit |-> limit,
                 figures |-> figures, scored |-> scored]

Asked == answer = NoAnswer /\ UNCHANGED <<rateVars, statements, listed>>
\* cik_in_clause: no filter, or the companies of a sector.
Chosen == {Company} \cup {{c \in Company : Sector[c] = Sector[d]} : d \in Company}

\* Balance sheet figures are of any frequency, payments for plants are
\* negative, and only net income is ranked for banks and insurers too.
TopByMetric(tag, limit, ciks) ==
    \E latest \in OnePerPeriod(Newest(
         Reported(tag, IF tag = "equity" THEN {"annual", "quarterly"} ELSE {"annual"}, ciks))) :
      LET negate == tag = "capex"
          kept == {s \in latest : /\ Convertible(s)
                                  /\ negate => s.val < 0
                                  /\ s.financial => tag = "net_income"
                                  /\ ~DroppedAsPassThrough(s)}
      IN  /\ Asked
          /\ Answer("metric", <<tag>>, limit,
               {[cik |-> s.cik, period |-> s.period,
                 value |-> s.val * RateFor(s) * (IF negate THEN -1 ELSE 1)] : s \in kept})

NewestPairs_Oldest(P) == {p \in P : \A q \in P : q.a.cik = p.a.cik => q.a.period >= p.a.period}

\* JOIN ... USING cik and period; the newest of a company's pairs.
Pairs(As, Bs) == {p \in [a: As, b: Bs] : p.a.cik = p.b.cik /\ p.a.period = p.b.period}
NewestPairs(P) == {p \in P : \A q \in P : q.a.cik = p.a.cik => q.a.period <= p.a.period}

\* The sum is converted as if both were in the currency of the first.
TopBySum(tagA, tagB, limit, ciks) ==
    \E As \in OnePerPeriod(Annual(tagA, ciks)), Bs \in OnePerPeriod(Annual(tagB, ciks)) :
      LET kept == {p \in NewestPairs(Pairs(As, Bs)) : Convertible(p.a) /\ ~p.a.financial}
      IN  /\ Asked
          /\ Answer("sum", <<tagA, tagB>>, limit,
               {[cik |-> p.a.cik, period |-> p.a.period,
                 value |-> (p.a.val + p.b.val) * RateFor(p.a)] : p \in kept})

\* Denominators that are too small go before the newest year is chosen, ratios
\* out of bounds after it.
TopByRatio(tagA, tagB, limit, ciks) ==
    \E As \in OnePerPeriod({s \in Annual(tagA, ciks) : ~s.financial}),
      Bs \in OnePerPeriod(Annual(tagB, Company)) :
      LET paired == {p \in Pairs(As, Bs) : p.b.val > 0 /\ p.b.val >= MinDenominator}
          ratios == {[cik |-> p.a.cik, period |-> p.a.period,
                      value |-> (100 * p.a.val) \div p.b.val] : p \in NewestPairs(paired)}
      IN  /\ Asked
          /\ Answer("ratio", <<tagA, tagB>>, limit, {r \in ratios : r.value \in 0..MaxRatio})

AskRanking ==
    \E limit \in Limits, ciks \in Chosen :
      \/ \E tag \in RevenueTags \cup {"net_income", "equity", "capex"} :
           TopByMetric(tag, limit, ciks)
      \/ TopBySum("cash", "capex", limit, ciks)
      \/ TopByRatio("net_income", "equity", limit, ciks)

Earning_Gross(revenues, costs) == {r \in revenues : r.val > 0}

\* has_revenue, and the figures that total_revenue adds up.
Earning(revenues, costs) ==
    {r \in revenues : /\ r.val > 0
                      /\ ~\E c \in costs : c.cik = r.cik /\ PassThrough(r.val, c.val)}

\* sum(total_revenue): figures are added in the currency they are reported in.
Total(figures) == MapThenSumSet(LAMBDA r : r.val, figures)

\* COALESCE(first, second): the second only where the first has no figure.
Coalesced(first, second) ==
    LET given == {s \in first : s.val # Null}
    IN  given \cup {s \in second : s.val # Null /\ ~\E t \in given : t.cik = s.cik}

\* ROW_NUMBER() ... = 1 over the annual rows of a company and tag.
LatestRows(tag, ciks) == OnePerPeriod(NewestFiled(Recorded(tag, {"annual"}, ciks)))

\* sector_industry_aggregates: the newest row of each of the four tags, whatever
\* their periods and whether they have a figure, then the total before the
\* operating revenue and cost.
AskSector ==
    \E ciks \in Chosen :
      \E totals \in LatestRows("total_revenue", ciks),
        operating \in LatestRows("operating_revenue", ciks),
        totalCosts \in LatestRows("total_cost_of_revenue", ciks),
        operatingCosts \in LatestRows("operating_cost_of_revenue", ciks) :
        LET earning == Earning(Coalesced(totals, operating),
                               Coalesced(totalCosts, operatingCosts))
        IN  /\ Asked
            /\ answer' = [kind |-> "sector", ciks |-> ciks,
                          with_revenue |-> Cardinality(earning),
                          revenue |-> Total(earning)]

LoadRates ==
    /\ RatesNext
    /\ answer' = NoAnswer
    /\ UNCHANGED <<statements, listed>>

Next == AskRanking \/ AskSector \/ LoadRates

Spec == Init /\ [][Next]_vars

-----------------------------------------------------------------------------
(* Properties.                                                              *)

IsRanking == answer.kind \in {"metric", "sum", "ratio"}
Rows(cik, tag) == {s \in statements : s.cik = cik /\ s.tag = tag /\ s.val # Null}

\* A listed company that was left out is no larger than any that is in; and an
\* answer is shorter than asked for only where more companies without a ticker
\* than Scan - 1 limits are ahead of the one left out: the ranking is cut at
\* Scan times the limit before companies without a ticker are removed.
RanksTheLargest ==
    IsRanking =>
      \A s \in answer.scored \ answer.figures : s.cik \in listed =>
        /\ \A f \in answer.figures : f.value >= s.value
        /\ \/ Cardinality(answer.figures) = answer.limit
           \/ LET ahead == {u \in answer.scored : u.cik \notin listed /\ u.value >= s.value}
              IN  Cardinality(ahead) > (Scan - 1) * answer.limit

\* What the server makes of a statement: a figure without a rate stays as it is.
\* (Where the query for the rates fails it shows all figures as they are.)
Converted(s) ==
    LET last == CHOOSE p \in Day : \A t \in statements : t.cik = s.cik => t.period <= p
        found == Bisect(s.currency, s.period, last)
    IN  IF s.currency = "USD" \/ found = {} THEN s.val
        ELSE s.val * (CHOOSE r \in found : TRUE).rate

\* A ranked figure is the one the company's own statement shows in USD, though
\* the rate is looked up by SQL in the one and by bisection in the other; a
\* sum, which is converted once, is the sum of two of them.
MatchesStatement ==
    IsRanking => \A f \in answer.figures :
      LET shown(i) == {s \in Rows(f.cik, answer.tags[i]) : s.period = f.period} IN
      /\ answer.kind = "metric" => \E s \in shown(1) :
           f.value = IF answer.tags[1] = "capex" THEN -Converted(s) ELSE Converted(s)
      /\ answer.kind = "sum" => \E s \in shown(1), t \in shown(2) :
           f.value = Converted(s) + Converted(t)

\* A company is ranked by its newest year that has all it takes.  For a ratio,
\* a year with a denominator that is too small may be none: a company whose
\* equity fell below the bound is ranked by an older year and does not leave
\* the ranking.
RanksNewestYear ==
    IsRanking /\ answer.tags[1] # "equity" => \A f \in answer.figures :
      \A s \in Rows(f.cik, answer.tags[1]) : s.frequency = "annual" /\ s.period > f.period =>
        /\ answer.kind # "metric"
        /\ LET others == {t \in Rows(f.cik, answer.tags[2]) : /\ t.frequency = "annual"
                                                            /\ t.period = s.period}
           IN  others = {} \/ (answer.kind = "ratio" /\ \E t \in others : t.val < MinDenominator)

NewestRecorded(cik) ==
    UNION {Newest(Recorded(tag, {"annual"}, {cik})) : tag \in RevenueTags \cup CostTags}

\* The newest revenues and costs of a company are of one filing, each has a
\* figure, and the total cost covers the operating cost.
Comparable(cik) ==
    LET newest == NewestRecorded(cik) IN
    /\ \A s, t \in newest : SameFiling(s, t)
    /\ \A s \in newest : s.val # Null
    /\ \A s, t \in newest :
         s.tag = "total_cost_of_revenue" /\ t.tag = "operating_cost_of_revenue" => t.val <= s.val

\* The sector pages and the rankings by revenue agree on who passes revenue
\* through, but for companies whose newest figures are not comparable: of those
\* the sector may set a revenue against the cost of another year, or against a
\* total that is older or smaller than the operating cost, or take the operating
\* revenue where the newest total has no figure.  The number of companies with
\* revenue is off by no more than there are such companies, and where there are
\* none it is, and the revenue is, that of the companies the rankings do not drop.
PassThroughAgrees ==
    answer.kind = "sector" =>
      \A totals \in OnePerPeriod(Newest(Annual("total_revenue", answer.ciks))),
        operating \in OnePerPeriod(Newest(Annual("operating_revenue", answer.ciks))) :
        LET kept == {r \in Coalesced(totals, operating) : r.val > 0 /\ ~DroppedAsPassThrough(r)}
            apart == {c \in answer.ciks : ~Comparable(c)}
            off == Cardinality(apart)
        IN  /\ answer.with_revenue - Cardinality(kept) \in -off..off
            /\ apart = {} => answer.revenue = Total(kept)
=============================================================================
