----------------------------- MODULE MCRankings -----------------------------
(* Three companies, two of one sector.  The first reports in dollars, the   *)
(* second in dollars too if it is a bank and in EUR otherwise, the third in *)
(* X; either all have a ticker or only the third does.                      *)
EXTENDS Rankings, TLC
CONSTANTS c1, c2, c3

MCCompany == {c1, c2, c3}
MCSector == c1 :> "energy" @@ c2 :> "energy" @@ c3 :> "materials"

\* The cube of day 2 has no USD, day 4 has none, X is not quoted on day 5 and
\* at zero on day 3.
MCQuoted == <<"USD" :> 6 @@ "X" :> 2, "X" :> 2, "USD" :> 6 @@ "X" :> 0, <<>>, "USD" :> 8>>

Figure(tag, period, val) ==
    [tag |-> tag, period |-> period, fiscal_year |-> period, fiscal_period |-> "FY",
     val |-> val, frequency |-> "annual"]
Restated(figure, year) == [figure EXCEPT !.fiscal_year = year]

\* What companies report, in units of n: everything for one year; equity that
\* shrinks; two figures for one period, a loss and a balance by quarter; two
\* costs and two denominators.
Whole(n) ==
    {Figure("total_revenue", 3, 4 * n), Figure("total_cost_of_revenue", 3, n),
     Figure("net_income", 3, n), Figure("equity", 3, 2 * n),
     Figure("cash", 3, 3 * n), Figure("capex", 3, 0 - n)}
Several(n) ==
    {Figure("total_revenue", 3, 4 * n), Restated(Figure("total_revenue", 3, 5 * n), 4),
     Figure("operating_revenue", 3, 3 * n), Figure("operating_cost_of_revenue", 3, 3 * n),
     Figure("equity", 2, n), Figure("net_income", 1, 0 - n),
     [Figure("equity", 3, 2 * n) EXCEPT !.frequency = "quarterly", !.fiscal_period = "Q3"]}
Shrinking(n) ==
    {Figure("net_income", 2, n), Figure("equity", 2, 3 * n),
     Figure("net_income", 3, 2 * n), Figure("equity", 3, 1),
     Figure("cash", 2, 3 * n), Figure("capex", 2, 0 - n),
     Figure("cash", 3, 2 * n), Figure("capex", 3, 0 - n)}
Doubled(n) ==
    {Figure("total_revenue", 3, 4 * n), Figure("total_cost_of_revenue", 3, n),
     Figure("operating_cost_of_revenue", 3, 4 * n),
     Figure("net_income", 2, n), Figure("equity", 2, 3 * n),
     Figure("net_income", 3, n), Figure("equity", 3, 1),
     Restated(Figure("equity", 3, 2 * n), 2)}

\* Revenue that is passed through, by both tags of revenue and of cost; against
\* the cost of an earlier year; beside a total cost that is older than the
\* operating cost; with a newest total that has no figure.
PassedThrough(n) ==
    {Figure("operating_revenue", 3, 2 * n), Figure("operating_cost_of_revenue", 3, n),
     Figure("total_cost_of_revenue", 3, 2 * n),
     Figure("cash", 2, 3 * n), Figure("capex", 2, 0 - n), Figure("cash", 3, n)}
Earlier(n) ==
    {Figure("total_revenue", 3, 3 * n), Figure("total_revenue", 2, 2 * n),
     Figure("total_cost_of_revenue", 2, 2 * n)}
Older(n) ==
    {Figure("total_revenue", 3, 3 * n), Figure("total_cost_of_revenue", 2, 2 * n),
     Figure("operating_cost_of_revenue", 3, 3 * n)}
Missing(n) ==
    {Figure("total_revenue", 3, Null), Figure("total_revenue", 2, 2 * n),
     Figure("operating_revenue", 3, n), Figure("operating_cost_of_revenue", 3, n)}
Shapes(n) ==
    {Whole(n), Shrinking(n), Several(n), PassedThrough(n), Earlier(n), Older(n), Missing(n)}

Of(cik, currency, financial, shape) ==
    {[cik |-> cik, tag |-> f.tag, period |-> f.period, val |-> f.val,
      fiscal_year |-> f.fiscal_year, fiscal_period |-> f.fiscal_period,
      currency |-> currency, financial |-> financial, frequency |-> f.frequency] : f \in shape}

World(currency, bank, s1, s2, s3) ==
    Of(c1, "USD", FALSE, s1) \cup Of(c2, currency, bank, s2) \cup Of(c3, "X", FALSE, s3)
MCStore ==
    {World("EUR", FALSE, s1, s2, Whole(1)) : s1 \in Shapes(3) \cup {Doubled(3)},
                                       s2 \in Shapes(2) \ {Earlier(2), Older(2)}}
    \cup {World("USD", TRUE, s1, Whole(2), Several(1)) : s1 \in Shapes(3)}
MCListings == {{c1, c2, c3}, {c3}}
=============================================================================
