-------------------------- MODULE MCSectorQueries ---------------------------
(* Two rebuilds and two threads; the second version of the facts classifies *)
(* one company less, and all are traded.                                    *)
EXTENDS SectorQueries, TLC
CONSTANTS c1, c2, c3, p1, p2, t1, t2
MCCik == {c1, c2, c3}
MCPipeline == {p1, p2}
MCThread == {t1, t2}
MCSicCode == <<{c1, c2, c3}, {c2, c3}>>
MCTradeable == {c1, c2, c3}
Symmetry == Permutations(MCPipeline) \cup Permutations(MCThread)
=============================================================================
