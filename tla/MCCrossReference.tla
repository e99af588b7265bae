-------------------------- MODULE MCCrossReference --------------------------
(* Two runs and two companies.  When the lists of tickers and entities      *)
(* change one of the two is no longer listed, and the other has its ticker; *)
(* one ticker is also the symbol of two classes of a fund, the other has an *)
(* override.  The first list of entities names one of them twice, and the   *)
(* last list of tickers repeats a line.                                     *)
EXTENDS CrossReference, TLC
CONSTANTS c1, c2, p1, p2, x, y
MCCik == {c1, c2}
MCName == {x, y}
MCLine == 1..3
MCPipeline == {p1, p2}
MCVersions == ("tickers" :> 3) @@ ("funds" :> 1) @@ ("entities" :> 2) @@ ("overrides" :> 1)
MCListed ==
    ("tickers" :> << {<<c1, x, 1>>, <<c2, y, 2>>}, {<<c2, x, 1>>},
                     {<<c2, x, 1>>, <<c2, x, 2>>} >>) @@
    ("funds" :> << {<<c2, x, 1>>, <<c2, x, 2>>} >>) @@
    ("entities" :> << {<<c1, x, 1>>, <<c1, x, 2>>, <<c2, y, 3>>}, {<<c2, y, 1>>} >>) @@
    ("overrides" :> << {<<c1, y, 1>>, <<c2, y, 2>>} >>)
Symmetry == Permutations(MCPipeline)
=============================================================================
