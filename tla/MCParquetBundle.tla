-------------------------- MODULE MCParquetBundle ---------------------------
(* Two files over three versions, where one file goes away and comes back   *)
(* with new content; it is the one that is read page by page.               *)
EXTENDS ParquetBundle

MCFile == {"facts", "submissions"}
MCContent == << [facts |-> 1, submissions |-> 1],
                [facts |-> 2, submissions |-> 0],
                [facts |-> 2, submissions |-> 2] >>
MCTorn == [u \in 1..3 |-> [v \in 1..3 |-> 10 * u + v]]
=============================================================================
