--------------------------- MODULE MCDeltaUpdate ---------------------------
(* Two companies: c1 loses a statement with its second filing, c2 gains its *)
(* third statement with it.                                                 *)
EXTENDS DeltaUpdate, TLC

CONSTANTS c1, c2, p1, p2

MCCik == {c1, c2}
MCProc == {p1, p2}
MCOneProc == {p1}
MCComplete == {<<c1, 1>>, <<c2, 2>>}
Symmetry == Permutations(MCProc)
=============================================================================
