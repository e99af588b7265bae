---------------------------- MODULE MCBulkIngest ----------------------------
(* Three companies: c1 loses its facts with its second document, c2 gains   *)
(* its third statement with it, c3 has all three throughout.                *)
EXTENDS BulkIngest

CONSTANTS c1, c2, c3

MCCik == {c1, c2, c3}
MCEmpty == {<<c1, 2>>}
MCComplete == {<<c1, 1>>, <<c2, 2>>, <<c3, 1>>, <<c3, 2>>}
MCHasStatement == MCComplete \cup {<<c2, 1>>}
=============================================================================
