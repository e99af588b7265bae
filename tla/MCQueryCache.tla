---------------------------- MODULE MCQueryCache ----------------------------
(* Two threads, and one cache entry for two keys; the database changes once. *)
EXTENDS QueryCache

CONSTANTS t1, t2, k1, k2

MCThread == {t1, t2}
MCKey == {k1, k2}
MCHash == <<1, 2>>
=============================================================================
