-------------------------- MODULE MC_ReadScheduler --------------------------
(* Two read threads, two names, two read_func_t allocations. *)
EXTENDS ReadScheduler

CONSTANTS w1, w2, n1, n2, g1, o1, o2

MCWorkers == {w1, w2}
MCNames == {n1, n2}
MCGroups == {g1}
MCObjs == {o1, o2}
=============================================================================
