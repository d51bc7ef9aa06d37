---- MODULE MC_CallbackRegistry ----
EXTENDS CallbackRegistry
CONSTANTS n1, n2, d1, d2, d3, c1, c2, c3
MCNames == {n1, n2}
MCDatas == {d1, d2, d3}
MCCbs == {c1, c2, c3}
====
