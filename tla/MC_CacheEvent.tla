---- MODULE MC_CacheEvent ----
EXTENDS CacheEvent
CONSTANTS s1, s2, e1, e2
MCSubs == {s1, s2}
MCEntries == {e1, e2}
====
