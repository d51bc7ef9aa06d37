---------------------------- MODULE MC_ContextStore ----------------------------
EXTENDS ContextStore

CONSTANTS a, w1, w2, noname, null

\* two write callbacks, so plugin_write's restore between writers matters
MCListWrite == <<w1, w2>>
====
