---- MODULE MC_PingThread ----
EXTENDS PingThread
CONSTANTS h1, h2
MCHostList == <<h1, h2>>
\* uint32_t wraps at 2^32, beyond TLC's integers; the counters stay far
\* below 2^16, so a wrap at 2^16 is taken exactly where 2^32 would be
MCUIntMod == 2^16
====
