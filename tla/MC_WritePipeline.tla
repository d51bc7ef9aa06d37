---- MODULE MC_WritePipeline ----
EXTENDS WritePipeline
MCRawHighs == {-1, 0, 1, 2, 3}
MCRawLows == {-1, 0, 1, 3, 5}
CONSTANTS wr1, wr2, p1, p2, i1, i2, i3, i4
MCWriters == {wr1, wr2}
MCProducers == {p1, p2}
MCItems == {i1, i2, i3, i4}
====
