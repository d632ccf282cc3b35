--------------------------- MODULE MCCaptureProbe ---------------------------
EXTENDS CaptureProbe

\* Two chunks to a frame, and fan-outs smaller than the number of items of a run. (Two
\* frames, a second, to a chunk: four units of the product, which wraps at the fourth.)
MCPeriod   == [video |-> 4, audio |-> 2]
MCCapacity == [video |-> 1, audio |-> 2]

\* Nowhere to move, one direction only, wrapping at once, and squares of several pixels.
MCSizes == {<<2, 1>>, <<3, 1>>, <<3, 4>>, <<32, 24>>}
=============================================================================
