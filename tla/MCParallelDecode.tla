--------------------------- MODULE MCParallelDecode ---------------------------
EXTENDS ParallelDecode

CONSTANTS t1, t2, r1, r2, r3

\* A batch of three, split as the static schedule splits it.
TwoThreads == (t1 :> <<r1, r2>>) @@ (t2 :> <<r3>>)
=============================================================================
