------------------------------- MODULE MCFat32 -------------------------------
(* Two names, of two and three slots, in clusters of three units; a write of *)
(* less than a cluster, and one of three clusters.                           *)
EXTENDS Fat32
Seeks == {-1, 0, 3}
TwoBuffers == {<<2, 1>>, <<1, 2, 1, 2, 1, 2, 1>>}
TwoNames == <<<<"f">>, <<"d2", "d1">>>>
=============================================================================
