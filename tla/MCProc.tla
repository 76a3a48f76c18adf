------------------------------ MODULE MCProc ---------------------------------
(* Process p0 monitors the others.  It serves p1 on channel c0 (yielding)   *)
(* and calls p1 on channel c1 (not yielding).  Process p2 only sends on c0. *)
EXTENDS ProcIpc

CONSTANTS h0, h1, p0, p1, p2, c0, c1

ServerOf == [ch \in Chans |-> IF ch = c0 THEN p0 ELSE p1]
ClientsOf == [ch \in Chans |-> IF ch = c0 THEN {p1} ELSE {p0}]
SendersOf == [ch \in Chans |-> IF ch = c0 THEN {p2} ELSE {}]
ModeOf == [ch \in Chans |-> IF ch = c0 THEN "yield" ELSE "noyield"]
Watched == {<<p0, p1>>, <<p0, p2>>}
Anyone == [n \in 1..Cardinality(Harts) |-> Watched]
Paused == [n \in 1..Cardinality(Harts) |-> IF n = 1 THEN Watched ELSE {<<p0, p2>>}]
=============================================================================
