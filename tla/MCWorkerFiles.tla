--------------------------- MODULE MCWorkerFiles ---------------------------
(* One path and two calls: a write of two pieces or a read, then a write   *)
(* of a single piece, a read, or a search of three files by two walkers    *)
(* for a result of two.                                                    *)
EXTENDS WorkerFiles

CONSTANTS p, f1, f2, f3, w1, w2

MCPath == {p}
MCFolder == {}
MCMaxCalls == 2
MCPieces == <<2, 1>>
MCSearchCalls == {2}
MCWalker == {w1, w2}
MCFound == {f1, f2, f3}
MCMatches == [f \in MCFound |-> IF f = f1 THEN 2 ELSE 1]
MCFlaky == {f3}
MCResultCap == 2
MCFeedCap == 1
=============================================================================
