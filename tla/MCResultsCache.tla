--------------------------- MODULE MCResultsCache ---------------------------
EXTENDS ResultsCache, TLC

CONSTANTS q1, q2, q3, k1, chart, explore

(* q1 and q2 belong to one explore, q2 and q3 to one chart: a clear of     *)
(* either reaches the third query only through the key they share.         *)
MCKeyOf == [q \in Query |-> k1]
MCContentOf == q1 :> {explore} @@ q2 :> {chart, explore} @@ q3 :> {chart}
(* The second of a pair is a Python query over other results.              *)
PairContentOf == q1 :> {explore} @@ q2 :> {chart}
=============================================================================
