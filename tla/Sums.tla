-------------------------------- MODULE Sums --------------------------------
(* Sums, as what a house has put into each of its factories added up.       *)
EXTENDS Integers

\* g[0] + ... + g[n - 1]
SumTo(g, n) ==
  LET sum[k \in 0 .. n] == IF k = 0 THEN 0 ELSE sum[k - 1] + g[k - 1]
  IN  sum[n]
=============================================================================
