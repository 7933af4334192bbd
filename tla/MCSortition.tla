---------------------------- MODULE MCSortition ----------------------------
(* The table of 50 entries, three quantiles apart, and some stakes *)
EXTENDS Sortition

\* Three quantiles between entries, and the largest at the end
MCTable == [i \in 0..49 |-> IF i = 49 THEN 2 * Half - 1 ELSE Half + 3 * i]
MCRoot == [n \in 0..MaxMean |->
              CHOOSE r \in 0..n : r * r <= n /\ n < (r + 1) * (r + 1)]
=============================================================================
