-------------------------------- MODULE Sums --------------------------------
(***************************************************************************)
(* Sums over a function of the numbers from 1, and over a sequence.        *)
(***************************************************************************)
EXTENDS Integers, Sequences

Total(f, n) ==
    LET sum[k \in Nat] == IF k = 0 THEN 0 ELSE sum[k - 1] + f[k] IN sum[n]

TotalOf(s) == Total([i \in Nat |-> IF i \in DOMAIN s THEN s[i] ELSE 0], Len(s))
=============================================================================
