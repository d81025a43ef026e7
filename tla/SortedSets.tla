------------------------------ MODULE SortedSets ------------------------------
(* Loops over positions that keep some of them: the kept ones in order. *)
EXTENDS Naturals, Sequences

\* The members of a set of numbers up to n, in order.
Ascending(S, n) ==
    LET below[i \in 0..n + 1] ==
            IF i = 0 THEN <<>>
            ELSE below[i - 1] \o (IF i - 1 \in S THEN <<i - 1>> ELSE <<>>)
    IN  below[n + 1]
=============================================================================
