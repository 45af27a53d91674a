-------------------------------- MODULE Sums --------------------------------
(***************************************************************************)
(* Sums, as the loops of the code compute them: `total += ...'.            *)
(***************************************************************************)
EXTENDS Integers, Sequences

\* The sum of a sequence of integers, by the totals up to each place.
Total(s) ==
    LET upTo[i \in 0..Len(s)] == IF i = 0 THEN 0 ELSE upTo[i - 1] + s[i]
    IN upTo[Len(s)]

\* The sum of the products of two sequences, place by place.
Product(s, t) == Total([i \in 1..Len(s) |-> s[i] * t[i]])
=============================================================================
