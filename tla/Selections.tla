------------------------------ MODULE Selections ------------------------------
(***************************************************************************)
(* Keeping some positions of a sequence and dropping the others, in order: *)
(* what a Python list comprehension with an "if" does to a list.           *)
(***************************************************************************)
EXTENDS Integers, Sequences, FiniteSets

\* How many members of K are at most k.
Rank(K, k) == Cardinality({j \in K : j <= k})

\* The n-th smallest member of K.
Nth(K, n) == CHOOSE k \in K : Rank(K, k) = n

\* The members of seq at the positions in K, in the order they have in seq.
Select(seq, K) == [n \in 1..Cardinality(K) |-> seq[Nth(K, n)]]
===============================================================================
