------------------------------ MODULE Listing ------------------------------
(***************************************************************************)
(* Keeping some entries of a list, and sorting it.  SelectSeq and SortSeq  *)
(* say the same, in a form that nothing can be proved about.               *)
(***************************************************************************)
EXTENDS Naturals, Sequences, FiniteSets

\* The k-th smallest of a finite set of numbers.
Nth(S, k) == CHOOSE x \in S : Cardinality({y \in S : y <= x}) = k

\* The entries at the positions S, in the order they have.
Selected(list, S) == [k \in 1..Cardinality(S) |-> list[Nth(S, k)]]

\* The entries by their times, those of one time in the order they have.
Sorted(list, time) ==
  LET Before(i, j) == time[i] < time[j] \/ (time[i] = time[j] /\ i <= j)
      place == [i \in DOMAIN list |-> Cardinality({j \in DOMAIN list : Before(j, i)})]
  IN [k \in DOMAIN list |-> list[CHOOSE i \in DOMAIN list : place[i] = k]]
=============================================================================
