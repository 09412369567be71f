------------------------------- MODULE Orders --------------------------------
(***************************************************************************)
(* Sorted lists by ranks, and sums, where the code sorts by a key and adds *)
(* up: an element of a list is the one with as many others ahead of it as  *)
(* there are places before it.                                             *)
(***************************************************************************)
EXTENDS Integers, FiniteSets, Sequences, SequencesExt

\* sorted: each behind those ahead of it
Ordered(set, ahead) ==
    [i \in 1..Cardinality(set) |-> CHOOSE x \in set : Cardinality(ahead[x]) = i - 1]
Ascending(set) == Ordered(set, [x \in set |-> {y \in set : y < x}])
Descending(set) == Ordered(set, [x \in set |-> {y \in set : y > x}])

\* The members of seq that are chosen, in the order of seq.
Among(seq, chosen) ==
    LET at == Ascending({i \in DOMAIN seq : seq[i] \in chosen})
    IN [k \in DOMAIN at |-> seq[at[k]]]

\* The places of a list of numbers, largest number first.
LargestFirst(list) ==
    Ordered(DOMAIN list, [i \in DOMAIN list |->
                             {j \in DOMAIN list : list[j] > list[i] \/ (list[j] = list[i] /\ j < i)}])

\* sum of a list
SumOf(list) ==
    LET upTo[n \in 0..Len(list)] == IF n = 0 THEN 0 ELSE upTo[n - 1] + list[n]
    IN upTo[Len(list)]

\* sum of the values of a mapping
Total(f) == LET keys == SetToSeq(DOMAIN f) IN SumOf([n \in DOMAIN keys |-> f[keys[n]]])
=============================================================================
