------------------------------ MODULE Sorting -------------------------------
(* sort.Strings, on lists whose members are numbers: only their order counts. *)
EXTENDS SequencesExt

Sorts(p, s) == \A i, j \in DOMAIN s : i < j => s[p[i]] <= s[p[j]]
Sorted(s) ==
    LET p == CHOOSE p \in Bijection(DOMAIN s, DOMAIN s) : Sorts(p, s)
    IN  [i \in DOMAIN s |-> s[p[i]]]
SortedSeq(S) == Sorted(SetToSeq(S))
=============================================================================
