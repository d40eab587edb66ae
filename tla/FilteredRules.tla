---------------------------- MODULE FilteredRules ----------------------------
(***************************************************************************)
(* The rules of Filtered_VAMANA (retriever.hpp:678): which nodes a search  *)
(* may enter, and Filtered_robust_prune with its quotas per label.         *)
(***************************************************************************)
EXTENDS IndexData, SequencesExt

CONSTANT QuotaFloor   \* least quota of a label, 8 in the code

ASSUME LabelAssumption ==
    /\ IsFiniteSet(Label) /\ Label \subseteq Nat
    /\ QuotaFloor \in Nat \ {0}

(* The members of S in a total order, given as a set of pairs.             *)
Sorted(S, less) ==
    CHOOSE s \in SetToSeqs(S) : \A i, j \in DOMAIN s : i < j => <<s[i], s[j]>> \in less

\* ctz and mask &= mask - 1 walk the bits upwards.
Ascending(S) == Sorted(S, {e \in S \X S : e[1] < e[2]})

FilteredQueries(i) ==
    [k \in 1 .. Cardinality(Bitmap[i]) |-> About(i, {Ascending(Bitmap[i])[k]})]

FilteredKeys(q) == q.mask

FilteredAdmits(q, n) == Bitmap[n] \cap q.mask # {}

FilteredRelated(i, j) == Bitmap[i] \cap Bitmap[j] # {}

\* pair<float,int>: the heaps break ties by id, the comparisons do not.
PairLess(q, a, b) ==
    Apart(q.of, a) < Apart(q.of, b) \/ (Apart(q.of, a) = Apart(q.of, b) /\ a < b)
DistLess(q, a, b) == Apart(q.of, a) < Apart(q.of, b)

-----------------------------------------------------------------------------
global_label_counts == [l \in Label |-> Cardinality({i \in Node : l \in Bitmap[i]})]

(* label_thresholds of a node: its slots shared out by label frequency.    *)
Quota(p) ==
    LET total == FoldFunctionOnSet(LAMBDA a, b : a + b, 0, global_label_counts, Bitmap[p])
    IN [l \in Bitmap[p] |->
            LET share == (MaxDegree * global_label_counts[l]) \div total IN
            IF share > QuotaFloor THEN share ELSE QuotaFloor]

(* One candidate of the sorted sweep: kept, put aside, or dropped because  *)
(* a kept node with all the labels it shares with p covers it.             *)
Consider(p, k, acc, c) ==
    LET shared == Bitmap[c] \cap Bitmap[p]
        covered == \E v \in ToSet(acc.kept) : shared \subseteq Bitmap[v] /\ Near(p, v, c, k)
        open == {l \in shared : acc.used[l] < Quota(p)[l]}
    IN IF Len(acc.kept) = MaxDegree \/ shared = {} \/ covered THEN acc
       ELSE IF open = {} THEN [acc EXCEPT !.over = Append(@, c)]
       ELSE [acc EXCEPT !.kept = Append(@, c),
                        !.used = [l \in Bitmap[p] |-> @[l] + IF l \in shared THEN 1 ELSE 0]]

(* Filtered_robust_prune: what the quotas left over fills the free slots.  *)
FilteredPrune(p, C, k) ==
    LET sorted == Sorted(C, {e \in C \X C : PairLess([of |-> p], e[1], e[2])})
        swept == FoldLeft(LAMBDA acc, c : Consider(p, k, acc, c),
                          [kept |-> <<>>, over |-> <<>>, used |-> [l \in Bitmap[p] |-> 0]],
                          sorted)
        all == swept.kept \o swept.over
    IN {SubSeq(all, 1, IF Len(all) < MaxDegree THEN Len(all) ELSE MaxDegree)}
=============================================================================
