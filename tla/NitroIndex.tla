----------------------------- MODULE NitroIndex -----------------------------
(***************************************************************************)
(* The joint attribute graph as the benchmark builds and queries it:       *)
(* GraphBuild with the rules of JagRules, one search per insertion, one    *)
(* medoid, and an empty graph at the start (JAG_new.cpp:571-581).          *)
(***************************************************************************)
EXTENDS GraphSafety, JagRules

CONSTANTS
    Mean,      \* mean_vec, the mean of all vectors
    OldSlots   \* what slots hold beyond the count: 0 in a fresh file, any id
               \* in one that was kept, which the constructor does not truncate

ASSUME NitroAssumption == OldSlots \subseteq Node

NitroKeys(q) == {"global"}
NitroQueries(i) == <<About(i, Bitmap[i])>>
NitroAdmits(q, n) == TRUE
NitroRelated(i, j) == TRUE

(* The rules of GraphBuild are those of this index.                        *)
ASSUME NitroRules ==
    /\ \A q \in Query : Keys(q) = NitroKeys(q)
    /\ \A q \in Query, n \in Node : Admits(q, n) = NitroAdmits(q, n)
    /\ \A q \in Query, a, b \in Node : /\ Before(q, a, b) = QueryLess(q, a, b)
                                      /\ Nearer(q, a, b) = QueryLess(q, a, b)
    /\ \A i \in Node : Queries(i) = NitroQueries(i)
    /\ \A i, j \in Node : Related(i, j) = NitroRelated(i, j)
    /\ \A p \in Node, k \in 1 .. Passes : \A C \in SUBSET (Node \ {p}) :
           Prune(p, C, k) = JagPrune(p, C, k)

(* A node nearest to the mean; the critical section compares all of them,  *)
(* in any order.                                                           *)
GlobalMedoids == {i \in Node : \A j \in Node : Apart(Mean, i) <= Apart(Mean, j)}

NitroInit ==
    /\ GraphBuildInit
    /\ \E m \in GlobalMedoids : medoids = [k \in MedoidKeys |-> m]
    /\ num_neighbours = [p \in Node |-> 0]
    /\ neighbours \in [Node -> [Slot -> OldSlots]]

(* Fairness asks no more than that some thread which can run does.         *)
NitroSpec ==
    /\ NitroInit /\ [][BuildNext]_buildVars
    /\ WF_buildVars(BuildNext)
=============================================================================
