------------------------------ MODULE JagRules ------------------------------
(***************************************************************************)
(* Penalties, candidate order and robust_prune of NitroRAG_Vamana          *)
(* (JAG_new.cpp).  Penalties are scaled by the product of the two sigmas,  *)
(* which makes them integers and keeps every comparison.                   *)
(***************************************************************************)
EXTENDS IndexData, SequencesExt

CONSTANTS
    SigmaSubset, SigmaRange,  \* global_sigma_subset, global_sigma_range
    Epsilon                   \* 1e-5f, times the product of the sigmas

ASSUME JagAssumption ==
    /\ SigmaSubset \in Nat \ {0} /\ SigmaRange \in Nat \ {0}
    /\ Epsilon \in Nat
    /\ \A i, j \in Node : Apart(i, j) \in Nat
    /\ \A q \in Query : /\ IsFiniteSet(q.mask) /\ q.min \in Nat /\ q.max \in Nat
                       /\ \A n \in Node : Apart(q.of, n) \in Nat

Scaled(bits, range) == bits * SigmaRange + range * SigmaSubset

OutOfRange(x, lo, hi) == IF x < lo THEN lo - x ELSE IF x > hi THEN x - hi ELSE 0

get_query_penalty(q, n) ==
    Scaled(Cardinality(q.mask \ Bitmap[n]), OutOfRange(Attr[n], q.min, q.max))

get_node_penalty(p, v) ==
    Scaled(Cardinality((Bitmap[p] \ Bitmap[v]) \cup (Bitmap[v] \ Bitmap[p])),
           Gap(Attr[p], Attr[v]))

(* NitroCandidate::operator<, on penalty and distance.                     *)
NitroLess(pa, da, pb, db) == IF Gap(pa, pb) > Epsilon THEN pa < pb ELSE da < db

QueryLess(q, a, b) ==
    NitroLess(get_query_penalty(q, a), Apart(q.of, a),
              get_query_penalty(q, b), Apart(q.of, b))

NodeLess(p, a, b) ==
    NitroLess(get_node_penalty(p, a), Apart(p, a), get_node_penalty(p, b), Apart(p, b))

-----------------------------------------------------------------------------
(* What one sorted sweep over the candidates C can keep: in the order less,*)
(* without a candidate covered by one kept before it, until the budget is  *)
(* used up.  Ties are visited in any order, std::sort being unstable.      *)
Lanes(C, less, covers, budget) ==
    {s \in BoundedSeq(C, budget) :
        /\ \A i, j \in DOMAIN s : i < j =>
               s[i] # s[j] /\ <<s[j], s[i]>> \notin less /\ <<s[i], s[j]>> \notin covers
        /\ \A c \in C \ ToSet(s) :
               \/ Len(s) = budget /\ \A i \in DOMAIN s : <<c, s[i]>> \notin less
               \/ \E i \in DOMAIN s : <<s[i], c>> \in covers /\ <<c, s[i]>> \notin less}

budget_SEMANTIC == (MaxDegree * 5) \div 8
budget_VECTOR == MaxDegree - budget_SEMANTIC

(* What std::sort establishes with the comparison less: nothing, if it     *)
(* does not order the candidates.                                          *)
Settled(C, less) ==
    IF StrictWeak(LAMBDA a, b : <<a, b>> \in less, C) THEN less ELSE {}

SemanticEdges(p, C, k) ==
    Lanes(C, Settled(C, {e \in C \X C : NodeLess(p, e[1], e[2])}),
          {e \in C \X C : /\ get_node_penalty(e[1], e[2]) <= get_node_penalty(p, e[2])
                          /\ Near(p, e[1], e[2], k)},
          budget_SEMANTIC)

VectorEdges(p, C, k) ==
    Lanes(C, {e \in C \X C : Apart(p, e[1]) < Apart(p, e[2])},
          {e \in C \X C : Near(p, e[1], e[2], k)}, budget_VECTOR)

(* robust_prune: the semantic lane, then the vector lane over the rest.    *)
JagPrune(p, C, k) ==
    UNION {{sem \o vec : vec \in VectorEdges(p, C \ ToSet(sem), k)} :
              sem \in SemanticEdges(p, C, k)}
=============================================================================
