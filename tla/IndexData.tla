------------------------------ MODULE IndexData ------------------------------
(***************************************************************************)
(* What the vector indexes are built over: node ids, the vectors through   *)
(* their distances, labels and attributes of the documents, and queries.   *)
(***************************************************************************)
EXTENDS Naturals, Sequences, FiniteSets

CONSTANTS
    Node,            \* ids of the nodes of the index
    Query,           \* records [of, mask, min, max]: vector, labels, range
    MaxDegree,       \* max_degree, length of a node's neighbours array
    Label,           \* bits of a bitmap
    Bitmap,          \* per node, the set of its labels
    Attr,            \* per node, its numeric attribute
    Apart(_, _),     \* l2_distance, of the vector of a query or node to a node
    AlphaSquared     \* per pass of a build, alpha * alpha in percent

ASSUME DataAssumption ==
    /\ IsFiniteSet(Node)
    /\ MaxDegree \in Nat \ {0}
    /\ Bitmap \in [Node -> SUBSET Label]
    /\ Attr \in [Node -> Nat]

Gap(a, b) == IF a < b THEN b - a ELSE a - b

(* The query that the insertion of a node makes, with a mask of labels.    *)
About(i, mask) == [of |-> i, mask |-> mask, min |-> Attr[i], max |-> Attr[i]]

(* The vector test of robust_prune in both filtered indexes: a neighbour v *)
(* of p covers candidate c.  JAG_new.cpp:268 and retriever.hpp:829 relax   *)
(* it by alpha; retriever.hpp:470 tightens it.                             *)
Near(p, v, c, k) == 100 * Apart(v, c) <= AlphaSquared[k] * Apart(p, c)

(* Heaps and std::sort need strict weak orders.                            *)
StrictWeak(less(_, _), S) ==
    /\ \A a, b \in S : less(a, b) => ~less(b, a)
    /\ \A a, b, c \in S : less(a, b) => less(a, c) \/ less(c, b)
=============================================================================
