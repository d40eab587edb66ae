---------------------------- MODULE GraphSafety ----------------------------
(***************************************************************************)
(* The properties of GraphBuild.                                           *)
(***************************************************************************)
EXTENDS GraphBuild

Unlocked(p) == \A t \in Thread : at[t] # p

BuildLabels == {"claim", "barrier", "insert", "ask", "search", "store", "link",
                "serve", "query", "exit"}

(* Every field has its type; a thread holds a lock exactly while it makes  *)
(* stores, and has a node to insert wherever it needs one.                 *)
GraphTypeOK ==
    /\ SearchTypeOK
    /\ medoids \in [MedoidKeys -> Node \cup {NoNode}]
    /\ pass \in 1 .. Passes
    /\ next \in 0 .. Len(Order)
    /\ mine \in [Thread -> Seq(Node)]
    /\ pc \in [Thread -> BuildLabels]
    /\ asks \in [Thread -> Seq(Query)]
    /\ cands \in [Thread -> SUBSET Node]
    /\ at \in [Thread -> Node \cup {NoNode}]
    /\ stores \in [Thread -> SUBSET (Nat \X Node)]
    /\ counts \in [Thread -> SUBSET Nat]
    /\ links \in [Thread -> Seq(Node)]
    /\ todo \subseteq Serving
    /\ \A t \in Thread :
           /\ at[t] # NoNode <=> pc[t] = "store"
           /\ pc[t] \in {"insert", "ask", "search", "store", "link"} => mine[t] # <<>>

(* neighbours[max_degree] (JAG_new.cpp:42, retriever.hpp:671) is never     *)
(* overrun: neither by a count nor by a store on its way, although append  *)
(* and prune of one list come from different threads.                      *)
DegreeBound ==
    /\ \A p \in Node : num_neighbours[p] <= MaxDegree
    /\ \A t \in Thread : /\ \A w \in stores[t] : w[1] < MaxDegree
                         /\ \A c \in counts[t] : c <= MaxDegree

(* A list that nobody is writing names no node twice and never the node    *)
(* itself.                                                                 *)
SimpleLists ==
    \A p \in Node : Unlocked(p) =>
        /\ p \notin Listed(p)
        /\ IsInjective(List(p))

(* Every edge of a list that nobody is writing joins related nodes: in the *)
(* filtered index no edge leaves the labels, so that a filtered search can *)
(* follow each.                                                            *)
EdgesRelated == \A p \in Node : Unlocked(p) => \A n \in Listed(p) : Related(p, n)

(* A list never becomes empty again: prunes and appends of other threads   *)
(* cannot take a node's last edge.                                         *)
NeverEmptied ==
    [][\A p \in Node : num_neighbours[p] > 0 => num_neighbours'[p] > 0]_buildVars

(* From the second pass on every node has an edge, the first node that was *)
(* inserted into the empty graph included.                                 *)
NoIsolatedNode == pass > 1 => \A p \in Node : num_neighbours[p] > 0

(* The loop does not break off too early: the comparison orders what the   *)
(* search has visited, or its beam was never full.                         *)
Thorough(s) == Ordered(s.query, s.seen) \/ Cardinality(s.seen) < L

(* On the finished index a search stops at a local optimum only: it has    *)
(* looked at all admissible neighbours of what it returns, if comparisons  *)
(* order what it has visited or it has visited less than it may return.    *)
ResultsExpanded ==
    \A t \in Thread :
        LET s == search[t] IN
        pc[t] = "query" /\ Found(t) /\ Thorough(s) =>
            \A a \in s.top : \A n \in Listed(a) :
                Admits(s.query, n) => n \in s.seen

(* The build ends, and all queries are answered unless one ends the        *)
(* process: no thread waits for ever for a lock or at a barrier.           *)
BuildEnds == <>(~Alive \/ (todo = {} /\ \A t \in Thread : pc[t] = "serve"))
=============================================================================
