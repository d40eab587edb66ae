---------------------------- MODULE FilteredIndex ----------------------------
(***************************************************************************)
(* The filtered index from the first to the last step (main, steps [5/8]   *)
(* and [7/8] of JAG_new.cpp): load_data_and_get_medoids lets the team find *)
(* the K nodes nearest to each label's centroid and picks one of them as   *)
(* the label's medoid, initialize_filtered_random_graph draws each node's  *)
(* first list, and GraphBuild does the rest with the rules of              *)
(* FilteredRules.                                                          *)
(***************************************************************************)
EXTENDS GraphSafety, FilteredRules

CONSTANTS
    K,             \* medoid candidates per label, 10 in the code
    Centroid(_),   \* vector at the centre of a label's nodes
    Shortfalls     \* by how much the 50 draws may miss edges_per_label

(* Ids are the positions of the documents; a team has a thread.            *)
ASSUME FilteredAssumption ==
    /\ K \in Nat \ {0}
    /\ Node = 0 .. Cardinality(Node) - 1
    /\ Thread # {}
    /\ \A l \in Label, i \in Node : Apart(Centroid(l), i) \in Nat
    /\ \A i, j \in Node : Apart(i, j) \in Nat
    /\ \A q \in Query, i \in Node : Apart(q.of, i) \in Nat

(* A medoid per label, and the rules of GraphBuild are those of this index.*)
ASSUME FilteredChoices ==
    /\ MedoidKeys = Label
    /\ \A q \in Query : Keys(q) = FilteredKeys(q)
    /\ \A q \in Query, n \in Node : Admits(q, n) = FilteredAdmits(q, n)
    /\ \A q \in Query, a, b \in Node : /\ Before(q, a, b) = PairLess(q, a, b)
                                      /\ Nearer(q, a, b) = DistLess(q, a, b)
    /\ \A i \in Node : Queries(i) = FilteredQueries(i)
    /\ \A i, j \in Node : Related(i, j) = FilteredRelated(i, j)
    /\ \A p \in Node, k \in 1 .. Passes : \A C \in SUBSET (Node \ {p}) :
           Prune(p, C, k) = FilteredPrune(p, C, k)

VARIABLES
    local_top_k,   \* per thread and label, the candidates of its chunks
    global_top_k,  \* per label, the merged candidates
    usage,         \* medoid_usage_count
    labels         \* labels whose medoid is still to be picked, ascending

setupVars == <<local_top_k, global_top_k, usage, labels>>
indexVars == <<buildVars, setupVars>>

(* Mutant of Members: the label is looked up one bit off.                  *)
MembersNextBit(l) == {i \in Node : l + 1 \in Bitmap[i]}

Members(l) == {i \in Node : l \in Bitmap[i]}
Closer(l, i, j) == PairLess([of |-> Centroid(l)], i, j)
NoTop == [l \in Label |-> {}]

FilteredInit ==
    /\ visited = [t \in Thread |-> {}] /\ search = [t \in Thread |-> Idle]
    /\ pass = 1 /\ next = 0 /\ todo = Serving
    /\ mine = [t \in Thread |-> <<>>] /\ asks = [t \in Thread |-> <<>>]
    /\ pc = [t \in Thread |-> "scan"]
    /\ cands = [t \in Thread |-> {}] /\ links = [t \in Thread |-> <<>>]
    /\ at = [t \in Thread |-> NoNode]
    /\ stores = [t \in Thread |-> {}] /\ counts = [t \in Thread |-> {}]
    /\ num_neighbours = [p \in Node |-> 0]
    /\ neighbours = [p \in Node |-> [s \in Slot |-> 0]]
    /\ medoids = [l \in MedoidKeys |-> NoNode]
    /\ local_top_k = [t \in Thread |-> NoTop] /\ global_top_k = NoTop
    /\ usage = [i \in Node |-> 0]
    /\ labels = Ascending(Label)

-----------------------------------------------------------------------------
(* Mutant of Trim: pops one push too late.                                 *)
TrimLate(l, S) == {i \in S : Cardinality({j \in S : Closer(l, j, i)}) <= K}

(* The K first of S: a max-heap trimmed whenever it holds more than K.     *)
Trim(l, S) == {i \in S : Cardinality({j \in S : Closer(l, j, i)}) < K}

Upto == IF next + Chunk > Cardinality(Node) THEN Cardinality(Node) ELSE next + Chunk
Claimed == next .. Upto - 1

(* A chunk of nodes goes into the heaps of the thread; none left, no more. *)
Scan(t) ==
    /\ pc[t] = "scan"
    /\ local_top_k' = [local_top_k EXCEPT ![t] =
           [l \in Label |-> Trim(l, @[l] \cup (Claimed \cap Members(l)))]]
    /\ next' = Upto
    /\ Goto(t, IF Claimed = {} THEN "merge" ELSE "scan")
    /\ UNCHANGED <<graphVars, searchVars, medoids, pass, mine, asks, cands, at, stores,
                   counts, links, todo, global_top_k, usage, labels>>

(* Mutant of Merged: the last thread's candidates replace the others.      *)
MergedLast(l, S, T) == Trim(l, T)

Merged(l, S, T) == Trim(l, S \cup T)

(* The critical section: this thread's heaps are emptied into the global.  *)
Merge(t) ==
    /\ pc[t] = "merge"
    /\ \A u \in Thread : pc[u] # "scan"   \* barrier of the omp for
    /\ global_top_k' = [l \in Label |-> Merged(l, global_top_k[l], local_top_k[t][l])]
    /\ local_top_k' = [local_top_k EXCEPT ![t] = NoTop]
    /\ Goto(t, "merged")
    /\ UNCHANGED <<graphVars, searchVars, medoids, pass, next, mine, asks, cands, at,
                   stores, counts, links, todo, usage, labels>>

(* Of the candidates used least so far, the one nearest to the centroid.   *)
Pick(l) ==
    LET idle == {i \in global_top_k[l] : \A j \in global_top_k[l] : usage[i] <= usage[j]}
    IN CHOOSE i \in idle : \A j \in idle : ~Closer(l, j, i)

(* The serial loop over the labels; then the team draws the first lists.   *)
PickMedoid ==
    /\ \A t \in Thread : pc[t] = "merged"
    /\ IF labels = <<>>
       THEN /\ pc' = [t \in Thread |-> "draw"]
            /\ next' = 0
            /\ UNCHANGED <<medoids, usage, labels>>
       ELSE LET l == Head(labels) IN
            /\ labels' = Tail(labels)
            /\ IF global_top_k[l] = {} THEN UNCHANGED <<medoids, usage>>
               ELSE /\ medoids' = [medoids EXCEPT ![l] = Pick(l)]
                    /\ usage' = [usage EXCEPT ![Pick(l)] = @ + 1]
            /\ UNCHANGED <<pc, next>>
    /\ UNCHANGED <<graphVars, searchVars, pass, mine, asks, cands, at, stores, counts,
                   links, todo, local_top_k, global_top_k>>

-----------------------------------------------------------------------------
(* The lists that drawing members of l and appending its medoid can leave. *)
Drawn(i, l, s) ==
    LET others == Members(l) \ ({i} \cup ToSet(s))
        quota == IF 15 \div Cardinality(Bitmap[i]) > 2 THEN 15 \div Cardinality(Bitmap[i])
                 ELSE 2
        most == Min({quota, Cardinality(others), MaxDegree - Len(s)})
        lists == {s \o d : d \in {e \in BoundedSeq(others, most) :
                     IsInjective(e) /\ most - Len(e) \in Shortfalls}}
        m == medoids[l]
    IN IF Members(l) \ {i} = {} THEN {s}
       ELSE {IF m = i \/ m \in ToSet(d) \/ Len(d) = MaxDegree THEN d
             ELSE Append(d, m) : d \in lists}

FirstLists(i) ==
    FoldLeft(LAMBDA lists, l : UNION {Drawn(i, l, s) : s \in lists}, {<<>>},
             Ascending(Bitmap[i]))

(* A thread draws the list of one node after the other; only it writes it. *)
Draw(t) ==
    /\ pc[t] = "draw"
    /\ IF next = Cardinality(Node)
       THEN Goto(t, "drawn") /\ UNCHANGED <<graphVars, next>>
       ELSE \E s \in FirstLists(next) :
              /\ num_neighbours' = [num_neighbours EXCEPT ![next] = Len(s)]
              /\ neighbours' = [neighbours EXCEPT ![next] =
                     [k \in Slot |-> IF k < Len(s) THEN s[k + 1] ELSE @[k]]]
              /\ next' = next + 1
              /\ UNCHANGED pc
    /\ UNCHANGED <<searchVars, medoids, pass, mine, asks, cands, at, stores, counts,
                   links, todo, setupVars>>

StartBuild ==
    /\ \A t \in Thread : pc[t] = "drawn"
    /\ pc' = [t \in Thread |-> "claim"]
    /\ next' = 0
    /\ UNCHANGED <<graphVars, searchVars, medoids, pass, mine, asks, cands, at, stores,
                   counts, links, todo, setupVars>>

ThreadStep(t) == Scan(t) \/ Merge(t) \/ Draw(t) \/ (Work(t) /\ UNCHANGED setupVars)

TeamStep == PickMedoid \/ StartBuild \/ (Barrier /\ UNCHANGED setupVars)

FilteredNext == Alive /\ (TeamStep \/ \E t \in Thread : ThreadStep(t))

(* Fairness asks no more than that some thread which can run does.         *)
FilteredSpec ==
    /\ FilteredInit /\ [][FilteredNext]_indexVars
    /\ WF_indexVars(FilteredNext)

-----------------------------------------------------------------------------
(* The heaps hold members of their label only and never more than K; pc    *)
(* has a value of the setup or of the build.                               *)
FilteredTypeOK ==
    /\ SearchTypeOK
    /\ medoids \in [Label -> Node \cup {NoNode}]
    /\ pc \in [Thread -> BuildLabels \cup {"scan", "merge", "merged", "draw", "drawn"}]
    /\ usage \in [Node -> 0 .. Cardinality(Label)]
    /\ \A l \in Label : \A S \in {global_top_k[l]} \cup {local_top_k[t][l] : t \in Thread} :
           (\A i \in S : l \in Bitmap[i]) /\ Cardinality(S) <= K

(* Once merged, the candidates of a label are its K nodes nearest to the   *)
(* centroid, whatever nodes each thread scanned and in whatever order the  *)
(* threads came to the critical section.                                   *)
CandidatesExact ==
    (\A t \in Thread : pc[t] \notin {"scan", "merge"}) =>
        \A l \in Label : global_top_k[l] = Trim(l, Members(l))

(* A label that some node has gets one of these nodes as its medoid.       *)
MedoidsOwnLabel ==
    labels = <<>> => \A l \in Label :
        IF \A i \in Node : l \notin Bitmap[i] THEN medoids[l] = NoNode
        ELSE medoids[l] # NoNode /\ l \in Bitmap[medoids[l]]

(* The exit(1) of Filtered_greedy_search is taken for a query to the       *)
(* finished index that asks for labels no node has, and for nothing else:  *)
(* never by a search of the build, nor because a label missed its medoid.  *)
ExitsForNoDocument ==
    \A t \in Thread : pc[t] = "exit" =>
        /\ asks[t] = <<>>
        /\ \E q \in todo : \A l \in q.mask : Members(l) = {}
=============================================================================
