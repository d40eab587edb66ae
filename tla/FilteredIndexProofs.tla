------------------------- MODULE FilteredIndexProofs -------------------------
(***************************************************************************)
(* The filtered index from its medoids to its queries, for every team,     *)
(* set of nodes and labels, K and degree.                                  *)
(*                                                                         *)
(* The medoid candidates of a label are its K nearest nodes however the    *)
(* nodes are dealt out and in whatever order the threads merge, since      *)
(* trimming a part of a set early changes nothing of what trimming the     *)
(* whole leaves (TrimEarly).  Filtered_robust_prune is a sweep over sorted *)
(* candidates, and the random first lists are one over the labels of a     *)
(* node; both are folds, and an induction over their prefixes says what    *)
(* they leave (SweepRuns, FirstListsGood).  With that, what GraphBuild     *)
(* promises of any pruning rule holds here, and FilteredInv joins it to    *)
(* what comes before the build.                                            *)
(***************************************************************************)
EXTENDS FilteredIndex, GraphBuildProofs

(* Closer orders the nodes by distance, then by id.                        *)
LEMMA CloserIsTotal ==
    ASSUME NEW l \in Label
    PROVE  /\ \A a \in Node : ~Closer(l, a, a)
           /\ \A a, b, c \in Node : Closer(l, a, b) /\ Closer(l, b, c) => Closer(l, a, c)
<1>1. \A a \in Node : a \in Int /\ Apart(Centroid(l), a) \in Nat
  <2>1. Cardinality(Node) \in Nat
    BY DataAssumption, FS_CardinalityType
  <2>2. Node = 0 .. Cardinality(Node) - 1
    BY FilteredAssumption
  <2>3. \A a \in 0 .. Cardinality(Node) - 1 : a \in Int
    BY <2>1
  <2>4. \A a \in Node : a \in Int
    BY <2>2, <2>3, Zenon
  <2>. QED BY <2>4, FilteredAssumption
<1>2. \A a, b \in Node : Closer(l, a, b) <=>
          \/ Apart(Centroid(l), a) < Apart(Centroid(l), b)
          \/ Apart(Centroid(l), a) = Apart(Centroid(l), b) /\ a < b
  BY DEF Closer, PairLess
<1>3. \A a \in Node : ~Closer(l, a, a)
  BY <1>1, <1>2
<1>4. ASSUME NEW a \in Node, NEW b \in Node, NEW c \in Node,
             Closer(l, a, b), Closer(l, b, c)
      PROVE  Closer(l, a, c)
  BY <1>1, <1>2, <1>4
<1>. QED BY <1>3, <1>4

LEMMA SubsetsAreFinite ==
    ASSUME NEW S \in SUBSET Node
    PROVE  /\ IsFiniteSet(S) /\ Cardinality(S) \in Nat
           /\ \A T \in SUBSET S : Cardinality(T) <= Cardinality(S)
BY DataAssumption, FS_Subset, FS_CardinalityType

(* Trimming a part of a set early changes nothing of what is left.         *)
LEMMA TrimEarly ==
    ASSUME NEW l \in Label, NEW S \in SUBSET Node, NEW T \in SUBSET Node
    PROVE  Trim(l, Trim(l, S) \cup T) = Trim(l, S \cup T)
<1>. DEFINE TS == Trim(l, S)
            Ahead(i, U) == {j \in U : Closer(l, j, i)}
<1>1. K \in Nat \ {0}
  BY FilteredAssumption
<1>2. /\ TS \in SUBSET S
      /\ \A i : i \in TS <=> i \in S /\ Cardinality(Ahead(i, S)) < K
      /\ \A i : i \in Trim(l, TS \cup T) <=>
                    i \in TS \cup T /\ Cardinality(Ahead(i, TS \cup T)) < K
      /\ \A i : i \in Trim(l, S \cup T) <=>
                    i \in S \cup T /\ Cardinality(Ahead(i, S \cup T)) < K
  BY DEF Trim
<1>3. \A i : /\ Ahead(i, S) \in SUBSET Ahead(i, S \cup T)
             /\ Ahead(i, TS \cup T) \in SUBSET Ahead(i, S \cup T)
             /\ Ahead(i, S \cup T) \in SUBSET Node
             /\ Ahead(i, TS \cup T) \in SUBSET Node
             /\ Ahead(i, S) \in SUBSET Node
  BY <1>2
<1>4. \A i : /\ Cardinality(Ahead(i, S)) <= Cardinality(Ahead(i, S \cup T))
             /\ Cardinality(Ahead(i, TS \cup T)) <= Cardinality(Ahead(i, S \cup T))
             /\ Cardinality(Ahead(i, S \cup T)) \in Nat
             /\ Cardinality(Ahead(i, TS \cup T)) \in Nat
             /\ Cardinality(Ahead(i, S)) \in Nat
  <2>. HIDE DEF Ahead, TS
  <2>. QED BY <1>3, SubsetsAreFinite
<1>5. ASSUME NEW i \in Trim(l, S \cup T) PROVE i \in Trim(l, TS \cup T)
  <2>. HIDE DEF Ahead, TS
  <2>1. i \in S \cup T /\ Cardinality(Ahead(i, S \cup T)) < K
    BY <1>2, <1>5
  <2>2. Cardinality(Ahead(i, S)) < K /\ Cardinality(Ahead(i, TS \cup T)) < K
    <3>1. /\ Cardinality(Ahead(i, S)) <= Cardinality(Ahead(i, S \cup T))
          /\ Cardinality(Ahead(i, TS \cup T)) <= Cardinality(Ahead(i, S \cup T))
          /\ Cardinality(Ahead(i, S \cup T)) \in Nat
          /\ Cardinality(Ahead(i, TS \cup T)) \in Nat
          /\ Cardinality(Ahead(i, S)) \in Nat
      BY <1>4
    <3>. QED BY <1>1, <2>1, <3>1
  <2>. QED BY <1>2, <2>1, <2>2
<1>6. ASSUME NEW i \in Trim(l, TS \cup T) PROVE i \in Trim(l, S \cup T)
  <2>. DEFINE X == {j \in S \ TS : Closer(l, j, i)}
              R == {r \in Node \X Node : Closer(l, r[1], r[2])}
  <2>1. i \in S \cup T /\ i \in Node
    BY <1>2, <1>6
  <2>2. CASE X = {}
    <3>1. Ahead(i, S \cup T) = Ahead(i, TS \cup T)
      BY <1>2, <2>2
    <3>. QED BY <1>2, <1>6, <2>1, <3>1
  <2>3. CASE X # {}
    <3>1. X \in SUBSET Node /\ IsFiniteSet(X)
      <4>1. X \in SUBSET Node
        OBVIOUS
      <4>. QED BY <4>1, SubsetsAreFinite
    <3>2. \A a, b \in Node : <<a, b>> \in R <=> Closer(l, a, b)
      OBVIOUS
    <3>3. /\ \A a \in X : <<a, a>> \notin R
          /\ \A a, b, c \in X : <<a, b>> \in R /\ <<b, c>> \in R => <<a, c>> \in R
      <4>. HIDE DEF R, X
      <4>. QED BY <3>1, <3>2, CloserIsTotal
    <3>4. PICK j \in X : \A k \in X : <<k, j>> \notin R
      <4>. HIDE DEF R, X
      <4>. QED BY <2>3, <3>1, <3>3, LeastExists
    <3>5. j \in S /\ j \notin TS /\ Closer(l, j, i) /\ j \in Node
      OBVIOUS
    <3>6. ~(Cardinality(Ahead(j, S)) < K)
      BY <1>2, <3>5
    <3>7. ASSUME NEW k \in Ahead(j, S) PROVE k \in Ahead(i, TS \cup T)
      <4>1. k \in S /\ k \in Node /\ Closer(l, k, j)
        BY <3>7
      <4>2. Closer(l, k, i)
        BY <2>1, <3>5, <4>1, CloserIsTotal
      <4>3. k \notin X
        BY <3>2, <3>4, <3>5, <4>1
      <4>4. k \in TS
        BY <4>1, <4>2, <4>3
      <4>. QED BY <4>2, <4>4
    <3>. HIDE DEF Ahead, TS, X
    <3>8. Cardinality(Ahead(j, S)) <= Cardinality(Ahead(i, TS \cup T))
      <4>1. Ahead(j, S) \in SUBSET Ahead(i, TS \cup T)
        BY <3>7
      <4>. QED BY <1>3, <4>1, SubsetsAreFinite
    <3>9. Cardinality(Ahead(i, TS \cup T)) < K
      BY <1>2, <1>6
    <3>10. /\ Cardinality(Ahead(j, S)) \in Nat
           /\ Cardinality(Ahead(i, TS \cup T)) \in Nat
      BY <1>4
    <3>. QED BY <1>1, <3>6, <3>8, <3>9, <3>10
  <2>. QED BY <2>2, <2>3
<1>. QED BY <1>5, <1>6

LEMMA TrimTypes ==
    ASSUME NEW l, NEW S \in SUBSET Node
    PROVE  Trim(l, S) \in SUBSET Node
BY DEF Trim

-----------------------------------------------------------------------------
SetupLabels == {"scan", "merge", "merged"}
Labels == BuildLabels \cup SetupLabels \cup {"draw", "drawn"}

Unscanned(l) == Members(l) \ 0 .. next - 1

(* All that can still become a candidate of label l.                       *)
Pool(l) ==
    global_top_k[l] \cup {i \in Node : \E t \in Thread : i \in local_top_k[t][l]}
        \cup Unscanned(l)

(* While the team looks for candidates, the best of the pool are the best  *)
(* of all members.                                                         *)
Selecting ==
    /\ \A t \in Thread : pc[t] \in SetupLabels
    /\ next \in 0 .. Cardinality(Node)
    /\ \A t \in Thread : /\ pc[t] # "scan" => next = Cardinality(Node)
                         /\ pc[t] = "merged" => local_top_k[t] = NoTop
    /\ \A l \in Label : Trim(l, Pool(l)) = Trim(l, Members(l))

Selected ==
    /\ \A t \in Thread : pc[t] \notin SetupLabels
    /\ \A l \in Label : global_top_k[l] = Trim(l, Members(l))

CandidatesInv ==
    /\ pc \in [Thread -> Labels]
    /\ local_top_k \in [Thread -> [Label -> SUBSET Node]]
    /\ global_top_k \in [Label -> SUBSET Node]
    /\ \A l \in Label : Trim(l, global_top_k[l]) = global_top_k[l]
    /\ Selecting \/ Selected

(* The pool is one thread's heap and the rest.                             *)
Others(t, l) == {i \in Node : \E u \in Thread \ {t} : i \in local_top_k[u][l]}

LEMMA PoolSplits ==
    ASSUME NEW t \in Thread, NEW l, local_top_k[t][l] \in SUBSET Node
    PROVE  Pool(l) = global_top_k[l] \cup local_top_k[t][l] \cup Others(t, l)
                         \cup Unscanned(l)
BY DEF Pool, Others

LEMMA NodeCount == Cardinality(Node) \in Nat /\ Node = 0 .. Cardinality(Node) - 1
BY DataAssumption, FS_CardinalityType, FilteredAssumption

LEMMA StartSelecting == FilteredInit => CandidatesInv
<1>. SUFFICES ASSUME FilteredInit PROVE CandidatesInv
  OBVIOUS
<1>1. /\ pc = [t \in Thread |-> "scan"] /\ next = 0
      /\ local_top_k = [t \in Thread |-> NoTop] /\ global_top_k = NoTop
  BY DEF FilteredInit
<1>2. \A l \in Label : Pool(l) = Members(l)
  <2>. TAKE l \in Label
  <2>1. /\ global_top_k[l] = {}
        /\ {i \in Node : \E t \in Thread : i \in local_top_k[t][l]} = {}
    BY <1>1 DEF NoTop
  <2>2. 0 .. next - 1 = {}
    BY <1>1
  <2>. QED BY <2>1, <2>2 DEF Pool, Unscanned
<1>3. \A l : Trim(l, {}) = {}
  BY DEF Trim
<1>4. Selecting
  BY <1>1, <1>2, NodeCount DEF Selecting, SetupLabels
<1>5. NoTop \in [Label -> SUBSET Node] /\ \A l \in Label : NoTop[l] = {}
  BY DEF NoTop
<1>. QED BY <1>1, <1>3, <1>4, <1>5 DEF CandidatesInv, Labels, SetupLabels

LEMMA ScanKeeps ==
    ASSUME CandidatesInv, NEW t \in Thread, Scan(t)
    PROVE  CandidatesInv'
<1>1. /\ pc[t] = "scan"
      /\ local_top_k' = [local_top_k EXCEPT ![t] =
             [l \in Label |-> Trim(l, local_top_k[t][l] \cup (Claimed \cap Members(l)))]]
      /\ next' = Upto
      /\ pc' = [pc EXCEPT ![t] = IF Claimed = {} THEN "merge" ELSE "scan"]
      /\ UNCHANGED global_top_k
  BY DEF Scan, Goto
<1>2. Selecting
  BY <1>1 DEF CandidatesInv, Selected, SetupLabels
<1>3. /\ next \in 0 .. Cardinality(Node) /\ Upto \in 0 .. Cardinality(Node)
      /\ next <= Upto
      /\ next = Cardinality(Node) => Upto = Cardinality(Node)
      /\ Claimed = {} => next = Cardinality(Node)
  <2>1. next \in 0 .. Cardinality(Node) /\ Chunk \in Nat \ {0} /\ Cardinality(Node) \in Nat
    BY <1>2, NodeCount, BuildAssumption DEF Selecting
  <2>2. Upto \in 0 .. Cardinality(Node) /\ next <= Upto
    BY <2>1 DEF Upto
  <2>3. next < Cardinality(Node) => next < Upto
    BY <2>1 DEF Upto
  <2>4. next < Upto => next \in Claimed
    BY <2>1, <2>2 DEF Claimed
  <2>5. next = Cardinality(Node) => Upto = Cardinality(Node)
    BY <2>1, <2>2
  <2>. QED BY <2>1, <2>2, <2>3, <2>4, <2>5
<1>4. /\ local_top_k' \in [Thread -> [Label -> SUBSET Node]]
      /\ \A l \in Label : local_top_k'[t][l] =
             Trim(l, local_top_k[t][l] \cup (Claimed \cap Members(l)))
      /\ \A u \in Thread \ {t} : local_top_k'[u] = local_top_k[u]
  <2>. DEFINE mine1 == [l \in Label |-> Trim(l, local_top_k[t][l] \cup (Claimed \cap Members(l)))]
  <2>1. ASSUME NEW l \in Label
        PROVE  Trim(l, local_top_k[t][l] \cup (Claimed \cap Members(l))) \in SUBSET Node
    <3>1. local_top_k[t][l] \cup (Claimed \cap Members(l)) \in SUBSET Node
      BY DEF CandidatesInv, Members
    <3>. QED BY <3>1, TrimTypes
  <2>2. mine1 \in [Label -> SUBSET Node]
    BY <2>1
  <2>3. \A l \in Label : mine1[l] = Trim(l, local_top_k[t][l] \cup (Claimed \cap Members(l)))
    OBVIOUS
  <2>4. local_top_k' = [local_top_k EXCEPT ![t] = mine1]
    BY <1>1
  <2>. HIDE DEF mine1
  <2>. QED BY <2>2, <2>3, <2>4 DEF CandidatesInv
<1>5. ASSUME NEW l \in Label PROVE Trim(l, Pool(l)') = Trim(l, Members(l))
  <2>. DEFINE S == local_top_k[t][l] \cup (Claimed \cap Members(l))
              T == global_top_k[l] \cup Others(t, l) \cup (Members(l) \ 0 .. Upto - 1)
  <2>1. S \in SUBSET Node /\ T \in SUBSET Node
    BY DEF CandidatesInv, Members, Others
  <2>2. Unscanned(l) = (Claimed \cap Members(l)) \cup (Members(l) \ 0 .. Upto - 1)
    <3>1. /\ \A i \in Int : i \in 0 .. next - 1 => i \in 0 .. Upto - 1
          /\ \A i \in Int : i \in Claimed <=> i \in 0 .. Upto - 1 /\ i \notin 0 .. next - 1
      BY <1>3, NodeCount DEF Claimed
    <3>2. \A i \in Members(l) : i \in Int
      BY NodeCount DEF Members
    <3>. QED BY <3>1, <3>2 DEF Unscanned
  <2>3. Pool(l) = S \cup T
    <3>1. local_top_k[t][l] \in SUBSET Node
      BY DEF CandidatesInv
    <3>. QED BY <2>2, <3>1, PoolSplits
  <2>4. Others(t, l)' = Others(t, l)
    BY <1>4 DEF Others
  <2>5. Pool(l)' = global_top_k'[l] \cup local_top_k'[t][l] \cup Others(t, l)'
                       \cup Unscanned(l)'
    <3>1. local_top_k'[t][l] \in SUBSET Node
      BY <1>4
    <3>. QED BY <3>1 DEF Pool, Others
  <2>6. Unscanned(l)' = Members(l) \ 0 .. Upto - 1
    BY <1>1 DEF Unscanned, Members
  <2>7. Pool(l)' = Trim(l, S) \cup T
    BY <1>1, <1>4, <2>4, <2>5, <2>6
  <2>8. Trim(l, Trim(l, S) \cup T) = Trim(l, S \cup T)
    <3>. HIDE DEF S, T
    <3>. QED BY ONLY <2>1, TrimEarly, l \in Label
  <2>. QED BY <1>2, <2>3, <2>7, <2>8 DEF Selecting
<1>6. Selecting'
  <2>1. \A u \in Thread : pc'[u] \in SetupLabels
    BY <1>1, <1>2 DEF Selecting, SetupLabels, CandidatesInv
  <2>2. ASSUME NEW u \in Thread
        PROVE  /\ pc'[u] # "scan" => next' = Cardinality(Node)
               /\ pc'[u] = "merged" => local_top_k'[u] = NoTop
    <3>1. CASE u = t
      BY <1>1, <1>3, <3>1 DEF CandidatesInv
    <3>2. CASE u # t
      BY <1>1, <1>2, <1>3, <1>4, <3>2 DEF CandidatesInv, Selecting
    <3>. QED BY <3>1, <3>2
  <2>3. next' \in 0 .. Cardinality(Node)
    BY <1>1, <1>3
  <2>. QED BY <1>5, <2>1, <2>2, <2>3 DEF Selecting, NoTop, Members, Trim, Closer, PairLess
<1>7. pc' \in [Thread -> Labels]
  BY <1>1 DEF CandidatesInv, Labels, SetupLabels
<1>. QED BY <1>1, <1>4, <1>6, <1>7 DEF CandidatesInv

LEMMA MergeKeeps ==
    ASSUME CandidatesInv, NEW t \in Thread, Merge(t)
    PROVE  CandidatesInv'
<1>1. /\ pc[t] = "merge" /\ \A u \in Thread : pc[u] # "scan"
      /\ global_top_k' = [l \in Label |-> Trim(l, global_top_k[l] \cup local_top_k[t][l])]
      /\ local_top_k' = [local_top_k EXCEPT ![t] = NoTop]
      /\ pc' = [pc EXCEPT ![t] = "merged"]
      /\ UNCHANGED next
  BY DEF Merge, Merged, Goto
<1>2. Selecting
  BY <1>1 DEF CandidatesInv, Selected, SetupLabels
<1>3. /\ NoTop \in [Label -> SUBSET Node] /\ \A l \in Label : NoTop[l] = {}
      /\ local_top_k' \in [Thread -> [Label -> SUBSET Node]]
      /\ local_top_k'[t] = NoTop
      /\ \A u \in Thread \ {t} : local_top_k'[u] = local_top_k[u]
  <2>1. NoTop \in [Label -> SUBSET Node] /\ \A l \in Label : NoTop[l] = {}
    BY DEF NoTop
  <2>. QED BY <1>1, <2>1 DEF CandidatesInv
<1>4. ASSUME NEW l \in Label
      PROVE  /\ global_top_k'[l] \in SUBSET Node
             /\ Trim(l, global_top_k'[l]) = global_top_k'[l]
             /\ Trim(l, Pool(l)') = Trim(l, Members(l))
  <2>. DEFINE S == global_top_k[l] \cup local_top_k[t][l]
              T == Others(t, l) \cup Unscanned(l)
  <2>1. S \in SUBSET Node /\ T \in SUBSET Node /\ local_top_k[t][l] \in SUBSET Node
    BY DEF CandidatesInv, Members, Others, Unscanned
  <2>2. global_top_k'[l] = Trim(l, S)
    BY <1>1
  <2>3. Pool(l) = S \cup T
    BY <2>1, PoolSplits
  <2>4. Others(t, l)' = Others(t, l) /\ Unscanned(l)' = Unscanned(l)
    BY <1>1, <1>3 DEF Others, Unscanned, Members
  <2>5. Pool(l)' = global_top_k'[l] \cup local_top_k'[t][l] \cup Others(t, l)'
                       \cup Unscanned(l)'
    <3>1. local_top_k'[t][l] \in SUBSET Node
      BY <1>3
    <3>. QED BY <3>1 DEF Pool, Others
  <2>6. Pool(l)' = Trim(l, S) \cup T
    BY <1>3, <2>2, <2>4, <2>5
  <2>. HIDE DEF S, T
  <2>7. Trim(l, Trim(l, S) \cup T) = Trim(l, S \cup T)
    BY <2>1, TrimEarly
  <2>8. Trim(l, Trim(l, S) \cup {}) = Trim(l, S \cup {})
    <3>1. {} \in SUBSET Node
      OBVIOUS
    <3>. QED BY <2>1, <3>1, TrimEarly
  <2>9. Trim(l, S) \cup {} = Trim(l, S) /\ S \cup {} = S
    OBVIOUS
  <2>10. Trim(l, S) \in SUBSET Node
    BY <2>1, TrimTypes
  <2>. QED BY <1>2, <2>2, <2>3, <2>6, <2>7, <2>8, <2>9, <2>10 DEF Selecting
<1>5. Selecting'
  <2>1. \A u \in Thread : pc'[u] \in SetupLabels
    BY <1>1, <1>2 DEF Selecting, SetupLabels, CandidatesInv
  <2>2. next' \in 0 .. Cardinality(Node) /\ next' = Cardinality(Node)
    BY <1>1, <1>2 DEF Selecting
  <2>3. \A u \in Thread : pc'[u] = "merged" => local_top_k'[u] = NoTop
    BY <1>1, <1>2, <1>3 DEF Selecting, CandidatesInv
  <2>. QED BY <1>4, <2>1, <2>2, <2>3 DEF Selecting, NoTop, Members, Trim, Closer, PairLess
<1>6. pc' \in [Thread -> Labels]
  BY <1>1 DEF CandidatesInv, Labels, SetupLabels
<1>7. global_top_k' \in [Label -> SUBSET Node]
  BY <1>1, <1>4
<1>8. \A l \in Label : (Trim(l, global_top_k[l]) = global_top_k[l])'
  BY <1>4 DEF Trim, Closer, PairLess
<1>. QED BY <1>3, <1>5, <1>6, <1>7, <1>8 DEF CandidatesInv

(* Nothing is left in the pool but the merged candidates.                  *)
LEMMA PoolIsMerged ==
    ASSUME CandidatesInv, \A t \in Thread : pc[t] = "merged", NEW l \in Label
    PROVE  global_top_k[l] = Trim(l, Members(l))
<1>1. PICK t \in Thread : TRUE
  BY FilteredAssumption
<1>2. Selecting
  BY <1>1 DEF CandidatesInv, Selected, SetupLabels
<1>3. next = Cardinality(Node) /\ \A u \in Thread : local_top_k[u] = NoTop
  BY <1>1, <1>2 DEF Selecting
<1>4. Unscanned(l) = {}
  BY <1>3, NodeCount DEF Unscanned, Members
<1>5. {i \in Node : \E u \in Thread : i \in local_top_k[u][l]} = {}
  BY <1>3 DEF NoTop
<1>6. Pool(l) = global_top_k[l]
  BY <1>4, <1>5 DEF Pool
<1>. QED BY <1>2, <1>6 DEF CandidatesInv, Selecting

LEMMA NothingChanges ==
    ASSUME CandidatesInv, UNCHANGED <<pc, next, local_top_k, global_top_k>>
    PROVE  CandidatesInv'
<1>1. \A l : Pool(l)' = Pool(l) /\ Members(l)' = Members(l)
  BY DEF Pool, Unscanned, Members
<1>2. \A l, S : Trim(l, S)' = Trim(l, S)
  BY DEF Trim, Closer, PairLess
<1>3. Selecting => Selecting'
  BY <1>1 DEF Selecting, NoTop, Trim, Closer, PairLess
<1>4. Selected => Selected'
  BY DEF Selected, Members, Trim, Closer, PairLess
<1>. QED BY <1>3, <1>4 DEF CandidatesInv, Trim, Closer, PairLess

LEMMA TeamKeeps ==
    ASSUME CandidatesInv, PickMedoid \/ StartBuild
    PROVE  CandidatesInv'
<1>1. ASSUME NEW to \in {"draw", "claim"}, pc' = [t \in Thread |-> to],
             UNCHANGED <<local_top_k, global_top_k>>,
             \A l \in Label : global_top_k[l] = Trim(l, Members(l))
      PROVE  CandidatesInv'
  <2>1. Selected'
    BY <1>1 DEF Selected, SetupLabels, Members, Trim, Closer, PairLess
  <2>2. pc' \in [Thread -> Labels]
    BY <1>1 DEF Labels, BuildLabels
  <2>. QED BY <1>1, <2>1, <2>2 DEF CandidatesInv, Trim, Closer, PairLess
<1>2. CASE PickMedoid /\ labels # <<>>
  <2>1. UNCHANGED <<pc, next, local_top_k, global_top_k>>
    BY <1>2 DEF PickMedoid
  <2>. QED BY <2>1, NothingChanges
<1>3. CASE PickMedoid /\ labels = <<>>
  <2>1. /\ \A t \in Thread : pc[t] = "merged"
        /\ pc' = [t \in Thread |-> "draw"]
        /\ UNCHANGED <<local_top_k, global_top_k>>
    BY <1>3 DEF PickMedoid
  <2>. QED BY <1>1, <2>1, PoolIsMerged
<1>4. CASE StartBuild
  <2>1. /\ \A t \in Thread : pc[t] = "drawn"
        /\ pc' = [t \in Thread |-> "claim"]
        /\ UNCHANGED <<local_top_k, global_top_k>>
    BY <1>4 DEF StartBuild, setupVars
  <2>2. Selected
    BY <2>1, FilteredAssumption DEF CandidatesInv, Selecting, SetupLabels
  <2>. QED BY <1>1, <2>1, <2>2 DEF Selected
<1>. QED BY <1>2, <1>3, <1>4

(* What comes after the selection leaves the candidates alone.             *)
LEMMA AfterwardsKeeps ==
    ASSUME CandidatesInv, NEW t \in Thread, pc[t] \notin SetupLabels,
           NEW to \in Labels \ SetupLabels, pc' = [pc EXCEPT ![t] = to],
           UNCHANGED <<local_top_k, global_top_k>>
    PROVE  CandidatesInv'
<1>1. Selected
  BY DEF CandidatesInv, Selecting
<1>2. Selected'
  BY <1>1 DEF Selected, CandidatesInv, Members, Trim, Closer, PairLess
<1>3. pc' \in [Thread -> Labels]
  BY DEF CandidatesInv
<1>. QED BY <1>2, <1>3 DEF CandidatesInv, Trim, Closer, PairLess

LEMMA WorkMoves ==
    ASSUME pc \in [Thread -> Labels], NEW t \in Thread, Work(t)
    PROVE  /\ pc[t] \notin SetupLabels
           /\ \E to \in Labels \ SetupLabels : pc' = [pc EXCEPT ![t] = to]
<1>1. CASE Claim(t)
  BY <1>1 DEF Claim, Goto, Labels, BuildLabels, SetupLabels
<1>2. CASE Insert(t)
  BY <1>2 DEF Insert, Goto, Labels, BuildLabels, SetupLabels
<1>3. CASE Ask(t)
  BY <1>3 DEF Ask, Goto, Labels, BuildLabels, SetupLabels
<1>4. CASE Step(t)
  <2>1. pc' = [pc EXCEPT ![t] = pc[t]] /\ pc[t] \in {"search", "query"}
    BY <1>4 DEF Step, teamVars
  <2>. QED BY <2>1 DEF Labels, BuildLabels, SetupLabels
<1>5. CASE Collect(t)
  BY <1>5 DEF Collect, Goto, Labels, BuildLabels, SetupLabels
<1>6. CASE LockOwn(t)
  BY <1>6 DEF LockOwn, Goto, Labels, BuildLabels, SetupLabels
<1>7. CASE Link(t)
  <2>1. /\ pc[t] = "link"
        /\ pc' = [pc EXCEPT ![t] = "store"] \/ pc' = pc
    BY <1>7 DEF Link, Goto
  <2>2. pc' = [pc EXCEPT ![t] = "store"] \/ pc' = [pc EXCEPT ![t] = "link"]
    BY <2>1
  <2>. QED BY <2>1, <2>2 DEF Labels, BuildLabels, SetupLabels
<1>8. CASE StoreSlot(t) \/ StoreCount(t)
  <2>1. pc[t] = "store" /\ pc' = [pc EXCEPT ![t] = "store"]
    BY <1>8 DEF StoreSlot, StoreCount
  <2>. QED BY <2>1 DEF Labels, BuildLabels, SetupLabels
<1>9. CASE Unlock(t)
  BY <1>9 DEF Unlock, Goto, Labels, BuildLabels, SetupLabels
<1>10. CASE Inserted(t)
  BY <1>10 DEF Inserted, AfterInsert, Goto, Labels, BuildLabels, SetupLabels
<1>11. CASE Serve(t)
  BY <1>11 DEF Serve, Goto, Labels, BuildLabels, SetupLabels
<1>12. CASE Answer(t)
  BY <1>12 DEF Answer, Goto, Labels, BuildLabels, SetupLabels
<1>13. CASE NoStart(t)
  BY <1>13 DEF NoStart, Wanted, Goto, Labels, BuildLabels, SetupLabels
<1>. QED BY <1>1, <1>2, <1>3, <1>4, <1>5, <1>6, <1>7, <1>8, <1>9, <1>10, <1>11, <1>12,
            <1>13 DEF Work

LEMMA CandidatesKept ==
    ASSUME CandidatesInv, [FilteredNext]_indexVars
    PROVE  CandidatesInv'
<1>1. CASE UNCHANGED indexVars
  BY <1>1, NothingChanges DEF indexVars, buildVars, teamVars, setupVars
<1>2. CASE PickMedoid \/ StartBuild
  BY <1>2, TeamKeeps
<1>3. CASE Barrier /\ UNCHANGED setupVars
  <2>1. /\ \A t \in Thread : pc[t] = "barrier"
        /\ UNCHANGED <<local_top_k, global_top_k>>
        /\ \E to \in {"claim", "serve"} : pc' = [t \in Thread |-> to]
    BY <1>3 DEF Barrier, setupVars
  <2>2. Selected
    BY <2>1, FilteredAssumption DEF CandidatesInv, Selecting, SetupLabels
  <2>3. Selected'
    BY <2>1, <2>2 DEF Selected, SetupLabels, Members, Trim, Closer, PairLess
  <2>4. pc' \in [Thread -> Labels]
    BY <2>1 DEF Labels, BuildLabels
  <2>. QED BY <2>1, <2>3, <2>4 DEF CandidatesInv, Trim, Closer, PairLess
<1>4. ASSUME NEW t \in Thread, Draw(t) PROVE CandidatesInv'
  <2>1. /\ pc[t] = "draw"
        /\ pc' = [pc EXCEPT ![t] = "drawn"] \/ pc' = pc
        /\ UNCHANGED <<local_top_k, global_top_k>>
    BY <1>4 DEF Draw, Goto, setupVars
  <2>2. pc' = [pc EXCEPT ![t] = "drawn"] \/ pc' = [pc EXCEPT ![t] = "draw"]
    BY <2>1 DEF CandidatesInv
  <2>. QED BY <2>1, <2>2, AfterwardsKeeps DEF Labels, SetupLabels
<1>5. ASSUME NEW t \in Thread, Work(t) /\ UNCHANGED setupVars PROVE CandidatesInv'
  BY <1>5, WorkMoves, AfterwardsKeeps DEF CandidatesInv, setupVars
<1>. QED BY <1>1, <1>2, <1>3, <1>4, <1>5, ScanKeeps, MergeKeeps
         DEF FilteredNext, TeamStep, ThreadStep

(* When the merging is over, a label's candidates are its K nodes nearest  *)
(* to the centroid, whichever thread scanned which nodes.                  *)
THEOREM CandidatesAreExact == FilteredSpec => []CandidatesExact
<1>1. FilteredSpec => FilteredInit /\ [][FilteredNext]_indexVars
  BY PTL DEF FilteredSpec
<1>2. CandidatesInv => CandidatesExact
  <2>. SUFFICES ASSUME CandidatesInv, NEW l \in Label,
                       \A t \in Thread : pc[t] \notin {"scan", "merge"}
                PROVE  global_top_k[l] = Trim(l, Members(l))
    BY DEF CandidatesExact
  <2>1. CASE Selecting
    BY <2>1, PoolIsMerged DEF Selecting, SetupLabels
  <2>2. CASE Selected
    BY <2>2 DEF Selected
  <2>. QED BY <2>1, <2>2 DEF CandidatesInv
<1>. QED BY <1>1, <1>2, StartSelecting, CandidatesKept, PTL


-----------------------------------------------------------------------------
(* Sorting enumerates a set: every member once, and nothing else.          *)
Enumerates(s, S) ==
    /\ s \in Seq(S) /\ Len(s) = Cardinality(S) /\ DOMAIN s = 1 .. Cardinality(S)
    /\ IsInjective(s) /\ ToSet(s) = S

LEMMA SortedEnumerates ==
    ASSUME NEW S, IsFiniteSet(S), NEW less,
           \A a \in S : <<a, a>> \notin less,
           \A a, b, c \in S : <<a, b>> \in less /\ <<b, c>> \in less => <<a, c>> \in less,
           \A a, b \in S : a # b => <<a, b>> \in less \/ <<b, a>> \in less
    PROVE  Enumerates(Sorted(S, less), S)
<1>. DEFINE n == Cardinality(S)
            Right(s) == \A i, j \in DOMAIN s : i < j => <<s[i], s[j]>> \in less
<1>1. n \in Nat
  BY FS_CardinalityType
<1>2. PICK r \in [1 .. n -> S] : \A i, j \in 1 .. n : i < j => <<r[i], r[j]>> \in less
  BY SortExists
<1>3. r \in SetToSeqs(S) /\ Right(r)
  <2>1. ASSUME NEW i \in 1 .. n, NEW j \in 1 .. n, i # j PROVE r[i] # r[j]
    <3>1. i < j \/ j < i
      BY <1>1, <2>1
    <3>2. <<r[i], r[j]>> \in less \/ <<r[j], r[i]>> \in less
      BY <1>2, <3>1
    <3>. QED BY <1>2, <3>2
  <2>2. DOMAIN r = 1 .. n
    BY <1>2
  <2>. HIDE DEF n
  <2>3. Right(r)
    BY <1>2, <2>2
  <2>4. r \in SetToSeqs(S)
    BY <1>2, <2>1 DEF SetToSeqs, n
  <2>. QED BY <2>3, <2>4
<1>. DEFINE s == Sorted(S, less)
<1>4. s \in SetToSeqs(S)
  <2>. HIDE DEF Right
  <2>1. \E q \in SetToSeqs(S) : Right(q)
    BY <1>3
  <2>2. s = CHOOSE q \in SetToSeqs(S) : Right(q)
    BY DEF Sorted, Right
  <2>. HIDE DEF s
  <2>. QED BY <2>1, <2>2
<1>. HIDE DEF s
<1>5. /\ s \in [1 .. n -> S]
      /\ \A i, j \in 1 .. n : i # j => s[i] # s[j]
  BY <1>4 DEF SetToSeqs
<1>6. s \in Seq(S) /\ Len(s) = n /\ DOMAIN s = 1 .. n
  BY <1>1, <1>5
<1>7. IsInjective(s)
  BY <1>5, <1>6 DEF IsInjective
<1>8. ToSet(s) = S
  <2>1. s \in Injection(1 .. n, S)
    BY <1>5, <1>7 DEF Injection
  <2>2. Cardinality(1 .. n) = Cardinality(S)
    <3>1. Cardinality(1 .. n) = IF 1 > n THEN 0 ELSE n - 1 + 1
      BY <1>1, FS_Interval
    <3>. QED BY <1>1, <3>1 DEF n
  <2>3. s \in Surjection(1 .. n, S)
    BY <2>1, <2>2, FS_Injection
  <2>. QED BY <1>5, <1>6, <2>3 DEF Surjection, ToSet
<1>. QED BY <1>6, <1>7, <1>8 DEF Enumerates, n, s

(* The labels of a node, or all labels, in ascending order.                *)
LEMMA AscendingEnumerates ==
    ASSUME NEW S \in SUBSET Label
    PROVE  Enumerates(Ascending(S), S)
<1>1. IsFiniteSet(S) /\ \A a \in S : a \in Nat
  BY LabelAssumption, FS_Subset
<1>. DEFINE less == {e \in S \X S : e[1] < e[2]}
<1>2. /\ \A a \in S : <<a, a>> \notin less
      /\ \A a, b, c \in S : <<a, b>> \in less /\ <<b, c>> \in less => <<a, c>> \in less
      /\ \A a, b \in S : a # b => <<a, b>> \in less \/ <<b, a>> \in less
  BY <1>1
<1>3. Ascending(S) = Sorted(S, less)
  BY DEF Ascending
<1>. HIDE DEF less
<1>. QED BY <1>1, <1>2, <1>3, SortedEnumerates

(* The candidates of a node in the order of their distance.                *)
LEMMA CandidatesEnumerate ==
    ASSUME NEW p \in Node, NEW C \in SUBSET Node
    PROVE  Enumerates(Sorted(C, {e \in C \X C : PairLess([of |-> p], e[1], e[2])}), C)
<1>. DEFINE less == {e \in C \X C : PairLess([of |-> p], e[1], e[2])}
<1>1. IsFiniteSet(C)
  BY DataAssumption, FS_Subset
<1>2. \A a \in C : a \in Int /\ Apart(p, a) \in Nat
  <2>1. \A a \in 0 .. Cardinality(Node) - 1 : a \in Int
    BY NodeCount
  <2>. QED BY <2>1, NodeCount, FilteredAssumption
<1>3. \A a, b \in C : <<a, b>> \in less <=>
          \/ Apart(p, a) < Apart(p, b)
          \/ Apart(p, a) = Apart(p, b) /\ a < b
  BY DEF PairLess
<1>. HIDE DEF less
<1>4. /\ \A a \in C : <<a, a>> \notin less
      /\ \A a, b, c \in C : <<a, b>> \in less /\ <<b, c>> \in less => <<a, c>> \in less
      /\ \A a, b \in C : a # b => <<a, b>> \in less \/ <<b, a>> \in less
  BY <1>2, <1>3
<1>5. Enumerates(Sorted(C, less), C)
  BY <1>1, <1>4, SortedEnumerates
<1>. QED BY <1>5 DEF less

-----------------------------------------------------------------------------
(* A heap trimmed to K holds no more than K, and something if it had any.  *)
LEMMA TrimBounds ==
    ASSUME NEW l \in Label, NEW S \in SUBSET Node
    PROVE  /\ Trim(l, S) \subseteq S
           /\ Cardinality(Trim(l, S)) <= K
           /\ S # {} => Trim(l, S) # {}
<1>. DEFINE V == Trim(l, S)
            Ahead(i) == {j \in S : Closer(l, j, i)}
            Up == {e \in Node \X Node : Closer(l, e[1], e[2])}
            Down == {e \in Node \X Node : Closer(l, e[2], e[1])}
<1>1. K \in Nat \ {0} /\ \A i, j \in Node : i # j => Closer(l, i, j) \/ Closer(l, j, i)
  <2>1. \A a \in Node : a \in Int /\ Apart(Centroid(l), a) \in Nat
    <3>1. \A a \in 0 .. Cardinality(Node) - 1 : a \in Int
      BY NodeCount
    <3>. QED BY <3>1, NodeCount, FilteredAssumption
  <2>2. \A a, b \in Node : Closer(l, a, b) <=>
            \/ Apart(Centroid(l), a) < Apart(Centroid(l), b)
            \/ Apart(Centroid(l), a) = Apart(Centroid(l), b) /\ a < b
    BY DEF Closer, PairLess
  <2>3. \A i, j \in Node : i # j => Closer(l, i, j) \/ Closer(l, j, i)
    BY <2>1, <2>2
  <2>. QED BY <2>3, FilteredAssumption
<1>2. /\ \A a, b \in Node : <<a, b>> \in Up <=> Closer(l, a, b)
      /\ \A a, b \in Node : <<a, b>> \in Down <=> Closer(l, b, a)
  OBVIOUS
<1>3. /\ \A a \in Node : <<a, a>> \notin Up /\ <<a, a>> \notin Down
      /\ \A a, b, c \in Node : <<a, b>> \in Up /\ <<b, c>> \in Up => <<a, c>> \in Up
      /\ \A a, b, c \in Node : <<a, b>> \in Down /\ <<b, c>> \in Down => <<a, c>> \in Down
  <2>. HIDE DEF Up, Down
  <2>. QED BY <1>2, CloserIsTotal
<1>4. V \in SUBSET S /\ \A i : i \in V <=> i \in S /\ Cardinality(Ahead(i)) < K
  BY DEF Trim
<1>5. IsFiniteSet(S) /\ IsFiniteSet(V) /\ Cardinality(V) \in Nat
  <2>. HIDE DEF V
  <2>1. V \in SUBSET Node
    BY <1>4
  <2>. QED BY <2>1, SubsetsAreFinite
<1>6. Cardinality(V) <= K
  <2>1. CASE V = {}
    BY <1>1, <2>1, FS_EmptySet
  <2>2. CASE V # {}
    <3>1. PICK m \in V : \A b \in V : <<b, m>> \notin Down
      <4>. HIDE DEF V, Down
      <4>. QED BY <1>3, <1>4, <1>5, <2>2, LeastExists
    <3>2. ASSUME NEW b \in V \ {m} PROVE b \in Ahead(m)
      <4>1. b \in Node /\ m \in Node /\ b # m /\ b \in S
        BY <1>4
      <4>2. Closer(l, b, m)
        BY <1>1, <1>2, <3>1, <4>1
      <4>. QED BY <4>1, <4>2
    <3>3. /\ V \ {m} \in SUBSET Ahead(m) /\ Ahead(m) \in SUBSET Node
          /\ Cardinality(Ahead(m)) < K
      <4>1. Ahead(m) \in SUBSET Node
        OBVIOUS
      <4>. HIDE DEF Ahead, V
      <4>. QED BY <1>4, <3>2, <4>1
    <3>4. Cardinality(V \ {m}) = Cardinality(V) - 1
      <4>. HIDE DEF V
      <4>. QED BY <1>5, FS_RemoveElement
    <3>. HIDE DEF Ahead, V
    <3>5. Cardinality(V \ {m}) <= Cardinality(Ahead(m)) /\ Cardinality(Ahead(m)) \in Nat
      BY <3>3, SubsetsAreFinite
    <3>. QED BY <1>1, <1>5, <3>3, <3>4, <3>5
  <2>. QED BY <2>1, <2>2
<1>7. ASSUME S # {} PROVE V # {}
  <2>1. PICK m \in S : \A b \in S : <<b, m>> \notin Up
    <3>. HIDE DEF V, Up
    <3>. QED BY <1>3, <1>5, <1>7, LeastExists
  <2>2. Ahead(m) = {}
    BY <1>2, <2>1
  <2>3. Cardinality(Ahead(m)) = 0
    BY <2>2, FS_EmptySet
  <2>. HIDE DEF V, Ahead
  <2>. QED BY <1>1, <1>4, <2>1, <2>3
<1>. QED BY <1>4, <1>6, <1>7

(* The serial loop finds a medoid among the candidates, if there are any.  *)
LEMMA PickPicks ==
    ASSUME NEW l \in Label, global_top_k \in [Label -> SUBSET Node],
           usage \in [Node -> Nat], global_top_k[l] # {}
    PROVE  Pick(l) \in global_top_k[l]
<1>. DEFINE G == global_top_k[l]
            U == {e \in Node \X Node : usage[e[1]] < usage[e[2]]}
            Up == {e \in Node \X Node : Closer(l, e[1], e[2])}
            idle == {i \in G : \A j \in G : usage[i] <= usage[j]}
<1>1. G \in SUBSET Node /\ IsFiniteSet(G)
  BY SubsetsAreFinite
<1>2. /\ \A a, b \in Node : <<a, b>> \in U <=> usage[a] < usage[b]
      /\ \A a, b \in Node : <<a, b>> \in Up <=> Closer(l, a, b)
  OBVIOUS
<1>. HIDE DEF G, U, Up
<1>3. PICK m \in G : \A b \in G : <<b, m>> \notin U
  <2>1. G # {}
    BY DEF G
  <2>2. /\ \A a \in G : <<a, a>> \notin U
        /\ \A a, b, c \in G : <<a, b>> \in U /\ <<b, c>> \in U => <<a, c>> \in U
    BY <1>1, <1>2
  <2>. QED BY <1>1, <2>1, <2>2, LeastExists
<1>4. m \in idle
  <2>1. \A b \in G : usage[m] \in Nat /\ usage[b] \in Nat /\ ~(usage[b] < usage[m])
    BY <1>1, <1>2, <1>3
  <2>2. \A b \in G : usage[m] <= usage[b]
    BY <2>1
  <2>. QED BY <2>2
<1>5. idle \in SUBSET G /\ IsFiniteSet(idle)
  <2>1. idle \in SUBSET G
    OBVIOUS
  <2>. HIDE DEF idle
  <2>. QED BY <1>1, <2>1, FS_Subset
<1>6. Pick(l) = CHOOSE i \in idle : \A j \in idle : ~Closer(l, j, i)
  BY DEF Pick, G
<1>. HIDE DEF idle
<1>7. \E i \in idle : \A j \in idle : <<j, i>> \notin Up
  <2>1. /\ \A a \in idle : <<a, a>> \notin Up
        /\ \A a, b, c \in idle : <<a, b>> \in Up /\ <<b, c>> \in Up => <<a, c>> \in Up
    BY <1>1, <1>2, <1>5, CloserIsTotal
  <2>. QED BY <1>4, <1>5, <2>1, LeastExists
<1>8. \E i \in idle : \A j \in idle : ~Closer(l, j, i)
  BY <1>1, <1>2, <1>5, <1>7
<1>9. Pick(l) \in idle
  BY <1>6, <1>8
<1>. QED BY <1>5, <1>9 DEF G

-----------------------------------------------------------------------------
(* Filtered_robust_prune: what the sweep over the sorted candidates has    *)
(* after it has considered those in D.                                     *)
Sweeps(p) == [kept : Seq(Node), over : Seq(Node), used : [Bitmap[p] -> Nat]]

Unswept(p) == [kept |-> <<>>, over |-> <<>>, used |-> [l \in Bitmap[p] |-> 0]]

Sweep(p, k, s) == FoldLeft(LAMBDA acc, c : Consider(p, k, acc, c), Unswept(p), s)

Swept(p, acc, D) ==
    /\ acc \in Sweeps(p)
    /\ \A d \in ToSet(acc.kept) \cup ToSet(acc.over) : d \in D /\ FilteredRelated(p, d)
    /\ IsInjective(acc.kept) /\ IsInjective(acc.over)
    /\ ToSet(acc.kept) \cap ToSet(acc.over) = {}
    /\ Len(acc.kept) <= MaxDegree
    /\ (\E d \in D : FilteredRelated(p, d)) => ToSet(acc.kept) \cup ToSet(acc.over) # {}

(* The three things that can happen to a candidate.                        *)
Considered(p, acc, c, to) ==
    \/ /\ to.kept = acc.kept /\ to.over = acc.over
       /\ \/ Len(acc.kept) = MaxDegree \/ ~FilteredRelated(p, c)
          \/ ToSet(acc.kept) # {}
    \/ /\ FilteredRelated(p, c)
       /\ to.kept = acc.kept /\ to.over = Append(acc.over, c)
    \/ /\ FilteredRelated(p, c) /\ Len(acc.kept) # MaxDegree
       /\ to.kept = Append(acc.kept, c) /\ to.over = acc.over

LEMMA ConsiderCases ==
    ASSUME NEW p \in Node, NEW k, NEW acc \in Sweeps(p), NEW c \in Node,
           NEW to, to = Consider(p, k, acc, c)
    PROVE  to \in Sweeps(p) /\ Considered(p, acc, c, to)
<1>. DEFINE shared == Bitmap[c] \cap Bitmap[p]
            covered == \E v \in ToSet(acc.kept) : shared \subseteq Bitmap[v] /\ Near(p, v, c, k)
            open == {l \in shared : acc.used[l] < Quota(p)[l]}
            u == [l \in Bitmap[p] |-> acc.used[l] + IF l \in shared THEN 1 ELSE 0]
<1>1. to = IF Len(acc.kept) = MaxDegree \/ shared = {} \/ covered THEN acc
           ELSE IF open = {} THEN [acc EXCEPT !.over = Append(acc.over, c)]
           ELSE [acc EXCEPT !.kept = Append(acc.kept, c), !.used = u]
  BY DEF Consider
<1>2. shared = {} <=> ~FilteredRelated(p, c)
  BY DEF FilteredRelated
<1>3. covered => ToSet(acc.kept) # {}
  OBVIOUS
<1>4. u \in [Bitmap[p] -> Nat]
  BY DEF Sweeps
<1>5. Append(acc.kept, c) \in Seq(Node) /\ Append(acc.over, c) \in Seq(Node)
  BY DEF Sweeps
<1>. HIDE DEF shared, covered, open, u
<1>6. CASE Len(acc.kept) = MaxDegree \/ shared = {} \/ covered
  BY <1>1, <1>2, <1>3, <1>6 DEF Considered
<1>7. CASE ~(Len(acc.kept) = MaxDegree \/ shared = {} \/ covered) /\ open = {}
  BY <1>1, <1>2, <1>5, <1>7 DEF Sweeps, Considered
<1>8. CASE ~(Len(acc.kept) = MaxDegree \/ shared = {} \/ covered) /\ open # {}
  BY <1>1, <1>2, <1>4, <1>5, <1>8 DEF Sweeps, Considered
<1>. QED BY <1>6, <1>7, <1>8

LEMMA ConsiderKeeps ==
    ASSUME NEW p \in Node, NEW k, NEW acc, NEW D \in SUBSET Node,
           Swept(p, acc, D), NEW c \in Node, c \notin D,
           NEW to, to = Consider(p, k, acc, c)
    PROVE  Swept(p, to, D \cup {c})
<1>1. /\ acc \in Sweeps(p) /\ acc.kept \in Seq(Node) /\ acc.over \in Seq(Node)
      /\ MaxDegree \in Nat \ {0} /\ Len(acc.kept) \in Nat
  BY DataAssumption DEF Swept, Sweeps
<1>2. c \notin ToSet(acc.kept) /\ c \notin ToSet(acc.over)
  BY DEF Swept
<1>3. /\ \A d \in ToSet(acc.kept) \cup ToSet(acc.over) : d \in D /\ FilteredRelated(p, d)
      /\ IsInjective(acc.kept) /\ IsInjective(acc.over)
      /\ ToSet(acc.kept) \cap ToSet(acc.over) = {}
      /\ Len(acc.kept) <= MaxDegree
      /\ (\E d \in D : FilteredRelated(p, d)) => ToSet(acc.kept) \cup ToSet(acc.over) # {}
  BY DEF Swept
<1>4. to \in Sweeps(p) /\ Considered(p, acc, c, to)
  <2>1. PICK a \in Sweeps(p) : a = acc
    BY <1>1
  <2>2. to = Consider(p, k, a, c)
    BY <2>1
  <2>3. to \in Sweeps(p)
    BY ONLY <2>2, ConsiderCases, p \in Node, a \in Sweeps(p), c \in Node
  <2>4. Considered(p, a, c, to)
    BY ONLY <2>2, ConsiderCases, p \in Node, a \in Sweeps(p), c \in Node
  <2>. QED BY <2>1, <2>3, <2>4
<1>5. CASE /\ to.kept = acc.kept /\ to.over = acc.over
           /\ \/ Len(acc.kept) = MaxDegree \/ ~FilteredRelated(p, c)
              \/ ToSet(acc.kept) # {}
  <2>1. Len(acc.kept) = MaxDegree => ToSet(acc.kept) # {}
    <3>1. Len(acc.kept) = MaxDegree => 1 \in DOMAIN acc.kept
      BY <1>1
    <3>. QED BY <3>1 DEF ToSet
  <2>2. (\E d \in D \cup {c} : FilteredRelated(p, d)) =>
            ToSet(acc.kept) \cup ToSet(acc.over) # {}
    BY <1>3, <1>5, <2>1
  <2>. QED BY <1>1, <1>3, <1>4, <1>5, <2>2 DEF Swept
<1>6. CASE /\ FilteredRelated(p, c)
           /\ to.kept = acc.kept /\ to.over = Append(acc.over, c)
  <2>1. ToSet(to.over) = ToSet(acc.over) \cup {c} /\ IsInjective(to.over)
    BY <1>1, <1>2, <1>3, <1>6, AppendMember
  <2>2. /\ \A d \in ToSet(to.kept) \cup ToSet(to.over) : d \in D \cup {c} /\ FilteredRelated(p, d)
        /\ ToSet(to.kept) \cap ToSet(to.over) = {}
        /\ ToSet(to.kept) \cup ToSet(to.over) # {}
    BY <1>2, <1>3, <1>6, <2>1
  <2>. QED BY <1>1, <1>3, <1>4, <1>6, <2>1, <2>2 DEF Swept
<1>7. CASE /\ FilteredRelated(p, c) /\ Len(acc.kept) # MaxDegree
           /\ to.kept = Append(acc.kept, c) /\ to.over = acc.over
  <2>1. ToSet(to.kept) = ToSet(acc.kept) \cup {c} /\ IsInjective(to.kept)
    BY <1>1, <1>2, <1>3, <1>7, AppendMember
  <2>2. Len(to.kept) <= MaxDegree
    <3>1. Len(to.kept) = Len(acc.kept) + 1
      BY <1>1, <1>7
    <3>. QED BY <1>1, <1>3, <1>7, <3>1
  <2>3. /\ \A d \in ToSet(to.kept) \cup ToSet(to.over) : d \in D \cup {c} /\ FilteredRelated(p, d)
        /\ ToSet(to.kept) \cap ToSet(to.over) = {}
        /\ ToSet(to.kept) \cup ToSet(to.over) # {}
    BY <1>2, <1>3, <1>7, <2>1
  <2>. QED BY <1>1, <1>3, <1>4, <1>7, <2>1, <2>2, <2>3 DEF Swept
<1>. QED BY <1>4, <1>5, <1>6, <1>7 DEF Considered

(* The sweep over a sequence, candidate by candidate.                      *)
LEMMA SweepRuns ==
    ASSUME NEW p \in Node, NEW k, NEW m \in Nat, NEW s \in [1 .. m -> Node]
    PROVE  \E h \in [0 .. m -> Sweeps(p)] :
               /\ h[0] = Unswept(p)
               /\ \A i \in 1 .. m : h[i] = Consider(p, k, h[i - 1], s[i])
               /\ h[m] = Sweep(p, k, s)
<1>. DEFINE start == Unswept(p)
            F == [z \in (1 .. m) \X Sweeps(p) |-> Consider(p, k, z[2], s[z[1]])]
            Turn(g) == [S \in SUBSET (1 .. m) |->
                            IF S = {} THEN start ELSE Consider(p, k, g[S \ {Max(S)}], s[Max(S)])]
            iter == CHOOSE g : g = Turn(g)
<1>1. start \in Sweeps(p)
  BY DEF Sweeps, Unswept
<1>2. F \in [(1 .. m) \X Sweeps(p) -> Sweeps(p)]
  BY ConsiderCases
<1>3. PICK g \in [SUBSET (1 .. m) -> Sweeps(p)] :
          \A S \in SUBSET (1 .. m) :
              g[S] = IF S = {} THEN start ELSE F[<<Max(S), g[S \ {Max(S)}]>>]
  <2>. HIDE DEF F, start
  <2>1. F \in FoldSteps(m, Sweeps(p))
    BY <1>2 DEF FoldSteps
  <2>2. Tabled(Sweeps(p), start, m, F)
    BY <1>1, <2>1, FoldTable
  <2>. QED BY <2>2 DEF Tabled
<1>4. \A S \in SUBSET (1 .. m) : S # {} => Max(S) \in 1 .. m
  BY MaxIsMember
<1>5. g = Turn(g)
  <2>1. ASSUME NEW S \in SUBSET (1 .. m), S # {}
        PROVE  F[<<Max(S), g[S \ {Max(S)}]>>] = Consider(p, k, g[S \ {Max(S)}], s[Max(S)])
    <3>1. Max(S) \in 1 .. m /\ g[S \ {Max(S)}] \in Sweeps(p)
      BY <1>3, <1>4, <2>1
    <3>. QED BY <3>1
  <2>. HIDE DEF F, start
  <2>2. \A S \in SUBSET (1 .. m) : g[S] = Turn(g)[S]
    BY <1>3, <2>1
  <2>. QED BY <1>3, <2>2
<1>6. iter = Turn(iter)
  <2>. HIDE DEF Turn
  <2>. QED BY <1>5
<1>7. \A i \in 1 .. m : /\ 1 .. i \in SUBSET (1 .. m) /\ 1 .. i # {}
                       /\ Max(1 .. i) = i /\ (1 .. i) \ {i} = 1 .. i - 1
  BY MaxOfFirst
<1>. DEFINE h == [i \in 0 .. m |-> iter[1 .. i]]
<1>8. /\ h[0] = start
      /\ \A i \in 1 .. m : h[i] = Consider(p, k, h[i - 1], s[i])
  <2>. HIDE DEF iter, start
  <2>1. 1 .. 0 = {} /\ {} \in SUBSET (1 .. m)
    OBVIOUS
  <2>2. iter[{}] = start
    BY <1>6, <2>1
  <2>3. ASSUME NEW i \in 1 .. m PROVE iter[1 .. i] = Consider(p, k, iter[1 .. i - 1], s[i])
    <3>1. iter[1 .. i] = IF 1 .. i = {} THEN start
                         ELSE Consider(p, k, iter[(1 .. i) \ {Max(1 .. i)}], s[Max(1 .. i)])
      BY <1>6, <1>7
    <3>. QED BY <1>7, <3>1
  <2>4. \A i \in 1 .. m : i \in 0 .. m /\ i - 1 \in 0 .. m
    OBVIOUS
  <2>. QED BY <2>1, <2>2, <2>3, <2>4
<1>9. h \in [0 .. m -> Sweeps(p)]
  <2>. DEFINE T == {n \in Nat : n <= m => h[n] \in Sweeps(p)}
  <2>. HIDE DEF h, start, iter
  <2>1. 0 \in T
    BY <1>1, <1>8
  <2>2. ASSUME NEW n \in T PROVE n + 1 \in T
    <3>. SUFFICES ASSUME n + 1 <= m PROVE h[n + 1] \in Sweeps(p)
      OBVIOUS
    <3>1. n + 1 \in 1 .. m /\ (n + 1) - 1 = n /\ h[n] \in Sweeps(p)
      OBVIOUS
    <3>2. PICK r : r = Consider(p, k, h[n], s[n + 1])
      OBVIOUS
    <3>3. s[n + 1] \in Node /\ h[n + 1] = r
      BY <1>8, <3>1, <3>2
    <3>4. r \in Sweeps(p)
      <4>1. PICK a \in Sweeps(p) : a = h[n]
        BY <3>1
      <4>2. PICK c \in Node : c = s[n + 1]
        BY <3>3
      <4>3. r = Consider(p, k, a, c)
        BY <3>2, <4>1, <4>2
      <4>. QED BY ONLY <4>3, ConsiderCases, p \in Node, a \in Sweeps(p), c \in Node
    <3>. QED BY <3>3, <3>4
  <2>3. Nat \subseteq T
    <3>. HIDE DEF T
    <3>. QED BY <2>1, <2>2, SetInduction
  <2>4. \A i \in 0 .. m : h[i] \in Sweeps(p)
    BY <2>3
  <2>. QED BY <2>4 DEF h
<1>10. Sweep(p, k, s) = iter[1 .. m]
  <2>1. DOMAIN s = 1 .. m
    OBVIOUS
  <2>. QED BY <2>1 DEF Sweep, FoldLeft, MapThenFoldSet
<1>11. h[m] = iter[1 .. m]
  <2>. HIDE DEF iter
  <2>. QED OBVIOUS
<1>. HIDE DEF h, iter
<1>. QED BY <1>8, <1>9, <1>10, <1>11

(* The sweep has considered all candidates when it ends.                   *)
LEMMA SweepEnds ==
    ASSUME NEW p \in Node, NEW k, NEW C \in SUBSET Node, NEW s, Enumerates(s, C)
    PROVE  Swept(p, Sweep(p, k, s), C)
<1>1. PICK m \in Nat : m = Cardinality(C)
  BY SubsetsAreFinite
<1>2. /\ s \in [1 .. m -> Node] /\ DOMAIN s = 1 .. m /\ ToSet(s) = C
      /\ \A i, j \in 1 .. m : s[i] = s[j] => i = j
  BY <1>1 DEF Enumerates, IsInjective
<1>3. PICK h \in [0 .. m -> Sweeps(p)] :
          /\ h[0] = Unswept(p)
          /\ \A i \in 1 .. m : h[i] = Consider(p, k, h[i - 1], s[i])
          /\ h[m] = Sweep(p, k, s)
  BY ONLY <1>2, SweepRuns, p \in Node, m \in Nat
<1>. DEFINE D(i) == {s[j] : j \in 1 .. i}
            T == {i \in Nat : i <= m => Swept(p, h[i], D(i))}
<1>4. 0 \in T
  <2>1. D(0) = {}
    OBVIOUS
  <2>2. /\ h[0] \in Sweeps(p) /\ h[0].kept = <<>> /\ h[0].over = <<>>
    <3>1. 0 \in 0 .. m
      OBVIOUS
    <3>. QED BY <1>3, <3>1 DEF Unswept
  <2>3. /\ ToSet(<<>>) = {} /\ IsInjective(<<>>) /\ Len(<<>>) = 0
    BY DEF ToSet, IsInjective
  <2>4. MaxDegree \in Nat
    BY DataAssumption
  <2>5. Swept(p, h[0], {})
    BY <2>2, <2>3, <2>4 DEF Swept
  <2>. QED BY <2>1, <2>5
<1>5. ASSUME NEW n \in T PROVE n + 1 \in T
  <2>. SUFFICES ASSUME n + 1 <= m PROVE Swept(p, h[n + 1], D(n + 1))
    OBVIOUS
  <2>1. n \in Nat /\ n + 1 \in 1 .. m /\ (n + 1) - 1 = n
    OBVIOUS
  <2>2. Swept(p, h[n], D(n))
    BY <2>1
  <2>3. PICK c \in Node : c = s[n + 1]
    BY <1>2, <2>1
  <2>4. PICK a \in Sweeps(p) : a = h[n]
    BY <2>1
  <2>5. PICK E \in SUBSET Node : E = D(n)
    <3>1. \A j \in 1 .. n : j \in 1 .. m
      BY <2>1
    <3>2. D(n) \in SUBSET Node
      BY <1>2, <3>1
    <3>. HIDE DEF D
    <3>. QED BY <3>2
  <2>6. c \notin E
    <3>1. \A j \in 1 .. n : j \in 1 .. m /\ j # n + 1
      BY <2>1
    <3>. QED BY <1>2, <2>1, <2>3, <2>5, <3>1
  <2>7. D(n + 1) = E \cup {c}
    <3>1. \A j \in 1 .. n + 1 : j \in 1 .. n \/ j = n + 1
      BY <2>1
    <3>2. \A j \in 1 .. n : j \in 1 .. n + 1
      BY <2>1
    <3>3. n + 1 \in 1 .. n + 1
      BY <2>1
    <3>. QED BY <2>3, <2>5, <3>1, <3>2, <3>3
  <2>8. PICK to : to = Consider(p, k, a, c)
    OBVIOUS
  <2>9. h[n + 1] = to
    BY <1>3, <2>1, <2>3, <2>4, <2>8
  <2>10. Swept(p, a, E)
    BY <2>2, <2>4, <2>5
  <2>11. Swept(p, to, E \cup {c})
    BY ONLY <2>6, <2>8, <2>10, ConsiderKeeps, p \in Node, a \in Sweeps(p),
            E \in SUBSET Node, c \in Node
  <2>. QED BY <2>7, <2>9, <2>11
<1>6. Nat \subseteq T
  <2>. HIDE DEF T
  <2>. QED BY <1>4, <1>5, SetInduction
<1>7. Swept(p, h[m], D(m))
  <2>1. m \in T
    BY <1>6
  <2>. HIDE DEF D
  <2>. QED BY <2>1
<1>8. D(m) = C
  BY <1>2 DEF ToSet
<1>. QED BY <1>3, <1>7, <1>8

(* What Filtered_robust_prune leaves satisfies PruneAssumption: candidates *)
(* only, all with a label of p, none twice, no more than the array holds,  *)
(* and one at least if there is such a candidate.                          *)
THEOREM FilteredPruneFits ==
    ASSUME NEW p \in Node, NEW k, NEW C \in SUBSET (Node \ {p}),
           NEW s \in FilteredPrune(p, C, k)
    PROVE  /\ s \in Seq({c \in C : FilteredRelated(p, c)})
           /\ Len(s) <= MaxDegree
           /\ \A a, b \in DOMAIN s : s[a] = s[b] => a = b
           /\ (\E c \in C : FilteredRelated(p, c)) => s # <<>>
<1>. DEFINE sorted == Sorted(C, {e \in C \X C : PairLess([of |-> p], e[1], e[2])})
            swept == Sweep(p, k, sorted)
            all == swept.kept \o swept.over
            n == IF Len(all) < MaxDegree THEN Len(all) ELSE MaxDegree
<1>1. s = SubSeq(all, 1, n)
  BY DEF FilteredPrune, Sweep, Unswept
<1>2. Swept(p, swept, C)
  <2>1. Enumerates(sorted, C)
    BY CandidatesEnumerate
  <2>2. C \in SUBSET Node
    OBVIOUS
  <2>. HIDE DEF sorted
  <2>. QED BY ONLY <2>1, <2>2, SweepEnds, p \in Node
<1>. HIDE DEF swept
<1>3. /\ all \in Seq(Node) /\ IsInjective(all)
      /\ ToSet(all) = ToSet(swept.kept) \cup ToSet(swept.over)
  <2>1. PICK a \in Seq(Node), b \in Seq(Node) : a = swept.kept /\ b = swept.over
    BY <1>2 DEF Swept, Sweeps
  <2>2. IsInjective(a) /\ IsInjective(b) /\ ToSet(a) \cap ToSet(b) = {}
    BY <1>2, <2>1 DEF Swept
  <2>3. /\ a \o b \in Seq(Node) /\ IsInjective(a \o b)
        /\ ToSet(a \o b) = ToSet(a) \cup ToSet(b)
    BY ONLY <2>2, ConcatApart, a \in Seq(Node), b \in Seq(Node)
  <2>. QED BY <2>1, <2>3
<1>4. /\ \A d \in ToSet(all) : d \in {c \in C : FilteredRelated(p, c)}
      /\ (\E c \in C : FilteredRelated(p, c)) => ToSet(all) # {}
  BY <1>2, <1>3 DEF Swept
<1>. HIDE DEF all
<1>5. /\ MaxDegree \in Nat \ {0} /\ Len(all) \in Nat /\ n \in 0 .. Len(all)
      /\ n <= MaxDegree /\ (n = 0 => Len(all) = 0)
  BY <1>3, DataAssumption
<1>. HIDE DEF n
<1>6. s \in Seq(ToSet(all)) /\ Len(s) = n /\ IsInjective(s)
  BY <1>1, <1>3, <1>5, StartApart
<1>7. s \in Seq({c \in C : FilteredRelated(p, c)})
  BY <1>4, <1>6
<1>8. \A a, b \in DOMAIN s : s[a] = s[b] => a = b
  BY <1>6 DEF IsInjective
<1>9. ASSUME s = <<>> PROVE ToSet(all) = {}
  <2>1. Len(all) = 0
    BY <1>5, <1>6, <1>9
  <2>. QED BY <1>3, <2>1 DEF ToSet
<1>. QED BY <1>4, <1>5, <1>6, <1>7, <1>8, <1>9

-----------------------------------------------------------------------------
(* The lists initialize_filtered_random_graph may draw are lists that a    *)
(* node may have, once all labels of the node have their medoids.          *)
GoodLists(i) == {s \in Seq(Node) : Good(i, s)}

LEMMA RelatedByLabel ==
    ASSUME NEW i \in Node, NEW l \in Bitmap[i], NEW j \in Members(l)
    PROVE  j \in Node /\ Related(i, j)
BY FilteredChoices DEF Members, FilteredRelated

LEMMA DrawnGood ==
    ASSUME NEW i \in Node, NEW l \in Bitmap[i],
           Members(l) # {} => medoids[l] \in Members(l),
           NEW s \in GoodLists(i)
    PROVE  Drawn(i, l, s) \in SUBSET GoodLists(i)
<1>. DEFINE others == Members(l) \ ({i} \cup ToSet(s))
            quota == IF 15 \div Cardinality(Bitmap[i]) > 2 THEN 15 \div Cardinality(Bitmap[i])
                     ELSE 2
            most == Min({quota, Cardinality(others), MaxDegree - Len(s)})
            some == {e \in BoundedSeq(others, most) :
                        IsInjective(e) /\ most - Len(e) \in Shortfalls}
            lists == {s \o d : d \in some}
            m == medoids[l]
<1>1. Drawn(i, l, s) =
          IF Members(l) \ {i} = {} THEN {s}
          ELSE {IF m = i \/ m \in ToSet(d) \/ Len(d) = MaxDegree THEN d
                ELSE Append(d, m) : d \in lists}
  BY DEF Drawn
<1>2. /\ s \in Seq(Node) /\ Len(s) <= MaxDegree /\ Len(s) \in Nat /\ MaxDegree \in Nat
      /\ IsInjective(s)
      /\ \A j \in ToSet(s) : j # i /\ Related(i, j)
  <2>1. s \in Seq(Node) /\ Good(i, s) /\ MaxDegree \in Nat
    BY DataAssumption DEF GoodLists
  <2>2. DOMAIN s = 1 .. Len(s) /\ Len(s) \in Nat
    BY <2>1
  <2>. QED BY <2>1, <2>2 DEF Good, IsInjective, ToSet
<1>3. most \in Int /\ most <= MaxDegree - Len(s)
  <2>1. quota \in Int
    <3>1. IsFiniteSet(Bitmap[i])
      <4>1. Bitmap[i] \in SUBSET Label
        BY DataAssumption
      <4>. QED BY <4>1, LabelAssumption, FS_Subset
    <3>2. Cardinality(Bitmap[i]) \in Nat \ {0}
      BY <3>1, FS_CardinalityType, FS_EmptySet
    <3>3. 15 \div Cardinality(Bitmap[i]) \in Int
      BY <3>2
    <3>. QED BY <3>3
  <2>2. Cardinality(others) \in Int
    <3>1. others \in SUBSET Node
      BY DEF Members
    <3>. HIDE DEF others
    <3>. QED BY <3>1, SubsetsAreFinite
  <2>. HIDE DEF quota, others
  <2>. QED BY <1>2, <2>1, <2>2, MinOfThree
<1>. HIDE DEF most
<1>4. ASSUME NEW e \in some
      PROVE  e \in Seq(Node) /\ Len(e) <= MaxDegree - Len(s) /\ IsInjective(e)
             /\ ToSet(e) \in SUBSET others
  <2>1. PICK n \in 0 .. most : e \in [1 .. n -> others]
    BY DEF BoundedSeq, SeqOf
  <2>2. others \in SUBSET Node
    BY DEF Members
  <2>. HIDE DEF others
  <2>3. e \in Seq(Node) /\ Len(e) = n /\ ToSet(e) \in SUBSET others
    BY <2>1, <2>2 DEF ToSet
  <2>4. n <= MaxDegree - Len(s)
    BY <1>2, <1>3
  <2>. QED BY <2>3, <2>4
<1>5. ASSUME NEW d \in Seq(Node), IsInjective(d), Len(d) <= MaxDegree,
             \A j \in ToSet(d) : j # i /\ Related(i, j)
      PROVE  d \in GoodLists(i)
  <2>1. DOMAIN d = 1 .. Len(d)
    OBVIOUS
  <2>. QED BY <1>5, <2>1 DEF GoodLists, Good, IsInjective, ToSet
<1>6. ASSUME NEW d \in lists
      PROVE  /\ d \in Seq(Node) /\ IsInjective(d) /\ Len(d) <= MaxDegree
             /\ \A j \in ToSet(d) : j # i /\ Related(i, j)
  <2>1. PICK e \in some : d = s \o e
    OBVIOUS
  <2>2. /\ e \in Seq(Node) /\ Len(e) <= MaxDegree - Len(s) /\ IsInjective(e)
        /\ ToSet(e) \in SUBSET others
    BY <1>4
  <2>3. ToSet(s) \cap ToSet(e) = {} /\ \A j \in ToSet(e) : j # i /\ Related(i, j)
    BY <2>2, RelatedByLabel
  <2>. HIDE DEF others, some, lists
  <2>4. /\ d \in Seq(Node) /\ IsInjective(d) /\ ToSet(d) = ToSet(s) \cup ToSet(e)
    BY <1>2, <2>1, <2>2, <2>3, ConcatApart
  <2>5. Len(d) = Len(s) + Len(e) /\ Len(e) \in Nat
    BY <1>2, <2>1, <2>2, ConcatProperties
  <2>. QED BY <1>2, <2>2, <2>3, <2>4, <2>5
<1>. HIDE DEF lists
<1>7. ASSUME NEW d \in lists, Members(l) \ {i} # {},
             m # i, m \notin ToSet(d), Len(d) # MaxDegree
      PROVE  Append(d, m) \in GoodLists(i)
  <2>1. m \in Node /\ Related(i, m)
    BY <1>7, RelatedByLabel
  <2>2. /\ d \in Seq(Node) /\ IsInjective(d) /\ Len(d) <= MaxDegree
        /\ \A j \in ToSet(d) : j # i /\ Related(i, j)
    BY <1>6
  <2>3. /\ Append(d, m) \in Seq(Node) /\ IsInjective(Append(d, m))
        /\ ToSet(Append(d, m)) = ToSet(d) \cup {m}
    BY <1>7, <2>1, <2>2, AppendMember
  <2>4. Len(Append(d, m)) <= MaxDegree
    <3>1. Len(Append(d, m)) = Len(d) + 1 /\ Len(d) \in Nat
      BY <2>1, <2>2
    <3>. QED BY <1>2, <1>7, <2>2, <3>1
  <2>5. \A j \in ToSet(Append(d, m)) : j # i /\ Related(i, j)
    BY <1>7, <2>1, <2>2, <2>3
  <2>. QED BY <1>5, <2>3, <2>4, <2>5
<1>8. \A d \in lists : d \in GoodLists(i)
  BY <1>5, <1>6
<1>. HIDE DEF m
<1>9. CASE Members(l) \ {i} = {}
  BY <1>1, <1>9
<1>10. CASE Members(l) \ {i} # {}
  <2>. SUFFICES ASSUME NEW r \in Drawn(i, l, s) PROVE r \in GoodLists(i)
    OBVIOUS
  <2>1. PICK d \in lists : r = IF m = i \/ m \in ToSet(d) \/ Len(d) = MaxDegree THEN d
                              ELSE Append(d, m)
    BY <1>1, <1>10
  <2>2. r = d \/ (r = Append(d, m) /\ m # i /\ m \notin ToSet(d) /\ Len(d) # MaxDegree)
    BY <2>1
  <2>. QED BY <1>7, <1>8, <1>10, <2>2
<1>. QED BY <1>9, <1>10

AllDrawn(i, l, V) == UNION {Drawn(i, l, r) : r \in V}

LEMMA FirstListsGood ==
    ASSUME NEW i \in Node,
           \A l \in Bitmap[i] : Members(l) # {} => medoids[l] \in Members(l)
    PROVE  FirstLists(i) \in SUBSET GoodLists(i)
<1>1. PICK m \in Nat, s \in Seq(Bitmap[i]) :
          s = Ascending(Bitmap[i]) /\ DOMAIN s = 1 .. m /\ \A n \in 1 .. m : s[n] \in Bitmap[i]
  <2>1. Bitmap[i] \in SUBSET Label
    BY DataAssumption
  <2>2. PICK B \in SUBSET Label : B = Bitmap[i]
    BY <2>1
  <2>3. Enumerates(Ascending(B), B)
    BY AscendingEnumerates
  <2>4. Cardinality(B) \in Nat
    BY LabelAssumption, FS_Subset, FS_CardinalityType
  <2>. QED BY <2>2, <2>3, <2>4 DEF Enumerates
<1>. DEFINE A == SUBSET GoodLists(i)
            F == [z \in (1 .. m) \X A |-> AllDrawn(i, s[z[1]], z[2])]
            Turn(g) == [S \in SUBSET (1 .. m) |->
                            IF S = {} THEN {<<>>}
                            ELSE AllDrawn(i, s[Max(S)], g[S \ {Max(S)}])]
            iter == CHOOSE g : g = Turn(g)
<1>2. {<<>>} \in A
  <2>1. <<>> \in Seq(Node) /\ Len(<<>>) = 0
    OBVIOUS
  <2>. QED BY <2>1, DataAssumption DEF GoodLists, Good
<1>3. ASSUME NEW n \in 1 .. m, NEW V \in A
      PROVE  AllDrawn(i, s[n], V) \in A
  <2>1. PICK l \in Bitmap[i] : l = s[n]
    BY <1>1
  <2>2. \A r \in V : Drawn(i, l, r) \in SUBSET GoodLists(i)
    BY DrawnGood
  <2>. QED BY <2>1, <2>2 DEF AllDrawn
<1>4. F \in FoldSteps(m, A)
  <2>. HIDE DEF A
  <2>1. F \in [(1 .. m) \X A -> A]
    BY <1>3
  <2>. HIDE DEF F
  <2>. QED BY <2>1 DEF FoldSteps
<1>5. PICK g \in [SUBSET (1 .. m) -> A] :
          \A S \in SUBSET (1 .. m) :
              g[S] = IF S = {} THEN {<<>>} ELSE F[<<Max(S), g[S \ {Max(S)}]>>]
  <2>. HIDE DEF F, A
  <2>1. Tabled(A, {<<>>}, m, F)
    BY <1>2, <1>4, FoldTable
  <2>. QED BY <2>1 DEF Tabled
<1>6. \A S \in SUBSET (1 .. m) : S # {} => Max(S) \in 1 .. m
  BY MaxIsMember
<1>7. g = Turn(g)
  <2>. HIDE DEF A
  <2>1. ASSUME NEW S \in SUBSET (1 .. m), S # {}
        PROVE  F[<<Max(S), g[S \ {Max(S)}]>>] =
                   AllDrawn(i, s[Max(S)], g[S \ {Max(S)}])
    <3>1. Max(S) \in 1 .. m /\ g[S \ {Max(S)}] \in A
      BY <1>5, <1>6, <2>1
    <3>. QED BY <3>1
  <2>. HIDE DEF F
  <2>2. \A S \in SUBSET (1 .. m) : g[S] = Turn(g)[S]
    BY <1>5, <2>1
  <2>. QED BY <1>5, <2>2
<1>8. iter = Turn(iter)
  <2>. HIDE DEF Turn
  <2>. QED BY <1>7
<1>9. \A n \in 1 .. m : /\ 1 .. n \in SUBSET (1 .. m) /\ 1 .. n # {}
                       /\ Max(1 .. n) = n /\ (1 .. n) \ {n} = 1 .. n - 1
  BY MaxOfFirst
<1>10. iter[1 .. m] \in A
  <2>. DEFINE T == {n \in Nat : n <= m => iter[1 .. n] \in A}
  <2>. HIDE DEF A, iter
  <2>1. 0 \in T
    <3>1. 1 .. 0 = {} /\ {} \in SUBSET (1 .. m)
      OBVIOUS
    <3>2. iter[{}] = {<<>>}
      BY <1>8, <3>1
    <3>. QED BY <1>2, <3>1, <3>2
  <2>2. ASSUME NEW n \in T PROVE n + 1 \in T
    <3>. SUFFICES ASSUME n + 1 <= m PROVE iter[1 .. n + 1] \in A
      OBVIOUS
    <3>1. n + 1 \in 1 .. m /\ (n + 1) - 1 = n /\ iter[1 .. n] \in A
      OBVIOUS
    <3>2. PICK S \in SUBSET (1 .. m) : S = 1 .. n + 1 /\ S # {}
      BY <1>9, <3>1
    <3>3. iter[S] = AllDrawn(i, s[Max(S)], iter[S \ {Max(S)}])
      BY <1>8, <3>2
    <3>4. Max(S) = n + 1 /\ S \ {Max(S)} = 1 .. n
      BY <1>9, <3>1, <3>2
    <3>5. iter[S] = AllDrawn(i, s[n + 1], iter[1 .. n])
      BY ONLY <3>3, <3>4
    <3>6. AllDrawn(i, s[n + 1], iter[1 .. n]) \in A
      BY <1>3, <3>1
    <3>. QED BY ONLY <3>2, <3>5, <3>6
  <2>3. Nat \subseteq T
    <3>. HIDE DEF T
    <3>. QED BY <2>1, <2>2, SetInduction
  <2>. QED BY <2>3
<1>11. FirstLists(i) = iter[1 .. m]
  BY <1>1 DEF AllDrawn, FirstLists, FoldLeft, MapThenFoldSet
<1>. HIDE DEF iter
<1>. QED BY <1>10, <1>11

-----------------------------------------------------------------------------
(***************************************************************************)
(* The inductive invariant of the whole index, from the first scan to the  *)
(* last query.  Until the build starts the team is at rest and the lists   *)
(* grow node by node; from then on GraphInv holds.                         *)
(***************************************************************************)

(* What is in the heaps of a label are nodes with the label, at most K.    *)
HeapsInv ==
    /\ \A l \in Label : /\ global_top_k[l] \in SUBSET Members(l)
                        /\ Cardinality(global_top_k[l]) <= K
    /\ \A t \in Thread : \A l \in Label : /\ local_top_k[t][l] \in SUBSET Members(l)
                                          /\ Cardinality(local_top_k[t][l]) <= K

(* The labels that the serial loop is through with have their medoids, and *)
(* no node has been used more often than there were labels.                *)
MedoidInv ==
    /\ labels \in Seq(Label) /\ IsInjective(labels)
    /\ labels # <<>> => \A t \in Thread : pc[t] \in SetupLabels
    /\ medoids \in [Label -> Node \cup {NoNode}]
    /\ \A l \in Label : /\ l \in ToSet(labels) \/ Members(l) = {} => medoids[l] = NoNode
                        /\ l \in ToSet(labels) \/ medoids[l] \in Members(l)
                           \/ Members(l) = {}
    /\ usage \in [Node -> Nat]
    /\ \A i \in Node : usage[i] + Len(labels) <= Cardinality(Label)

(* Before the build nobody searches, and nobody has a lock.                *)
AtRest ==
    /\ visited = [t \in Thread |-> {}] /\ search = [t \in Thread |-> Idle]
    /\ pass = 1 /\ todo = Serving
    /\ mine = [t \in Thread |-> <<>>] /\ asks = [t \in Thread |-> <<>>]
    /\ cands = [t \in Thread |-> {}] /\ links = [t \in Thread |-> <<>>]
    /\ at = [t \in Thread |-> NoNode]
    /\ stores = [t \in Thread |-> {}] /\ counts = [t \in Thread |-> {}]

(* First lists are drawn in the order of the nodes, each of them once.     *)
FirstGood ==
    /\ num_neighbours \in [Node -> Nat] /\ neighbours \in [Node -> [Slot -> Node]]
    /\ \A p \in Node : num_neighbours[p] <= MaxDegree /\ Good(p, List(p))

Drawing ==
    \/ /\ \A t \in Thread : pc[t] \in SetupLabels
       /\ \A p \in Node : num_neighbours[p] = 0
    \/ /\ \A t \in Thread : pc[t] \in {"draw", "drawn"}
       /\ next \in 0 .. Cardinality(Node)
       /\ \A p \in Node : p >= next => num_neighbours[p] = 0

(* Each search still to be made for a node has a medoid to start from.     *)
AsksHaveStarts ==
    \A t \in Thread :
        /\ pc[t] \notin {"ask", "search"} => asks[t] = <<>>
        /\ \A k \in 1 .. Len(asks[t]) : Starts(asks[t][k]) # {}

(* What ended the process was a query of the finished index.               *)
ExitsRightly == \A t \in Thread : pc[t] = "exit" => \E q \in todo : Starts(q) = {}

Preparing == AtRest /\ FirstGood /\ Drawing
Building == GraphInv /\ AsksHaveStarts /\ ExitsRightly

FilteredInv ==
    /\ CandidatesInv
    /\ HeapsInv
    /\ MedoidInv
    /\ Preparing \/ Building

restVars == <<searchVars, pass, mine, asks, cands, at, stores, counts, links, todo>>

LEMMA RestKept ==
    ASSUME AtRest, UNCHANGED restVars
    PROVE  AtRest'
BY DEF AtRest, restVars, searchVars

LEMMA FirstGoodKept ==
    ASSUME FirstGood, UNCHANGED graphVars
    PROVE  FirstGood'
<1>1. \A p \in Node : Good(p, List(p))'
  <2>. TAKE p \in Node
  <2>1. List(p)' = List(p)
    BY DEF List, graphVars
  <2>. QED BY <2>1 DEF FirstGood, Good
<1>. QED BY <1>1 DEF FirstGood, graphVars

LEMMA MembersAreNodes ==
    ASSUME NEW l \in Label
    PROVE  Members(l) \in SUBSET Node
BY DEF Members

(* No heap, no medoid and no list yet.                                     *)
LEMMA FilteredStarts == FilteredInit => FilteredInv
<1>. SUFFICES ASSUME FilteredInit PROVE FilteredInv
  OBVIOUS
<1>1. HeapsInv
  <2>1. \A t \in Thread : local_top_k[t] = NoTop
    BY DEF FilteredInit
  <2>2. global_top_k = NoTop
    BY DEF FilteredInit
  <2>3. \A l \in Label : NoTop[l] = {}
    BY DEF NoTop
  <2>4. Cardinality({}) = 0 /\ 0 <= K
    BY FS_EmptySet, FilteredAssumption
  <2>. QED BY <2>1, <2>2, <2>3, <2>4 DEF HeapsInv
<1>2. MedoidInv
  <2>1. Enumerates(labels, Label)
    <3>1. PICK S \in SUBSET Label : S = Label
      OBVIOUS
    <3>2. Enumerates(Ascending(S), S)
      BY AscendingEnumerates
    <3>. QED BY <3>1, <3>2 DEF FilteredInit
  <2>2. /\ medoids = [l \in Label |-> NoNode] /\ usage = [i \in Node |-> 0]
        /\ \A t \in Thread : pc[t] \in SetupLabels
    BY FilteredChoices DEF FilteredInit, SetupLabels
  <2>3. Cardinality(Label) \in Nat
    BY LabelAssumption, FS_CardinalityType
  <2>. QED BY <2>1, <2>2, <2>3 DEF MedoidInv, Enumerates
<1>3. Preparing
  <2>1. AtRest
    BY DEF FilteredInit, AtRest
  <2>2. Drawing
    BY DEF FilteredInit, Drawing, SetupLabels
  <2>3. /\ num_neighbours = [p \in Node |-> 0]
        /\ neighbours = [p \in Node |-> [s \in Slot |-> 0]]
    BY DEF FilteredInit
  <2>4. \A p \in Node : 0 \in Node
    <3>1. \A p \in 0 .. Cardinality(Node) - 1 : 0 \in 0 .. Cardinality(Node) - 1
      BY NodeCount
    <3>. QED BY <3>1, NodeCount
  <2>5. \A p \in Node : List(p) = <<>>
    BY <2>3 DEF List
  <2>6. \A p \in Node : Good(p, List(p))
    <3>1. <<>> \in Seq(Node) /\ Len(<<>>) = 0 /\ MaxDegree \in Nat
      BY DataAssumption
    <3>2. \A p \in Node : Good(p, <<>>)
      BY <3>1 DEF Good
    <3>. QED BY <2>5, <3>2
  <2>7. FirstGood
    BY <2>3, <2>4, <2>6, DataAssumption DEF FirstGood
  <2>. QED BY <2>1, <2>2, <2>7 DEF Preparing
<1>. QED BY <1>1, <1>2, <1>3, StartSelecting DEF FilteredInv

-----------------------------------------------------------------------------
LEMMA HeapsKept ==
    ASSUME CandidatesInv, HeapsInv, [FilteredNext]_indexVars
    PROVE  HeapsInv'
<1>1. ASSUME UNCHANGED <<local_top_k, global_top_k>> PROVE HeapsInv'
  BY <1>1 DEF HeapsInv, Members
<1>2. ASSUME NEW l \in Label, NEW S \in SUBSET Members(l)
      PROVE  Trim(l, S) \in SUBSET Members(l) /\ Cardinality(Trim(l, S)) <= K
  <2>1. S \in SUBSET Node
    BY DEF Members
  <2>2. Trim(l, S) \subseteq S /\ Cardinality(Trim(l, S)) <= K
    BY <2>1, TrimBounds
  <2>. QED BY <2>2
<1>3. ASSUME NEW t \in Thread, Scan(t) PROVE HeapsInv'
  <2>1. /\ local_top_k' = [local_top_k EXCEPT ![t] =
               [l \in Label |-> Trim(l, local_top_k[t][l] \cup (Claimed \cap Members(l)))]]
        /\ UNCHANGED global_top_k
    BY <1>3 DEF Scan
  <2>2. ASSUME NEW l \in Label
        PROVE  /\ Trim(l, local_top_k[t][l] \cup (Claimed \cap Members(l))) \in SUBSET Members(l)
               /\ Cardinality(Trim(l, local_top_k[t][l] \cup (Claimed \cap Members(l)))) <= K
    <3>1. PICK S \in SUBSET Members(l) : S = local_top_k[t][l] \cup (Claimed \cap Members(l))
      BY DEF HeapsInv
    <3>. QED BY <1>2, <3>1
  <2>3. ASSUME NEW u \in Thread, NEW l \in Label
        PROVE  /\ local_top_k'[u][l] \in SUBSET Members(l)
               /\ Cardinality(local_top_k'[u][l]) <= K
    <3>1. CASE u = t
      <4>1. local_top_k'[u][l] = Trim(l, local_top_k[t][l] \cup (Claimed \cap Members(l)))
        BY <2>1, <3>1 DEF CandidatesInv
      <4>. QED BY <2>2, <4>1
    <3>2. CASE u # t
      BY <2>1, <3>2 DEF CandidatesInv, HeapsInv
    <3>. QED BY <3>1, <3>2
  <2>. QED BY <2>1, <2>3 DEF HeapsInv, Members
<1>4. ASSUME NEW t \in Thread, Merge(t) PROVE HeapsInv'
  <2>1. /\ global_top_k' = [l \in Label |-> Trim(l, global_top_k[l] \cup local_top_k[t][l])]
        /\ local_top_k' = [local_top_k EXCEPT ![t] = NoTop]
    BY <1>4 DEF Merge, Merged
  <2>2. ASSUME NEW l \in Label
        PROVE  /\ global_top_k'[l] \in SUBSET Members(l)
               /\ Cardinality(global_top_k'[l]) <= K
    <3>1. PICK S \in SUBSET Members(l) : S = global_top_k[l] \cup local_top_k[t][l]
      BY DEF HeapsInv
    <3>. QED BY <1>2, <2>1, <3>1
  <2>3. ASSUME NEW u \in Thread, NEW l \in Label
        PROVE  /\ local_top_k'[u][l] \in SUBSET Members(l)
               /\ Cardinality(local_top_k'[u][l]) <= K
    <3>1. CASE u = t
      <4>1. local_top_k'[u][l] = {}
        BY <2>1, <3>1 DEF CandidatesInv, NoTop
      <4>2. Cardinality({}) <= K
        BY FS_EmptySet, FilteredAssumption
      <4>. QED BY <4>1, <4>2
    <3>2. CASE u # t
      BY <2>1, <3>2 DEF CandidatesInv, HeapsInv
    <3>. QED BY <3>1, <3>2
  <2>. QED BY <2>2, <2>3 DEF HeapsInv, Members
<1>5. CASE \/ UNCHANGED indexVars \/ PickMedoid \/ StartBuild
           \/ (Barrier /\ UNCHANGED setupVars)
           \/ \E t \in Thread : Draw(t) \/ (Work(t) /\ UNCHANGED setupVars)
  BY <1>1, <1>5 DEF indexVars, setupVars, PickMedoid, StartBuild, Draw
<1>. QED BY <1>3, <1>4, <1>5 DEF FilteredNext, TeamStep, ThreadStep

(* The serial loop gives one label after the other its medoid.             *)
LEMMA PickKeeps ==
    ASSUME CandidatesInv, HeapsInv, MedoidInv, PickMedoid
    PROVE  MedoidInv'
<1>1. \A t \in Thread : pc[t] = "merged"
  BY DEF PickMedoid
<1>2. CASE labels = <<>>
  <2>1. UNCHANGED <<medoids, usage, labels>>
    BY <1>2 DEF PickMedoid
  <2>. QED BY <1>2, <2>1 DEF MedoidInv, Members
<1>3. CASE labels # <<>>
  <2>1. PICK l \in Label : l = Head(labels) /\ l \in ToSet(labels)
    <3>1. Len(labels) \in Nat \ {0} /\ DOMAIN labels = 1 .. Len(labels)
      BY <1>3 DEF MedoidInv
    <3>. QED BY <1>3, <3>1 DEF MedoidInv, ToSet
  <2>2. /\ labels' = Tail(labels) /\ UNCHANGED <<pc, global_top_k>>
        /\ IF global_top_k[l] = {} THEN UNCHANGED <<medoids, usage>>
           ELSE /\ medoids' = [medoids EXCEPT ![l] = Pick(l)]
                /\ usage' = [usage EXCEPT ![Pick(l)] = usage[Pick(l)] + 1]
    BY <1>3, <2>1 DEF PickMedoid
  <2>3. /\ labels' \in Seq(Label) /\ IsInjective(labels') /\ l \notin ToSet(labels')
        /\ ToSet(labels') = ToSet(labels) \ {l} /\ Len(labels') = Len(labels) - 1
        /\ Len(labels) \in Nat
    <3>1. IsInjective(Tail(labels)) /\ ToSet(Tail(labels)) = ToSet(labels) \ {l}
      BY <1>3, <2>1, TailApart DEF MedoidInv
    <3>2. Tail(labels) \in Seq(Label) /\ Len(Tail(labels)) = Len(labels) - 1
          /\ Len(labels) \in Nat
      BY <1>3 DEF MedoidInv
    <3>. QED BY <2>2, <3>1, <3>2
  <2>4. global_top_k[l] = Trim(l, Members(l))
    BY <1>1, PoolIsMerged
  <2>5. global_top_k[l] = {} <=> Members(l) = {}
    <3>1. Members(l) \in SUBSET Node
      BY MembersAreNodes
    <3>. QED BY <2>4, <3>1, TrimBounds
  <2>6. medoids[l] = NoNode
    BY <2>1 DEF MedoidInv
  <2>7. CASE global_top_k[l] = {}
    <3>1. UNCHANGED <<medoids, usage>>
      BY <2>2, <2>7
    <3>2. \A i \in Node : usage[i] + Len(labels') <= Cardinality(Label)
      <4>1. Cardinality(Label) \in Nat
        BY LabelAssumption, FS_CardinalityType
      <4>. QED BY <2>3, <4>1 DEF MedoidInv
    <3>. QED BY <1>1, <2>2, <2>3, <2>5, <2>7, <3>1, <3>2
             DEF MedoidInv, Members, SetupLabels
  <2>8. CASE global_top_k[l] # {}
    <3>1. PICK i \in Members(l) : i = Pick(l)
      <4>1. Pick(l) \in global_top_k[l]
        BY <2>8, PickPicks DEF CandidatesInv, MedoidInv
      <4>. QED BY <4>1 DEF HeapsInv
    <3>2. i \in Node
      BY MembersAreNodes
    <3>3. /\ medoids' = [medoids EXCEPT ![l] = i]
          /\ usage' = [usage EXCEPT ![i] = usage[i] + 1]
      BY <2>2, <2>8, <3>1
    <3>4. /\ medoids' \in [Label -> Node \cup {NoNode}] /\ medoids'[l] = i
          /\ \A k \in Label \ {l} : medoids'[k] = medoids[k]
      BY <3>2, <3>3 DEF MedoidInv
    <3>5. /\ usage' \in [Node -> Nat]
          /\ \A j \in Node : usage'[j] <= usage[j] + 1
      BY <3>2, <3>3 DEF MedoidInv
    <3>6. \A j \in Node : usage'[j] + Len(labels') <= Cardinality(Label)
      <4>1. Cardinality(Label) \in Nat
        BY LabelAssumption, FS_CardinalityType
      <4>2. \A j \in Node : /\ usage[j] + Len(labels) <= Cardinality(Label)
                            /\ usage[j] \in Nat /\ usage'[j] \in Nat
        BY <3>5 DEF MedoidInv
      <4>. QED BY <2>3, <3>5, <4>1, <4>2
    <3>7. ASSUME NEW k \in Label
          PROVE  /\ k \in ToSet(labels') \/ Members(k) = {} => medoids'[k] = NoNode
                 /\ k \in ToSet(labels') \/ medoids'[k] \in Members(k) \/ Members(k) = {}
      <4>1. CASE k = l
        BY <2>3, <3>1, <3>4, <4>1
      <4>2. CASE k # l
        BY <2>3, <3>4, <4>2 DEF MedoidInv
      <4>. QED BY <4>1, <4>2
    <3>. QED BY <1>1, <2>2, <2>3, <3>4, <3>5, <3>6, <3>7
             DEF MedoidInv, Members, SetupLabels
  <2>. QED BY <2>7, <2>8
<1>. QED BY <1>2, <1>3

LEMMA MedoidsKept ==
    ASSUME CandidatesInv, HeapsInv, MedoidInv, [FilteredNext]_indexVars
    PROVE  MedoidInv'
<1>1. ASSUME UNCHANGED <<medoids, usage, labels>>,
             labels # <<>> => \A t \in Thread : pc'[t] \in SetupLabels
      PROVE  MedoidInv'
  BY <1>1 DEF MedoidInv, Members
<1>2. CASE UNCHANGED indexVars
  BY <1>1, <1>2 DEF indexVars, setupVars, buildVars, teamVars, MedoidInv
<1>3. CASE PickMedoid
  BY <1>3, PickKeeps
<1>4. ASSUME NEW t \in Thread, pc[t] \notin SetupLabels,
             UNCHANGED <<medoids, usage, labels>>
      PROVE  MedoidInv'
  BY <1>1, <1>4 DEF MedoidInv
<1>5. ASSUME NEW t \in Thread, Scan(t) \/ Merge(t) PROVE MedoidInv'
  <2>1. /\ UNCHANGED <<medoids, usage, labels>>
        /\ \E to \in SetupLabels : pc' = [pc EXCEPT ![t] = to]
    BY <1>5 DEF Scan, Merge, Goto, SetupLabels
  <2>. QED BY <1>1, <2>1 DEF MedoidInv, CandidatesInv
<1>6. ASSUME NEW t \in Thread, Draw(t) \/ (Work(t) /\ UNCHANGED setupVars)
      PROVE  MedoidInv'
  <2>1. pc[t] \notin SetupLabels
    BY <1>6, WorkMoves DEF Draw, SetupLabels, CandidatesInv
  <2>2. UNCHANGED <<medoids, usage, labels>>
    BY <1>6 DEF Draw, setupVars, Work, Claim, Insert, Ask, Step, Collect, LockOwn, Link,
                StoreSlot, StoreCount, Unlock, Inserted, Serve, Answer, NoStart
  <2>. QED BY <1>4, <2>1, <2>2
<1>7. CASE StartBuild \/ (Barrier /\ UNCHANGED setupVars)
  <2>1. PICK t \in Thread : TRUE
    BY FilteredAssumption
  <2>2. pc[t] \notin SetupLabels
    BY <1>7 DEF StartBuild, Barrier, SetupLabels
  <2>3. UNCHANGED <<medoids, usage, labels>>
    BY <1>7 DEF StartBuild, Barrier, setupVars
  <2>. QED BY <1>4, <2>2, <2>3
<1>. QED BY <1>2, <1>3, <1>5, <1>6, <1>7 DEF FilteredNext, TeamStep, ThreadStep

-----------------------------------------------------------------------------
LEMMA WorkBuilds ==
    ASSUME Drawing, pc \in [Thread -> Labels], NEW t \in Thread
    PROVE  ~Work(t)
<1>. SUFFICES ASSUME Work(t) PROVE FALSE
  OBVIOUS
<1>1. pc[t] \in {"draw", "drawn"}
  BY WorkMoves DEF Drawing
<1>. QED BY <1>1 DEF Work, Claim, Insert, Ask, Step, Collect, LockOwn, Link, StoreSlot,
                     StoreCount, Unlock, Inserted, Serve, Answer, NoStart, Wanted

LEMMA BuildingDoesNotDraw ==
    ASSUME Building, NEW t \in Thread
    PROVE  pc[t] \notin SetupLabels \cup {"draw", "drawn"}
BY DEF Building, GraphInv, GraphTypeOK, BuildLabels, SetupLabels

(* A list that initialize_filtered_random_graph draws is one its node may  *)
(* have, and the node had none before.                                     *)
LEMMA DrawGives ==
    ASSUME MedoidInv, FirstGood, Drawing, NEW t \in Thread, Draw(t),
           next # Cardinality(Node)
    PROVE  \E i \in Node : \E s \in GoodLists(i) :
               /\ i = next /\ next' = i + 1 /\ pc' = pc /\ num_neighbours[i] = 0
               /\ num_neighbours' = [num_neighbours EXCEPT ![i] = Len(s)]
               /\ neighbours' = [neighbours EXCEPT ![i] =
                      [k \in Slot |-> IF k < Len(s) THEN s[k + 1] ELSE neighbours[i][k]]]
<1>1. pc[t] = "draw"
  BY DEF Draw
<1>2. /\ next \in 0 .. Cardinality(Node)
      /\ \A p \in Node : p >= next => num_neighbours[p] = 0
  BY <1>1 DEF Drawing, SetupLabels
<1>3. PICK i \in Node : i = next
  <2>1. next \in 0 .. Cardinality(Node) - 1
    BY <1>2, NodeCount
  <2>. QED BY <2>1, NodeCount
<1>4. i \in Int
  BY <1>2, <1>3
<1>5. num_neighbours[i] = 0
  BY <1>2, <1>3, <1>4
<1>6. PICK s \in FirstLists(i) :
          /\ num_neighbours' = [num_neighbours EXCEPT ![i] = Len(s)]
          /\ neighbours' = [neighbours EXCEPT ![i] =
                 [k \in Slot |-> IF k < Len(s) THEN s[k + 1] ELSE neighbours[i][k]]]
          /\ next' = i + 1 /\ pc' = pc
  BY <1>3 DEF Draw
<1>7. s \in GoodLists(i)
  <2>1. labels = <<>>
    BY <1>1 DEF MedoidInv, SetupLabels
  <2>2. ToSet(labels) = {}
    BY <2>1 DEF ToSet
  <2>3. \A l \in Bitmap[i] : l \in Label
    BY DataAssumption
  <2>4. \A l \in Bitmap[i] : Members(l) # {} => medoids[l] \in Members(l)
    BY <2>2, <2>3 DEF MedoidInv
  <2>5. FirstLists(i) \in SUBSET GoodLists(i)
    BY <2>4, FirstListsGood
  <2>. QED BY <2>5
<1>. QED BY <1>3, <1>5, <1>6, <1>7

LEMMA DrawKeeps ==
    ASSUME MedoidInv, pc \in [Thread -> Labels], Preparing, NEW t \in Thread, Draw(t)
    PROVE  Preparing'
<1>1. AtRest /\ FirstGood /\ Drawing /\ pc[t] = "draw"
  BY DEF Preparing, Draw
<1>2. AtRest'
  BY <1>1, RestKept DEF Draw, restVars
<1>3. CASE next = Cardinality(Node)
  <2>1. UNCHANGED <<graphVars, next>> /\ pc' = [pc EXCEPT ![t] = "drawn"]
    BY <1>3 DEF Draw, Goto
  <2>2. Drawing'
    BY <1>1, <2>1 DEF Drawing, graphVars, SetupLabels
  <2>. QED BY <1>1, <1>2, <2>1, <2>2, FirstGoodKept DEF Preparing
<1>4. CASE next # Cardinality(Node)
  <2>0. PICK i \in Node : \E s \in GoodLists(i) :
            /\ i = next /\ next' = i + 1 /\ pc' = pc /\ num_neighbours[i] = 0
            /\ num_neighbours' = [num_neighbours EXCEPT ![i] = Len(s)]
            /\ neighbours' = [neighbours EXCEPT ![i] =
                   [k \in Slot |-> IF k < Len(s) THEN s[k + 1] ELSE neighbours[i][k]]]
    BY <1>1, <1>4, DrawGives
  <2>1. PICK s \in GoodLists(i) :
            /\ i = next /\ next' = i + 1 /\ pc' = pc /\ num_neighbours[i] = 0
            /\ num_neighbours' = [num_neighbours EXCEPT ![i] = Len(s)]
            /\ neighbours' = [neighbours EXCEPT ![i] =
                   [k \in Slot |-> IF k < Len(s) THEN s[k + 1] ELSE neighbours[i][k]]]
    BY <2>0
  <2>2. /\ s \in Seq(Node) /\ Good(i, s) /\ Len(s) \in Nat /\ Len(s) <= MaxDegree
        /\ MaxDegree \in Nat
    BY DataAssumption DEF GoodLists, Good
  <2>3. /\ num_neighbours' \in [Node -> Nat] /\ num_neighbours'[i] = Len(s)
        /\ \A p \in Node \ {i} : num_neighbours'[p] = num_neighbours[p]
    BY <1>1, <2>1, <2>2 DEF FirstGood
  <2>4. PICK r \in [Slot -> Node] :
            /\ \A k \in Slot : k < Len(s) => r[k] = s[k + 1]
            /\ neighbours' = [neighbours EXCEPT ![i] = r]
    <3>. DEFINE r == [k \in Slot |-> IF k < Len(s) THEN s[k + 1] ELSE neighbours[i][k]]
    <3>1. ASSUME NEW k \in Slot, k < Len(s) PROVE s[k + 1] \in Node
      <4>1. k + 1 \in 1 .. Len(s)
        BY <2>2, <3>1 DEF Slot
      <4>. QED BY <2>2, <4>1
    <3>2. \A k \in Slot : neighbours[i][k] \in Node
      BY <1>1 DEF FirstGood
    <3>3. r \in [Slot -> Node]
      BY <3>1, <3>2
    <3>. QED BY <2>1, <3>3
  <2>5. /\ neighbours' \in [Node -> [Slot -> Node]] /\ neighbours'[i] = r
        /\ \A p \in Node \ {i} : neighbours'[p] = neighbours[p]
    BY <1>1, <2>4 DEF FirstGood
  <2>6. List(i)' = s
    <3>1. List(i)' = [a \in 1 .. Len(s) |-> r[a - 1]]
      BY <2>3, <2>5 DEF List
    <3>2. \A a \in 1 .. Len(s) : a - 1 \in Slot /\ a - 1 < Len(s) /\ (a - 1) + 1 = a
      BY <2>2 DEF Slot
    <3>3. \A a \in 1 .. Len(s) : r[a - 1] = s[a]
      BY <2>4, <3>2
    <3>4. s = [a \in 1 .. Len(s) |-> s[a]]
      BY <2>2
    <3>. QED BY <3>1, <3>3, <3>4
  <2>7. ASSUME NEW p \in Node
        PROVE  num_neighbours'[p] <= MaxDegree /\ Good(p, List(p))'
    <3>1. CASE p = i
      BY <2>2, <2>3, <2>6, <3>1 DEF Good
    <3>2. CASE p # i
      <4>1. List(p)' = List(p)
        BY <2>3, <2>5, <3>2 DEF List
      <4>. QED BY <1>1, <2>3, <3>2, <4>1 DEF FirstGood, Good
    <3>. QED BY <3>1, <3>2
  <2>8. FirstGood'
    BY <2>3, <2>5, <2>7 DEF FirstGood
  <2>9. Drawing'
    <3>1. /\ i \in 0 .. Cardinality(Node) /\ i # Cardinality(Node)
          /\ \A p \in Node : p >= i => num_neighbours[p] = 0
          /\ \A u \in Thread : pc[u] \in {"draw", "drawn"}
      BY <1>1, <1>4, <2>1 DEF Drawing, SetupLabels
    <3>2. i + 1 \in 0 .. Cardinality(Node)
      BY <3>1, NodeCount
    <3>3. ASSUME NEW p \in Node, p >= i + 1 PROVE num_neighbours'[p] = 0
      <4>1. p \in Int
        <5>1. \A a \in 0 .. Cardinality(Node) - 1 : a \in Int
          BY NodeCount
        <5>. QED BY <5>1, NodeCount
      <4>2. p >= i /\ p # i
        BY <3>1, <3>3, <4>1
      <4>. QED BY <2>3, <3>1, <4>2
    <3>. QED BY <2>1, <3>1, <3>2, <3>3 DEF Drawing
  <2>. QED BY <1>2, <2>8, <2>9 DEF Preparing
<1>. QED BY <1>3, <1>4

(* The build starts where the team is at rest and the lists are good.      *)
LEMMA StartBuilds ==
    ASSUME Preparing, MedoidInv, StartBuild
    PROVE  Building'
<1>1. /\ NoNode \notin Node /\ 0 \in Slot /\ MaxDegree \in Nat \ {0}
      /\ Passes \in Nat \ {0} /\ Len(Order) \in Nat
  <2>1. MaxDegree \in Nat \ {0} /\ 0 \in Slot
    BY DataAssumption DEF Slot
  <2>2. Order \in Seq(Node) /\ Passes \in Nat \ {0}
    BY BuildAssumption
  <2>3. Len(Order) \in Nat
    BY <2>2
  <2>4. NoNode \notin Node
    BY BeamAssumption
  <2>. QED BY <2>1, <2>2, <2>3, <2>4
<1>2. /\ pc' = [t \in Thread |-> "claim"] /\ next' = 0
      /\ UNCHANGED <<graphVars, medoids>> /\ UNCHANGED restVars
  BY DEF StartBuild, restVars
<1>3. AtRest' /\ FirstGood'
  BY <1>2, RestKept, FirstGoodKept DEF Preparing
<1>4. /\ visited' = [t \in Thread |-> {}] /\ search' = [t \in Thread |-> Idle]
      /\ pass' = 1 /\ todo' = Serving
      /\ mine' = [t \in Thread |-> <<>>] /\ asks' = [t \in Thread |-> <<>>]
      /\ cands' = [t \in Thread |-> {}] /\ links' = [t \in Thread |-> <<>>]
      /\ at' = [t \in Thread |-> NoNode]
      /\ stores' = [t \in Thread |-> {}] /\ counts' = [t \in Thread |-> {}]
  BY <1>3 DEF AtRest
<1>5. SearchTypeOK'
  BY <1>1, <1>3, <1>4 DEF SearchTypeOK, Idle, FirstGood
<1>6. GraphTypeOK'
  <2>1. /\ medoids' \in [MedoidKeys -> Node \cup {NoNode}]
        /\ pass' \in 1 .. Passes /\ next' \in 0 .. Len(Order)
    BY <1>1, <1>2, <1>4, FilteredChoices DEF MedoidInv
  <2>2. /\ mine' \in [Thread -> Seq(Node)] /\ asks' \in [Thread -> Seq(Query)]
        /\ links' \in [Thread -> Seq(Node)]
    BY <1>4
  <2>3. /\ pc' \in [Thread -> BuildLabels]
        /\ cands' \in [Thread -> SUBSET Node]
        /\ at' \in [Thread -> Node \cup {NoNode}]
        /\ stores' \in [Thread -> SUBSET (Nat \X Node)]
        /\ counts' \in [Thread -> SUBSET Nat]
        /\ todo' \subseteq Serving
    BY <1>2, <1>4 DEF BuildLabels
  <2>4. \A t \in Thread : pc'[t] = "claim" /\ at'[t] = NoNode
    BY <1>2, <1>4
  <2>. QED BY <1>5, <2>1, <2>2, <2>3, <2>4 DEF GraphTypeOK
<1>7. DegreeBound'
  BY <1>3, <1>4 DEF DegreeBound, FirstGood
<1>8. Exclusive' /\ Searching' /\ VisitedExact'
  BY <1>4 DEF Exclusive, Searching, VisitedExact, Idle
<1>9. LinksGood'
  BY <1>4 DEF LinksGood
<1>10. ListsGood'
  BY <1>3 DEF FirstGood, ListsGood, Good
<1>11. WritesGood'
  BY <1>2 DEF WritesGood
<1>12. AsksHaveStarts' /\ ExitsRightly'
  BY <1>2, <1>4 DEF AsksHaveStarts, ExitsRightly
<1>. QED BY <1>6, <1>7, <1>8, <1>9, <1>10, <1>11, <1>12 DEF Building, GraphInv

(* The searches made for a node are for its labels, one each, and each of  *)
(* these has a medoid, the node itself being a member.                     *)
LEMMA QueriesHaveStarts ==
    ASSUME MedoidInv, labels = <<>>, NEW i \in Node, NEW k \in 1 .. Len(Queries(i))
    PROVE  Starts(Queries(i)[k]) # {}
<1>1. Queries(i) = FilteredQueries(i) /\ Queries(i) \in Seq(Query)
  BY FilteredChoices, BuildAssumption
<1>2. PICK B \in SUBSET Label : B = Bitmap[i]
  BY DataAssumption
<1>3. PICK n \in Nat : n = Cardinality(B)
  BY LabelAssumption, FS_Subset, FS_CardinalityType
<1>4. Queries(i) = [j \in 1 .. n |-> About(i, {Ascending(B)[j]})]
  BY <1>1, <1>2, <1>3 DEF FilteredQueries
<1>5. k \in 1 .. n
  BY <1>3, <1>4
<1>6. PICK q \in Query : q = Queries(i)[k]
  BY <1>1
<1>7. PICK l \in B : l = Ascending(B)[k]
  <2>1. Enumerates(Ascending(B), B)
    BY AscendingEnumerates
  <2>. QED BY <1>3, <1>5, <2>1 DEF Enumerates
<1>8. q = About(i, {l})
  BY <1>4, <1>5, <1>6, <1>7
<1>9. Keys(q) = {l}
  BY <1>8, FilteredChoices DEF FilteredKeys, About
<1>10. medoids[l] \in Node
  <2>1. l \in Label /\ i \in Members(l) /\ ToSet(labels) = {}
    BY <1>2 DEF Members, ToSet
  <2>2. medoids[l] \in Members(l)
    BY <2>1 DEF MedoidInv
  <2>. QED BY <2>2 DEF Members
<1>11. medoids[l] \in Starts(q)
  <2>1. NoNode \notin Node
    BY BeamAssumption
  <2>. QED BY <1>9, <1>10, <2>1 DEF Starts
<1>. QED BY <1>6, <1>11

LEMMA AsksKept ==
    ASSUME Building, MedoidInv, [BuildNext]_buildVars
    PROVE  AsksHaveStarts'
<1>1. /\ GraphTypeOK /\ AsksHaveStarts
      /\ pc \in [Thread -> BuildLabels] /\ asks \in [Thread -> Seq(Query)]
  BY DEF Building, GraphInv, GraphTypeOK
<1>2. ASSUME UNCHANGED <<asks, medoids>>,
             \A u \in Thread : pc'[u] \notin {"ask", "search"} =>
                 pc[u] \notin {"ask", "search"} \/ asks[u] = <<>>
      PROVE  AsksHaveStarts'
  <2>1. ASSUME NEW u \in Thread, pc'[u] \notin {"ask", "search"} PROVE asks'[u] = <<>>
    BY <1>1, <1>2, <2>1 DEF AsksHaveStarts
  <2>2. ASSUME NEW u \in Thread, NEW k \in 1 .. Len(asks'[u])
        PROVE  (Starts(asks[u][k]) # {})'
    <3>. SUFFICES Starts(asks[u][k]) # {}
      BY <1>2 DEF Starts
    <3>. QED BY <1>1, <1>2, <2>2 DEF AsksHaveStarts
  <2>. QED BY <2>1, <2>2 DEF AsksHaveStarts
<1>3. ASSUME NEW t \in Thread, UNCHANGED medoids, NEW r, asks' = [asks EXCEPT ![t] = r],
             \A k \in 1 .. Len(r) : Starts(r[k]) # {},
             NEW to \in {"ask", "search"}, pc' = [pc EXCEPT ![t] = to]
      PROVE  AsksHaveStarts'
  <2>1. ASSUME NEW u \in Thread, pc'[u] \notin {"ask", "search"} PROVE asks'[u] = <<>>
    BY <1>1, <1>3, <2>1 DEF AsksHaveStarts
  <2>2. ASSUME NEW u \in Thread, NEW k \in 1 .. Len(asks'[u])
        PROVE  (Starts(asks[u][k]) # {})'
    <3>. SUFFICES Starts(asks'[u][k]) # {}
      BY <1>3 DEF Starts
    <3>1. CASE u = t
      BY <1>1, <1>3, <2>2, <3>1
    <3>2. CASE u # t
      <4>1. asks'[u] = asks[u]
        BY <1>1, <1>3, <3>2
      <4>. QED BY <1>1, <2>2, <4>1 DEF AsksHaveStarts
    <3>. QED BY <3>1, <3>2
  <2>. QED BY <2>1, <2>2 DEF AsksHaveStarts
<1>4. CASE UNCHANGED buildVars \/ Barrier
  <2>1. UNCHANGED <<asks, medoids>>
    BY <1>4 DEF buildVars, teamVars, Barrier
  <2>2. pc' = pc \/ \A u \in Thread : pc[u] = "barrier"
    BY <1>4 DEF buildVars, teamVars, Barrier
  <2>. QED BY <1>2, <2>1, <2>2
<1>5. ASSUME NEW t \in Thread, Insert(t) PROVE AsksHaveStarts'
  <2>1. UNCHANGED medoids /\ asks' = [asks EXCEPT ![t] = Queries(Inserting(t))]
    BY <1>5 DEF Insert
  <2>2. pc[t] = "insert" /\ pc' = [pc EXCEPT ![t] = "ask"]
    BY <1>5 DEF Insert, Goto
  <2>3. PICK i \in Node : i = Inserting(t)
    BY <1>1, <2>2 DEF GraphTypeOK, Inserting
  <2>4. labels = <<>>
    BY <2>2 DEF MedoidInv, SetupLabels
  <2>5. \A k \in 1 .. Len(Queries(i)) : Starts(Queries(i)[k]) # {}
    BY <2>4, QueriesHaveStarts
  <2>. QED BY <1>3, <2>1, <2>2, <2>3, <2>5
<1>6. ASSUME NEW t \in Thread, Ask(t) PROVE AsksHaveStarts'
  <2>1. /\ UNCHANGED medoids /\ asks' = [asks EXCEPT ![t] = Tail(asks[t])]
        /\ pc' = [pc EXCEPT ![t] = "search"]
    BY <1>6 DEF Ask, Goto
  <2>2. asks[t] # <<>> /\ asks[t] \in Seq(Query)
    BY <1>1, <1>6 DEF Ask, GraphTypeOK
  <2>3. ASSUME NEW k \in 1 .. Len(Tail(asks[t])) PROVE Starts(Tail(asks[t])[k]) # {}
    <3>1. Len(Tail(asks[t])) = Len(asks[t]) - 1 /\ Len(asks[t]) \in Nat
          /\ Tail(asks[t])[k] = asks[t][k + 1]
      BY <2>2
    <3>2. k + 1 \in 1 .. Len(asks[t])
      BY <3>1
    <3>3. Starts(asks[t][k + 1]) # {}
      BY <1>1, <3>2 DEF AsksHaveStarts
    <3>. QED BY <3>1, <3>3
  <2>. QED BY <1>3, <2>1, <2>3
<1>7. ASSUME NEW t \in Thread,
             \/ Claim(t) \/ Step(t) \/ Collect(t) \/ LockOwn(t) \/ Link(t) \/ StoreSlot(t)
             \/ StoreCount(t) \/ Unlock(t) \/ Inserted(t) \/ Serve(t) \/ Answer(t)
             \/ NoStart(t)
      PROVE  AsksHaveStarts'
  <2>1. UNCHANGED <<asks, medoids>>
    BY <1>7 DEF Claim, Step, Collect, LockOwn, Link, StoreSlot, StoreCount, Unlock,
                Inserted, Serve, Answer, NoStart, teamVars
  <2>2. \A u \in Thread \ {t} : pc'[u] = pc[u]
    <3>1. pc \in [Thread -> Labels] /\ Work(t)
      BY <1>1, <1>7 DEF Labels, Work
    <3>. QED BY <3>1, WorkMoves
  <2>3. \/ pc[t] \notin {"ask", "search"} \/ asks[t] = <<>>
        \/ pc'[t] \in {"ask", "search"}
    <3>1. CASE Step(t)
      BY <3>1 DEF Step, teamVars
    <3>2. CASE Collect(t)
      BY <1>1, <3>2 DEF Collect, Goto
    <3>3. CASE NoStart(t)
      <4>1. CASE pc[t] = "ask" /\ asks[t] # <<>>
        <5>1. Wanted(t) = {Head(asks[t])}
          BY <4>1 DEF Wanted
        <5>2. Starts(Head(asks[t])) # {}
          BY <1>1, <4>1 DEF AsksHaveStarts
        <5>. QED BY <3>3, <5>1, <5>2 DEF NoStart
      <4>2. CASE ~(pc[t] = "ask" /\ asks[t] # <<>>)
        BY <3>3, <4>2 DEF NoStart, Wanted
      <4>. QED BY <4>1, <4>2
    <3>. QED BY <1>7, <3>1, <3>2, <3>3 DEF Claim, LockOwn, Link, StoreSlot, StoreCount,
                                           Unlock, Inserted, Serve, Answer
  <2>. QED BY <1>2, <2>1, <2>2, <2>3
<1>. QED BY <1>4, <1>5, <1>6, <1>7 DEF BuildNext, Work

(* The searches of a build have starts, so that a query ended the process. *)
LEMMA ExitsKept ==
    ASSUME Building, [BuildNext]_buildVars
    PROVE  ExitsRightly'
<1>1. /\ AsksHaveStarts /\ ExitsRightly
      /\ pc \in [Thread -> BuildLabels] /\ asks \in [Thread -> Seq(Query)]
  BY DEF Building, GraphInv, GraphTypeOK
<1>2. CASE UNCHANGED buildVars
  BY <1>1, <1>2 DEF ExitsRightly, Starts, buildVars, teamVars
<1>3. CASE Barrier
  <2>1. \A u \in Thread : pc'[u] \in {"claim", "serve"}
    BY <1>3 DEF Barrier
  <2>. QED BY <2>1 DEF ExitsRightly
<1>4. ASSUME Alive, NEW t \in Thread, Work(t), pc'[t] # "exit" PROVE ExitsRightly'
  <2>1. \A u \in Thread \ {t} : pc'[u] = pc[u]
    BY <1>1, <1>4, WorkMoves DEF Labels
  <2>. QED BY <1>4, <2>1 DEF ExitsRightly, Alive
<1>5. ASSUME NEW t \in Thread, Work(t), pc'[t] = "exit" PROVE ExitsRightly'
  <2>1. NoStart(t) \/ pc[t] = "exit"
    <3>1. CASE Step(t) \/ StoreSlot(t) \/ StoreCount(t)
      BY <1>5, <3>1 DEF Step, StoreSlot, StoreCount, teamVars
    <3>2. CASE Link(t)
      BY <1>1, <1>5, <3>2 DEF Link, Goto
    <3>. QED BY <1>1, <1>5, <3>1, <3>2
             DEF Work, Claim, Insert, Ask, Collect, LockOwn, Unlock, Inserted, Serve,
                 Answer, Goto, AfterInsert
  <2>2. CASE NoStart(t)
    <3>1. PICK q \in Wanted(t) : Starts(q) = {}
      BY <2>2 DEF NoStart
    <3>2. q \in todo
      <4>1. CASE pc[t] = "ask" /\ asks[t] # <<>>
        BY <1>1, <3>1, <4>1 DEF Wanted, AsksHaveStarts
      <4>2. CASE ~(pc[t] = "ask" /\ asks[t] # <<>>)
        BY <3>1, <4>2 DEF Wanted
      <4>. QED BY <4>1, <4>2
    <3>3. UNCHANGED <<todo, medoids>>
      BY <2>2 DEF NoStart
    <3>. QED BY <3>1, <3>2, <3>3 DEF ExitsRightly, Starts
  <2>3. CASE pc[t] = "exit"
    BY <1>5, <2>3 DEF Work, Claim, Insert, Ask, Step, Collect, LockOwn, Link, StoreSlot,
                      StoreCount, Unlock, Inserted, Serve, Answer, NoStart, Wanted
  <2>. QED BY <2>1, <2>2, <2>3
<1>. QED BY <1>2, <1>3, <1>4, <1>5 DEF BuildNext

(* From the preparation to the build and through it.                       *)
LEMMA PhaseKept ==
    ASSUME FilteredInv, [FilteredNext]_indexVars
    PROVE  (Preparing \/ Building)'
<1>1. /\ CandidatesInv /\ MedoidInv /\ pc \in [Thread -> Labels]
      /\ Preparing \/ Building
  BY DEF FilteredInv, CandidatesInv
<1>2. ASSUME Building, [BuildNext]_buildVars PROVE Building'
  BY <1>1, <1>2, AsksKept, ExitsKept, BuildKeepsInv DEF Building
<1>3. ASSUME Preparing, UNCHANGED restVars, UNCHANGED graphVars, Drawing' PROVE Preparing'
  BY <1>3, RestKept, FirstGoodKept DEF Preparing
<1>4. CASE UNCHANGED indexVars
  <2>1. CASE Preparing
    <3>1. Drawing'
      BY <1>4, <2>1 DEF Preparing, Drawing, indexVars, buildVars, teamVars, graphVars
    <3>. QED BY <1>3, <1>4, <2>1, <3>1
             DEF indexVars, buildVars, teamVars, restVars
  <2>2. CASE Building
    BY <1>2, <1>4, <2>2 DEF indexVars
  <2>. QED BY <1>1, <2>1, <2>2
<1>5. ASSUME NEW t \in Thread, Scan(t) \/ Merge(t) PROVE Preparing'
  <2>1. pc[t] \in SetupLabels
    BY <1>5 DEF Scan, Merge, SetupLabels
  <2>2. Preparing
    BY <1>1, <2>1, BuildingDoesNotDraw
  <2>3. /\ UNCHANGED restVars /\ UNCHANGED graphVars
        /\ \E to \in SetupLabels : pc' = [pc EXCEPT ![t] = to]
    BY <1>5 DEF Scan, Merge, restVars, Goto, SetupLabels
  <2>4. Drawing'
    BY <1>1, <2>1, <2>2, <2>3 DEF Preparing, Drawing, graphVars, SetupLabels
  <2>. QED BY <1>3, <2>2, <2>3, <2>4
<1>6. CASE PickMedoid
  <2>1. PICK t \in Thread : pc[t] = "merged"
    BY <1>6, FilteredAssumption DEF PickMedoid
  <2>2. Preparing /\ \A p \in Node : num_neighbours[p] = 0
    BY <1>1, <2>1, BuildingDoesNotDraw DEF Preparing, Drawing, SetupLabels
  <2>3. /\ UNCHANGED restVars /\ UNCHANGED graphVars
        /\ \/ UNCHANGED <<pc, next>>
           \/ pc' = [u \in Thread |-> "draw"] /\ next' = 0
    BY <1>6 DEF PickMedoid, restVars
  <2>4. Drawing'
    BY <2>2, <2>3, NodeCount DEF Preparing, Drawing, graphVars
  <2>. QED BY <1>3, <2>2, <2>3, <2>4
<1>7. CASE StartBuild
  <2>1. PICK t \in Thread : pc[t] = "drawn"
    BY <1>7, FilteredAssumption DEF StartBuild
  <2>. QED BY <1>1, <1>7, <2>1, BuildingDoesNotDraw, StartBuilds
<1>8. CASE Alive /\ Barrier /\ UNCHANGED setupVars
  <2>1. PICK t \in Thread : pc[t] = "barrier"
    BY <1>8, FilteredAssumption DEF Barrier
  <2>2. Building
    BY <1>1, <2>1 DEF Preparing, Drawing, SetupLabels
  <2>. QED BY <1>2, <1>8, <2>2 DEF BuildNext
<1>9. ASSUME NEW t \in Thread, Draw(t) PROVE Preparing'
  <2>1. pc[t] = "draw"
    BY <1>9 DEF Draw
  <2>. QED BY <1>1, <1>9, <2>1, BuildingDoesNotDraw, DrawKeeps
<1>10. ASSUME Alive, NEW t \in Thread, Work(t), UNCHANGED setupVars PROVE Building'
  <2>1. Building
    BY <1>1, <1>10, WorkBuilds DEF Preparing
  <2>. QED BY <1>2, <1>10, <2>1 DEF BuildNext
<1>. QED BY <1>4, <1>5, <1>6, <1>7, <1>8, <1>9, <1>10 DEF FilteredNext, TeamStep, ThreadStep

(* Every step keeps the invariant.                                         *)
THEOREM FilteredSafety == FilteredSpec => []FilteredInv
<1>1. FilteredSpec => FilteredInit /\ [][FilteredNext]_indexVars
  BY PTL DEF FilteredSpec
<1>2. FilteredInv /\ [FilteredNext]_indexVars => FilteredInv'
  BY CandidatesKept, HeapsKept, MedoidsKept, PhaseKept DEF FilteredInv
<1>. QED BY <1>1, <1>2, FilteredStarts, PTL

LEMMA FilteredSearchTypes ==
    ASSUME FilteredInv
    PROVE  SearchTypeOK
<1>1. CASE Preparing
  <2>1. search \in [Thread -> Locals] /\ \A t \in Thread : ~search[t].reading
    BY <1>1, IdleTypes DEF Preparing, AtRest
  <2>2. /\ num_neighbours \in [Node -> Nat] /\ neighbours \in [Node -> [Slot -> Node]]
        /\ visited \in [Thread -> SUBSET Node]
    BY <1>1 DEF Preparing, AtRest, FirstGood
  <2>. QED BY <2>1, <2>2 DEF SearchTypeOK, Locals
<1>2. CASE Building
  BY <1>2 DEF Building, GraphInv, GraphTypeOK
<1>. QED BY <1>1, <1>2 DEF FilteredInv

(* Every field keeps its type: the heaps hold at most K members of their   *)
(* label, whatever chunks the threads scan, and no node is the medoid of   *)
(* more labels than there are.                                             *)
THEOREM FilteredTypes == FilteredSpec => []FilteredTypeOK
<1>1. FilteredInv => FilteredTypeOK
  <2>. SUFFICES ASSUME FilteredInv PROVE FilteredTypeOK
    OBVIOUS
  <2>1. SearchTypeOK
    BY FilteredSearchTypes
  <2>2. /\ medoids \in [Label -> Node \cup {NoNode}]
        /\ pc \in [Thread -> BuildLabels \cup {"scan", "merge", "merged", "draw", "drawn"}]
    BY DEF FilteredInv, MedoidInv, CandidatesInv, Labels, SetupLabels
  <2>3. usage \in [Node -> 0 .. Cardinality(Label)]
    <3>1. Cardinality(Label) \in Nat /\ Len(labels) \in Nat
      BY LabelAssumption, FS_CardinalityType DEF FilteredInv, MedoidInv
    <3>2. /\ usage \in [Node -> Nat]
          /\ \A i \in Node : usage[i] + Len(labels) <= Cardinality(Label)
      BY DEF FilteredInv, MedoidInv
    <3>3. \A i \in Node : usage[i] \in 0 .. Cardinality(Label)
      BY <3>1, <3>2
    <3>. QED BY <3>2, <3>3
  <2>4. ASSUME NEW l \in Label,
               NEW S \in {global_top_k[l]} \cup {local_top_k[t][l] : t \in Thread}
        PROVE  (\A i \in S : l \in Bitmap[i]) /\ Cardinality(S) <= K
    <3>1. S \in SUBSET Members(l) /\ Cardinality(S) <= K
      BY DEF FilteredInv, HeapsInv
    <3>. QED BY <3>1 DEF Members
  <2>. QED BY <2>1, <2>2, <2>3, <2>4 DEF FilteredTypeOK
<1>. QED BY <1>1, FilteredSafety, PTL

(* When the serial loop is through, a label has a medoid with the label,   *)
(* unless no node has it.                                                  *)
THEOREM FilteredMedoids == FilteredSpec => []MedoidsOwnLabel
<1>1. FilteredInv => MedoidsOwnLabel
  <2>. SUFFICES ASSUME MedoidInv, labels = <<>>, NEW l \in Label
                PROVE  IF \A i \in Node : l \notin Bitmap[i] THEN medoids[l] = NoNode
                       ELSE medoids[l] # NoNode /\ l \in Bitmap[medoids[l]]
    BY DEF FilteredInv, MedoidsOwnLabel
  <2>1. ToSet(labels) = {}
    BY DEF ToSet
  <2>2. (\A i \in Node : l \notin Bitmap[i]) <=> Members(l) = {}
    BY DEF Members
  <2>3. Members(l) = {} => medoids[l] = NoNode
    BY DEF MedoidInv
  <2>4. Members(l) # {} => medoids[l] \in Node /\ l \in Bitmap[medoids[l]]
    BY <2>1 DEF MedoidInv, Members
  <2>5. NoNode \notin Node
    BY BeamAssumption
  <2>. QED BY <2>2, <2>3, <2>4, <2>5
<1>. QED BY <1>1, FilteredSafety, PTL

(* Filtered_greedy_search takes its exit(1) (retriever.hpp:730) for a query *)
(* to the finished index with labels that no node has, and for nothing     *)
(* else: the searches of a build always have a medoid to start from.       *)
THEOREM FilteredExits == FilteredSpec => []ExitsForNoDocument
<1>1. FilteredInv => ExitsForNoDocument
  <2>. SUFFICES ASSUME FilteredInv, NEW t \in Thread, pc[t] = "exit"
                PROVE  /\ asks[t] = <<>>
                       /\ \E q \in todo : \A l \in q.mask : Members(l) = {}
    BY DEF ExitsForNoDocument
  <2>1. Building
    BY DEF FilteredInv, Preparing, Drawing, SetupLabels
  <2>2. asks[t] = <<>>
    BY <2>1 DEF Building, AsksHaveStarts
  <2>3. PICK q \in todo : Starts(q) = {}
    BY <2>1 DEF Building, ExitsRightly
  <2>4. Keys(q) = q.mask /\ q.mask \subseteq Label
    BY <2>1, BuildAssumption, FilteredChoices DEF Building, GraphInv, GraphTypeOK, FilteredKeys
  <2>5. ASSUME NEW l \in q.mask PROVE Members(l) = {}
    <3>1. medoids[l] = NoNode
      BY <2>3, <2>4 DEF Starts
    <3>2. labels = <<>>
      BY DEF FilteredInv, MedoidInv, SetupLabels
    <3>3. medoids[l] \in Members(l) \/ Members(l) = {}
      BY <2>4, <3>2 DEF FilteredInv, MedoidInv, ToSet
    <3>4. NoNode \notin Members(l)
      BY BeamAssumption DEF Members
    <3>. QED BY <3>1, <3>3, <3>4
  <2>. QED BY <2>2, <2>5
<1>. QED BY <1>1, FilteredSafety, PTL

(* Every list that nobody writes, the first lists included, names only     *)
(* nodes with a label of its own node, none twice and never the node       *)
(* itself, and no list is longer than its array.                           *)
THEOREM FilteredEdges == FilteredSpec => [](EdgesRelated /\ SimpleLists /\ DegreeBound)
<1>1. FilteredInv => EdgesRelated /\ SimpleLists /\ DegreeBound
  <2>1. CASE Building
    BY <2>1, ListsAreSimple DEF Building, GraphInv
  <2>2. CASE Preparing /\ FilteredInv
    <3>1. ASSUME NEW p \in Node
          PROVE  /\ p \notin Listed(p) /\ IsInjective(List(p))
                 /\ \A n \in Listed(p) : Related(p, n)
      <4>1. num_neighbours[p] <= MaxDegree /\ Good(p, List(p))
        BY <2>2 DEF Preparing, FirstGood
      <4>2. /\ List(p) \in Seq(Node) /\ Len(List(p)) = num_neighbours[p]
            /\ \A n \in Listed(p) : \E a \in 1 .. num_neighbours[p] : List(p)[a] = n
        BY <2>2, <4>1, FilteredSearchTypes, ListTypes
      <4>3. \A n \in Listed(p) : n # p /\ Related(p, n)
        BY <4>1, <4>2 DEF Good
      <4>4. IsInjective(List(p))
        BY <4>1, <4>2 DEF Good, IsInjective
      <4>. QED BY <4>3, <4>4
    <3>2. DegreeBound
      BY <2>2 DEF Preparing, FirstGood, AtRest, DegreeBound
    <3>. QED BY <3>1, <3>2 DEF EdgesRelated, SimpleLists
  <2>. QED BY <2>1, <2>2 DEF FilteredInv
<1>. QED BY <1>1, FilteredSafety, PTL

(* No list becomes empty again: a list is drawn once, for a node that has  *)
(* none, and a build keeps an edge in it.                                  *)
THEOREM FilteredNeverEmptied == FilteredSpec => NeverEmptied
<1>1. FilteredSpec => [][FilteredNext]_indexVars
  BY PTL DEF FilteredSpec
<1>2. FilteredInv /\ [FilteredNext]_indexVars =>
          [\A p \in Node : num_neighbours[p] > 0 => num_neighbours'[p] > 0]_buildVars
  <2>. SUFFICES ASSUME FilteredInv, [FilteredNext]_indexVars, NEW p \in Node,
                       num_neighbours[p] > 0
                PROVE  num_neighbours'[p] > 0
    OBVIOUS
  <2>1. CASE UNCHANGED num_neighbours
    BY <2>1
  <2>2. ASSUME NEW t \in Thread, Draw(t), next # Cardinality(Node)
        PROVE  num_neighbours'[p] > 0
    <3>1. MedoidInv /\ Preparing
      <4>1. pc[t] = "draw"
        BY <2>2 DEF Draw
      <4>. QED BY <4>1, BuildingDoesNotDraw DEF FilteredInv
    <3>2. PICK i \in Node : \E s \in GoodLists(i) :
              /\ i = next /\ next' = i + 1 /\ pc' = pc /\ num_neighbours[i] = 0
              /\ num_neighbours' = [num_neighbours EXCEPT ![i] = Len(s)]
              /\ neighbours' = [neighbours EXCEPT ![i] =
                     [k \in Slot |-> IF k < Len(s) THEN s[k + 1] ELSE neighbours[i][k]]]
      BY <2>2, <3>1, DrawGives DEF Preparing
    <3>3. p # i
      BY <3>2
    <3>4. num_neighbours'[p] = num_neighbours[p]
      BY <3>1, <3>2, <3>3 DEF Preparing, FirstGood
    <3>. QED BY <3>4
  <2>3. ASSUME NEW t \in Thread, Draw(t), next = Cardinality(Node)
        PROVE  UNCHANGED num_neighbours
    BY <2>3 DEF Draw, graphVars
  <2>4. ASSUME BuildNext, \E t \in Thread : Work(t) \/ Barrier PROVE num_neighbours'[p] > 0
    <3>1. Building
      <4>1. pc \in [Thread -> Labels]
        BY DEF FilteredInv, CandidatesInv
      <4>2. ~Barrier \/ ~Preparing
        BY FilteredAssumption DEF Barrier, Preparing, Drawing, SetupLabels
      <4>. QED BY <2>4, <4>1, <4>2, WorkBuilds DEF FilteredInv, Preparing
    <3>. QED BY <2>4, <3>1, BuildNeverEmpties DEF Building
  <2>5. CASE \/ UNCHANGED indexVars \/ PickMedoid \/ StartBuild
             \/ \E t \in Thread : Scan(t) \/ Merge(t)
    BY <2>1, <2>5 DEF indexVars, buildVars, PickMedoid, StartBuild, Scan, Merge, graphVars
  <2>. QED BY <2>1, <2>2, <2>3, <2>4, <2>5, FilteredAssumption
           DEF FilteredNext, TeamStep, ThreadStep, BuildNext
<1>. QED BY <1>1, <1>2, FilteredSafety, PTL DEF NeverEmptied

(* pair<float,int> orders any nodes by distance and id (retriever.hpp:721), *)
(* and the distances alone order them too.                                 *)
LEMMA FilteredOrders ==
    ASSUME NEW q \in Query, NEW V \in SUBSET Node
    PROVE  Ordered(q, V)
<1>1. \A a \in Node : a \in Int /\ Apart(q.of, a) \in Nat
  <2>1. Cardinality(Node) \in Nat
    BY DataAssumption, FS_CardinalityType
  <2>2. \A a \in 0 .. Cardinality(Node) - 1 : a \in Int
    BY <2>1
  <2>3. \A a \in Node : a \in Int
    BY <2>2, FilteredAssumption, Zenon
  <2>. QED BY <2>3, FilteredAssumption
<1>. DEFINE d(a) == Apart(q.of, a)
<1>2. ASSUME NEW a \in V, NEW b \in V
      PROVE  /\ Before(q, a, b) <=> d(a) < d(b) \/ (d(a) = d(b) /\ a < b)
             /\ Nearer(q, a, b) <=> d(a) < d(b)
  BY FilteredChoices DEF PairLess, DistLess
<1>3. \A a \in V : a \in Int /\ d(a) \in Nat
  BY <1>1
<1>. HIDE DEF d
<1>4. ASSUME NEW a \in V, NEW b \in V
      PROVE  /\ Before(q, a, b) => ~Before(q, b, a)
             /\ Nearer(q, a, b) => ~Nearer(q, b, a)
  BY <1>2, <1>3
<1>5. ASSUME NEW a \in V, NEW b \in V, NEW c \in V
      PROVE  /\ Before(q, a, b) => Before(q, a, c) \/ Before(q, c, b)
             /\ Nearer(q, a, b) => Nearer(q, a, c) \/ Nearer(q, c, b)
  BY <1>2, <1>3
<1>. QED BY <1>4, <1>5, OrderedMeans

(* While the index is prepared nobody searches, and the beams of the build *)
(* and of the queries are those of GraphBuild.                             *)
LEMMA FilteredSearchesKept ==
    ASSUME FilteredInv, FilteredInv', BeamInv, ExpandInv, [FilteredNext]_indexVars
    PROVE  BeamInv' /\ ExpandInv'
<1>1. CASE Preparing'
  <2>1. /\ \A t \in Thread : search'[t] = Idle
        /\ \A t \in Thread : pc'[t] \notin {"serve", "query"}
    BY <1>1 DEF Preparing, AtRest, Drawing, SetupLabels
  <2>. QED BY <2>1 DEF BeamInv, ExpandInv, Finished
<1>2. CASE StartBuild
  <2>1. UNCHANGED search /\ \A t \in Thread : pc'[t] = "claim"
    BY <1>2 DEF StartBuild, searchVars
  <2>. QED BY <2>1 DEF BeamInv, BeamBest, ExpandInv, Finished
<1>3. ASSUME Building, [BuildNext]_buildVars PROVE BeamInv' /\ ExpandInv'
  BY <1>3, BuildKeepsBeams, QueriesExpand DEF Building
<1>4. CASE ~Preparing' /\ ~StartBuild
  <2>1. Building'
    BY <1>4 DEF FilteredInv
  <2>2. \A t \in Thread : pc'[t] \notin SetupLabels \cup {"draw", "drawn"}
    BY <2>1 DEF Building, GraphInv, GraphTypeOK, BuildLabels, SetupLabels
  <2>3. pc \in [Thread -> Labels]
    BY DEF FilteredInv, CandidatesInv
  <2>4. \A t \in Thread : ~Scan(t) /\ ~Merge(t) /\ ~Draw(t)
    <3>1. ASSUME NEW t \in Thread, Scan(t) \/ Merge(t) \/ Draw(t) PROVE FALSE
      <4>1. pc'[t] \in SetupLabels \cup {"draw", "drawn"}
        BY <2>3, <3>1 DEF Scan, Merge, Draw, Goto, SetupLabels
      <4>. QED BY <2>2, <4>1
    <3>. QED BY <3>1
  <2>5. ~PickMedoid
    <3>1. ASSUME PickMedoid PROVE FALSE
      <4>1. PICK t \in Thread : TRUE
        BY FilteredAssumption
      <4>2. pc'[t] = "merged" \/ pc'[t] = "draw"
        BY <3>1 DEF PickMedoid
      <4>. QED BY <2>2, <4>2 DEF SetupLabels
    <3>. QED BY <3>1
  <2>6. [BuildNext]_buildVars
    BY <1>4, <2>4, <2>5 DEF FilteredNext, TeamStep, ThreadStep, BuildNext, indexVars
  <2>7. Building
    <3>1. PICK t \in Thread : TRUE
      BY FilteredAssumption
    <3>2. CASE UNCHANGED buildVars
      <4>1. pc[t] \notin SetupLabels \cup {"draw", "drawn"}
        BY <2>2, <3>2 DEF buildVars, teamVars
      <4>. QED BY <4>1 DEF FilteredInv, Preparing, Drawing
    <3>3. CASE Barrier
      BY <3>1, <3>3 DEF Barrier, FilteredInv, Preparing, Drawing, SetupLabels
    <3>4. CASE \E u \in Thread : Work(u)
      BY <2>3, <3>4, WorkBuilds DEF FilteredInv, Preparing
    <3>. QED BY <2>6, <3>2, <3>3, <3>4 DEF BuildNext
  <2>. QED BY <1>3, <2>6, <2>7
<1>. QED BY <1>1, <1>2, <1>4

(* The searches of the filtered index, those during the build as well as   *)
(* the queries of the finished one, return the L nearest of all nodes they *)
(* have visited, with visited bytes that are theirs alone; and a query has *)
(* looked at all admissible neighbours of what it returns.  The condition  *)
(* of both, that what was visited is ordered, holds of every search here.  *)
THEOREM FilteredSearches ==
    FilteredSpec => [](/\ VisitedExact /\ BestOfVisited /\ ResultsExpanded
                       /\ \A t \in Thread : Found(t) => Ordered(search[t].query, search[t].seen))
<1>1. FilteredSpec => FilteredInit /\ [][FilteredNext]_indexVars
  BY PTL DEF FilteredSpec
<1>2. FilteredInit => BeamInv /\ ExpandInv
  <2>. SUFFICES ASSUME FilteredInit PROVE BeamInv /\ ExpandInv
    OBVIOUS
  <2>1. /\ \A t \in Thread : search[t] = Idle
        /\ \A t \in Thread : pc[t] = "scan"
    BY DEF FilteredInit
  <2>. QED BY <2>1 DEF BeamInv, ExpandInv, Finished
<1>3. FilteredInv /\ FilteredInv' /\ (BeamInv /\ ExpandInv) /\ [FilteredNext]_indexVars =>
          (BeamInv /\ ExpandInv)'
  BY FilteredSearchesKept
<1>4. FilteredInv => \A t \in Thread : Found(t) => Ordered(search[t].query, search[t].seen)
  <2>. SUFFICES ASSUME FilteredInv, NEW t \in Thread, Found(t)
                PROVE  Ordered(search[t].query, search[t].seen)
    OBVIOUS
  <2>1. search[t].query \in Query /\ search[t].seen \in SUBSET Node
    BY FilteredSearchTypes, LocalTypes DEF Found, Locals
  <2>. QED BY <2>1, FilteredOrders
<1>5. FilteredInv /\ BeamInv /\ ExpandInv => VisitedExact /\ BestOfVisited /\ ResultsExpanded
  <2>. SUFFICES ASSUME FilteredInv, BeamInv, ExpandInv
                PROVE  VisitedExact /\ BestOfVisited /\ ResultsExpanded
    OBVIOUS
  <2>1. CASE Building
    BY <2>1, BeamsAreBest, QueriesEndAtAnOptimum DEF Building, GraphInv
  <2>2. CASE Preparing
    <3>1. \A t \in Thread : visited[t] = {} /\ search[t] = Idle
      BY <2>2 DEF Preparing, AtRest
    <3>2. ~(\E t \in Thread : Found(t))
      BY <3>1 DEF Found, Idle
    <3>. QED BY <3>1, <3>2 DEF VisitedExact, BestOfVisited, ResultsExpanded, Idle
  <2>. QED BY <2>1, <2>2 DEF FilteredInv
<1>. QED BY <1>1, <1>2, <1>3, <1>4, <1>5, FilteredSafety, PTL
=============================================================================
