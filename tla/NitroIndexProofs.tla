-------------------------- MODULE NitroIndexProofs --------------------------
(***************************************************************************)
(* The joint attribute graph keeps what GraphBuildProofs says of any       *)
(* build: it starts in GraphInv, and its robust_prune meets                *)
(* PruneAssumption.                                                        *)
(***************************************************************************)
EXTENDS NitroIndex, GraphBuildProofs

LEMMA NitroStartsWell == NitroInit => GraphInv
<1>. SUFFICES ASSUME NitroInit PROVE GraphInv
  OBVIOUS
<1>1. /\ NoNode \notin Node /\ 0 \in Slot /\ MaxDegree \in Nat \ {0}
      /\ Passes \in Nat \ {0} /\ Len(Order) \in Nat
  <2>1. MaxDegree \in Nat \ {0} /\ 0 \in Slot
    BY DataAssumption DEF Slot
  <2>2. Order \in Seq(Node) /\ Passes \in Nat \ {0}
    BY BuildAssumption
  <2>3. Len(Order) \in Nat
    BY <2>2
  <2>4. NoNode \notin Node
    BY BeamAssumption
  <2>. QED BY <2>1, <2>2, <2>3, <2>4
<1>2. /\ num_neighbours = [p \in Node |-> 0]
      /\ neighbours \in [Node -> [Slot -> Node]]
      /\ \E m \in Node : medoids = [k \in MedoidKeys |-> m]
  BY NitroAssumption DEF NitroInit, GlobalMedoids
<1>3. /\ visited = [t \in Thread |-> {}] /\ search = [t \in Thread |-> Idle]
      /\ pass = 1 /\ next = 0 /\ todo = Serving
      /\ mine = [t \in Thread |-> <<>>] /\ asks = [t \in Thread |-> <<>>]
      /\ pc = [t \in Thread |-> "claim"]
      /\ cands = [t \in Thread |-> {}] /\ at = [t \in Thread |-> NoNode]
      /\ stores = [t \in Thread |-> {}] /\ counts = [t \in Thread |-> {}]
      /\ links = [t \in Thread |-> <<>>]
  BY DEF NitroInit, GraphBuildInit
<1>4. SearchTypeOK
  BY <1>1, <1>2, <1>3 DEF SearchTypeOK, Idle
<1>5. GraphTypeOK
  <2>1. /\ medoids \in [MedoidKeys -> Node \cup {NoNode}]
        /\ pass \in 1 .. Passes /\ next \in 0 .. Len(Order)
    BY <1>1, <1>2, <1>3
  <2>2. /\ mine \in [Thread -> Seq(Node)] /\ asks \in [Thread -> Seq(Query)]
        /\ links \in [Thread -> Seq(Node)]
    BY <1>3
  <2>3. /\ pc \in [Thread -> BuildLabels]
        /\ cands \in [Thread -> SUBSET Node]
        /\ at \in [Thread -> Node \cup {NoNode}]
        /\ stores \in [Thread -> SUBSET (Nat \X Node)]
        /\ counts \in [Thread -> SUBSET Nat]
        /\ todo \subseteq Serving
    BY <1>3 DEF BuildLabels
  <2>4. \A t \in Thread : pc[t] = "claim" /\ at[t] = NoNode
    BY <1>3
  <2>. QED BY <1>4, <2>1, <2>2, <2>3, <2>4 DEF GraphTypeOK
<1>6. DegreeBound
  BY <1>1, <1>2, <1>3 DEF DegreeBound
<1>7. Exclusive /\ Searching /\ VisitedExact
  BY <1>3 DEF Exclusive, Searching, VisitedExact, Idle
<1>8. LinksGood
  BY <1>3 DEF LinksGood
<1>9. ListsGood
  <2>1. \A p \in Node : List(p) \in Seq(Node) /\ Len(List(p)) = 0
    BY <1>1, <1>2, <1>4, ListTypes
  <2>. QED BY <1>1, <2>1 DEF ListsGood, Good
<1>10. WritesGood
  BY <1>3 DEF WritesGood
<1>. QED BY <1>5, <1>6, <1>7, <1>8, <1>9, <1>10 DEF GraphInv

(* Two bounded lanes over a node's candidates fit its array together, and  *)
(* the second is never closed altogether.                                  *)
LEMMA Budgets ==
    /\ budget_SEMANTIC \in Nat /\ budget_VECTOR \in Nat
    /\ budget_SEMANTIC + budget_VECTOR = MaxDegree
    /\ budget_VECTOR > 0
<1>. DEFINE d == (MaxDegree * 5) \div 8
<1>1. MaxDegree \in Nat /\ MaxDegree > 0
  BY DataAssumption
<1>2. d \in Int /\ 8 * d <= MaxDegree * 5 /\ MaxDegree * 5 < 8 * d + 8
  BY <1>1
<1>. HIDE DEF d
<1>3. d \in Nat /\ d < MaxDegree
  BY <1>1, <1>2
<1>. QED BY <1>1, <1>3 DEF budget_SEMANTIC, budget_VECTOR, d

(* What a lane keeps: candidates, each once, no more than its budget, and  *)
(* one if there is a candidate and a budget.                               *)
LEMMA SemanticLane ==
    ASSUME NEW p, NEW C, NEW k, NEW s \in SemanticEdges(p, C, k)
    PROVE  /\ s \in Seq(C) /\ Len(s) <= budget_SEMANTIC
           /\ \A a, b \in 1 .. Len(s) : s[a] = s[b] => a = b
<1>1. /\ s \in BoundedSeq(C, budget_SEMANTIC)
      /\ \A i, j \in DOMAIN s : i < j => s[i] # s[j]
  BY DEF SemanticEdges, Lanes
<1>2. PICK n \in 0 .. budget_SEMANTIC : s \in [1 .. n -> C]
  BY <1>1 DEF BoundedSeq, SeqOf
<1>3. s \in Seq(C) /\ Len(s) = n /\ DOMAIN s = 1 .. Len(s)
  BY <1>2
<1>. QED BY <1>1, <1>2, <1>3, Budgets

LEMMA VectorLane ==
    ASSUME NEW p, NEW C, NEW k, NEW s \in VectorEdges(p, C, k)
    PROVE  /\ s \in Seq(C) /\ Len(s) <= budget_VECTOR
           /\ \A a, b \in 1 .. Len(s) : s[a] = s[b] => a = b
           /\ C # {} => Len(s) > 0
<1>1. /\ s \in BoundedSeq(C, budget_VECTOR)
      /\ \A i, j \in DOMAIN s : i < j => s[i] # s[j]
      /\ \A c \in C \ ToSet(s) : Len(s) = budget_VECTOR \/ \E i \in DOMAIN s : TRUE
  BY DEF VectorEdges, Lanes
<1>2. PICK n \in 0 .. budget_VECTOR : s \in [1 .. n -> C]
  BY <1>1 DEF BoundedSeq, SeqOf
<1>3. s \in Seq(C) /\ Len(s) = n /\ DOMAIN s = 1 .. Len(s)
  BY <1>2
<1>4. ASSUME NEW c \in C PROVE Len(s) > 0
  <2>1. CASE c \in ToSet(s)
    BY <1>3, <2>1 DEF ToSet
  <2>2. CASE c \notin ToSet(s)
    BY <1>1, <1>3, <1>4, <2>2, Budgets
  <2>. QED BY <2>1, <2>2
<1>. QED BY <1>1, <1>2, <1>3, <1>4, Budgets

(* The robust_prune of the joint attribute graph (JAG_new.cpp:234) meets   *)
(* PruneAssumption: its two lanes together keep candidates of the node,    *)
(* each once, no more than fit, and one if there is a candidate.           *)
THEOREM JagPruneFits ==
    ASSUME NEW p \in Node, NEW k \in 1 .. Passes,
           NEW C \in SUBSET (Node \ {p}), NEW s \in JagPrune(p, C, k)
    PROVE  /\ s \in Seq({c \in C : NitroRelated(p, c)})
           /\ Len(s) <= MaxDegree
           /\ \A a, b \in DOMAIN s : s[a] = s[b] => a = b
           /\ (\E c \in C : NitroRelated(p, c)) => s # <<>>
<1>1. PICK sem \in SemanticEdges(p, C, k) :
          \E vec \in VectorEdges(p, C \ ToSet(sem), k) : s = sem \o vec
  BY DEF JagPrune
<1>2. PICK vec \in VectorEdges(p, C \ ToSet(sem), k) : s = sem \o vec
  BY <1>1
<1>3. /\ sem \in Seq(C) /\ Len(sem) <= budget_SEMANTIC
      /\ \A a, b \in 1 .. Len(sem) : sem[a] = sem[b] => a = b
  BY SemanticLane
<1>4. /\ vec \in Seq(C \ ToSet(sem)) /\ Len(vec) <= budget_VECTOR
      /\ \A a, b \in 1 .. Len(vec) : vec[a] = vec[b] => a = b
      /\ C \ ToSet(sem) # {} => Len(vec) > 0
  BY VectorLane
<1>5. \A a \in 1 .. Len(sem) : sem[a] \in ToSet(sem)
  BY <1>3 DEF ToSet
<1>6. vec \in Seq(C) /\ \A a \in 1 .. Len(vec) : vec[a] \notin ToSet(sem)
  BY <1>4
<1>7. /\ s \in Seq(C) /\ Len(s) = Len(sem) + Len(vec)
      /\ DOMAIN s = 1 .. Len(s)
      /\ \A a \in 1 .. Len(sem) : s[a] = sem[a]
      /\ \A a \in 1 .. Len(vec) : s[Len(sem) + a] = vec[a]
  BY <1>2, <1>3, <1>6
<1>8. Len(s) <= MaxDegree
  BY <1>3, <1>4, <1>7, Budgets
<1>9. ASSUME NEW a \in 1 .. Len(s), NEW b \in 1 .. Len(s), s[a] = s[b]
      PROVE  a = b
  <2>1. \A i \in 1 .. Len(s) : i \in 1 .. Len(sem) \/
            \E j \in 1 .. Len(vec) : i = Len(sem) + j /\ s[i] = vec[j]
    <3>. TAKE i \in 1 .. Len(s)
    <3>1. i \notin 1 .. Len(sem) => i - Len(sem) \in 1 .. Len(vec)
                                    /\ i = Len(sem) + (i - Len(sem))
      BY <1>3, <1>4, <1>7
    <3>. QED BY <1>7, <3>1
  <2>2. CASE a \in 1 .. Len(sem) /\ b \in 1 .. Len(sem)
    BY <1>3, <1>7, <1>9, <2>2
  <2>3. CASE a \in 1 .. Len(sem) /\ b \notin 1 .. Len(sem)
    BY <1>5, <1>6, <1>7, <1>9, <2>1, <2>3
  <2>4. CASE a \notin 1 .. Len(sem) /\ b \in 1 .. Len(sem)
    BY <1>5, <1>6, <1>7, <1>9, <2>1, <2>4
  <2>5. CASE a \notin 1 .. Len(sem) /\ b \notin 1 .. Len(sem)
    BY <1>4, <1>9, <2>1, <2>5
  <2>. QED BY <2>2, <2>3, <2>4, <2>5
<1>10. ASSUME NEW c \in C PROVE s # <<>>
  <2>1. CASE c \in ToSet(sem)
    BY <1>3, <1>7, <2>1 DEF ToSet
  <2>2. CASE c \notin ToSet(sem)
    BY <1>3, <1>4, <1>7, <2>2
  <2>. QED BY <2>1, <2>2
<1>11. {c \in C : NitroRelated(p, c)} = C
  BY DEF NitroRelated
<1>. QED BY <1>7, <1>8, <1>9, <1>10, <1>11

-----------------------------------------------------------------------------
(* Every reachable state of the index, while it is built and while it     *)
(* answers, satisfies GraphInv.                                            *)
THEOREM NitroSafety == NitroSpec => []GraphInv
<1>1. NitroSpec => NitroInit /\ [][BuildNext]_buildVars
  BY PTL DEF NitroSpec
<1>. QED BY <1>1, NitroStartsWell, BuildKeepsInv, PTL

(* Every field keeps its type, and a thread holds a lock exactly while it  *)
(* makes stores.                                                           *)
THEOREM NitroTypes == NitroSpec => []GraphTypeOK
<1>1. GraphInv => GraphTypeOK
  BY DEF GraphInv
<1>. QED BY <1>1, NitroSafety, PTL

(* neighbours[max_degree] is never overrun, for any team and any degree.   *)
THEOREM NitroDegree == NitroSpec => []DegreeBound
<1>1. GraphInv => DegreeBound
  BY DEF GraphInv
<1>. QED BY <1>1, NitroSafety, PTL

(* Lists that nobody writes name no node twice and never their own.        *)
THEOREM NitroSimple == NitroSpec => []SimpleLists
BY ListsAreSimple, NitroSafety, PTL

(* The visited bytes of a thread are those of its running search.          *)
THEOREM NitroVisited == NitroSpec => []VisitedExact
<1>1. GraphInv => VisitedExact
  BY DEF GraphInv
<1>. QED BY <1>1, NitroSafety, PTL

(* No interleaving of prunes and appends takes a node's last edge.         *)
THEOREM NitroNeverEmptied == NitroSpec => NeverEmptied
<1>1. NitroSpec => [][BuildNext]_buildVars
  BY PTL DEF NitroSpec
<1>2. GraphInv /\ [BuildNext]_buildVars =>
          [\A p \in Node : num_neighbours[p] > 0 => num_neighbours'[p] > 0]_buildVars
  BY BuildNeverEmpties
<1>. QED BY <1>1, <1>2, NitroSafety, PTL DEF NeverEmptied

(* What a search returns is L of the nodes it has visited, and the L best  *)
(* of them if operator< (JAG_new.cpp:53) orders what it has visited; when  *)
(* its tolerance does not, nothing is said of how good they are.           *)
THEOREM NitroBest == NitroSpec => []BestOfVisited
<1>1. NitroSpec => NitroInit /\ [][BuildNext]_buildVars
  BY PTL DEF NitroSpec
<1>2. NitroInit => BeamInv
  BY DEF NitroInit, GraphBuildInit, BeamInv
<1>. QED BY <1>1, <1>2, NitroSafety, BuildKeepsBeams, BeamsAreBest, PTL

LEMMA PenaltyTypes ==
    ASSUME NEW q \in Query, NEW n \in Node
    PROVE  get_query_penalty(q, n) \in Int /\ Apart(q.of, n) \in Int
<1>1. /\ IsFiniteSet(q.mask) /\ q.min \in Nat /\ q.max \in Nat
      /\ Apart(q.of, n) \in Nat /\ SigmaSubset \in Nat /\ SigmaRange \in Nat
      /\ Attr[n] \in Nat
  BY JagAssumption, DataAssumption
<1>2. Cardinality(q.mask \ Bitmap[n]) \in Nat
  <2>1. IsFiniteSet(q.mask \ Bitmap[n])
    BY <1>1, FS_Subset
  <2>. QED BY <2>1, FS_CardinalityType
<1>3. OutOfRange(Attr[n], q.min, q.max) \in Int
  BY <1>1 DEF OutOfRange
<1>. QED BY <1>1, <1>2, <1>3 DEF get_query_penalty, Scaled

(* Penalties that differ clearly or not at all, then distances.            *)
LEMMA NitroLessMeans ==
    ASSUME NEW pa \in Int, NEW pb \in Int, NEW da \in Int, NEW db \in Int,
           pa = pb \/ Gap(pa, pb) > Epsilon
    PROVE  NitroLess(pa, da, pb, db) <=> pa < pb \/ (pa = pb /\ da < db)
<1>1. Epsilon \in Nat
  BY JagAssumption
<1>2. CASE pa = pb
  BY <1>1, <1>2 DEF NitroLess, Gap
<1>3. CASE pa # pb
  BY <1>3 DEF NitroLess
<1>. QED BY <1>2, <1>3

(* The tolerance does no harm to a query for which any two penalties are   *)
(* equal or more than the tolerance apart: operator< (JAG_new.cpp:53) then *)
(* orders every set of nodes, as the other theorems ask of it.             *)
THEOREM NitroOrders ==
    ASSUME NEW q \in Query, NEW V \in SUBSET Node,
           \A a, b \in V : \/ get_query_penalty(q, a) = get_query_penalty(q, b)
                           \/ Gap(get_query_penalty(q, a), get_query_penalty(q, b)) > Epsilon
    PROVE  Ordered(q, V)
<1>. DEFINE p(a) == get_query_penalty(q, a)
            d(a) == Apart(q.of, a)
<1>1. \A a \in V : p(a) \in Int /\ d(a) \in Int
  BY PenaltyTypes
<1>2. ASSUME NEW a \in V, NEW b \in V
      PROVE  /\ Before(q, a, b) <=> p(a) < p(b) \/ (p(a) = p(b) /\ d(a) < d(b))
             /\ Nearer(q, a, b) <=> p(a) < p(b) \/ (p(a) = p(b) /\ d(a) < d(b))
  <2>1. /\ Before(q, a, b) = NitroLess(p(a), d(a), p(b), d(b))
        /\ Nearer(q, a, b) = NitroLess(p(a), d(a), p(b), d(b))
    BY NitroRules DEF QueryLess
  <2>2. /\ p(a) \in Int /\ p(b) \in Int /\ d(a) \in Int /\ d(b) \in Int
        /\ p(a) = p(b) \/ Gap(p(a), p(b)) > Epsilon
    BY <1>1
  <2>. HIDE DEF p, d
  <2>3. NitroLess(p(a), d(a), p(b), d(b)) <=> p(a) < p(b) \/ (p(a) = p(b) /\ d(a) < d(b))
    BY <2>2, NitroLessMeans
  <2>. QED BY <2>1, <2>3
<1>. HIDE DEF p, d
<1>3. /\ \A a, b \in V : Before(q, a, b) => ~Before(q, b, a)
      /\ \A a, b \in V : Nearer(q, a, b) => ~Nearer(q, b, a)
  BY <1>1, <1>2
<1>4. ASSUME NEW a \in V, NEW b \in V, NEW c \in V
      PROVE  /\ Before(q, a, b) => Before(q, a, c) \/ Before(q, c, b)
             /\ Nearer(q, a, b) => Nearer(q, a, c) \/ Nearer(q, c, b)
  BY <1>1, <1>2
<1>. QED BY <1>3, <1>4, OrderedMeans

-----------------------------------------------------------------------------
(***************************************************************************)
(* After the first pass every node has an edge.  A node other than the     *)
(* medoid finds at least the medoid and keeps something of what it found.  *)
(* The medoid itself finds nothing if it comes first; but as long as its   *)
(* list is empty every search ends at it, every other node has an edge to  *)
(* it and to nothing else, and links back: the first that does fills it.   *)
(***************************************************************************)

(* Whatever thread t is writing, when it is done the list is not empty.    *)
Fills(t) ==
    /\ \A c \in counts[t] : c > 0
    /\ counts[t] = {} => num_neighbours[at[t]] > 0

(* Thread t is on its way to a list of one node, m.                        *)
WritesOnly(t, m) ==
    /\ stores[t] \subseteq {<<0, m>>}
    /\ <<0, m>> \in stores[t] \/ neighbours[at[t]][0] = m
    /\ \/ counts[t] = {1}
       \/ counts[t] = {} /\ num_neighbours[at[t]] = 1

(* Thread t knows of no node but m.                                        *)
KnowsOnly(t, m) ==
    /\ search[t].heap \subseteq {m} /\ search[t].seen \subseteq {m}
    /\ search[t].curr \in {m, NoNode} /\ ~search[t].reading
    /\ cands[t] \subseteq {m}
    /\ \A a \in 1 .. Len(links[t]) : links[t][a] = m

(* While the list of m is empty, no thread and no list has another node.   *)
Alone(m) ==
    num_neighbours[m] = 0 =>
        /\ \A t \in Thread :
               /\ KnowsOnly(t, m)
               /\ pc[t] = "store" /\ at[t] # m =>
                      at[t] = Inserting(t) /\ WritesOnly(t, m)
        /\ \A p \in Node \ {m} : Unlocked(p) => Listed(p) \subseteq {m}

(* A node that is inserted has found m, gets a list that is not empty and  *)
(* adds itself to that of m, unless m has an edge already.                 *)
Joins(t, m) ==
    /\ pc[t] = "search" => m \in search[t].seen
    /\ pc[t] = "ask" /\ asks[t] = <<>> => m \in cands[t]
    /\ pc[t] = "store" /\ ~(at[t] = m /\ Inserting(t) = m) => Fills(t)
    /\ pc[t] = "store" /\ at[t] # Inserting(t) /\ Inserting(t) # m =>
           num_neighbours[Inserting(t)] > 0
    /\ pc[t] = "link" /\ Inserting(t) # m =>
           /\ num_neighbours[Inserting(t)] > 0
           /\ \/ num_neighbours[m] > 0
              \/ \E a \in 1 .. Len(links[t]) : links[t][a] = m

(* Node i has an edge, and has seen to it that m has one.                  *)
Joined(m, i) == i # m => num_neighbours[i] > 0 /\ num_neighbours[m] > 0

InHand(i) == \E t \in Thread : \E a \in 1 .. Len(mine[t]) : mine[t][a] = i

(* The nodes that were handed out have joined or belong to a thread.       *)
Progress(m) ==
    /\ \A t \in Thread :
           /\ pc[t] \notin {"insert", "ask", "search", "store", "link"} =>
                  mine[t] = <<>>
           /\ pc[t] = "barrier" => next = Len(Order)
    /\ pass = 1 => \A k \in 1 .. next : Joined(m, Order[k]) \/ InHand(Order[k])
    /\ pass > 1 => \A i \in Node : Joined(m, i)

ConnectInv ==
    \E m \in Node :
        /\ \A q \in Query : Starts(q) = {m}
        /\ Alone(m) /\ (\A t \in Thread : Joins(t, m)) /\ Progress(m)

(* Every node is related to every other in this index: a prune keeps       *)
(* candidates, each once, and one if there is one.                         *)
LEMMA NitroRewriteGives ==
    ASSUME GraphTypeOK, DegreeBound, NEW t \in Thread, NEW p \in Node,
           NEW V \in SUBSET Node, Rewrite(t, p, V)
    PROVE  \E s \in Seq(Candidates(p, V)) :
               /\ Candidates(p, V) # {} => Len(s) > 0
               /\ \A a, b \in 1 .. Len(s) : s[a] = s[b] => a = b
               /\ stores' = [stores EXCEPT ![t] = {<<i - 1, s[i]>> : i \in 1 .. Len(s)}]
               /\ counts' = [counts EXCEPT ![t] = {Len(s)}]
<1>. DEFINE C == Candidates(p, V)
<1>1. PICK s \in Prune(p, C, pass) :
          /\ stores' = [stores EXCEPT ![t] = {<<i - 1, s[i]>> : i \in DOMAIN s}]
          /\ counts' = [counts EXCEPT ![t] = {Len(s)}]
  BY DEF Rewrite, NewCounts
<1>2. Listed(p) \subseteq Node /\ pass \in 1 .. Passes
  BY ListTypes DEF GraphTypeOK, DegreeBound
<1>3. C \in SUBSET (Node \ {p})
  BY <1>2 DEF Candidates
<1>4. /\ s \in Seq({c \in C : Related(p, c)})
      /\ \A a, b \in DOMAIN s : s[a] = s[b] => a = b
      /\ (\E c \in C : Related(p, c)) => s # <<>>
  BY <1>1, <1>2, <1>3, PruneAssumption
<1>5. \A c \in C : Related(p, c)
  BY <1>3, NitroRules DEF NitroRelated
<1>6. {c \in C : Related(p, c)} = C
  BY <1>5
<1>. HIDE DEF C
<1>7. s \in Seq(C) /\ DOMAIN s = 1 .. Len(s) /\ (C # {} => s # <<>>)
  BY <1>4, <1>5, <1>6
<1>8. C # {} => Len(s) > 0
  BY <1>7
<1>. QED BY <1>1, <1>4, <1>7, <1>8 DEF C

(* Of one node there is one list that is not empty and names it once.      *)
LEMMA OneCandidate ==
    ASSUME NEW m, NEW s \in Seq({m}), Len(s) > 0,
           \A a, b \in 1 .. Len(s) : s[a] = s[b] => a = b
    PROVE  /\ Len(s) = 1
           /\ {<<i - 1, s[i]>> : i \in 1 .. Len(s)} = {<<0, m>>}
<1>1. Len(s) \in Nat /\ \A a \in 1 .. Len(s) : s[a] = m
  OBVIOUS
<1>2. 1 \in 1 .. Len(s) /\ (Len(s) # 1 => 2 \in 1 .. Len(s))
  <2>. DEFINE n == Len(s)
  <2>1. n \in Nat /\ n > 0
    BY <1>1
  <2>. HIDE DEF n
  <2>2. 1 \in 1 .. n /\ (n # 1 => 2 \in 1 .. n)
    BY <2>1
  <2>. QED BY <2>2 DEF n
<1>3. Len(s) = 1
  <2>1. 1 # 2
    OBVIOUS
  <2>. QED BY <1>1, <1>2, <2>1
<1>4. \A i \in 1 .. Len(s) : <<i - 1, s[i]>> = <<0, m>>
  BY <1>1, <1>3
<1>. QED BY <1>2, <1>3, <1>4

(* A list that is empty and one of a single node, as sets and sequences.   *)
LEMMA ShortLists ==
    ASSUME SearchTypeOK, NEW p \in Node
    PROVE  /\ num_neighbours[p] = 0 => Listed(p) = {} /\ Len(List(p)) = 0
           /\ num_neighbours[p] = 1 => /\ Listed(p) = {neighbours[p][0]}
                                       /\ Len(List(p)) = 1
                                       /\ List(p)[1] = neighbours[p][0]
<1>1. num_neighbours[p] \in Nat /\ neighbours[p] \in [Slot -> Node]
  BY DEF SearchTypeOK
<1>2. MaxDegree \in Nat \ {0} /\ neighbours[p][0] \in Node
  BY <1>1, DataAssumption DEF Slot
<1>3. num_neighbours[p] = 0 => Listed(p) = {} /\ Len(List(p)) = 0
  BY <1>1, <1>2, ListTypes
<1>4. ASSUME num_neighbours[p] = 1
      PROVE  /\ Listed(p) = {neighbours[p][0]}
             /\ Len(List(p)) = 1 /\ List(p)[1] = neighbours[p][0]
  <2>1. 0 .. num_neighbours[p] - 1 = {0}
    BY <1>4
  <2>2. num_neighbours[p] <= MaxDegree
    BY <1>2, <1>4
  <2>3. Len(List(p)) = 1 /\ List(p)[1] = neighbours[p][0]
    <3>1. /\ Len(List(p)) = num_neighbours[p]
          /\ \A a \in 1 .. num_neighbours[p] : List(p)[a] = neighbours[p][a - 1]
      BY <2>2, ListTypes
    <3>2. 1 \in 1 .. num_neighbours[p] /\ 1 - 1 = 0
      BY <1>4
    <3>3. List(p)[1] = neighbours[p][1 - 1]
      BY <3>1, <3>2
    <3>. QED BY <1>4, <3>1, <3>2, <3>3
  <2>. QED BY <2>1, <2>3 DEF Listed
<1>. QED BY <1>3, <1>4

(* Every search has a start: no thread ends the process.                   *)
LEMMA NitroHasStart ==
    ASSUME GraphTypeOK, NEW m, \A q \in Query : Starts(q) = {m}, NEW t \in Thread
    PROVE  ~NoStart(t)
<1>1. Wanted(t) \subseteq Query
  BY BuildAssumption DEF Wanted, GraphTypeOK
<1>. QED BY <1>1 DEF NoStart

(* A step after which the list of m is still empty tells no thread of      *)
(* another node.                                                           *)
LEMMA KnowsKept ==
    ASSUME GraphInv, NEW m \in Node, \A q \in Query : Starts(q) = {m}, Alone(m),
           num_neighbours[m] = 0, [BuildNext]_buildVars
    PROVE  \A t \in Thread : KnowsOnly(t, m)'
<1>1. /\ GraphTypeOK /\ DegreeBound /\ SearchTypeOK
      /\ search \in [Thread -> Locals]
      /\ cands \in [Thread -> SUBSET Node] /\ links \in [Thread -> Seq(Node)]
  BY LocalTypes DEF GraphInv, GraphTypeOK
<1>2. \A t \in Thread :
          /\ search[t].heap \subseteq {m} /\ search[t].seen \subseteq {m}
          /\ search[t].curr \in {m, NoNode} /\ ~search[t].reading
          /\ cands[t] \subseteq {m}
          /\ \A a \in 1 .. Len(links[t]) : links[t][a] = m
  BY DEF Alone, KnowsOnly
<1>3. ASSUME UNCHANGED <<search, cands, links>>
      PROVE  \A t \in Thread : KnowsOnly(t, m)'
  BY <1>2, <1>3 DEF KnowsOnly
<1>4. CASE UNCHANGED buildVars \/ Barrier
  BY <1>3, <1>4 DEF buildVars, searchVars, teamVars, Barrier
<1>5. ASSUME NEW t \in Thread,
             Claim(t) \/ LockOwn(t) \/ StoreSlot(t) \/ StoreCount(t) \/ Inserted(t)
      PROVE  \A u \in Thread : KnowsOnly(u, m)'
  BY <1>3, <1>5 DEF Claim, LockOwn, StoreSlot, StoreCount, Inserted, searchVars
<1>6. ASSUME NEW t \in Thread, Insert(t)
      PROVE  \A u \in Thread : KnowsOnly(u, m)'
  <2>1. UNCHANGED <<search, links>> /\ cands' = [cands EXCEPT ![t] = {}]
    BY <1>6 DEF Insert, searchVars
  <2>2. \A u \in Thread : cands'[u] \subseteq {m}
    BY <1>1, <1>2, <2>1
  <2>. QED BY <1>2, <2>1, <2>2 DEF KnowsOnly
<1>7. ASSUME NEW t \in Thread, NEW q \in Query, Begin(t, q, Starts(q)),
             UNCHANGED <<cands, links>>
      PROVE  \A u \in Thread : KnowsOnly(u, m)'
  <2>1. PICK r \in Locals :
            /\ search' = [search EXCEPT ![t] = r]
            /\ r.heap = {m} /\ r.seen = {m} /\ r.curr = NoNode /\ ~r.reading
    BY <1>1, <1>7, BeginGives
  <2>2. \A u \in Thread : /\ search'[u].heap \subseteq {m} /\ search'[u].seen \subseteq {m}
                          /\ search'[u].curr \in {m, NoNode} /\ ~search'[u].reading
    BY <1>1, <1>2, <2>1
  <2>. QED BY <1>2, <1>7, <2>2 DEF KnowsOnly
<1>8. ASSUME NEW t \in Thread, Ask(t) \/ Serve(t)
      PROVE  \A u \in Thread : KnowsOnly(u, m)'
  <2>1. CASE Ask(t)
    <3>1. Head(asks[t]) \in Query
      BY <1>1, <2>1 DEF Ask, GraphTypeOK
    <3>. QED BY <1>7, <2>1, <3>1 DEF Ask
  <2>2. CASE Serve(t)
    <3>1. PICK q \in todo : Begin(t, q, Starts(q))
      BY <2>2 DEF Serve
    <3>2. q \in Query
      BY <1>1, BuildAssumption DEF GraphTypeOK
    <3>. QED BY <1>7, <2>2, <3>1, <3>2 DEF Serve
  <2>. QED BY <1>8, <2>1, <2>2
<1>9. ASSUME NEW t \in Thread, Step(t)
      PROVE  \A u \in Thread : KnowsOnly(u, m)'
  <2>1. UNCHANGED <<cands, links>> /\ (Pop(t) \/ Look(t))
    BY <1>2, <1>9 DEF Step, teamVars, Read
  <2>2. \E r \in Locals :
            /\ search' = [search EXCEPT ![t] = r]
            /\ r.heap \subseteq {m} /\ r.seen \subseteq {m}
            /\ r.curr \in {m, NoNode} /\ ~r.reading
    <3>1. CASE Pop(t)
      <4>1. PICK r \in Locals :
                /\ search' = [search EXCEPT ![t] = r]
                /\ r.seen = search[t].seen /\ ~r.reading
                /\ \E c \in Closest(search[t].query, search[t].heap, search[t].seen) :
                       \/ r.heap = {} /\ r.curr = NoNode
                       \/ r.heap = search[t].heap \ {c} /\ r.curr = c
        BY <1>1, <3>1, PopGives
      <4>2. PICK c \in Closest(search[t].query, search[t].heap, search[t].seen) :
                       \/ r.heap = {} /\ r.curr = NoNode
                       \/ r.heap = search[t].heap \ {c} /\ r.curr = c
        BY <4>1
      <4>3. c = m
        BY <1>2 DEF Closest
      <4>. QED BY <1>2, <4>1, <4>2, <4>3
    <3>2. CASE Look(t)
      <4>1. search[t].curr = m /\ ~(search[t].slot < num_neighbours[m])
        <5>1. search[t].curr = m
          BY <1>1, <1>2, <3>2, LookGives
        <5>2. search[t].slot \in 0 .. MaxDegree /\ MaxDegree \in Nat
          BY <1>1, DataAssumption DEF Locals
        <5>. QED BY <5>1, <5>2
      <4>2. PICK r \in Locals :
                /\ search' = [search EXCEPT ![t] = r]
                /\ r.seen = search[t].seen /\ r.heap = search[t].heap
                /\ \/ search[t].slot < num_neighbours[search[t].curr]
                   \/ ~r.reading /\ r.curr = NoNode
        BY <1>1, <3>2, LookGives
      <4>. QED BY <1>2, <4>1, <4>2
    <3>. QED BY <2>1, <3>1, <3>2
  <2>3. \A u \in Thread : /\ search'[u].heap \subseteq {m} /\ search'[u].seen \subseteq {m}
                          /\ search'[u].curr \in {m, NoNode} /\ ~search'[u].reading
    BY <1>1, <1>2, <2>2
  <2>. QED BY <1>2, <2>1, <2>3 DEF KnowsOnly
<1>10. ASSUME NEW t \in Thread, Collect(t) \/ Answer(t)
       PROVE  \A u \in Thread : KnowsOnly(u, m)'
  <2>1. /\ search' = [search EXCEPT ![t] = Idle] /\ UNCHANGED links
        /\ cands' = cands \/ cands' = [cands EXCEPT ![t] = @ \cup search[t].seen]
    BY <1>1, <1>10, EndTypes DEF Collect, Answer
  <2>2. \A u \in Thread : cands'[u] \subseteq {m}
    <3>1. search[t].seen \subseteq {m} /\ \A u \in Thread : cands[u] \subseteq {m}
      BY <1>2
    <3>. QED BY <1>1, <2>1, <3>1
  <2>3. \A u \in Thread : /\ search'[u].heap \subseteq {m} /\ search'[u].seen \subseteq {m}
                          /\ search'[u].curr \in {m, NoNode} /\ ~search'[u].reading
    BY <1>1, <1>2, <2>1 DEF Idle
  <2>. QED BY <1>2, <2>1, <2>2, <2>3 DEF KnowsOnly
<1>11. ASSUME NEW t \in Thread, NEW l \in Seq(Node), links' = [links EXCEPT ![t] = l],
              \A a \in 1 .. Len(l) : l[a] = m, UNCHANGED <<search, cands>>
       PROVE  \A u \in Thread : KnowsOnly(u, m)'
  <2>1. \A u \in Thread : \A a \in 1 .. Len(links'[u]) : links'[u][a] = m
    BY <1>1, <1>2, <1>11
  <2>. QED BY <1>2, <1>11, <2>1 DEF KnowsOnly
<1>12. ASSUME NEW t \in Thread, Link(t)
       PROVE  \A u \in Thread : KnowsOnly(u, m)'
  <2>. DEFINE l == links[t]
  <2>1. /\ l # <<>> /\ links' = [links EXCEPT ![t] = Tail(l)]
        /\ UNCHANGED <<search, cands>>
    BY <1>12 DEF Link, searchVars
  <2>2. l \in Seq(Node) /\ \A a \in 1 .. Len(l) : l[a] = m
    BY <1>1, <1>2
  <2>. HIDE DEF l
  <2>3. Tail(l) \in Seq(Node) /\ \A a \in 1 .. Len(Tail(l)) : Tail(l)[a] = m
    BY <2>1, <2>2
  <2>. QED BY <1>11, <2>1, <2>3
<1>13. ASSUME NEW t \in Thread, Unlock(t)
       PROVE  \A u \in Thread : KnowsOnly(u, m)'
  <2>1. /\ pc[t] = "store" /\ stores[t] = {} /\ counts[t] = {}
        /\ links' = [links EXCEPT ![t] = IF at[t] = Inserting(t) THEN List(at[t]) ELSE @]
        /\ UNCHANGED <<search, cands>>
    BY <1>13 DEF Unlock, searchVars
  <2>2. at[t] \in Node
    BY <1>1, <2>1 DEF GraphTypeOK
  <2>3. List(at[t]) \in Seq(Node) /\ links[t] \in Seq(Node)
    BY <1>1, <2>2, ListTypes DEF DegreeBound
  <2>4. \A a \in 1 .. Len(List(at[t])) : List(at[t])[a] = m
    <3>1. CASE at[t] = m
      BY <1>1, <2>2, <3>1, ShortLists
    <3>2. CASE at[t] # m
      <4>1. num_neighbours[at[t]] = 1 /\ neighbours[at[t]][0] = m
        BY <2>1, <3>2 DEF Alone, WritesOnly
      <4>. QED BY <1>1, <2>2, <4>1, ShortLists
    <3>. QED BY <3>1, <3>2
  <2>5. CASE at[t] = Inserting(t)
    BY <1>11, <2>1, <2>3, <2>4, <2>5
  <2>6. CASE at[t] # Inserting(t)
    <3>1. links' = [links EXCEPT ![t] = links[t]]
      BY <2>1, <2>6
    <3>. QED BY <1>2, <1>11, <2>1, <2>3, <3>1
  <2>. QED BY <2>5, <2>6
<1>. QED BY <1>1, <1>4, <1>5, <1>6, <1>8, <1>9, <1>10, <1>12, <1>13, NitroHasStart
         DEF BuildNext, Work

(* What thread t does leaves the other threads and lists as they were.     *)
LEMMA AloneElsewhere ==
    ASSUME GraphInv, NEW m \in Node, Alone(m), num_neighbours[m] = 0, NEW t \in Thread,
           \A u \in Thread : KnowsOnly(u, m)',
           \A u \in Thread \ {t} : /\ at'[u] = at[u] /\ stores'[u] = stores[u]
                                   /\ counts'[u] = counts[u] /\ pc'[u] = pc[u]
                                   /\ mine'[u] = mine[u],
           \A p \in Node : p # at[t] => /\ num_neighbours'[p] = num_neighbours[p]
                                        /\ neighbours'[p] = neighbours[p],
           pc'[t] = "store" /\ at'[t] # m => at'[t] = Inserting(t)' /\ WritesOnly(t, m)',
           \A p \in Node \ {m} : p = at[t] /\ p # at'[t] => Listed(p)' \subseteq {m}
    PROVE  Alone(m)'
<1>1. NoNode \notin Node /\ GraphTypeOK
  BY BeamAssumption DEF GraphInv
<1>2. ASSUME NEW u \in Thread, pc'[u] = "store", at'[u] # m
      PROVE  at'[u] = Inserting(u)' /\ WritesOnly(u, m)'
  <2>1. CASE u = t
    BY <1>2, <2>1
  <2>2. CASE u # t
    <3>1. pc[u] = "store" /\ at[u] \in Node /\ at[u] # m
      BY <1>1, <1>2, <2>2 DEF GraphTypeOK
    <3>2. at[u] # at[t]
      BY <1>1, <2>2, <3>1 DEF GraphInv, Exclusive
    <3>3. at[u] = Inserting(u) /\ WritesOnly(u, m)
      BY <3>1 DEF Alone
    <3>4. /\ at'[u] = at[u] /\ stores'[u] = stores[u] /\ counts'[u] = counts[u]
          /\ mine'[u] = mine[u]
          /\ num_neighbours'[at[u]] = num_neighbours[at[u]]
          /\ neighbours'[at[u]] = neighbours[at[u]]
      BY <2>2, <3>1, <3>2
    <3>. QED BY <3>3, <3>4 DEF WritesOnly, Inserting
  <2>. QED BY <2>1, <2>2
<1>3. ASSUME NEW p \in Node \ {m}, Unlocked(p)' PROVE Listed(p)' \subseteq {m}
  <2>1. CASE p = at[t]
    BY <1>3, <2>1 DEF Unlocked
  <2>2. CASE p # at[t]
    <3>1. Unlocked(p)
      BY <1>3, <2>2 DEF Unlocked
    <3>2. Listed(p) \subseteq {m}
      BY <3>1 DEF Alone
    <3>3. num_neighbours'[p] = num_neighbours[p] /\ neighbours'[p] = neighbours[p]
      BY <2>2
    <3>. QED BY <3>2, <3>3 DEF Listed
  <2>. QED BY <2>1, <2>2
<1>. QED BY <1>2, <1>3 DEF Alone

(* As long as the list of m stays empty nobody learns of another node.     *)
LEMMA AloneKept ==
    ASSUME GraphInv, NEW m \in Node, \A q \in Query : Starts(q) = {m}, Alone(m),
           \A t \in Thread : Joins(t, m), [BuildNext]_buildVars
    PROVE  Alone(m)'
<1>. SUFFICES ASSUME num_neighbours'[m] = 0 PROVE Alone(m)'
  BY DEF Alone
<1>1. /\ GraphTypeOK /\ DegreeBound /\ SearchTypeOK /\ NoNode \notin Node
      /\ num_neighbours \in [Node -> Nat] /\ neighbours \in [Node -> [Slot -> Node]]
      /\ pc \in [Thread -> BuildLabels] /\ mine \in [Thread -> Seq(Node)]
      /\ at \in [Thread -> Node \cup {NoNode}] /\ cands \in [Thread -> SUBSET Node]
      /\ stores \in [Thread -> SUBSET (Nat \X Node)] /\ counts \in [Thread -> SUBSET Nat]
      /\ links \in [Thread -> Seq(Node)]
  BY BeamAssumption DEF GraphInv, GraphTypeOK, SearchTypeOK
<1>2. num_neighbours[m] = 0
  <2>1. num_neighbours[m] > 0 => num_neighbours'[m] > 0
    BY BuildNeverEmpties
  <2>2. num_neighbours[m] \in Nat
    BY <1>1
  <2>. QED BY <2>1, <2>2
<1>3. \A u \in Thread : KnowsOnly(u, m)'
  BY <1>2, KnowsKept
<1>4. /\ \A u \in Thread : KnowsOnly(u, m)
      /\ \A u \in Thread : pc[u] = "store" /\ at[u] # m =>
             at[u] = Inserting(u) /\ WritesOnly(u, m)
      /\ \A p \in Node \ {m} : Unlocked(p) => Listed(p) \subseteq {m}
  BY <1>2 DEF Alone
<1>5. CASE UNCHANGED buildVars \/ Barrier
  <2>1. UNCHANGED <<num_neighbours, neighbours, at, stores, counts, mine>>
    BY <1>5 DEF buildVars, graphVars, teamVars, Barrier
  <2>2. \A u \in Thread : pc'[u] = "store" => pc[u] = "store"
    BY <1>5 DEF buildVars, teamVars, Barrier
  <2>3. \A u \in Thread : pc'[u] = "store" /\ at'[u] # m =>
             at'[u] = Inserting(u)' /\ WritesOnly(u, m)'
    BY <1>4, <2>1, <2>2 DEF Inserting, WritesOnly
  <2>4. \A p \in Node \ {m} : Unlocked(p)' => Listed(p)' \subseteq {m}
    BY <1>4, <2>1 DEF Unlocked, Listed
  <2>. QED BY <1>3, <2>3, <2>4 DEF Alone
<1>6. ASSUME NEW t \in Thread, Aside(t) PROVE Alone(m)'
  <2>1. /\ UNCHANGED <<num_neighbours, neighbours, at, stores, counts>>
        /\ pc'[t] # "store" /\ \A u \in Thread \ {t} : pc'[u] = pc[u]
    BY <1>1, <1>6, AsideLeaves
  <2>2. \A u \in Thread \ {t} : mine'[u] = mine[u]
    BY <1>1, <1>6 DEF Aside, Claim, Insert, Ask, Step, Collect, Inserted, Serve, Answer,
                      NoStart, teamVars
  <2>. QED BY <1>2, <1>3, <2>1, <2>2, AloneElsewhere
<1>7. ASSUME NEW t \in Thread, LockOwn(t) PROVE Alone(m)'
  <2>. DEFINE i == Inserting(t)
  <2>1. /\ pc[t] = "ask" /\ asks[t] = <<>> /\ Free(i)
        /\ at' = [at EXCEPT ![t] = i] /\ Rewrite(t, i, cands[t])
        /\ pc' = [pc EXCEPT ![t] = "store"]
        /\ UNCHANGED <<num_neighbours, neighbours, mine>>
    BY <1>7 DEF LockOwn, Goto, graphVars
  <2>2. i \in Node /\ cands[t] \in SUBSET Node /\ at[t] = NoNode
    BY <1>1, <2>1 DEF GraphTypeOK, Inserting
  <2>3. PICK s \in Seq(Candidates(i, cands[t])) :
            /\ Candidates(i, cands[t]) # {} => Len(s) > 0
            /\ \A a, b \in 1 .. Len(s) : s[a] = s[b] => a = b
            /\ stores' = [stores EXCEPT ![t] = {<<j - 1, s[j]>> : j \in 1 .. Len(s)}]
            /\ counts' = [counts EXCEPT ![t] = {Len(s)}]
    BY <1>1, <2>1, <2>2, NitroRewriteGives
  <2>4. ASSUME i # m PROVE at'[t] = Inserting(t)' /\ WritesOnly(t, m)'
    <3>1. m \in cands[t] /\ cands[t] \subseteq {m}
      BY <1>4, <2>1 DEF Joins, KnowsOnly
    <3>2. Listed(i) \subseteq {m}
      BY <1>4, <2>1, <2>2, <2>4 DEF Free, Unlocked
    <3>3. Candidates(i, cands[t]) = {m}
      BY <2>4, <3>1, <3>2 DEF Candidates
    <3>4. Len(s) = 1 /\ {<<j - 1, s[j]>> : j \in 1 .. Len(s)} = {<<0, m>>}
      <4>1. s \in Seq({m}) /\ Len(s) > 0
        BY <2>3, <3>3
      <4>. QED BY <2>3, <4>1, OneCandidate
    <3>5. stores'[t] = {<<0, m>>} /\ counts'[t] = {1}
      BY <1>1, <2>3, <3>4
    <3>6. at'[t] = i /\ Inserting(t)' = i
      BY <1>1, <2>1 DEF Inserting
    <3>. QED BY <3>5, <3>6 DEF WritesOnly
  <2>5. at'[t] = i
    BY <1>1, <2>1
  <2>6. \A u \in Thread \ {t} : /\ at'[u] = at[u] /\ stores'[u] = stores[u]
                                /\ counts'[u] = counts[u] /\ pc'[u] = pc[u]
                                /\ mine'[u] = mine[u]
    BY <1>1, <2>1, <2>3
  <2>. QED BY <1>1, <1>2, <1>3, <2>1, <2>2, <2>4, <2>5, <2>6, AloneElsewhere
<1>8. ASSUME NEW t \in Thread, Link(t) PROVE Alone(m)'
  <2>. DEFINE p == Head(links[t])
  <2>1. /\ pc[t] = "link" /\ links[t] # <<>>
        /\ UNCHANGED <<num_neighbours, neighbours, mine>>
        /\ \/ at' = [at EXCEPT ![t] = NoNode] /\ UNCHANGED <<stores, counts, pc>>
           \/ at' = [at EXCEPT ![t] = p] /\ pc' = [pc EXCEPT ![t] = "store"]
    BY <1>8 DEF Link, Goto, graphVars, AfterSkip
  <2>2. p = m
    <3>. DEFINE l == links[t]
    <3>1. l \in Seq(Node) /\ l # <<>> /\ \A a \in 1 .. Len(l) : l[a] = m
      BY <1>1, <1>4, <2>1 DEF KnowsOnly
    <3>. HIDE DEF l
    <3>2. Head(l) = m
      BY <3>1
    <3>. QED BY <3>2 DEF l
  <2>3. \A u \in Thread \ {t} : stores'[u] = stores[u] /\ counts'[u] = counts[u]
    BY <1>1, <1>8 DEF Link, Rewrite
  <2>4. \A u \in Thread \ {t} : at'[u] = at[u] /\ pc'[u] = pc[u]
    BY <1>1, <2>1
  <2>5. at[t] = NoNode /\ (pc'[t] = "store" => at'[t] = m)
    BY <1>1, <2>1, <2>2 DEF GraphTypeOK
  <2>. QED BY <1>1, <1>2, <1>3, <2>1, <2>3, <2>4, <2>5, AloneElsewhere
<1>9. ASSUME NEW t \in Thread, StoreSlot(t) PROVE Alone(m)'
  <2>1. PICK w \in stores[t] :
            /\ neighbours' = [neighbours EXCEPT ![at[t]][w[1]] = w[2]]
            /\ stores' = [stores EXCEPT ![t] = @ \ {w}]
    BY <1>9 DEF StoreSlot
  <2>2. pc[t] = "store" /\ UNCHANGED <<num_neighbours, pc, at, counts, mine>>
    BY <1>9 DEF StoreSlot
  <2>3. at[t] \in Node
    BY <1>1, <2>2 DEF GraphTypeOK
  <2>4. ASSUME at[t] # m PROVE at'[t] = Inserting(t)' /\ WritesOnly(t, m)'
    <3>1. at[t] = Inserting(t) /\ WritesOnly(t, m)
      BY <1>4, <2>2, <2>4
    <3>2. w = <<0, m>>
      BY <2>1, <3>1 DEF WritesOnly
    <3>3. 0 \in Slot
      BY DataAssumption DEF Slot
    <3>4. w[1] = 0 /\ w[2] = m
      BY <3>2
    <3>5. neighbours'[at[t]][0] = m
      BY <1>1, <2>1, <2>3, <3>3, <3>4
    <3>6. stores'[t] \subseteq {<<0, m>>}
      BY <1>1, <2>1, <3>1 DEF WritesOnly
    <3>. QED BY <2>2, <3>1, <3>5, <3>6 DEF WritesOnly, Inserting
  <2>5. /\ \A u \in Thread \ {t} : stores'[u] = stores[u]
        /\ \A p \in Node : p # at[t] => neighbours'[p] = neighbours[p]
    BY <1>1, <2>1
  <2>. QED BY <1>2, <1>3, <2>2, <2>4, <2>5, AloneElsewhere
<1>10. ASSUME NEW t \in Thread, StoreCount(t) PROVE Alone(m)'
  <2>1. PICK c \in counts[t] :
            /\ num_neighbours' = [num_neighbours EXCEPT ![at[t]] = c]
            /\ counts' = [counts EXCEPT ![t] = @ \ {c}]
    BY <1>10 DEF StoreCount
  <2>2. pc[t] = "store" /\ UNCHANGED <<neighbours, pc, at, stores, mine>>
    BY <1>10 DEF StoreCount
  <2>3. at[t] \in Node
    BY <1>1, <2>2 DEF GraphTypeOK
  <2>4. ASSUME at[t] # m PROVE at'[t] = Inserting(t)' /\ WritesOnly(t, m)'
    <3>1. at[t] = Inserting(t) /\ WritesOnly(t, m)
      BY <1>4, <2>2, <2>4
    <3>2. counts[t] = {1} /\ c = 1
      BY <2>1, <3>1 DEF WritesOnly
    <3>3. num_neighbours'[at[t]] = 1 /\ counts'[t] = {}
      BY <1>1, <2>1, <2>3, <3>2
    <3>. QED BY <2>2, <3>1, <3>3 DEF WritesOnly, Inserting
  <2>5. /\ \A u \in Thread \ {t} : counts'[u] = counts[u]
        /\ \A p \in Node : p # at[t] => num_neighbours'[p] = num_neighbours[p]
    BY <1>1, <2>1
  <2>. QED BY <1>2, <1>3, <2>2, <2>4, <2>5, AloneElsewhere
<1>11. ASSUME NEW t \in Thread, Unlock(t) PROVE Alone(m)'
  <2>1. /\ pc[t] = "store" /\ stores[t] = {} /\ counts[t] = {}
        /\ at' = [at EXCEPT ![t] = NoNode]
        /\ pc' = [pc EXCEPT ![t] = "link"]
        /\ UNCHANGED <<num_neighbours, neighbours, stores, counts, mine>>
    BY <1>11 DEF Unlock, Goto, graphVars
  <2>2. at[t] \in Node
    BY <1>1, <2>1 DEF GraphTypeOK
  <2>3. ASSUME NEW p \in Node \ {m}, p = at[t] PROVE Listed(p)' \subseteq {m}
    <3>1. num_neighbours[p] = 1 /\ neighbours[p][0] = m
      BY <1>4, <2>1, <2>3 DEF WritesOnly
    <3>2. Listed(p) = {m}
      BY <1>1, <3>1, ShortLists
    <3>. QED BY <2>1, <3>2 DEF Listed
  <2>4. \A u \in Thread \ {t} : at'[u] = at[u] /\ pc'[u] = pc[u]
    BY <1>1, <2>1
  <2>5. pc'[t] # "store"
    BY <1>1, <2>1
  <2>. QED BY <1>2, <1>3, <2>1, <2>3, <2>4, <2>5, AloneElsewhere
<1>. QED BY <1>5, <1>6, <1>7, <1>8, <1>9, <1>10, <1>11, WorkSplits DEF BuildNext

(* A thread that does not move keeps what it has: no list is emptied.      *)
LEMMA JoinsElsewhere ==
    ASSUME GraphTypeOK, NEW m \in Node, NEW u \in Thread, Joins(u, m),
           /\ search'[u] = search[u] /\ cands'[u] = cands[u] /\ asks'[u] = asks[u]
           /\ pc'[u] = pc[u] /\ at'[u] = at[u] /\ counts'[u] = counts[u]
           /\ mine'[u] = mine[u] /\ links'[u] = links[u],
           \A p \in Node : num_neighbours[p] > 0 => num_neighbours'[p] > 0
    PROVE  Joins(u, m)'
<1>1. /\ pc[u] = "store" => at[u] \in Node
      /\ pc[u] \in {"store", "link"} => Inserting(u) \in Node
  BY DEF GraphTypeOK, Inserting
<1>2. Inserting(u)' = Inserting(u)
  BY DEF Inserting
<1>3. pc[u] = "store" /\ Fills(u) => Fills(u)'
  BY <1>1 DEF Fills
<1>. QED BY <1>1, <1>2, <1>3 DEF Joins

(* The thread that moves: from its search to the last of its links.        *)
LEMMA JoinsKept ==
    ASSUME GraphInv, NEW m \in Node, \A q \in Query : Starts(q) = {m}, Alone(m),
           \A t \in Thread : Joins(t, m), [BuildNext]_buildVars
    PROVE  \A t \in Thread : Joins(t, m)'
<1>1. /\ GraphTypeOK /\ DegreeBound /\ SearchTypeOK /\ NoNode \notin Node
      /\ num_neighbours \in [Node -> Nat] /\ visited \in [Thread -> SUBSET Node]
      /\ DOMAIN search = Thread
      /\ pc \in [Thread -> BuildLabels] /\ mine \in [Thread -> Seq(Node)]
      /\ asks \in [Thread -> Seq(Query)]
      /\ at \in [Thread -> Node \cup {NoNode}] /\ cands \in [Thread -> SUBSET Node]
      /\ stores \in [Thread -> SUBSET (Nat \X Node)] /\ counts \in [Thread -> SUBSET Nat]
      /\ links \in [Thread -> Seq(Node)]
  BY BeamAssumption DEF GraphInv, GraphTypeOK, SearchTypeOK
<1>2. \A p \in Node : num_neighbours[p] > 0 => num_neighbours'[p] > 0
  BY BuildNeverEmpties
<1>3. ASSUME NEW t \in Thread, Joins(t, m)',
             \A u \in Thread \ {t} :
                 /\ search'[u] = search[u] /\ cands'[u] = cands[u] /\ asks'[u] = asks[u]
                 /\ pc'[u] = pc[u] /\ at'[u] = at[u] /\ counts'[u] = counts[u]
                 /\ mine'[u] = mine[u] /\ links'[u] = links[u]
      PROVE  \A u \in Thread : Joins(u, m)'
  BY <1>1, <1>2, <1>3, JoinsElsewhere
<1>4. CASE UNCHANGED buildVars
  BY <1>1, <1>2, <1>4, JoinsElsewhere DEF buildVars, searchVars, teamVars
<1>5. CASE Barrier
  <2>1. \A u \in Thread : pc'[u] \in {"claim", "serve"}
    BY <1>5 DEF Barrier
  <2>. QED BY <2>1 DEF Joins
<1>6. ASSUME NEW t \in Thread, pc'[t] \notin {"search", "ask", "store", "link"},
             Claim(t) \/ Inserted(t) \/ Serve(t) \/ Answer(t)
      PROVE  \A u \in Thread : Joins(u, m)'
  <2>1. Joins(t, m)'
    BY <1>6 DEF Joins
  <2>2. \A u \in Thread \ {t} : search'[u] = search[u]
    <3>1. CASE Serve(t)
      BY <1>1, <3>1 DEF Serve, Begin
    <3>2. CASE Answer(t)
      BY <1>1, <3>2 DEF Answer, End
    <3>3. CASE Claim(t) \/ Inserted(t)
      BY <3>3 DEF Claim, Inserted, searchVars
    <3>. QED BY <1>6, <3>1, <3>2, <3>3
  <2>3. \A u \in Thread \ {t} :
            /\ cands'[u] = cands[u] /\ asks'[u] = asks[u]
            /\ pc'[u] = pc[u] /\ at'[u] = at[u] /\ counts'[u] = counts[u]
            /\ mine'[u] = mine[u] /\ links'[u] = links[u]
    BY <1>1, <1>6 DEF Claim, Inserted, Serve, Answer, Goto
  <2>. QED BY <1>3, <2>1, <2>2, <2>3
<1>7. ASSUME NEW t \in Thread, Claim(t) \/ Inserted(t) \/ Serve(t) \/ Answer(t)
      PROVE  \A u \in Thread : Joins(u, m)'
  <2>1. pc'[t] \notin {"search", "ask", "store", "link"}
    BY <1>1, <1>7 DEF Claim, Inserted, Serve, Answer, Goto, AfterInsert
  <2>. QED BY <1>6, <1>7, <2>1
<1>8. ASSUME NEW t \in Thread, Insert(t)
      PROVE  \A u \in Thread : Joins(u, m)'
  <2>1. /\ pc[t] = "insert" /\ asks' = [asks EXCEPT ![t] = Queries(Inserting(t))]
        /\ pc' = [pc EXCEPT ![t] = "ask"] /\ cands' = [cands EXCEPT ![t] = {}]
        /\ UNCHANGED <<search, at, counts, mine, links>>
    BY <1>8 DEF Insert, Goto, searchVars
  <2>2. Inserting(t) \in Node
    BY <1>1, <2>1 DEF GraphTypeOK, Inserting
  <2>3. asks'[t] # <<>> /\ pc'[t] = "ask"
    <3>1. PICK q : Queries(Inserting(t)) = <<q>>
      BY <2>2, NitroRules DEF NitroQueries
    <3>. QED BY <1>1, <2>1, <3>1
  <2>4. Joins(t, m)'
    BY <2>3 DEF Joins
  <2>. QED BY <1>1, <1>3, <2>1, <2>4
<1>9. ASSUME NEW t \in Thread, Ask(t)
      PROVE  \A u \in Thread : Joins(u, m)'
  <2>1. /\ Head(asks[t]) \in Query /\ Begin(t, Head(asks[t]), Starts(Head(asks[t])))
        /\ asks' = [asks EXCEPT ![t] = Tail(@)]
        /\ pc' = [pc EXCEPT ![t] = "search"]
        /\ UNCHANGED <<cands, at, counts, mine, links>>
    BY <1>1, <1>9 DEF Ask, Goto
  <2>2. search'[t].seen = {m} /\ \A u \in Thread \ {t} : search'[u] = search[u]
    BY <1>1, <2>1 DEF Begin
  <2>3. pc'[t] = "search"
    BY <1>1, <2>1
  <2>4. Joins(t, m)'
    BY <2>2, <2>3 DEF Joins
  <2>. QED BY <1>1, <1>3, <2>1, <2>2, <2>4
<1>10. ASSUME NEW t \in Thread, Step(t)
       PROVE  \A u \in Thread : Joins(u, m)'
  <2>1. /\ pc[t] \in {"search", "query"} /\ (Pop(t) \/ Look(t) \/ Read(t))
        /\ UNCHANGED <<cands, asks, pc, at, counts, mine, links>>
    BY <1>10 DEF Step, teamVars
  <2>2. /\ search[t].seen \subseteq search'[t].seen
        /\ \A u \in Thread \ {t} : search'[u] = search[u]
    <3>1. CASE Pop(t)
      BY <1>1, <3>1, PopTypes
    <3>2. CASE Look(t)
      BY <1>1, <3>2, LookTypes
    <3>3. CASE Read(t)
      <4>1. visited[t] \subseteq visited'[t]
        BY <1>1, <3>3 DEF Read
      <4>2. visited[t] = search[t].seen
        BY DEF GraphInv, VisitedExact
      <4>. QED BY <1>1, <3>3, <4>1, <4>2, ReadTypes
    <3>. QED BY <2>1, <3>1, <3>2, <3>3
  <2>3. Joins(t, m)'
    BY <2>1, <2>2 DEF Joins
  <2>. QED BY <1>3, <2>1, <2>2, <2>3
<1>11. ASSUME NEW t \in Thread, Collect(t)
       PROVE  \A u \in Thread : Joins(u, m)'
  <2>1. /\ pc[t] = "search" /\ search' = [search EXCEPT ![t] = Idle]
        /\ cands' = [cands EXCEPT ![t] = @ \cup search[t].seen]
        /\ pc' = [pc EXCEPT ![t] = "ask"]
        /\ UNCHANGED <<asks, at, counts, mine, links>>
    BY <1>1, <1>11, EndTypes DEF Collect, Goto
  <2>2. m \in cands'[t] /\ pc'[t] = "ask"
    BY <1>1, <2>1 DEF Joins
  <2>3. Joins(t, m)'
    BY <2>2 DEF Joins
  <2>. QED BY <1>1, <1>3, <2>1, <2>3
<1>12. ASSUME NEW t \in Thread, LockOwn(t)
       PROVE  \A u \in Thread : Joins(u, m)'
  <2>. DEFINE i == Inserting(t)
  <2>1. /\ pc[t] = "ask" /\ asks[t] = <<>>
        /\ at' = [at EXCEPT ![t] = i] /\ Rewrite(t, i, cands[t])
        /\ pc' = [pc EXCEPT ![t] = "store"]
        /\ UNCHANGED <<search, cands, asks, mine, links>>
    BY <1>12 DEF LockOwn, Goto, searchVars
  <2>2. i \in Node /\ cands[t] \in SUBSET Node
    BY <1>1, <2>1 DEF GraphTypeOK, Inserting
  <2>3. PICK s \in Seq(Candidates(i, cands[t])) :
            /\ Candidates(i, cands[t]) # {} => Len(s) > 0
            /\ \A a, b \in 1 .. Len(s) : s[a] = s[b] => a = b
            /\ stores' = [stores EXCEPT ![t] = {<<j - 1, s[j]>> : j \in 1 .. Len(s)}]
            /\ counts' = [counts EXCEPT ![t] = {Len(s)}]
    BY <1>1, <2>1, <2>2, NitroRewriteGives
  <2>4. pc'[t] = "store" /\ at'[t] = i /\ Inserting(t)' = i /\ counts'[t] = {Len(s)}
    BY <1>1, <2>1, <2>3 DEF Inserting
  <2>5. i # m => Len(s) > 0
    BY <2>1, <2>3 DEF Joins, Candidates
  <2>6. Joins(t, m)'
    BY <2>4, <2>5 DEF Joins, Fills
  <2>. QED BY <1>1, <1>3, <2>1, <2>3, <2>6
<1>13. ASSUME NEW t \in Thread, Link(t)
       PROVE  \A u \in Thread : Joins(u, m)'
  <2>. DEFINE i == Inserting(t)
              l == links[t]
              p == Head(l)
  <2>1. /\ pc[t] = "link" /\ l # <<>>
        /\ links' = [links EXCEPT ![t] = Tail(l)]
        /\ UNCHANGED <<num_neighbours, search, cands, asks, mine>>
    BY <1>13 DEF Link, graphVars, searchVars
  <2>2. /\ l \in Seq(Node) /\ Len(l) > 0 /\ p = l[1] /\ p \in Node /\ i \in Node
    BY <1>1, <2>1 DEF GraphTypeOK, Inserting
  <2>3. p # i
    <3>1. 1 \in 1 .. Len(l)
      BY <2>2
    <3>. QED BY <2>2, <3>1 DEF GraphInv, LinksGood
  <2>4. i # m => /\ num_neighbours[i] > 0
                 /\ num_neighbours[m] > 0 \/ \E a \in 1 .. Len(l) : l[a] = m
    BY <2>1 DEF Joins
  <2>5. Inserting(t)' = i /\ links'[t] = Tail(l)
    BY <1>1, <2>1 DEF Inserting
  <2>6. CASE Mentions(p, i)
    <3>1. /\ at' = [at EXCEPT ![t] = NoNode] /\ UNCHANGED <<stores, counts, pc>>
      BY <1>13, <2>6 DEF Link, AfterSkip
    <3>2. i # m => \/ num_neighbours[m] > 0
                   \/ \E a \in 1 .. Len(Tail(l)) : Tail(l)[a] = m
      <4>. SUFFICES ASSUME NEW a \in 1 .. Len(l), l[a] = m
                    PROVE  \/ num_neighbours[m] > 0
                           \/ \E b \in 1 .. Len(Tail(l)) : Tail(l)[b] = m
        BY <2>4
      <4>1. CASE a = 1
        <5>1. p = m /\ i \in Listed(m)
          BY <2>2, <2>6, <4>1 DEF Mentions
        <5>2. num_neighbours[m] # 0
          BY <1>1, <5>1, ShortLists
        <5>. QED BY <1>1, <5>2
      <4>2. CASE a # 1
        <5>. HIDE DEF l
        <5>1. a - 1 \in 1 .. Len(Tail(l)) /\ Tail(l)[a - 1] = m
          BY <2>2, <4>2
        <5>. QED BY <5>1
      <4>. QED BY <4>1, <4>2
    <3>3. pc'[t] = "link"
      BY <2>1, <3>1
    <3>. HIDE DEF l
    <3>4. Joins(t, m)'
      BY <2>1, <2>4, <2>5, <3>2, <3>3 DEF Joins
    <3>. QED BY <1>1, <1>3, <2>1, <3>1, <3>4
  <2>7. CASE ~Mentions(p, i)
    <3>1. /\ at' = [at EXCEPT ![t] = p] /\ pc' = [pc EXCEPT ![t] = "store"]
          /\ \/ counts' = [counts EXCEPT ![t] = {num_neighbours[p] + 1}]
             \/ Rewrite(t, p, {i})
      BY <1>13, <2>7 DEF Link, Goto
    <3>. HIDE DEF i, p, l
    <3>2. \E n \in Nat : n > 0 /\ counts' = [counts EXCEPT ![t] = {n}]
      <4>1. CASE counts' = [counts EXCEPT ![t] = {num_neighbours[p] + 1}]
        <5>1. num_neighbours[p] + 1 \in Nat /\ num_neighbours[p] + 1 > 0
          BY <1>1, <2>2
        <5>. QED BY <4>1, <5>1
      <4>2. CASE Rewrite(t, p, {i})
        <5>. DEFINE C == Candidates(p, {i})
        <5>1. PICK s \in Seq(C) :
                  /\ C # {} => Len(s) > 0
                  /\ \A a, b \in 1 .. Len(s) : s[a] = s[b] => a = b
                  /\ stores' = [stores EXCEPT ![t] = {<<j - 1, s[j]>> : j \in 1 .. Len(s)}]
                  /\ counts' = [counts EXCEPT ![t] = {Len(s)}]
          <6>1. PICK V \in SUBSET Node : V = {i}
            BY <2>2
          <6>2. Rewrite(t, p, V)
            BY <4>2, <6>1
          <6>3. \E s \in Seq(Candidates(p, V)) :
                    /\ Candidates(p, V) # {} => Len(s) > 0
                    /\ \A a, b \in 1 .. Len(s) : s[a] = s[b] => a = b
                    /\ stores' = [stores EXCEPT ![t] = {<<j - 1, s[j]>> : j \in 1 .. Len(s)}]
                    /\ counts' = [counts EXCEPT ![t] = {Len(s)}]
            <7>1. GraphTypeOK /\ DegreeBound /\ p \in Node
              BY <1>1, <2>2
            <7>. QED BY ONLY <6>2, <7>1, NitroRewriteGives
          <6>. QED BY <6>1, <6>3
        <5>2. i \in C
          BY <2>3 DEF Candidates
        <5>. HIDE DEF C
        <5>3. Len(s) \in Nat /\ Len(s) > 0
          BY <5>1, <5>2
        <5>. QED BY <5>1, <5>3
      <4>. QED BY <3>1, <4>1, <4>2
    <3>3. PICK n \in Nat : n > 0 /\ counts' = [counts EXCEPT ![t] = {n}]
      BY <3>2
    <3>4. pc'[t] = "store" /\ at'[t] = p /\ counts'[t] = {n}
      BY <1>1, <3>1, <3>3
    <3>5. Joins(t, m)'
      BY <2>1, <2>4, <2>5, <3>3, <3>4 DEF Joins, Fills
    <3>6. \A u \in Thread \ {t} : /\ at'[u] = at[u] /\ pc'[u] = pc[u]
                                  /\ counts'[u] = counts[u] /\ links'[u] = links[u]
      BY <1>1, <2>1, <3>1, <3>3
    <3>. QED BY <1>3, <2>1, <3>5, <3>6
  <2>. QED BY <2>6, <2>7
<1>14. ASSUME NEW t \in Thread, StoreSlot(t)
       PROVE  \A u \in Thread : Joins(u, m)'
  BY <1>1, <1>2, <1>14, JoinsElsewhere DEF StoreSlot, searchVars
<1>15. ASSUME NEW t \in Thread, StoreCount(t)
       PROVE  \A u \in Thread : Joins(u, m)'
  <2>1. PICK c \in counts[t] :
            /\ num_neighbours' = [num_neighbours EXCEPT ![at[t]] = c]
            /\ counts' = [counts EXCEPT ![t] = @ \ {c}]
    BY <1>15 DEF StoreCount
  <2>2. pc[t] = "store" /\ UNCHANGED <<search, cands, asks, pc, at, mine, links>>
    BY <1>15 DEF StoreCount, searchVars
  <2>3. at[t] \in Node /\ Inserting(t) \in Node
    BY <1>1, <2>2 DEF GraphTypeOK, Inserting
  <2>4. num_neighbours'[at[t]] = c /\ counts'[t] = counts[t] \ {c}
    BY <1>1, <2>1, <2>3
  <2>5. Fills(t) => Fills(t)'
    BY <2>1, <2>2, <2>4 DEF Fills
  <2>6. Joins(t, m)'
    BY <1>2, <2>2, <2>3, <2>5 DEF Joins, Inserting
  <2>. QED BY <1>1, <1>3, <2>1, <2>2, <2>6
<1>16. ASSUME NEW t \in Thread, Unlock(t)
       PROVE  \A u \in Thread : Joins(u, m)'
  <2>. DEFINE i == Inserting(t)
  <2>1. /\ pc[t] = "store" /\ stores[t] = {} /\ counts[t] = {}
        /\ at' = [at EXCEPT ![t] = NoNode]
        /\ links' = [links EXCEPT ![t] = IF at[t] = i THEN List(at[t]) ELSE @]
        /\ pc' = [pc EXCEPT ![t] = "link"]
        /\ UNCHANGED <<num_neighbours, search, cands, asks, counts, mine>>
    BY <1>16 DEF Unlock, Goto, graphVars, searchVars
  <2>2. at[t] \in Node /\ i \in Node
    BY <1>1, <2>1 DEF GraphTypeOK, Inserting
  <2>3. pc'[t] = "link" /\ Inserting(t)' = i
    BY <1>1, <2>1 DEF Inserting
  <2>4. i # m => num_neighbours[i] > 0
    <3>1. CASE at[t] = i
      BY <2>1, <3>1 DEF Joins, Fills
    <3>2. CASE at[t] # i
      BY <2>1, <3>2 DEF Joins
    <3>. QED BY <3>1, <3>2
  <2>5. ASSUME i # m, ~(num_neighbours[m] > 0)
        PROVE  \E a \in 1 .. Len(links'[t]) : links'[t][a] = m
    <3>1. num_neighbours[m] = 0
      BY <1>1, <2>5
    <3>2. at[t] # m
      BY <2>1, <2>5 DEF Joins, Fills
    <3>3. at[t] = i /\ num_neighbours[at[t]] = 1 /\ neighbours[at[t]][0] = m
      BY <2>1, <3>1, <3>2 DEF Alone, WritesOnly
    <3>4. Len(List(at[t])) = 1 /\ List(at[t])[1] = m
      BY <1>1, <2>2, <3>3, ShortLists
    <3>5. links'[t] = List(at[t])
      BY <1>1, <2>1, <3>3
    <3>6. 1 \in 1 .. Len(links'[t])
      BY <3>4, <3>5
    <3>. QED BY <3>4, <3>5, <3>6
  <2>6. Joins(t, m)'
    BY <2>1, <2>3, <2>4, <2>5 DEF Joins
  <2>7. \A u \in Thread \ {t} : /\ at'[u] = at[u] /\ pc'[u] = pc[u]
                                /\ links'[u] = links[u]
    BY <1>1, <2>1
  <2>. QED BY <1>3, <2>1, <2>6, <2>7
<1>. QED BY <1>1, <1>4, <1>5, <1>7, <1>8, <1>9, <1>10, <1>11, <1>12, <1>13, <1>14, <1>15,
            <1>16, NitroHasStart DEF BuildNext, Work

(* Nodes that have joined stay so, whoever moves.                          *)
LEMMA StaysJoined ==
    ASSUME GraphInv, NEW m \in Node, [BuildNext]_buildVars
    PROVE  \A i \in Node : Joined(m, i) => Joined(m, i)'
BY BuildNeverEmpties DEF Joined

(* A node that was handed out is with a thread until it has joined.        *)
LEMMA ProgressKept ==
    ASSUME GraphInv, NEW m \in Node, \A q \in Query : Starts(q) = {m},
           \A t \in Thread : Joins(t, m), Progress(m),
           Thread # {}, [BuildNext]_buildVars
    PROVE  Progress(m)'
<1>1. /\ GraphTypeOK
      /\ pc \in [Thread -> BuildLabels] /\ mine \in [Thread -> Seq(Node)]
      /\ links \in [Thread -> Seq(Node)]
      /\ Order \in Seq(Node) /\ Len(Order) \in Nat /\ Chunk \in Nat \ {0}
      /\ next \in 0 .. Len(Order) /\ pass \in Nat /\ pass > 0
  BY BuildAssumption DEF GraphInv, GraphTypeOK
<1>2. \A i \in Node : Joined(m, i) => Joined(m, i)'
  BY StaysJoined
<1>3. \A k \in 1 .. next : Order[k] \in Node
  BY <1>1
<1>4. ASSUME UNCHANGED <<mine, next, pass>>,
             \A t \in Thread :
                 /\ pc'[t] \notin {"insert", "ask", "search", "store", "link"} =>
                        pc[t] \notin {"insert", "ask", "search", "store", "link"}
                 /\ pc'[t] = "barrier" => pc[t] = "barrier"
      PROVE  Progress(m)'
  <2>1. \A k \in 1 .. next : InHand(Order[k])' <=> InHand(Order[k])
    BY <1>4 DEF InHand
  <2>2. pass = 1 => \A k \in 1 .. next : Joined(m, Order[k])' \/ InHand(Order[k])'
    BY <1>2, <1>3, <2>1 DEF Progress
  <2>3. pass > 1 => \A i \in Node : Joined(m, i)'
    BY <1>2 DEF Progress
  <2>4. \A t \in Thread :
            /\ pc'[t] \notin {"insert", "ask", "search", "store", "link"} =>
                   mine'[t] = <<>>
            /\ pc'[t] = "barrier" => next' = Len(Order)
    BY <1>4 DEF Progress
  <2>. QED BY <1>4, <2>2, <2>3, <2>4 DEF Progress
<1>5. CASE UNCHANGED buildVars
  BY <1>4, <1>5 DEF buildVars, teamVars
<1>6. CASE Barrier
  <2>1. \A t \in Thread : pc[t] = "barrier" /\ mine[t] = <<>>
    BY <1>6 DEF Barrier, Progress
  <2>2. next = Len(Order)
    BY <1>6 DEF Barrier, Progress
  <2>3. \A k \in 1 .. next : ~InHand(Order[k])
    BY <2>1 DEF InHand
  <2>4. pass = 1 => \A i \in Node : Joined(m, i)
    <3>. SUFFICES ASSUME pass = 1, NEW i \in Node PROVE Joined(m, i)
      OBVIOUS
    <3>1. i \in ToSet(Order)
      BY BuildAssumption
    <3>2. PICK k \in 1 .. Len(Order) : Order[k] = i
      BY <1>1, <3>1 DEF ToSet
    <3>. QED BY <2>2, <2>3, <3>2 DEF Progress
  <2>5. \A i \in Node : Joined(m, i)'
    <3>1. pass = 1 \/ pass > 1
      BY <1>1
    <3>. QED BY <1>2, <2>4, <3>1 DEF Progress
  <2>6. /\ \A t \in Thread : pc'[t] \in {"claim", "serve"} /\ mine'[t] = <<>>
        /\ next' = 0 \/ next' = next
    BY <1>6, <2>1 DEF Barrier
  <2>7. \A k \in 1 .. next' : Order[k] \in Node
    BY <1>1, <1>3, <2>6
  <2>. QED BY <2>5, <2>6, <2>7 DEF Progress
<1>7. ASSUME NEW t \in Thread, Claim(t) PROVE Progress(m)'
  <2>. DEFINE upto == IF next + Chunk > Len(Order) THEN Len(Order) ELSE next + Chunk
  <2>1. /\ pc[t] = "claim" /\ next' = upto /\ UNCHANGED pass
        /\ mine' = [mine EXCEPT ![t] = SubSeq(Order, next + 1, upto)]
        /\ pc' = [pc EXCEPT ![t] = IF next < Len(Order) THEN "insert" ELSE "barrier"]
    BY <1>7 DEF Claim, Goto
  <2>2. upto \in Nat /\ next \in Nat /\ next <= upto /\ upto <= Len(Order)
        /\ (next = Len(Order) => upto = Len(Order))
    BY <1>1
  <2>. HIDE DEF upto
  <2>3. mine[t] = <<>>
    BY <2>1 DEF Progress
  <2>. DEFINE chunk == SubSeq(Order, next + 1, upto)
  <2>4. /\ Len(chunk) = upto - next
        /\ \A a \in 1 .. upto - next : chunk[a] = Order[next + a]
    <3>1. next + 1 \in Nat \ {0} /\ upto - (next + 1) + 1 = upto - next
      BY <2>2
    <3>2. Len(chunk) = upto - next
      BY <1>1, <2>2, <3>1
    <3>3. ASSUME NEW a \in 1 .. upto - next PROVE chunk[a] = Order[next + a]
      <4>1. a \in 1 .. Len(chunk) /\ (next + 1) + a - 1 = next + a
        BY <2>2, <3>2
      <4>. QED BY <1>1, <2>2, <3>1, <4>1
    <3>. QED BY <3>2, <3>3
  <2>5. next = Len(Order) => chunk = <<>>
    BY <1>1, <2>2
  <2>. HIDE DEF chunk
  <2>6. mine'[t] = chunk /\ \A u \in Thread \ {t} : mine'[u] = mine[u] /\ pc'[u] = pc[u]
    BY <1>1, <2>1 DEF chunk
  <2>7. ASSUME NEW k \in 1 .. upto, pass = 1
        PROVE  Joined(m, Order[k])' \/ InHand(Order[k])'
    <3>1. CASE k <= next
      <4>1. k \in 1 .. next
        BY <2>2, <3>1
      <4>2. CASE Joined(m, Order[k])
        BY <1>2, <1>3, <4>1, <4>2
      <4>3. CASE InHand(Order[k])
        <5>1. PICK u \in Thread : \E a \in 1 .. Len(mine[u]) : mine[u][a] = Order[k]
          BY <4>3 DEF InHand
        <5>2. u # t
          BY <2>3, <5>1
        <5>. QED BY <2>6, <5>1, <5>2 DEF InHand
      <4>. QED BY <2>7, <4>1, <4>2, <4>3 DEF Progress
    <3>2. CASE k > next
      <4>1. k - next \in 1 .. upto - next /\ next + (k - next) = k
        BY <2>2, <3>2
      <4>2. chunk[k - next] = Order[k] /\ k - next \in 1 .. Len(chunk)
        BY <2>4, <4>1
      <4>. QED BY <2>6, <4>2 DEF InHand
    <3>. QED BY <2>2, <3>1, <3>2
  <2>8. \A u \in Thread :
            /\ pc'[u] \notin {"insert", "ask", "search", "store", "link"} =>
                   mine'[u] = <<>>
            /\ pc'[u] = "barrier" => upto = Len(Order)
    <3>. TAKE u \in Thread
    <3>1. CASE u = t
      <4>1. next < Len(Order) => pc'[t] = "insert"
        BY <1>1, <2>1
      <4>2. ~(next < Len(Order)) => next = Len(Order)
        BY <1>1
      <4>. QED BY <2>2, <2>5, <2>6, <3>1, <4>1, <4>2
    <3>2. CASE u # t
      BY <2>2, <2>6, <3>2 DEF Progress
    <3>. QED BY <3>1, <3>2
  <2>9. pass > 1 => \A i \in Node : Joined(m, i)'
    BY <1>2 DEF Progress
  <2>. QED BY <2>1, <2>7, <2>8, <2>9 DEF Progress
<1>8. ASSUME NEW t \in Thread, Inserted(t) PROVE Progress(m)'
  <2>. DEFINE l == mine[t]
  <2>1. /\ pc[t] = "link" /\ links[t] = <<>> /\ UNCHANGED <<next, pass>>
        /\ mine' = [mine EXCEPT ![t] = Tail(l)]
        /\ pc' = [pc EXCEPT ![t] = AfterInsert(Tail(l))]
    BY <1>8 DEF Inserted, Goto
  <2>2. l \in Seq(Node) /\ l # <<>> /\ Inserting(t) = Head(l)
    BY <1>1, <2>1 DEF GraphTypeOK, Inserting
  <2>3. /\ mine'[t] = Tail(l)
        /\ pc'[t] = AfterInsert(Tail(l))
        /\ \A u \in Thread \ {t} : mine'[u] = mine[u] /\ pc'[u] = pc[u]
    BY <1>1, <2>1
  <2>4. Joined(m, Head(l))
    <3>1. ~\E a \in 1 .. Len(links[t]) : links[t][a] = m
      BY <2>1
    <3>. QED BY <2>1, <2>2, <3>1 DEF Joins, Joined
  <2>. HIDE DEF l
  <2>5. ASSUME NEW a \in 1 .. Len(l)
        PROVE  l[a] = Head(l) \/ \E b \in 1 .. Len(Tail(l)) : Tail(l)[b] = l[a]
    <3>1. CASE a = 1
      BY <2>2, <3>1
    <3>2. CASE a # 1
      <4>1. a - 1 \in 1 .. Len(Tail(l)) /\ Tail(l)[a - 1] = l[a]
        BY <2>2, <3>2
      <4>. QED BY <4>1
    <3>. QED BY <3>1, <3>2
  <2>6. ASSUME NEW k \in 1 .. next, pass = 1
        PROVE  Joined(m, Order[k])' \/ InHand(Order[k])'
    <3>1. CASE Joined(m, Order[k])
      BY <1>2, <1>3, <3>1
    <3>2. CASE InHand(Order[k])
      <4>1. PICK u \in Thread : \E a \in 1 .. Len(mine[u]) : mine[u][a] = Order[k]
        BY <3>2 DEF InHand
      <4>2. CASE u = t
        <5>1. PICK a \in 1 .. Len(l) : l[a] = Order[k]
          BY <4>1, <4>2 DEF l
        <5>2. CASE l[a] = Head(l)
          BY <1>2, <1>3, <2>4, <5>1, <5>2
        <5>3. CASE \E b \in 1 .. Len(Tail(l)) : Tail(l)[b] = l[a]
          BY <2>3, <5>1, <5>3 DEF InHand
        <5>. QED BY <2>5, <5>2, <5>3
      <4>3. CASE u # t
        BY <2>3, <4>1, <4>3 DEF InHand
      <4>. QED BY <4>2, <4>3
    <3>. QED BY <2>6, <3>1, <3>2 DEF Progress
  <2>7. \A u \in Thread :
            /\ pc'[u] \notin {"insert", "ask", "search", "store", "link"} =>
                   mine'[u] = <<>>
            /\ pc'[u] = "barrier" => next = Len(Order)
    <3>1. /\ pc'[t] \notin {"insert", "ask", "search", "store", "link"} => mine'[t] = <<>>
          /\ pc'[t] # "barrier"
      BY <2>3 DEF AfterInsert
    <3>. QED BY <2>3, <3>1 DEF Progress
  <2>8. pass > 1 => \A i \in Node : Joined(m, i)'
    BY <1>2 DEF Progress
  <2>. QED BY <2>1, <2>6, <2>7, <2>8 DEF Progress
<1>9. ASSUME NEW t \in Thread,
             \/ Insert(t) \/ Ask(t) \/ Collect(t) \/ LockOwn(t) \/ Link(t) \/ Unlock(t)
             \/ Step(t) \/ StoreSlot(t) \/ StoreCount(t) \/ Serve(t) \/ Answer(t)
      PROVE  Progress(m)'
  <2>1. UNCHANGED <<mine, next, pass>>
    BY <1>9 DEF Insert, Ask, Collect, LockOwn, Link, Unlock, Step, StoreSlot, StoreCount,
                Serve, Answer, teamVars
  <2>2. \/ pc' = pc
        \/ \E l \in {"ask", "search", "store", "link"} : pc' = [pc EXCEPT ![t] = l]
        \/ /\ pc[t] \in {"serve", "query"}
           /\ \E l \in {"serve", "query"} : pc' = [pc EXCEPT ![t] = l]
    BY <1>9 DEF Insert, Ask, Collect, LockOwn, Link, Unlock, Step, StoreSlot, StoreCount,
                Serve, Answer, teamVars, Goto
  <2>. QED BY <1>1, <1>4, <2>1, <2>2
<1>. QED BY <1>1, <1>5, <1>6, <1>7, <1>8, <1>9, NitroHasStart DEF BuildNext, Work

(* The empty graph with its medoid.                                        *)
LEMMA NitroStartsAlone == NitroInit => ConnectInv
<1>. SUFFICES ASSUME NitroInit PROVE ConnectInv
  OBVIOUS
<1>1. PICK m \in Node : medoids = [k \in MedoidKeys |-> m]
  BY DEF NitroInit, GlobalMedoids
<1>2. \A q \in Query : Starts(q) = {m}
  <2>. SUFFICES ASSUME NEW q \in Query PROVE Starts(q) = {m}
    OBVIOUS
  <2>1. Keys(q) = {"global"} /\ "global" \in MedoidKeys
    BY NitroRules, BuildAssumption DEF NitroKeys
  <2>2. medoids["global"] = m /\ m # NoNode
    BY <1>1, <2>1, BeamAssumption
  <2>. QED BY <2>1, <2>2 DEF Starts
<1>3. /\ num_neighbours = [p \in Node |-> 0]
      /\ search = [t \in Thread |-> Idle]
      /\ pass = 1 /\ next = 0
      /\ mine = [t \in Thread |-> <<>>] /\ pc = [t \in Thread |-> "claim"]
      /\ cands = [t \in Thread |-> {}] /\ links = [t \in Thread |-> <<>>]
  BY DEF NitroInit, GraphBuildInit
<1>4. \A p \in Node : Listed(p) = {}
  BY <1>3 DEF Listed
<1>5. \A t \in Thread : KnowsOnly(t, m) /\ pc[t] = "claim"
  BY <1>3 DEF KnowsOnly, Idle
<1>6. Alone(m)
  BY <1>4, <1>5 DEF Alone
<1>7. \A t \in Thread : Joins(t, m)
  BY <1>5 DEF Joins
<1>8. Progress(m)
  BY <1>3, <1>5 DEF Progress
<1>. QED BY <1>2, <1>6, <1>7, <1>8 DEF ConnectInv

LEMMA ConnectKept ==
    GraphInv /\ ConnectInv /\ Thread # {} /\ [BuildNext]_buildVars => ConnectInv'
<1>. SUFFICES ASSUME GraphInv, ConnectInv, Thread # {}, [BuildNext]_buildVars
              PROVE  ConnectInv'
  OBVIOUS
<1>1. PICK m \in Node :
          /\ \A q \in Query : Starts(q) = {m}
          /\ Alone(m) /\ (\A t \in Thread : Joins(t, m)) /\ Progress(m)
  BY DEF ConnectInv
<1>2. medoids' = medoids
  BY DEF BuildNext, Work, Barrier, Claim, Insert, Ask, Step, Collect, LockOwn, Link,
         StoreSlot, StoreCount, Unlock, Inserted, Serve, Answer, NoStart, buildVars
<1>3. \A q \in Query : Starts(q)' = {m}
  BY <1>1, <1>2 DEF Starts
<1>4. Alone(m)'
  BY <1>1, AloneKept
<1>5. \A t \in Thread : Joins(t, m)'
  BY <1>1, JoinsKept
<1>6. Progress(m)'
  BY <1>1, ProgressKept
<1>. QED BY <1>3, <1>4, <1>5, <1>6 DEF ConnectInv

(* After the first pass over the nodes every node has an edge, in every    *)
(* order of insertion and every interleaving (JAG_new.cpp:329): of a team  *)
(* of at least one thread and an index of at least two nodes.              *)
THEOREM NitroNoIsolatedNode ==
    ASSUME Thread # {}, \A i \in Node : \E j \in Node : j # i
    PROVE  NitroSpec => []NoIsolatedNode
<1>1. NitroSpec => NitroInit /\ [][BuildNext]_buildVars
  BY PTL DEF NitroSpec
<1>2. GraphInv /\ ConnectInv /\ [BuildNext]_buildVars => ConnectInv'
  BY ConnectKept
<1>3. ConnectInv => NoIsolatedNode
  <2>. SUFFICES ASSUME ConnectInv, pass > 1, NEW p \in Node
                PROVE  num_neighbours[p] > 0
    BY DEF NoIsolatedNode
  <2>1. PICK m \in Node : \A i \in Node : Joined(m, i)
    BY DEF ConnectInv, Progress
  <2>2. PICK j \in Node : j # m
    OBVIOUS
  <2>. QED BY <2>1, <2>2 DEF Joined
<1>. QED BY <1>1, <1>2, <1>3, NitroStartsAlone, NitroSafety, PTL

(* A query of the finished index has looked at all neighbours of what it   *)
(* returns (JAG_new.cpp:202) if operator< orders what it has visited, or   *)
(* if it has visited fewer than L nodes.  Else the break may leave a node  *)
(* of top_L unread, and nothing is said.                                   *)
THEOREM NitroExpanded == NitroSpec => []ResultsExpanded
<1>1. NitroSpec => NitroInit /\ [][BuildNext]_buildVars
  BY PTL DEF NitroSpec
<1>2. NitroInit => BeamInv /\ ExpandInv
  BY DEF NitroInit, GraphBuildInit, BeamInv, ExpandInv, Finished
<1>. QED BY <1>1, <1>2, NitroSafety, BuildKeepsBeams, QueriesExpand,
            QueriesEndAtAnOptimum, PTL
=============================================================================
