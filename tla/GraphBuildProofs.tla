-------------------------- MODULE GraphBuildProofs --------------------------
(***************************************************************************)
(* Proofs about GraphBuild for every team, every number of nodes, every    *)
(* degree and every pruning rule that meets PruneAssumption: GraphInv is   *)
(* kept by every step of a build.                                          *)
(*                                                                         *)
(* A list is looked at when nobody has its lock.  While a thread has it,   *)
(* the thread is on its way to a list it has chosen before its first       *)
(* store: WritesGood says that there is such a list, that every slot       *)
(* either holds its value or is still to be stored, and that the same goes *)
(* for the count.                                                          *)
(***************************************************************************)
EXTENDS GraphSafety, ListLemmas

(* The lists a node may have.                                              *)
Good(p, s) ==
    /\ s \in Seq(Node)
    /\ Len(s) <= MaxDegree
    /\ \A a, b \in 1 .. Len(s) : s[a] = s[b] => a = b
    /\ \A a \in 1 .. Len(s) : s[a] # p /\ Related(p, s[a])

(* Thread t is on its way to list s.                                       *)
Heading(t, s) ==
    /\ \A w \in stores[t] : w[1] < Len(s) /\ w[2] = s[w[1] + 1]
    /\ \A i \in 0 .. Len(s) - 1 :
           <<i, s[i + 1]>> \in stores[t] \/ neighbours[at[t]][i] = s[i + 1]
    /\ \/ counts[t] = {Len(s)}
       \/ counts[t] = {} /\ num_neighbours[at[t]] = Len(s)
    /\ num_neighbours[at[t]] > 0 => Len(s) > 0

(* No two threads have the lock of one node.                               *)
Exclusive == \A t, u \in Thread : at[t] = at[u] /\ at[t] # NoNode => t = u

(* A search is there only where the thread searches.                       *)
Searching ==
    \A t \in Thread : pc[t] \notin {"search", "query"} => search[t] = Idle

(* The neighbours to link back are related to the node and are not it.     *)
LinksGood ==
    \A t \in Thread :
        /\ pc[t] \notin {"link", "store"} => links[t] = <<>>
        /\ \A a \in 1 .. Len(links[t]) :
               links[t][a] # Inserting(t) /\ Related(Inserting(t), links[t][a])

ListsGood == \A p \in Node : Unlocked(p) => Good(p, List(p))

WritesGood ==
    \A t \in Thread : pc[t] = "store" => \E s \in Seq(Node) :
        Good(at[t], s) /\ Heading(t, s)

GraphInv ==
    /\ GraphTypeOK
    /\ DegreeBound
    /\ Exclusive
    /\ Searching
    /\ VisitedExact
    /\ LinksGood
    /\ ListsGood
    /\ WritesGood

-----------------------------------------------------------------------------
(* What robust_prune chooses for a node from a set of candidates.          *)
LEMMA PruneGives ==
    ASSUME NEW p \in Node, NEW V \in SUBSET Node, Listed(p) \subseteq Node,
           pass \in 1 .. Passes, NEW s \in Prune(p, Candidates(p, V), pass)
    PROVE  /\ Good(p, s)
           /\ \A c \in Candidates(p, V) : Related(p, c) => Len(s) > 0
<1>. DEFINE C == Candidates(p, V)
<1>1. C \in SUBSET (Node \ {p})
  BY DEF Candidates
<1>2. /\ s \in Seq({c \in C : Related(p, c)})
      /\ Len(s) <= MaxDegree
      /\ \A a, b \in DOMAIN s : s[a] = s[b] => a = b
      /\ (\E c \in C : Related(p, c)) => s # <<>>
  BY <1>1, PruneAssumption
<1>. HIDE DEF C
<1>3. DOMAIN s = 1 .. Len(s) /\ \A a \in 1 .. Len(s) : s[a] \in {c \in C : Related(p, c)}
  BY <1>2
<1>4. s \in Seq(Node)
  BY <1>1, <1>2, <1>3
<1>5. s # <<>> => Len(s) > 0
  BY <1>4
<1>. QED BY <1>1, <1>2, <1>3, <1>4, <1>5 DEF Good, C

(* What a search has in its locals, as SearchTypeOK has it.                *)
Locals == [query : Query \cup {NoQuery}, heap : SUBSET Node, top : SUBSET Node,
           seen : SUBSET Node, curr : Node \cup {NoNode}, slot : 0 .. MaxDegree,
           reading : BOOLEAN]

Reads(s) == s.reading => s.curr # NoNode /\ s.slot \in Slot

LEMMA LocalTypes ==
    ASSUME SearchTypeOK
    PROVE  /\ search \in [Thread -> Locals] /\ visited \in [Thread -> SUBSET Node]
           /\ \A t \in Thread : Reads(search[t])
BY DEF SearchTypeOK, Locals, Reads

LEMMA IdleTypes ==
    /\ Idle \in Locals
    /\ Idle.query = NoQuery /\ Idle.seen = {} /\ Idle.curr = NoNode
    /\ Idle.slot = 0 /\ ~Idle.reading
BY DataAssumption DEF Idle, Locals

(* The locals of a search that begins.                                     *)
LEMMA BeginGives ==
    ASSUME SearchTypeOK, NEW t \in Thread, NEW q \in Query,
           NEW S \in SUBSET Node, Begin(t, q, S)
    PROVE  \E r \in Locals :
               /\ search' = [search EXCEPT ![t] = r]
               /\ r.query = q /\ r.heap = S /\ r.top \in Beams(q, S) /\ r.seen = S
               /\ r.curr = NoNode /\ r.slot = 0 /\ ~r.reading
<1>1. PICK beam \in Beams(q, S) :
          search' = [search EXCEPT ![t] =
              [Idle EXCEPT !.query = q, !.heap = S, !.top = beam, !.seen = S]]
  BY DEF Begin
<1>2. beam \in SUBSET Node
  BY DEF Beams
<1>. DEFINE r == [Idle EXCEPT !.query = q, !.heap = S, !.top = beam, !.seen = S]
<1>3. r \in Locals
  BY <1>2, IdleTypes DEF Locals
<1>4. /\ r.query = q /\ r.heap = S /\ r.top = beam /\ r.seen = S
      /\ r.curr = NoNode /\ r.slot = 0 /\ ~r.reading
  BY IdleTypes DEF Locals
<1>. HIDE DEF r
<1>. QED BY <1>1, <1>3, <1>4 DEF r

(* A search that starts at nodes has nodes in its heaps.                   *)
LEMMA BeginTypes ==
    ASSUME SearchTypeOK, NEW t \in Thread, NEW q \in Query,
           NEW S \in SUBSET Node, Begin(t, q, S)
    PROVE  /\ visited' \in [Thread -> SUBSET Node]
           /\ search' \in [Thread -> Locals]
           /\ \A u \in Thread : Reads(search'[u])
<1>1. PICK r \in Locals : search' = [search EXCEPT ![t] = r] /\ ~r.reading
  BY BeginGives
<1>2. visited' = [visited EXCEPT ![t] = @ \cup S]
  BY DEF Begin
<1>. QED BY <1>1, <1>2, LocalTypes DEF Reads

(* What taking a candidate leaves, top and bottom of the heaps aside.      *)
LEMMA PopGives ==
    ASSUME SearchTypeOK, NEW t \in Thread, Pop(t)
    PROVE  /\ visited' = visited /\ search[t].curr = NoNode
           /\ \E r \in Locals :
                /\ search' = [search EXCEPT ![t] = r]
                /\ r.query = search[t].query /\ r.top = search[t].top
                /\ r.seen = search[t].seen /\ r.slot = search[t].slot /\ ~r.reading
                /\ \E c \in Closest(search[t].query, search[t].heap, search[t].seen),
                      w \in Farthest(search[t].query, search[t].top, search[t].seen) :
                     \/ /\ OutOfReach(search[t].query, search[t].top, w, c)
                        /\ r.heap = {} /\ r.curr = NoNode
                     \/ /\ ~OutOfReach(search[t].query, search[t].top, w, c)
                        /\ r.heap = search[t].heap \ {c} /\ r.curr = c
<1>. DEFINE s == search[t]
<1>1. s \in Locals /\ s.curr = NoNode /\ ~s.reading
  BY LocalTypes DEF Pop, Reads
<1>2. PICK c \in Closest(s.query, s.heap, s.seen), w \in Farthest(s.query, s.top, s.seen) :
          search' = [search EXCEPT ![t] =
              IF OutOfReach(s.query, s.top, w, c) THEN [s EXCEPT !.heap = {}]
              ELSE [s EXCEPT !.heap = @ \ {c}, !.curr = c]]
  BY DEF Pop
<1>3. c \in Node
  BY <1>1 DEF Closest, Locals
<1>. DEFINE r == IF OutOfReach(s.query, s.top, w, c) THEN [s EXCEPT !.heap = {}]
                 ELSE [s EXCEPT !.heap = @ \ {c}, !.curr = c]
<1>4. /\ r \in Locals
      /\ r.query = s.query /\ r.top = s.top /\ r.seen = s.seen
      /\ r.slot = s.slot /\ ~r.reading
      /\ OutOfReach(s.query, s.top, w, c) => r.heap = {} /\ r.curr = NoNode
      /\ ~OutOfReach(s.query, s.top, w, c) => r.heap = s.heap \ {c} /\ r.curr = c
  <2>. HIDE DEF s
  <2>. QED BY <1>1, <1>3 DEF Locals
<1>5. search' = [search EXCEPT ![t] = r]
  BY <1>2
<1>. HIDE DEF r
<1>. QED BY <1>1, <1>4, <1>5 DEF Pop

LEMMA PopTypes ==
    ASSUME SearchTypeOK, NEW t \in Thread, Pop(t)
    PROVE  /\ visited' \in [Thread -> SUBSET Node]
           /\ search' \in [Thread -> Locals]
           /\ \A u \in Thread : Reads(search'[u])
           /\ visited'[t] = visited[t] /\ search'[t].seen = search[t].seen
           /\ search'[t].query = search[t].query /\ search'[t].top = search[t].top
           /\ \A u \in Thread \ {t} : visited'[u] = visited[u] /\ search'[u] = search[u]
<1>1. PICK r \in Locals :
          /\ search' = [search EXCEPT ![t] = r]
          /\ r.query = search[t].query /\ r.top = search[t].top
          /\ r.seen = search[t].seen /\ ~r.reading
  BY PopGives
<1>2. visited' = visited
  BY PopGives
<1>. QED BY <1>1, <1>2, LocalTypes DEF Reads

(* Looking for another slot changes no more than where the search is.      *)
LEMMA LookGives ==
    ASSUME SearchTypeOK, NEW t \in Thread, Look(t)
    PROVE  /\ visited' = visited /\ search[t].curr \in Node /\ search[t].curr # NoNode
           /\ \E r \in Locals :
                /\ search' = [search EXCEPT ![t] = r]
                /\ r.query = search[t].query /\ r.top = search[t].top
                /\ r.seen = search[t].seen /\ r.heap = search[t].heap
                /\ \/ /\ search[t].slot < num_neighbours[search[t].curr] /\ r.reading
                      /\ r.curr = search[t].curr /\ r.slot = search[t].slot
                   \/ /\ ~(search[t].slot < num_neighbours[search[t].curr]) /\ ~r.reading
                      /\ r.curr = NoNode /\ r.slot = 0
<1>. DEFINE s == search[t]
            m == num_neighbours[s.curr]
<1>1. s \in Locals /\ s.curr # NoNode /\ ~s.reading
  BY LocalTypes DEF Look
<1>. DEFINE r == IF s.slot < m THEN [s EXCEPT !.reading = TRUE]
                 ELSE [s EXCEPT !.curr = NoNode, !.slot = 0]
<1>2. search' = [search EXCEPT ![t] = r]
  BY DEF Look
<1>3. /\ r \in Locals
      /\ r.query = s.query /\ r.top = s.top /\ r.seen = s.seen /\ r.heap = s.heap
      /\ s.slot < m => r.reading /\ r.curr = s.curr /\ r.slot = s.slot
      /\ ~(s.slot < m) => ~r.reading /\ r.curr = NoNode /\ r.slot = 0
  <2>1. 0 \in 0 .. MaxDegree
    BY DataAssumption
  <2>. HIDE DEF s, m
  <2>2. CASE s.slot < m
    <3>1. r = [s EXCEPT !.reading = TRUE]
      BY <2>2
    <3>. HIDE DEF r
    <3>. QED BY <1>1, <2>2, <3>1 DEF Locals
  <2>3. CASE ~(s.slot < m)
    <3>1. r = [s EXCEPT !.curr = NoNode, !.slot = 0]
      BY <2>3
    <3>. HIDE DEF r
    <3>2. r \in Locals
      <4>. DEFINE z == [s EXCEPT !.curr = NoNode]
      <4>1. z \in Locals
        BY <1>1 DEF Locals
      <4>2. r = [z EXCEPT !.slot = 0]
        BY <3>1
      <4>. HIDE DEF z
      <4>. QED BY <2>1, <4>1, <4>2 DEF Locals
    <3>3. /\ r.query = s.query /\ r.top = s.top /\ r.seen = s.seen /\ r.heap = s.heap
          /\ ~r.reading /\ r.curr = NoNode /\ r.slot = 0
      BY <1>1, <3>1 DEF Locals
    <3>. QED BY <2>3, <3>2, <3>3
  <2>. QED BY <2>2, <2>3
<1>4. s.curr \in Node
  <2>. HIDE DEF s
  <2>. QED BY <1>1 DEF Locals
<1>. HIDE DEF r, m
<1>. QED BY <1>1, <1>2, <1>3, <1>4 DEF Look, m

LEMMA LookTypes ==
    ASSUME SearchTypeOK, DegreeBound, NEW t \in Thread, Look(t)
    PROVE  /\ visited' \in [Thread -> SUBSET Node]
           /\ search' \in [Thread -> Locals]
           /\ \A u \in Thread : Reads(search'[u])
           /\ visited'[t] = visited[t] /\ search'[t].seen = search[t].seen
           /\ search'[t].query = search[t].query /\ search'[t].top = search[t].top
           /\ \A u \in Thread \ {t} : visited'[u] = visited[u] /\ search'[u] = search[u]
<1>. DEFINE s == search[t]
<1>1. s.curr \in Node /\ s.curr # NoNode /\ visited' = visited
  BY LookGives
<1>2. PICK r \in Locals :
          /\ search' = [search EXCEPT ![t] = r]
          /\ r.query = s.query /\ r.top = s.top /\ r.seen = s.seen
          /\ r.reading => /\ s.slot < num_neighbours[s.curr]
                          /\ r.curr = s.curr /\ r.slot = s.slot
  BY LookGives
<1>3. s \in Locals
  BY LocalTypes
<1>4. /\ num_neighbours[s.curr] \in Nat /\ num_neighbours[s.curr] <= MaxDegree
      /\ MaxDegree \in Nat
  BY <1>1, DataAssumption DEF DegreeBound, SearchTypeOK
<1>5. s.slot \in 0 .. MaxDegree
  <2>. HIDE DEF s
  <2>. QED BY <1>3 DEF Locals
<1>6. Reads(r)
  <2>. HIDE DEF s
  <2>. QED BY <1>1, <1>2, <1>4, <1>5 DEF Reads, Slot
<1>. QED BY <1>1, <1>2, <1>6, LocalTypes

(* What reading a slot leaves: a fresh node n is seen, and enters both     *)
(* heaps if it was taken, at the cost of a farthest one if top_L was full. *)
LEMMA ReadGives ==
    ASSUME SearchTypeOK, NEW t \in Thread, Read(t)
    PROVE  \E n \in Node, r \in Locals :
             /\ n = neighbours[search[t].curr][search[t].slot]
             /\ search[t].curr \in Node /\ search[t].curr # NoNode
             /\ search[t].slot \in Slot
             /\ search' = [search EXCEPT ![t] = r]
             /\ r.query = search[t].query /\ r.curr = search[t].curr
             /\ r.slot = search[t].slot + 1 /\ ~r.reading
             /\ \/ /\ ~(n \notin visited[t] /\ Admits(search[t].query, n))
                   /\ visited' = visited
                   /\ r.seen = search[t].seen /\ r.heap = search[t].heap
                   /\ r.top = search[t].top
                \/ /\ n \notin visited[t] /\ Admits(search[t].query, n)
                   /\ visited' = [visited EXCEPT ![t] = @ \cup {n}]
                   /\ r.seen = search[t].seen \cup {n}
                   /\ \E w \in Farthest(search[t].query, search[t].top, search[t].seen) :
                        \/ /\ ~Full(search[t].top) \/ Nearer(search[t].query, n, w)
                           /\ r.heap = search[t].heap \cup {n}
                           /\ r.top = Push(search[t].top, w, n)
                        \/ /\ Full(search[t].top) /\ ~Nearer(search[t].query, n, w)
                           /\ r.heap = search[t].heap /\ r.top = search[t].top
<1>. DEFINE s == search[t]
            n == neighbours[s.curr][s.slot]
            fresh == n \notin visited[t] /\ Admits(s.query, n)
<1>1. s \in Locals /\ s.curr # NoNode /\ s.slot \in Slot
  BY LocalTypes DEF Read, Reads
<1>2. s.curr \in Node
  <2>. HIDE DEF s
  <2>. QED BY <1>1 DEF Locals
<1>3. n \in Node
  BY <1>1, <1>2 DEF SearchTypeOK
<1>4. visited' = [visited EXCEPT ![t] = IF fresh THEN @ \cup {n} ELSE @]
  BY DEF Read
<1>5. PICK w \in Farthest(s.query, s.top, s.seen) :
          LET taken == fresh /\ (~Full(s.top) \/ Nearer(s.query, n, w)) IN
          search' = [search EXCEPT ![t] =
              [s EXCEPT !.slot = @ + 1, !.reading = FALSE,
                        !.seen = IF fresh THEN @ \cup {n} ELSE @,
                        !.heap = IF taken THEN @ \cup {n} ELSE @,
                        !.top = IF taken THEN Push(@, w, n) ELSE @]]
  BY DEF Read
<1>. DEFINE taken == fresh /\ (~Full(s.top) \/ Nearer(s.query, n, w))
            r == [s EXCEPT !.slot = @ + 1, !.reading = FALSE,
                           !.seen = IF fresh THEN @ \cup {n} ELSE @,
                           !.heap = IF taken THEN @ \cup {n} ELSE @,
                           !.top = IF taken THEN Push(@, w, n) ELSE @]
<1>6. /\ r \in Locals
      /\ r.query = s.query /\ r.curr = s.curr /\ r.slot = s.slot + 1 /\ ~r.reading
      /\ r.seen = IF fresh THEN s.seen \cup {n} ELSE s.seen
      /\ r.heap = IF taken THEN s.heap \cup {n} ELSE s.heap
      /\ r.top = IF taken THEN Push(s.top, w, n) ELSE s.top
  <2>1. s.slot + 1 \in 0 .. MaxDegree
    <3>. HIDE DEF s
    <3>. QED BY <1>1, DataAssumption DEF Slot
  <2>. HIDE DEF s, n, fresh, taken
  <2>2. Push(s.top, w, n) \in SUBSET Node
    BY <1>1, <1>3 DEF Push, Locals
  <2>. QED BY <1>1, <1>3, <2>1, <2>2 DEF Locals
<1>7. search' = [search EXCEPT ![t] = r]
  BY <1>5
<1>8. ~fresh => visited' = visited
  BY <1>4 DEF SearchTypeOK
<1>9. fresh => visited' = [visited EXCEPT ![t] = @ \cup {n}]
  BY <1>4
<1>10. w \in Farthest(s.query, s.top, s.seen)
  OBVIOUS
<1>. HIDE DEF r
<1>. QED BY <1>1, <1>2, <1>3, <1>6, <1>7, <1>8, <1>9, <1>10

LEMMA ReadTypes ==
    ASSUME SearchTypeOK, NEW t \in Thread, Read(t)
    PROVE  /\ visited' \in [Thread -> SUBSET Node]
           /\ search' \in [Thread -> Locals]
           /\ \A u \in Thread : Reads(search'[u])
           /\ visited[t] = search[t].seen => visited'[t] = search'[t].seen
           /\ search'[t].query = search[t].query
           /\ \A u \in Thread \ {t} : visited'[u] = visited[u] /\ search'[u] = search[u]
<1>1. PICK n \in Node, r \in Locals :
          /\ search' = [search EXCEPT ![t] = r]
          /\ r.query = search[t].query /\ ~r.reading
          /\ \/ visited' = visited /\ r.seen = search[t].seen
             \/ /\ visited' = [visited EXCEPT ![t] = @ \cup {n}]
                /\ r.seen = search[t].seen \cup {n}
  BY ReadGives
<1>. QED BY <1>1, LocalTypes DEF Reads

LEMMA EndTypes ==
    ASSUME SearchTypeOK, NEW t \in Thread, End(t)
    PROVE  /\ visited' \in [Thread -> SUBSET Node]
           /\ search' \in [Thread -> Locals]
           /\ \A u \in Thread : Reads(search'[u])
           /\ search' = [search EXCEPT ![t] = Idle]
           /\ visited' = [visited EXCEPT ![t] = visited[t] \ search[t].seen]
BY IdleTypes, LocalTypes DEF End, Wipe, Reads

LEMMA StartsAreNodes ==
    ASSUME GraphTypeOK, NEW q \in Query
    PROVE  Starts(q) \in SUBSET Node
BY BuildAssumption DEF Starts, GraphTypeOK

(* The list of a node, as the model has it and as a set.                   *)
LEMMA ListTypes ==
    ASSUME SearchTypeOK, NEW p \in Node, num_neighbours[p] <= MaxDegree
    PROVE  /\ List(p) \in Seq(Node)
           /\ Len(List(p)) = num_neighbours[p]
           /\ \A a \in 1 .. num_neighbours[p] : List(p)[a] = neighbours[p][a - 1]
           /\ \A a \in 1 .. num_neighbours[p] : List(p)[a] \in Listed(p)
           /\ \A n \in Listed(p) : \E a \in 1 .. num_neighbours[p] : List(p)[a] = n
           /\ Listed(p) \in SUBSET Node
<1>1. /\ num_neighbours[p] \in Nat
      /\ neighbours[p] \in [Slot -> Node]
  BY DEF SearchTypeOK
<1>2. \A a \in 1 .. num_neighbours[p] : a - 1 \in Slot /\ neighbours[p][a - 1] \in Node
  BY <1>1, DataAssumption DEF Slot
<1>3. List(p) \in Seq(Node) /\ Len(List(p)) = num_neighbours[p]
  BY <1>1, <1>2 DEF List
<1>4. \A a \in 1 .. num_neighbours[p] : List(p)[a] = neighbours[p][a - 1]
  BY <1>1 DEF List
<1>5. \A a \in 1 .. num_neighbours[p] : List(p)[a] \in Listed(p)
  BY <1>1, <1>4 DEF Listed
<1>6. \A n \in Listed(p) : \E a \in 1 .. num_neighbours[p] : List(p)[a] = n
  <2>. TAKE n \in Listed(p)
  <2>1. PICK i \in 0 .. num_neighbours[p] - 1 : n = neighbours[p][i]
    BY DEF Listed
  <2>2. i + 1 \in 1 .. num_neighbours[p] /\ (i + 1) - 1 = i
    BY <1>1
  <2>. QED BY <1>4, <2>1, <2>2
<1>7. Listed(p) \in SUBSET Node
  BY <1>3, <1>6
<1>. QED BY <1>3, <1>4, <1>5, <1>6, <1>7

(* What the writes of a prune are.                                         *)
LEMMA RewriteGives ==
    ASSUME GraphTypeOK, DegreeBound, NEW t \in Thread, NEW p \in Node,
           NEW V \in SUBSET Node, Rewrite(t, p, V)
    PROVE  \E s \in Seq(Node) :
               /\ Good(p, s)
               /\ \A c \in Candidates(p, V) : Related(p, c) => Len(s) > 0
               /\ stores' = [stores EXCEPT ![t] = {<<i - 1, s[i]>> : i \in 1 .. Len(s)}]
               /\ counts' = [counts EXCEPT ![t] = {Len(s)}]
<1>1. PICK s \in Prune(p, Candidates(p, V), pass) :
          /\ stores' = [stores EXCEPT ![t] = {<<i - 1, s[i]>> : i \in DOMAIN s}]
          /\ counts' = [counts EXCEPT ![t] = {Len(s)}]
  BY DEF Rewrite, NewCounts
<1>2. Listed(p) \subseteq Node /\ pass \in 1 .. Passes
  BY ListTypes DEF GraphTypeOK, DegreeBound
<1>3. /\ Good(p, s)
      /\ \A c \in Candidates(p, V) : Related(p, c) => Len(s) > 0
  BY <1>2, PruneGives
<1>4. s \in Seq(Node) /\ DOMAIN s = 1 .. Len(s)
  BY <1>3 DEF Good
<1>. QED BY <1>1, <1>3, <1>4

(* The stores and counts of a list that fits stay within the array.        *)
LEMMA WritesFit ==
    ASSUME NEW s \in Seq(Node), Len(s) <= MaxDegree
    PROVE  /\ {<<i - 1, s[i]>> : i \in 1 .. Len(s)} \in SUBSET (Nat \X Node)
           /\ \A w \in {<<i - 1, s[i]>> : i \in 1 .. Len(s)} : w[1] < MaxDegree
           /\ {Len(s)} \in SUBSET Nat
           /\ \A c \in {Len(s)} : c <= MaxDegree
<1>1. MaxDegree \in Nat
  BY DataAssumption
<1>2. \A i \in 1 .. Len(s) : i - 1 \in Nat /\ i - 1 < MaxDegree /\ s[i] \in Node
  BY <1>1
<1>. QED BY <1>1, <1>2

(* Locks: taking a free one and giving one back keeps them exclusive.      *)
LEMMA TakeLock ==
    ASSUME Exclusive, GraphTypeOK, NEW t \in Thread, NEW p \in Node, Free(p),
           at' = [at EXCEPT ![t] = p]
    PROVE  Exclusive'
<1>1. NoNode \notin Node
  BY BeamAssumption
<1>. QED BY <1>1 DEF Exclusive, Free, GraphTypeOK

LEMMA ReleaseLock ==
    ASSUME Exclusive, GraphTypeOK, NEW t \in Thread,
           at' = [at EXCEPT ![t] = NoNode]
    PROVE  Exclusive'
BY DEF Exclusive, GraphTypeOK

-----------------------------------------------------------------------------
(* Every step keeps the types, one action after the other.                 *)
LEMMA ClaimTypes ==
    ASSUME GraphTypeOK, NEW t \in Thread, Claim(t)
    PROVE  GraphTypeOK'
<1>. DEFINE upto == IF next + Chunk > Len(Order) THEN Len(Order) ELSE next + Chunk
<1>1. /\ Order \in Seq(Node) /\ Len(Order) \in Nat /\ Chunk \in Nat \ {0}
      /\ next \in 0 .. Len(Order)
  BY BuildAssumption DEF GraphTypeOK
<1>2. /\ upto \in 0 .. Len(Order)
      /\ next < Len(Order) => next + 1 <= upto
  BY <1>1
<1>3. /\ mine' = [mine EXCEPT ![t] = SubSeq(Order, next + 1, upto)]
      /\ next' = upto
      /\ pc' = [pc EXCEPT ![t] = IF next < Len(Order) THEN "insert" ELSE "barrier"]
      /\ pc[t] = "claim"
      /\ UNCHANGED <<graphVars, searchVars, medoids, pass, asks, cands, at, stores,
                     counts, links, todo>>
  BY DEF Claim, Goto
<1>. HIDE DEF upto
<1>4. /\ SubSeq(Order, next + 1, upto) \in Seq(Node)
      /\ next < Len(Order) => SubSeq(Order, next + 1, upto) # <<>>
  <2>1. \A i \in next + 1 .. upto : i \in 1 .. Len(Order) /\ Order[i] \in Node
    BY <1>1, <1>2
  <2>2. SubSeq(Order, next + 1, upto) \in Seq(Node)
    BY <1>1, <1>2, <2>1
  <2>3. next < Len(Order) => Len(SubSeq(Order, next + 1, upto)) > 0
    BY <1>1, <1>2
  <2>. DEFINE chunk == SubSeq(Order, next + 1, upto)
  <2>4. chunk \in Seq(Node) /\ (next < Len(Order) => Len(chunk) > 0)
    BY <2>2, <2>3
  <2>. HIDE DEF chunk
  <2>5. next < Len(Order) => chunk # <<>>
    BY <2>4
  <2>. QED BY <2>4, <2>5 DEF chunk
<1>5. SearchTypeOK'
  BY <1>3 DEF GraphTypeOK, SearchTypeOK, graphVars, searchVars
<1>. QED BY <1>1, <1>2, <1>3, <1>4, <1>5 DEF GraphTypeOK, BuildLabels

LEMMA BarrierTypes ==
    ASSUME GraphTypeOK, Barrier
    PROVE  GraphTypeOK'
<1>1. SearchTypeOK'
  BY DEF Barrier, GraphTypeOK, SearchTypeOK, graphVars, searchVars
<1>2. Passes \in Nat /\ Len(Order) \in Nat
  BY BuildAssumption
<1>3. pass' \in 1 .. Passes /\ next' \in 0 .. Len(Order)
  BY <1>2 DEF Barrier, GraphTypeOK
<1>4. /\ pc' \in [Thread -> {"claim", "serve"}]
      /\ \A t \in Thread : pc[t] = "barrier"
  BY DEF Barrier
<1>. QED BY <1>1, <1>3, <1>4 DEF Barrier, GraphTypeOK, BuildLabels

LEMMA InsertTypes ==
    ASSUME GraphTypeOK, NEW t \in Thread, Insert(t)
    PROVE  GraphTypeOK'
<1>1. SearchTypeOK'
  BY DEF Insert, GraphTypeOK, SearchTypeOK, graphVars, searchVars
<1>2. mine[t] \in Seq(Node) /\ mine[t] # <<>>
  BY DEF Insert, GraphTypeOK
<1>3. Queries(Inserting(t)) \in Seq(Query)
  BY <1>2, BuildAssumption DEF Inserting
<1>. QED BY <1>1, <1>2, <1>3 DEF Insert, Goto, GraphTypeOK, BuildLabels

LEMMA AskTypes ==
    ASSUME GraphTypeOK, NEW t \in Thread, Ask(t)
    PROVE  GraphTypeOK'
<1>1. Head(asks[t]) \in Query /\ Tail(asks[t]) \in Seq(Query)
  BY DEF Ask, GraphTypeOK
<1>2. SearchTypeOK'
  BY <1>1, BeginTypes, StartsAreNodes
     DEF Ask, GraphTypeOK, SearchTypeOK, Locals, Reads, graphVars
<1>. QED BY <1>1, <1>2 DEF Ask, Goto, GraphTypeOK, BuildLabels

LEMMA StepTypes ==
    ASSUME GraphTypeOK, DegreeBound, NEW t \in Thread, Step(t)
    PROVE  GraphTypeOK'
<1>1. SearchTypeOK'
  BY PopTypes, LookTypes, ReadTypes
     DEF Step, GraphTypeOK, SearchTypeOK, Locals, Reads, graphVars
<1>. QED BY <1>1 DEF Step, GraphTypeOK, teamVars

LEMMA CollectTypes ==
    ASSUME GraphTypeOK, NEW t \in Thread, Collect(t)
    PROVE  GraphTypeOK'
<1>1. SearchTypeOK'
  BY EndTypes DEF Collect, GraphTypeOK, SearchTypeOK, Locals, Reads, graphVars
<1>2. search[t].seen \in SUBSET Node
  BY DEF GraphTypeOK, SearchTypeOK
<1>. QED BY <1>1, <1>2 DEF Collect, Goto, GraphTypeOK, BuildLabels

LEMMA LockOwnTypes ==
    ASSUME GraphTypeOK, DegreeBound, NEW t \in Thread, LockOwn(t)
    PROVE  GraphTypeOK'
<1>1. SearchTypeOK'
  BY DEF LockOwn, GraphTypeOK, SearchTypeOK, graphVars, searchVars
<1>2. Inserting(t) \in Node /\ mine[t] # <<>>
  BY DEF LockOwn, GraphTypeOK, Inserting
<1>3. PICK s \in Seq(Node) :
          /\ Good(Inserting(t), s)
          /\ stores' = [stores EXCEPT ![t] = {<<i - 1, s[i]>> : i \in 1 .. Len(s)}]
          /\ counts' = [counts EXCEPT ![t] = {Len(s)}]
  <2>1. cands[t] \in SUBSET Node /\ Rewrite(t, Inserting(t), cands[t])
    BY DEF LockOwn, GraphTypeOK
  <2>. QED BY <1>2, <2>1, RewriteGives
<1>4. /\ stores' \in [Thread -> SUBSET (Nat \X Node)]
      /\ counts' \in [Thread -> SUBSET Nat]
  BY <1>3, WritesFit DEF Good, GraphTypeOK
<1>5. NoNode \notin Node
  BY BeamAssumption
<1>. QED BY <1>1, <1>2, <1>4, <1>5 DEF LockOwn, Goto, GraphTypeOK, BuildLabels

LEMMA LinkTypes ==
    ASSUME GraphTypeOK, DegreeBound, NEW t \in Thread, Link(t)
    PROVE  GraphTypeOK'
<1>. DEFINE p == Head(links[t])
            i == Inserting(t)
<1>1. SearchTypeOK'
  BY DEF Link, GraphTypeOK, SearchTypeOK, graphVars, searchVars
<1>2. /\ p \in Node /\ Tail(links[t]) \in Seq(Node)
      /\ i \in Node /\ mine[t] # <<>>
      /\ num_neighbours[p] \in Nat
      /\ NoNode \notin Node
  <2>1. links[t] \in Seq(Node) /\ links[t] # <<>> /\ mine[t] \in Seq(Node) /\ mine[t] # <<>>
    BY DEF Link, GraphTypeOK
  <2>2. num_neighbours \in [Node -> Nat]
    BY DEF GraphTypeOK, SearchTypeOK
  <2>3. NoNode \notin Node
    BY BeamAssumption
  <2>. QED BY <2>1, <2>2, <2>3 DEF Inserting
<1>3. CASE Mentions(p, i)
  <2>1. /\ at' = [at EXCEPT ![t] = NoNode]
        /\ UNCHANGED <<stores, counts, pc>>
    BY <1>3 DEF Link, AfterSkip
  <2>2. pc[t] = "link" /\ at[t] = NoNode
    BY DEF Link, GraphTypeOK
  <2>3. at' = at
    BY <2>1, <2>2 DEF GraphTypeOK
  <2>. QED BY <1>1, <1>2, <2>1, <2>3 DEF Link, GraphTypeOK, BuildLabels
<1>4. CASE ~Mentions(p, i)
  <2>1. /\ at' = [at EXCEPT ![t] = p]
        /\ pc' = [pc EXCEPT ![t] = "store"]
    BY <1>4 DEF Link, Goto
  <2>2. /\ stores' \in [Thread -> SUBSET (Nat \X Node)]
        /\ counts' \in [Thread -> SUBSET Nat]
    <3>1. CASE HasRoom(p)
      <4>1. /\ stores' = [stores EXCEPT ![t] = {<<num_neighbours[p], i>>}]
            /\ counts' = [counts EXCEPT ![t] = {num_neighbours[p] + 1}]
        BY <1>4, <3>1 DEF Link
      <4>. HIDE DEF p, i
      <4>. QED BY <1>2, <4>1 DEF GraphTypeOK
    <3>2. CASE ~HasRoom(p)
      <4>1. Rewrite(t, p, {i}) /\ {i} \in SUBSET Node
        BY <1>2, <1>4, <3>2 DEF Link
      <4>2. PICK s \in Seq(Node) :
                /\ Good(p, s)
                /\ stores' = [stores EXCEPT ![t] = {<<k - 1, s[k]>> : k \in 1 .. Len(s)}]
                /\ counts' = [counts EXCEPT ![t] = {Len(s)}]
        <5>. HIDE DEF p, i
        <5>. QED BY <1>2, <4>1, RewriteGives
      <4>. QED BY <4>2, WritesFit DEF Good, GraphTypeOK
    <3>. QED BY <3>1, <3>2
  <2>3. UNCHANGED <<medoids, pass, next, mine, asks, cands, todo>>
        /\ links' = [links EXCEPT ![t] = Tail(links[t])]
    BY DEF Link
  <2>. HIDE DEF p
  <2>. QED BY <1>1, <1>2, <2>1, <2>2, <2>3 DEF GraphTypeOK, BuildLabels
<1>. QED BY <1>3, <1>4

LEMMA StoreSlotTypes ==
    ASSUME GraphTypeOK, DegreeBound, NEW t \in Thread, StoreSlot(t)
    PROVE  GraphTypeOK'
<1>1. PICK w \in stores[t] :
          /\ neighbours' = [neighbours EXCEPT ![at[t]][w[1]] = w[2]]
          /\ stores' = [stores EXCEPT ![t] = @ \ {w}]
  BY DEF StoreSlot
<1>2. at[t] \in Node
  BY DEF StoreSlot, GraphTypeOK
<1>3. w[1] \in Slot /\ w[2] \in Node
  <2>1. stores[t] \in SUBSET (Nat \X Node) /\ w[1] < MaxDegree
    BY DEF GraphTypeOK, DegreeBound
  <2>. QED BY <2>1, DataAssumption DEF Slot
<1>4. neighbours' \in [Node -> [Slot -> Node]]
  BY <1>1, <1>2, <1>3 DEF GraphTypeOK, SearchTypeOK
<1>5. SearchTypeOK'
  BY <1>4 DEF StoreSlot, GraphTypeOK, SearchTypeOK, searchVars
<1>6. stores' \in [Thread -> SUBSET (Nat \X Node)]
  BY <1>1 DEF GraphTypeOK
<1>. QED BY <1>5, <1>6 DEF StoreSlot, GraphTypeOK

LEMMA StoreCountTypes ==
    ASSUME GraphTypeOK, NEW t \in Thread, StoreCount(t)
    PROVE  GraphTypeOK'
<1>1. PICK c \in counts[t] :
          /\ num_neighbours' = [num_neighbours EXCEPT ![at[t]] = c]
          /\ counts' = [counts EXCEPT ![t] = @ \ {c}]
  BY DEF StoreCount
<1>2. at[t] \in Node /\ c \in Nat
  BY DEF StoreCount, GraphTypeOK
<1>3. SearchTypeOK'
  BY <1>1, <1>2 DEF StoreCount, GraphTypeOK, SearchTypeOK, searchVars
<1>4. counts' \in [Thread -> SUBSET Nat]
  BY <1>1 DEF GraphTypeOK
<1>. QED BY <1>3, <1>4 DEF StoreCount, GraphTypeOK

LEMMA UnlockTypes ==
    ASSUME GraphTypeOK, DegreeBound, NEW t \in Thread, Unlock(t)
    PROVE  GraphTypeOK'
<1>1. SearchTypeOK'
  BY DEF Unlock, GraphTypeOK, SearchTypeOK, graphVars, searchVars
<1>2. at[t] \in Node
  BY DEF Unlock, GraphTypeOK
<1>3. List(at[t]) \in Seq(Node)
  BY <1>2, ListTypes DEF GraphTypeOK, DegreeBound
<1>4. NoNode \notin Node
  BY BeamAssumption
<1>. QED BY <1>1, <1>3, <1>4 DEF Unlock, Goto, GraphTypeOK, BuildLabels

LEMMA InsertedTypes ==
    ASSUME GraphTypeOK, NEW t \in Thread, Inserted(t)
    PROVE  GraphTypeOK'
<1>1. SearchTypeOK'
  BY DEF Inserted, GraphTypeOK, SearchTypeOK, graphVars, searchVars
<1>2. Tail(mine[t]) \in Seq(Node)
  BY DEF Inserted, GraphTypeOK
<1>3. /\ mine' = [mine EXCEPT ![t] = Tail(mine[t])]
      /\ pc' = [pc EXCEPT ![t] = IF Tail(mine[t]) = <<>> THEN "claim" ELSE "insert"]
      /\ UNCHANGED <<medoids, pass, next, asks, cands, at, stores, counts, links, todo>>
      /\ pc[t] = "link"
  BY DEF Inserted, Goto, AfterInsert
<1>. QED BY <1>1, <1>2, <1>3 DEF GraphTypeOK, BuildLabels

LEMMA ServeTypes ==
    ASSUME GraphTypeOK, NEW t \in Thread, Serve(t)
    PROVE  GraphTypeOK'
<1>1. PICK q \in todo : Begin(t, q, Starts(q)) /\ todo' = todo \ {q}
  BY DEF Serve
<1>2. q \in Query
  BY BuildAssumption DEF GraphTypeOK
<1>3. SearchTypeOK'
  BY <1>1, <1>2, BeginTypes, StartsAreNodes
     DEF Serve, GraphTypeOK, SearchTypeOK, Locals, Reads, graphVars
<1>. QED BY <1>1, <1>3 DEF Serve, Goto, GraphTypeOK, BuildLabels

LEMMA AnswerTypes ==
    ASSUME GraphTypeOK, NEW t \in Thread, Answer(t)
    PROVE  GraphTypeOK'
<1>1. SearchTypeOK'
  BY EndTypes DEF Answer, GraphTypeOK, SearchTypeOK, Locals, Reads, graphVars
<1>. QED BY <1>1 DEF Answer, Goto, GraphTypeOK, BuildLabels

LEMMA NoStartTypes ==
    ASSUME GraphTypeOK, NEW t \in Thread, NoStart(t)
    PROVE  GraphTypeOK'
<1>1. SearchTypeOK'
  BY DEF NoStart, GraphTypeOK, SearchTypeOK, graphVars, searchVars
<1>2. pc[t] # "store"
  BY DEF NoStart, Wanted
<1>. QED BY <1>1, <1>2 DEF NoStart, Goto, GraphTypeOK, BuildLabels

LEMMA TypesKept ==
    ASSUME GraphTypeOK, DegreeBound, [BuildNext]_buildVars
    PROVE  GraphTypeOK'
<1>1. CASE UNCHANGED buildVars
  BY <1>1 DEF GraphTypeOK, SearchTypeOK, buildVars, graphVars, searchVars, teamVars
<1>2. CASE Barrier
  BY <1>2, BarrierTypes
<1>3. ASSUME NEW t \in Thread, Work(t) PROVE GraphTypeOK'
  BY <1>3, ClaimTypes, InsertTypes, AskTypes, StepTypes, CollectTypes, LockOwnTypes,
     LinkTypes, StoreSlotTypes, StoreCountTypes, UnlockTypes, InsertedTypes,
     ServeTypes, AnswerTypes, NoStartTypes DEF Work
<1>. QED BY <1>1, <1>2, <1>3 DEF BuildNext

-----------------------------------------------------------------------------
(* The actions that leave lists, locks and pending writes alone.           *)
Aside(t) ==
    \/ Claim(t) \/ Insert(t) \/ Ask(t) \/ Step(t) \/ Collect(t)
    \/ Inserted(t) \/ Serve(t) \/ Answer(t) \/ NoStart(t)

LEMMA WorkSplits ==
    ASSUME NEW t \in Thread, Work(t)
    PROVE  \/ Aside(t) \/ LockOwn(t) \/ Link(t) \/ StoreSlot(t)
           \/ StoreCount(t) \/ Unlock(t)
BY DEF Work, Aside

LEMMA AsideLeaves ==
    ASSUME GraphTypeOK, NEW t \in Thread, Aside(t)
    PROVE  /\ UNCHANGED <<num_neighbours, neighbours, at, stores, counts>>
           /\ pc[t] # "store"
           /\ pc' \in [Thread -> BuildLabels]
           /\ pc'[t] # "store"
           /\ \A u \in Thread \ {t} : pc'[u] = pc[u]
<1>1. pc \in [Thread -> BuildLabels]
  BY DEF GraphTypeOK
<1>2. /\ UNCHANGED <<num_neighbours, neighbours, at, stores, counts>>
      /\ pc[t] # "store"
      /\ \E l \in BuildLabels \ {"store"} : pc' = [pc EXCEPT ![t] = l]
  <2>1. CASE Claim(t)
    BY <2>1 DEF Claim, Goto, graphVars, BuildLabels
  <2>2. CASE Insert(t)
    BY <2>2 DEF Insert, Goto, graphVars, BuildLabels
  <2>3. CASE Ask(t)
    BY <2>3 DEF Ask, Goto, graphVars, BuildLabels
  <2>4. CASE Step(t)
    <3>1. pc' = [pc EXCEPT ![t] = pc[t]] /\ pc[t] \in BuildLabels \ {"store"}
      BY <1>1, <2>4 DEF Step, teamVars, BuildLabels
    <3>. QED BY <2>4, <3>1 DEF Step, teamVars, graphVars
  <2>5. CASE Collect(t)
    BY <2>5 DEF Collect, Goto, graphVars, BuildLabels
  <2>6. CASE Inserted(t)
    BY <2>6 DEF Inserted, AfterInsert, Goto, graphVars, BuildLabels
  <2>7. CASE Serve(t)
    BY <2>7 DEF Serve, Goto, graphVars, BuildLabels
  <2>8. CASE Answer(t)
    BY <2>8 DEF Answer, Goto, graphVars, BuildLabels
  <2>9. CASE NoStart(t)
    <3>1. pc[t] # "store"
      BY <2>9 DEF NoStart, Wanted
    <3>. QED BY <2>9, <3>1 DEF NoStart, Goto, graphVars, BuildLabels
  <2>. QED BY <2>1, <2>2, <2>3, <2>4, <2>5, <2>6, <2>7, <2>8, <2>9 DEF Aside
<1>. QED BY <1>1, <1>2

(* No step writes past the array, or a count that is too big.              *)
LEMMA DegreeKept ==
    ASSUME GraphTypeOK, DegreeBound, [BuildNext]_buildVars
    PROVE  DegreeBound'
<1>1. ASSUME UNCHANGED <<num_neighbours, stores, counts>> PROVE DegreeBound'
  BY <1>1 DEF DegreeBound
<1>2. CASE UNCHANGED buildVars \/ Barrier
  BY <1>1, <1>2 DEF buildVars, graphVars, teamVars, Barrier
<1>3. ASSUME NEW t \in Thread, NEW s \in Seq(Node), Len(s) <= MaxDegree,
             UNCHANGED num_neighbours,
             stores' = [stores EXCEPT ![t] = {<<i - 1, s[i]>> : i \in 1 .. Len(s)}],
             counts' = [counts EXCEPT ![t] = {Len(s)}]
      PROVE  DegreeBound'
  BY <1>3, WritesFit DEF DegreeBound, GraphTypeOK
<1>4. ASSUME NEW t \in Thread, LockOwn(t) PROVE DegreeBound'
  <2>1. /\ Inserting(t) \in Node /\ cands[t] \in SUBSET Node
        /\ Rewrite(t, Inserting(t), cands[t]) /\ UNCHANGED num_neighbours
    BY <1>4 DEF LockOwn, GraphTypeOK, Inserting, graphVars
  <2>. QED BY <1>3, <2>1, RewriteGives DEF Good
<1>5. ASSUME NEW t \in Thread, Link(t) PROVE DegreeBound'
  <2>. DEFINE p == Head(links[t])
              i == Inserting(t)
  <2>1. UNCHANGED num_neighbours /\ p \in Node /\ i \in Node
    BY <1>5 DEF Link, graphVars, GraphTypeOK, Inserting
  <2>2. CASE Mentions(p, i)
    BY <1>1, <1>5, <2>1, <2>2 DEF Link
  <2>3. CASE ~Mentions(p, i) /\ HasRoom(p)
    <3>1. /\ stores' = [stores EXCEPT ![t] = {<<num_neighbours[p], i>>}]
          /\ counts' = [counts EXCEPT ![t] = {num_neighbours[p] + 1}]
      BY <1>5, <2>3 DEF Link
    <3>2. /\ num_neighbours[p] \in Nat /\ num_neighbours[p] < MaxDegree
          /\ MaxDegree \in Nat
      BY <2>1, <2>3, DataAssumption DEF HasRoom, GraphTypeOK, SearchTypeOK
    <3>3. num_neighbours[p] + 1 <= MaxDegree
      BY <3>2
    <3>. HIDE DEF p, i
    <3>. QED BY <2>1, <3>1, <3>2, <3>3 DEF DegreeBound, GraphTypeOK
  <2>4. CASE ~Mentions(p, i) /\ ~HasRoom(p)
    <3>1. Rewrite(t, p, {i}) /\ {i} \in SUBSET Node
      BY <1>5, <2>1, <2>4 DEF Link
    <3>. HIDE DEF p, i
    <3>. QED BY <1>3, <2>1, <3>1, RewriteGives DEF Good
  <2>. QED BY <2>2, <2>3, <2>4
<1>6. ASSUME NEW t \in Thread, StoreSlot(t) PROVE DegreeBound'
  BY <1>6 DEF StoreSlot, DegreeBound, GraphTypeOK
<1>7. ASSUME NEW t \in Thread, StoreCount(t) PROVE DegreeBound'
  <2>1. PICK c \in counts[t] :
            /\ num_neighbours' = [num_neighbours EXCEPT ![at[t]] = c]
            /\ counts' = [counts EXCEPT ![t] = @ \ {c}]
    BY <1>7 DEF StoreCount
  <2>2. c <= MaxDegree /\ stores' = stores
    BY <1>7 DEF StoreCount, DegreeBound
  <2>3. \A p \in Node : num_neighbours'[p] <= MaxDegree
    BY <2>1, <2>2 DEF DegreeBound, GraphTypeOK, SearchTypeOK
  <2>4. \A u \in Thread : counts'[u] \subseteq counts[u]
    BY <2>1 DEF GraphTypeOK
  <2>. QED BY <2>2, <2>3, <2>4 DEF DegreeBound
<1>8. ASSUME NEW t \in Thread, Unlock(t) \/ Aside(t) PROVE DegreeBound'
  BY <1>1, <1>8, AsideLeaves DEF Unlock, graphVars
<1>. QED BY <1>2, <1>4, <1>5, <1>6, <1>7, <1>8, WorkSplits DEF BuildNext

(* No step gives a lock to two threads.                                    *)
LEMMA LocksKept ==
    ASSUME GraphTypeOK, Exclusive, [BuildNext]_buildVars
    PROVE  Exclusive'
<1>1. ASSUME UNCHANGED at PROVE Exclusive'
  BY <1>1 DEF Exclusive
<1>2. CASE UNCHANGED buildVars \/ Barrier
  BY <1>1, <1>2 DEF buildVars, teamVars, Barrier
<1>3. ASSUME NEW t \in Thread, LockOwn(t) PROVE Exclusive'
  <2>1. /\ Inserting(t) \in Node /\ Free(Inserting(t))
        /\ at' = [at EXCEPT ![t] = Inserting(t)]
    BY <1>3 DEF LockOwn, GraphTypeOK, Inserting
  <2>. QED BY <2>1, TakeLock
<1>4. ASSUME NEW t \in Thread, Link(t) PROVE Exclusive'
  <2>1. Head(links[t]) \in Node /\ Free(Head(links[t]))
    BY <1>4 DEF Link, GraphTypeOK
  <2>2. \/ at' = [at EXCEPT ![t] = NoNode]
        \/ at' = [at EXCEPT ![t] = Head(links[t])]
    BY <1>4 DEF Link, AfterSkip
  <2>. QED BY <2>1, <2>2, TakeLock, ReleaseLock
<1>5. ASSUME NEW t \in Thread, StoreSlot(t) \/ StoreCount(t) \/ Aside(t)
      PROVE  Exclusive'
  BY <1>1, <1>5, AsideLeaves DEF StoreSlot, StoreCount
<1>6. ASSUME NEW t \in Thread, Unlock(t) PROVE Exclusive'
  BY <1>6, ReleaseLock DEF Unlock
<1>. QED BY <1>2, <1>3, <1>4, <1>5, <1>6, WorkSplits DEF BuildNext

(* A search ends before its thread goes on, with the visited bytes clean.  *)
LEMMA SearchesKept ==
    ASSUME GraphTypeOK, DegreeBound, Searching, VisitedExact, [BuildNext]_buildVars
    PROVE  Searching' /\ VisitedExact'
<1>1. pc \in [Thread -> BuildLabels] /\ SearchTypeOK
  BY DEF GraphTypeOK
<1>2. ASSUME UNCHANGED searchVars,
             \A u \in Thread : pc'[u] \notin {"search", "query"} =>
                                   pc[u] \notin {"search", "query"}
      PROVE  Searching' /\ VisitedExact'
  BY <1>2 DEF Searching, VisitedExact, searchVars
<1>3. CASE UNCHANGED buildVars \/ Barrier
  BY <1>2, <1>3 DEF buildVars, teamVars, Barrier
<1>4. ASSUME NEW t \in Thread, NEW q \in Query, Begin(t, q, Starts(q)),
             pc[t] \notin {"search", "query"}, pc' = [pc EXCEPT ![t] = "search"]
                                            \/ pc' = [pc EXCEPT ![t] = "query"]
      PROVE  Searching' /\ VisitedExact'
  <2>1. visited[t] = {}
    BY <1>4 DEF Searching, VisitedExact, Idle
  <2>2. Starts(q) \in SUBSET Node
    BY StartsAreNodes
  <2>3. /\ visited'[t] = Starts(q) /\ search'[t].seen = Starts(q)
        /\ \A u \in Thread \ {t} : visited'[u] = visited[u] /\ search'[u] = search[u]
    <3>1. visited' = [visited EXCEPT ![t] = @ \cup Starts(q)]
      BY <1>4 DEF Begin
    <3>2. \E r \in Locals : search' = [search EXCEPT ![t] = r] /\ r.seen = Starts(q)
      BY <1>1, <1>4, <2>2, BeginGives
    <3>. QED BY <1>1, <2>1, <3>1, <3>2 DEF SearchTypeOK
  <2>. QED BY <1>1, <1>4, <2>3 DEF Searching, VisitedExact
<1>5. ASSUME NEW t \in Thread, Ask(t) \/ Serve(t)
      PROVE  Searching' /\ VisitedExact'
  <2>1. CASE Ask(t)
    <3>1. Head(asks[t]) \in Query
      BY <2>1 DEF Ask, GraphTypeOK
    <3>. QED BY <1>4, <2>1, <3>1 DEF Ask, Goto
  <2>2. CASE Serve(t)
    <3>1. PICK q \in todo : Begin(t, q, Starts(q))
      BY <2>2 DEF Serve
    <3>2. q \in Query
      BY BuildAssumption DEF GraphTypeOK
    <3>. QED BY <1>4, <2>2, <3>1, <3>2 DEF Serve, Goto
  <2>. QED BY <1>5, <2>1, <2>2
<1>6. ASSUME NEW t \in Thread, Step(t)
      PROVE  Searching' /\ VisitedExact'
  <2>1. /\ visited'[t] = search'[t].seen
        /\ \A u \in Thread \ {t} : visited'[u] = visited[u] /\ search'[u] = search[u]
    BY <1>1, <1>6, PopTypes, LookTypes, ReadTypes DEF Step, VisitedExact
  <2>2. pc' = pc /\ pc[t] \in {"search", "query"}
    BY <1>6 DEF Step, teamVars
  <2>. QED BY <2>1, <2>2 DEF Searching, VisitedExact
<1>7. ASSUME NEW t \in Thread, Collect(t) \/ Answer(t)
      PROVE  Searching' /\ VisitedExact'
  <2>1. /\ End(t)
        /\ pc[t] \in {"search", "query"}
        /\ \E l \in {"ask", "serve"} : pc' = [pc EXCEPT ![t] = l]
    BY <1>7 DEF Collect, Answer, Goto
  <2>2. /\ search' = [search EXCEPT ![t] = Idle]
        /\ visited' = [visited EXCEPT ![t] = visited[t] \ search[t].seen]
    BY <1>1, <2>1, EndTypes
  <2>3. visited[t] \ search[t].seen = {} /\ Idle.seen = {}
    BY DEF VisitedExact, Idle
  <2>. QED BY <1>1, <2>1, <2>2, <2>3 DEF Searching, VisitedExact, SearchTypeOK
<1>8. ASSUME NEW t \in Thread,
             \/ Claim(t) \/ Insert(t) \/ LockOwn(t) \/ Link(t) \/ StoreSlot(t)
             \/ StoreCount(t) \/ Unlock(t) \/ Inserted(t) \/ NoStart(t)
      PROVE  Searching' /\ VisitedExact'
  <2>1. UNCHANGED searchVars /\ pc[t] \notin {"search", "query"}
    BY <1>8 DEF Claim, Insert, LockOwn, Link, StoreSlot, StoreCount, Unlock, Inserted,
                NoStart, Wanted
  <2>2. pc' = pc \/ \E l : pc' = [pc EXCEPT ![t] = l]
    BY <1>8 DEF Claim, Insert, LockOwn, Link, StoreSlot, StoreCount, Unlock, Inserted,
                NoStart, Goto
  <2>. QED BY <1>1, <1>2, <2>1, <2>2
<1>. QED BY <1>3, <1>5, <1>6, <1>7, <1>8 DEF BuildNext, Work

(* When all writes are made, the list is the one the thread headed for.    *)
LEMMA Arrived ==
    ASSUME GraphTypeOK, DegreeBound, NEW t \in Thread, at[t] \in Node,
           NEW s \in Seq(Node), Heading(t, s), stores[t] = {}, counts[t] = {}
    PROVE  List(at[t]) = s
<1>. DEFINE p == at[t]
<1>1. /\ List(p) \in Seq(Node) /\ Len(List(p)) = num_neighbours[p]
      /\ \A a \in 1 .. num_neighbours[p] : List(p)[a] = neighbours[p][a - 1]
  BY ListTypes DEF GraphTypeOK, DegreeBound
<1>2. /\ num_neighbours[p] = Len(s)
      /\ \A i \in 0 .. Len(s) - 1 : neighbours[p][i] = s[i + 1]
  BY DEF Heading
<1>3. \A a \in 1 .. Len(s) : a - 1 \in 0 .. Len(s) - 1 /\ (a - 1) + 1 = a
  OBVIOUS
<1>4. \A a \in 1 .. Len(s) : List(p)[a] = s[a]
  BY <1>1, <1>2, <1>3
<1>. HIDE DEF p
<1>. QED BY <1>1, <1>2, <1>4 DEF p

(* No step puts a node among its own links, or an unrelated one.           *)
LEMMA LinksKept ==
    ASSUME GraphTypeOK, DegreeBound, LinksGood, WritesGood, [BuildNext]_buildVars
    PROVE  LinksGood'
<1>1. /\ pc \in [Thread -> BuildLabels]
      /\ mine \in [Thread -> Seq(Node)]
      /\ links \in [Thread -> Seq(Node)]
      /\ at \in [Thread -> Node \cup {NoNode}]
  BY DEF GraphTypeOK
<1>2. ASSUME UNCHANGED <<mine, links>>,
             \A u \in Thread : pc'[u] \notin {"link", "store"} =>
                                   pc[u] \notin {"link", "store"}
      PROVE  LinksGood'
  BY <1>2 DEF LinksGood, Inserting
<1>3. CASE UNCHANGED buildVars \/ Barrier
  BY <1>2, <1>3 DEF buildVars, teamVars, Barrier
<1>4. ASSUME NEW t \in Thread, Unlock(t) PROVE LinksGood'
  <2>1. /\ pc[t] = "store" /\ pc' = [pc EXCEPT ![t] = "link"]
        /\ UNCHANGED mine
        /\ links' = [links EXCEPT ![t] = IF at[t] = Inserting(t) THEN List(at[t]) ELSE @]
        /\ stores[t] = {} /\ counts[t] = {}
    BY <1>4 DEF Unlock, Goto
  <2>2. at[t] \in Node
    BY <2>1 DEF GraphTypeOK
  <2>3. PICK s \in Seq(Node) : Good(at[t], s) /\ Heading(t, s)
    BY <2>1 DEF WritesGood
  <2>4. List(at[t]) = s
    BY <2>1, <2>2, <2>3, Arrived
  <2>5. \A a \in 1 .. Len(List(at[t])) :
            List(at[t])[a] # at[t] /\ Related(at[t], List(at[t])[a])
    BY <2>3, <2>4 DEF Good
  <2>. QED BY <1>1, <2>1, <2>5 DEF LinksGood, Inserting
<1>5. ASSUME NEW t \in Thread, Link(t) PROVE LinksGood'
  <2>1. /\ pc[t] = "link" /\ links[t] # <<>>
        /\ links' = [links EXCEPT ![t] = Tail(@)]
        /\ UNCHANGED mine
        /\ pc' = pc \/ pc' = [pc EXCEPT ![t] = "store"]
    BY <1>5 DEF Link, Goto
  <2>2. \A a \in 1 .. Len(Tail(links[t])) :
            /\ a + 1 \in 1 .. Len(links[t])
            /\ Tail(links[t])[a] = links[t][a + 1]
    BY <1>1, <2>1
  <2>. QED BY <1>1, <2>1, <2>2 DEF LinksGood, Inserting
<1>6. ASSUME NEW t \in Thread, Claim(t) \/ Inserted(t) PROVE LinksGood'
  <2>1. /\ links' = links /\ links[t] = <<>>
        /\ \E l : pc' = [pc EXCEPT ![t] = l]
        /\ \A u \in Thread \ {t} : mine'[u] = mine[u]
    BY <1>1, <1>6 DEF Claim, Inserted, Goto, LinksGood
  <2>2. Len(<<>>) = 0
    OBVIOUS
  <2>. QED BY <1>1, <2>1, <2>2 DEF LinksGood, Inserting
<1>7. ASSUME NEW t \in Thread,
             \/ Insert(t) \/ Ask(t) \/ Collect(t) \/ LockOwn(t) \/ Serve(t) \/ Answer(t)
             \/ NoStart(t)
      PROVE  LinksGood'
  <2>1. /\ UNCHANGED <<mine, links>>
        /\ pc[t] \notin {"link", "store"}
        /\ \E l : pc' = [pc EXCEPT ![t] = l]
    BY <1>7 DEF Insert, Ask, Collect, LockOwn, Serve, Answer, NoStart, Wanted, Goto
  <2>. QED BY <1>1, <1>2, <2>1
<1>8. ASSUME NEW t \in Thread, Step(t) \/ StoreSlot(t) \/ StoreCount(t)
      PROVE  LinksGood'
  BY <1>2, <1>8 DEF Step, StoreSlot, StoreCount, teamVars
<1>. QED BY <1>3, <1>4, <1>5, <1>6, <1>7, <1>8 DEF BuildNext, Work

(* What thread t does to the node it has locked is no concern of others.   *)
LEMMA OthersKept ==
    ASSUME GraphTypeOK, Exclusive, WritesGood, NEW t \in Thread,
           \A u \in Thread \ {t} : /\ at'[u] = at[u] /\ stores'[u] = stores[u]
                                   /\ counts'[u] = counts[u] /\ pc'[u] = pc[u],
           \A p \in Node : p # at[t] => /\ num_neighbours'[p] = num_neighbours[p]
                                        /\ neighbours'[p] = neighbours[p],
           pc'[t] = "store" => \E s \in Seq(Node) : Good(at'[t], s) /\ Heading(t, s)'
    PROVE  WritesGood'
<1>. SUFFICES ASSUME NEW u \in Thread, pc'[u] = "store"
              PROVE  \E s \in Seq(Node) : Good(at'[u], s) /\ Heading(u, s)'
  BY DEF WritesGood, Good
<1>1. CASE u = t
  BY <1>1
<1>2. CASE u # t
  <2>1. pc[u] = "store" /\ at[u] \in Node
    BY <1>2 DEF GraphTypeOK
  <2>2. at[u] # at[t]
    <3>1. NoNode \notin Node
      BY BeamAssumption
    <3>. QED BY <1>2, <2>1, <3>1 DEF Exclusive
  <2>3. PICK s \in Seq(Node) : Good(at[u], s) /\ Heading(u, s)
    BY <2>1 DEF WritesGood
  <2>4. Heading(u, s)'
    BY <1>2, <2>1, <2>2, <2>3 DEF Heading
  <2>. QED BY <1>2, <2>3, <2>4
<1>. QED BY <1>1, <1>2

LEMMA ListsOutside ==
    ASSUME GraphTypeOK, ListsGood, NEW t \in Thread,
           \A u \in Thread \ {t} : at'[u] = at[u],
           \A p \in Node : p # at[t] => /\ num_neighbours'[p] = num_neighbours[p]
                                        /\ neighbours'[p] = neighbours[p],
           NEW p \in Node, p # at[t], Unlocked(p)'
    PROVE  Good(p, List(p))'
<1>1. Unlocked(p)
  BY DEF Unlocked
<1>2. List(p)' = List(p)
  BY DEF List
<1>. QED BY <1>1, <1>2 DEF ListsGood, Good

(* A thread that takes a lock chooses a list that is not empty if the      *)
(* node's was not.                                                         *)
LEMMA Chosen ==
    ASSUME GraphTypeOK, DegreeBound, ListsGood, NEW p \in Node, Unlocked(p),
           NEW V \in SUBSET Node, NEW s \in Seq(Node),
           \A c \in Candidates(p, V) : Related(p, c) => Len(s) > 0,
           num_neighbours[p] > 0
    PROVE  Len(s) > 0
<1>1. /\ Len(List(p)) = num_neighbours[p] /\ num_neighbours[p] \in Nat
      /\ \A a \in 1 .. num_neighbours[p] : List(p)[a] \in Listed(p)
  BY ListTypes DEF GraphTypeOK, DegreeBound, SearchTypeOK
<1>2. 1 \in 1 .. num_neighbours[p]
  BY <1>1
<1>3. List(p)[1] \in Listed(p) /\ List(p)[1] # p /\ Related(p, List(p)[1])
  BY <1>1, <1>2 DEF ListsGood, Good
<1>. QED BY <1>3 DEF Candidates

LEMMA HeadingForPruned ==
    ASSUME GraphTypeOK, DegreeBound, ListsGood, NEW t \in Thread, NEW p \in Node,
           Unlocked(p), NEW V \in SUBSET Node, Rewrite(t, p, V),
           at' = [at EXCEPT ![t] = p], UNCHANGED <<num_neighbours, neighbours>>
    PROVE  \E s \in Seq(Node) : Good(at'[t], s) /\ Heading(t, s)'
<1>1. PICK s \in Seq(Node) :
          /\ Good(p, s)
          /\ \A c \in Candidates(p, V) : Related(p, c) => Len(s) > 0
          /\ stores' = [stores EXCEPT ![t] = {<<i - 1, s[i]>> : i \in 1 .. Len(s)}]
          /\ counts' = [counts EXCEPT ![t] = {Len(s)}]
  BY RewriteGives
<1>2. num_neighbours[p] > 0 => Len(s) > 0
  BY <1>1, Chosen
<1>3. /\ at'[t] = p /\ counts'[t] = {Len(s)}
      /\ stores'[t] = {<<i - 1, s[i]>> : i \in 1 .. Len(s)}
  BY <1>1 DEF GraphTypeOK
<1>4. \A w \in stores'[t] : w[1] < Len(s) /\ w[2] = s[w[1] + 1]
  <2>. TAKE w \in stores'[t]
  <2>1. PICK i \in 1 .. Len(s) : w = <<i - 1, s[i]>>
    BY <1>3
  <2>. QED BY <2>1
<1>5. \A i \in 0 .. Len(s) - 1 : <<i, s[i + 1]>> \in stores'[t]
  <2>. TAKE i \in 0 .. Len(s) - 1
  <2>1. i + 1 \in 1 .. Len(s) /\ (i + 1) - 1 = i
    OBVIOUS
  <2>. QED BY <1>3, <2>1
<1>. QED BY <1>1, <1>2, <1>3, <1>4, <1>5 DEF Heading

LEMMA HeadingForLonger ==
    ASSUME GraphTypeOK, DegreeBound, ListsGood, NEW t \in Thread, NEW p \in Node,
           NEW i \in Node, i # p, Related(p, i), Unlocked(p), HasRoom(p),
           ~Mentions(p, i),
           stores' = [stores EXCEPT ![t] = {<<num_neighbours[p], i>>}],
           counts' = [counts EXCEPT ![t] = {num_neighbours[p] + 1}],
           at' = [at EXCEPT ![t] = p], UNCHANGED <<num_neighbours, neighbours>>
    PROVE  \E s \in Seq(Node) : Good(at'[t], s) /\ Heading(t, s)'
<1>. DEFINE n == num_neighbours[p]
            l == List(p)
            s == Append(l, i)
<1>1. /\ l \in Seq(Node) /\ Len(l) = n /\ n \in Nat
      /\ \A a \in 1 .. n : l[a] = neighbours[p][a - 1] /\ l[a] \in Listed(p)
  BY ListTypes DEF GraphTypeOK, DegreeBound, SearchTypeOK
<1>2. Good(p, l)
  BY DEF ListsGood
<1>3. /\ n < MaxDegree /\ MaxDegree \in Nat
      /\ \A a \in 1 .. n : l[a] # i
  BY <1>1, DataAssumption DEF HasRoom, Mentions
<1>4. /\ at'[t] = p /\ counts'[t] = {n + 1} /\ stores'[t] = {<<n, i>>}
      /\ num_neighbours'[p] = n /\ neighbours'[p] = neighbours[p]
  BY DEF GraphTypeOK
<1>. HIDE DEF n, l
<1>5. /\ s \in Seq(Node) /\ Len(s) = n + 1 /\ s[n + 1] = i
      /\ \A a \in 1 .. n : s[a] = l[a]
  BY <1>1
<1>. HIDE DEF s
<1>6. \A a \in 1 .. Len(s) : a \in 1 .. n \/ a = n + 1
  BY <1>1, <1>5
<1>7. Good(p, s)
  <2>1. \A a, b \in 1 .. Len(s) : s[a] = s[b] => a = b
    BY <1>1, <1>2, <1>3, <1>5, <1>6 DEF Good
  <2>2. \A a \in 1 .. Len(s) : s[a] # p /\ Related(p, s[a])
    BY <1>1, <1>2, <1>5, <1>6 DEF Good
  <2>3. Len(s) <= MaxDegree
    BY <1>1, <1>3, <1>5
  <2>. QED BY <1>5, <2>1, <2>2, <2>3 DEF Good
<1>8. \A w \in stores'[t] : w[1] < Len(s) /\ w[2] = s[w[1] + 1]
  BY <1>1, <1>4, <1>5
<1>9. \A k \in 0 .. Len(s) - 1 :
          <<k, s[k + 1]>> \in stores'[t] \/ neighbours'[p][k] = s[k + 1]
  <2>. TAKE k \in 0 .. Len(s) - 1
  <2>1. CASE k = n
    BY <1>4, <1>5, <2>1
  <2>2. CASE k # n
    <3>. HIDE DEF s
    <3>1. k \in 0 .. n
      BY <1>1, <1>5
    <3>2. k + 1 \in 1 .. n /\ (k + 1) - 1 = k
      BY <1>1, <2>2, <3>1
    <3>. QED BY <1>1, <1>4, <1>5, <3>2
  <2>. QED BY <2>1, <2>2
<1>. QED BY <1>1, <1>4, <1>5, <1>7, <1>8, <1>9 DEF Heading

(* A thread that takes a lock and chooses a list, or does not take it.     *)
LEMMA LockedKept ==
    ASSUME GraphInv, NEW t \in Thread, pc[t] # "store",
           UNCHANGED <<num_neighbours, neighbours>>,
           \A u \in Thread \ {t} : /\ at'[u] = at[u] /\ stores'[u] = stores[u]
                                   /\ counts'[u] = counts[u] /\ pc'[u] = pc[u],
           pc'[t] = "store" => \E s \in Seq(Node) : Good(at'[t], s) /\ Heading(t, s)'
    PROVE  ListsGood' /\ WritesGood'
<1>1. NoNode \notin Node /\ at[t] = NoNode
  BY BeamAssumption DEF GraphInv, GraphTypeOK
<1>2. ASSUME NEW p \in Node, Unlocked(p)'
      PROVE  Good(p, List(p))'
  BY <1>1, <1>2, ListsOutside DEF GraphInv
<1>3. WritesGood'
  BY OthersKept DEF GraphInv
<1>. QED BY <1>2, <1>3 DEF ListsGood

LEMMA LockOwnKept ==
    ASSUME GraphInv, NEW t \in Thread, LockOwn(t)
    PROVE  ListsGood' /\ WritesGood'
<1>. DEFINE i == Inserting(t)
<1>1. /\ pc[t] = "ask" /\ Free(i)
      /\ at' = [at EXCEPT ![t] = i]
      /\ Rewrite(t, i, cands[t])
      /\ pc' = [pc EXCEPT ![t] = "store"]
      /\ UNCHANGED <<num_neighbours, neighbours>>
  BY DEF LockOwn, Goto, graphVars
<1>2. i \in Node /\ cands[t] \in SUBSET Node
  BY <1>1 DEF GraphInv, GraphTypeOK, Inserting
<1>3. \E s \in Seq(Node) : Good(at'[t], s) /\ Heading(t, s)'
  BY <1>1, <1>2, HeadingForPruned DEF GraphInv, Free, Unlocked
<1>4. \A u \in Thread \ {t} : stores'[u] = stores[u] /\ counts'[u] = counts[u]
  BY <1>1 DEF Rewrite, GraphInv, GraphTypeOK
<1>5. \A u \in Thread \ {t} : at'[u] = at[u] /\ pc'[u] = pc[u]
  BY <1>1 DEF GraphInv, GraphTypeOK
<1>. QED BY <1>1, <1>3, <1>4, <1>5, LockedKept

LEMMA LinkKept ==
    ASSUME GraphInv, NEW t \in Thread, Link(t)
    PROVE  ListsGood' /\ WritesGood'
<1>. DEFINE i == Inserting(t)
            p == Head(links[t])
            TakesIt == /\ at' = [at EXCEPT ![t] = p]
                       /\ pc' = [pc EXCEPT ![t] = "store"]
<1>1. /\ pc[t] = "link" /\ links[t] # <<>> /\ Free(p)
      /\ UNCHANGED <<num_neighbours, neighbours>>
  BY DEF Link, graphVars
<1>2. links[t] \in Seq(Node) /\ links[t][1] = p /\ Len(links[t]) > 0
  BY <1>1 DEF GraphInv, GraphTypeOK
<1>3. p \in Node /\ i \in Node
  BY <1>1, <1>2 DEF GraphInv, GraphTypeOK, Inserting
<1>4. p # i /\ Related(p, i)
  <2>1. 1 \in 1 .. Len(links[t])
    BY <1>2
  <2>2. p # i /\ Related(i, p)
    BY <1>2, <2>1 DEF GraphInv, LinksGood
  <2>. QED BY <1>3, <2>2, BuildAssumption
<1>5. Unlocked(p)
  BY <1>1 DEF Free, Unlocked
<1>6. CASE Mentions(p, i)
  <2>1. /\ at' = [at EXCEPT ![t] = NoNode] /\ UNCHANGED <<stores, counts, pc>>
    BY <1>6 DEF Link, AfterSkip
  <2>2. \A u \in Thread \ {t} : at'[u] = at[u]
    BY <2>1 DEF GraphInv, GraphTypeOK
  <2>. QED BY <1>1, <2>1, <2>2, LockedKept
<1>7. CASE ~Mentions(p, i) /\ HasRoom(p)
  <2>1. /\ TakesIt
        /\ stores' = [stores EXCEPT ![t] = {<<num_neighbours[p], i>>}]
        /\ counts' = [counts EXCEPT ![t] = {num_neighbours[p] + 1}]
    BY <1>7 DEF Link, Goto
  <2>. HIDE DEF i, p
  <2>2. \E s \in Seq(Node) : Good(at'[t], s) /\ Heading(t, s)'
    BY <1>1, <1>3, <1>4, <1>5, <1>7, <2>1, HeadingForLonger DEF GraphInv
  <2>3. \A u \in Thread \ {t} : /\ at'[u] = at[u] /\ stores'[u] = stores[u]
                                /\ counts'[u] = counts[u] /\ pc'[u] = pc[u]
    BY <2>1 DEF GraphInv, GraphTypeOK
  <2>. QED BY <1>1, <2>2, <2>3, LockedKept
<1>8. CASE ~Mentions(p, i) /\ ~HasRoom(p)
  <2>1. TakesIt /\ Rewrite(t, p, {i})
    BY <1>8 DEF Link, Goto
  <2>. HIDE DEF i, p
  <2>2. \E s \in Seq(Node) : Good(at'[t], s) /\ Heading(t, s)'
    BY <1>1, <1>3, <1>5, <2>1, HeadingForPruned DEF GraphInv
  <2>3. \A u \in Thread \ {t} : stores'[u] = stores[u] /\ counts'[u] = counts[u]
    BY <2>1 DEF Rewrite, GraphInv, GraphTypeOK
  <2>4. \A u \in Thread \ {t} : at'[u] = at[u] /\ pc'[u] = pc[u]
    BY <2>1 DEF GraphInv, GraphTypeOK
  <2>. QED BY <1>1, <2>2, <2>3, <2>4, LockedKept
<1>. QED BY <1>6, <1>7, <1>8

(* A store brings the locked node nearer to the list chosen for it.        *)
LEMMA StoreSlotKept ==
    ASSUME GraphInv, NEW t \in Thread, StoreSlot(t)
    PROVE  ListsGood' /\ WritesGood'
<1>1. PICK w \in stores[t] :
          /\ neighbours' = [neighbours EXCEPT ![at[t]][w[1]] = w[2]]
          /\ stores' = [stores EXCEPT ![t] = @ \ {w}]
  BY DEF StoreSlot
<1>2. /\ pc[t] = "store" /\ UNCHANGED <<num_neighbours, pc, at, counts>>
  BY DEF StoreSlot
<1>3. /\ at[t] \in Node /\ w \in Nat \X Node
      /\ neighbours \in [Node -> [Slot -> Node]]
  BY <1>1, <1>2 DEF GraphInv, GraphTypeOK, SearchTypeOK
<1>4. PICK s \in Seq(Node) : Good(at[t], s) /\ Heading(t, s)
  BY <1>2 DEF GraphInv, WritesGood
<1>5. /\ \A p \in Node : p # at[t] => neighbours'[p] = neighbours[p]
      /\ neighbours'[at[t]] = [neighbours[at[t]] EXCEPT ![w[1]] = w[2]]
      /\ w[1] \in Slot
      /\ w[2] = s[w[1] + 1]
  <2>1. w[1] \in Slot
    <3>1. w[1] < MaxDegree
      BY <1>1 DEF GraphInv, DegreeBound
    <3>2. w[1] \in Nat /\ MaxDegree \in Nat
      BY <1>3, DataAssumption
    <3>. QED BY <3>1, <3>2 DEF Slot
  <2>2. w[2] = s[w[1] + 1]
    BY <1>1, <1>4 DEF Heading
  <2>. QED BY <1>1, <1>3, <2>1, <2>2
<1>6. stores'[t] = stores[t] \ {w} /\ \A u \in Thread \ {t} : stores'[u] = stores[u]
  BY <1>1 DEF GraphInv, GraphTypeOK
<1>7. \A i \in 0 .. Len(s) - 1 :
          <<i, s[i + 1]>> \in stores'[t] \/ neighbours'[at[t]][i] = s[i + 1]
  <2>. TAKE i \in 0 .. Len(s) - 1
  <2>1. MaxDegree \in Nat /\ Len(s) <= MaxDegree /\ Len(s) \in Nat
    BY <1>4, DataAssumption DEF Good
  <2>2. i \in Slot /\ DOMAIN neighbours[at[t]] = Slot
    BY <1>3, <2>1 DEF Slot
  <2>3. CASE i = w[1]
    BY <1>3, <1>5, <2>2, <2>3
  <2>4. CASE i # w[1]
    <3>1. <<i, s[i + 1]>> # w
      BY <2>4
    <3>2. neighbours'[at[t]][i] = neighbours[at[t]][i]
      BY <1>3, <1>5, <2>2, <2>4
    <3>. QED BY <1>4, <1>6, <3>1, <3>2 DEF Heading
  <2>. QED BY <2>3, <2>4
<1>8. Good(at'[t], s) /\ Heading(t, s)'
  <2>1. \A v \in stores'[t] : v[1] < Len(s) /\ v[2] = s[v[1] + 1]
    BY <1>4, <1>6 DEF Heading
  <2>. QED BY <1>2, <1>4, <1>7, <2>1 DEF Heading
<1>9. WritesGood'
  BY <1>2, <1>4, <1>5, <1>6, <1>8, OthersKept DEF GraphInv
<1>10. ASSUME NEW p \in Node, Unlocked(p)' PROVE Good(p, List(p))'
  BY <1>2, <1>5, <1>10, ListsOutside DEF GraphInv, Unlocked
<1>. QED BY <1>9, <1>10 DEF ListsGood

LEMMA StoreCountKept ==
    ASSUME GraphInv, NEW t \in Thread, StoreCount(t)
    PROVE  ListsGood' /\ WritesGood'
<1>1. PICK c \in counts[t] :
          /\ num_neighbours' = [num_neighbours EXCEPT ![at[t]] = c]
          /\ counts' = [counts EXCEPT ![t] = @ \ {c}]
  BY DEF StoreCount
<1>2. /\ pc[t] = "store" /\ UNCHANGED <<neighbours, pc, at, stores>>
  BY DEF StoreCount
<1>3. at[t] \in Node /\ num_neighbours \in [Node -> Nat]
  BY <1>2 DEF GraphInv, GraphTypeOK, SearchTypeOK
<1>4. PICK s \in Seq(Node) : Good(at[t], s) /\ Heading(t, s)
  BY <1>2 DEF GraphInv, WritesGood
<1>5. counts[t] = {Len(s)} /\ c = Len(s)
  BY <1>1, <1>4 DEF Heading
<1>6. /\ num_neighbours'[at[t]] = Len(s)
      /\ \A p \in Node : p # at[t] => num_neighbours'[p] = num_neighbours[p]
  BY <1>1, <1>3, <1>5
<1>7. counts'[t] = {} /\ \A u \in Thread \ {t} : counts'[u] = counts[u]
  BY <1>1, <1>5 DEF GraphInv, GraphTypeOK
<1>8. Good(at'[t], s) /\ Heading(t, s)'
  BY <1>2, <1>4, <1>6, <1>7 DEF Heading
<1>9. WritesGood'
  BY <1>2, <1>4, <1>6, <1>7, <1>8, OthersKept DEF GraphInv
<1>10. ASSUME NEW p \in Node, Unlocked(p)' PROVE Good(p, List(p))'
  BY <1>2, <1>6, <1>10, ListsOutside DEF GraphInv, Unlocked
<1>. QED BY <1>9, <1>10 DEF ListsGood

(* The lock is given back when the list is complete.                       *)
LEMMA UnlockKept ==
    ASSUME GraphInv, NEW t \in Thread, Unlock(t)
    PROVE  ListsGood' /\ WritesGood'
<1>1. /\ pc[t] = "store" /\ stores[t] = {} /\ counts[t] = {}
      /\ at' = [at EXCEPT ![t] = NoNode]
      /\ pc' = [pc EXCEPT ![t] = "link"]
      /\ UNCHANGED <<num_neighbours, neighbours, stores, counts>>
  BY DEF Unlock, Goto, graphVars
<1>2. at[t] \in Node
  BY <1>1 DEF GraphInv, GraphTypeOK
<1>3. PICK s \in Seq(Node) : Good(at[t], s) /\ Heading(t, s)
  BY <1>1 DEF GraphInv, WritesGood
<1>4. List(at[t]) = s
  BY <1>1, <1>2, <1>3, Arrived DEF GraphInv
<1>5. /\ \A u \in Thread \ {t} : at'[u] = at[u] /\ pc'[u] = pc[u]
      /\ pc'[t] # "store"
  BY <1>1 DEF GraphInv, GraphTypeOK
<1>6. WritesGood'
  BY <1>1, <1>5, OthersKept DEF GraphInv
<1>7. ASSUME NEW p \in Node, Unlocked(p)' PROVE Good(p, List(p))'
  <2>1. List(p)' = List(p)
    BY <1>1 DEF List
  <2>2. CASE p = at[t]
    BY <1>3, <1>4, <2>1, <2>2 DEF Good
  <2>3. CASE p # at[t]
    BY <1>1, <1>5, <1>7, <2>3, ListsOutside DEF GraphInv
  <2>. QED BY <2>2, <2>3
<1>. QED BY <1>6, <1>7 DEF ListsGood

LEMMA ListsKept ==
    ASSUME GraphInv, [BuildNext]_buildVars
    PROVE  ListsGood' /\ WritesGood'
<1>1. ASSUME UNCHANGED <<num_neighbours, neighbours, at, stores, counts>>,
             \A u \in Thread : pc'[u] = "store" => pc[u] = "store"
      PROVE  ListsGood' /\ WritesGood'
  <2>1. \A p \in Node : Unlocked(p)' => Unlocked(p) /\ List(p)' = List(p)
    BY <1>1 DEF Unlocked, List
  <2>2. ListsGood'
    BY <2>1 DEF GraphInv, ListsGood, Good
  <2>3. WritesGood'
    BY <1>1 DEF GraphInv, WritesGood, Good, Heading
  <2>. QED BY <2>2, <2>3
<1>2. CASE UNCHANGED buildVars
  BY <1>1, <1>2 DEF buildVars, graphVars, teamVars
<1>3. CASE Barrier
  BY <1>1, <1>3 DEF Barrier, graphVars
<1>4. ASSUME NEW t \in Thread, Aside(t) PROVE ListsGood' /\ WritesGood'
  <2>1. \A u \in Thread : pc'[u] = "store" => pc[u] = "store"
    BY <1>4, AsideLeaves DEF GraphInv
  <2>. QED BY <1>1, <1>4, <2>1, AsideLeaves DEF GraphInv
<1>5. ASSUME NEW t \in Thread, Work(t) PROVE ListsGood' /\ WritesGood'
  BY <1>4, <1>5, WorkSplits, LockOwnKept, LinkKept, StoreSlotKept, StoreCountKept,
     UnlockKept
<1>. QED BY <1>2, <1>3, <1>5 DEF BuildNext

-----------------------------------------------------------------------------
(* Every step of a build keeps GraphInv.                                   *)
THEOREM BuildKeepsInv == GraphInv /\ [BuildNext]_buildVars => GraphInv'
<1>. SUFFICES ASSUME GraphInv, [BuildNext]_buildVars PROVE GraphInv'
  OBVIOUS
<1>1. GraphTypeOK' /\ DegreeBound'
  BY TypesKept, DegreeKept DEF GraphInv
<1>2. Exclusive'
  BY LocksKept DEF GraphInv
<1>3. Searching' /\ VisitedExact'
  BY SearchesKept DEF GraphInv
<1>4. LinksGood'
  BY LinksKept DEF GraphInv
<1>5. ListsGood' /\ WritesGood'
  BY ListsKept
<1>. QED BY <1>1, <1>2, <1>3, <1>4, <1>5 DEF GraphInv

(* Lists that nobody writes are simple, and their edges are related.       *)
THEOREM ListsAreSimple == GraphInv => SimpleLists /\ EdgesRelated
<1>. SUFFICES ASSUME GraphInv, NEW p \in Node, Unlocked(p)
              PROVE  /\ p \notin Listed(p)
                     /\ IsInjective(List(p))
                     /\ \A n \in Listed(p) : Related(p, n)
  BY DEF SimpleLists, EdgesRelated
<1>1. /\ List(p) \in Seq(Node) /\ Len(List(p)) = num_neighbours[p]
      /\ \A n \in Listed(p) : \E a \in 1 .. num_neighbours[p] : List(p)[a] = n
  BY ListTypes DEF GraphInv, GraphTypeOK, DegreeBound
<1>2. Good(p, List(p))
  BY DEF GraphInv, ListsGood
<1>3. \A n \in Listed(p) : n # p /\ Related(p, n)
  BY <1>1, <1>2 DEF Good
<1>4. IsInjective(List(p))
  BY <1>1, <1>2 DEF Good, IsInjective
<1>. QED BY <1>3, <1>4

(* No step empties a list: whatever a thread chose, it had an edge if the  *)
(* list had one when the thread took the lock.                             *)
THEOREM BuildNeverEmpties ==
    GraphInv /\ [BuildNext]_buildVars =>
        \A p \in Node : num_neighbours[p] > 0 => num_neighbours'[p] > 0
<1>. SUFFICES ASSUME GraphInv, [BuildNext]_buildVars, NEW p \in Node,
                     num_neighbours[p] > 0
              PROVE  num_neighbours'[p] > 0
  OBVIOUS
<1>1. CASE UNCHANGED buildVars \/ Barrier
  BY <1>1 DEF buildVars, graphVars, Barrier
<1>2. ASSUME NEW t \in Thread, Work(t) PROVE num_neighbours'[p] > 0
  <2>1. CASE Aside(t)
    BY <2>1, AsideLeaves DEF GraphInv
  <2>2. CASE LockOwn(t) \/ Link(t) \/ StoreSlot(t) \/ Unlock(t)
    BY <2>2 DEF LockOwn, Link, StoreSlot, Unlock, graphVars
  <2>3. CASE StoreCount(t)
    <3>1. PICK c \in counts[t] : num_neighbours' = [num_neighbours EXCEPT ![at[t]] = c]
      BY <2>3 DEF StoreCount
    <3>2. PICK s \in Seq(Node) : Good(at[t], s) /\ Heading(t, s)
      BY <2>3 DEF StoreCount, GraphInv, WritesGood
    <3>3. c = Len(s) /\ (num_neighbours[at[t]] > 0 => Len(s) > 0)
      BY <3>1, <3>2 DEF Heading
    <3>. QED BY <3>1, <3>3 DEF GraphInv, GraphTypeOK, SearchTypeOK
  <2>. QED BY <1>2, <2>1, <2>2, <2>3, WorkSplits
<1>. QED BY <1>1, <1>2 DEF BuildNext

-----------------------------------------------------------------------------
(***************************************************************************)
(* The beam of a search holds the L best of the nodes the search has seen, *)
(* after each of its steps and whatever other threads do to the lists.     *)
(***************************************************************************)

(* top_L is what all_visited amounts to so far: always of the right size,  *)
(* and the best of it if the comparisons order it.                         *)
BeamBest(s) ==
    s.query # NoQuery =>
        /\ s.query \in Query
        /\ s.heap \subseteq s.seen /\ s.top \subseteq s.seen
        /\ Cardinality(s.top) = IF Cardinality(s.seen) < L THEN Cardinality(s.seen) ELSE L
        /\ Ordered(s.query, s.seen) =>
               \A a \in s.top, b \in s.seen \ s.top : ~Nearer(s.query, b, a)

(* What it means that the comparisons of a query order a set.              *)
LEMMA OrderedMeans ==
    ASSUME NEW q \in Query, NEW V \in SUBSET Node
    PROVE  Ordered(q, V) <=>
             /\ \A a, b \in V : Before(q, a, b) => ~Before(q, b, a)
             /\ \A a, b, c \in V : Before(q, a, b) => Before(q, a, c) \/ Before(q, c, b)
             /\ \A a, b \in V : Nearer(q, a, b) => ~Nearer(q, b, a)
             /\ \A a, b, c \in V : Nearer(q, a, b) => Nearer(q, a, c) \/ Nearer(q, c, b)
<1>. DEFINE P(r, W) ==
         /\ \A a, b \in W : Before(r, a, b) => ~Before(r, b, a)
         /\ \A a, b, c \in W : Before(r, a, b) => Before(r, a, c) \/ Before(r, c, b)
         /\ \A a, b \in W : Nearer(r, a, b) => ~Nearer(r, b, a)
         /\ \A a, b, c \in W : Nearer(r, a, b) => Nearer(r, a, c) \/ Nearer(r, c, b)
<1>1. Ordered(q, V) <=>
        \E r \in Query : <<q, V>> \in {<<r, W>> : W \in {U \in SUBSET Node : P(r, U)}}
  BY DEF Ordered, Orders, StrictWeak
<1>. HIDE DEF P
<1>2. Ordered(q, V) <=> P(q, V)
  BY <1>1
<1>. QED BY <1>2 DEF P

(* What orders a set orders its subsets.                                   *)
LEMMA OrderedBelow ==
    ASSUME NEW q \in Query, NEW V \in SUBSET Node, NEW W \in SUBSET V, Ordered(q, V)
    PROVE  Ordered(q, W)
BY OrderedMeans

LEMMA BeginBest ==
    ASSUME SearchTypeOK, NEW t \in Thread, NEW q \in Query, NEW S \in SUBSET Node,
           Begin(t, q, S)
    PROVE  /\ BeamBest(search'[t]) /\ search'[t].query = q
           /\ \A u \in Thread \ {t} : search'[u] = search[u]
<1>1. PICK r \in Locals :
          /\ search' = [search EXCEPT ![t] = r]
          /\ r.query = q /\ r.heap = S /\ r.top \in Beams(q, S) /\ r.seen = S
  BY BeginGives
<1>2. /\ r.top \subseteq S
      /\ Cardinality(r.top) = IF Cardinality(S) < L THEN Cardinality(S) ELSE L
      /\ Ordered(q, S) => \A a \in r.top, b \in S \ r.top : ~Before(q, b, a)
  BY <1>1 DEF Beams
<1>3. \A a \in r.top, b \in S \ r.top : Nearer(q, b, a) => Before(q, b, a)
  BY <1>2, BeamAssumption
<1>. QED BY <1>1, <1>2, <1>3 DEF BeamBest, SearchTypeOK

LEMMA WalkBest ==
    ASSUME SearchTypeOK, NEW t \in Thread, BeamBest(search[t]), Pop(t) \/ Look(t)
    PROVE  /\ BeamBest(search'[t]) /\ search'[t].query = search[t].query
           /\ \A u \in Thread \ {t} : search'[u] = search[u]
<1>1. \E r \in Locals : /\ search' = [search EXCEPT ![t] = r]
                        /\ r.query = search[t].query /\ r.top = search[t].top
                        /\ r.heap \subseteq search[t].heap /\ r.seen = search[t].seen
  BY PopGives, LookGives
<1>. QED BY <1>1 DEF BeamBest, SearchTypeOK

(* Pushing a node that was not seen before leaves the best of all seen.    *)
LEMMA PushBest ==
    ASSUME NEW q \in Query, NEW seen \in SUBSET Node, NEW top \in SUBSET seen,
           Cardinality(top) = IF Cardinality(seen) < L THEN Cardinality(seen) ELSE L,
           Ordered(q, seen) => \A a \in top, b \in seen \ top : ~Nearer(q, b, a),
           NEW n \in Node \ seen, NEW w \in Farthest(q, top, seen), NEW beam,
           \/ (~Full(top) \/ Nearer(q, n, w)) /\ beam = Push(top, w, n)
           \/ Full(top) /\ ~Nearer(q, n, w) /\ beam = top
    PROVE  /\ beam \subseteq seen \cup {n}
           /\ Cardinality(beam) = IF Cardinality(seen \cup {n}) < L
                                  THEN Cardinality(seen \cup {n}) ELSE L
           /\ Ordered(q, seen \cup {n}) =>
                  \A a \in beam, b \in (seen \cup {n}) \ beam : ~Nearer(q, b, a)
<1>1. /\ IsFiniteSet(seen) /\ Cardinality(seen) \in Nat
      /\ IsFiniteSet(top) /\ Cardinality(top) \in Nat
      /\ L \in Nat \ {0}
  BY DataAssumption, FS_Subset, FS_CardinalityType, BeamAssumption
<1>2. /\ Cardinality(seen \cup {n}) = Cardinality(seen) + 1
      /\ Cardinality(top \cup {n}) = Cardinality(top) + 1
      /\ IsFiniteSet(top \cup {n})
  BY <1>1, FS_AddElement
<1>3. CASE ~Full(top)
  <2>1. Cardinality(top) = Cardinality(seen) /\ Cardinality(seen) < L
    BY <1>1, <1>3 DEF Full
  <2>2. top = seen
    BY <1>1, <2>1, FS_Subset
  <2>3. beam = top \cup {n}
    BY <1>3 DEF Push
  <2>. QED BY <1>1, <1>2, <2>1, <2>2, <2>3
<1>4. CASE Full(top)
  <2>1. Cardinality(top) = L /\ ~(Cardinality(seen) < L)
    BY <1>1, <1>4 DEF Full
  <2>2. ~(Cardinality(seen \cup {n}) < L)
    BY <1>1, <1>2, <2>1
  <2>3. w \in top /\ w # n
    BY DEF Farthest
  <2>4. Ordered(q, seen \cup {n}) =>
          /\ \A a \in top, b \in seen \ top : ~Nearer(q, b, a)
          /\ \A b \in top : ~Before(q, w, b)
          /\ \A a, b \in seen \cup {n} : Nearer(q, a, b) => Before(q, a, b) /\ ~Nearer(q, b, a)
          /\ \A a, b, c \in seen \cup {n} :
                 Nearer(q, a, b) => Nearer(q, a, c) \/ Nearer(q, c, b)
    <3>. SUFFICES ASSUME Ordered(q, seen \cup {n})
                  PROVE  /\ \A a \in top, b \in seen \ top : ~Nearer(q, b, a)
                         /\ \A b \in top : ~Before(q, w, b)
                         /\ \A a, b \in seen \cup {n} :
                                Nearer(q, a, b) => Before(q, a, b) /\ ~Nearer(q, b, a)
                         /\ \A a, b, c \in seen \cup {n} :
                                Nearer(q, a, b) => Nearer(q, a, c) \/ Nearer(q, c, b)
      OBVIOUS
    <3>1. seen \cup {n} \in SUBSET Node
      OBVIOUS
    <3>2. Ordered(q, seen)
      BY <3>1, OrderedBelow
    <3>3. \A a, b \in seen \cup {n} : Nearer(q, a, b) => Before(q, a, b)
      BY BeamAssumption
    <3>4. /\ \A a, b \in seen \cup {n} : Nearer(q, a, b) => ~Nearer(q, b, a)
          /\ \A a, b, c \in seen \cup {n} :
                 Nearer(q, a, b) => Nearer(q, a, c) \/ Nearer(q, c, b)
      BY <3>1, OrderedMeans
    <3>. QED BY <3>2, <3>3, <3>4 DEF Farthest
  <2>5. CASE Nearer(q, n, w) /\ beam = Push(top, w, n)
    <3>1. beam = (top \cup {n}) \ {w}
      BY <1>4, <2>5 DEF Push
    <3>2. Cardinality(beam) = L
      <4>1. w \in top \cup {n}
        BY <2>3
      <4>2. Cardinality((top \cup {n}) \ {w}) = Cardinality(top \cup {n}) - 1
        BY <1>2, <4>1, FS_RemoveElement
      <4>. QED BY <1>1, <1>2, <2>1, <3>1, <4>2
    <3>3. ASSUME Ordered(q, seen \cup {n}), NEW a \in beam, NEW b \in (seen \cup {n}) \ beam
          PROVE  ~Nearer(q, b, a)
      <4>1. b = w \/ (b \in seen \ top)
        BY <3>1
      <4>2. a = n \/ a \in top
        BY <3>1
      <4>3. CASE b = w
        BY <2>3, <2>4, <2>5, <3>3, <4>2, <4>3
      <4>4. CASE b \in seen \ top
        BY <2>3, <2>4, <2>5, <3>3, <4>2, <4>4
      <4>. QED BY <4>1, <4>3, <4>4
    <3>. QED BY <2>2, <2>3, <3>1, <3>2, <3>3
  <2>6. CASE ~Nearer(q, n, w) /\ beam = top
    <3>1. ASSUME Ordered(q, seen \cup {n}), NEW a \in top PROVE ~Nearer(q, n, a)
      BY <2>3, <2>4, <2>6, <3>1
    <3>. QED BY <2>1, <2>2, <2>4, <2>6, <3>1
  <2>. QED BY <1>4, <2>5, <2>6
<1>. QED BY <1>3, <1>4

LEMMA ReadBest ==
    ASSUME SearchTypeOK, NEW t \in Thread, BeamBest(search[t]),
           visited[t] = search[t].seen, search[t].query # NoQuery, Read(t)
    PROVE  /\ BeamBest(search'[t]) /\ search'[t].query = search[t].query
           /\ \A u \in Thread \ {t} : search'[u] = search[u]
<1>. DEFINE s == search[t]
            fresh(n) == n \notin visited[t] /\ Admits(s.query, n)
<1>1. PICK n \in Node, r \in Locals :
          /\ search' = [search EXCEPT ![t] = r] /\ r.query = s.query
          /\ \/ /\ ~fresh(n) /\ r.seen = s.seen /\ r.heap = s.heap /\ r.top = s.top
             \/ /\ fresh(n) /\ r.seen = s.seen \cup {n}
                /\ r.heap \subseteq s.heap \cup {n}
                /\ \E w \in Farthest(s.query, s.top, s.seen) :
                     \/ /\ ~Full(s.top) \/ Nearer(s.query, n, w)
                        /\ r.top = Push(s.top, w, n)
                     \/ /\ Full(s.top) /\ ~Nearer(s.query, n, w) /\ r.top = s.top
  BY ReadGives
<1>2. search'[t] = r /\ \A u \in Thread \ {t} : search'[u] = search[u]
  BY <1>1 DEF SearchTypeOK
<1>3. BeamBest(r)
  <2>1. CASE ~fresh(n) /\ r.seen = s.seen /\ r.heap = s.heap /\ r.top = s.top
    BY <1>1, <2>1 DEF BeamBest
  <2>2. CASE fresh(n) /\ r.seen = s.seen \cup {n}
    <3>1. PICK w \in Farthest(s.query, s.top, s.seen) :
            \/ (~Full(s.top) \/ Nearer(s.query, n, w)) /\ r.top = Push(s.top, w, n)
            \/ Full(s.top) /\ ~Nearer(s.query, n, w) /\ r.top = s.top
      BY <1>1, <2>2
    <3>2. s.query \in Query /\ s.seen \in SUBSET Node /\ n \in Node \ s.seen
      BY <2>2, LocalTypes DEF BeamBest, Locals
    <3>. DEFINE q == s.query
                seen == s.seen
                top == s.top
                beam == r.top
    <3>3. /\ top \in SUBSET seen
          /\ Cardinality(top) = IF Cardinality(seen) < L THEN Cardinality(seen) ELSE L
          /\ Ordered(q, seen) => \A a \in top, b \in seen \ top : ~Nearer(q, b, a)
      BY DEF BeamBest
    <3>. HIDE DEF q, seen, top, beam
    <3>4. /\ q \in Query /\ seen \in SUBSET Node /\ n \in Node \ seen
          /\ w \in Farthest(q, top, seen)
          /\ \/ (~Full(top) \/ Nearer(q, n, w)) /\ beam = Push(top, w, n)
             \/ Full(top) /\ ~Nearer(q, n, w) /\ beam = top
      BY <3>1, <3>2 DEF q, seen, top, beam
    <3>5. /\ beam \subseteq seen \cup {n}
          /\ Cardinality(beam) = IF Cardinality(seen \cup {n}) < L
                                 THEN Cardinality(seen \cup {n}) ELSE L
          /\ Ordered(q, seen \cup {n}) =>
                 \A a \in beam, b \in (seen \cup {n}) \ beam : ~Nearer(q, b, a)
      BY <3>3, <3>4, PushBest, SMTT(30)
    <3>6. r.heap \subseteq r.seen
      BY <1>1, <2>2 DEF BeamBest
    <3>. QED BY <1>1, <2>2, <3>4, <3>5, <3>6 DEF BeamBest, q, seen, top, beam
  <2>. QED BY <1>1, <2>1, <2>2
<1>. QED BY <1>1, <1>2, <1>3

(* A thread searches with a beam that is the best of what it has seen, or  *)
(* does not search.                                                        *)
BeamInv == \A t \in Thread : search[t] = Idle \/ (search[t].query # NoQuery /\ BeamBest(search[t]))

\* A thread that does not search takes no step of a search.
LEMMA IdleDoesNotStep ==
    ASSUME NEW t \in Thread, search[t] = Idle
    PROVE  ~Pop(t) /\ ~Look(t) /\ ~Read(t)
<1>1. search[t].heap = {} /\ search[t].curr = NoNode /\ ~search[t].reading
  BY DEF Idle
<1>. QED BY <1>1 DEF Pop, Look, Read, Closest

(* Every step keeps the beams best, the stores to lists that searches are  *)
(* walking included.                                                       *)
THEOREM BuildKeepsBeams == GraphInv /\ BeamInv /\ [BuildNext]_buildVars => BeamInv'
<1>. SUFFICES ASSUME GraphInv, BeamInv, [BuildNext]_buildVars PROVE BeamInv'
  OBVIOUS
<1>1. SearchTypeOK /\ GraphTypeOK /\ DegreeBound /\ VisitedExact
  BY DEF GraphInv, GraphTypeOK
<1>2. ASSUME UNCHANGED search PROVE BeamInv'
  BY <1>2 DEF BeamInv, BeamBest
<1>3. CASE UNCHANGED buildVars \/ Barrier
  BY <1>2, <1>3 DEF buildVars, searchVars, Barrier
<1>4. ASSUME NEW t \in Thread, NEW q \in Query, Begin(t, q, Starts(q)) PROVE BeamInv'
  <2>1. Starts(q) \in SUBSET Node
    BY <1>1, StartsAreNodes
  <2>2. /\ BeamBest(search'[t]) /\ search'[t].query = q
        /\ \A u \in Thread \ {t} : search'[u] = search[u]
    BY <1>1, <1>4, <2>1, BeginBest
  <2>3. q # NoQuery
    BY BeamAssumption
  <2>. QED BY <2>2, <2>3 DEF BeamInv, BeamBest
<1>5. ASSUME NEW t \in Thread, Ask(t) \/ Serve(t) PROVE BeamInv'
  <2>1. CASE Ask(t)
    <3>1. Head(asks[t]) \in Query
      BY <1>1, <2>1 DEF Ask, GraphTypeOK
    <3>. QED BY <1>4, <2>1, <3>1 DEF Ask
  <2>2. CASE Serve(t)
    <3>1. PICK q \in todo : Begin(t, q, Starts(q))
      BY <2>2 DEF Serve
    <3>2. q \in Query
      BY <1>1, BuildAssumption DEF GraphTypeOK
    <3>. QED BY <1>4, <3>1, <3>2
  <2>. QED BY <1>5, <2>1, <2>2
<1>6. ASSUME NEW t \in Thread, Step(t) PROVE BeamInv'
  <2>1. Pop(t) \/ Look(t) \/ Read(t)
    BY <1>6 DEF Step
  <2>2. search[t].query # NoQuery /\ BeamBest(search[t])
    BY <2>1, IdleDoesNotStep DEF BeamInv
  <2>3. /\ BeamBest(search'[t]) /\ search'[t].query = search[t].query
        /\ \A u \in Thread \ {t} : search'[u] = search[u]
    BY <1>1, <2>1, <2>2, WalkBest, ReadBest DEF VisitedExact
  <2>. QED BY <2>2, <2>3 DEF BeamInv, BeamBest
<1>7. ASSUME NEW t \in Thread, Collect(t) \/ Answer(t) PROVE BeamInv'
  <2>1. search' = [search EXCEPT ![t] = Idle]
    BY <1>1, <1>7, EndTypes DEF Collect, Answer
  <2>. QED BY <1>1, <2>1 DEF BeamInv, BeamBest, SearchTypeOK
<1>8. ASSUME NEW t \in Thread,
             \/ Claim(t) \/ Insert(t) \/ LockOwn(t) \/ Link(t) \/ StoreSlot(t)
             \/ StoreCount(t) \/ Unlock(t) \/ Inserted(t) \/ NoStart(t)
      PROVE  BeamInv'
  BY <1>2, <1>8 DEF Claim, Insert, LockOwn, Link, StoreSlot, StoreCount, Unlock,
                    Inserted, NoStart, searchVars
<1>. QED BY <1>3, <1>5, <1>6, <1>7, <1>8 DEF BuildNext, Work

(* What a search returns is L of what it has visited, and the best of it   *)
(* if the comparison orders what it has visited.                           *)
THEOREM BeamsAreBest == GraphInv /\ BeamInv => BestOfVisited
BY DEF BeamInv, BeamBest, BestOfVisited, Found, Idle


-----------------------------------------------------------------------------
(***************************************************************************)
(* A query of the finished index looks at all neighbours of what it        *)
(* returns.  Of each node in top_L the search has the list still before it *)
(* (the node is in the heap), is reading it, or has looked at all of it.   *)
(* The break of the loop drops the heap, and does so only when no node of  *)
(* top_L is in it.                                                         *)
(***************************************************************************)

(* What search s has read of the list of a it has looked at.               *)
LookedAt(s, a) ==
    \A i \in 0 .. num_neighbours[a] - 1 :
        \/ a = s.curr /\ i >= s.slot
        \/ Admits(s.query, neighbours[a][i]) => neighbours[a][i] \in s.seen

(* A comparison that orders nothing may have dropped the heap too early.   *)
Expands(s) ==
    /\ s.curr = NoNode => s.slot = 0
    /\ Thorough(s) => \A a \in s.top : a \in s.heap \/ LookedAt(s, a)

(* While one thread asks queries no thread builds.                         *)
Finished ==
    \A t, u \in Thread :
        pc[t] \in {"serve", "query"} => pc[u] \in {"serve", "query", "exit"}

ExpandInv ==
    /\ Finished
    /\ \A t \in Thread : pc[t] = "query" => Expands(search[t])

LEMMA BeginExpands ==
    ASSUME SearchTypeOK, NEW t \in Thread, NEW q \in Query, NEW S \in SUBSET Node,
           Begin(t, q, S)
    PROVE  /\ Expands(search'[t])
           /\ \A u \in Thread \ {t} : search'[u] = search[u]
<1>1. PICK r \in Locals :
          /\ search' = [search EXCEPT ![t] = r]
          /\ r.top \in Beams(q, S) /\ r.heap = S /\ r.slot = 0
  BY BeginGives
<1>2. r.top \subseteq S
  BY <1>1 DEF Beams
<1>. QED BY <1>1, <1>2 DEF Expands, SearchTypeOK

(* A node taken from the heap is read from its first slot on; and if the   *)
(* rest of the heap is dropped, no node of top_L is in it: the farthest of *)
(* them is before the closest of the heap.                                 *)
LEMMA PopExpands ==
    ASSUME SearchTypeOK, NEW t \in Thread, search[t].query \in Query,
           search[t].top \subseteq search[t].seen,
           search[t].heap \subseteq search[t].seen,
           Expands(search[t]), Pop(t)
    PROVE  Expands(search'[t])
<1>. DEFINE s == search[t]
            q == s.query
<1>1. PICK r \in Locals :
          /\ search' = [search EXCEPT ![t] = r]
          /\ r.query = q /\ r.top = s.top /\ r.seen = s.seen /\ r.slot = s.slot
          /\ \E c \in Closest(q, s.heap, s.seen), w \in Farthest(q, s.top, s.seen) :
               \/ OutOfReach(q, s.top, w, c) /\ r.heap = {} /\ r.curr = NoNode
               \/ ~OutOfReach(q, s.top, w, c) /\ r.heap = s.heap \ {c} /\ r.curr = c
  BY PopGives
<1>2. PICK c \in Closest(q, s.heap, s.seen), w \in Farthest(q, s.top, s.seen) :
          \/ OutOfReach(q, s.top, w, c) /\ r.heap = {} /\ r.curr = NoNode
          \/ ~OutOfReach(q, s.top, w, c) /\ r.heap = s.heap \ {c} /\ r.curr = c
  BY <1>1
<1>3. search'[t] = r
  BY <1>1 DEF SearchTypeOK
<1>4. /\ s.curr = NoNode /\ s.slot = 0 /\ NoNode \notin Node
      /\ s.seen \in SUBSET Node /\ s.top \in SUBSET s.seen /\ s.heap \in SUBSET s.seen
      /\ c \in s.heap /\ w \in s.top
  BY PopGives, LocalTypes, BeamAssumption DEF Expands, Closest, Farthest, Locals
<1>5. q \in Query
  OBVIOUS
<1>6. Thorough(s) => \A a \in s.top : a \in s.heap \/ LookedAt(s, a)
  BY DEF Expands
<1>7. Ordered(q, s.seen) =>
        /\ \A b \in s.heap : ~Before(q, b, c)
        /\ \A b \in s.top : ~Before(q, w, b)
  BY DEF Closest, Farthest
<1>8. Thorough(s) => Ordered(q, s.seen) \/ Cardinality(s.seen) < L
  BY DEF Thorough
<1>9. s.seen \in SUBSET Node
  BY <1>4
<1>. HIDE DEF s, q
<1>10. OutOfReach(q, s.top, w, c) /\ Thorough(s) => Ordered(q, s.seen)
  <2>. SUFFICES ASSUME OutOfReach(q, s.top, w, c), Cardinality(s.seen) < L PROVE FALSE
    BY <1>8
  <2>1. IsFiniteSet(s.seen)
    BY <1>9, DataAssumption, FS_Subset
  <2>2. Cardinality(s.top) \in Nat /\ Cardinality(s.top) <= Cardinality(s.seen)
        /\ Cardinality(s.seen) \in Nat
    BY <1>4, <2>1, FS_Subset, FS_CardinalityType
  <2>3. Cardinality(s.top) = L
    BY DEF OutOfReach, Full
  <2>. QED BY <2>2, <2>3, BeamAssumption
<1>11. ASSUME Thorough(s), NEW a \in s.top PROVE a \in r.heap \/ LookedAt(r, a)
  <2>1. CASE OutOfReach(q, s.top, w, c) /\ r.heap = {} /\ r.curr = NoNode
    <3>1. Before(q, w, c)
      BY <1>4, <1>5, <2>1, BeamAssumption DEF OutOfReach
    <3>2. a \notin s.heap
      <4>. SUFFICES ASSUME a \in s.heap PROVE FALSE
        OBVIOUS
      <4>1. /\ w \in s.seen /\ c \in s.seen /\ a \in s.seen
            /\ ~Before(q, a, c) /\ ~Before(q, w, a)
        BY <1>4, <1>7, <1>10, <1>11, <2>1
      <4>2. Before(q, w, a) \/ Before(q, a, c)
        BY <1>4, <1>5, <1>10, <1>11, <2>1, <3>1, <4>1, OrderedMeans
      <4>. QED BY <4>1, <4>2
    <3>3. LookedAt(s, a)
      BY <1>6, <1>11, <3>2
    <3>. QED BY <1>1, <1>4, <2>1, <3>3 DEF LookedAt, q
  <2>2. CASE ~OutOfReach(q, s.top, w, c) /\ r.heap = s.heap \ {c} /\ r.curr = c
    <3>1. CASE a = c
      <4>1. r.slot = 0 /\ a = r.curr
        BY <1>1, <1>4, <2>2, <3>1
      <4>. QED BY <4>1 DEF LookedAt
    <3>2. CASE a # c
      <4>1. a \in s.heap \/ LookedAt(s, a)
        BY <1>6, <1>11
      <4>2. a \in Node
        BY <1>4
      <4>3. LookedAt(s, a) => LookedAt(r, a)
        BY <1>1, <1>4, <4>2 DEF LookedAt, q
      <4>. QED BY <2>2, <3>2, <4>1, <4>3
    <3>. QED BY <3>1, <3>2
  <2>. QED BY <1>2, <2>1, <2>2
<1>12. r.curr = NoNode => r.slot = 0
  BY <1>1, <1>4
<1>13. Thorough(r) => Thorough(s)
  BY <1>1 DEF Thorough, q
<1>. QED BY <1>1, <1>3, <1>11, <1>12, <1>13 DEF Expands

(* A list is left when all its slots have been read.                       *)
LEMMA LookExpands ==
    ASSUME SearchTypeOK, NEW t \in Thread, Expands(search[t]), Look(t)
    PROVE  Expands(search'[t])
<1>. DEFINE s == search[t]
<1>1. PICK r \in Locals :
          /\ search' = [search EXCEPT ![t] = r]
          /\ r.query = s.query /\ r.top = s.top /\ r.seen = s.seen /\ r.heap = s.heap
          /\ \/ r.curr = s.curr /\ r.slot = s.slot
             \/ /\ ~(s.slot < num_neighbours[s.curr]) /\ r.curr = NoNode /\ r.slot = 0
  BY LookGives
<1>2. search'[t] = r
  BY <1>1 DEF SearchTypeOK
<1>3. /\ s.curr \in Node /\ s.curr # NoNode
      /\ s.slot \in Nat /\ num_neighbours[s.curr] \in Nat
  <2>1. s.curr \in Node /\ s.curr # NoNode
    BY LookGives
  <2>2. s \in Locals
    BY LocalTypes
  <2>3. s.slot \in Nat
    <3>. HIDE DEF s
    <3>. QED BY <2>2, DataAssumption DEF Locals
  <2>. QED BY <2>1, <2>3 DEF SearchTypeOK
<1>4. ASSUME NEW a, LookedAt(s, a) PROVE LookedAt(r, a)
  <2>. HIDE DEF s
  <2>1. CASE r.curr = s.curr /\ r.slot = s.slot
    BY <1>1, <1>4, <2>1 DEF LookedAt
  <2>2. CASE ~(s.slot < num_neighbours[s.curr])
    <3>. SUFFICES ASSUME NEW i \in 0 .. num_neighbours[a] - 1,
                         Admits(r.query, neighbours[a][i])
                  PROVE  neighbours[a][i] \in r.seen
      BY DEF LookedAt
    <3>1. ~(a = s.curr /\ i >= s.slot)
      BY <1>3, <2>2
    <3>. QED BY <1>1, <1>4, <3>1 DEF LookedAt
  <2>. QED BY <1>1, <2>1, <2>2
<1>5. (s.curr = NoNode => s.slot = 0) /\ (r.curr = NoNode => r.slot = 0)
  BY <1>1, <1>3
<1>6. Thorough(s) => \A a \in s.top : a \in s.heap \/ LookedAt(s, a)
  BY DEF Expands
<1>7. Thorough(r) => Thorough(s)
  BY <1>1 DEF Thorough
<1>. HIDE DEF s
<1>. QED BY <1>1, <1>2, <1>4, <1>5, <1>6, <1>7 DEF Expands

(* One more slot is looked at; what enters top_L enters the heap with it.  *)
LEMMA ReadExpands ==
    ASSUME SearchTypeOK, NEW t \in Thread, visited[t] = search[t].seen,
           search[t].query \in Query, Expands(search[t]), Read(t)
    PROVE  Expands(search'[t])
<1>. DEFINE s == search[t]
<1>1. PICK n \in Node, r \in Locals :
          /\ n = neighbours[s.curr][s.slot]
          /\ s.curr \in Node /\ s.curr # NoNode /\ s.slot \in Slot
          /\ search' = [search EXCEPT ![t] = r]
          /\ r.query = s.query /\ r.curr = s.curr /\ r.slot = s.slot + 1
          /\ \/ /\ ~(n \notin visited[t] /\ Admits(s.query, n))
                /\ r.seen = s.seen /\ r.heap = s.heap /\ r.top = s.top
             \/ /\ r.seen = s.seen \cup {n}
                /\ \/ r.heap = s.heap /\ r.top = s.top
                   \/ /\ r.heap = s.heap \cup {n}
                      /\ \E w : r.top = Push(s.top, w, n)
  BY ReadGives
<1>2. search'[t] = r
  BY <1>1 DEF SearchTypeOK
<1>3. s.slot \in Nat /\ num_neighbours[s.curr] \in Nat
  BY <1>1, DataAssumption DEF SearchTypeOK, Slot
<1>4. /\ s.seen \subseteq r.seen /\ r.seen \in SUBSET Node
      /\ Admits(s.query, n) => n \in r.seen
  BY <1>1 DEF Locals
<1>5. s.heap \subseteq r.heap /\ \A a \in r.top : a \in s.top \/ a \in r.heap
  BY <1>1 DEF Push
<1>6. Thorough(s) => \A a \in s.top : a \in s.heap \/ LookedAt(s, a)
  BY DEF Expands
<1>7. Thorough(r) => Thorough(s)
  <2>1. Ordered(r.query, r.seen) => Ordered(s.query, s.seen)
    BY <1>1, <1>4, OrderedBelow
  <2>2. IsFiniteSet(r.seen)
    BY <1>4, DataAssumption, FS_Subset
  <2>3. Cardinality(s.seen) \in Nat /\ Cardinality(r.seen) \in Nat
        /\ Cardinality(s.seen) <= Cardinality(r.seen)
    BY <1>4, <2>2, FS_Subset, FS_CardinalityType
  <2>. QED BY <2>1, <2>3, BeamAssumption DEF Thorough
<1>. HIDE DEF s
<1>8. ASSUME NEW a, LookedAt(s, a) PROVE LookedAt(r, a)
  <2>. SUFFICES ASSUME NEW i \in 0 .. num_neighbours[a] - 1
                PROVE  \/ a = r.curr /\ i >= r.slot
                       \/ Admits(s.query, neighbours[a][i]) => neighbours[a][i] \in r.seen
    BY <1>1 DEF LookedAt
  <2>1. \/ a = s.curr /\ i >= s.slot
        \/ Admits(s.query, neighbours[a][i]) => neighbours[a][i] \in s.seen
    BY <1>8 DEF LookedAt
  <2>2. CASE a = s.curr /\ i = s.slot
    BY <1>1, <1>4, <2>2
  <2>3. CASE a = s.curr /\ i > s.slot
    BY <1>1, <1>3, <2>3
  <2>4. CASE Admits(s.query, neighbours[a][i]) => neighbours[a][i] \in s.seen
    BY <1>4, <2>4
  <2>5. a = s.curr /\ i >= s.slot => i = s.slot \/ i > s.slot
    BY <1>3
  <2>. QED BY <2>1, <2>2, <2>3, <2>4, <2>5
<1>9. Thorough(r) => \A a \in r.top : a \in r.heap \/ LookedAt(r, a)
  BY <1>5, <1>6, <1>7, <1>8
<1>10. r.curr # NoNode
  BY <1>1
<1>. QED BY <1>2, <1>9, <1>10 DEF Expands

(* A thread that finds no start node was about to search, and stops.       *)
LEMMA NoStartIsLast ==
    ASSUME GraphTypeOK, NEW t \in Thread, NoStart(t)
    PROVE  /\ UNCHANGED <<graphVars, searchVars>>
           /\ pc[t] \in {"ask", "serve"} /\ pc'[t] = "exit"
           /\ \A u \in Thread \ {t} : pc'[u] = pc[u]
BY DEF NoStart, Wanted, Goto, GraphTypeOK, BuildLabels

LEMMA FinishedKept ==
    ASSUME GraphTypeOK, Finished, [BuildNext]_buildVars
    PROVE  Finished'
<1>1. pc \in [Thread -> BuildLabels]
  BY DEF GraphTypeOK
<1>2. CASE UNCHANGED buildVars
  BY <1>2 DEF buildVars, teamVars, Finished
<1>3. CASE Barrier
  BY <1>3 DEF Barrier, Finished
<1>4. ASSUME NEW t \in Thread,
             \/ Claim(t) \/ Insert(t) \/ Ask(t) \/ Collect(t) \/ LockOwn(t) \/ Link(t)
             \/ StoreSlot(t) \/ StoreCount(t) \/ Unlock(t) \/ Inserted(t)
      PROVE  Finished'
  <2>1. pc[t] \notin {"serve", "query", "exit"}
    BY <1>4 DEF Claim, Insert, Ask, Collect, LockOwn, Link, StoreSlot, StoreCount,
                Unlock, Inserted
  <2>2. \A u \in Thread : pc'[u] \notin {"serve", "query"}
    <3>1. \A u \in Thread : pc[u] \notin {"serve", "query"}
      BY <2>1 DEF Finished
    <3>2. \/ pc' = pc
          \/ \E l \in BuildLabels \ {"serve", "query"} : pc' = [pc EXCEPT ![t] = l]
      BY <1>4 DEF Claim, Insert, Ask, Collect, LockOwn, Link, StoreSlot, StoreCount,
                  Unlock, Inserted, Goto, AfterInsert, BuildLabels
    <3>. QED BY <1>1, <3>1, <3>2
  <2>. QED BY <2>2 DEF Finished
<1>5. ASSUME NEW t \in Thread, Step(t) PROVE Finished'
  BY <1>5 DEF Step, teamVars, Finished
<1>6. ASSUME NEW t \in Thread, Serve(t) \/ Answer(t) PROVE Finished'
  <2>1. /\ pc[t] \in {"serve", "query"}
        /\ \E l \in {"serve", "query"} : pc' = [pc EXCEPT ![t] = l]
    BY <1>6 DEF Serve, Answer, Goto
  <2>. QED BY <1>1, <2>1 DEF Finished
<1>7. ASSUME NEW t \in Thread, NoStart(t) PROVE Finished'
  BY <1>7, NoStartIsLast DEF Finished
<1>. QED BY <1>2, <1>3, <1>4, <1>5, <1>6, <1>7 DEF BuildNext, Work

(* Every step keeps what a query still has to look at in sight.            *)
THEOREM QueriesExpand ==
    GraphInv /\ BeamInv /\ ExpandInv /\ [BuildNext]_buildVars => ExpandInv'
<1>. SUFFICES ASSUME GraphInv, BeamInv, ExpandInv, [BuildNext]_buildVars
              PROVE  ExpandInv'
  OBVIOUS
<1>1. /\ SearchTypeOK /\ GraphTypeOK /\ Finished /\ VisitedExact
      /\ pc \in [Thread -> BuildLabels]
  BY DEF GraphInv, GraphTypeOK, ExpandInv
<1>2. Finished'
  BY <1>1, FinishedKept
<1>3. ASSUME \A u \in Thread : pc'[u] # "query" PROVE ExpandInv'
  BY <1>2, <1>3 DEF ExpandInv
<1>4. ASSUME NEW t \in Thread, UNCHANGED graphVars,
             \A u \in Thread \ {t} : search'[u] = search[u] /\ pc'[u] = pc[u],
             pc'[t] = "query" => Expands(search'[t])
      PROVE  ExpandInv'
  <2>. SUFFICES ASSUME NEW u \in Thread, pc'[u] = "query" PROVE Expands(search[u])'
    BY <1>2 DEF ExpandInv
  <2>1. Expands(search'[u])
    BY <1>4 DEF ExpandInv
  <2>. QED BY <1>4, <2>1 DEF Expands, LookedAt, graphVars
<1>5. CASE UNCHANGED buildVars
  <2>. SUFFICES ASSUME NEW u \in Thread, pc'[u] = "query" PROVE Expands(search[u])'
    BY <1>2 DEF ExpandInv
  <2>1. Expands(search[u])
    BY <1>5 DEF ExpandInv, buildVars, teamVars
  <2>. QED BY <1>5, <2>1 DEF Expands, LookedAt, buildVars, graphVars, searchVars
<1>6. CASE Barrier
  BY <1>1, <1>3, <1>6 DEF Barrier
<1>7. ASSUME Alive, NEW t \in Thread, Work(t) PROVE ExpandInv'
  <2>1. CASE pc[t] \notin {"serve", "query"}
    <3>1. \A u \in Thread : pc[u] \notin {"serve", "query"}
      BY <1>1, <1>7, <2>1 DEF Finished, Alive
    <3>2. pc'[t] \notin {"serve", "query"}
      <4>1. ~Serve(t) /\ ~Answer(t)
        BY <2>1 DEF Serve, Answer
      <4>2. \/ pc' = pc
            \/ \E l \in BuildLabels \ {"serve", "query"} : pc' = [pc EXCEPT ![t] = l]
        BY <1>7, <4>1 DEF Work, Claim, Insert, Ask, Step, Collect, LockOwn, Link,
                          StoreSlot, StoreCount, Unlock, Inserted, NoStart, Goto,
                          AfterInsert, BuildLabels, teamVars
      <4>. QED BY <1>1, <3>1, <4>2
    <3>3. \A u \in Thread : pc'[u] # "query"
      <4>1. ~Serve(t) /\ ~Answer(t)
        BY <2>1 DEF Serve, Answer
      <4>2. \/ pc' = pc
            \/ \E l \in BuildLabels : pc' = [pc EXCEPT ![t] = l]
        BY <1>7, <4>1 DEF Work, Claim, Insert, Ask, Step, Collect, LockOwn, Link,
                          StoreSlot, StoreCount, Unlock, Inserted, NoStart, Goto,
                          AfterInsert, BuildLabels, teamVars
      <4>. QED BY <1>1, <3>1, <3>2, <4>2
    <3>. QED BY <1>3, <3>3
  <2>2. CASE Serve(t)
    <3>1. PICK q \in todo : Begin(t, q, Starts(q))
      BY <2>2 DEF Serve
    <3>2. q \in Query /\ Starts(q) \in SUBSET Node
      BY <1>1, StartsAreNodes, BuildAssumption DEF GraphTypeOK
    <3>3. /\ Expands(search'[t])
          /\ \A u \in Thread \ {t} : search'[u] = search[u]
      BY <1>1, <3>1, <3>2, BeginExpands
    <3>. QED BY <1>1, <1>4, <2>2, <3>3 DEF Serve, Goto
  <2>3. CASE pc[t] = "query" /\ Step(t)
    <3>1. Pop(t) \/ Look(t) \/ Read(t)
      BY <2>3 DEF Step
    <3>2. /\ search[t].query \in Query
          /\ search[t].heap \subseteq search[t].seen
          /\ search[t].top \subseteq search[t].seen
      BY <3>1, IdleDoesNotStep DEF BeamInv, BeamBest
    <3>3. Expands(search[t]) /\ visited[t] = search[t].seen
      BY <1>1, <2>3 DEF ExpandInv, VisitedExact
    <3>4. Expands(search'[t])
      BY <1>1, <3>1, <3>2, <3>3, PopExpands, LookExpands, ReadExpands
    <3>5. \A u \in Thread \ {t} : search'[u] = search[u]
      BY <1>1, <3>1, PopTypes, LookTypes, ReadTypes DEF GraphInv
    <3>. QED BY <1>4, <2>3, <3>4, <3>5 DEF Step, teamVars
  <2>4. CASE Answer(t)
    <3>1. \A u \in Thread \ {t} : search'[u] = search[u]
      BY <1>1, <2>4, EndTypes DEF Answer, SearchTypeOK
    <3>. QED BY <1>1, <1>4, <2>4, <3>1 DEF Answer, Goto
  <2>5. CASE NoStart(t)
    BY <1>4, <2>5, <1>1, NoStartIsLast DEF searchVars
  <2>6. CASE /\ pc[t] \in {"serve", "query"}
             /\ ~Serve(t) /\ ~Answer(t) /\ ~Step(t) /\ ~NoStart(t)
    BY <1>7, <2>6 DEF Work, Claim, Insert, Ask, Collect, LockOwn, Link, StoreSlot,
                      StoreCount, Unlock, Inserted
  <2>7. Step(t) /\ pc[t] # "query" => pc[t] \notin {"serve", "query"}
    BY DEF Step
  <2>. QED BY <2>1, <2>2, <2>3, <2>4, <2>5, <2>6, <2>7
<1>. QED BY <1>5, <1>6, <1>7 DEF BuildNext

(* On the finished index a search has looked at all admissible neighbours  *)
(* of everything it returns (the loops of greedy_search, JAG_new.cpp:200   *)
(* and retriever.hpp:745).                                                 *)
THEOREM QueriesEndAtAnOptimum == GraphInv /\ ExpandInv => ResultsExpanded
<1>. SUFFICES ASSUME GraphInv, ExpandInv, NEW t \in Thread, pc[t] = "query", Found(t),
                     Thorough(search[t]), NEW a \in search[t].top, NEW n \in Listed(a),
                     Admits(search[t].query, n)
              PROVE  n \in search[t].seen
  BY DEF ResultsExpanded
<1>1. search[t].heap = {} /\ search[t].curr = NoNode /\ a \in Node
  BY DEF Found, GraphInv, GraphTypeOK, SearchTypeOK
<1>2. LookedAt(search[t], a) /\ a # search[t].curr
  BY <1>1, BeamAssumption DEF ExpandInv, Expands
<1>3. PICK i \in 0 .. num_neighbours[a] - 1 : n = neighbours[a][i]
  BY DEF Listed
<1>. QED BY <1>2, <1>3 DEF LookedAt
=============================================================================
