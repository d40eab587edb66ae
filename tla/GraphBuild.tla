----------------------------- MODULE GraphBuild -----------------------------
(***************************************************************************)
(* build_index of NitroRAG_Vamana (JAG_new.cpp:312) and                    *)
(* Filtered_build_index (retriever.hpp:870), and the queries that          *)
(* benchmark and server ask of the finished index.                         *)
(*                                                                         *)
(* An OpenMP team inserts the nodes in two passes.  For node i a thread    *)
(* searches for i without locks, prunes what it found into i's list under  *)
(* i's lock, copies the list, and then adds i to the list of each new      *)
(* neighbour under that neighbour's lock, pruning a list that is full.  A  *)
(* thread holds at most one lock.  The stores to slots and count are       *)
(* plain: the searches of other threads can see them in any order, one at  *)
(* a time.                                                                 *)
(***************************************************************************)
EXTENDS BeamSearch, SequencesExt

CONSTANTS
    MedoidKeys,      \* indices of the header's medoid table
    Order,           \* insertion_order, some permutation of the nodes
    Chunk,           \* iterations a thread takes at once, 128 in the code
    Passes,          \* number of passes over all nodes, 2 in the code
    Keys(_),         \* medoids from which the search for a query starts
    Queries(_),      \* the searches made for the insertion of a node
    Related(_, _),   \* what an edge must have in common, see FilteredRules
    Prune(_, _, _),  \* lists robust_prune may leave: node, candidates, pass
    Serving          \* queries asked of the finished index

VARIABLES
    medoids,         \* start nodes in the header
    pass, next,      \* current pass, iterations handed out in it
    mine,            \* per thread, the nodes of its chunk still to insert
    pc,              \* per thread, where it is
    asks,            \* per thread, searches still to make for Head(mine[t])
    cands,           \* per thread, what these searches have visited
    at,              \* per thread, the node whose lock it holds
    stores, counts,  \* per thread, writes to that node still to be made
    links,           \* per thread, neighbours still to link back
    todo             \* queries of Serving not yet asked

teamVars == <<pass, next, mine, pc, asks, cands, at, stores, counts, links, todo>>
buildVars == <<graphVars, searchVars, medoids, teamVars>>

(* Queries about a node start where the node's relatives are; prune keeps  *)
(* candidates, each once, no more than fit, and one if a relative is there.*)
ASSUME BuildAssumption ==
    /\ Order \in Seq(Node) /\ IsInjective(Order) /\ ToSet(Order) = Node
    /\ Chunk \in Nat \ {0} /\ Passes \in Nat \ {0}
    /\ \A i, j \in Node : Related(i, j) => Related(j, i)
    /\ Serving \subseteq Query
    /\ \A q \in Query : Keys(q) \subseteq MedoidKeys
    /\ \A i \in Node : /\ Queries(i) \in Seq(Query)
                       /\ \A k \in DOMAIN Queries(i), n \in Node :
                              Admits(Queries(i)[k], n) => Related(i, n)

ASSUME PruneAssumption ==
    \A p \in Node, k \in 1 .. Passes : \A C \in SUBSET (Node \ {p}) :
        \A s \in Prune(p, C, k) :
            /\ s \in Seq({c \in C : Related(p, c)})
            /\ Len(s) <= MaxDegree
            /\ \A a, b \in DOMAIN s : s[a] = s[b] => a = b
            /\ (\E c \in C : Related(p, c)) => s # <<>>

Inserting(t) == Head(mine[t])
Starts(q) == {medoids[k] : k \in Keys(q)} \ {NoNode}

GraphBuildInit ==
    /\ visited = [t \in Thread |-> {}]
    /\ search = [t \in Thread |-> Idle]
    /\ pass = 1 /\ next = 0
    /\ mine = [t \in Thread |-> <<>>]
    /\ pc = [t \in Thread |-> "claim"]
    /\ asks = [t \in Thread |-> <<>>]
    /\ cands = [t \in Thread |-> {}]
    /\ at = [t \in Thread |-> NoNode]
    /\ stores = [t \in Thread |-> {}]
    /\ counts = [t \in Thread |-> {}]
    /\ links = [t \in Thread |-> <<>>]
    /\ todo = Serving

Goto(t, label) == pc' = [pc EXCEPT ![t] = label]

-----------------------------------------------------------------------------
(* schedule(dynamic, 128) over the insertion order; an empty chunk sends   *)
(* the thread to the barrier at the end of the parallel region.            *)
Claim(t) ==
    LET upto == IF next + Chunk > Len(Order) THEN Len(Order) ELSE next + Chunk IN
    /\ pc[t] = "claim"
    /\ mine' = [mine EXCEPT ![t] = SubSeq(Order, next + 1, upto)]
    /\ next' = upto
    /\ Goto(t, IF next < Len(Order) THEN "insert" ELSE "barrier")
    /\ UNCHANGED <<graphVars, searchVars, medoids, pass, asks, cands, at, stores,
                   counts, links, todo>>

(* All threads have arrived: the next pass, or the index is built.         *)
Barrier ==
    /\ \A t \in Thread : pc[t] = "barrier"
    /\ IF pass < Passes
       THEN /\ pass' = pass + 1 /\ next' = 0
            /\ pc' = [t \in Thread |-> "claim"]
       ELSE /\ pc' = [t \in Thread |-> "serve"]
            /\ UNCHANGED <<pass, next>>
    /\ UNCHANGED <<graphVars, searchVars, medoids, mine, asks, cands, at, stores,
                   counts, links, todo>>

Insert(t) ==
    /\ pc[t] = "insert"
    /\ asks' = [asks EXCEPT ![t] = Queries(Inserting(t))]
    /\ cands' = [cands EXCEPT ![t] = {}]
    /\ Goto(t, "ask")
    /\ UNCHANGED <<graphVars, searchVars, medoids, pass, next, mine, at, stores,
                   counts, links, todo>>

(* One search from the medoids of the query.                               *)
Ask(t) ==
    /\ pc[t] = "ask" /\ asks[t] # <<>>
    /\ Begin(t, Head(asks[t]), Starts(Head(asks[t])))
    /\ asks' = [asks EXCEPT ![t] = Tail(@)]
    /\ Goto(t, "search")
    /\ UNCHANGED <<graphVars, medoids, pass, next, mine, cands, at, stores,
                   counts, links, todo>>

(* The searches that a thread may make next.                               *)
Wanted(t) ==
    CASE pc[t] = "ask" /\ asks[t] # <<>> -> {Head(asks[t])}
      [] pc[t] = "serve" -> todo
      [] OTHER -> {}

(* A filtered search without a start node ends the process with exit(1).   *)
NoStart(t) ==
    /\ \E q \in Wanted(t) : Starts(q) = {}
    /\ Goto(t, "exit")
    /\ UNCHANGED <<graphVars, searchVars, medoids, pass, next, mine, asks, cands, at,
                   stores, counts, links, todo>>

Step(t) ==
    /\ pc[t] \in {"search", "query"}
    /\ Pop(t) \/ Look(t) \/ Read(t)
    /\ UNCHANGED <<graphVars, medoids, teamVars>>

Collect(t) ==
    /\ pc[t] = "search"
    /\ End(t)
    /\ cands' = [cands EXCEPT ![t] = @ \cup search[t].seen]
    /\ Goto(t, "ask")
    /\ UNCHANGED <<graphVars, medoids, pass, next, mine, asks, at, stores, counts,
                   links, todo>>

-----------------------------------------------------------------------------
(* Mutant of Free: nobody waits for a lock, as in VAMANA::build_index.     *)
FreeAlways(p) == TRUE

(* omp_set_lock of p can return.                                           *)
Free(p) == \A t \in Thread : at[t] # p

(* What robust_prune chooses from: V and the node's own list.              *)
Candidates(p, V) == (V \cup Listed(p)) \ {p}

(* Mutant of NewCounts: the list is cleared before it is filled.           *)
NewCountsCleared(s) == {0, Len(s)}

(* The values num_neighbours goes through when s is written.               *)
NewCounts(s) == {Len(s)}

(* The stores robust_prune ends with.                                      *)
Rewrite(t, p, V) ==
    \E s \in Prune(p, Candidates(p, V), pass) :
        /\ stores' = [stores EXCEPT ![t] = {<<i - 1, s[i]>> : i \in DOMAIN s}]
        /\ counts' = [counts EXCEPT ![t] = NewCounts(s)]

(* Lock node i and prune the candidates into its list.                     *)
LockOwn(t) ==
    LET i == Inserting(t) IN
    /\ pc[t] = "ask" /\ asks[t] = <<>>
    /\ Free(i)
    /\ at' = [at EXCEPT ![t] = i]
    /\ Rewrite(t, i, cands[t])
    /\ Goto(t, "store")
    /\ UNCHANGED <<graphVars, searchVars, medoids, pass, next, mine, asks, cands,
                   links, todo>>

(* Mutant of HasRoom: one more than the array holds.                       *)
HasRoomForOneMore(p) == num_neighbours[p] <= MaxDegree

HasRoom(p) == num_neighbours[p] < MaxDegree

(* Mutant of Mentions: looks for p in the list of i.                       *)
MentionsSwapped(p, i) == p \in Listed(i)

(* already_neighbour.                                                      *)
Mentions(p, i) == i \in Listed(p)

(* Mutant of AfterSkip: the lock is kept when there is nothing to add.     *)
AfterSkipLocked(t, p) == p

(* What t has locked after it found itself in the list of p.               *)
AfterSkip(t, p) == NoNode

(* Lock the next new neighbour and add i to its list, unless it is there.  *)
Link(t) ==
    LET i == Inserting(t)
        p == Head(links[t])
        count == num_neighbours[p]
    IN /\ pc[t] = "link" /\ links[t] # <<>>
       /\ Free(p)
       /\ links' = [links EXCEPT ![t] = Tail(@)]
       /\ \/ /\ Mentions(p, i)
             /\ at' = [at EXCEPT ![t] = AfterSkip(t, p)]
             /\ UNCHANGED <<stores, counts, pc>>
          \/ /\ ~Mentions(p, i)
             /\ at' = [at EXCEPT ![t] = p]
             /\ IF HasRoom(p)
                THEN /\ stores' = [stores EXCEPT ![t] = {<<count, i>>}]
                     /\ counts' = [counts EXCEPT ![t] = {count + 1}]
                ELSE Rewrite(t, p, {i})
             /\ Goto(t, "store")
       /\ UNCHANGED <<graphVars, searchVars, medoids, pass, next, mine, asks, cands,
                      todo>>

(* One plain store to the locked node becomes visible.                     *)
StoreSlot(t) ==
    /\ pc[t] = "store"
    /\ \E w \in stores[t] :
         /\ neighbours' = [neighbours EXCEPT ![at[t]][w[1]] = w[2]]
         /\ stores' = [stores EXCEPT ![t] = @ \ {w}]
    /\ UNCHANGED <<num_neighbours, searchVars, medoids, pass, next, mine, pc, asks,
                   cands, at, counts, links, todo>>

StoreCount(t) ==
    /\ pc[t] = "store"
    /\ \E c \in counts[t] :
         /\ num_neighbours' = [num_neighbours EXCEPT ![at[t]] = c]
         /\ counts' = [counts EXCEPT ![t] = @ \ {c}]
    /\ UNCHANGED <<neighbours, searchVars, medoids, pass, next, mine, pc, asks,
                   cands, at, stores, links, todo>>

(* omp_unset_lock; of node i itself its new list is copied first.          *)
Unlock(t) ==
    /\ pc[t] = "store" /\ stores[t] = {} /\ counts[t] = {}
    /\ at' = [at EXCEPT ![t] = NoNode]
    /\ links' = [links EXCEPT ![t] = IF at[t] = Inserting(t) THEN List(at[t]) ELSE @]
    /\ Goto(t, "link")
    /\ UNCHANGED <<graphVars, searchVars, medoids, pass, next, mine, asks, cands,
                   stores, counts, todo>>

(* Mutant of AfterInsert: the end of a chunk is not noticed.               *)
AfterInsertMore(rest) == "insert"

AfterInsert(rest) == IF rest = <<>> THEN "claim" ELSE "insert"

Inserted(t) ==
    /\ pc[t] = "link" /\ links[t] = <<>>
    /\ mine' = [mine EXCEPT ![t] = Tail(@)]
    /\ Goto(t, AfterInsert(Tail(mine[t])))
    /\ UNCHANGED <<graphVars, searchVars, medoids, pass, next, asks, cands, at,
                   stores, counts, links, todo>>

-----------------------------------------------------------------------------
(* The team shares the queries to the finished index out among itself.     *)
Serve(t) ==
    /\ pc[t] = "serve"
    /\ \E q \in todo : Begin(t, q, Starts(q)) /\ todo' = todo \ {q}
    /\ Goto(t, "query")
    /\ UNCHANGED <<graphVars, medoids, pass, next, mine, asks, cands, at, stores,
                   counts, links>>

Answer(t) ==
    /\ pc[t] = "query"
    /\ End(t)
    /\ Goto(t, "serve")
    /\ UNCHANGED <<graphVars, medoids, pass, next, mine, asks, cands, at, stores,
                   counts, links, todo>>

Work(t) ==
    \/ Claim(t) \/ Insert(t) \/ Ask(t) \/ Step(t) \/ Collect(t)
    \/ LockOwn(t) \/ Link(t) \/ StoreSlot(t) \/ StoreCount(t) \/ Unlock(t)
    \/ Inserted(t) \/ Serve(t) \/ Answer(t) \/ NoStart(t)

(* exit(1) of one thread is the end of all.                                *)
Alive == \A t \in Thread : pc[t] # "exit"

BuildNext == Alive /\ (Barrier \/ \E t \in Thread : Work(t))
=============================================================================
