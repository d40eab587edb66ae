----------------------------- MODULE BeamSearch -----------------------------
(***************************************************************************)
(* greedy_search of the three graph indexes: VAMANA (retriever.hpp:392),   *)
(* Filtered_VAMANA (retriever.hpp:708) and NitroRAG_Vamana                 *)
(* (JAG_new.cpp:188).  They share one loop over the adjacency lists of the *)
(* memory-mapped nodes and differ in the constants below.                  *)
(*                                                                         *)
(* A search takes no lock, and during a build other threads rewrite the    *)
(* lists it walks.  So a step reads either num_neighbours, as the loop     *)
(* condition does, or one slot.  The two heaps are sets, whose top is any  *)
(* element that no other beats; all_visited is a set, since its order is   *)
(* never used.                                                             *)
(***************************************************************************)
EXTENDS IndexData

CONSTANTS
    Thread,          \* the OpenMP team
    L,               \* the beam: how many candidates top_L holds
    NoNode, NoQuery,
    Admits(_, _),    \* may the search for a query enter this node
    Before(_, _, _), \* order of the heaps for a query
    Nearer(_, _, _)  \* order of the two comparisons with top_L.top()

VARIABLES
    num_neighbours,  \* per node, the count in its DiskNode
    neighbours,      \* per node, its array of MaxDegree slots
    visited,         \* per thread, the nodes whose byte is 1
    search           \* per thread, the locals of its greedy_search

searchVars == <<visited, search>>
graphVars == <<num_neighbours, neighbours>>

Slot == 0 .. MaxDegree - 1

ASSUME BeamAssumption ==
    /\ L \in Nat \ {0}
    /\ NoNode \notin Node
    /\ NoQuery \notin Query
    /\ \A q \in Query, a, b \in Node : Nearer(q, a, b) => Before(q, a, b)

(* The list of p as a reader without the lock sees it.                     *)
List(p) == [i \in 1 .. num_neighbours[p] |-> neighbours[p][i - 1]]

Listed(p) == {neighbours[p][i] : i \in 0 .. num_neighbours[p] - 1}

(* The sets that the comparisons for a query order, as priority_queue asks *)
(* of them; one with a tolerance does not order them all (JAG_new.cpp:53). *)
Orders == UNION {
    {<<q, V>> : V \in {W \in SUBSET Node :
        /\ StrictWeak(LAMBDA a, b : Before(q, a, b), W)
        /\ StrictWeak(LAMBDA a, b : Nearer(q, a, b), W)}} : q \in Query}

Ordered(q, V) == <<q, V>> \in Orders

(* What may be on top of min_heap and of top_L if S is in it and the       *)
(* search has seen V: push_heap and pop_heap only ever permute their       *)
(* array, so that a comparison that is no order leaves any member there.   *)
Closest(q, S, V) == {a \in S : (\A b \in S : ~Before(q, b, a)) \/ ~Ordered(q, V)}

(* Mutant of Farthest: top_L is a min-heap as well.                        *)
FarthestOnMinHeap(q, S, V) == Closest(q, S, V)

Farthest(q, S, V) == {a \in S : (\A b \in S : ~Before(q, a, b)) \/ ~Ordered(q, V)}

Idle == [query |-> NoQuery, heap |-> {}, top |-> {}, seen |-> {},
         curr |-> NoNode, slot |-> 0, reading |-> FALSE]

SearchTypeOK ==
    /\ num_neighbours \in [Node -> Nat]
    /\ neighbours \in [Node -> [Slot -> Node]]
    /\ visited \in [Thread -> SUBSET Node]
    /\ search \in [Thread -> [query : Query \cup {NoQuery}, heap : SUBSET Node,
                              top : SUBSET Node, seen : SUBSET Node,
                              curr : Node \cup {NoNode}, slot : 0 .. MaxDegree,
                              reading : BOOLEAN]]
    /\ \A t \in Thread : search[t].reading => search[t].curr # NoNode /\ search[t].slot \in Slot

-----------------------------------------------------------------------------
(* The L best of the start nodes.                                          *)
Beams(q, S) ==
    {B \in SUBSET S :
        /\ Cardinality(B) = IF Cardinality(S) < L THEN Cardinality(S) ELSE L
        /\ (\A a \in B, b \in S \ B : ~Before(q, b, a)) \/ ~Ordered(q, S)}

(* A search needs a start; see NoStart of GraphBuild.                      *)
Begin(t, q, starts) ==
    /\ starts # {}
    /\ \E beam \in Beams(q, starts) :
          search' = [search EXCEPT ![t] =
              [Idle EXCEPT !.query = q, !.heap = starts, !.top = beam, !.seen = starts]]
    /\ visited' = [visited EXCEPT ![t] = @ \cup starts]

Full(top) == Cardinality(top) = L

(* Mutant of OutOfReach: leaves as soon as the beam is full.               *)
OutOfReachWhenFull(q, top, w, n) == Full(top)

(* n cannot improve the beam, on top of which is w: the break of the loop. *)
OutOfReach(q, top, w, n) == Full(top) /\ Nearer(q, w, n)

(* Take the best candidate and start on its list.                          *)
Pop(t) ==
    LET s == search[t] IN
    /\ s.curr = NoNode
    /\ \E c \in Closest(s.query, s.heap, s.seen), w \in Farthest(s.query, s.top, s.seen) :
         search' = [search EXCEPT ![t] =
             IF OutOfReach(s.query, s.top, w, c) THEN [s EXCEPT !.heap = {}]
             ELSE [s EXCEPT !.heap = @ \ {c}, !.curr = c]]
    /\ UNCHANGED visited

(* The loop condition: is there another slot?                              *)
Look(t) ==
    LET s == search[t] IN
    /\ s.curr # NoNode /\ ~s.reading
    /\ search' = [search EXCEPT ![t] =
           IF s.slot < num_neighbours[s.curr] THEN [s EXCEPT !.reading = TRUE]
           ELSE [s EXCEPT !.curr = NoNode, !.slot = 0]]
    /\ UNCHANGED visited

(* Mutant of Push: nothing is popped.                                      *)
PushUntrimmed(top, w, n) == top \cup {n}

(* The beam after n was pushed, and w popped if it had been full.          *)
Push(top, w, n) == IF Full(top) THEN (top \cup {n}) \ {w} ELSE top \cup {n}

(* Read one slot and visit the node in it.                                 *)
Read(t) ==
    LET s == search[t]
        n == neighbours[s.curr][s.slot]
        fresh == n \notin visited[t] /\ Admits(s.query, n)
    IN /\ s.reading
       /\ visited' = [visited EXCEPT ![t] = IF fresh THEN @ \cup {n} ELSE @]
       /\ \E w \in Farthest(s.query, s.top, s.seen) :
            LET taken == fresh /\ (~Full(s.top) \/ Nearer(s.query, n, w)) IN
            search' = [search EXCEPT ![t] =
                [s EXCEPT !.slot = @ + 1, !.reading = FALSE,
                          !.seen = IF fresh THEN @ \cup {n} ELSE @,
                          !.heap = IF taken THEN @ \cup {n} ELSE @,
                          !.top = IF taken THEN Push(@, w, n) ELSE @]]

Found(t) ==
    /\ search[t].query # NoQuery
    /\ search[t].heap = {}
    /\ search[t].curr = NoNode

(* Mutant of Wipe: the bytes stay set for the next search.                 *)
WipeNothing(t) == visited[t]

(* all_visited is what the search has to clear.                            *)
Wipe(t) == visited[t] \ search[t].seen

(* Return the results; the thread's byte vector is clean again.            *)
End(t) ==
    /\ Found(t)
    /\ visited' = [visited EXCEPT ![t] = Wipe(t)]
    /\ search' = [search EXCEPT ![t] = Idle]

-----------------------------------------------------------------------------
(* The visited bytes of a thread, shared by all its searches, are set      *)
(* exactly for the nodes that its running search has seen: no search skips *)
(* a node because an earlier one, perhaps of another index, had been there.*)
VisitedExact == \A t \in Thread : visited[t] = search[t].seen

(* A search returns L of the nodes it has visited, or all if there are     *)
(* fewer; and the L nearest if the comparison orders what it has visited:  *)
(* no candidate that a full beam turned away belongs to the results, even  *)
(* if the lists changed under the search.                                  *)
BestOfVisited ==
    \A t \in Thread :
        LET s == search[t] IN
        Found(t) =>
            /\ s.top \subseteq s.seen
            /\ Cardinality(s.top) =
                   IF Cardinality(s.seen) < L THEN Cardinality(s.seen) ELSE L
            /\ Ordered(s.query, s.seen) =>
                   \A a \in s.top, b \in s.seen \ s.top : ~Nearer(s.query, b, a)
=============================================================================
