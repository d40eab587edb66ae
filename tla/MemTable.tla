------------------------------ MODULE MemTable ------------------------------
(***************************************************************************)
(* MEMTABLE and SSTable (retriever.hpp:85-343): documents are inserted     *)
(* into a table in memory, searched there by an OpenMP team, flushed to a  *)
(* file, and searched there by one thread.  search_parallel and            *)
(* search_parallel_simd differ in their arithmetic only.                   *)
(*                                                                         *)
(* A heap of <similarity, id> pairs is the set of its documents: the order *)
(* is total, so that its top and what a trim leaves are determined.        *)
(***************************************************************************)
EXTENDS Naturals, Sequences, FiniteSetsExt, SequencesExt

CONSTANTS
    Doc,             \* document ids, numbers; each is inserted once
    Similarity(_),   \* cosine similarity to the one query that is asked
    Team,            \* number of threads
    K                \* results wanted, 5 by default

VARIABLES
    table,           \* ids and embeddings of the MEMTABLE, in order
    file,            \* what the flushed and mapped file holds
    phase,           \* of the caller: "idle" or in a parallel "search"
    heap,            \* per thread, its private Q
    at,              \* per thread, "loop", "critical" or "end"
    global_Q,        \* the shared heap
    found            \* what the last search of the table returned

vars == <<table, file, phase, heap, at, global_Q, found>>

Thread == 0 .. Team - 1

(* std::greater on the pairs: the top of a heap is its smallest pair.      *)
Below(a, b) ==
    \/ Similarity(a) < Similarity(b)
    \/ Similarity(a) = Similarity(b) /\ a < b

(* while(Q.size()>k) Q.pop(): the k largest stay.                          *)
Trim(Q) == {a \in Q : Cardinality({b \in Q : Below(a, b)}) < K}

(* Pop k pairs off the top and reverse.                                    *)
Popped(Q) == LET up == SetToSortSeq(Q, Below) IN Reverse(SubSeq(up, 1, K))

(* The static shares of an omp for: consecutive, the longer ones first.    *)
Share(t) ==
    LET q == Len(table) \div Team
        r == Len(table) % Team
        start == t * q + (IF t < r THEN t ELSE r)
    IN ToSet(SubSeq(table, start + 1, start + q + (IF t < r THEN 1 ELSE 0)))

Init ==
    /\ table = <<>> /\ file = <<>> /\ found = <<>>
    /\ phase = "idle"
    /\ heap = [t \in Thread |-> {}]
    /\ at = [t \in Thread |-> "end"]
    /\ global_Q = {}

-----------------------------------------------------------------------------
insert(d) ==
    /\ phase = "idle" /\ d \notin ToSet(table) \cup ToSet(file)
    /\ table' = Append(table, d)
    /\ found' = <<>>
    /\ UNCHANGED <<file, phase, heap, at, global_Q>>

(* The file is written anew and the table cleared; if the file cannot be   *)
(* opened, neither.                                                        *)
flush_to_disk ==
    /\ phase = "idle" /\ table # <<>>
    /\ \/ file' = table /\ table' = <<>> /\ found' = <<>>
       \/ UNCHANGED <<table, file, found>>
    /\ UNCHANGED <<phase, heap, at, global_Q>>

(* SSTable::search, over what load has mapped: one heap, one thread.       *)
search(docs) == Popped(Trim(ToSet(docs)))

(* With fewer than k documents top() of an empty heap would be undefined.  *)
search_parallel ==
    /\ phase = "idle" /\ Len(table) >= K /\ found = <<>>
    /\ phase' = "search"
    /\ at' = [t \in Thread |-> "loop"]
    /\ heap' = [t \in Thread |-> {}]
    /\ global_Q' = {}
    /\ UNCHANGED <<table, file, found>>

(* A thread's share of the loop, on its private heap; nowait.              *)
Loop(t) ==
    /\ at[t] = "loop"
    /\ heap' = [heap EXCEPT ![t] = Trim(Share(t))]
    /\ at' = [at EXCEPT ![t] = "critical"]
    /\ UNCHANGED <<table, file, phase, global_Q, found>>

(* The critical section.  What it trims is Q, which is no longer than k    *)
(* any more, and not global_Q.                                             *)
Merge(t) ==
    /\ at[t] = "critical"
    /\ global_Q' = global_Q \cup heap[t]
    /\ heap' = [heap EXCEPT ![t] = {}]
    /\ at' = [at EXCEPT ![t] = "end"]
    /\ UNCHANGED <<table, file, phase, found>>

Return ==
    /\ phase = "search" /\ \A t \in Thread : at[t] = "end"
    /\ found' = Popped(global_Q)
    /\ phase' = "idle"
    /\ UNCHANGED <<table, file, heap, at, global_Q>>

Next ==
    \/ \E d \in Doc : insert(d)
    \/ flush_to_disk \/ search_parallel \/ Return
    \/ \E t \in Thread : Loop(t) \/ Merge(t)

Spec == Init /\ [][Next]_vars

-----------------------------------------------------------------------------
(* The team finds what the one-threaded search finds, the loop that stands *)
(* as a comment above it (retriever.hpp:163) and lives on in SSTable: the  *)
(* k most similar documents, best first.                                   *)
FindsTheBest == found # <<>> => found = search(table)
=============================================================================
