------------------------------ MODULE IndexFile ------------------------------
(***************************************************************************)
(* The life of an index file of NitroRAG_Vamana: the benchmark's main      *)
(* opens it, fills in the nodes, computes the statistics, builds the graph *)
(* and closes it; somebody puts it where the server looks for it; the      *)
(* server opens it and answers queries.  The mapping is shared: what a     *)
(* process has stored is in the file, also if it dies.                     *)
(***************************************************************************)
EXTENDS Integers, FiniteSets

CONSTANTS
    Sizes,           \* node counts that an index may be opened with
    ServedSize       \* the one the server uses, 1 000 000 in the code

VARIABLES
    file,            \* the file's header and nodes; Absent before the first open
    deployed,        \* is it the file that the server opens
    user,            \* "none", "benchmark" or "server", who has it mapped
    step,            \* of the benchmark: "fill", "statistics", "build", "close"
    start            \* first node of the server's last search

vars == <<file, deployed, user, step, start>>

Absent == [num_nodes |-> 0, global_medoid_id |-> 0, sigma |-> FALSE, edges |-> {}]
NoStart == -2

Init ==
    /\ file = Absent /\ deployed = FALSE
    /\ user = "none" /\ step = "close"
    /\ start = NoStart

(* The constructor: ftruncate to n nodes, then the header is written over, *)
(* whatever was there; nodes that are still inside keep their lists, new   *)
(* ones are zero.                                                          *)
Opened(n, medoid) ==
    [file EXCEPT !.num_nodes = n, !.global_medoid_id = medoid,
                 !.edges = @ \cap 0 .. n - 1]

(* main has chosen a node as the medoid.                                   *)
OpenBenchmark ==
    /\ user = "none" /\ ~deployed
    /\ \E n \in Sizes : \E m \in 0 .. n - 1 : file' = Opened(n, m)
    /\ user' = "benchmark" /\ step' = "fill"
    /\ UNCHANGED <<deployed, start>>

Fill ==
    /\ user = "benchmark" /\ step = "fill"
    /\ file' = [file EXCEPT !.edges = {}]
    /\ step' = "statistics"
    /\ UNCHANGED <<deployed, user, start>>

compute_global_statistics ==
    /\ user = "benchmark" /\ step = "statistics"
    /\ file' = [file EXCEPT !.sigma = TRUE]
    /\ step' = "build"
    /\ UNCHANGED <<deployed, user, start>>

(* Every node gets an edge (NitroIndex).                                   *)
build_index ==
    /\ user = "benchmark" /\ step = "build"
    /\ file' = [file EXCEPT !.edges = 0 .. file.num_nodes - 1]
    /\ step' = "close"
    /\ UNCHANGED <<deployed, user, start>>

(* The destructor, or the end of the process at any step.                  *)
Leave ==
    /\ user # "none"
    /\ user' = "none"
    /\ UNCHANGED <<file, deployed, step, start>>

Deploy ==
    /\ user = "none" /\ ~deployed
    /\ step = "close" /\ file.sigma
    /\ deployed' = TRUE
    /\ UNCHANGED <<file, user, step, start>>

(* main of the server passes -1 as the medoid.                             *)
OpenServer ==
    /\ user = "none" /\ deployed
    /\ file' = Opened(ServedSize, -1)
    /\ user' = "server"
    /\ UNCHANGED <<deployed, step, start>>

(* greedy_search begins at the header's medoid.                            *)
Search ==
    /\ user = "server"
    /\ start' = file.global_medoid_id
    /\ UNCHANGED <<file, deployed, user, step>>

Next ==
    \/ OpenBenchmark \/ Fill \/ compute_global_statistics \/ build_index
    \/ Leave \/ Deploy \/ OpenServer \/ Search

Spec == Init /\ [][Next]_vars

-----------------------------------------------------------------------------
(* The database traverses the graph it serves: a search of the server      *)
(* begins at a node of the index, one with edges (README.md:41, "C++       *)
(* Vector DB traverses the Joint Attribute Graph to find context").        *)
TraversesTheGraph == start # NoStart => start \in file.edges
=============================================================================
