---------------------------- MODULE ParallelDecode ----------------------------
(***************************************************************************)
(* The OpenMP loop at the head of forward_decode_batch                     *)
(* (src/src/model_q8.cpp): the iterations call allocate_next_token of      *)
(* different requests on one KVBlock_Manager without a lock.               *)
(*                                                                         *)
(* The module follows the requests of the batch whose next token opens a   *)
(* block, and the free_list of allocate_block, whose pops race.  The list  *)
(* is an array and the pointer behind its last element; the race makes     *)
(* each read and each write of that pointer a step of its own, and         *)
(* pop_back may use the pointer that back() loaded or load it again.       *)
(* The pool never runs empty here: eviction is not needed for the race.    *)
(***************************************************************************)
EXTENDS Integers, FiniteSets, SequencesExt

CONSTANTS Threads,      \* the OpenMP team
          Share,        \* the iterations of each thread, in its order
          TotalBlocks   \* more than there are requests

Reqs == UNION {ToSet(Share[t]) : t \in Threads}

VARIABLES
    finish,     \* free_list holds the blocks 0 .. finish - 1
    opened,     \* the block that a request pushed on its table, or none
    todo,       \* the iterations a thread still has to run
    at,         \* where a thread is in allocate_block
    loaded      \* the pointer a thread loaded

vars == <<finish, opened, todo, at, loaded>>
None == -1

Init ==
    /\ finish = TotalBlocks
    /\ opened = [r \in Reqs |-> None]
    /\ todo = Share
    /\ at = [t \in Threads |-> "check"]
    /\ loaded = [t \in Threads |-> 0]

\* if(free_list.empty()): here it never is.
CheckEmpty(t) ==
    /\ at[t] = "check" /\ todo[t] # <<>>
    /\ finish > 0
    /\ at' = [at EXCEPT ![t] = "back"]
    /\ UNCHANGED <<finish, opened, todo, loaded>>

\* id = free_list.back()
Back(t) ==
    /\ at[t] = "back"
    /\ opened' = [opened EXCEPT ![Head(todo[t])] = finish - 1]
    /\ loaded' = [loaded EXCEPT ![t] = finish]
    /\ at' = [at EXCEPT ![t] = "pop"]
    /\ UNCHANGED <<finish, todo>>

\* pop_back loads the pointer again ...
Reload(t) ==
    /\ at[t] = "pop"
    /\ loaded' = [loaded EXCEPT ![t] = finish]
    /\ at' = [at EXCEPT ![t] = "store"]
    /\ UNCHANGED <<finish, opened, todo>>

\* ... or not, and stores it decremented.
Store(t) ==
    /\ at[t] \in {"pop", "store"}
    /\ finish' = loaded[t] - 1
    /\ todo' = [todo EXCEPT ![t] = Tail(@)]
    /\ at' = [at EXCEPT ![t] = "check"]
    /\ UNCHANGED <<opened, loaded>>

Next == \E t \in Threads : CheckEmpty(t) \/ Back(t) \/ Reload(t) \/ Store(t)

Spec == Init /\ [][Next]_vars

-----------------------------------------------------------------------------
(* "Memory consumption maps strictly to generated tokens": after the loop  *)
(* every request has a block of its own, and the blocks that left the free *)
(* list are the blocks that were opened.                                   *)
MemoryMapsToTokens ==
    (\A t \in Threads : todo[t] = <<>>) =>
        /\ IsInjective(opened)
        /\ {opened[r] : r \in Reqs} = finish .. TotalBlocks - 1
=============================================================================
