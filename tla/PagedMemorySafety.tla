-------------------------- MODULE PagedMemorySafety --------------------------
(***************************************************************************)
(* The properties of PagedMemory, stated apart from the model.             *)
(***************************************************************************)
EXTENDS PagedMemory

IsPartial(f, S, T) == DOMAIN f \subseteq S /\ \A x \in DOMAIN f : f[x] \in T

(* The state of pagedMemory.hpp has the types its declarations give it;    *)
(* counters never go negative and block ids stay inside the pool.          *)
TypeOK ==
    /\ free_list \in Seq(Blocks)
    /\ ref_count \in [Blocks -> Nat]
    /\ num_tokens \in [Blocks -> Nat]
    /\ parent_id \in [Blocks -> Blocks \cup {NoBlock}]
    /\ child_count \in [Blocks -> Nat]
    /\ kv \in [Slots -> Seq(Tokens)]
    /\ IsPartial(cache_map, Hashes, Blocks)
    /\ IsPartial(reverse_map, Blocks, Hashes)
    /\ evictable_leaves \in Seq(Blocks)
    /\ block_table \in [Seqs -> Seq(Blocks)]
    /\ logical_token_count \in [Seqs -> Nat]
    /\ current_hash \in [Seqs -> Hashes]
    /\ token_buffer \in [Seqs -> Seq(Tokens)]
    /\ pc \in {"idle", "append", "evict", "release", "exit"}
    /\ todo \in Seq([seq : Seqs, tok : Tokens])
    /\ releasing \subseteq Seqs
    /\ freed \in Nat
    /\ text \in [Seqs -> Seq(Tokens)]
    /\ kv_len \in [Seqs -> Nat]
    /\ sealed \subseteq Seqs

(* free_list (pagedMemory.hpp:50) holds each block at most once, and       *)
(* exactly the blocks that no sequence references and the cache does not   *)
(* own: no block is freed twice, leaked, or handed out while in use.       *)
BlockConservation ==
    /\ IsInjective(free_list)
    /\ \A b \in Blocks :
           b \in ToSet(free_list) <=> (ref_count[b] = 0 /\ b \notin Cached)

(* ref_count is the number of block-table entries that refer to the block  *)
(* (inc_ref_count, allocate_block and free_block balance), also if a hash  *)
(* collision made a sequence hit a block that it holds already.            *)
RefCountsExact ==
    \A b \in Blocks :
        IsFiniteSet(Uses(b)) /\ ref_count[b] = Cardinality(Uses(b))

(* evictable_leaves holds, once each, exactly the cached blocks without    *)
(* users and without cached children, whatever order inc_ref_count,        *)
(* free_block, insert_cache and evict_lru_block re-evaluated them in.      *)
LeavesExact ==
    /\ IsInjective(evictable_leaves)
    /\ ToSet(evictable_leaves) =
           {b \in Cached : ref_count[b] = 0 /\ child_count[b] = 0}

(* child_count counts the cached children, and the parent of a cached      *)
(* block is cached: eviction is topological, it never orphans a suffix.    *)
ChildCountsExact ==
    /\ \A b \in Blocks : child_count[b] = Cardinality(Children(b))
    /\ \A b \in Cached : parent_id[b] # NoBlock => parent_id[b] \in Cached

(* check_cache never returns a block that left the cache or that was       *)
(* recached for another prefix: cache_map is backed by reverse_map, also   *)
(* when two blocks were cached under one hash.                             *)
CacheMapSound ==
    \A h \in DOMAIN cache_map :
        /\ cache_map[h] \in Cached
        /\ reverse_map[cache_map[h]] = h

\* The table of s: full, published blocks, and at most one still being filled.
TailOK(s) ==
    LET table == block_table[s]
    IN  /\ \A k \in 1 .. Len(table) - 1 : table[k] \in Cached
        /\ table # <<>> =>
               /\ Last(table) \notin Cached <=> token_buffer[s] # <<>>
               /\ token_buffer[s] # <<>> =>
                      Uses(Last(table)) = {<<s, Len(table)>>}

(* The block at the back of a table that is still being filled belongs to  *)
(* its sequence alone and is not cached: sharing needs no copy-on-write.   *)
(* All blocks before it are full and published, in order.                  *)
TailExclusive == \A s \in Seqs \ (releasing \cup sealed) : TailOK(s)

(* A sequence holds exactly the blocks its tokens need: at most            *)
(* BlockSize - 1 slots of its last block are unused (ARCHITECTURE.md, "a   *)
(* maximum of 15 tokens per sequence").                                    *)
FragmentationBound ==
    \A s \in Seqs \ releasing :
        LET slots == BlockSize * Len(block_table[s])
        IN  /\ logical_token_count[s] <= slots
            /\ slots < logical_token_count[s] + BlockSize

(* What ties a sequence's table, token count and buffer together, and the  *)
(* program counter to the call in progress.  Together with the properties  *)
(* above this is inductive.                                                *)
ShapeOK(s) ==
    \/ /\ token_buffer[s] = <<>>
       /\ logical_token_count[s] = BlockSize * Len(block_table[s])
    \/ /\ Len(token_buffer[s]) \in 1 .. BlockSize
       /\ block_table[s] # <<>>
       /\ logical_token_count[s] =
              BlockSize * (Len(block_table[s]) - 1) + Len(token_buffer[s])

TableShape ==
    /\ \A s \in Seqs \ releasing : ShapeOK(s)
    /\ \A s \in Seqs : Len(text[s]) = logical_token_count[s]

ControlShape ==
    /\ pc # "release" => releasing = {} /\ freed = 0
    /\ pc = "release" => /\ \E s \in Seqs : releasing = {s}
                         /\ \A s \in releasing : freed <= Len(block_table[s])
    /\ pc \in {"append", "evict"} =>
           \A i \in DOMAIN todo : todo[i].seq \notin sealed

MemoryInv ==
    /\ TypeOK
    /\ ControlShape
    /\ BlockConservation
    /\ RefCountsExact
    /\ LeavesExact
    /\ ChildCountsExact
    /\ CacheMapSound
    /\ TableShape
    /\ TailExclusive

(* Attention reads, at every position of every sequence, the KV entry that *)
(* was computed for exactly this sequence's text up to that position:      *)
(* sharing, eviction and block reuse never show a sequence other KV.       *)
Readback ==
    \A s \in Seqs : \A i \in 1 .. kv_len[s] :
        kv[Slot(s, i)] = SubSeq(text[s], 1, i)

(* A KV slot is overwritten, or given back to the pool, only while no      *)
(* second sequence holds its block; and a forward pass writes only past    *)
(* what its sequence had computed before: entries that are shared or were  *)
(* read once never change under their readers.                             *)
SharedEntriesImmutable ==
    [][\A l \in Slots : kv'[l] # kv[l] =>
           /\ Cardinality(Holders(l[1])) <= 1
           /\ \A s \in Seqs, i \in 1 .. MaxLen :
                  i <= kv_len[s] => Slot(s, i) # l]_kv

(* What the code's comment and the architecture document say of eviction:  *)
(* when the pool is below its low water mark (5%), leaves are evicted      *)
(* before another block is handed out.                                     *)
LowWaterEvicts ==
    [][Len(free_list') < Len(free_list) =>
           Len(free_list) >= min_free_blocks \/ evictable_leaves = <<>>]_memVars

(* What the architecture document says of eviction: it evicts true leaf    *)
(* nodes, without users and without children.  A hash that the cache       *)
(* forgets must be the hash of such a block.                               *)
EvictsOnlyTrueLeaves ==
    [][\A h \in DOMAIN cache_map \ DOMAIN cache_map' :
           ref_count[cache_map[h]] = 0 /\ child_count[cache_map[h]] = 0]_cache_map

\* The KV cache that a sequence sees through its block table.
View == [s \in Seqs |-> [i \in 1 .. kv_len[s] |-> kv[Slot(s, i)]]]

Private == INSTANCE PrivateKV WITH mem <- View
(* Seen through the block tables, the pool implements private contiguous   *)
(* KV caches.                                                              *)
ImplementsPrivateKV == Private!PrivateSpec
=============================================================================
