----------------------------- MODULE PagedMemory -----------------------------
(***************************************************************************)
(* The paged KV memory of the inference engine (src/src/pagedMemory.hpp):  *)
(* the block pool (KVBlock_Manager), the prefix cache with its topological *)
(* LRU eviction (PrefixCacheManager) and the per-request Sequence, driven  *)
(* by the three forward passes of src/src/model_q8.cpp.                    *)
(*                                                                         *)
(* The three classes call each other inside one call, so they share one    *)
(* module.  The engine thread is the only thread that touches them; `pc'   *)
(* says which call it is in, and every iteration of a loop of the code is  *)
(* one action.  The lock-free use of allocate_next_token by the OpenMP     *)
(* threads of forward_decode_batch is the subject of ParallelDecode.       *)
(***************************************************************************)
EXTENDS Integers, FiniteSets, SequencesExt

CONSTANTS Seqs,                  \* Sequence objects (one per Request)
          Tokens,                \* token ids
          Blocks,                \* physical block ids, 0 .. total_blocks - 1
          BootOrder,             \* the order in which the ids are first freed
          NoBlock,               \* the parent id -1
          BlockSize,             \* BLOCK_SIZE
          Hashes,                \* the values of a uint64_t block hash
          FNV_OFFSET_BASIS,      \* hash of the empty prefix
          hash_block_state(_, _),\* FNV-1a of a chunk, seeded by the parent
          MaxLen,                \* bound: tokens one sequence ever holds
          ChunkSizes             \* bound: sizes of the prefill chunks

\* TOTAL_BLOCKS, given to both managers
TotalBlocks == Cardinality(Blocks)
Chunks      == [1 .. BlockSize -> Tokens]

ASSUME PoolAssumption ==
    /\ IsFiniteSet(Blocks)
    /\ NoBlock \notin Blocks
    /\ BootOrder \in Bijection(1 .. TotalBlocks, Blocks)
    /\ BlockSize \in Nat \ {0}
    /\ MaxLen \in Nat
    /\ ChunkSizes \subseteq Nat \ {0}
ASSUME SeqsAssumption == IsFiniteSet(Seqs)
ASSUME HashAssumption ==
    /\ FNV_OFFSET_BASIS \in Hashes
    /\ \A h \in Hashes, c \in Chunks : hash_block_state(h, c) \in Hashes

\* PrefixCacheManager's water marks: int(total * 0.05) and int(total * 0.2)
\* truncate exactly as the integer quotients do.
min_free_blocks   == IF TotalBlocks \div 20 > 1 THEN TotalBlocks \div 20 ELSE 1
taget_free_blocks == IF TotalBlocks \div 5 > 2 THEN TotalBlocks \div 5 ELSE 2

VARIABLES
    \* KVBlock_Manager
    free_list,          \* the stack of free block ids; its back is its last
    ref_count, num_tokens, parent_id, child_count,      \* fields of KVBlock
    kv,                 \* what each slot of the pool was computed for
    \* PrefixCacheManager
    cache_map,          \* hash -> block, a partial function
    reverse_map,        \* block -> hash, a partial function
    evictable_leaves,   \* the LRU list, front first; leaf_pointers indexes it
    \* Sequence
    block_table, logical_token_count, current_hash, token_buffer,
    \* the engine thread
    pc,                 \* the call it is in; "exit" after exit(1)
    todo,               \* tokens of the forward pass still to be placed
    releasing,          \* the sequence inside release(), as a set
    freed,              \* how many blocks its loop has passed to free_block
    \* history: never read by a guard of the code's own
    text,               \* the tokens a sequence stands for
    kv_len,             \* how many of them have their KV entry in the pool
    sealed              \* sequences flushed by flush_cache()

poolVars  == <<free_list, ref_count, num_tokens, parent_id, child_count>>
cacheVars == <<cache_map, reverse_map, evictable_leaves>>
seqVars   == <<block_table, logical_token_count, current_hash, token_buffer>>
ghostVars == <<text, kv_len, sealed>>
ctlVars   == <<pc, todo, releasing, freed>>
memVars   == <<poolVars, kv, cacheVars, seqVars, ctlVars, ghostVars>>

-----------------------------------------------------------------------------
Slots == Blocks \X (0 .. BlockSize - 1)

\* The slot that the kernels address for position i (from 1) of s.
Slot(s, i) ==
    <<block_table[s][((i - 1) \div BlockSize) + 1], (i - 1) % BlockSize>>

Cached == DOMAIN reverse_map                                   \* is_cached

\* The entries of all block tables, as <<sequence, index>>, and those that
\* stand for a reference to b: release() drops them one after the other.
Entries == UNION {{s} \X DOMAIN block_table[s] : s \in Seqs}
Uses(b) == {u \in Entries : /\ block_table[u[1]][u[2]] = b
                            /\ u[1] \in releasing => u[2] > freed}
Holders(b) == {u[1] : u \in Uses(b)}
Children(b) == {c \in Cached : parent_id[c] = b}

\* Mutants of Bump: a block shared without inc_ref_count, or freed without the
\* decrement of free_block.
BumpDownOnly(f, b, d) == [x \in Blocks |-> IF x = b /\ d < 0 THEN f[x] + d ELSE f[x]]
BumpUpOnly(f, b, d)   == [x \in Blocks |-> IF x = b /\ d > 0 THEN f[x] + d ELSE f[x]]

\* f with d added at b; no change for NoBlock, which is no block.
Bump(f, b, d) == [x \in Blocks |-> IF x = b THEN f[x] + d ELSE f[x]]

\* Mutant of Forget: evict_lru_block leaves the entry in its map.
ForgetNothing(f, k) == f

\* map[k] = v, and map.erase(k).
Put(f, k, v) == [x \in DOMAIN f \cup {k} |-> IF x = k THEN v ELSE f[x]]
Forget(f, k) == Restrict(f, DOMAIN f \ {k})

\* The pool once b is free.  The code leaves the old floats in place; they
\* count as garbage, which is no entry of any text.
Discard(b) == [l \in Slots |-> IF l[1] = b THEN <<>> ELSE kv[l]]

\* list::erase(leaf_pointers[b])
EraseLeaf(leaves, b) ==
    RemoveAt(leaves, CHOOSE i \in DOMAIN leaves : leaves[i] = b)

\* Mutants of EvaluateEvictability: a block that is shared again stays on the
\* list, or a block with cached children goes on it.
EvaluateKeepingLeaf(leaves, b, cached, refs, childs) ==
    IF b \in cached /\ refs[b] = 0 /\ childs[b] = 0 /\ b \notin ToSet(leaves)
    THEN Cons(b, leaves) ELSE leaves
EvaluateByRefsAlone(leaves, b, cached, refs, childs) ==
    CASE b \in cached /\ refs[b] = 0 /\ b \notin ToSet(leaves) -> Cons(b, leaves)
      [] b \in cached /\ refs[b] # 0 /\ b \in ToSet(leaves) -> EraseLeaf(leaves, b)
      [] OTHER -> leaves

\* evaluate_evictability(b) as the LRU list it leaves behind.
EvaluateEvictability(leaves, b, cached, refs, childs) ==
    LET is_evictable == refs[b] = 0 /\ childs[b] = 0
        in_lru       == b \in ToSet(leaves)
    IN  CASE b \in cached /\ is_evictable /\ ~in_lru -> Cons(b, leaves)
          [] b \in cached /\ ~is_evictable /\ in_lru -> EraseLeaf(leaves, b)
          [] OTHER -> leaves

-----------------------------------------------------------------------------
Init ==
    /\ free_list = BootOrder
    /\ ref_count = [b \in Blocks |-> 0]
    /\ num_tokens = [b \in Blocks |-> 0]
    /\ parent_id = [b \in Blocks |-> NoBlock]
    /\ child_count = [b \in Blocks |-> 0]
    /\ kv = [l \in Slots |-> <<>>]
    /\ cache_map = <<>>
    /\ reverse_map = <<>>
    /\ evictable_leaves = <<>>
    /\ block_table = [s \in Seqs |-> <<>>]
    /\ logical_token_count = [s \in Seqs |-> 0]
    /\ current_hash = [s \in Seqs |-> FNV_OFFSET_BASIS]
    /\ token_buffer = [s \in Seqs |-> <<>>]
    /\ pc = "idle"
    /\ todo = <<>>
    /\ releasing = {}
    /\ freed = 0
    /\ text = [s \in Seqs |-> <<>>]
    /\ kv_len = [s \in Seqs |-> 0]
    /\ sealed = {}

-----------------------------------------------------------------------------
(* The prefix-hit loop of Continuous_Scheduler::step: one iteration that   *)
(* finds the next chunk of the prompt in the cache and shares its block.   *)
PrefixHit(s, chunk) ==
    LET hash == hash_block_state(current_hash[s], chunk)
        hit  == cache_map[hash]
        refs == Bump(ref_count, hit, 1)
    IN  /\ pc = "idle"
        /\ token_buffer[s] = <<>>
        /\ Len(text[s]) + BlockSize <= MaxLen
        /\ hash \in DOMAIN cache_map
        /\ ref_count' = refs
        /\ evictable_leaves' = EvaluateEvictability(evictable_leaves, hit,
                                                    Cached, refs, child_count)
        /\ block_table' = [block_table EXCEPT ![s] = Append(@, hit)]
        /\ logical_token_count' =
               [logical_token_count EXCEPT ![s] = @ + BlockSize]
        /\ current_hash' = [current_hash EXCEPT ![s] = hash]
        /\ text' = [text EXCEPT ![s] = @ \o chunk]
        /\ kv_len' = [kv_len EXCEPT ![s] = @ + BlockSize]
        /\ UNCHANGED <<free_list, num_tokens, parent_id, child_count, kv,
                       cache_map, reverse_map, token_buffer, ctlVars, sealed>>

(* A forward pass first calls allocate_next_token for each of its tokens.  *)
StartForward(batch) ==
    /\ pc = "idle"
    /\ \A i \in DOMAIN batch : batch[i].seq \notin sealed
    /\ \A s \in Seqs :
           Len(text[s]) + Cardinality({i \in DOMAIN batch : batch[i].seq = s})
               <= MaxLen
    /\ pc' = "append"
    /\ todo' = batch
    /\ UNCHANGED <<poolVars, kv, cacheVars, seqVars, releasing, freed, ghostVars>>

\* forward_prefill_chunk: a chunk of one sequence.
ForwardPrefillChunk(s, chunk) ==
    /\ chunk # <<>>
    /\ StartForward([i \in DOMAIN chunk |-> [seq |-> s, tok |-> chunk[i]]])

\* forward_decode_batch (forward_paged is the batch of one): one token of
\* each of several sequences, all of them past their prefill.
ForwardDecodeBatch(ss, toks) ==
    /\ ss # <<>>
    /\ \A i \in DOMAIN ss : logical_token_count[ss[i]] > 0
    /\ StartForward([i \in DOMAIN ss |-> [seq |-> ss[i], tok |-> toks[i]]])

(* insert_cache(hash, last block of s, the block before it).  The block    *)
(* and its parent are evaluated in the order of the code.                  *)
InsertCache(s) ==
    LET table  == block_table[s]
        b      == Last(table)
        parent == IF Len(table) > 1 THEN table[Len(table) - 1] ELSE NoBlock
        hash   == hash_block_state(current_hash[s], token_buffer[s])
        cached == Cached \cup {b}
        childs == Bump([child_count EXCEPT ![b] = 0], parent, 1)
        leaves == EvaluateEvictability(evictable_leaves, parent,
                                       cached, ref_count, childs)
    IN  /\ cache_map' = Put(cache_map, hash, b)
        /\ reverse_map' = Put(reverse_map, b, hash)
        /\ parent_id' = [parent_id EXCEPT ![b] = parent]
        /\ child_count' = childs
        /\ evictable_leaves' = EvaluateEvictability(leaves, b, cached,
                                                    ref_count, childs)
        /\ current_hash' = [current_hash EXCEPT ![s] = hash]
        /\ UNCHANGED <<free_list, ref_count, num_tokens, kv, block_table,
                       logical_token_count, text, kv_len>>

(* allocate_next_token, in three steps.  First the block that the previous *)
(* token filled is published in the cache.                                 *)
CommitBlock ==
    /\ pc = "append"
    /\ todo # <<>>
    /\ LET s == todo[1].seq
       IN  /\ Len(token_buffer[s]) = BlockSize
           /\ InsertCache(s)
           /\ token_buffer' = [token_buffer EXCEPT ![s] = <<>>]
    /\ UNCHANGED <<ctlVars, sealed>>

\* The tail of allocate_next_token, without the block it counts on.
RecordToken(s, tok) ==
    /\ token_buffer' = [token_buffer EXCEPT ![s] = Append(@, tok)]
    /\ logical_token_count' = [logical_token_count EXCEPT ![s] = @ + 1]
    /\ text' = [text EXCEPT ![s] = Append(@, tok)]
    /\ todo' = Tail(todo)

(* In the middle of a block the token goes to the block at the back of the *)
(* table.                                                                  *)
PlaceToken ==
    /\ pc = "append"
    /\ todo # <<>>
    /\ LET s == todo[1].seq
       IN  /\ Len(token_buffer[s]) # BlockSize
           /\ logical_token_count[s] % BlockSize # 0
           /\ num_tokens' = [num_tokens EXCEPT ![Last(block_table[s])] = @ + 1]
           /\ RecordToken(s, todo[1].tok)
    /\ UNCHANGED <<free_list, ref_count, parent_id, child_count, kv,
                   cacheVars, block_table, current_hash, pc, releasing,
                   freed, kv_len, sealed>>

\* Mutant of NeedsBlock: every token may open a block.
NeedsBlockAlways == todo # <<>> /\ Len(token_buffer[todo[1].seq]) # BlockSize

\* The sequence in front needs a new block: logical_token_count sits at a
\* block boundary and the filled block, if any, has been published.
NeedsBlock ==
    /\ todo # <<>>
    /\ Len(token_buffer[todo[1].seq]) # BlockSize
    /\ logical_token_count[todo[1].seq] % BlockSize = 0

(* At a block boundary allocate_block pops the free list.                  *)
OpenBlock ==
    /\ pc = "append"
    /\ NeedsBlock
    /\ free_list # <<>>
    /\ LET s  == todo[1].seq
           id == Last(free_list)
       IN  /\ free_list' = Front(free_list)
           /\ ref_count' = [ref_count EXCEPT ![id] = 1]
           /\ num_tokens' = [num_tokens EXCEPT ![id] = 1]
           /\ parent_id' = [parent_id EXCEPT ![id] = NoBlock]
           /\ child_count' = [child_count EXCEPT ![id] = 0]
           /\ block_table' = [block_table EXCEPT ![s] = Append(@, id)]
           /\ RecordToken(s, todo[1].tok)
    /\ UNCHANGED <<kv, cacheVars, current_hash, pc, releasing, freed, kv_len,
                   sealed>>

(* allocate_block finds the free list empty and calls evict_lru_block,     *)
(* which returns at once unless the pool is below its low water mark.      *)
StartEvict ==
    /\ pc = "append"
    /\ NeedsBlock
    /\ free_list = <<>>
    /\ Len(free_list) < min_free_blocks
    /\ pc' = "evict"
    /\ UNCHANGED <<poolVars, kv, cacheVars, seqVars, todo, releasing, freed,
                   ghostVars>>

(* One iteration of evict_lru_block: the least recently used leaf leaves   *)
(* the cache, its parent may become a leaf, and its block is freed.        *)
EvictLeaf ==
    /\ pc = "evict"
    /\ Len(free_list) < taget_free_blocks
    /\ evictable_leaves # <<>>
    /\ LET id     == Last(evictable_leaves)
           parent == parent_id[id]
           rest   == Forget(reverse_map, id)
           childs == Bump(child_count, parent, -1)
       IN  /\ cache_map' = Forget(cache_map, reverse_map[id])
           /\ reverse_map' = rest
           /\ evictable_leaves' =
                  EvaluateEvictability(Front(evictable_leaves), parent,
                                       DOMAIN rest, ref_count, childs)
           /\ num_tokens' = [num_tokens EXCEPT ![id] = 0]
           /\ ref_count' = [ref_count EXCEPT ![id] = 0]
           /\ parent_id' = [parent_id EXCEPT ![id] = NoBlock]
           /\ child_count' = [childs EXCEPT ![id] = 0]
           /\ free_list' = Append(free_list, id)
           /\ kv' = Discard(id)
    /\ UNCHANGED <<seqVars, ctlVars, ghostVars>>

(* The loop ends at the high water mark, or early when no leaf is left but *)
(* some block was freed.                                                   *)
EvictDone ==
    /\ pc = "evict"
    /\ \/ Len(free_list) >= taget_free_blocks
       \/ evictable_leaves = <<>> /\ Len(free_list) > 0
    /\ pc' = "append"
    /\ UNCHANGED <<poolVars, kv, cacheVars, seqVars, todo, releasing, freed,
                   ghostVars>>

(* No leaf to evict and no free block: exit(1).                            *)
OutOfMemory ==
    /\ pc = "evict"
    /\ evictable_leaves = <<>>
    /\ Len(free_list) = 0
    /\ pc' = "exit"
    /\ UNCHANGED <<poolVars, kv, cacheVars, seqVars, todo, releasing, freed,
                   ghostVars>>

(* Every token has its slot: the kernels write the KV entry of each of     *)
(* them.  The entry of position i is what attention over positions 1 .. i  *)
(* yields, so it stands for the text up to i.                              *)
Compute ==
    /\ pc = "append"
    /\ todo = <<>>
    /\ LET fresh == {p \in Seqs \X (1 .. MaxLen) :
                         p[2] > kv_len[p[1]] /\ p[2] <= logical_token_count[p[1]]}
           At(l) == {p \in fresh : Slot(p[1], p[2]) = l}
       IN  kv' = [l \in Slots |->
                      IF At(l) = {} THEN kv[l]
                      ELSE LET p == CHOOSE p \in At(l) : TRUE
                           IN  SubSeq(text[p[1]], 1, p[2])]
    /\ kv_len' = logical_token_count
    /\ pc' = "idle"
    /\ UNCHANGED <<poolVars, cacheVars, seqVars, todo, releasing, freed, text,
                   sealed>>

-----------------------------------------------------------------------------
(* flush_cache publishes a full last block and keeps the buffer: a second  *)
(* flush or a further token would publish the block again.  Its callers    *)
(* flush a sequence once and then only release it.                         *)
FlushCache(s) ==
    /\ pc = "idle"
    /\ s \notin sealed
    /\ IF Len(token_buffer[s]) = BlockSize
       THEN InsertCache(s)
       ELSE UNCHANGED <<poolVars, kv, cacheVars, block_table,
                        logical_token_count, current_hash, text, kv_len>>
    /\ sealed' = sealed \cup {s}
    /\ UNCHANGED <<token_buffer, ctlVars>>

StartRelease(s) ==
    /\ pc = "idle"
    /\ block_table[s] # <<>>
    /\ pc' = "release"
    /\ releasing' = {s}
    /\ kv_len' = [kv_len EXCEPT ![s] = 0]
    /\ UNCHANGED <<poolVars, kv, cacheVars, seqVars, todo, freed, text, sealed>>

(* One iteration of release(): free_block of the next block of the table.  *)
ReleaseBlock(s) ==
    /\ pc = "release"
    /\ s \in releasing
    /\ freed < Len(block_table[s])
    /\ LET b    == block_table[s][freed + 1]
           refs == Bump(ref_count, b, -1)
       IN  /\ ref_count' = refs
           /\ evictable_leaves' = EvaluateEvictability(evictable_leaves, b,
                                                       Cached, refs, child_count)
           /\ IF refs[b] = 0 /\ b \notin Cached
              THEN /\ num_tokens' = [num_tokens EXCEPT ![b] = 0]
                   /\ free_list' = Append(free_list, b)
                   /\ kv' = Discard(b)
              ELSE UNCHANGED <<num_tokens, free_list, kv>>
    /\ freed' = freed + 1
    /\ UNCHANGED <<parent_id, child_count, cache_map, reverse_map, seqVars, pc,
                   todo, releasing, ghostVars>>

(* After the loop the sequence is as new.                                  *)
FinishRelease(s) ==
    /\ pc = "release"
    /\ s \in releasing
    /\ freed = Len(block_table[s])
    /\ block_table' = [block_table EXCEPT ![s] = <<>>]
    /\ token_buffer' = [token_buffer EXCEPT ![s] = <<>>]
    /\ logical_token_count' = [logical_token_count EXCEPT ![s] = 0]
    /\ current_hash' = [current_hash EXCEPT ![s] = FNV_OFFSET_BASIS]
    /\ text' = [text EXCEPT ![s] = <<>>]
    /\ sealed' = sealed \ {s}
    /\ pc' = "idle"
    /\ releasing' = {}
    /\ freed' = 0
    /\ UNCHANGED <<poolVars, kv, cacheVars, todo, kv_len>>

-----------------------------------------------------------------------------
\* The steps of a call in progress.
CallStep ==
    \/ CommitBlock \/ PlaceToken \/ OpenBlock \/ Compute
    \/ StartEvict \/ EvictLeaf \/ EvictDone \/ OutOfMemory
    \/ \E s \in Seqs : ReleaseBlock(s) \/ FinishRelease(s)

\* The sequences of a decode batch, each once.
DecodeBatches == UNION {Injection(1 .. n, Seqs) : n \in 1 .. Cardinality(Seqs)}

\* The calls a caller may make of the idle memory.
CallStart ==
    /\ pc = "idle"
    /\ \/ \E s \in Seqs :
              \/ \E chunk \in Chunks : PrefixHit(s, chunk)
              \/ \E n \in ChunkSizes : \E chunk \in [1 .. n -> Tokens] :
                     ForwardPrefillChunk(s, chunk)
              \/ FlushCache(s)
              \/ StartRelease(s)
       \/ \E ss \in DecodeBatches : \E toks \in [DOMAIN ss -> Tokens] :
              ForwardDecodeBatch(ss, toks)

Next == CallStep \/ CallStart

\* A call the engine thread is in runs on; the thread may stay idle forever.
Spec == Init /\ [][Next]_memVars /\ WF_memVars(CallStep)
=============================================================================
