-------------------------- MODULE PagedMemoryProofs --------------------------
(***************************************************************************)
(* Proofs about PagedMemory for every pool, block size, number of          *)
(* sequences and hash function: MemoryInv is inductive.                    *)
(***************************************************************************)
EXTENDS PagedMemorySafety, ListLemmas, FiniteSetTheorems

\* The remainder that tells a block boundary from the middle of a block.
LEMMA Remainder ==
    ASSUME NEW B \in Nat \ {0}, NEW q \in Int, NEW m \in 0 .. B - 1
    PROVE  (B * q + m) % B = m
<1>. DEFINE x == B * q + m
            d == x \div B
            r == x % B
<1>1. /\ x \in Int /\ d \in Int /\ r \in 0 .. B - 1
      /\ x = B * d + r
  OBVIOUS
<1>. HIDE DEF d, r
<1>2. B * (q - d) = r - m
  BY <1>1
<1>3. q - d \in Int
  BY <1>1
<1>4. \A k \in Int : k >= 1 => B * k >= B
  OBVIOUS
<1>5. \A k \in Int : k <= -1 => B * k <= -B
  OBVIOUS
<1>6. ~(q - d >= 1)
  BY <1>1, <1>2, <1>3, <1>4
<1>7. ~(q - d <= -1)
  BY <1>1, <1>2, <1>3, <1>5
<1>8. q - d = 0
  BY <1>3, <1>6, <1>7
<1>9. r = m
  BY <1>1, <1>2, <1>8
<1>. QED BY <1>9 DEF r

\* evaluate_evictability puts a cached block on the list if it is idle and
\* has no children, takes it off otherwise, and touches no other block.
LEMMA EvaluateMember ==
    ASSUME NEW leaves \in Seq(Blocks), IsInjective(leaves),
           NEW cached \in SUBSET Blocks, NEW b, NEW refs, NEW childs,
           NEW new, new = EvaluateEvictability(leaves, b, cached, refs, childs)
    PROVE  /\ new \in Seq(Blocks)
           /\ IsInjective(new)
           /\ b \notin cached => ToSet(new) = ToSet(leaves)
           /\ b \in cached /\ refs[b] = 0 /\ childs[b] = 0 =>
                  ToSet(new) = ToSet(leaves) \cup {b}
           /\ b \in cached /\ ~(refs[b] = 0 /\ childs[b] = 0) =>
                  ToSet(new) = ToSet(leaves) \ {b}
<1>. DEFINE evictable == refs[b] = 0 /\ childs[b] = 0
            in_lru == b \in ToSet(leaves)
<1>1. CASE b \in cached /\ evictable /\ ~in_lru
  <2>1. new = Cons(b, leaves)
    BY <1>1 DEF EvaluateEvictability
  <2>. QED BY <1>1, <2>1, ConsMember
<1>2. CASE b \in cached /\ ~evictable /\ in_lru
  <2>1. new = EraseLeaf(leaves, b)
    BY <1>2 DEF EvaluateEvictability
  <2>. DEFINE i == CHOOSE i \in DOMAIN leaves : leaves[i] = b
  <2>2. i \in 1 .. Len(leaves) /\ leaves[i] = b
    BY <1>2 DEF ToSet
  <2>. HIDE DEF i
  <2>3. /\ RemoveAt(leaves, i) \in Seq(Blocks)
        /\ IsInjective(RemoveAt(leaves, i))
        /\ ToSet(RemoveAt(leaves, i)) = ToSet(leaves) \ {b}
    BY <2>2, RemoveMember
  <2>4. new = RemoveAt(leaves, i)
    BY <2>1 DEF EraseLeaf, i
  <2>. QED BY <1>2, <2>3, <2>4
<1>3. CASE ~(b \in cached /\ evictable /\ ~in_lru)
           /\ ~(b \in cached /\ ~evictable /\ in_lru)
  <2>1. new = leaves
    BY <1>3 DEF EvaluateEvictability
  <2>. QED BY <1>3, <2>1
<1>. QED BY <1>1, <1>2, <1>3

\* The members of Uses(b).
LEMMA UsesMember ==
    \A b : \A u : u \in Uses(b) <=>
        \E s \in Seqs : \E k \in DOMAIN block_table[s] :
            /\ u = <<s, k>>
            /\ block_table[s][k] = b
            /\ s \in releasing => k > freed
BY DEF Uses, Entries

(* The managers and sequences as constructed satisfy the invariant.        *)
THEOREM InitMemoryInv == Init => MemoryInv
<1>. SUFFICES ASSUME Init PROVE MemoryInv
  OBVIOUS
<1>. USE PoolAssumption, HashAssumption DEF Init
<1>1. /\ BootOrder \in Seq(Blocks)
      /\ IsInjective(BootOrder)
      /\ ToSet(BootOrder) = Blocks
  <2>1. TotalBlocks \in Nat
    BY FS_CardinalityType DEF TotalBlocks
  <2>2. /\ BootOrder \in [1 .. TotalBlocks -> Blocks]
        /\ IsInjective(BootOrder)
        /\ \A b \in Blocks : \E i \in 1 .. TotalBlocks : BootOrder[i] = b
    BY DEF Bijection, Injection, Surjection
  <2>3. BootOrder \in Seq(Blocks)
    BY <2>1, <2>2
  <2>. QED BY <2>2, <2>3 DEF ToSet
<1>2. TypeOK
  BY <1>1 DEF TypeOK, IsPartial
<1>3. ControlShape
  BY DEF ControlShape
<1>4. Cached = {}
  BY DEF Cached
<1>5. BlockConservation
  BY <1>1, <1>4 DEF BlockConservation
<1>6. RefCountsExact
  <2>1. \A b : Uses(b) = {}
    BY UsesMember
  <2>. QED BY <2>1, FS_EmptySet DEF RefCountsExact
<1>7. LeavesExact
  BY <1>4 DEF LeavesExact, IsInjective, ToSet
<1>8. ChildCountsExact
  <2>1. \A b : Children(b) = {}
    BY <1>4 DEF Children
  <2>. QED BY <1>4, <2>1, FS_EmptySet DEF ChildCountsExact
<1>9. CacheMapSound
  BY DEF CacheMapSound
<1>10. TableShape
  BY DEF TableShape, ShapeOK
<1>11. TailExclusive
  BY DEF TailExclusive, TailOK
<1>. QED BY <1>2, <1>3, <1>5, <1>6, <1>7, <1>8, <1>9, <1>10, <1>11 DEF MemoryInv
-----------------------------------------------------------------------------
(***************************************************************************)
(* Steps that move no block.                                               *)
(***************************************************************************)

\* What MemoryInv says of the pool and the cache depends on these variables.
LEMMA MemoryUnchanged ==
    MemoryInv /\ UNCHANGED <<free_list, ref_count, parent_id, child_count,
                             cacheVars, block_table, releasing, freed>>
        => /\ BlockConservation' /\ RefCountsExact' /\ LeavesExact'
           /\ ChildCountsExact' /\ CacheMapSound'
<1>. SUFFICES ASSUME MemoryInv,
                     UNCHANGED <<free_list, ref_count, parent_id, child_count,
                                 cacheVars, block_table, releasing, freed>>
              PROVE  /\ BlockConservation' /\ RefCountsExact' /\ LeavesExact'
                     /\ ChildCountsExact' /\ CacheMapSound'
  OBVIOUS
<1>. USE DEF MemoryInv, cacheVars
<1>1. Cached' = Cached
  BY DEF Cached
<1>2. \A b : Uses(b)' = Uses(b)
  BY DEF Uses, Entries
<1>3. \A b : Children(b)' = Children(b)
  BY <1>1 DEF Children
<1>4. BlockConservation'
  BY <1>1 DEF BlockConservation
<1>5. RefCountsExact'
  BY <1>2 DEF RefCountsExact
<1>6. LeavesExact'
  BY <1>1 DEF LeavesExact
<1>7. ChildCountsExact'
  BY <1>1, <1>3 DEF ChildCountsExact
<1>8. CacheMapSound'
  BY <1>1 DEF CacheMapSound
<1>. QED BY <1>4, <1>5, <1>6, <1>7, <1>8

\* The sequences' own invariants, when the sequences and the cache stay.
LEMMA SequencesUnchanged ==
    MemoryInv /\ UNCHANGED <<reverse_map, seqVars, releasing, freed, text, sealed>>
        => TableShape' /\ TailExclusive'
<1>. SUFFICES ASSUME MemoryInv,
                     UNCHANGED <<reverse_map, seqVars, releasing, freed, text,
                                 sealed>>
              PROVE  TableShape' /\ TailExclusive'
  OBVIOUS
<1>1. Cached' = Cached
  BY DEF Cached
<1>2. \A b : Uses(b)' = Uses(b)
  BY DEF Uses, Entries, seqVars
<1>3. TableShape'
  BY DEF MemoryInv, TableShape, ShapeOK, seqVars
<1>4. TailExclusive'
  BY <1>1, <1>2 DEF MemoryInv, TailExclusive, TailOK, seqVars
<1>. QED BY <1>3, <1>4

\* A table and the cache grow around a sequence that takes no step.
LEMMA TailFrame ==
    ASSUME NEW t, TailOK(t), block_table[t] \in Seq(Blocks),
           block_table'[t] = block_table[t], token_buffer'[t] = token_buffer[t],
           \A k \in DOMAIN block_table[t] :
               block_table[t][k] \in Cached' <=> block_table[t][k] \in Cached,
           \A b : b = Last(block_table[t]) /\ token_buffer[t] # <<>> =>
               Uses(b)' = Uses(b)
    PROVE  TailOK(t)'
<1>. DEFINE table == block_table[t]
<1>1. \A k \in 1 .. Len(table) - 1 : k \in DOMAIN table
  OBVIOUS
<1>2. table # <<>> => Last(table) = table[Len(table)] /\ Len(table) \in DOMAIN table
  BY EmptySeq DEF Last
<1>. QED BY <1>1, <1>2 DEF TailOK

\* A forward pass starts with its tokens still to be placed.
LEMMA StartForwardStep ==
    ASSUME MemoryInv, NEW batch \in Seq([seq : Seqs, tok : Tokens]),
           StartForward(batch)
    PROVE  MemoryInv'
<1>. USE DEF StartForward, poolVars
<1>1. TypeOK'
  BY DEF MemoryInv, TypeOK, IsPartial, cacheVars, seqVars, ghostVars
<1>2. ControlShape'
  BY DEF MemoryInv, ControlShape, ghostVars
<1>3. /\ BlockConservation' /\ RefCountsExact' /\ LeavesExact'
      /\ ChildCountsExact' /\ CacheMapSound'
  BY MemoryUnchanged DEF seqVars
<1>4. TableShape' /\ TailExclusive'
  BY SequencesUnchanged DEF cacheVars, ghostVars
<1>. QED BY <1>1, <1>2, <1>3, <1>4 DEF MemoryInv

\* The steps of the eviction loop that evict nothing.
LEMMA EvictControlStep ==
    MemoryInv /\ (StartEvict \/ EvictDone \/ OutOfMemory) => MemoryInv'
<1>. SUFFICES ASSUME MemoryInv, StartEvict \/ EvictDone \/ OutOfMemory
              PROVE  MemoryInv'
  OBVIOUS
<1>0. /\ UNCHANGED <<poolVars, kv, cacheVars, seqVars, todo, releasing, freed,
                     ghostVars>>
      /\ pc \in {"append", "evict"}
      /\ pc' \in {"append", "evict", "exit"}
  BY DEF StartEvict, EvictDone, OutOfMemory
<1>1. TypeOK'
  BY <1>0 DEF MemoryInv, TypeOK, IsPartial, poolVars, cacheVars, seqVars, ghostVars
<1>2. ControlShape'
  BY <1>0 DEF MemoryInv, ControlShape, ghostVars
<1>3. /\ BlockConservation' /\ RefCountsExact' /\ LeavesExact'
      /\ ChildCountsExact' /\ CacheMapSound'
  BY <1>0, MemoryUnchanged DEF poolVars, seqVars
<1>4. TableShape' /\ TailExclusive'
  BY <1>0, SequencesUnchanged DEF cacheVars, ghostVars
<1>. QED BY <1>1, <1>2, <1>3, <1>4 DEF MemoryInv

\* The kernels write KV entries and nothing that MemoryInv counts.
LEMMA ComputeStep == MemoryInv /\ Compute => MemoryInv'
<1>. SUFFICES ASSUME MemoryInv, Compute PROVE MemoryInv'
  OBVIOUS
<1>0. /\ UNCHANGED <<poolVars, cacheVars, seqVars, todo, releasing, freed,
                     text, sealed>>
      /\ pc = "append" /\ pc' = "idle"
      /\ kv_len' = logical_token_count
  BY DEF Compute
<1>1. kv' \in [Slots -> Seq(Tokens)]
  <2>. DEFINE fresh == {p \in Seqs \X (1 .. MaxLen) :
                          p[2] > kv_len[p[1]] /\ p[2] <= logical_token_count[p[1]]}
              At(l) == {p \in fresh : Slot(p[1], p[2]) = l}
              Entry(p) == SubSeq(text[p[1]], 1, p[2])
  <2>1. kv' = [l \in Slots |-> IF At(l) = {} THEN kv[l]
                               ELSE LET p == CHOOSE p \in At(l) : TRUE
                                    IN  SubSeq(text[p[1]], 1, p[2])]
    BY DEF Compute
  <2>2. \A p \in fresh : Entry(p) \in Seq(Tokens)
    <3>1. SUFFICES ASSUME NEW p \in fresh PROVE Entry(p) \in Seq(Tokens)
      OBVIOUS
    <3>2. /\ p[1] \in Seqs /\ p[2] \in Int
          /\ p[2] <= Len(text[p[1]])
          /\ text[p[1]] \in Seq(Tokens)
      BY PoolAssumption DEF MemoryInv, TypeOK, TableShape, ShapeOK
    <3>3. \A i \in 1 .. p[2] : text[p[1]][i] \in Tokens
      BY <3>2
    <3>. QED BY <3>2, <3>3, SubSeqProperties
  <2>3. \A l \in Slots : At(l) # {} =>
            SubSeq(text[(CHOOSE p \in At(l) : TRUE)[1]], 1,
                   (CHOOSE p \in At(l) : TRUE)[2]) \in Seq(Tokens)
    BY <2>2
  <2>4. kv \in [Slots -> Seq(Tokens)]
    BY DEF MemoryInv, TypeOK
  <2>. HIDE DEF At, fresh, Entry
  <2>. QED BY <2>1, <2>3, <2>4
<1>2. TypeOK'
  BY <1>0, <1>1 DEF MemoryInv, TypeOK, IsPartial, poolVars, cacheVars, seqVars
<1>3. ControlShape'
  BY <1>0 DEF MemoryInv, ControlShape
<1>4. /\ BlockConservation' /\ RefCountsExact' /\ LeavesExact'
      /\ ChildCountsExact' /\ CacheMapSound'
  BY <1>0, MemoryUnchanged DEF poolVars, seqVars
<1>5. TableShape' /\ TailExclusive'
  BY <1>0, SequencesUnchanged DEF cacheVars
<1>. QED BY <1>2, <1>3, <1>4, <1>5 DEF MemoryInv

\* release() starts with every use of its table still to be dropped.
LEMMA StartReleaseStep ==
    ASSUME MemoryInv, NEW s \in Seqs, StartRelease(s)
    PROVE  MemoryInv'
<1>0. /\ UNCHANGED <<poolVars, kv, cacheVars, seqVars, todo, freed, text, sealed>>
      /\ pc = "idle" /\ pc' = "release"
      /\ releasing = {} /\ releasing' = {s} /\ freed = 0
  BY DEF StartRelease, MemoryInv, ControlShape
<1>1. TypeOK'
  BY <1>0 DEF MemoryInv, TypeOK, IsPartial, poolVars, cacheVars, seqVars,
              StartRelease
<1>2. ControlShape'
  BY <1>0 DEF MemoryInv, ControlShape, TypeOK, seqVars
<1>3. Cached' = Cached
  BY <1>0 DEF Cached, cacheVars
<1>4. \A b : Uses(b)' = Uses(b)
  <2>1. block_table' = block_table /\ Entries' = Entries
    BY <1>0 DEF Entries, seqVars
  <2>2. \A u \in Entries : u[2] > 0
    BY DEF Entries, MemoryInv, TypeOK
  <2>. QED BY <1>0, <2>1, <2>2 DEF Uses
<1>5. \A b : Children(b)' = Children(b)
  BY <1>0, <1>3 DEF Children, poolVars
<1>6. BlockConservation' /\ LeavesExact' /\ CacheMapSound'
  BY <1>0, <1>3 DEF MemoryInv, BlockConservation, LeavesExact, CacheMapSound,
                    poolVars, cacheVars
<1>7. RefCountsExact'
  BY <1>0, <1>4 DEF MemoryInv, RefCountsExact, poolVars
<1>8. ChildCountsExact'
  BY <1>0, <1>3, <1>5 DEF MemoryInv, ChildCountsExact, poolVars
<1>9. TableShape'
  BY <1>0 DEF MemoryInv, TableShape, ShapeOK, seqVars
<1>10. TailExclusive'
  BY <1>0, <1>3, <1>4 DEF MemoryInv, TailExclusive, TailOK, seqVars
<1>. QED BY <1>1, <1>2, <1>6, <1>7, <1>8, <1>9, <1>10 DEF MemoryInv

-----------------------------------------------------------------------------
(***************************************************************************)
(* The steps of allocate_next_token.                                       *)
(***************************************************************************)

\* The sequence whose token is in front of a forward pass.
LEMMA FrontToken ==
    ASSUME MemoryInv, pc = "append", todo # <<>>
    PROVE  /\ todo[1].seq \in Seqs /\ todo[1].tok \in Tokens
           /\ todo[1].seq \notin sealed /\ releasing = {} /\ freed = 0
           /\ Tail(todo) \in Seq([seq : Seqs, tok : Tokens])
           /\ \A i \in DOMAIN Tail(todo) : Tail(todo)[i].seq \notin sealed
<1>. DEFINE S == [seq : Seqs, tok : Tokens]
<1>1. todo \in Seq(S)
  BY DEF MemoryInv, TypeOK
<1>. HIDE DEF S
<1>2. /\ todo[1] \in S
      /\ Tail(todo) \in Seq(S)
      /\ \A i \in DOMAIN Tail(todo) :
             i + 1 \in DOMAIN todo /\ Tail(todo)[i] = todo[i + 1]
  BY <1>1, TailMember
<1>3. 1 \in DOMAIN todo
  BY <1>1, EmptySeq
<1>4. releasing = {} /\ freed = 0 /\ \A i \in DOMAIN todo : todo[i].seq \notin sealed
  BY DEF MemoryInv, ControlShape
<1>5. todo[1].seq \in Seqs /\ todo[1].tok \in Tokens
  BY <1>2 DEF S
<1>. QED BY <1>2, <1>3, <1>4, <1>5 DEF S

\* What recording a token does to its sequence, and to no other.
LEMMA RecordTokenEffect ==
    ASSUME TypeOK, NEW s \in Seqs, NEW tok \in Tokens, RecordToken(s, tok)
    PROVE  /\ token_buffer' \in [Seqs -> Seq(Tokens)]
           /\ logical_token_count' \in [Seqs -> Nat]
           /\ text' \in [Seqs -> Seq(Tokens)]
           /\ token_buffer'[s] # <<>>
           /\ Len(token_buffer'[s]) = Len(token_buffer[s]) + 1
           /\ logical_token_count'[s] = logical_token_count[s] + 1
           /\ Len(text'[s]) = Len(text[s]) + 1
           /\ \A t \in Seqs \ {s} :
                  /\ token_buffer'[t] = token_buffer[t]
                  /\ logical_token_count'[t] = logical_token_count[t]
                  /\ text'[t] = text[t]
<1>1. /\ token_buffer' = [token_buffer EXCEPT ![s] = Append(@, tok)]
      /\ logical_token_count' = [logical_token_count EXCEPT ![s] = @ + 1]
      /\ text' = [text EXCEPT ![s] = Append(@, tok)]
  BY DEF RecordToken
<1>2. /\ token_buffer \in [Seqs -> Seq(Tokens)]
      /\ logical_token_count \in [Seqs -> Nat]
      /\ text \in [Seqs -> Seq(Tokens)]
  BY DEF TypeOK
<1>3. \A q \in Seq(Tokens) : /\ Append(q, tok) \in Seq(Tokens)
                             /\ Append(q, tok) # <<>>
                             /\ Len(Append(q, tok)) = Len(q) + 1
  BY AppendProperties
<1>. QED BY <1>1, <1>2, <1>3

\* A token in the middle of a block.
LEMMA PlaceTokenStep == MemoryInv /\ PlaceToken => MemoryInv'
<1>. SUFFICES ASSUME MemoryInv, PlaceToken PROVE MemoryInv'
  OBVIOUS
<1>. DEFINE s == todo[1].seq
            tok == todo[1].tok
<1>1. /\ s \in Seqs /\ tok \in Tokens
      /\ s \notin sealed /\ releasing = {}
      /\ pc = "append" /\ pc' = pc
      /\ Tail(todo) \in Seq([seq : Seqs, tok : Tokens])
      /\ \A i \in DOMAIN Tail(todo) : Tail(todo)[i].seq \notin sealed
  BY FrontToken DEF PlaceToken
<1>2. /\ RecordToken(s, tok)
      /\ todo' = Tail(todo)
      /\ num_tokens' = [num_tokens EXCEPT ![Last(block_table[s])] = @ + 1]
      /\ Len(token_buffer[s]) # BlockSize
      /\ logical_token_count[s] % BlockSize # 0
      /\ UNCHANGED <<free_list, ref_count, parent_id, child_count, kv,
                     cacheVars, block_table, current_hash, releasing, freed,
                     kv_len, sealed>>
  BY DEF PlaceToken, RecordToken
<1>. HIDE DEF s, tok
<1>3. /\ token_buffer' \in [Seqs -> Seq(Tokens)]
      /\ logical_token_count' \in [Seqs -> Nat]
      /\ text' \in [Seqs -> Seq(Tokens)]
      /\ token_buffer'[s] # <<>>
      /\ Len(token_buffer'[s]) = Len(token_buffer[s]) + 1
      /\ logical_token_count'[s] = logical_token_count[s] + 1
      /\ Len(text'[s]) = Len(text[s]) + 1
      /\ \A t \in Seqs \ {s} : /\ token_buffer'[t] = token_buffer[t]
                               /\ logical_token_count'[t] = logical_token_count[t]
                               /\ text'[t] = text[t]
  BY <1>1, <1>2, RecordTokenEffect DEF MemoryInv
<1>4. ControlShape'
  BY <1>1, <1>2 DEF MemoryInv, ControlShape
<1>5. /\ BlockConservation' /\ RefCountsExact' /\ LeavesExact'
      /\ ChildCountsExact' /\ CacheMapSound'
  BY <1>2, MemoryUnchanged
<1>. DEFINE n == Len(block_table[s])
            full == BlockSize * (n - 1)
<1>6. /\ Len(token_buffer[s]) \in 1 .. BlockSize - 1
      /\ block_table[s] # <<>>
      /\ logical_token_count[s] = full + Len(token_buffer[s])
      /\ full \in Int
  <2>1. /\ BlockSize \in Nat \ {0} /\ n \in Nat
        /\ Len(token_buffer[s]) \in Nat
    BY <1>1, PoolAssumption DEF MemoryInv, TypeOK
  <2>2. logical_token_count[s] # BlockSize * n
    <3>1. n \in Int /\ 0 \in 0 .. BlockSize - 1
      BY <2>1
    <3>2. (BlockSize * n + 0) % BlockSize = 0
      BY <2>1, <3>1, Remainder
    <3>3. BlockSize * n + 0 = BlockSize * n
      BY <2>1
    <3>. QED BY <1>2, <3>2, <3>3
  <2>3. \/ logical_token_count[s] = BlockSize * n
        \/ /\ Len(token_buffer[s]) \in 1 .. BlockSize
           /\ block_table[s] # <<>>
           /\ logical_token_count[s] = full + Len(token_buffer[s])
    BY <1>1 DEF MemoryInv, TableShape, ShapeOK
  <2>4. full \in Int
    BY <2>1
  <2>5. /\ Len(token_buffer[s]) \in 1 .. BlockSize
        /\ block_table[s] # <<>>
        /\ logical_token_count[s] = full + Len(token_buffer[s])
    BY <2>2, <2>3
  <2>. HIDE DEF full, n
  <2>6. Len(token_buffer[s]) \in 1 .. BlockSize - 1
    BY <1>2, <2>1, <2>5
  <2>. QED BY <2>4, <2>5, <2>6
<1>. HIDE DEF full
<1>7. TypeOK'
  <2>1. Last(block_table[s]) \in Blocks
    BY <1>1, <1>6, FrontMember DEF MemoryInv, TypeOK
  <2>2. num_tokens' \in [Blocks -> Nat]
    BY <1>2, <2>1 DEF MemoryInv, TypeOK
  <2>. QED BY <1>1, <1>2, <1>3, <2>2 DEF MemoryInv, TypeOK, IsPartial, cacheVars
<1>8. TableShape'
  <2>1. /\ Len(token_buffer'[s]) \in 1 .. BlockSize
        /\ logical_token_count'[s] = full + Len(token_buffer'[s])
    <3>1. BlockSize \in Nat
      BY PoolAssumption
    <3>. QED BY <1>3, <1>6, <3>1
  <2>2. /\ block_table'[s] # <<>>
        /\ logical_token_count'[s] =
               BlockSize * (Len(block_table'[s]) - 1) + Len(token_buffer'[s])
    BY <1>2, <1>6, <2>1 DEF full
  <2>3. \A t \in Seqs \ releasing' : t # s => ShapeOK(t)'
    BY <1>2, <1>3 DEF MemoryInv, TableShape, ShapeOK
  <2>4. \A t \in Seqs : Len(text'[t]) = logical_token_count'[t]
    BY <1>3 DEF MemoryInv, TableShape, ShapeOK
  <2>. QED BY <2>1, <2>2, <2>3, <2>4 DEF TableShape, ShapeOK
<1>9. TailExclusive'
  <2>1. Cached' = Cached
    BY <1>2 DEF Cached, cacheVars
  <2>2. \A b : Uses(b)' = Uses(b)
    BY <1>2 DEF Uses, Entries
  <2>3. token_buffer[s] # <<>>
    BY <1>6 DEF MemoryInv, TypeOK
  <2>. QED BY <1>1, <1>2, <1>3, <2>1, <2>2, <2>3 DEF MemoryInv, TailExclusive, TailOK
<1>. QED BY <1>4, <1>5, <1>7, <1>8, <1>9 DEF MemoryInv

-----------------------------------------------------------------------------
(***************************************************************************)
(* Publishing a block.                                                     *)
(***************************************************************************)

\* insert_cache keeps the counters, the LRU list and the two maps exact.
LEMMA InsertCacheStep ==
    ASSUME MemoryInv, NEW s \in Seqs, s \notin releasing \cup sealed,
           Len(token_buffer[s]) = BlockSize,
           InsertCache(s), UNCHANGED <<releasing, freed>>
    PROVE  /\ /\ parent_id' \in [Blocks -> Blocks \cup {NoBlock}]
              /\ child_count' \in [Blocks -> Nat]
              /\ IsPartial(cache_map', Hashes, Blocks)
              /\ IsPartial(reverse_map', Blocks, Hashes)
              /\ evictable_leaves' \in Seq(Blocks)
              /\ current_hash' \in [Seqs -> Hashes]
           /\ BlockConservation' /\ RefCountsExact' /\ LeavesExact'
           /\ ChildCountsExact' /\ CacheMapSound'
           /\ Cached' = Cached \cup {Last(block_table[s])}
           /\ \A b : Uses(b)' = Uses(b)
           /\ Uses(Last(block_table[s])) = {<<s, Len(block_table[s])>>}
<1>. DEFINE table  == block_table[s]
            b      == Last(table)
            parent == IF Len(table) > 1 THEN table[Len(table) - 1] ELSE NoBlock
            hash   == hash_block_state(current_hash[s], token_buffer[s])
            cached == Cached \cup {b}
            childs == Bump([child_count EXCEPT ![b] = 0], parent, 1)
            leaves == EvaluateEvictability(evictable_leaves, parent,
                                           cached, ref_count, childs)
<1>1. /\ cache_map' = Put(cache_map, hash, b)
      /\ reverse_map' = Put(reverse_map, b, hash)
      /\ parent_id' = [parent_id EXCEPT ![b] = parent]
      /\ child_count' = childs
      /\ evictable_leaves' = EvaluateEvictability(leaves, b, cached,
                                                  ref_count, childs)
      /\ current_hash' = [current_hash EXCEPT ![s] = hash]
      /\ UNCHANGED <<free_list, ref_count, num_tokens, kv, block_table,
                     logical_token_count, text, kv_len>>
  BY DEF InsertCache
<1>2. TypeOK /\ BlockConservation /\ RefCountsExact /\ LeavesExact
      /\ ChildCountsExact /\ CacheMapSound /\ TableShape /\ TailExclusive
  BY DEF MemoryInv
<1>3. BlockSize \in Nat \ {0} /\ NoBlock \notin Blocks /\ IsFiniteSet(Blocks)
  BY PoolAssumption
<1>4. token_buffer[s] # <<>> /\ token_buffer[s] \in Chunks
  BY <1>2, <1>3 DEF TypeOK, Chunks
<1>5. /\ table \in Seq(Blocks) /\ table # <<>>
      /\ Len(table) \in Nat \ {0} /\ DOMAIN table = 1 .. Len(table)
  BY <1>2, <1>4 DEF TypeOK, TableShape, ShapeOK
<1>6. /\ b \in Blocks /\ b \notin Cached /\ Uses(b) = {<<s, Len(table)>>}
  BY <1>2, <1>4, <1>5 DEF TailExclusive, TailOK, Last
<1>7. ref_count[b] = 1
  BY <1>2, <1>6, FS_Singleton DEF RefCountsExact
<1>8. Cached \subseteq Blocks /\ cached \subseteq Blocks
  BY <1>2, <1>6 DEF TypeOK, IsPartial, Cached
<1>9. parent # NoBlock => /\ parent \in Cached /\ parent \in Blocks
                          /\ ref_count[parent] # 0
  <2>1. SUFFICES ASSUME Len(table) > 1
                 PROVE  /\ parent \in Cached
                        /\ ref_count[parent] # 0
    BY <1>8
  <2>2. parent = table[Len(table) - 1] /\ Len(table) - 1 \in 1 .. Len(table) - 1
    BY <1>5, <2>1
  <2>3. parent \in Cached
    BY <1>2, <2>2 DEF TailExclusive, TailOK
  <2>4. <<s, Len(table) - 1>> \in Uses(parent)
    BY <1>5, <2>2, UsesMember
  <2>. HIDE DEF parent
  <2>5. ref_count[parent] # 0
    BY <1>2, <1>8, <2>3, <2>4, FS_EmptySet DEF RefCountsExact
  <2>. QED BY <2>3, <2>5
<1>10. hash \in Hashes
  BY <1>2, <1>4, HashAssumption DEF TypeOK
<1>. HIDE DEF b, parent, hash, table
<1>11. parent # b
  BY <1>3, <1>6, <1>9
<1>12. Cached' = cached
  BY <1>1 DEF Cached, Put
<1>13. \A c : Uses(c)' = Uses(c)
  BY <1>1 DEF Uses, Entries
<1>14. /\ parent_id' \in [Blocks -> Blocks \cup {NoBlock}]
       /\ parent_id'[b] = parent
       /\ \A c \in Blocks \ {b} : parent_id'[c] = parent_id[c]
  <2>1. parent \in Blocks \cup {NoBlock}
    BY <1>9
  <2>. QED BY <1>1, <1>2, <1>6, <2>1 DEF TypeOK
<1>15. /\ child_count' \in [Blocks -> Nat]
       /\ child_count'[b] = 0
       /\ \A c \in Blocks \ {b} :
              child_count'[c] = IF c = parent THEN child_count[c] + 1
                                              ELSE child_count[c]
  BY <1>1, <1>2, <1>6, <1>11 DEF TypeOK, Bump
<1>16. /\ IsPartial(cache_map', Hashes, Blocks)
       /\ IsPartial(reverse_map', Blocks, Hashes)
  BY <1>1, <1>2, <1>6, <1>10 DEF TypeOK, IsPartial, Put
<1>17. current_hash' \in [Seqs -> Hashes]
  BY <1>1, <1>2, <1>10 DEF TypeOK
<1>18. ToSet(evictable_leaves) \subseteq Cached
  BY <1>2 DEF LeavesExact
<1>19. /\ leaves \in Seq(Blocks) /\ IsInjective(leaves)
       /\ ToSet(leaves) = ToSet(evictable_leaves)
  <2>1. /\ evictable_leaves \in Seq(Blocks) /\ IsInjective(evictable_leaves)
    BY <1>2 DEF TypeOK, LeavesExact
  <2>2. parent \in ToSet(evictable_leaves) => ref_count[parent] = 0
    BY <1>2 DEF LeavesExact
  <2>3. /\ leaves \in Seq(Blocks) /\ IsInjective(leaves)
        /\ parent \notin cached => ToSet(leaves) = ToSet(evictable_leaves)
        /\ parent \in cached /\ ref_count[parent] # 0 =>
               ToSet(leaves) = ToSet(evictable_leaves) \ {parent}
    <3>1. cached \in SUBSET Blocks
      BY <1>8
    <3>. HIDE DEF cached, childs
    <3>. QED BY <2>1, <3>1, EvaluateMember
  <2>4. parent \in cached => ref_count[parent] # 0
    BY <1>3, <1>8, <1>9
  <2>. QED BY <2>2, <2>3, <2>4
<1>20. /\ evictable_leaves' \in Seq(Blocks) /\ IsInjective(evictable_leaves')
       /\ ToSet(evictable_leaves') = ToSet(evictable_leaves)
  <2>. HIDE DEF leaves, childs, cached
  <2>1. /\ evictable_leaves' \in Seq(Blocks) /\ IsInjective(evictable_leaves')
        /\ b \in cached /\ ref_count[b] # 0 =>
               ToSet(evictable_leaves') = ToSet(leaves) \ {b}
    <3>1. /\ evictable_leaves' = EvaluateEvictability(leaves, b, cached,
                                                     ref_count, childs)
          /\ cached \in SUBSET Blocks
      BY <1>1, <1>8 DEF leaves, childs, cached
    <3>. QED BY <1>19, <3>1, EvaluateMember
  <2>2. b \in cached /\ ref_count[b] # 0
    BY <1>6, <1>7 DEF cached
  <2>3. b \notin ToSet(leaves)
    BY <1>6, <1>18, <1>19
  <2>. QED BY <1>19, <2>1, <2>2, <2>3
<1>21. LeavesExact'
  <2>1. \A c \in Cached \ {parent} : child_count'[c] = child_count[c]
    BY <1>6, <1>8, <1>15
  <2>2. ToSet(evictable_leaves) =
            {c \in Cached : ref_count[c] = 0 /\ child_count[c] = 0}
    BY <1>2 DEF LeavesExact
  <2>3. \A c \in cached : ref_count[c] = 0 => c # b /\ c # parent
    BY <1>3, <1>7, <1>8, <1>9
  <2>4. {c \in cached : ref_count[c] = 0 /\ child_count'[c] = 0} =
        {c \in Cached : ref_count[c] = 0 /\ child_count[c] = 0}
    BY <2>1, <2>3
  <2>. QED BY <1>1, <1>12, <1>20, <2>2, <2>4 DEF LeavesExact
<1>22. BlockConservation'
  BY <1>1, <1>2, <1>7, <1>12 DEF BlockConservation
<1>23. RefCountsExact'
  BY <1>1, <1>2, <1>13 DEF RefCountsExact
<1>24. ChildCountsExact'
  <2>1. \A c \in Blocks : Children(c)' = IF c = parent THEN Children(c) \cup {b}
                                                       ELSE Children(c)
    BY <1>6, <1>8, <1>12, <1>14 DEF Children
  <2>2. \A c \in Blocks : IsFiniteSet(Children(c))
    <3>1. \A c \in Blocks : Children(c) \in SUBSET Blocks
      BY <1>8 DEF Children
    <3>. QED BY <1>3, <3>1, FS_Subset
  <2>3. \A c \in Blocks : b \notin Children(c)
    BY <1>6 DEF Children
  <2>4. Children(b) = {}
    BY <1>2, <1>3, <1>6 DEF ChildCountsExact, Children
  <2>5. \A c \in Blocks : child_count'[c] = Cardinality(Children(c)')
    <3>1. TAKE c \in Blocks
    <3>2. CASE c = b
      BY <1>11, <1>15, <2>1, <2>4, <3>2, FS_EmptySet
    <3>3. CASE c = parent
      <4>1. Cardinality(Children(c) \cup {b}) = Cardinality(Children(c)) + 1
        BY <2>2, <2>3, FS_AddElement
      <4>. QED BY <1>2, <1>11, <1>15, <2>1, <3>3, <4>1 DEF ChildCountsExact
    <3>4. CASE c # b /\ c # parent
      BY <1>2, <1>15, <2>1, <3>4 DEF ChildCountsExact
    <3>. QED BY <3>2, <3>3, <3>4
  <2>6. \A c \in Cached' : parent_id'[c] # NoBlock => parent_id'[c] \in Cached'
    BY <1>2, <1>8, <1>9, <1>12, <1>14 DEF ChildCountsExact
  <2>. QED BY <2>5, <2>6 DEF ChildCountsExact
<1>25. CacheMapSound'
  <2>1. SUFFICES ASSUME NEW h \in DOMAIN cache_map'
                 PROVE  cache_map'[h] \in Cached' /\ reverse_map'[cache_map'[h]] = h
    BY DEF CacheMapSound
  <2>2. CASE h = hash
    BY <1>1, <1>12, <2>2 DEF Put
  <2>3. CASE h # hash
    <3>1. h \in DOMAIN cache_map /\ cache_map'[h] = cache_map[h]
      BY <1>1, <2>1, <2>3 DEF Put
    <3>2. cache_map[h] \in Cached /\ reverse_map[cache_map[h]] = h
      BY <1>2, <3>1 DEF CacheMapSound
    <3>. QED BY <1>1, <1>6, <1>12, <3>1, <3>2 DEF Put, Cached
  <2>. QED BY <2>2, <2>3
<1>. QED BY <1>6, <1>12, <1>13, <1>14, <1>15, <1>16, <1>17, <1>20, <1>21,
            <1>22, <1>23, <1>24, <1>25 DEF b, table

\* The published block is at the back of no other sequence's table.
LEMMA PublishedTail ==
    ASSUME MemoryInv, NEW s \in Seqs, s \notin releasing \cup sealed,
           Len(token_buffer[s]) = BlockSize,
           InsertCache(s), UNCHANGED <<releasing, freed>>,
           NEW t \in Seqs \ (releasing \cup sealed), t # s,
           token_buffer'[t] = token_buffer[t]
    PROVE  TailOK(t)'
<1>. DEFINE b == Last(block_table[s])
<1>1. /\ Cached' = Cached \cup {b}
      /\ \A c : Uses(c)' = Uses(c)
      /\ Uses(b) = {<<s, Len(block_table[s])>>}
  BY InsertCacheStep
<1>2. block_table[t] \in Seq(Blocks) /\ block_table' = block_table /\ TailOK(t)
  BY DEF MemoryInv, TypeOK, TailExclusive, InsertCache
<1>3. \A k \in DOMAIN block_table[t] : block_table[t][k] # b
  <2>1. SUFFICES ASSUME NEW k \in DOMAIN block_table[t], block_table[t][k] = b
                 PROVE  FALSE
    OBVIOUS
  <2>2. <<t, k>> \in Uses(b)
    BY <2>1, UsesMember
  <2>. QED BY <1>1, <2>2
<1>. HIDE DEF b
<1>. QED BY <1>1, <1>2, <1>3, TailFrame

\* allocate_next_token publishes the block that the previous token filled.
LEMMA CommitBlockStep == MemoryInv /\ CommitBlock => MemoryInv'
<1>. SUFFICES ASSUME MemoryInv, CommitBlock PROVE MemoryInv'
  OBVIOUS
<1>1. /\ pc = "append" /\ todo # <<>>
      /\ UNCHANGED <<pc, todo, releasing, freed, sealed>>
  BY DEF CommitBlock, ctlVars
<1>2. PICK s \in Seqs :
          /\ s \notin sealed /\ releasing = {} /\ freed = 0
          /\ Len(token_buffer[s]) = BlockSize
          /\ InsertCache(s)
          /\ token_buffer' = [token_buffer EXCEPT ![s] = <<>>]
  BY <1>1, FrontToken DEF CommitBlock
<1>. DEFINE table == block_table[s]
            b == Last(table)
<1>3. UNCHANGED <<free_list, ref_count, num_tokens, kv, block_table,
                  logical_token_count, text, kv_len>>
  BY <1>2 DEF InsertCache
<1>4. /\ parent_id' \in [Blocks -> Blocks \cup {NoBlock}]
      /\ child_count' \in [Blocks -> Nat]
      /\ IsPartial(cache_map', Hashes, Blocks)
      /\ IsPartial(reverse_map', Blocks, Hashes)
      /\ evictable_leaves' \in Seq(Blocks)
      /\ current_hash' \in [Seqs -> Hashes]
      /\ BlockConservation' /\ RefCountsExact' /\ LeavesExact'
      /\ ChildCountsExact' /\ CacheMapSound'
      /\ Cached' = Cached \cup {b}
  BY <1>1, <1>2, InsertCacheStep
<1>5. /\ token_buffer' \in [Seqs -> Seq(Tokens)]
      /\ token_buffer'[s] = <<>>
      /\ \A t \in Seqs \ {s} : token_buffer'[t] = token_buffer[t]
  BY <1>2 DEF MemoryInv, TypeOK
<1>6. TypeOK'
  BY <1>1, <1>3, <1>4, <1>5 DEF MemoryInv, TypeOK
<1>7. ControlShape'
  BY <1>1 DEF MemoryInv, ControlShape
<1>8. /\ BlockSize \in Nat \ {0} /\ Len(table) \in Nat
      /\ table \in Seq(Blocks) /\ table # <<>>
      /\ logical_token_count[s] = BlockSize * (Len(table) - 1) + BlockSize
  <2>1. BlockSize \in Nat \ {0} /\ token_buffer[s] # <<>> /\ table \in Seq(Blocks)
    BY <1>2, PoolAssumption DEF MemoryInv, TypeOK
  <2>2. ShapeOK(s)
    BY <1>2 DEF MemoryInv, TableShape
  <2>. QED BY <1>2, <2>1, <2>2 DEF ShapeOK
<1>9. TableShape'
  <2>1. logical_token_count'[s] = BlockSize * Len(block_table'[s])
    BY <1>3, <1>8
  <2>2. ShapeOK(s)'
    BY <1>5, <2>1 DEF ShapeOK
  <2>3. \A t \in Seqs \ {s} : ShapeOK(t)'
    BY <1>2, <1>3, <1>5 DEF MemoryInv, TableShape, ShapeOK
  <2>. QED BY <1>3, <2>2, <2>3 DEF MemoryInv, TableShape
<1>10. TailExclusive'
  <2>1. TailOK(s)'
    <3>1. TailOK(s)
      BY <1>2 DEF MemoryInv, TailExclusive
    <3>. QED BY <1>3, <1>4, <1>5, <3>1 DEF TailOK
  <2>2. \A t \in Seqs \ sealed : t # s => TailOK(t)'
    BY <1>1, <1>2, <1>5, PublishedTail
  <2>. QED BY <1>1, <1>2, <2>1, <2>2 DEF TailExclusive
<1>. QED BY <1>4, <1>6, <1>7, <1>9, <1>10 DEF MemoryInv

\* flush_cache publishes a full last block and seals its sequence.
LEMMA FlushCacheStep ==
    ASSUME MemoryInv, NEW s \in Seqs, FlushCache(s)
    PROVE  MemoryInv'
<1>1. /\ pc = "idle" /\ s \notin sealed /\ releasing = {} /\ freed = 0
      /\ sealed' = sealed \cup {s}
      /\ UNCHANGED <<token_buffer, pc, todo, releasing, freed>>
  BY DEF FlushCache, ctlVars, MemoryInv, ControlShape
<1>2. ControlShape'
  BY <1>1 DEF MemoryInv, ControlShape
<1>3. CASE Len(token_buffer[s]) = BlockSize
  <2>1. InsertCache(s)
    BY <1>3 DEF FlushCache
  <2>2. UNCHANGED <<free_list, ref_count, num_tokens, kv, block_table,
                    logical_token_count, text, kv_len>>
    BY <2>1 DEF InsertCache
  <2>3. /\ parent_id' \in [Blocks -> Blocks \cup {NoBlock}]
        /\ child_count' \in [Blocks -> Nat]
        /\ IsPartial(cache_map', Hashes, Blocks)
        /\ IsPartial(reverse_map', Blocks, Hashes)
        /\ evictable_leaves' \in Seq(Blocks)
        /\ current_hash' \in [Seqs -> Hashes]
        /\ BlockConservation' /\ RefCountsExact' /\ LeavesExact'
        /\ ChildCountsExact' /\ CacheMapSound'
    BY <1>1, <1>3, <2>1, InsertCacheStep
  <2>4. TypeOK'
    BY <1>1, <2>2, <2>3 DEF MemoryInv, TypeOK
  <2>5. TableShape'
    BY <1>1, <2>2 DEF MemoryInv, TableShape, ShapeOK
  <2>6. TailExclusive'
    <3>1. \A t \in Seqs \ sealed : t # s => TailOK(t)'
      BY <1>1, <1>3, <2>1, PublishedTail
    <3>. QED BY <1>1, <3>1 DEF TailExclusive
  <2>. QED BY <1>2, <2>3, <2>4, <2>5, <2>6 DEF MemoryInv
<1>4. CASE Len(token_buffer[s]) # BlockSize
  <2>1. UNCHANGED <<poolVars, kv, cacheVars, block_table, logical_token_count,
                    current_hash, text, kv_len>>
    BY <1>4 DEF FlushCache
  <2>2. TypeOK'
    BY <1>1, <2>1 DEF MemoryInv, TypeOK, IsPartial, poolVars, cacheVars
  <2>3. /\ BlockConservation' /\ RefCountsExact' /\ LeavesExact'
        /\ ChildCountsExact' /\ CacheMapSound'
    BY <1>1, <2>1, MemoryUnchanged DEF poolVars
  <2>4. TableShape'
    BY <1>1, <2>1 DEF MemoryInv, TableShape, ShapeOK
  <2>5. TailExclusive'
    <3>1. Cached' = Cached /\ \A c : Uses(c)' = Uses(c)
      BY <1>1, <2>1 DEF Cached, cacheVars, Uses, Entries
    <3>2. \A t \in Seqs \ sealed : TailOK(t)'
      BY <1>1, <2>1, <3>1 DEF MemoryInv, TailExclusive, TailOK
    <3>. QED BY <1>1, <3>2 DEF TailExclusive
  <2>. QED BY <1>2, <2>2, <2>3, <2>4, <2>5 DEF MemoryInv
<1>. QED BY <1>3, <1>4-----------------------------------------------------------------------------
(***************************************************************************)
(* A block joins a table.                                                  *)
(***************************************************************************)

\* The block at the new back of a table has one more use; no other has.
LEMMA UsesAppend ==
    ASSUME TypeOK, NEW s \in Seqs, s \notin releasing, NEW id \in Blocks,
           block_table' = [block_table EXCEPT ![s] = Append(@, id)],
           UNCHANGED <<releasing, freed>>
    PROVE  /\ Uses(id)' = Uses(id) \cup {<<s, Len(block_table[s]) + 1>>}
           /\ <<s, Len(block_table[s]) + 1>> \notin Uses(id)
           /\ \A c : c # id => Uses(c)' = Uses(c)
<1>. DEFINE n == Len(block_table[s])
<1>1. /\ block_table[s] \in Seq(Blocks) /\ n \in Nat
      /\ DOMAIN block_table[s] = 1 .. n
      /\ DOMAIN block_table'[s] = 1 .. n + 1
      /\ block_table'[s][n + 1] = id
      /\ \A k \in 1 .. n : block_table'[s][k] = block_table[s][k]
      /\ \A t \in Seqs \ {s} : block_table'[t] = block_table[t]
  <2>1. block_table[s] \in Seq(Blocks) /\ block_table \in [Seqs -> Seq(Blocks)]
    BY DEF TypeOK
  <2>2. block_table'[s] = Append(block_table[s], id)
    BY <2>1
  <2>. QED BY <2>1, <2>2, AppendProperties
<1>2. \A b : \A u : u \in Uses(b)' <=>
          \E t \in Seqs : \E k \in DOMAIN block_table'[t] :
              /\ u = <<t, k>>
              /\ block_table'[t][k] = b
              /\ t \in releasing => k > freed
  BY DEF Uses, Entries
<1>. HIDE DEF n
<1>3. /\ n + 1 \in 1 .. n + 1 /\ n + 1 \notin 1 .. n
      /\ \A k \in 1 .. n : k \in 1 .. n + 1
      /\ \A k \in 1 .. n + 1 : k # n + 1 => k \in 1 .. n
  BY <1>1
<1>4. <<s, n + 1>> \notin Uses(id)
  BY <1>1, <1>3, UsesMember
<1>5. \A b : \A u : u \in Uses(b) => u \in Uses(b)'
  <2>1. SUFFICES ASSUME NEW b, NEW u, u \in Uses(b) PROVE u \in Uses(b)'
    OBVIOUS
  <2>2. PICK t \in Seqs : \E k \in DOMAIN block_table[t] :
            /\ u = <<t, k>> /\ block_table[t][k] = b
            /\ t \in releasing => k > freed
    BY <2>1, UsesMember
  <2>. PICK k \in DOMAIN block_table[t] :
            /\ u = <<t, k>> /\ block_table[t][k] = b
            /\ t \in releasing => k > freed
    BY <2>2
  <2>3. k \in DOMAIN block_table'[t] /\ block_table'[t][k] = b
    BY <1>1, <1>3, <2>2
  <2>. QED BY <1>2, <2>2, <2>3
<1>6. \A b : \A u : u \in Uses(b)' =>
          u \in Uses(b) \/ (b = id /\ u = <<s, n + 1>>)
  <2>1. SUFFICES ASSUME NEW b, NEW u, u \in Uses(b)'
                 PROVE  u \in Uses(b) \/ (b = id /\ u = <<s, n + 1>>)
    OBVIOUS
  <2>2. PICK t \in Seqs : \E k \in DOMAIN block_table'[t] :
            /\ u = <<t, k>> /\ block_table'[t][k] = b
            /\ t \in releasing => k > freed
    BY <1>2, <2>1
  <2>. PICK k \in DOMAIN block_table'[t] :
            /\ u = <<t, k>> /\ block_table'[t][k] = b
            /\ t \in releasing => k > freed
    BY <2>2
  <2>3. CASE t = s /\ k = n + 1
    BY <1>1, <2>2, <2>3
  <2>4. CASE ~(t = s /\ k = n + 1)
    <3>1. k \in DOMAIN block_table[t] /\ block_table[t][k] = b
      BY <1>1, <1>3, <2>2, <2>4
    <3>. QED BY <2>2, <3>1, UsesMember
  <2>. QED BY <2>3, <2>4
<1>7. <<s, n + 1>> \in Uses(id)'
  <2>1. n + 1 \in DOMAIN block_table'[s] /\ block_table'[s][n + 1] = id
    BY <1>1, <1>3
  <2>2. PICK k \in DOMAIN block_table'[s] : k = n + 1 /\ block_table'[s][k] = id
    BY <2>1
  <2>3. <<s, k>> \in Uses(id)'
    BY <1>2, <2>2
  <2>. QED BY <2>2, <2>3
<1>8. Uses(id)' = Uses(id) \cup {<<s, n + 1>>}
  <2>1. \A u : u \in Uses(id)' <=> u \in Uses(id) \cup {<<s, n + 1>>}
    BY <1>5, <1>6, <1>7
  <2>. QED BY <2>1
<1>9. \A c : c # id => Uses(c)' = Uses(c)
  <2>1. SUFFICES ASSUME NEW c, c # id PROVE Uses(c)' = Uses(c)
    OBVIOUS
  <2>2. Uses(c)' \subseteq Uses(c)
    BY <1>6, <2>1
  <2>3. Uses(c) \subseteq Uses(c)'
    BY <1>5
  <2>. QED BY <2>2, <2>3
<1>. QED BY <1>4, <1>8, <1>9 DEF n

\* A fresh block from the free list.
LEMMA OpenBlockStep == MemoryInv /\ OpenBlock => MemoryInv'
<1>. SUFFICES ASSUME MemoryInv, OpenBlock PROVE MemoryInv'
  OBVIOUS
<1>1. PICK s \in Seqs, tok \in Tokens :
          /\ s \notin sealed
          /\ Len(token_buffer[s]) # BlockSize
          /\ logical_token_count[s] % BlockSize = 0
          /\ block_table' = [block_table EXCEPT ![s] = Append(@, Last(free_list))]
          /\ RecordToken(s, tok)
  BY FrontToken DEF OpenBlock, NeedsBlock
<1>2. PICK id \in Blocks :
          /\ id = Last(free_list)
          /\ id \in ToSet(free_list)
          /\ free_list' \in Seq(Blocks)
          /\ IsInjective(free_list')
          /\ ToSet(free_list') = ToSet(free_list) \ {id}
  <2>1. free_list \in Seq(Blocks) /\ free_list # <<>> /\ IsInjective(free_list)
        /\ free_list' = Front(free_list)
    BY DEF OpenBlock, MemoryInv, TypeOK, BlockConservation
  <2>. QED BY <2>1, FrontMember
<1>3. /\ ref_count' = [ref_count EXCEPT ![id] = 1]
      /\ num_tokens' = [num_tokens EXCEPT ![id] = 1]
      /\ parent_id' = [parent_id EXCEPT ![id] = NoBlock]
      /\ child_count' = [child_count EXCEPT ![id] = 0]
      /\ block_table' = [block_table EXCEPT ![s] = Append(@, id)]
      /\ UNCHANGED <<kv, cacheVars, current_hash, pc, releasing, freed, kv_len,
                     sealed>>
      /\ pc = "append" /\ releasing = {} /\ freed = 0
      /\ todo' \in Seq([seq : Seqs, tok : Tokens])
      /\ \A i \in DOMAIN todo' : todo'[i].seq \notin sealed
  BY <1>1, <1>2, FrontToken DEF OpenBlock, NeedsBlock, RecordToken
<1>4. /\ token_buffer' \in [Seqs -> Seq(Tokens)]
      /\ logical_token_count' \in [Seqs -> Nat]
      /\ text' \in [Seqs -> Seq(Tokens)]
      /\ token_buffer'[s] # <<>>
      /\ Len(token_buffer'[s]) = Len(token_buffer[s]) + 1
      /\ logical_token_count'[s] = logical_token_count[s] + 1
      /\ Len(text'[s]) = Len(text[s]) + 1
      /\ \A t \in Seqs \ {s} : /\ token_buffer'[t] = token_buffer[t]
                               /\ logical_token_count'[t] = logical_token_count[t]
                               /\ text'[t] = text[t]
  BY <1>1, RecordTokenEffect DEF MemoryInv
<1>. DEFINE table == block_table[s]
            n == Len(table)
<1>5. /\ BlockSize \in Nat \ {0} /\ NoBlock \notin Blocks
      /\ table \in Seq(Blocks) /\ n \in Nat /\ table'= Append(table, id)
      /\ \A t \in Seqs \ {s} : block_table'[t] = block_table[t]
  BY <1>3, PoolAssumption DEF MemoryInv, TypeOK
<1>6. token_buffer[s] = <<>> /\ logical_token_count[s] = BlockSize * n
  <2>1. ShapeOK(s)
    BY <1>3 DEF MemoryInv, TableShape
  <2>. DEFINE m == Len(token_buffer[s])
  <2>2. SUFFICES ASSUME m \in 1 .. BlockSize,
                        logical_token_count[s] = BlockSize * (n - 1) + m
                 PROVE  FALSE
    BY <2>1 DEF ShapeOK
  <2>. HIDE DEF m, n
  <2>3. n - 1 \in Int /\ m \in 0 .. BlockSize - 1 /\ m # 0
    BY <1>1, <1>5, <2>2 DEF m
  <2>4. (BlockSize * (n - 1) + m) % BlockSize = m
    BY <1>5, <2>3, Remainder
  <2>. QED BY <1>1, <2>2, <2>3, <2>4
<1>7. /\ ref_count[id] = 0 /\ id \notin Cached /\ Uses(id) = {}
  <2>1. ref_count[id] = 0 /\ id \notin Cached
    BY <1>2 DEF MemoryInv, BlockConservation
  <2>2. IsFiniteSet(Uses(id)) /\ Cardinality(Uses(id)) = 0
    BY <2>1 DEF MemoryInv, RefCountsExact
  <2>. QED BY <2>1, <2>2, FS_EmptySet
<1>8. /\ Uses(id)' = {<<s, n + 1>>}
      /\ \A c : c # id => Uses(c)' = Uses(c)
  BY <1>3, <1>7, UsesAppend DEF MemoryInv
<1>9. Cached' = Cached
  BY <1>3 DEF Cached, cacheVars
<1>10. \A c \in Blocks : Children(c)' = Children(c)
  BY <1>3, <1>7, <1>9 DEF Children, MemoryInv, TypeOK
<1>11. child_count[id] = 0
  <2>1. Children(id) = {}
    BY <1>5, <1>7 DEF MemoryInv, ChildCountsExact, Children
  <2>. QED BY <2>1, FS_EmptySet DEF MemoryInv, ChildCountsExact
<1>12. /\ ref_count' \in [Blocks -> Nat] /\ num_tokens' \in [Blocks -> Nat]
       /\ parent_id' \in [Blocks -> Blocks \cup {NoBlock}]
       /\ child_count' = child_count
       /\ block_table' \in [Seqs -> Seq(Blocks)]
       /\ ref_count'[id] = 1
       /\ \A c \in Blocks \ {id} : /\ ref_count'[c] = ref_count[c]
                                   /\ parent_id'[c] = parent_id[c]
  BY <1>3, <1>5, <1>11, AppendProperties DEF MemoryInv, TypeOK
<1>13. TypeOK'
  BY <1>2, <1>3, <1>4, <1>12 DEF MemoryInv, TypeOK, IsPartial, cacheVars
<1>14. ControlShape'
  BY <1>3 DEF MemoryInv, ControlShape
<1>15. BlockConservation'
  <2>1. \A c \in Blocks :
            c \in ToSet(free_list) <=> (ref_count[c] = 0 /\ c \notin Cached)
    BY DEF MemoryInv, BlockConservation
  <2>2. \A c \in Blocks :
            c \in ToSet(free_list') <=> (ref_count'[c] = 0 /\ c \notin Cached')
    <3>1. TAKE c \in Blocks
    <3>2. CASE c = id
      BY <1>2, <1>12, <3>2
    <3>3. CASE c # id
      BY <1>2, <1>9, <1>12, <2>1, <3>3
    <3>. QED BY <3>2, <3>3
  <2>. QED BY <1>2, <2>2 DEF BlockConservation
<1>16. RefCountsExact'
  <2>1. IsFiniteSet(Uses(id)') /\ ref_count'[id] = Cardinality(Uses(id)')
    BY <1>8, <1>12, FS_Singleton
  <2>2. \A c \in Blocks \ {id} :
            IsFiniteSet(Uses(c)') /\ ref_count'[c] = Cardinality(Uses(c)')
    BY <1>8, <1>12 DEF MemoryInv, RefCountsExact
  <2>. QED BY <2>1, <2>2 DEF RefCountsExact
<1>17. LeavesExact' /\ CacheMapSound'
  <2>1. {c \in Cached : ref_count'[c] = 0 /\ child_count[c] = 0} =
        {c \in Cached : ref_count[c] = 0 /\ child_count[c] = 0}
    BY <1>7, <1>12 DEF MemoryInv, TypeOK, IsPartial, Cached
  <2>2. LeavesExact'
    BY <1>3, <1>9, <1>12, <2>1 DEF MemoryInv, LeavesExact, cacheVars
  <2>3. CacheMapSound'
    BY <1>3, <1>9 DEF MemoryInv, CacheMapSound, cacheVars
  <2>. QED BY <2>2, <2>3
<1>18. ChildCountsExact'
  <2>1. \A c \in Cached : c # id /\ c \in Blocks
    BY <1>7 DEF MemoryInv, TypeOK, IsPartial, Cached
  <2>. QED BY <1>9, <1>10, <1>12, <2>1 DEF MemoryInv, ChildCountsExact
<1>19. TableShape'
  <2>1. Len(block_table'[s]) = n + 1 /\ block_table'[s] # <<>>
    BY <1>5, AppendProperties
  <2>2. Len(token_buffer'[s]) = 1 /\ 1 \in 1 .. BlockSize
    BY <1>4, <1>5, <1>6
  <2>3. logical_token_count'[s] =
            BlockSize * (Len(block_table'[s]) - 1) + Len(token_buffer'[s])
    <3>1. Len(block_table'[s]) - 1 = n
      BY <1>5, <2>1
    <3>. QED BY <1>4, <1>6, <2>2, <3>1
  <2>4. ShapeOK(s)'
    BY <2>1, <2>2, <2>3 DEF ShapeOK
  <2>5. \A t \in Seqs \ {s} : ShapeOK(t)'
    BY <1>3, <1>4, <1>5 DEF MemoryInv, TableShape, ShapeOK
  <2>6. \A t \in Seqs : Len(text'[t]) = logical_token_count'[t]
    BY <1>4 DEF MemoryInv, TableShape
  <2>. QED BY <2>4, <2>5, <2>6 DEF TableShape
<1>20. TailExclusive'
  <2>1. TailOK(s)'
    <3>1. TailOK(s)
      BY <1>1, <1>3 DEF MemoryInv, TailExclusive
    <3>2. \A k \in 1 .. n : table[k] \in Cached
      BY <1>5, <1>6, <3>1 DEF TailOK, Last
    <3>3. /\ Len(block_table'[s]) = n + 1
          /\ Last(block_table'[s]) = id
          /\ \A k \in 1 .. n : block_table'[s][k] = table[k]
      BY <1>5, AppendProperties DEF Last
    <3>4. \A k \in 1 .. Len(block_table'[s]) - 1 : block_table'[s][k] \in Cached
      BY <1>5, <3>2, <3>3
    <3>. QED BY <1>4, <1>7, <1>8, <1>9, <3>3, <3>4 DEF TailOK
  <2>2. \A t \in Seqs \ sealed : t # s => TailOK(t)'
    <3>1. SUFFICES ASSUME NEW t \in Seqs \ sealed, t # s PROVE TailOK(t)'
      OBVIOUS
    <3>2. TailOK(t) /\ block_table[t] \in Seq(Blocks)
      BY <1>3 DEF MemoryInv, TypeOK, TailExclusive
    <3>3. \A k \in DOMAIN block_table[t] : block_table[t][k] # id
      <4>1. \A k \in DOMAIN block_table[t] : <<t, k>> \in Uses(block_table[t][k])
        BY <1>3, UsesMember
      <4>. QED BY <1>7, <4>1
    <3>4. \A b : b = Last(block_table[t]) /\ token_buffer[t] # <<>> =>
              Uses(b)' = Uses(b)
      <4>1. token_buffer[t] # <<>> => block_table[t] # <<>>
        BY <1>3, <1>5 DEF MemoryInv, TableShape, ShapeOK, TypeOK
      <4>2. block_table[t] # <<>> => Last(block_table[t]) # id
        BY <3>2, <3>3, EmptySeq DEF Last
      <4>. QED BY <1>8, <4>1, <4>2
    <3>5. /\ block_table'[t] = block_table[t] /\ token_buffer'[t] = token_buffer[t]
          /\ \A k \in DOMAIN block_table[t] :
                 block_table[t][k] \in Cached' <=> block_table[t][k] \in Cached
      BY <1>4, <1>5, <1>9, <3>1
    <3>. QED BY <3>2, <3>4, <3>5, TailFrame
  <2>. QED BY <1>3, <2>1, <2>2 DEF TailExclusive
<1>. QED BY <1>13, <1>14, <1>15, <1>16, <1>17, <1>18, <1>19, <1>20 DEF MemoryInv

\* A cached block that the next chunk of a prompt hits.
LEMMA PrefixHitStep ==
    ASSUME MemoryInv, NEW s \in Seqs, NEW chunk \in Chunks, PrefixHit(s, chunk)
    PROVE  MemoryInv'
<1>. DEFINE hash  == hash_block_state(current_hash[s], chunk)
            table == block_table[s]
            n     == Len(table)
<1>1. /\ pc = "idle" /\ releasing = {} /\ freed = 0
      /\ token_buffer[s] = <<>>
      /\ UNCHANGED <<free_list, num_tokens, parent_id, child_count, kv,
                     cache_map, reverse_map, token_buffer, pc, todo, releasing,
                     freed, sealed>>
  BY DEF PrefixHit, ctlVars, MemoryInv, ControlShape
<1>2. Cached \subseteq Blocks
  BY DEF MemoryInv, TypeOK, IsPartial, Cached
<1>3. PICK hit \in Cached : hit = cache_map[hash]
  BY DEF PrefixHit, MemoryInv, CacheMapSound
<1>4. /\ ref_count' = Bump(ref_count, hit, 1)
      /\ evictable_leaves' = EvaluateEvictability(evictable_leaves, hit, Cached,
                                                  ref_count', child_count)
      /\ block_table' = [block_table EXCEPT ![s] = Append(@, hit)]
      /\ logical_token_count' = [logical_token_count EXCEPT ![s] = @ + BlockSize]
      /\ current_hash' = [current_hash EXCEPT ![s] = hash]
      /\ text' = [text EXCEPT ![s] = @ \o chunk]
      /\ kv_len' = [kv_len EXCEPT ![s] = @ + BlockSize]
  BY <1>3 DEF PrefixHit
<1>5. /\ BlockSize \in Nat \ {0}
      /\ table \in Seq(Blocks) /\ n \in Nat
      /\ chunk \in Seq(Tokens) /\ Len(chunk) = BlockSize
      /\ hash \in Hashes
      /\ hit \in Blocks
  <2>1. BlockSize \in Nat \ {0} /\ table \in Seq(Blocks) /\ current_hash[s] \in Hashes
    BY PoolAssumption DEF MemoryInv, TypeOK
  <2>2. chunk \in Seq(Tokens) /\ Len(chunk) = BlockSize
    BY <2>1 DEF Chunks
  <2>. QED BY <1>2, <1>3, <2>1, <2>2, HashAssumption
<1>. HIDE DEF hash
<1>6. /\ ref_count' \in [Blocks -> Nat]
      /\ ref_count'[hit] = ref_count[hit] + 1
      /\ \A c \in Blocks \ {hit} : ref_count'[c] = ref_count[c]
      /\ ref_count[hit] \in Nat
  BY <1>4, <1>5 DEF Bump, MemoryInv, TypeOK
<1>7. /\ block_table' \in [Seqs -> Seq(Blocks)]
      /\ block_table'[s] = Append(table, hit)
      /\ \A t \in Seqs \ {s} : block_table'[t] = block_table[t]
      /\ logical_token_count' \in [Seqs -> Nat]
      /\ logical_token_count'[s] = logical_token_count[s] + BlockSize
      /\ \A t \in Seqs \ {s} : logical_token_count'[t] = logical_token_count[t]
      /\ current_hash' \in [Seqs -> Hashes]
      /\ kv_len' \in [Seqs -> Nat]
  <2>1. /\ block_table \in [Seqs -> Seq(Blocks)]
        /\ logical_token_count \in [Seqs -> Nat]
        /\ current_hash \in [Seqs -> Hashes]
        /\ kv_len \in [Seqs -> Nat]
    BY DEF MemoryInv, TypeOK
  <2>2. Append(table, hit) \in Seq(Blocks)
    BY <1>5, AppendProperties
  <2>3. /\ block_table' \in [Seqs -> Seq(Blocks)]
        /\ block_table'[s] = Append(table, hit)
        /\ \A t \in Seqs \ {s} : block_table'[t] = block_table[t]
    BY <1>4, <2>1, <2>2
  <2>4. /\ logical_token_count' \in [Seqs -> Nat]
        /\ logical_token_count'[s] = logical_token_count[s] + BlockSize
        /\ \A t \in Seqs \ {s} : logical_token_count'[t] = logical_token_count[t]
        /\ kv_len' \in [Seqs -> Nat]
    BY <1>4, <1>5, <2>1
  <2>5. current_hash' \in [Seqs -> Hashes]
    BY <1>4, <1>5, <2>1
  <2>. QED BY <2>3, <2>4, <2>5
<1>8. /\ text' \in [Seqs -> Seq(Tokens)]
      /\ Len(text'[s]) = Len(text[s]) + BlockSize
      /\ \A t \in Seqs \ {s} : text'[t] = text[t]
  <2>1. text \in [Seqs -> Seq(Tokens)]
    BY DEF MemoryInv, TypeOK
  <2>2. /\ text[s] \o chunk \in Seq(Tokens)
        /\ Len(text[s] \o chunk) = Len(text[s]) + BlockSize
    BY <1>5, <2>1, ConcatProperties
  <2>. QED BY <1>4, <2>1, <2>2
<1>9. /\ Uses(hit)' = Uses(hit) \cup {<<s, n + 1>>}
      /\ <<s, n + 1>> \notin Uses(hit)
      /\ \A c : c # hit => Uses(c)' = Uses(c)
  BY <1>1, <1>4, <1>5, UsesAppend DEF MemoryInv
<1>10. Cached' = Cached
  BY <1>1 DEF Cached
<1>11. /\ evictable_leaves' \in Seq(Blocks)
       /\ IsInjective(evictable_leaves')
       /\ ToSet(evictable_leaves') = ToSet(evictable_leaves) \ {hit}
  <2>1. /\ evictable_leaves \in Seq(Blocks) /\ IsInjective(evictable_leaves)
        /\ Cached \in SUBSET Blocks
    BY <1>2 DEF MemoryInv, TypeOK, LeavesExact
  <2>2. hit \in Cached /\ ref_count'[hit] # 0
    BY <1>3, <1>6
  <2>3. evictable_leaves' = EvaluateEvictability(evictable_leaves, hit, Cached,
                                                 ref_count', child_count)
    BY <1>4
  <2>4. ToSet(evictable_leaves') = ToSet(evictable_leaves) \ {hit}
    BY <2>1, <2>2, <2>3, EvaluateMember
  <2>5. evictable_leaves' \in Seq(Blocks)
    BY <2>1, <2>3, EvaluateMember
  <2>6. IsInjective(evictable_leaves')
    BY <2>1, <2>3, EvaluateMember
  <2>. QED BY <2>4, <2>5, <2>6
<1>12. TypeOK'
  BY <1>1, <1>6, <1>7, <1>8, <1>11 DEF MemoryInv, TypeOK
<1>13. ControlShape'
  BY <1>1 DEF MemoryInv, ControlShape
<1>14. BlockConservation'
  <2>1. \A c \in Blocks : c \in ToSet(free_list) <=>
                              (ref_count'[c] = 0 /\ c \notin Cached)
    BY <1>3, <1>6 DEF MemoryInv, BlockConservation
  <2>. QED BY <1>1, <1>10, <2>1 DEF MemoryInv, BlockConservation
<1>15. RefCountsExact'
  <2>1. IsFiniteSet(Uses(hit)) /\ ref_count[hit] = Cardinality(Uses(hit))
    BY <1>5 DEF MemoryInv, RefCountsExact
  <2>2. IsFiniteSet(Uses(hit)') /\ ref_count'[hit] = Cardinality(Uses(hit)')
    <3>1. /\ IsFiniteSet(Uses(hit) \cup {<<s, n + 1>>})
          /\ Cardinality(Uses(hit) \cup {<<s, n + 1>>}) = Cardinality(Uses(hit)) + 1
      BY <1>9, <2>1, FS_AddElement
    <3>. QED BY <1>6, <1>9, <2>1, <3>1
  <2>3. \A c \in Blocks \ {hit} :
            IsFiniteSet(Uses(c)') /\ ref_count'[c] = Cardinality(Uses(c)')
    BY <1>6, <1>9 DEF MemoryInv, RefCountsExact
  <2>. QED BY <2>2, <2>3 DEF RefCountsExact
<1>16. LeavesExact'
  <2>1. {c \in Cached : ref_count'[c] = 0 /\ child_count[c] = 0} =
        {c \in Cached : ref_count[c] = 0 /\ child_count[c] = 0} \ {hit}
    BY <1>2, <1>6
  <2>2. ToSet(evictable_leaves) =
            {c \in Cached : ref_count[c] = 0 /\ child_count[c] = 0}
    BY DEF MemoryInv, LeavesExact
  <2>. QED BY <1>1, <1>10, <1>11, <2>1, <2>2 DEF LeavesExact
<1>17. ChildCountsExact' /\ CacheMapSound'
  <2>1. \A c \in Blocks : Children(c)' = Children(c)
    BY <1>1, <1>10 DEF Children
  <2>2. ChildCountsExact'
    BY <1>1, <1>10, <2>1 DEF MemoryInv, ChildCountsExact
  <2>3. CacheMapSound'
    BY <1>1, <1>10 DEF MemoryInv, CacheMapSound
  <2>. QED BY <2>2, <2>3
<1>18. TableShape'
  <2>1. logical_token_count[s] = BlockSize * n
    <3>1. ShapeOK(s) /\ 0 \notin 1 .. BlockSize /\ Len(token_buffer[s]) = 0
      BY <1>1, <1>5 DEF MemoryInv, TableShape
    <3>. QED BY <1>1, <3>1 DEF ShapeOK
  <2>2. Len(block_table'[s]) = n + 1
    BY <1>5, <1>7, AppendProperties
  <2>3. logical_token_count'[s] = BlockSize * Len(block_table'[s])
    <3>1. BlockSize * (n + 1) = BlockSize * n + BlockSize
      BY <1>5
    <3>. QED BY <1>7, <2>1, <2>2, <3>1
  <2>4. ShapeOK(s)'
    BY <1>1, <2>3 DEF ShapeOK
  <2>5. \A t \in Seqs \ {s} : ShapeOK(t)'
    BY <1>1, <1>7 DEF MemoryInv, TableShape, ShapeOK
  <2>6. \A t \in Seqs : Len(text'[t]) = logical_token_count'[t]
    BY <1>7, <1>8 DEF MemoryInv, TableShape
  <2>. QED BY <2>4, <2>5, <2>6 DEF TableShape
<1>19. TailExclusive'
  <2>1. ASSUME s \notin sealed PROVE TailOK(s)'
    <3>1. TailOK(s)
      BY <1>1, <2>1 DEF MemoryInv, TailExclusive
    <3>2. \A k \in 1 .. n : table[k] \in Cached
      BY <1>1, <1>5, <3>1 DEF TailOK, Last
    <3>3. /\ Len(block_table'[s]) = n + 1
          /\ Last(block_table'[s]) = hit
          /\ \A k \in 1 .. n : block_table'[s][k] = table[k]
      BY <1>5, <1>7, AppendProperties DEF Last
    <3>4. \A k \in 1 .. Len(block_table'[s]) - 1 : block_table'[s][k] \in Cached
      BY <1>5, <3>2, <3>3
    <3>. QED BY <1>1, <1>3, <1>10, <3>3, <3>4 DEF TailOK
  <2>2. \A t \in Seqs \ sealed : t # s => TailOK(t)'
    <3>1. SUFFICES ASSUME NEW t \in Seqs \ sealed, t # s PROVE TailOK(t)'
      OBVIOUS
    <3>2. TailOK(t) /\ block_table[t] \in Seq(Blocks)
      BY <1>1 DEF MemoryInv, TypeOK, TailExclusive
    <3>3. token_buffer[t] # <<>> => block_table[t] # <<>>
      BY <1>1, <1>5 DEF MemoryInv, TableShape, ShapeOK, TypeOK
    <3>4. \A b : b = Last(block_table[t]) /\ token_buffer[t] # <<>> =>
              Uses(b)' = Uses(b)
      BY <1>3, <1>9, <3>2, <3>3 DEF TailOK
    <3>5. /\ block_table'[t] = block_table[t] /\ token_buffer'[t] = token_buffer[t]
          /\ \A k \in DOMAIN block_table[t] :
                 block_table[t][k] \in Cached' <=> block_table[t][k] \in Cached
      BY <1>1, <1>7, <1>10, <3>1
    <3>. QED BY <3>2, <3>4, <3>5, TailFrame
  <2>. QED BY <1>1, <2>1, <2>2 DEF TailExclusive
<1>. QED BY <1>12, <1>13, <1>14, <1>15, <1>16, <1>17, <1>18, <1>19 DEF MemoryInv-----------------------------------------------------------------------------
(***************************************************************************)
(* A block leaves the cache, or loses a use.                               *)
(***************************************************************************)

\* An evicted leaf is no one's parent and in no table; its parent may become
\* the next leaf.
LEMMA EvictLeafStep == MemoryInv /\ EvictLeaf => MemoryInv'
<1>. SUFFICES ASSUME MemoryInv, EvictLeaf PROVE MemoryInv'
  OBVIOUS
<1>1. PICK id \in Blocks :
          /\ id = Last(evictable_leaves)
          /\ id \in ToSet(evictable_leaves)
          /\ Front(evictable_leaves) \in Seq(Blocks)
          /\ IsInjective(Front(evictable_leaves))
          /\ ToSet(Front(evictable_leaves)) = ToSet(evictable_leaves) \ {id}
  BY FrontMember DEF EvictLeaf, MemoryInv, TypeOK, LeavesExact
<1>2. PICK parent \in Blocks \cup {NoBlock} : parent = parent_id[id]
  BY DEF MemoryInv, TypeOK
<1>. DEFINE rest   == Forget(reverse_map, id)
            childs == Bump(child_count, parent, -1)
<1>3. /\ cache_map' = Forget(cache_map, reverse_map[id])
      /\ reverse_map' = rest
      /\ evictable_leaves' =
             EvaluateEvictability(Front(evictable_leaves), parent, DOMAIN rest,
                                  ref_count, childs)
      /\ num_tokens' = [num_tokens EXCEPT ![id] = 0]
      /\ ref_count' = [ref_count EXCEPT ![id] = 0]
      /\ parent_id' = [parent_id EXCEPT ![id] = NoBlock]
      /\ child_count' = [childs EXCEPT ![id] = 0]
      /\ free_list' = Append(free_list, id)
      /\ kv' = Discard(id)
      /\ UNCHANGED <<seqVars, ctlVars, ghostVars>>
  BY <1>1, <1>2 DEF EvictLeaf
<1>4. /\ pc = "evict" /\ releasing = {} /\ freed = 0
      /\ UNCHANGED <<block_table, logical_token_count, current_hash,
                     token_buffer, pc, todo, releasing, freed, text, kv_len,
                     sealed>>
  BY <1>3 DEF EvictLeaf, MemoryInv, ControlShape, seqVars, ctlVars, ghostVars
<1>5. NoBlock \notin Blocks /\ IsFiniteSet(Blocks)
  BY PoolAssumption
<1>6. Cached \subseteq Blocks
  BY DEF MemoryInv, TypeOK, IsPartial, Cached
<1>7. id \in Cached /\ ref_count[id] = 0 /\ child_count[id] = 0
  BY <1>1 DEF MemoryInv, LeavesExact
<1>8. \A c \in Blocks : IsFiniteSet(Children(c))
  <2>1. \A c \in Blocks : Children(c) \in SUBSET Blocks
    BY <1>6 DEF Children
  <2>. QED BY <1>5, <2>1, FS_Subset
<1>9. Children(id) = {}
  BY <1>7, <1>8, FS_EmptySet DEF MemoryInv, ChildCountsExact
<1>10. parent # id
  BY <1>2, <1>7, <1>9 DEF Children
<1>11. parent \in Blocks => /\ parent \in Cached
                            /\ id \in Children(parent)
                            /\ child_count[parent] \in Nat \ {0}
                            /\ parent \notin ToSet(evictable_leaves)
  <2>1. SUFFICES ASSUME parent \in Blocks
                 PROVE  /\ parent \in Cached
                        /\ id \in Children(parent)
                        /\ child_count[parent] \in Nat \ {0}
                        /\ parent \notin ToSet(evictable_leaves)
    OBVIOUS
  <2>2. parent \in Cached
    BY <1>2, <1>5, <1>7, <2>1 DEF MemoryInv, ChildCountsExact
  <2>3. id \in Children(parent)
    BY <1>2, <1>7 DEF Children
  <2>4. child_count[parent] # 0
    BY <1>8, <2>1, <2>3, FS_EmptySet DEF MemoryInv, ChildCountsExact
  <2>5. child_count[parent] \in Nat
    BY <2>1 DEF MemoryInv, TypeOK
  <2>. QED BY <2>2, <2>3, <2>4, <2>5 DEF MemoryInv, LeavesExact
<1>12. /\ Cached' = Cached \ {id}
       /\ DOMAIN rest = Cached \ {id}
       /\ \A c \in Cached \ {id} : reverse_map'[c] = reverse_map[c]
  BY <1>3 DEF Cached, Forget, Restrict
<1>13. /\ DOMAIN cache_map' = DOMAIN cache_map \ {reverse_map[id]}
       /\ \A h \in DOMAIN cache_map' : cache_map'[h] = cache_map[h]
  BY <1>3 DEF Forget, Restrict
<1>14. ref_count' = ref_count
  BY <1>3, <1>7 DEF MemoryInv, TypeOK
<1>15. /\ childs \in [Blocks -> Nat]
       /\ child_count' = childs
       /\ \A c \in Blocks : childs[c] = IF c = parent THEN child_count[c] - 1
                                                      ELSE child_count[c]
  <2>1. child_count \in [Blocks -> Nat]
    BY DEF MemoryInv, TypeOK
  <2>2. \A c \in Blocks : childs[c] = IF c = parent THEN child_count[c] - 1
                                                    ELSE child_count[c]
    BY <2>1 DEF Bump
  <2>3. childs \in [Blocks -> Nat]
    BY <1>11, <2>1 DEF Bump
  <2>. HIDE DEF childs
  <2>4. child_count' = childs
    BY <1>3, <1>7, <1>10, <2>2, <2>3
  <2>. QED BY <2>2, <2>3, <2>4
<1>16. /\ parent_id' \in [Blocks -> Blocks \cup {NoBlock}]
       /\ \A c \in Blocks \ {id} : parent_id'[c] = parent_id[c]
  BY <1>3 DEF MemoryInv, TypeOK
<1>. HIDE DEF childs
<1>17. /\ evictable_leaves' \in Seq(Blocks)
       /\ IsInjective(evictable_leaves')
       /\ ToSet(evictable_leaves') =
              IF parent \in Blocks /\ ref_count[parent] = 0 /\ childs[parent] = 0
              THEN (ToSet(evictable_leaves) \ {id}) \cup {parent}
              ELSE ToSet(evictable_leaves) \ {id}
  <2>. DEFINE front == Front(evictable_leaves)
              cached == DOMAIN rest
  <2>1. cached \in SUBSET Blocks
    BY <1>6, <1>12
  <2>2. parent \in cached <=> parent \in Blocks
    BY <1>6, <1>10, <1>11, <1>12
  <2>3. front \in Seq(Blocks) /\ IsInjective(front)
        /\ ToSet(front) = ToSet(evictable_leaves) \ {id}
    BY <1>1
  <2>4. evictable_leaves' = EvaluateEvictability(front, parent, cached, ref_count,
                                                 childs)
    BY <1>3
  <2>. HIDE DEF front, cached, rest
  <2>5. evictable_leaves' \in Seq(Blocks)
    BY <2>1, <2>3, <2>4, EvaluateMember
  <2>6. IsInjective(evictable_leaves')
    BY <2>1, <2>3, <2>4, EvaluateMember
  <2>7. parent \notin cached => ToSet(evictable_leaves') = ToSet(front)
    BY <2>1, <2>3, <2>4, EvaluateMember
  <2>8. parent \in cached /\ ref_count[parent] = 0 /\ childs[parent] = 0 =>
            ToSet(evictable_leaves') = ToSet(front) \cup {parent}
    BY <2>1, <2>3, <2>4, EvaluateMember
  <2>9. parent \in cached /\ ~(ref_count[parent] = 0 /\ childs[parent] = 0) =>
            ToSet(evictable_leaves') = ToSet(front) \ {parent}
    BY <2>1, <2>3, <2>4, EvaluateMember
  <2>10. parent \in cached => parent \notin ToSet(front)
    BY <1>11, <2>2, <2>3
  <2>11. CASE parent \in Blocks /\ ref_count[parent] = 0 /\ childs[parent] = 0
    BY <2>2, <2>3, <2>5, <2>6, <2>8, <2>11
  <2>12. CASE ~(parent \in Blocks /\ ref_count[parent] = 0 /\ childs[parent] = 0)
    <3>1. ToSet(evictable_leaves') = ToSet(front)
      BY <2>2, <2>7, <2>9, <2>10, <2>12
    <3>. QED BY <2>3, <2>5, <2>6, <2>12, <3>1
  <2>. QED BY <2>11, <2>12
<1>18. /\ free_list' \in Seq(Blocks)
       /\ IsInjective(free_list')
       /\ ToSet(free_list') = ToSet(free_list) \cup {id}
  <2>1. /\ free_list \in Seq(Blocks) /\ IsInjective(free_list)
        /\ id \notin ToSet(free_list)
    BY <1>7 DEF MemoryInv, TypeOK, BlockConservation
  <2>. QED BY <1>3, <2>1, AppendMember
<1>19. TypeOK'
  <2>1. kv' \in [Slots -> Seq(Tokens)] /\ num_tokens' \in [Blocks -> Nat]
    BY <1>3 DEF Discard, MemoryInv, TypeOK
  <2>2. IsPartial(cache_map', Hashes, Blocks)
    BY <1>13 DEF IsPartial, MemoryInv, TypeOK
  <2>3. IsPartial(reverse_map', Blocks, Hashes)
    BY <1>12 DEF IsPartial, MemoryInv, TypeOK, Cached
  <2>. QED BY <1>4, <1>14, <1>15, <1>16, <1>17, <1>18, <2>1, <2>2, <2>3
           DEF MemoryInv, TypeOK
<1>20. ControlShape'
  BY <1>4 DEF MemoryInv, ControlShape
<1>21. BlockConservation'
  <2>1. \A c \in Blocks :
            c \in ToSet(free_list) <=> (ref_count[c] = 0 /\ c \notin Cached)
    BY DEF MemoryInv, BlockConservation
  <2>2. \A c \in Blocks :
            c \in ToSet(free_list') <=> (ref_count'[c] = 0 /\ c \notin Cached')
    BY <1>7, <1>12, <1>14, <1>18, <2>1
  <2>. QED BY <1>18, <2>2 DEF BlockConservation
<1>22. /\ \A c : Uses(c)' = Uses(c)
       /\ Uses(id) = {}
  <2>1. IsFiniteSet(Uses(id)) /\ Cardinality(Uses(id)) = 0
    BY <1>7 DEF MemoryInv, RefCountsExact
  <2>. QED BY <1>4, <2>1, FS_EmptySet DEF Uses, Entries
<1>23. RefCountsExact'
  BY <1>14, <1>22 DEF MemoryInv, RefCountsExact
<1>24. LeavesExact'
  <2>1. ToSet(evictable_leaves) =
            {c \in Cached : ref_count[c] = 0 /\ child_count[c] = 0}
    BY DEF MemoryInv, LeavesExact
  <2>2. \A c \in Cached \ {id} : c # parent => childs[c] = child_count[c]
    BY <1>6, <1>15
  <2>3. parent \in Blocks => parent \in Cached \ {id} /\ child_count[parent] # 0
    BY <1>10, <1>11
  <2>4. ToSet(evictable_leaves') =
            {c \in Cached \ {id} : ref_count[c] = 0 /\ childs[c] = 0}
    BY <1>6, <1>17, <2>1, <2>2, <2>3
  <2>. QED BY <1>12, <1>14, <1>15, <1>17, <2>4 DEF LeavesExact
<1>25. ChildCountsExact'
  <2>1. \A c \in Blocks : Children(c)' = IF c = parent THEN Children(c) \ {id}
                                                       ELSE Children(c)
    BY <1>2, <1>6, <1>12, <1>16 DEF Children
  <2>2. \A c \in Blocks : childs[c] = Cardinality(Children(c)')
    <3>1. TAKE c \in Blocks
    <3>2. child_count[c] = Cardinality(Children(c))
      BY DEF MemoryInv, ChildCountsExact
    <3>3. CASE c = parent
      <4>1. Cardinality(Children(c) \ {id}) = Cardinality(Children(c)) - 1
        BY <1>8, <1>11, <3>3, FS_RemoveElement
      <4>. QED BY <1>15, <2>1, <3>2, <3>3, <4>1
    <3>4. CASE c # parent
      BY <1>15, <2>1, <3>2, <3>4
    <3>. QED BY <3>3, <3>4
  <2>3. \A c \in Cached \ {id} : parent_id[c] # NoBlock =>
                                     parent_id[c] \in Cached \ {id}
    BY <1>9 DEF MemoryInv, ChildCountsExact, Children
  <2>4. \A c \in Cached' : parent_id'[c] # NoBlock => parent_id'[c] \in Cached'
    BY <1>6, <1>12, <1>16, <2>3
  <2>. QED BY <1>15, <2>2, <2>4 DEF ChildCountsExact
<1>26. CacheMapSound'
  <2>1. SUFFICES ASSUME NEW h \in DOMAIN cache_map'
                 PROVE  cache_map'[h] \in Cached' /\ reverse_map'[cache_map'[h]] = h
    BY DEF CacheMapSound
  <2>2. /\ h \in DOMAIN cache_map /\ h # reverse_map[id]
        /\ cache_map'[h] = cache_map[h]
    BY <1>13, <2>1
  <2>3. cache_map[h] \in Cached /\ reverse_map[cache_map[h]] = h
    BY <2>2 DEF MemoryInv, CacheMapSound
  <2>. QED BY <1>12, <2>2, <2>3
<1>27. TableShape'
  BY <1>4 DEF MemoryInv, TableShape, ShapeOK
<1>28. TailExclusive'
  <2>1. SUFFICES ASSUME NEW t \in Seqs \ sealed PROVE TailOK(t)'
    BY <1>4 DEF TailExclusive
  <2>2. TailOK(t) /\ block_table[t] \in Seq(Blocks)
    BY <1>4 DEF MemoryInv, TypeOK, TailExclusive
  <2>3. \A k \in DOMAIN block_table[t] : block_table[t][k] # id
    <3>1. \A k \in DOMAIN block_table[t] : <<t, k>> \in Uses(block_table[t][k])
      BY <1>4, UsesMember
    <3>. QED BY <1>22, <3>1
  <2>4. \A k \in DOMAIN block_table[t] :
            block_table[t][k] \in Cached' <=> block_table[t][k] \in Cached
    BY <1>12, <2>3
  <2>. QED BY <1>4, <1>22, <2>2, <2>4, TailFrame
<1>. QED BY <1>19, <1>20, <1>21, <1>23, <1>24, <1>25, <1>26, <1>27, <1>28
         DEF MemoryInv

\* release() drops the use of the next block of its table.
LEMMA ReleaseBlockStep ==
    ASSUME MemoryInv, NEW s \in Seqs, ReleaseBlock(s)
    PROVE  MemoryInv'
<1>. DEFINE table == block_table[s]
            n     == Len(table)
<1>1. /\ pc = "release" /\ releasing = {s} /\ freed \in Nat /\ freed < n
      /\ table \in Seq(Blocks) /\ n \in Nat
      /\ freed + 1 \in 1 .. n
  <2>1. /\ pc = "release" /\ s \in releasing /\ freed < n /\ freed \in Nat
        /\ table \in Seq(Blocks)
    BY DEF ReleaseBlock, MemoryInv, TypeOK
  <2>2. releasing = {s}
    BY <2>1 DEF MemoryInv, ControlShape
  <2>3. n \in Nat
    BY <2>1
  <2>. HIDE DEF n
  <2>4. freed + 1 \in 1 .. n
    BY <2>1, <2>3
  <2>. QED BY <2>1, <2>2, <2>3, <2>4
<1>2. PICK b \in Blocks : b = table[freed + 1]
  BY <1>1, ElementOfSeq
<1>3. /\ ref_count' = Bump(ref_count, b, -1)
      /\ evictable_leaves' = EvaluateEvictability(evictable_leaves, b, Cached,
                                                  ref_count', child_count)
      /\ IF ref_count'[b] = 0 /\ b \notin Cached
         THEN /\ num_tokens' = [num_tokens EXCEPT ![b] = 0]
              /\ free_list' = Append(free_list, b)
              /\ kv' = Discard(b)
         ELSE UNCHANGED <<num_tokens, free_list, kv>>
      /\ freed' = freed + 1
      /\ UNCHANGED <<parent_id, child_count, cache_map, reverse_map,
                     block_table, logical_token_count, current_hash,
                     token_buffer, pc, todo, releasing, text, kv_len, sealed>>
  BY <1>2 DEF ReleaseBlock, seqVars, ghostVars
<1>4. Cached' = Cached /\ Cached \subseteq Blocks
  BY <1>3 DEF Cached, MemoryInv, TypeOK, IsPartial
<1>5. /\ <<s, freed + 1>> \in Uses(b)
      /\ Uses(b)' = Uses(b) \ {<<s, freed + 1>>}
      /\ \A c : c # b => Uses(c)' = Uses(c)
  <2>1. <<s, freed + 1>> \in Uses(b)
    <3>1. PICK k \in DOMAIN block_table[s] : k = freed + 1 /\ block_table[s][k] = b
      BY <1>1, <1>2
    <3>2. k > freed
      BY <1>1, <3>1
    <3>3. <<s, k>> \in Uses(b)
      BY <3>1, <3>2, UsesMember
    <3>. QED BY <3>1, <3>3
  <2>2. \A c, u : u \in Uses(c)' <=>
            \E t \in Seqs : \E k \in DOMAIN block_table[t] :
                /\ u = <<t, k>>
                /\ block_table[t][k] = c
                /\ t \in releasing => k > freed + 1
    BY <1>3 DEF Uses, Entries
  <2>3. \A k \in DOMAIN table : k > freed + 1 <=> k > freed /\ k # freed + 1
    BY <1>1
  <2>4. \A c, u : u \in Uses(c)' => u \in Uses(c) /\ u # <<s, freed + 1>>
    <3>1. SUFFICES ASSUME NEW c, NEW t \in Seqs, NEW k \in DOMAIN block_table[t],
                          block_table[t][k] = c,
                          t \in releasing => k > freed + 1
                   PROVE  <<t, k>> \in Uses(c) /\ <<t, k>> # <<s, freed + 1>>
      BY <2>2
    <3>2. t \in releasing => t = s /\ k > freed /\ k # freed + 1
      BY <1>1, <2>3, <3>1
    <3>3. <<t, k>> \in Uses(c)
      BY <3>1, <3>2, UsesMember
    <3>. QED BY <1>1, <3>2, <3>3
  <2>5. \A c, u : u \in Uses(c) /\ u # <<s, freed + 1>> => u \in Uses(c)'
    <3>1. SUFFICES ASSUME NEW c, NEW t \in Seqs, NEW k \in DOMAIN block_table[t],
                          block_table[t][k] = c, t \in releasing => k > freed,
                          <<t, k>> # <<s, freed + 1>>
                   PROVE  <<t, k>> \in Uses(c)'
      BY UsesMember
    <3>2. t \in releasing => k > freed + 1
      BY <1>1, <2>3, <3>1
    <3>. QED BY <2>2, <3>1, <3>2
  <2>6. Uses(b)' = Uses(b) \ {<<s, freed + 1>>}
    BY <2>4, <2>5
  <2>7. \A c : c # b => Uses(c)' = Uses(c)
    <3>1. SUFFICES ASSUME NEW c, c # b PROVE Uses(c)' = Uses(c)
      OBVIOUS
    <3>2. <<s, freed + 1>> \notin Uses(c)
      BY <1>2, <3>1, UsesMember
    <3>3. Uses(c)' \subseteq Uses(c)
      BY <2>4
    <3>4. Uses(c) \subseteq Uses(c)'
      BY <2>5, <3>2
    <3>. QED BY <3>3, <3>4
  <2>. QED BY <2>1, <2>6, <2>7
<1>6. IsFiniteSet(Uses(b)) /\ ref_count[b] = Cardinality(Uses(b))
  BY DEF MemoryInv, RefCountsExact
<1>7. ref_count[b] \in Nat \ {0}
  <2>1. ref_count[b] # 0
    BY <1>5, <1>6, FS_EmptySet
  <2>. QED BY <2>1 DEF MemoryInv, TypeOK
<1>8. /\ ref_count' \in [Blocks -> Nat]
      /\ ref_count'[b] = ref_count[b] - 1
      /\ \A c \in Blocks \ {b} : ref_count'[c] = ref_count[c]
  <2>1. ref_count \in [Blocks -> Nat]
    BY DEF MemoryInv, TypeOK
  <2>2. ref_count' = [x \in Blocks |-> IF x = b THEN ref_count[x] + -1
                                                ELSE ref_count[x]]
    BY <1>3 DEF Bump
  <2>3. ref_count[b] + -1 = ref_count[b] - 1 /\ ref_count[b] - 1 \in Nat
    BY <1>7
  <2>. QED BY <2>1, <2>2, <2>3
<1>9. b \notin ToSet(evictable_leaves) /\ b \notin ToSet(free_list)
  BY <1>7 DEF MemoryInv, LeavesExact, BlockConservation
<1>10. /\ evictable_leaves' \in Seq(Blocks)
       /\ IsInjective(evictable_leaves')
       /\ ToSet(evictable_leaves') =
              IF b \in Cached /\ ref_count'[b] = 0 /\ child_count[b] = 0
              THEN ToSet(evictable_leaves) \cup {b}
              ELSE ToSet(evictable_leaves)
  <2>1. /\ evictable_leaves \in Seq(Blocks) /\ IsInjective(evictable_leaves)
        /\ Cached \in SUBSET Blocks
    BY <1>4 DEF MemoryInv, TypeOK, LeavesExact
  <2>2. evictable_leaves' = EvaluateEvictability(evictable_leaves, b, Cached,
                                                 ref_count', child_count)
    BY <1>3
  <2>3. evictable_leaves' \in Seq(Blocks)
    BY <2>1, <2>2, EvaluateMember
  <2>4. IsInjective(evictable_leaves')
    BY <2>1, <2>2, EvaluateMember
  <2>5. ASSUME b \notin Cached
        PROVE  ToSet(evictable_leaves') = ToSet(evictable_leaves)
    <3>1. evictable_leaves' = evictable_leaves
      BY <2>2, <2>5 DEF EvaluateEvictability
    <3>. QED BY <3>1
  <2>6. b \in Cached /\ ref_count'[b] = 0 /\ child_count[b] = 0 =>
            ToSet(evictable_leaves') = ToSet(evictable_leaves) \cup {b}
    BY <2>1, <2>2, EvaluateMember
  <2>7. b \in Cached /\ ~(ref_count'[b] = 0 /\ child_count[b] = 0) =>
            ToSet(evictable_leaves') = ToSet(evictable_leaves) \ {b}
    BY <2>1, <2>2, EvaluateMember
  <2>8. ToSet(evictable_leaves) \ {b} = ToSet(evictable_leaves)
    BY <1>9
  <2>. QED BY <2>3, <2>4, <2>5, <2>6, <2>7, <2>8
<1>11. /\ free_list' \in Seq(Blocks)
       /\ IsInjective(free_list')
       /\ ToSet(free_list') = IF ref_count'[b] = 0 /\ b \notin Cached
                              THEN ToSet(free_list) \cup {b} ELSE ToSet(free_list)
  <2>1. free_list \in Seq(Blocks) /\ IsInjective(free_list)
    BY DEF MemoryInv, TypeOK, BlockConservation
  <2>2. CASE ref_count'[b] = 0 /\ b \notin Cached
    <3>1. free_list' = Append(free_list, b) /\ b \notin ToSet(free_list)
      BY <1>3, <1>9, <2>2
    <3>2. /\ free_list' \in Seq(Blocks)
          /\ ToSet(free_list') = ToSet(free_list) \cup {b}
          /\ IsInjective(free_list')
      BY <2>1, <3>1, AppendMember
    <3>. QED BY <2>2, <3>2
  <2>3. CASE ~(ref_count'[b] = 0 /\ b \notin Cached)
    BY <1>3, <2>1, <2>3
  <2>. QED BY <2>2, <2>3
<1>12. TypeOK'
  <2>1. kv \in [Slots -> Seq(Tokens)] /\ num_tokens \in [Blocks -> Nat]
    BY DEF MemoryInv, TypeOK
  <2>2. kv' \in [Slots -> Seq(Tokens)] /\ num_tokens' \in [Blocks -> Nat]
    <3>1. Discard(b) \in [Slots -> Seq(Tokens)]
      BY <2>1 DEF Discard
    <3>2. [num_tokens EXCEPT ![b] = 0] \in [Blocks -> Nat]
      BY <2>1
    <3>. QED BY <1>3, <2>1, <3>1, <3>2
  <2>3. freed' \in Nat
    BY <1>1, <1>3
  <2>. QED BY <1>3, <1>8, <1>10, <1>11, <2>2, <2>3 DEF MemoryInv, TypeOK, IsPartial
<1>13. ControlShape'
  BY <1>1, <1>3 DEF ControlShape
<1>14. BlockConservation'
  <2>1. \A c \in Blocks :
            c \in ToSet(free_list) <=> (ref_count[c] = 0 /\ c \notin Cached)
    BY DEF MemoryInv, BlockConservation
  <2>2. \A c \in Blocks :
            c \in ToSet(free_list') <=> (ref_count'[c] = 0 /\ c \notin Cached')
    <3>1. TAKE c \in Blocks
    <3>2. CASE c = b
      BY <1>4, <1>9, <1>11, <3>2
    <3>3. CASE c # b
      BY <1>4, <1>8, <1>11, <2>1, <3>3
    <3>. QED BY <3>2, <3>3
  <2>. QED BY <1>11, <2>2 DEF BlockConservation
<1>15. RefCountsExact'
  <2>1. IsFiniteSet(Uses(b)') /\ ref_count'[b] = Cardinality(Uses(b)')
    <3>1. /\ IsFiniteSet(Uses(b) \ {<<s, freed + 1>>})
          /\ Cardinality(Uses(b) \ {<<s, freed + 1>>}) = Cardinality(Uses(b)) - 1
      BY <1>5, <1>6, FS_RemoveElement
    <3>. QED BY <1>5, <1>6, <1>8, <3>1
  <2>2. \A c \in Blocks \ {b} :
            IsFiniteSet(Uses(c)') /\ ref_count'[c] = Cardinality(Uses(c)')
    BY <1>5, <1>8 DEF MemoryInv, RefCountsExact
  <2>. QED BY <2>1, <2>2 DEF RefCountsExact
<1>16. LeavesExact'
  <2>1. ToSet(evictable_leaves) =
            {c \in Cached : ref_count[c] = 0 /\ child_count[c] = 0}
    BY DEF MemoryInv, LeavesExact
  <2>2. \A c \in Cached \ {b} : ref_count'[c] = ref_count[c]
    BY <1>4, <1>8
  <2>3. ToSet(evictable_leaves') =
            {c \in Cached : ref_count'[c] = 0 /\ child_count[c] = 0}
    BY <1>7, <1>10, <2>1, <2>2
  <2>. QED BY <1>3, <1>4, <1>10, <2>3 DEF LeavesExact
<1>17. ChildCountsExact' /\ CacheMapSound'
  <2>1. \A c \in Blocks : Children(c)' = Children(c)
    BY <1>3, <1>4 DEF Children
  <2>2. ChildCountsExact'
    BY <1>3, <1>4, <2>1 DEF MemoryInv, ChildCountsExact
  <2>3. CacheMapSound'
    BY <1>3, <1>4 DEF MemoryInv, CacheMapSound
  <2>. QED BY <2>2, <2>3
<1>18. TableShape'
  BY <1>3 DEF MemoryInv, TableShape, ShapeOK
<1>19. TailExclusive'
  <2>1. SUFFICES ASSUME NEW t \in Seqs \ (releasing \cup sealed) PROVE TailOK(t)'
    BY <1>3 DEF TailExclusive
  <2>2. TailOK(t) /\ block_table[t] \in Seq(Blocks) /\ t # s
    BY <1>1, <2>1 DEF MemoryInv, TypeOK, TailExclusive
  <2>3. token_buffer[t] # <<>> => block_table[t] # <<>>
    <3>1. BlockSize \in Nat
      BY PoolAssumption
    <3>. QED BY <2>1, <3>1 DEF MemoryInv, TableShape, ShapeOK, TypeOK
  <2>4. \A c : c = Last(block_table[t]) /\ token_buffer[t] # <<>> => c # b
    BY <1>5, <2>2, <2>3 DEF TailOK
  <2>5. \A c : c = Last(block_table[t]) /\ token_buffer[t] # <<>> =>
            Uses(c)' = Uses(c)
    BY <1>5, <2>4
  <2>6. /\ block_table'[t] = block_table[t] /\ token_buffer'[t] = token_buffer[t]
        /\ \A k \in DOMAIN block_table[t] :
               block_table[t][k] \in Cached' <=> block_table[t][k] \in Cached
    BY <1>3, <1>4
  <2>. QED BY <2>2, <2>5, <2>6, TailFrame
<1>. QED BY <1>12, <1>13, <1>14, <1>15, <1>16, <1>17, <1>18, <1>19 DEF MemoryInv

\* release() ends with every use of its table dropped.
LEMMA FinishReleaseStep ==
    ASSUME MemoryInv, NEW s \in Seqs, FinishRelease(s)
    PROVE  MemoryInv'
<1>1. /\ pc = "release" /\ releasing = {s} /\ freed = Len(block_table[s])
      /\ block_table' = [block_table EXCEPT ![s] = <<>>]
      /\ token_buffer' = [token_buffer EXCEPT ![s] = <<>>]
      /\ logical_token_count' = [logical_token_count EXCEPT ![s] = 0]
      /\ current_hash' = [current_hash EXCEPT ![s] = FNV_OFFSET_BASIS]
      /\ text' = [text EXCEPT ![s] = <<>>]
      /\ sealed' = sealed \ {s}
      /\ pc' = "idle" /\ releasing' = {} /\ freed' = 0
      /\ UNCHANGED <<free_list, ref_count, num_tokens, parent_id, child_count,
                     kv, cache_map, reverse_map, evictable_leaves, todo, kv_len>>
  BY DEF FinishRelease, poolVars, cacheVars, MemoryInv, ControlShape
<1>2. /\ block_table \in [Seqs -> Seq(Blocks)]
      /\ token_buffer \in [Seqs -> Seq(Tokens)]
      /\ logical_token_count \in [Seqs -> Nat]
      /\ text \in [Seqs -> Seq(Tokens)]
  BY DEF MemoryInv, TypeOK
<1>3. /\ block_table'[s] = <<>> /\ token_buffer'[s] = <<>>
      /\ logical_token_count'[s] = 0 /\ text'[s] = <<>>
      /\ \A t \in Seqs \ {s} :
             /\ block_table'[t] = block_table[t]
             /\ token_buffer'[t] = token_buffer[t]
             /\ logical_token_count'[t] = logical_token_count[t]
             /\ text'[t] = text[t]
  BY <1>1, <1>2
<1>4. TypeOK'
  <2>1. /\ block_table' \in [Seqs -> Seq(Blocks)]
        /\ token_buffer' \in [Seqs -> Seq(Tokens)]
        /\ logical_token_count' \in [Seqs -> Nat]
        /\ text' \in [Seqs -> Seq(Tokens)]
    BY <1>1, <1>2, EmptySeq
  <2>2. current_hash' \in [Seqs -> Hashes]
    BY <1>1, HashAssumption DEF MemoryInv, TypeOK
  <2>. QED BY <1>1, <2>1, <2>2 DEF MemoryInv, TypeOK, IsPartial
<1>5. ControlShape'
  BY <1>1 DEF ControlShape
<1>6. Cached' = Cached
  BY <1>1 DEF Cached
<1>7. \A b : Uses(b)' = Uses(b)
  <2>1. SUFFICES ASSUME NEW b PROVE Uses(b)' = Uses(b)
    OBVIOUS
  <2>2. \A u : u \in Uses(b)' <=>
            \E t \in Seqs : \E k \in DOMAIN block_table'[t] :
                u = <<t, k>> /\ block_table'[t][k] = b
    BY <1>1 DEF Uses, Entries
  <2>3. \A k \in DOMAIN block_table[s] : ~(k > freed)
    BY <1>1, <1>2
  <2>4. Uses(b)' \subseteq Uses(b)
    <3>1. SUFFICES ASSUME NEW t \in Seqs, NEW k \in DOMAIN block_table'[t],
                          block_table'[t][k] = b
                   PROVE  <<t, k>> \in Uses(b)
      BY <2>2
    <3>2. t # s
      BY <1>3, <3>1
    <3>3. t \notin releasing /\ k \in DOMAIN block_table[t] /\ block_table[t][k] = b
      BY <1>1, <1>3, <3>1, <3>2
    <3>. QED BY <3>3, UsesMember
  <2>5. Uses(b) \subseteq Uses(b)'
    <3>1. SUFFICES ASSUME NEW t \in Seqs, NEW k \in DOMAIN block_table[t],
                          block_table[t][k] = b, t \in releasing => k > freed
                   PROVE  <<t, k>> \in Uses(b)'
      BY UsesMember
    <3>2. t # s
      BY <1>1, <2>3, <3>1
    <3>3. k \in DOMAIN block_table'[t] /\ block_table'[t][k] = b
      BY <1>3, <3>1, <3>2
    <3>. QED BY <2>2, <3>3
  <2>. QED BY <2>4, <2>5
<1>8. /\ BlockConservation' /\ LeavesExact' /\ CacheMapSound'
  BY <1>1, <1>6 DEF MemoryInv, BlockConservation, LeavesExact, CacheMapSound
<1>9. RefCountsExact'
  BY <1>1, <1>7 DEF MemoryInv, RefCountsExact
<1>10. ChildCountsExact'
  <2>1. \A b : Children(b)' = Children(b)
    BY <1>1, <1>6 DEF Children
  <2>. QED BY <1>1, <1>6, <2>1 DEF MemoryInv, ChildCountsExact
<1>11. TableShape'
  <2>1. ShapeOK(s)'
    <3>1. BlockSize \in Nat /\ BlockSize * 0 = 0 /\ Len(<<>>) = 0
      BY PoolAssumption
    <3>. QED BY <1>3, <3>1 DEF ShapeOK
  <2>2. \A t \in Seqs \ {s} : ShapeOK(t)'
    BY <1>1, <1>3 DEF MemoryInv, TableShape, ShapeOK
  <2>3. \A t \in Seqs : Len(text'[t]) = logical_token_count'[t]
    BY <1>3 DEF MemoryInv, TableShape
  <2>. QED BY <2>1, <2>2, <2>3 DEF TableShape
<1>12. TailExclusive'
  <2>1. TailOK(s)'
    BY <1>3 DEF TailOK
  <2>2. \A t \in Seqs \ sealed : t # s => TailOK(t)'
    BY <1>1, <1>3, <1>6, <1>7 DEF MemoryInv, TailExclusive, TailOK
  <2>. QED BY <1>1, <2>1, <2>2 DEF TailExclusive
<1>. QED BY <1>4, <1>5, <1>8, <1>9, <1>10, <1>11, <1>12 DEF MemoryInv-----------------------------------------------------------------------------
(***************************************************************************)
(* Every step, and what it means for the behaviours.                       *)
(***************************************************************************)

\* A prefill chunk is a forward pass over tokens of one sequence.
LEMMA ForwardPrefillChunkStep ==
    ASSUME MemoryInv, NEW s \in Seqs, NEW n \in ChunkSizes,
           NEW chunk \in [1 .. n -> Tokens], ForwardPrefillChunk(s, chunk)
    PROVE  MemoryInv'
<1>. DEFINE batch == [i \in DOMAIN chunk |-> [seq |-> s, tok |-> chunk[i]]]
<1>1. batch \in Seq([seq : Seqs, tok : Tokens])
  BY PoolAssumption
<1>2. StartForward(batch)
  BY DEF ForwardPrefillChunk
<1>. QED BY <1>1, <1>2, StartForwardStep

\* A decode batch is a forward pass over one token of each of several.
LEMMA ForwardDecodeBatchStep ==
    ASSUME MemoryInv, NEW ss \in DecodeBatches, NEW toks \in [DOMAIN ss -> Tokens],
           ForwardDecodeBatch(ss, toks)
    PROVE  MemoryInv'
<1>. DEFINE batch == [i \in DOMAIN ss |-> [seq |-> ss[i], tok |-> toks[i]]]
<1>1. Cardinality(Seqs) \in Nat
  BY SeqsAssumption, FS_CardinalityType
<1>2. PICK n \in 1 .. Cardinality(Seqs) : ss \in [1 .. n -> Seqs]
  BY DEF DecodeBatches, Injection
<1>3. n \in Nat /\ DOMAIN ss = 1 .. n /\ toks \in [1 .. n -> Tokens]
  BY <1>1, <1>2
<1>4. batch \in Seq([seq : Seqs, tok : Tokens])
  BY <1>2, <1>3
<1>5. StartForward(batch)
  BY DEF ForwardDecodeBatch
<1>. QED BY <1>4, <1>5, StartForwardStep

\* A step that leaves the memory alone keeps its invariant.
LEMMA StutterStep == MemoryInv /\ UNCHANGED memVars => MemoryInv'
<1>. SUFFICES ASSUME MemoryInv, UNCHANGED memVars PROVE MemoryInv'
  OBVIOUS
<1>. USE DEF memVars
<1>1. TypeOK'
  BY DEF MemoryInv, TypeOK, IsPartial, poolVars, cacheVars, seqVars, ctlVars,
         ghostVars
<1>2. ControlShape'
  BY DEF MemoryInv, ControlShape, ctlVars, seqVars, ghostVars
<1>3. /\ BlockConservation' /\ RefCountsExact' /\ LeavesExact'
      /\ ChildCountsExact' /\ CacheMapSound'
  BY MemoryUnchanged DEF poolVars, ctlVars, seqVars
<1>4. TableShape' /\ TailExclusive'
  BY SequencesUnchanged DEF cacheVars, ctlVars, ghostVars
<1>. QED BY <1>1, <1>2, <1>3, <1>4 DEF MemoryInv

\* MemoryInv is inductive.
THEOREM NextMemoryInv == MemoryInv /\ [Next]_memVars => MemoryInv'
<1>. SUFFICES ASSUME MemoryInv, [Next]_memVars PROVE MemoryInv'
  OBVIOUS
<1>1. CASE CallStep
  <2>1. CASE CommitBlock
    BY <2>1, CommitBlockStep
  <2>2. CASE PlaceToken
    BY <2>2, PlaceTokenStep
  <2>3. CASE OpenBlock
    BY <2>3, OpenBlockStep
  <2>4. CASE Compute
    BY <2>4, ComputeStep
  <2>5. CASE StartEvict \/ EvictDone \/ OutOfMemory
    BY <2>5, EvictControlStep
  <2>6. CASE EvictLeaf
    BY <2>6, EvictLeafStep
  <2>7. ASSUME NEW s \in Seqs, ReleaseBlock(s) PROVE MemoryInv'
    BY <2>7, ReleaseBlockStep
  <2>8. ASSUME NEW s \in Seqs, FinishRelease(s) PROVE MemoryInv'
    BY <2>8, FinishReleaseStep
  <2>. QED BY <1>1, <2>1, <2>2, <2>3, <2>4, <2>5, <2>6, <2>7, <2>8 DEF CallStep
<1>2. CASE CallStart
  <2>1. ASSUME NEW s \in Seqs, NEW chunk \in Chunks, PrefixHit(s, chunk)
        PROVE  MemoryInv'
    BY <2>1, PrefixHitStep
  <2>2. ASSUME NEW s \in Seqs, NEW n \in ChunkSizes,
               NEW chunk \in [1 .. n -> Tokens], ForwardPrefillChunk(s, chunk)
        PROVE  MemoryInv'
    BY <2>2, ForwardPrefillChunkStep
  <2>3. ASSUME NEW s \in Seqs, FlushCache(s) PROVE MemoryInv'
    BY <2>3, FlushCacheStep
  <2>4. ASSUME NEW s \in Seqs, StartRelease(s) PROVE MemoryInv'
    BY <2>4, StartReleaseStep
  <2>5. ASSUME NEW ss \in DecodeBatches, NEW toks \in [DOMAIN ss -> Tokens],
               ForwardDecodeBatch(ss, toks)
        PROVE  MemoryInv'
    BY <2>5, ForwardDecodeBatchStep
  <2>. QED BY <1>2, <2>1, <2>2, <2>3, <2>4, <2>5 DEF CallStart
<1>3. CASE UNCHANGED memVars
  BY <1>3, StutterStep
<1>. QED BY <1>1, <1>2, <1>3 DEF Next

(* The invariant of the paged memory holds in every reachable state.       *)
THEOREM MemorySafety == Spec => []MemoryInv
  BY InitMemoryInv, NextMemoryInv, PTL DEF Spec

(* Counters stay natural numbers and ids stay inside the pool.             *)
THEOREM TypeCorrect == Spec => []TypeOK
<1>1. MemoryInv => TypeOK
  BY DEF MemoryInv
<1>. QED BY <1>1, MemorySafety, PTL

(* No block is lost, freed twice, or free while a table or the cache has   *)
(* it (free_block, force_free_block, allocate_block).                      *)
THEOREM NoLeakNoDoubleFree == Spec => []BlockConservation
<1>1. MemoryInv => BlockConservation
  BY DEF MemoryInv
<1>. QED BY <1>1, MemorySafety, PTL

(* ref_count counts the uses of a block in the block tables.               *)
THEOREM ReferenceCounting == Spec => []RefCountsExact
<1>1. MemoryInv => RefCountsExact
  BY DEF MemoryInv
<1>. QED BY <1>1, MemorySafety, PTL

(* evictable_leaves is exactly the set of idle leaves of the cache.        *)
THEOREM EvictableLeaves == Spec => []LeavesExact
<1>1. MemoryInv => LeavesExact
  BY DEF MemoryInv
<1>. QED BY <1>1, MemorySafety, PTL

(* Eviction is topological: child_count is exact, a cached block's parent  *)
(* is cached.                                                              *)
THEOREM TopologicalEviction == Spec => []ChildCountsExact
<1>1. MemoryInv => ChildCountsExact
  BY DEF MemoryInv
<1>. QED BY <1>1, MemorySafety, PTL

(* A hit of check_cache is a cached block with the hash asked for.         *)
THEOREM HitsAreSound == Spec => []CacheMapSound
<1>1. MemoryInv => CacheMapSound
  BY DEF MemoryInv
<1>. QED BY <1>1, MemorySafety, PTL

(* A block that is still being filled is private to its sequence.          *)
THEOREM PrivateTails == Spec => []TailExclusive
<1>1. MemoryInv => TailExclusive
  BY DEF MemoryInv
<1>. QED BY <1>1, MemorySafety, PTL

(* No sequence wastes a whole block.                                       *)
THEOREM BoundedFragmentation == Spec => []FragmentationBound
<1>1. MemoryInv => FragmentationBound
  <2>1. SUFFICES ASSUME MemoryInv, NEW s \in Seqs \ releasing
                 PROVE  /\ logical_token_count[s] <= BlockSize * Len(block_table[s])
                        /\ BlockSize * Len(block_table[s])
                               < logical_token_count[s] + BlockSize
    BY DEF FragmentationBound
  <2>. DEFINE n == Len(block_table[s])
              m == Len(token_buffer[s])
  <2>2. /\ BlockSize \in Nat \ {0} /\ n \in Nat
        /\ logical_token_count[s] \in Nat
    BY <2>1, PoolAssumption DEF MemoryInv, TypeOK
  <2>3. \/ logical_token_count[s] = BlockSize * n
        \/ m \in 1 .. BlockSize /\ logical_token_count[s] = BlockSize * (n - 1) + m
    BY <2>1 DEF MemoryInv, TableShape, ShapeOK
  <2>. HIDE DEF n, m
  <2>4. BlockSize * (n - 1) = BlockSize * n - BlockSize /\ BlockSize * n \in Nat
    BY <2>2
  <2>. QED BY <2>2, <2>3, <2>4 DEF n
<1>. QED BY <1>1, MemorySafety, PTL
=============================================================================
