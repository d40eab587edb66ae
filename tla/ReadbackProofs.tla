--------------------------- MODULE ReadbackProofs ---------------------------
(***************************************************************************)
(* Proofs about what the pool holds, for every pool, block size and number *)
(* of sequences: shared KV entries never change under their readers, and,  *)
(* if no two texts that occur have the same hash, every sequence reads the *)
(* KV entries of its own text, so that the pool implements PrivateKV.      *)
(*                                                                         *)
(* A position of a sequence is looked at as the offset j in the k-th block *)
(* of its table; the quotient and remainder of Slot appear in SlotAt only. *)
(***************************************************************************)
EXTENDS PagedMemoryProofs

\* The positions behind the k-th block, and the one at offset j in it.
End(k)         == BlockSize * k
Position(k, j) == End(k) - BlockSize + j + 1

(* The texts fit the model's bound, also with what a pass still has to     *)
(* place.                                                                  *)
Pass(s) == {i \in DOMAIN todo : todo[i].seq = s}
BoundInv ==
    \A s \in Seqs :
        /\ Len(text[s]) <= MaxLen
        /\ pc \in {"append", "evict"} => Len(text[s]) + Cardinality(Pass(s)) <= MaxLen

(* KV entries lag behind the tokens during a forward pass only.            *)
LenInv ==
    \A s \in Seqs :
        /\ s \in releasing => kv_len[s] = 0
        /\ s \notin releasing => /\ kv_len[s] <= logical_token_count[s]
                                 /\ pc \in {"idle", "release"} =>
                                        kv_len[s] = logical_token_count[s]

(* A block that a pass will still write to has one user.                   *)
FreshExclusive ==
    \A s \in Seqs \ releasing : \A k \in DOMAIN block_table[s] :
        End(k) > kv_len[s] =>
            \A t \in Seqs : \A m \in DOMAIN block_table[t] :
                /\ block_table[t][m] = block_table[s][k]
                /\ t \in releasing => m > freed
                => t = s /\ m = k

(* A block is published when it is full.                                   *)
PartialUncached ==
    \A s \in Seqs \ releasing : \A k \in DOMAIN block_table[s] :
        End(k) > logical_token_count[s] => block_table[s][k] \notin Cached

ShareInv == BoundInv /\ LenInv /\ FreshExclusive /\ PartialUncached
-----------------------------------------------------------------------------
(* T is a way back from the hashes to the texts of Corpus: no two of them  *)
(* that are block by block in Corpus have one hash.                        *)
Decodes(T, Corpus) ==
    /\ T \in [Hashes -> Seq(Tokens)]
    /\ T[FNV_OFFSET_BASIS] = <<>>
    /\ \A h \in Hashes, c \in Chunks :
           T[h] \o c \in Corpus => T[hash_block_state(h, c)] = T[h] \o c

NoCollisions(Corpus) == \E T : Decodes(T, Corpus)

\* The tokens of s that its hash does not cover.
Pending(s) ==
    IF s \in sealed /\ Len(token_buffer[s]) = BlockSize THEN <<>> ELSE token_buffer[s]

(* The hash of a sequence is the hash of its full blocks.                  *)
HashTells(T) == \A s \in Seqs : text[s] = T[current_hash[s]] \o Pending(s)

(* A published block of a table is published for the table's own text.     *)
TableTexts(T) ==
    \A s \in Seqs \ releasing : \A k \in DOMAIN block_table[s] :
        block_table[s][k] \in Cached =>
            T[reverse_map[block_table[s][k]]] = SubSeq(text[s], 1, End(k))

(* Entry j of a published block is that of the text it is published for,   *)
(* or a pass will write it.                                                *)
Right(T, b, j) ==
    LET t == T[reverse_map[b]]
    IN  kv[<<b, j>>] = SubSeq(t, 1, Len(t) - BlockSize + j + 1)
CachedHolds(T) ==
    \A b \in Cached : \A j \in 0 .. BlockSize - 1 :
        \/ Right(T, b, j)
        \/ \E s \in Seqs \ releasing : \E k \in DOMAIN block_table[s] :
               block_table[s][k] = b /\ Position(k, j) > kv_len[s]

(* Readback, in the coordinates of the blocks.                             *)
ReadAt ==
    \A s \in Seqs \ releasing : \A k \in DOMAIN block_table[s] :
        \A j \in 0 .. BlockSize - 1 :
            Position(k, j) <= kv_len[s] =>
                kv[<<block_table[s][k], j>>] = SubSeq(text[s], 1, Position(k, j))

ReadInv(T) == HashTells(T) /\ TableTexts(T) /\ CachedHolds(T) /\ ReadAt
-----------------------------------------------------------------------------
(* What a pass has placed is the chunk of one sequence or one token each.  *)
PassShape ==
    pc \in {"append", "evict"} =>
        \/ \E s \in Seqs :
               /\ \A i \in DOMAIN todo : todo[i].seq = s
               /\ \A t \in Seqs \ {s} : kv_len[t] = logical_token_count[t]
        \/ /\ \A i, j \in DOMAIN todo : todo[i].seq = todo[j].seq => i = j
           /\ \A t \in Seqs : logical_token_count[t] <= kv_len[t] + 1
           /\ \A i \in DOMAIN todo :
                  logical_token_count[todo[i].seq] = kv_len[todo[i].seq]
-----------------------------------------------------------------------------
(***************************************************************************)
(* Positions and slots.                                                    *)
(***************************************************************************)

\* Blocks end one block size after each other.
LEMMA EndArith ==
    /\ BlockSize \in Nat /\ BlockSize >= 1
    /\ End(0) = 0
    /\ \A k \in Nat : End(k) \in Nat /\ End(k + 1) = End(k) + BlockSize
    /\ \A k, m \in Nat : k < m => End(k) + BlockSize <= End(m)
<1>1. BlockSize \in Nat /\ BlockSize >= 1
  BY PoolAssumption
<1>2. End(0) = 0
  BY <1>1 DEF End
<1>3. \A k \in Nat : End(k) \in Nat /\ End(k + 1) = End(k) + BlockSize
  BY <1>1 DEF End
<1>4. ASSUME NEW k \in Nat, NEW m \in Nat, k < m
      PROVE  End(k) + BlockSize <= End(m)
  <2>. DEFINE d == m - (k + 1)
  <2>1. d \in Nat /\ m = (k + 1) + d
    BY <1>4
  <2>. HIDE DEF d
  <2>2. BlockSize * m = BlockSize * (k + 1) + BlockSize * d
    BY <1>1, <2>1
  <2>3. BlockSize * d \in Nat
    BY <1>1, <2>1
  <2>4. End(m) = End(k + 1) + BlockSize * d
    BY <2>2 DEF End
  <2>. QED BY <1>1, <1>3, <2>3, <2>4
<1>. QED BY <1>1, <1>2, <1>3, <1>4

\* The positions of block k lie between its ends, and a position is in one
\* block, at one offset.
LEMMA PositionArith ==
    ASSUME NEW k \in Nat \ {0}, NEW j \in 0 .. BlockSize - 1
    PROVE  /\ Position(k, j) \in Nat \ {0}
           /\ End(k) - BlockSize < Position(k, j) /\ Position(k, j) <= End(k)
           /\ \A m \in Nat \ {0} : \A i \in 0 .. BlockSize - 1 :
                  Position(k, j) = Position(m, i) => k = m /\ j = i
<1>1. /\ BlockSize \in Nat /\ End(k) \in Nat /\ End(k - 1) \in Nat
      /\ End(k) = End(k - 1) + BlockSize
  <2>1. k - 1 \in Nat /\ k \in Nat /\ (k - 1) + 1 = k
    OBVIOUS
  <2>. QED BY <2>1, EndArith
<1>2. /\ Position(k, j) \in Nat \ {0}
      /\ End(k) - BlockSize < Position(k, j) /\ Position(k, j) <= End(k)
  BY <1>1 DEF Position
<1>3. ASSUME NEW m \in Nat \ {0}, NEW i \in 0 .. BlockSize - 1,
             Position(k, j) = Position(m, i)
      PROVE  k = m /\ j = i
  <2>1. End(m) \in Nat /\ End(k) + j = End(m) + i
    <3>1. End(m) \in Nat
      BY EndArith
    <3>. QED BY <1>1, <1>3, <3>1 DEF Position
  <2>2. ~(k < m) /\ ~(m < k)
    <3>1. k < m => End(k) + BlockSize <= End(m)
      BY EndArith
    <3>2. m < k => End(m) + BlockSize <= End(k)
      BY EndArith
    <3>. QED BY <1>1, <2>1, <3>1, <3>2
  <2>3. k = m
    BY <2>2
  <2>. QED BY <1>1, <2>1, <2>3
<1>. QED BY <1>2, <1>3

\* The kernels find offset j of the k-th block at that position.
LEMMA SlotAt ==
    ASSUME NEW s, NEW k \in Nat \ {0}, NEW j \in 0 .. BlockSize - 1
    PROVE  Slot(s, Position(k, j)) = <<block_table[s][k], j>>
<1>. DEFINE x == Position(k, j) - 1
            d == x \div BlockSize
            r == x % BlockSize
<1>1. BlockSize \in Nat \ {0} /\ k - 1 \in Int
  BY PoolAssumption
<1>2. x = BlockSize * (k - 1) + j
  BY <1>1 DEF Position, End
<1>3. r = j
  BY <1>1, <1>2, Remainder
<1>4. /\ x \in Int /\ d \in Int
      /\ x = BlockSize * d + r
  BY <1>1, <1>2
<1>. HIDE DEF x, d, r
<1>5. BlockSize * (k - 1) = BlockSize * d
  BY <1>1, <1>2, <1>3, <1>4
<1>6. k - 1 = d
  BY <1>1, <1>4, <1>5
<1>7. d + 1 = k
  BY <1>4, <1>6
<1>. QED BY <1>3, <1>7 DEF Slot, x, d, r

\* Every position of n blocks is at some offset of one of them.
LEMMA PositionOf ==
    ASSUME NEW n \in Nat, NEW i \in 1 .. End(n)
    PROVE  \E k \in 1 .. n : \E j \in 0 .. BlockSize - 1 : i = Position(k, j)
<1>. DEFINE d == (i - 1) \div BlockSize
            r == (i - 1) % BlockSize
<1>1. BlockSize \in Nat \ {0} /\ End(n) \in Nat
  BY EndArith
<1>2. /\ d \in Int /\ r \in 0 .. BlockSize - 1
      /\ i - 1 = BlockSize * d + r
  BY <1>1
<1>. HIDE DEF d, r
<1>3. d >= 0
  <2>1. d <= -1 => BlockSize * d <= -BlockSize
    BY <1>1, <1>2
  <2>. QED BY <1>1, <1>2, <2>1
<1>4. d \in Nat /\ d + 1 \in Nat
  BY <1>2, <1>3
<1>5. d + 1 <= n
  <2>1. n < d + 1 => End(n) + BlockSize <= End(d + 1)
    BY <1>4, EndArith
  <2>2. End(d + 1) = End(d) + BlockSize /\ End(d) = BlockSize * d
    BY <1>4, EndArith DEF End
  <2>3. BlockSize * d < End(n)
    BY <1>1, <1>2
  <2>. QED BY <1>1, <1>4, <2>1, <2>2, <2>3
<1>6. i = Position(d + 1, r)
  <2>1. End(d + 1) = BlockSize * d + BlockSize
    BY <1>4, EndArith DEF End
  <2>. QED BY <1>1, <1>2, <2>1 DEF Position
<1>. QED BY <1>2, <1>4, <1>5, <1>6

\* What MemoryInv says of the table of a sequence, its tokens and its buffer.
LEMMA TableFacts ==
    ASSUME MemoryInv, NEW s \in Seqs, s \notin releasing
    PROVE  /\ block_table[s] \in Seq(Blocks)
           /\ Len(block_table[s]) \in Nat
           /\ DOMAIN block_table[s] = 1 .. Len(block_table[s])
           /\ text[s] \in Seq(Tokens) /\ token_buffer[s] \in Seq(Tokens)
           /\ logical_token_count[s] \in Nat /\ kv_len[s] \in Nat
           /\ Len(text[s]) = logical_token_count[s]
           /\ logical_token_count[s] <= End(Len(block_table[s]))
           /\ block_table[s] # <<>> =>
                  End(Len(block_table[s])) < logical_token_count[s] + BlockSize
           /\ \A k \in DOMAIN block_table[s] :
                  k < Len(block_table[s]) => End(k) <= logical_token_count[s]
           /\ token_buffer[s] = <<>> =>
                  logical_token_count[s] = End(Len(block_table[s]))
           /\ token_buffer[s] # <<>> =>
                  /\ block_table[s] # <<>>
                  /\ Len(token_buffer[s]) \in 1 .. BlockSize
                  /\ logical_token_count[s] =
                         End(Len(block_table[s])) - BlockSize + Len(token_buffer[s])
<1>. DEFINE n == Len(block_table[s])
            m == Len(token_buffer[s])
<1>1. /\ block_table[s] \in Seq(Blocks) /\ n \in Nat
      /\ DOMAIN block_table[s] = 1 .. n
      /\ text[s] \in Seq(Tokens) /\ token_buffer[s] \in Seq(Tokens)
      /\ logical_token_count[s] \in Nat /\ kv_len[s] \in Nat
      /\ Len(text[s]) = logical_token_count[s]
      /\ block_table[s] # <<>> <=> n > 0
      /\ m \in Nat /\ (token_buffer[s] # <<>> <=> m > 0)
  <2>1. /\ block_table[s] \in Seq(Blocks)
        /\ text[s] \in Seq(Tokens) /\ token_buffer[s] \in Seq(Tokens)
        /\ logical_token_count[s] \in Nat /\ kv_len[s] \in Nat
        /\ Len(text[s]) = logical_token_count[s]
    BY DEF MemoryInv, TypeOK, TableShape
  <2>. QED BY <2>1, EmptySeq
<1>2. /\ BlockSize \in Nat /\ BlockSize >= 1
      /\ End(n) \in Nat
      /\ n > 0 => End(n) - BlockSize = BlockSize * (n - 1)
  <2>1. BlockSize \in Nat /\ BlockSize >= 1 /\ End(n) \in Nat
    BY <1>1, EndArith
  <2>2. n > 0 => End(n - 1) \in Nat /\ End((n - 1) + 1) = End(n - 1) + BlockSize
    <3>1. n > 0 => n - 1 \in Nat
      BY <1>1
    <3>. QED BY <3>1, EndArith
  <2>3. n > 0 => (n - 1) + 1 = n /\ End(n - 1) = BlockSize * (n - 1)
    BY <1>1 DEF End
  <2>. QED BY <2>1, <2>2, <2>3
<1>3. \/ m = 0 /\ logical_token_count[s] = End(n)
      \/ m \in 1 .. BlockSize /\ n > 0 /\ logical_token_count[s] = End(n) - BlockSize + m
  <2>1. ShapeOK(s)
    BY DEF MemoryInv, TableShape
  <2>2. CASE m = 0
    <3>1. token_buffer[s] = <<>> /\ Len(token_buffer[s]) = 0
      BY <1>1, <2>2
    <3>2. ~(Len(token_buffer[s]) \in 1 .. BlockSize)
      BY <3>1
    <3>. QED BY <2>1, <2>2, <3>2 DEF ShapeOK, End
  <2>3. CASE m # 0
    <3>1. token_buffer[s] # <<>>
      BY <1>1, <2>3
    <3>2. /\ m \in 1 .. BlockSize /\ block_table[s] # <<>>
          /\ logical_token_count[s] = BlockSize * (n - 1) + m
      BY <2>1, <3>1 DEF ShapeOK
    <3>3. n > 0 /\ End(n) - BlockSize = BlockSize * (n - 1)
      BY <1>1, <1>2, <3>2
    <3>. QED BY <3>2, <3>3
  <2>. QED BY <2>2, <2>3
<1>4. ASSUME NEW k \in DOMAIN block_table[s], k < n
      PROVE  End(k) <= logical_token_count[s]
  <2>1. k \in Nat /\ End(k) \in Nat /\ End(k) + BlockSize <= End(n)
    <3>1. k \in Nat
      BY <1>1
    <3>. QED BY <1>1, <1>4, <3>1, EndArith
  <2>. QED BY <1>1, <1>2, <1>3, <2>1
<1>. HIDE DEF n, m
<1>5. /\ logical_token_count[s] <= End(n)
      /\ n > 0 => End(n) < logical_token_count[s] + BlockSize
      /\ m = 0 => logical_token_count[s] = End(n)
      /\ m # 0 => n > 0 /\ m \in 1 .. BlockSize /\ logical_token_count[s] = End(n) - BlockSize + m
  BY <1>1, <1>2, <1>3
<1>. QED BY <1>1, <1>4, <1>5 DEF n, m

\* A prefix of a text stays when the text grows.
LEMMA PrefixStays ==
    ASSUME NEW S, NEW q \in Seq(S), NEW r \in Seq(S), NEW n \in Nat, n <= Len(q)
    PROVE  SubSeq(q \o r, 1, n) = SubSeq(q, 1, n)
<1>1. CASE n = 0
  BY <1>1, SubSeqEmpty
<1>2. CASE n # 0
  <2>1. 1 \in 1 .. Len(q) /\ n \in 1 .. Len(q)
    BY <1>2
  <2>. QED BY <2>1, SubSeqOfConcat1
<1>. QED BY <1>1, <1>2

\* A prefix of a prefix is a prefix.
LEMMA PrefixOfPrefix ==
    ASSUME NEW S, NEW q \in Seq(S), NEW m \in Nat, m <= Len(q),
           NEW n \in Nat, n <= m
    PROVE  /\ SubSeq(SubSeq(q, 1, m), 1, n) = SubSeq(q, 1, n)
           /\ SubSeq(q, 1, m) \in Seq(S)
           /\ Len(SubSeq(q, 1, m)) = m
<1>1. SubSeq(q, 1, m) \in Seq(S) /\ Len(SubSeq(q, 1, m)) = m
  <2>1. \A i \in 1 .. m : q[i] \in S
    OBVIOUS
  <2>. QED BY <2>1, SubSeqProperties
<1>2. SubSeq(SubSeq(q, 1, m), 1, n) = SubSeq(q, 1, n)
  <2>1. CASE n = 0
    BY <2>1, SubSeqEmpty
  <2>2. CASE n # 0
    <3>1. /\ 1 \in 1 .. Len(q) /\ m \in 1 .. Len(q)
          /\ 1 \in 1 .. m - 1 + 1 /\ n \in 1 .. m - 1 + 1
      BY <2>2
    <3>2. SubSeq(SubSeq(q, 1, m), 1, n) = SubSeq(q, 1 + 1 - 1, 1 + n - 1)
      BY <3>1, SubSeqOfSubSeq
    <3>. QED BY <3>2
  <2>. QED BY <2>1, <2>2
<1>. QED BY <1>1, <1>2

-----------------------------------------------------------------------------
(***************************************************************************)
(* What the steps do to tables, texts and the cache.                       *)
(***************************************************************************)

\* No table that is still referred to holds b.
Unused(b) ==
    \A t \in Seqs : \A m \in DOMAIN block_table[t] :
        block_table[t][m] = b => t \in releasing /\ m <= freed

\* s alone refers to b, at the k-th place.
OnlyAt(b, s, k) ==
    \A t \in Seqs : \A m \in DOMAIN block_table[t] :
        block_table[t][m] = b /\ (t \in releasing => m > freed) => t = s /\ m = k

\* A block without references is in no table.
LEMMA UnusedIfZero ==
    ASSUME MemoryInv, NEW b \in Blocks, ref_count[b] = 0
    PROVE  Unused(b)
<1>1. Uses(b) = {}
  <2>1. IsFiniteSet(Uses(b)) /\ Cardinality(Uses(b)) = 0
    BY DEF MemoryInv, RefCountsExact
  <2>. QED BY <2>1, FS_EmptySet
<1>2. SUFFICES ASSUME NEW t \in Seqs, NEW m \in DOMAIN block_table[t],
                      block_table[t][m] = b, ~(t \in releasing /\ m <= freed)
               PROVE  FALSE
  BY DEF Unused
<1>3. m \in Nat /\ freed \in Nat
  <2>1. block_table[t] \in Seq(Blocks) /\ freed \in Nat
    BY DEF MemoryInv, TypeOK
  <2>. QED BY <2>1
<1>4. <<t, m>> \in Uses(b)
  BY <1>2, <1>3, UsesMember
<1>. QED BY <1>1, <1>4

\* insert_cache publishes the full last block of s, which nobody else has.
LEMMA Published ==
    ASSUME MemoryInv, NEW s \in Seqs, s \notin sealed, s \notin releasing,
           Len(token_buffer[s]) = BlockSize, InsertCache(s)
    PROVE  /\ token_buffer[s] \in Chunks
           /\ \E b \in Blocks : \E h \in Hashes :
               /\ block_table[s] # <<>>
               /\ b = block_table[s][Len(block_table[s])]
               /\ b \notin Cached
               /\ OnlyAt(b, s, Len(block_table[s]))
               /\ End(Len(block_table[s])) = logical_token_count[s]
               /\ h = hash_block_state(current_hash[s], token_buffer[s])
               /\ Cached' = Cached \cup {b}
               /\ reverse_map'[b] = h
               /\ \A c \in Cached : reverse_map'[c] = reverse_map[c]
               /\ current_hash' = [current_hash EXCEPT ![s] = h]
               /\ UNCHANGED <<kv, block_table, logical_token_count, text, kv_len>>
<1>. DEFINE n == Len(block_table[s])
            b == block_table[s][n]
            h == hash_block_state(current_hash[s], token_buffer[s])
<1>1. BlockSize \in Nat /\ BlockSize >= 1
  BY EndArith
<1>2. /\ block_table[s] \in Seq(Blocks) /\ n \in Nat
      /\ DOMAIN block_table[s] = 1 .. n
      /\ token_buffer[s] \in Seq(Tokens)
  BY TableFacts
<1>3. token_buffer[s] # <<>>
  BY <1>1
<1>4. /\ block_table[s] # <<>>
      /\ End(n) = logical_token_count[s]
  <2>1. /\ block_table[s] # <<>>
        /\ logical_token_count[s] = End(n) - BlockSize + Len(token_buffer[s])
    BY <1>3, TableFacts
  <2>2. End(n) \in Nat
    BY <1>2, EndArith
  <2>. QED BY <1>1, <2>1, <2>2
<1>5. n \in DOMAIN block_table[s] /\ b \in Blocks /\ Last(block_table[s]) = b
  BY <1>2, <1>4, EmptySeq DEF Last
<1>6. b \notin Cached /\ Uses(b) = {<<s, n>>}
  <2>1. TailOK(s)
    BY DEF MemoryInv, TailExclusive
  <2>. QED BY <1>3, <1>4, <1>5, <2>1 DEF TailOK
<1>7. OnlyAt(b, s, n)
  <2>1. SUFFICES ASSUME NEW t \in Seqs, NEW m \in DOMAIN block_table[t],
                        block_table[t][m] = b, t \in releasing => m > freed
                 PROVE  t = s /\ m = n
    BY DEF OnlyAt
  <2>2. <<t, m>> \in Uses(b)
    BY <2>1, UsesMember
  <2>. QED BY <1>6, <2>2
<1>8. token_buffer[s] \in Chunks
  BY <1>2 DEF Chunks
<1>9. h \in Hashes
  BY <1>8, HashAssumption DEF MemoryInv, TypeOK
<1>10. /\ reverse_map' = Put(reverse_map, b, h)
       /\ current_hash' = [current_hash EXCEPT ![s] = h]
       /\ UNCHANGED <<kv, block_table, logical_token_count, text, kv_len>>
  BY <1>5 DEF InsertCache
<1>. HIDE DEF b, h, n
<1>11. /\ Cached' = Cached \cup {b}
       /\ reverse_map'[b] = h
       /\ \A c \in Cached : reverse_map'[c] = reverse_map[c]
  BY <1>6, <1>10 DEF Put, Cached
<1>. QED BY <1>4, <1>5, <1>6, <1>7, <1>8, <1>9, <1>10, <1>11 DEF b, h, n

\* The token in front is recorded, in a new block if the last one is full.
LEMMA Placed ==
    ASSUME MemoryInv, PlaceToken \/ OpenBlock
    PROVE  \E s \in Seqs : \E tok \in Tokens :
               /\ pc = "append" /\ pc' = pc
               /\ releasing = {} /\ freed = 0
               /\ s \notin sealed
               /\ todo # <<>> /\ todo[1].seq = s /\ todo[1].tok = tok
               /\ todo' = Tail(todo)
               /\ Len(token_buffer[s]) # BlockSize
               /\ token_buffer' = [token_buffer EXCEPT ![s] = Append(@, tok)]
               /\ logical_token_count' = [logical_token_count EXCEPT ![s] = @ + 1]
               /\ text' = [text EXCEPT ![s] = Append(@, tok)]
               /\ UNCHANGED <<kv, reverse_map, current_hash, releasing, freed,
                              kv_len, sealed>>
               /\ \/ block_table' = block_table
                  \/ \E id \in Blocks :
                         /\ id \notin Cached /\ Unused(id)
                         /\ logical_token_count[s] = End(Len(block_table[s]))
                         /\ block_table' = [block_table EXCEPT ![s] = Append(@, id)]
<1>1. pc = "append" /\ todo # <<>>
  BY DEF PlaceToken, OpenBlock, NeedsBlock
<1>2. /\ todo[1].seq \in Seqs /\ todo[1].tok \in Tokens
      /\ todo[1].seq \notin sealed /\ releasing = {} /\ freed = 0
  BY <1>1, FrontToken
<1>. DEFINE s == todo[1].seq
            tok == todo[1].tok
<1>3. /\ RecordToken(s, tok)
      /\ Len(token_buffer[s]) # BlockSize
      /\ pc' = pc
      /\ UNCHANGED <<kv, reverse_map, current_hash, releasing, freed,
                     kv_len, sealed>>
  BY DEF PlaceToken, OpenBlock, NeedsBlock, cacheVars
<1>4. CASE PlaceToken
  <2>1. block_table' = block_table
    BY <1>4 DEF PlaceToken
  <2>. QED BY <1>1, <1>2, <1>3, <2>1 DEF RecordToken
<1>5. CASE OpenBlock
  <2>. DEFINE id == Last(free_list)
  <2>1. /\ free_list # <<>>
        /\ logical_token_count[s] % BlockSize = 0
        /\ block_table' = [block_table EXCEPT ![s] = Append(@, id)]
    BY <1>5 DEF OpenBlock, NeedsBlock
  <2>2. id \in Blocks /\ id \in ToSet(free_list)
    <3>1. free_list \in Seq(Blocks)
      BY DEF MemoryInv, TypeOK
    <3>. QED BY <2>1, <3>1, FrontMember
  <2>. HIDE DEF id
  <2>3. id \notin Cached /\ Unused(id)
    <3>1. id \notin Cached /\ ref_count[id] = 0
      BY <2>2 DEF MemoryInv, BlockConservation
    <3>. QED BY <2>2, <3>1, UnusedIfZero
  <2>4. logical_token_count[s] = End(Len(block_table[s]))
    <3>. DEFINE m == Len(token_buffer[s])
                n == Len(block_table[s])
    <3>1. CASE token_buffer[s] = <<>>
      BY <1>2, <3>1, TableFacts
    <3>2. CASE token_buffer[s] # <<>>
      <4>1. ShapeOK(s) /\ token_buffer[s] \in Seq(Tokens)
            /\ block_table[s] \in Seq(Blocks)
        BY <1>2 DEF MemoryInv, TableShape, TypeOK
      <4>2. /\ m \in 1 .. BlockSize
            /\ logical_token_count[s] = BlockSize * (n - 1) + m
            /\ n \in Nat
        BY <3>2, <4>1 DEF ShapeOK
      <4>3. m # BlockSize
        BY <1>3
      <4>. HIDE DEF m, n
      <4>5. m \in 0 .. BlockSize - 1 /\ n - 1 \in Int
        BY <4>2, <4>3, EndArith
      <4>4. logical_token_count[s] % BlockSize = m
        BY <4>2, <4>5, Remainder, PoolAssumption
      <4>. QED BY <2>1, <4>2, <4>4
    <3>. QED BY <3>1, <3>2
  <2>. QED BY <1>1, <1>2, <1>3, <2>1, <2>2, <2>3, <2>4 DEF RecordToken
<1>. QED BY <1>4, <1>5

\* A prefix hit shares a published block at a block boundary.
LEMMA Shared ==
    ASSUME MemoryInv, NEW s \in Seqs, NEW chunk \in Chunks, PrefixHit(s, chunk)
    PROVE  /\ chunk \in Seq(Tokens) /\ Len(chunk) = BlockSize
           /\ \E hit \in Blocks : \E h \in Hashes :
               /\ pc = "idle" /\ pc' = pc
               /\ releasing = {} /\ freed = 0
               /\ token_buffer[s] = <<>>
               /\ Len(text[s]) + BlockSize <= MaxLen
               /\ h = hash_block_state(current_hash[s], chunk)
               /\ hit \in Cached /\ reverse_map[hit] = h
               /\ block_table' = [block_table EXCEPT ![s] = Append(@, hit)]
               /\ logical_token_count' =
                      [logical_token_count EXCEPT ![s] = @ + BlockSize]
               /\ current_hash' = [current_hash EXCEPT ![s] = h]
               /\ text' = [text EXCEPT ![s] = @ \o chunk]
               /\ kv_len' = [kv_len EXCEPT ![s] = @ + BlockSize]
               /\ UNCHANGED <<kv, reverse_map, token_buffer, todo, releasing,
                              freed, sealed>>
<1>. DEFINE h == hash_block_state(current_hash[s], chunk)
            hit == cache_map[h]
<1>1. h \in Hashes
  BY HashAssumption DEF MemoryInv, TypeOK
<1>2. /\ h \in DOMAIN cache_map
      /\ pc = "idle" /\ token_buffer[s] = <<>>
      /\ Len(text[s]) + BlockSize <= MaxLen
      /\ block_table' = [block_table EXCEPT ![s] = Append(@, hit)]
      /\ logical_token_count' = [logical_token_count EXCEPT ![s] = @ + BlockSize]
      /\ current_hash' = [current_hash EXCEPT ![s] = h]
      /\ text' = [text EXCEPT ![s] = @ \o chunk]
      /\ kv_len' = [kv_len EXCEPT ![s] = @ + BlockSize]
      /\ UNCHANGED <<kv, reverse_map, token_buffer, ctlVars, sealed>>
  BY DEF PrefixHit
<1>3. hit \in Blocks /\ hit \in Cached /\ reverse_map[hit] = h
  BY <1>2 DEF MemoryInv, TypeOK, IsPartial, CacheMapSound
<1>4. chunk \in Seq(Tokens) /\ Len(chunk) = BlockSize
  BY EndArith DEF Chunks
<1>5. releasing = {} /\ freed = 0
  BY <1>2 DEF MemoryInv, ControlShape
<1>6. UNCHANGED <<pc, todo, releasing, freed>>
  BY <1>2 DEF ctlVars
<1>. HIDE DEF h, hit
<1>. QED BY <1>1, <1>2, <1>3, <1>4, <1>5, <1>6 DEF h

\* What a pass places: a chunk of one sequence, or one token of each of some.
OneOrEach(batch) ==
    \/ \E s \in Seqs : \A i \in DOMAIN batch : batch[i].seq = s
    \/ \A i, j \in DOMAIN batch : batch[i].seq = batch[j].seq => i = j

(* A step of the memory, without the model's bounds on what a pass places: *)
(* the server's passes have the size that its budget leaves them.          *)
MemoryStep ==
    \/ [Next]_memVars
    \/ \E batch \in Seq([seq : Seqs, tok : Tokens]) :
           StartForward(batch) /\ OneOrEach(batch)

(* A step that only moves the engine thread: a pass begins, or the loop of *)
(* evict_lru_block does, or ends.                                          *)
ThreadMoves ==
    /\ UNCHANGED <<kv, reverse_map, block_table, logical_token_count,
                   current_hash, token_buffer, releasing, freed, text, kv_len,
                   sealed>>
    /\ \/ pc' = pc /\ todo' = todo
       \/ /\ pc \in {"append", "evict"} /\ pc' \in {"append", "evict", "exit"}
          /\ todo' = todo
       \/ \E batch \in Seq([seq : Seqs, tok : Tokens]) :
              StartForward(batch) /\ OneOrEach(batch)

\* The passes of the model place one chunk, or one token of each sequence.
LEMMA PassesFit ==
    /\ \A s \in Seqs : \A n \in ChunkSizes : \A chunk \in [1 .. n -> Tokens] :
           ForwardPrefillChunk(s, chunk) => ThreadMoves
    /\ \A ss \in DecodeBatches : \A toks \in [DOMAIN ss -> Tokens] :
           ForwardDecodeBatch(ss, toks) => ThreadMoves
<1>1. ASSUME NEW s \in Seqs, NEW n \in ChunkSizes, NEW chunk \in [1 .. n -> Tokens],
             ForwardPrefillChunk(s, chunk)
      PROVE  ThreadMoves
  <2>. DEFINE batch == [i \in DOMAIN chunk |-> [seq |-> s, tok |-> chunk[i]]]
  <2>1. batch \in Seq([seq : Seqs, tok : Tokens])
    BY PoolAssumption
  <2>2. StartForward(batch)
    BY <1>1 DEF ForwardPrefillChunk
  <2>3. \A i \in DOMAIN batch : batch[i].seq = s
    OBVIOUS
  <2>. HIDE DEF batch
  <2>4. OneOrEach(batch)
    BY <2>3 DEF OneOrEach
  <2>. QED BY <2>1, <2>2, <2>4 DEF ThreadMoves, StartForward, cacheVars, seqVars,
                                  ghostVars
<1>2. ASSUME NEW ss \in DecodeBatches, NEW toks \in [DOMAIN ss -> Tokens],
             ForwardDecodeBatch(ss, toks)
      PROVE  ThreadMoves
  <2>. DEFINE batch == [i \in DOMAIN ss |-> [seq |-> ss[i], tok |-> toks[i]]]
  <2>1. Cardinality(Seqs) \in Nat
    BY SeqsAssumption, FS_CardinalityType
  <2>2. PICK n \in 1 .. Cardinality(Seqs) : /\ ss \in [1 .. n -> Seqs]
                                            /\ IsInjective(ss)
    BY DEF DecodeBatches, Injection
  <2>3. n \in Nat /\ DOMAIN ss = 1 .. n /\ toks \in [1 .. n -> Tokens]
    BY <2>1, <2>2
  <2>4. batch \in Seq([seq : Seqs, tok : Tokens])
    BY <2>2, <2>3
  <2>5. StartForward(batch)
    BY <1>2 DEF ForwardDecodeBatch
  <2>6. \A i, j \in DOMAIN batch : batch[i].seq = batch[j].seq => i = j
    BY <2>2 DEF IsInjective
  <2>. HIDE DEF batch
  <2>7. OneOrEach(batch)
    BY <2>6 DEF OneOrEach
  <2>. QED BY <2>4, <2>5, <2>7 DEF ThreadMoves, StartForward, cacheVars, seqVars,
                                  ghostVars
<1>. QED BY <1>1, <1>2

\* What a step of the memory may be.
LEMMA StepSplits ==
    ASSUME MemoryStep
    PROVE  \/ ThreadMoves \/ CommitBlock \/ PlaceToken \/ OpenBlock \/ Compute
           \/ EvictLeaf
           \/ \E s \in Seqs :
                  \/ FlushCache(s) \/ StartRelease(s) \/ ReleaseBlock(s)
                  \/ FinishRelease(s) \/ \E chunk \in Chunks : PrefixHit(s, chunk)
<1>1. CASE UNCHANGED memVars
  BY <1>1 DEF ThreadMoves, memVars, cacheVars, seqVars, ctlVars, ghostVars
<1>2. CASE StartEvict \/ EvictDone \/ OutOfMemory
  BY <1>2 DEF ThreadMoves, StartEvict, EvictDone, OutOfMemory, cacheVars, seqVars,
              ghostVars
<1>3. CASE CallStep
  BY <1>2, <1>3 DEF CallStep
<1>4. CASE CallStart
  BY <1>4, PassesFit DEF CallStart
<1>5. ASSUME NEW batch \in Seq([seq : Seqs, tok : Tokens]), StartForward(batch),
             OneOrEach(batch)
      PROVE  ThreadMoves
  BY <1>5 DEF ThreadMoves, StartForward, cacheVars, seqVars, ghostVars
<1>. QED BY <1>1, <1>3, <1>4, <1>5 DEF MemoryStep, Next

\* ... and it keeps the invariant of the memory.
LEMMA StepKeepsMemory == MemoryInv /\ MemoryStep => MemoryInv'
BY NextMemoryInv, StartForwardStep DEF MemoryStep

\* The lengths of the texts, once the token in front has been placed.
LEMMA PassShrinks ==
    ASSUME MemoryInv, todo # <<>>, pc = "append", todo' = Tail(todo),
           NEW s \in Seqs
    PROVE  /\ IsFiniteSet(Pass(s)) /\ IsFiniteSet(Pass(s)')
           /\ Cardinality(Pass(s)) \in Nat /\ Cardinality(Pass(s)') \in Nat
           /\ Cardinality(Pass(s)') + (IF todo[1].seq = s THEN 1 ELSE 0)
                  <= Cardinality(Pass(s))
<1>. DEFINE S == [seq : Seqs, tok : Tokens]
            new == Pass(s)'
            old == Pass(s) \ {1}
            Shift == [i \in new |-> i + 1]
<1>1. todo \in Seq(S)
  BY DEF MemoryInv, TypeOK
<1>. HIDE DEF S
<1>2. \A i \in DOMAIN Tail(todo) :
          i \in Nat \ {0} /\ i + 1 \in DOMAIN todo /\ Tail(todo)[i] = todo[i + 1]
  BY <1>1, TailMember
<1>3. /\ IsFiniteSet(Pass(s)) /\ Cardinality(Pass(s)) \in Nat
      /\ 1 \in DOMAIN todo
  <2>1. DOMAIN todo = 1 .. Len(todo) /\ Len(todo) \in Nat \ {0}
    BY <1>1, EmptySeq
  <2>2. IsFiniteSet(DOMAIN todo)
    BY <2>1, FS_Interval
  <2>. QED BY <2>1, <2>2, FS_Subset, FS_CardinalityType DEF Pass
<1>4. IsFiniteSet(old) /\ Cardinality(old) \in Nat
  BY <1>3, FS_RemoveElement, FS_CardinalityType
<1>5. \A i \in new : i \in Nat \ {0} /\ i + 1 \in old
  BY <1>2 DEF Pass
<1>6. Shift \in Injection(new, old)
  <2>. HIDE DEF new, old
  <2>1. Shift \in [new -> old]
    BY <1>5
  <2>2. IsInjective(Shift)
    BY <1>5 DEF IsInjective
  <2>. QED BY <2>1, <2>2 DEF Injection
<1>7. /\ IsFiniteSet(new) /\ Cardinality(new) \in Nat
      /\ Cardinality(new) <= Cardinality(old)
  <2>. HIDE DEF new, old, Shift
  <2>. QED BY <1>4, <1>6, FS_Injection, FS_CardinalityType
<1>8. Cardinality(old) = IF todo[1].seq = s THEN Cardinality(Pass(s)) - 1
                         ELSE Cardinality(Pass(s))
  <2>1. 1 \in Pass(s) <=> todo[1].seq = s
    BY <1>3 DEF Pass
  <2>. QED BY <1>3, <2>1, FS_RemoveElement
<1>. HIDE DEF new, old
<1>9. Cardinality(new) + (IF todo[1].seq = s THEN 1 ELSE 0) <= Cardinality(Pass(s))
  BY <1>3, <1>4, <1>7, <1>8
<1>. QED BY <1>3, <1>7, <1>9 DEF new

\* vector::push_back on one of the block tables.
LEMMA TableGrows ==
    ASSUME NEW f \in [Seqs -> Seq(Blocks)], NEW s \in Seqs, NEW e \in Blocks,
           NEW g, g = [f EXCEPT ![s] = Append(@, e)]
    PROVE  /\ Len(f[s]) \in Nat /\ Len(g[s]) = Len(f[s]) + 1
           /\ g[s][Len(f[s]) + 1] = e
           /\ \A t \in Seqs \ {s} : g[t] = f[t]
           /\ \A t \in Seqs : \A m \in DOMAIN f[t] :
                  m \in DOMAIN g[t] /\ g[t][m] = f[t][m]
           /\ \A t \in Seqs : \A m \in DOMAIN g[t] :
                  m \in DOMAIN f[t] \/ (t = s /\ m = Len(f[s]) + 1)
           /\ Len(f[s]) + 1 \in DOMAIN g[s]
<1>1. /\ f[s] \in Seq(Blocks) /\ g[s] = Append(f[s], e)
      /\ \A t \in Seqs \ {s} : g[t] = f[t]
  OBVIOUS
<1>2. /\ Len(f[s]) \in Nat /\ Len(g[s]) = Len(f[s]) + 1
      /\ g[s] \in Seq(Blocks)
      /\ DOMAIN f[s] = 1 .. Len(f[s])
      /\ g[s][Len(f[s]) + 1] = e
      /\ \A m \in 1 .. Len(f[s]) : g[s][m] = f[s][m]
  BY <1>1, AppendProperties
<1>3. DOMAIN g[s] = 1 .. Len(f[s]) + 1
  BY <1>2
<1>. QED BY <1>1, <1>2, <1>3

\* The types of what the invariants below speak of.
LEMMA ReadTypes ==
    ASSUME MemoryInv
    PROVE  /\ block_table \in [Seqs -> Seq(Blocks)]
           /\ logical_token_count \in [Seqs -> Nat]
           /\ kv_len \in [Seqs -> Nat]
           /\ text \in [Seqs -> Seq(Tokens)]
           /\ current_hash \in [Seqs -> Hashes]
           /\ token_buffer \in [Seqs -> Seq(Tokens)]
           /\ freed \in Nat
           /\ pc # "release" => releasing = {} /\ freed = 0
           /\ \A s \in Seqs : \A k \in DOMAIN block_table[s] :
                  k \in Nat \ {0} /\ End(k) \in Nat /\ k <= Len(block_table[s])
           /\ \A s \in Seqs : /\ Len(block_table[s]) \in Nat
                              /\ DOMAIN block_table[s] = 1 .. Len(block_table[s])
                              /\ Len(text[s]) = logical_token_count[s]
<1>1. /\ block_table \in [Seqs -> Seq(Blocks)]
      /\ logical_token_count \in [Seqs -> Nat]
      /\ kv_len \in [Seqs -> Nat]
      /\ text \in [Seqs -> Seq(Tokens)]
      /\ current_hash \in [Seqs -> Hashes]
      /\ token_buffer \in [Seqs -> Seq(Tokens)]
      /\ freed \in Nat
      /\ pc # "release" => releasing = {} /\ freed = 0
      /\ \A s \in Seqs : Len(text[s]) = logical_token_count[s]
  BY DEF MemoryInv, TypeOK, ControlShape, TableShape
<1>2. ASSUME NEW s \in Seqs
      PROVE  /\ Len(block_table[s]) \in Nat
             /\ DOMAIN block_table[s] = 1 .. Len(block_table[s])
  <2>1. block_table[s] \in Seq(Blocks)
    BY <1>1
  <2>. QED BY <2>1
<1>3. ASSUME NEW s \in Seqs, NEW k \in DOMAIN block_table[s]
      PROVE  k \in Nat \ {0} /\ End(k) \in Nat /\ k <= Len(block_table[s])
  <2>1. k \in Nat \ {0} /\ k <= Len(block_table[s])
    BY <1>2
  <2>2. End(k) \in Nat
    BY <2>1, EndArith
  <2>. QED BY <2>1, <2>2
<1>. QED BY <1>1, <1>2, <1>3

-----------------------------------------------------------------------------
(***************************************************************************)
(* Shared KV entries are immutable, whatever the hash.                     *)
(***************************************************************************)

\* A pass is begun only if its tokens fit, and it places each of them once.
LEMMA BoundKept == MemoryInv /\ BoundInv /\ MemoryStep => BoundInv'
<1>. SUFFICES ASSUME MemoryInv, BoundInv, MemoryStep PROVE BoundInv'
  OBVIOUS
<1>0. /\ MaxLen \in Nat /\ BlockSize \in Nat /\ BlockSize >= 1
      /\ text \in [Seqs -> Seq(Tokens)]
      /\ logical_token_count \in [Seqs -> Nat]
  BY PoolAssumption, EndArith DEF MemoryInv, TypeOK
<1>1. ASSUME text' = text, todo' = todo,
             pc' \in {"append", "evict"} => pc \in {"append", "evict"}
      PROVE  BoundInv'
  BY <1>1 DEF BoundInv, Pass
<1>2. CASE ThreadMoves
  <2>1. ASSUME NEW batch, StartForward(batch) PROVE BoundInv'
    <3>1. /\ todo' = batch /\ text' = text
          /\ \A s \in Seqs :
                 Len(text[s]) + Cardinality({i \in DOMAIN batch : batch[i].seq = s})
                     <= MaxLen
      BY <2>1 DEF StartForward, ghostVars
    <3>2. \A s \in Seqs : Pass(s)' = {i \in DOMAIN batch : batch[i].seq = s}
      BY <3>1 DEF Pass
    <3>. QED BY <3>1, <3>2 DEF BoundInv
  <2>. QED BY <1>1, <1>2, <2>1 DEF ThreadMoves
<1>3. CASE CommitBlock \/ Compute \/ EvictLeaf
  BY <1>1, <1>3 DEF CommitBlock, InsertCache, Compute, EvictLeaf, ctlVars, ghostVars
<1>4. CASE PlaceToken \/ OpenBlock
  <2>1. PICK s \in Seqs, tok \in Tokens :
            /\ pc = "append" /\ pc' = pc
            /\ todo # <<>> /\ todo[1].seq = s /\ todo' = Tail(todo)
            /\ text' = [text EXCEPT ![s] = Append(@, tok)]
    BY <1>4, Placed
  <2>2. SUFFICES ASSUME NEW t \in Seqs
                 PROVE  /\ Len(text'[t]) <= MaxLen
                        /\ Len(text'[t]) + Cardinality(Pass(t)') <= MaxLen
    BY DEF BoundInv
  <2>3. /\ Cardinality(Pass(t)) \in Nat /\ Cardinality(Pass(t)') \in Nat
        /\ Cardinality(Pass(t)') + (IF s = t THEN 1 ELSE 0) <= Cardinality(Pass(t))
    BY <2>1, PassShrinks
  <2>4. Len(text'[t]) = Len(text[t]) + (IF s = t THEN 1 ELSE 0)
    BY <1>0, <2>1, AppendProperties
  <2>5. Len(text[t]) + Cardinality(Pass(t)) <= MaxLen /\ Len(text[t]) \in Nat
    BY <1>0, <2>1 DEF BoundInv
  <2>. QED BY <1>0, <2>3, <2>4, <2>5
<1>5. ASSUME NEW s \in Seqs, FlushCache(s) \/ StartRelease(s) \/ ReleaseBlock(s)
      PROVE  BoundInv'
  BY <1>1, <1>5 DEF FlushCache, InsertCache, StartRelease, ReleaseBlock, ctlVars,
                    ghostVars
<1>6. ASSUME NEW s \in Seqs, FinishRelease(s) PROVE BoundInv'
  <2>1. text' = [text EXCEPT ![s] = <<>>] /\ pc' = "idle"
    BY <1>6 DEF FinishRelease
  <2>. QED BY <1>0, <2>1 DEF BoundInv
<1>7. ASSUME NEW s \in Seqs, NEW chunk \in Chunks, PrefixHit(s, chunk)
      PROVE  BoundInv'
  <2>1. /\ chunk \in Seq(Tokens) /\ Len(chunk) = BlockSize
        /\ pc = "idle" /\ pc' = pc
        /\ Len(text[s]) + BlockSize <= MaxLen
        /\ text' = [text EXCEPT ![s] = @ \o chunk]
    BY <1>7, Shared
  <2>2. Len(text[s] \o chunk) = Len(text[s]) + Len(chunk)
    <3>1. text[s] \in Seq(Tokens)
      BY <1>0
    <3>. QED BY <2>1, <3>1, ConcatProperties
  <2>. QED BY <1>0, <2>1, <2>2 DEF BoundInv
<1>. QED BY <1>2, <1>3, <1>4, <1>5, <1>6, <1>7, StepSplits

\* Entries are missing for the tokens of the pass in progress only.
LEMMA LenKept == MemoryInv /\ LenInv /\ MemoryStep => LenInv'
<1>. SUFFICES ASSUME MemoryInv, LenInv, MemoryStep PROVE LenInv'
  OBVIOUS
<1>0. /\ BlockSize \in Nat
      /\ logical_token_count \in [Seqs -> Nat]
      /\ kv_len \in [Seqs -> Nat]
      /\ pc # "release" => releasing = {}
  BY EndArith DEF MemoryInv, TypeOK, ControlShape
<1>1. ASSUME UNCHANGED <<kv_len, logical_token_count, releasing>>,
             pc' \in {"idle", "release"} => pc \in {"idle", "release"}
      PROVE  LenInv'
  BY <1>1 DEF LenInv
<1>2. CASE ThreadMoves
  BY <1>1, <1>2 DEF ThreadMoves, StartForward
<1>3. CASE CommitBlock \/ EvictLeaf
  BY <1>1, <1>3 DEF CommitBlock, InsertCache, EvictLeaf, ctlVars, ghostVars, seqVars
<1>4. CASE Compute
  <2>1. /\ kv_len' = logical_token_count
        /\ logical_token_count' = logical_token_count
        /\ releasing' = {}
    BY <1>0, <1>4 DEF Compute, seqVars
  <2>. QED BY <1>0, <2>1 DEF LenInv
<1>5. CASE PlaceToken \/ OpenBlock
  <2>1. PICK s \in Seqs, tok \in Tokens :
            /\ pc' = "append" /\ releasing' = {} /\ releasing = {}
            /\ logical_token_count' = [logical_token_count EXCEPT ![s] = @ + 1]
            /\ kv_len' = kv_len
    BY <1>5, Placed
  <2>. QED BY <1>0, <2>1 DEF LenInv
<1>6. ASSUME NEW s \in Seqs, FlushCache(s) \/ ReleaseBlock(s) PROVE LenInv'
  BY <1>1, <1>6 DEF FlushCache, InsertCache, ReleaseBlock, ctlVars, ghostVars, seqVars
<1>7. ASSUME NEW s \in Seqs, StartRelease(s) PROVE LenInv'
  <2>1. /\ pc = "idle" /\ releasing' = {s}
        /\ kv_len' = [kv_len EXCEPT ![s] = 0]
        /\ logical_token_count' = logical_token_count
    BY <1>7 DEF StartRelease, seqVars
  <2>. QED BY <1>0, <2>1 DEF LenInv
<1>8. ASSUME NEW s \in Seqs, FinishRelease(s) PROVE LenInv'
  <2>1. /\ pc = "release" /\ s \in releasing /\ releasing' = {}
        /\ logical_token_count' = [logical_token_count EXCEPT ![s] = 0]
        /\ kv_len' = kv_len
    BY <1>8 DEF FinishRelease
  <2>2. releasing = {s}
    BY <2>1 DEF MemoryInv, ControlShape
  <2>. QED BY <1>0, <2>1, <2>2 DEF LenInv
<1>9. ASSUME NEW s \in Seqs, NEW chunk \in Chunks, PrefixHit(s, chunk)
      PROVE  LenInv'
  <2>1. /\ pc = "idle" /\ pc' = pc /\ releasing = {} /\ releasing' = {}
        /\ logical_token_count' = [logical_token_count EXCEPT ![s] = @ + BlockSize]
        /\ kv_len' = [kv_len EXCEPT ![s] = @ + BlockSize]
    BY <1>9, Shared
  <2>. QED BY <1>0, <2>1 DEF LenInv
<1>. QED BY <1>2, <1>3, <1>4, <1>5, <1>6, <1>7, <1>8, <1>9, StepSplits

\* No block that a pass will write to is shared: hits find published blocks,
\* which are full, and new blocks are in no table.
LEMMA FreshKept ==
    MemoryInv /\ LenInv /\ PartialUncached /\ FreshExclusive /\ MemoryStep
        => FreshExclusive'
<1>. SUFFICES ASSUME MemoryInv, LenInv, PartialUncached, FreshExclusive,
                     MemoryStep
              PROVE  FreshExclusive'
  OBVIOUS
<1>0. /\ block_table \in [Seqs -> Seq(Blocks)]
      /\ logical_token_count \in [Seqs -> Nat]
      /\ kv_len \in [Seqs -> Nat]
      /\ freed \in Nat
      /\ pc # "release" => releasing = {} /\ freed = 0
      /\ \A s \in Seqs : \A k \in DOMAIN block_table[s] :
             k \in Nat \ {0} /\ End(k) \in Nat /\ k <= Len(block_table[s])
  BY ReadTypes
<1>1. ASSUME UNCHANGED <<block_table, releasing, freed>>,
             \A s \in Seqs \ releasing : kv_len'[s] \in Nat /\ kv_len'[s] >= kv_len[s]
      PROVE  FreshExclusive'
  <2>1. \A s \in Seqs \ releasing : \A k \in DOMAIN block_table[s] :
            End(k) > kv_len'[s] => End(k) > kv_len[s]
    <3>1. TAKE s \in Seqs \ releasing
    <3>3. TAKE k \in DOMAIN block_table[s]
    <3>2. End(k) \in Nat /\ kv_len[s] \in Nat
      BY <1>0
    <3>. QED BY <1>1, <3>2
  <2>. QED BY <1>1, <2>1 DEF FreshExclusive
<1>2. CASE ThreadMoves
  BY <1>0, <1>1, <1>2 DEF ThreadMoves
<1>3. CASE CommitBlock \/ EvictLeaf \/ Compute
  <2>1. /\ UNCHANGED <<block_table, releasing, freed>>
        /\ kv_len' = kv_len \/ kv_len' = logical_token_count
    BY <1>3 DEF CommitBlock, InsertCache, EvictLeaf, Compute, ctlVars, ghostVars,
                seqVars
  <2>. QED BY <1>0, <1>1, <2>1 DEF LenInv
<1>4. CASE PlaceToken \/ OpenBlock
  <2>1. PICK s \in Seqs, tok \in Tokens :
            /\ releasing = {} /\ freed = 0
            /\ UNCHANGED <<releasing, freed, kv_len>>
            /\ \/ block_table' = block_table
               \/ \E id \in Blocks :
                      /\ Unused(id)
                      /\ block_table' = [block_table EXCEPT ![s] = Append(@, id)]
    BY <1>4, Placed
  <2>2. CASE block_table' = block_table
    BY <1>0, <1>1, <2>1, <2>2
  <2>3. CASE block_table' # block_table
    <3>1. PICK id \in Blocks :
              /\ Unused(id)
              /\ block_table' = [block_table EXCEPT ![s] = Append(@, id)]
      BY <2>1, <2>3
    <3>. DEFINE n == Len(block_table[s])
    <3>2. /\ block_table'[s][n + 1] = id
          /\ \A t \in Seqs : \A m \in DOMAIN block_table[t] :
                 block_table'[t][m] = block_table[t][m]
          /\ \A t \in Seqs : \A m \in DOMAIN block_table'[t] :
                 m \in DOMAIN block_table[t] \/ (t = s /\ m = n + 1)
      BY <1>0, <3>1, TableGrows
    <3>3. \A t \in Seqs : \A m \in DOMAIN block_table[t] : block_table[t][m] # id
      BY <2>1, <3>1 DEF Unused
    <3>4. SUFFICES ASSUME NEW t \in Seqs, NEW k \in DOMAIN block_table'[t],
                          End(k) > kv_len[t],
                          NEW u \in Seqs, NEW m \in DOMAIN block_table'[u],
                          block_table'[u][m] = block_table'[t][k]
                   PROVE  u = t /\ m = k
      BY <2>1 DEF FreshExclusive
    <3>5. \A v \in Seqs : \A l \in DOMAIN block_table'[v] :
              \/ v = s /\ l = n + 1 /\ block_table'[v][l] = id
              \/ l \in DOMAIN block_table[v] /\ block_table'[v][l] = block_table[v][l]
      BY <3>2
    <3>. HIDE DEF n
    <3>. QED BY <2>1, <3>3, <3>4, <3>5 DEF FreshExclusive
  <2>. QED BY <2>2, <2>3
<1>5. ASSUME NEW s \in Seqs, FlushCache(s) PROVE FreshExclusive'
  <2>1. UNCHANGED <<block_table, releasing, freed, kv_len>>
    BY <1>5 DEF FlushCache, InsertCache, ctlVars
  <2>. QED BY <1>0, <1>1, <2>1
<1>6. ASSUME NEW s \in Seqs, StartRelease(s) PROVE FreshExclusive'
  <2>1. /\ pc = "idle" /\ releasing = {} /\ freed = 0 /\ releasing' = {s}
        /\ kv_len' = [kv_len EXCEPT ![s] = 0]
        /\ UNCHANGED <<block_table, freed>>
    BY <1>0, <1>6 DEF StartRelease, seqVars
  <2>. QED BY <1>0, <2>1 DEF FreshExclusive
<1>7. ASSUME NEW s \in Seqs, ReleaseBlock(s) PROVE FreshExclusive'
  <2>1. freed' = freed + 1 /\ UNCHANGED <<block_table, releasing, kv_len>>
    BY <1>7 DEF ReleaseBlock, seqVars, ghostVars
  <2>2. \A t \in Seqs : \A m \in DOMAIN block_table[t] : m > freed' => m > freed
    BY <1>0, <2>1
  <2>. QED BY <2>1, <2>2 DEF FreshExclusive
<1>8. ASSUME NEW s \in Seqs, FinishRelease(s) PROVE FreshExclusive'
  <2>1. /\ s \in releasing /\ releasing' = {}
        /\ block_table' = [block_table EXCEPT ![s] = <<>>]
        /\ kv_len' = kv_len
    BY <1>8 DEF FinishRelease
  <2>2. releasing = {s}
    BY <2>1 DEF MemoryInv, ControlShape
  <2>3. /\ DOMAIN block_table'[s] = {}
        /\ \A t \in Seqs \ {s} : block_table'[t] = block_table[t]
    BY <1>0, <2>1
  <2>. QED BY <2>1, <2>2, <2>3 DEF FreshExclusive
<1>9. ASSUME NEW s \in Seqs, NEW chunk \in Chunks, PrefixHit(s, chunk)
      PROVE  FreshExclusive'
  <2>1. PICK hit \in Blocks :
            /\ pc = "idle" /\ releasing = {} /\ freed = 0
            /\ token_buffer[s] = <<>>
            /\ hit \in Cached
            /\ block_table' = [block_table EXCEPT ![s] = Append(@, hit)]
            /\ kv_len' = [kv_len EXCEPT ![s] = @ + BlockSize]
            /\ UNCHANGED <<releasing, freed>>
    BY <1>9, Shared
  <2>. DEFINE n == Len(block_table[s])
  <2>2. /\ n \in Nat
        /\ block_table'[s][n + 1] = hit
        /\ \A t \in Seqs : \A m \in DOMAIN block_table[t] :
               block_table'[t][m] = block_table[t][m]
        /\ \A t \in Seqs : \A m \in DOMAIN block_table'[t] :
               m \in DOMAIN block_table[t] \/ (t = s /\ m = n + 1)
    BY <1>0, <2>1, TableGrows
  <2>3. \A t \in Seqs : kv_len[t] = logical_token_count[t]
    BY <2>1 DEF LenInv
  <2>4. \A k \in DOMAIN block_table'[s] : ~(End(k) > kv_len'[s])
    <3>1. logical_token_count[s] = End(n)
      BY <2>1, TableFacts
    <3>2. /\ kv_len'[s] = End(n + 1)
          /\ End(n + 1) \in Nat /\ n + 1 \in Nat /\ BlockSize \in Nat
      BY <1>0, <2>1, <2>2, <2>3, <3>1, EndArith
    <3>3. TAKE k \in DOMAIN block_table'[s]
    <3>4. k \in Nat /\ (k < n + 1 \/ k = n + 1)
      BY <1>0, <2>2
    <3>5. k < n + 1 => End(k) + BlockSize <= End(n + 1)
      BY <3>2, <3>4, EndArith
    <3>6. End(k) \in Nat
      BY <3>4, EndArith
    <3>. QED BY <3>2, <3>4, <3>5, <3>6
  <2>5. SUFFICES ASSUME NEW t \in Seqs, NEW k \in DOMAIN block_table'[t],
                        End(k) > kv_len'[t],
                        NEW u \in Seqs, NEW m \in DOMAIN block_table'[u],
                        block_table'[u][m] = block_table'[t][k]
                 PROVE  u = t /\ m = k
    BY <2>1 DEF FreshExclusive
  <2>6. t # s
    BY <2>4, <2>5
  <2>7. /\ k \in DOMAIN block_table[t] /\ block_table'[t][k] = block_table[t][k]
        /\ kv_len'[t] = kv_len[t]
    BY <1>0, <2>1, <2>2, <2>5, <2>6
  <2>. HIDE DEF n
  <2>8. block_table[t][k] # hit
    BY <2>1, <2>3, <2>5, <2>7 DEF PartialUncached
  <2>9. m \in DOMAIN block_table[u] /\ block_table'[u][m] = block_table[u][m]
    BY <2>2, <2>5, <2>7, <2>8
  <2>. QED BY <2>1, <2>5, <2>7, <2>9 DEF FreshExclusive
<1>. QED BY <1>2, <1>3, <1>4, <1>5, <1>6, <1>7, <1>8, <1>9, StepSplits

\* A block is published when its last token has been placed.
LEMMA PartialKept ==
    MemoryInv /\ PartialUncached /\ MemoryStep => PartialUncached'
<1>. SUFFICES ASSUME MemoryInv, PartialUncached, MemoryStep
              PROVE  PartialUncached'
  OBVIOUS
<1>0. /\ block_table \in [Seqs -> Seq(Blocks)]
      /\ logical_token_count \in [Seqs -> Nat]
      /\ pc # "release" => releasing = {} /\ freed = 0
      /\ \A s \in Seqs : \A k \in DOMAIN block_table[s] :
             k \in Nat \ {0} /\ End(k) \in Nat /\ k <= Len(block_table[s])
  BY ReadTypes
<1>1. ASSUME UNCHANGED <<block_table, logical_token_count>>,
             releasing \subseteq releasing', Cached' \subseteq Cached
      PROVE  PartialUncached'
  BY <1>1 DEF PartialUncached
<1>2. CASE ThreadMoves
  BY <1>1, <1>2 DEF ThreadMoves, Cached
<1>3. CASE Compute \/ EvictLeaf
  <2>1. /\ UNCHANGED <<block_table, logical_token_count, releasing>>
        /\ DOMAIN reverse_map' \subseteq DOMAIN reverse_map
    BY <1>3 DEF Compute, EvictLeaf, Forget, Restrict, seqVars, ctlVars, cacheVars
  <2>. QED BY <1>1, <2>1 DEF Cached
<1>4. ASSUME NEW s \in Seqs, s \notin sealed, s \notin releasing,
             Len(token_buffer[s]) = BlockSize, InsertCache(s), releasing' = releasing
      PROVE  PartialUncached'
  <2>. DEFINE n == Len(block_table[s])
  <2>1. PICK b \in Blocks :
            /\ OnlyAt(b, s, n)
            /\ End(n) = logical_token_count[s]
            /\ Cached' = Cached \cup {b}
            /\ UNCHANGED <<block_table, logical_token_count>>
    BY <1>4, Published
  <2>2. SUFFICES ASSUME NEW t \in Seqs \ releasing, NEW k \in DOMAIN block_table[t],
                        End(k) > logical_token_count[t]
                 PROVE  block_table[t][k] \notin Cached'
    BY <1>4, <2>1 DEF PartialUncached
  <2>3. block_table[t][k] = b => t = s /\ k = n
    BY <2>1, <2>2 DEF OnlyAt
  <2>4. block_table[t][k] # b
    BY <1>0, <2>1, <2>2, <2>3
  <2>. QED BY <2>1, <2>2, <2>4 DEF PartialUncached
<1>5. CASE CommitBlock
  <2>1. /\ pc = "append" /\ todo # <<>>
        /\ InsertCache(todo[1].seq) /\ releasing' = releasing
        /\ Len(token_buffer[todo[1].seq]) = BlockSize
    BY <1>5 DEF CommitBlock, ctlVars
  <2>. QED BY <1>4, <2>1, FrontToken
<1>6. ASSUME NEW s \in Seqs, FlushCache(s) PROVE PartialUncached'
  <2>1. pc = "idle" /\ s \notin sealed /\ releasing' = releasing
    BY <1>6 DEF FlushCache, ctlVars
  <2>2. CASE Len(token_buffer[s]) = BlockSize
    BY <1>0, <1>4, <1>6, <2>1, <2>2 DEF FlushCache
  <2>3. CASE Len(token_buffer[s]) # BlockSize
    <3>1. UNCHANGED <<reverse_map, block_table, logical_token_count>>
      BY <1>6, <2>3 DEF FlushCache, cacheVars
    <3>. QED BY <1>1, <2>1, <3>1 DEF Cached
  <2>. QED BY <2>2, <2>3
<1>7. CASE PlaceToken \/ OpenBlock
  <2>1. PICK s \in Seqs, tok \in Tokens :
            /\ releasing = {} /\ UNCHANGED <<releasing, reverse_map>>
            /\ logical_token_count' = [logical_token_count EXCEPT ![s] = @ + 1]
            /\ \/ block_table' = block_table
               \/ \E id \in Blocks :
                      /\ id \notin Cached
                      /\ block_table' = [block_table EXCEPT ![s] = Append(@, id)]
    BY <1>7, Placed
  <2>2. /\ Cached' = Cached
        /\ \A t \in Seqs : \A k \in Nat : End(k) > logical_token_count'[t] =>
               End(k) > logical_token_count[t]
    <3>1. \A k \in Nat : End(k) \in Nat
      BY EndArith
    <3>. QED BY <1>0, <2>1, <3>1 DEF Cached
  <2>3. CASE block_table' = block_table
    BY <1>0, <2>1, <2>2, <2>3 DEF PartialUncached
  <2>4. CASE block_table' # block_table
    <3>1. PICK id \in Blocks :
              /\ id \notin Cached
              /\ block_table' = [block_table EXCEPT ![s] = Append(@, id)]
      BY <2>1, <2>4
    <3>. DEFINE n == Len(block_table[s])
    <3>2. /\ block_table'[s][n + 1] = id
          /\ \A t \in Seqs : \A m \in DOMAIN block_table[t] :
                 block_table'[t][m] = block_table[t][m]
          /\ \A t \in Seqs : \A m \in DOMAIN block_table'[t] :
                 m \in DOMAIN block_table[t] \/ (t = s /\ m = n + 1)
      BY <1>0, <3>1, TableGrows
    <3>. HIDE DEF n
    <3>. QED BY <1>0, <2>1, <2>2, <3>1, <3>2 DEF PartialUncached
  <2>. QED BY <2>3, <2>4
<1>8. ASSUME NEW s \in Seqs, StartRelease(s) \/ ReleaseBlock(s) PROVE PartialUncached'
  <2>1. /\ UNCHANGED <<block_table, logical_token_count, reverse_map>>
        /\ releasing \subseteq releasing'
    BY <1>0, <1>8 DEF StartRelease, ReleaseBlock, seqVars, cacheVars
  <2>. QED BY <1>1, <2>1 DEF Cached
<1>9. ASSUME NEW s \in Seqs, FinishRelease(s) PROVE PartialUncached'
  <2>1. /\ s \in releasing /\ releasing' = {}
        /\ block_table' = [block_table EXCEPT ![s] = <<>>]
        /\ logical_token_count' = [logical_token_count EXCEPT ![s] = 0]
        /\ reverse_map' = reverse_map
    BY <1>9 DEF FinishRelease, cacheVars
  <2>2. releasing = {s}
    BY <2>1 DEF MemoryInv, ControlShape
  <2>3. /\ DOMAIN block_table'[s] = {} /\ Cached' = Cached
        /\ \A t \in Seqs \ {s} : /\ block_table'[t] = block_table[t]
                                 /\ logical_token_count'[t] = logical_token_count[t]
    BY <1>0, <2>1 DEF Cached
  <2>. QED BY <2>1, <2>2, <2>3 DEF PartialUncached
<1>10. ASSUME NEW s \in Seqs, NEW chunk \in Chunks, PrefixHit(s, chunk)
       PROVE  PartialUncached'
  <2>1. PICK hit \in Blocks :
            /\ releasing = {}
            /\ token_buffer[s] = <<>>
            /\ block_table' = [block_table EXCEPT ![s] = Append(@, hit)]
            /\ logical_token_count' = [logical_token_count EXCEPT ![s] = @ + BlockSize]
            /\ UNCHANGED <<releasing, reverse_map>>
    BY <1>10, Shared
  <2>. DEFINE n == Len(block_table[s])
  <2>2. /\ n \in Nat
        /\ \A t \in Seqs : \A m \in DOMAIN block_table[t] :
               block_table'[t][m] = block_table[t][m]
        /\ \A t \in Seqs : \A m \in DOMAIN block_table'[t] :
               m \in DOMAIN block_table[t] \/ (t = s /\ m = n + 1)
    BY <1>0, <2>1, TableGrows
  <2>3. \A k \in DOMAIN block_table'[s] : ~(End(k) > logical_token_count'[s])
    <3>1. logical_token_count[s] = End(n)
      BY <2>1, TableFacts
    <3>2. /\ logical_token_count'[s] = End(n + 1)
          /\ End(n + 1) \in Nat /\ n + 1 \in Nat /\ BlockSize \in Nat
      BY <1>0, <2>1, <2>2, <3>1, EndArith
    <3>3. TAKE k \in DOMAIN block_table'[s]
    <3>4. k \in Nat /\ (k < n + 1 \/ k = n + 1)
      BY <1>0, <2>2
    <3>5. k < n + 1 => End(k) + BlockSize <= End(n + 1)
      BY <3>2, <3>4, EndArith
    <3>6. End(k) \in Nat
      BY <3>4, EndArith
    <3>. QED BY <3>2, <3>4, <3>5, <3>6
  <2>4. \A t \in Seqs \ {s} : logical_token_count'[t] = logical_token_count[t]
    BY <1>0, <2>1
  <2>. HIDE DEF n
  <2>. QED BY <2>1, <2>2, <2>3, <2>4 DEF PartialUncached, Cached
<1>. QED BY <1>2, <1>3, <1>5, <1>6, <1>7, <1>8, <1>9, <1>10, StepSplits

\* The memory starts without tokens.
LEMMA ShareInit == Init => ShareInv
<1>. SUFFICES ASSUME Init PROVE ShareInv
  OBVIOUS
<1>1. /\ \A s \in Seqs : /\ DOMAIN block_table[s] = {} /\ kv_len[s] = 0
                         /\ text[s] = <<>> /\ logical_token_count[s] = 0
      /\ pc = "idle" /\ MaxLen \in Nat
  BY PoolAssumption DEF Init
<1>. QED BY <1>1 DEF ShareInv, BoundInv, LenInv, FreshExclusive, PartialUncached

\* ShareInv is inductive relative to MemoryInv.
LEMMA ShareKept == MemoryInv /\ ShareInv /\ MemoryStep => ShareInv'
BY BoundKept, LenKept, FreshKept, PartialKept DEF ShareInv

-----------------------------------------------------------------------------
(***************************************************************************)
(* The steps that write or discard KV entries.                             *)
(***************************************************************************)

\* s has the tokens at offset j of its k-th block, and a pass computes it.
Computing(s, k, j) == /\ kv_len[s] < Position(k, j)
                      /\ Position(k, j) <= logical_token_count[s]

\* Every position with a token is at an offset of some block of the table.
LEMMA PositionIn ==
    ASSUME MemoryInv, NEW s \in Seqs, s \notin releasing, NEW i \in Nat \ {0},
           i <= logical_token_count[s]
    PROVE  \E k \in DOMAIN block_table[s] : \E j \in 0 .. BlockSize - 1 :
               i = Position(k, j) /\ Slot(s, i) = <<block_table[s][k], j>>
<1>. DEFINE n == Len(block_table[s])
<1>1. /\ n \in Nat /\ DOMAIN block_table[s] = 1 .. n
      /\ logical_token_count[s] \in Nat /\ logical_token_count[s] <= End(n)
  BY TableFacts
<1>2. i \in 1 .. End(n)
  <2>1. End(n) \in Nat
    BY <1>1, EndArith
  <2>. QED BY <1>1, <2>1
<1>3. PICK k \in 1 .. n, j \in 0 .. BlockSize - 1 : i = Position(k, j)
  BY <1>1, <1>2, PositionOf
<1>4. k \in Nat \ {0}
  BY <1>1
<1>5. Slot(s, i) = <<block_table[s][k], j>>
  BY <1>3, <1>4, SlotAt
<1>. QED BY <1>1, <1>3, <1>5

\* A forward pass writes what it placed, each entry for its own text, and
\* nothing else.
LEMMA Written ==
    ASSUME MemoryInv, ShareInv, Compute
    PROVE  /\ \A s \in Seqs : \A k \in DOMAIN block_table[s] :
                  \A j \in 0 .. BlockSize - 1 :
                      Computing(s, k, j) => kv'[<<block_table[s][k], j>>] =
                                                SubSeq(text[s], 1, Position(k, j))
           /\ \A l \in Slots : kv'[l] = kv[l] \/
                  \E s \in Seqs : \E k \in DOMAIN block_table[s] :
                      \E j \in 0 .. BlockSize - 1 :
                          Computing(s, k, j) /\ l = <<block_table[s][k], j>>
           /\ releasing = {} /\ kv_len' = logical_token_count
           /\ UNCHANGED <<reverse_map, block_table, logical_token_count,
                          current_hash, token_buffer, releasing, freed, text,
                          sealed>>
<1>. DEFINE fresh == {p \in Seqs \X (1 .. MaxLen) :
                         p[2] > kv_len[p[1]] /\ p[2] <= logical_token_count[p[1]]}
            At(l) == {p \in fresh : Slot(p[1], p[2]) = l}
            Entry(p) == SubSeq(text[p[1]], 1, p[2])
<1>1. /\ releasing = {} /\ kv_len' = logical_token_count
      /\ UNCHANGED <<reverse_map, block_table, logical_token_count, current_hash,
                     token_buffer, releasing, freed, text, sealed>>
      /\ kv' = [l \in Slots |-> IF At(l) = {} THEN kv[l]
                                ELSE Entry(CHOOSE p \in At(l) : TRUE)]
  BY ReadTypes DEF Compute, cacheVars, seqVars
<1>2. \A p \in fresh :
          \E k \in DOMAIN block_table[p[1]] : \E j \in 0 .. BlockSize - 1 :
              /\ p[2] = Position(k, j) /\ Computing(p[1], k, j)
              /\ Slot(p[1], p[2]) = <<block_table[p[1]][k], j>>
  <2>1. TAKE p \in fresh
  <2>2. /\ p[1] \in Seqs /\ p[2] \in Nat \ {0}
        /\ p[2] > kv_len[p[1]] /\ p[2] <= logical_token_count[p[1]]
        /\ kv_len[p[1]] \in Nat
    BY PoolAssumption, ReadTypes
  <2>. HIDE DEF fresh
  <2>3. PICK k \in DOMAIN block_table[p[1]], j \in 0 .. BlockSize - 1 :
            /\ p[2] = Position(k, j)
            /\ Slot(p[1], p[2]) = <<block_table[p[1]][k], j>>
    BY <1>1, <2>2, PositionIn
  <2>. QED BY <2>2, <2>3 DEF Computing
<1>3. ASSUME NEW s \in Seqs, NEW k \in DOMAIN block_table[s],
             NEW j \in 0 .. BlockSize - 1, Computing(s, k, j),
             NEW l, l = <<block_table[s][k], j>>
      PROVE  l \in Slots /\ At(l) # {} /\ \A p \in At(l) : Entry(p) = SubSeq(text[s], 1, Position(k, j))
  <2>1. /\ k \in Nat \ {0} /\ block_table[s][k] \in Blocks
        /\ logical_token_count[s] \in Nat /\ kv_len[s] \in Nat
        /\ End(k) \in Nat
    BY ReadTypes
  <2>2. /\ Position(k, j) \in Nat \ {0} /\ Position(k, j) <= End(k)
        /\ \A m \in Nat \ {0} : \A i \in 0 .. BlockSize - 1 :
               Position(k, j) = Position(m, i) => k = m /\ j = i
    BY <2>1, PositionArith
  <2>3. Position(k, j) \in 1 .. MaxLen
    <3>1. logical_token_count[s] <= MaxLen /\ MaxLen \in Nat
      BY PoolAssumption, ReadTypes DEF ShareInv, BoundInv
    <3>. QED BY <1>3, <2>1, <2>2, <3>1 DEF Computing
  <2>4. <<s, Position(k, j)>> \in At(l)
    <3>1. Slot(s, Position(k, j)) = l
      BY <1>3, <2>1, SlotAt
    <3>. QED BY <1>3, <2>3, <3>1 DEF Computing
  <2>5. OnlyAt(block_table[s][k], s, k)
    <3>1. End(k) > kv_len[s]
      BY <1>3, <2>1, <2>2 DEF Computing
    <3>. QED BY <1>1, <3>1 DEF ShareInv, FreshExclusive, OnlyAt
  <2>6. ASSUME NEW p \in At(l) PROVE p[1] = s /\ p[2] = Position(k, j)
    <3>0. p \in fresh /\ Slot(p[1], p[2]) = l /\ p[1] \in Seqs
      OBVIOUS
    <3>1. PICK m \in DOMAIN block_table[p[1]], i \in 0 .. BlockSize - 1 :
              /\ p[2] = Position(m, i)
              /\ Slot(p[1], p[2]) = <<block_table[p[1]][m], i>>
      BY <1>2, <3>0
    <3>2. block_table[p[1]][m] = block_table[s][k] /\ i = j
      BY <1>3, <3>0, <3>1
    <3>3. p[1] = s /\ m = k
      BY <1>1, <2>5, <3>0, <3>2 DEF OnlyAt
    <3>. QED BY <3>1, <3>2, <3>3
  <2>7. l \in Slots
    BY <1>3, <2>1 DEF Slots
  <2>. QED BY <2>4, <2>6, <2>7
<1>4. ASSUME NEW l \in Slots, kv'[l] # kv[l]
      PROVE  \E s \in Seqs : \E k \in DOMAIN block_table[s] :
                 \E j \in 0 .. BlockSize - 1 :
                     Computing(s, k, j) /\ l = <<block_table[s][k], j>>
  <2>1. At(l) # {}
    BY <1>1, <1>4
  <2>2. PICK p \in fresh : Slot(p[1], p[2]) = l
    BY <2>1
  <2>3. p[1] \in Seqs
    OBVIOUS
  <2>. QED BY <1>2, <2>2, <2>3
<1>. HIDE DEF At, Entry, fresh
<1>5. ASSUME NEW s \in Seqs, NEW k \in DOMAIN block_table[s],
             NEW j \in 0 .. BlockSize - 1, Computing(s, k, j)
      PROVE  kv'[<<block_table[s][k], j>>] = SubSeq(text[s], 1, Position(k, j))
  <2>. DEFINE l == <<block_table[s][k], j>>
  <2>1. /\ l \in Slots /\ At(l) # {}
        /\ \A p \in At(l) : Entry(p) = SubSeq(text[s], 1, Position(k, j))
    <3>1. l = <<block_table[s][k], j>>
      OBVIOUS
    <3>. HIDE DEF l
    <3>. QED BY <1>3, <1>5, <3>1
  <2>. HIDE DEF l
  <2>2. (CHOOSE p \in At(l) : TRUE) \in At(l)
    BY <2>1
  <2>3. kv'[l] = Entry(CHOOSE p \in At(l) : TRUE)
    BY <1>1, <2>1
  <2>. QED BY <2>1, <2>2, <2>3 DEF l
<1>. QED BY <1>1, <1>4, <1>5

\* evict_lru_block takes its block out of the cache; no table has it.
LEMMA Evicted ==
    ASSUME MemoryInv, EvictLeaf
    PROVE  /\ \E id \in Blocks :
                  /\ Unused(id)
                  /\ kv' = Discard(id)
                  /\ Cached' = Cached \ {id}
                  /\ \A b \in Cached' : reverse_map'[b] = reverse_map[b]
           /\ releasing = {}
           /\ UNCHANGED <<seqVars, ctlVars, ghostVars>>
<1>. DEFINE id == Last(evictable_leaves)
<1>1. /\ pc = "evict" /\ evictable_leaves # <<>>
      /\ reverse_map' = Forget(reverse_map, id)
      /\ kv' = Discard(id)
      /\ UNCHANGED <<seqVars, ctlVars, ghostVars>>
  BY DEF EvictLeaf
<1>2. evictable_leaves \in Seq(Blocks)
  BY DEF MemoryInv, TypeOK
<1>3. id \in Blocks /\ id \in ToSet(evictable_leaves)
  BY <1>1, <1>2, FrontMember
<1>. HIDE DEF id
<1>4. ref_count[id] = 0
  BY <1>3 DEF MemoryInv, LeavesExact
<1>5. Unused(id)
  BY <1>3, <1>4, UnusedIfZero
<1>6. /\ Cached' = Cached \ {id}
      /\ \A b \in Cached' : reverse_map'[b] = reverse_map[b]
  BY <1>1 DEF Cached, Forget, Restrict
<1>. QED BY <1>1, <1>3, <1>5, <1>6, ReadTypes

\* free_block gives a block back that is not cached, with its last reference.
LEMMA Dropped ==
    ASSUME MemoryInv, NEW s \in Seqs, ReleaseBlock(s)
    PROVE  /\ \/ kv' = kv
              \/ \E b \in Blocks :
                     kv' = Discard(b) /\ b \notin Cached /\ OnlyAt(b, s, freed + 1)
           /\ releasing = {s} /\ freed' = freed + 1
           /\ freed + 1 \in DOMAIN block_table[s]
           /\ UNCHANGED <<reverse_map, seqVars, pc, todo, releasing, ghostVars>>
<1>. DEFINE b == block_table[s][freed + 1]
            refs == Bump(ref_count, b, -1)
<1>1. /\ pc = "release" /\ s \in releasing
      /\ freed < Len(block_table[s])
      /\ IF refs[b] = 0 /\ b \notin Cached THEN kv' = Discard(b) ELSE kv' = kv
      /\ freed' = freed + 1
      /\ UNCHANGED <<reverse_map, seqVars, pc, todo, releasing, ghostVars>>
  BY DEF ReleaseBlock
<1>2. releasing = {s}
  BY <1>1 DEF MemoryInv, ControlShape
<1>3. freed + 1 \in DOMAIN block_table[s] /\ freed \in Nat
  BY <1>1, ReadTypes
<1>4. b \in Blocks /\ ref_count[b] \in Nat
  BY <1>3, ReadTypes DEF MemoryInv, TypeOK
<1>5. ASSUME refs[b] = 0 PROVE OnlyAt(b, s, freed + 1)
  <2>1. refs[b] = ref_count[b] + (-1)
    BY <1>4 DEF Bump
  <2>2. ref_count[b] = 1
    BY <1>4, <1>5, <2>1
  <2>3. IsFiniteSet(Uses(b)) /\ Cardinality(Uses(b)) = 1
    BY <1>4, <2>2 DEF MemoryInv, RefCountsExact
  <2>4. PICK u : Uses(b) = {u}
    BY <2>3, FS_Singleton
  <2>5. <<s, freed + 1>> \in Uses(b)
    <3>1. freed + 1 > freed
      BY <1>3
    <3>. QED BY <1>3, <3>1, UsesMember
  <2>6. SUFFICES ASSUME NEW t \in Seqs, NEW m \in DOMAIN block_table[t],
                        block_table[t][m] = b, t \in releasing => m > freed
                 PROVE  t = s /\ m = freed + 1
    BY DEF OnlyAt
  <2>7. <<t, m>> \in Uses(b)
    BY <2>6, UsesMember
  <2>8. <<t, m>> = <<s, freed + 1>>
    BY <2>4, <2>5, <2>7
  <2>. QED BY <2>8
<1>. HIDE DEF b, refs
<1>. QED BY <1>1, <1>2, <1>3, <1>4, <1>5

\* A block that at most one table entry refers to has at most one holder.
LEMMA FewHolders ==
    ASSUME MemoryInv, NEW b, NEW s \in Seqs, NEW k, OnlyAt(b, s, k) \/ Unused(b)
    PROVE  Cardinality(Holders(b)) <= 1
<1>1. Holders(b) \in SUBSET {s}
  <2>1. SUFFICES ASSUME NEW u \in Uses(b) PROVE u[1] = s
    BY DEF Holders
  <2>2. PICK t \in Seqs : \E m \in DOMAIN block_table[t] :
            u = <<t, m>> /\ block_table[t][m] = b /\ (t \in releasing => m > freed)
    BY UsesMember
  <2>3. freed \in Nat /\ \A m \in DOMAIN block_table[t] : m \in Nat
    BY ReadTypes
  <2>. QED BY <2>2, <2>3 DEF OnlyAt, Unused
<1>2. IsFiniteSet({s}) /\ Cardinality({s}) = 1
  BY FS_Singleton
<1>3. Cardinality(Holders(b)) <= Cardinality({s})
  BY <1>1, <1>2, FS_Subset
<1>. QED BY <1>2, <1>3

\* What a step may do to a slot that is read.
LEMMA StepLeavesRead ==
    ASSUME MemoryInv, ShareInv, MemoryStep, NEW l \in Slots, kv'[l] # kv[l]
    PROVE  /\ Cardinality(Holders(l[1])) <= 1
           /\ \A s \in Seqs, i \in 1 .. MaxLen :
                  i <= kv_len[s] => Slot(s, i) # l
<1>0. MaxLen \in Nat
  BY PoolAssumption
<1>1. ASSUME NEW t \in Seqs, NEW i \in 1 .. MaxLen, i <= kv_len[t]
      PROVE  /\ t \notin releasing
             /\ \E m \in DOMAIN block_table[t] : \E j \in 0 .. BlockSize - 1 :
                    i = Position(m, j) /\ Slot(t, i) = <<block_table[t][m], j>>
  <2>1. i \in Nat \ {0} /\ kv_len[t] \in Nat /\ logical_token_count[t] \in Nat
    BY <1>0, ReadTypes
  <2>2. t \notin releasing /\ kv_len[t] <= logical_token_count[t]
    BY <1>1, <2>1 DEF ShareInv, LenInv
  <2>. QED BY <1>1, <2>1, <2>2, PositionIn
<1>3. CASE Compute
  <2>1. /\ releasing = {}
        /\ \E s \in Seqs : \E k \in DOMAIN block_table[s] :
               \E j \in 0 .. BlockSize - 1 :
                   Computing(s, k, j) /\ l = <<block_table[s][k], j>>
    BY <1>3, Written
  <2>0. PICK s \in Seqs : \E k \in DOMAIN block_table[s] :
            \E j \in 0 .. BlockSize - 1 :
                Computing(s, k, j) /\ l = <<block_table[s][k], j>>
    BY <2>1
  <2>2. PICK k \in DOMAIN block_table[s], j \in 0 .. BlockSize - 1 :
            Computing(s, k, j) /\ l = <<block_table[s][k], j>>
    BY <2>0
  <2>3. k \in Nat \ {0} /\ kv_len[s] \in Nat /\ End(k) \in Nat
    BY ReadTypes
  <2>4. Position(k, j) \in Nat /\ Position(k, j) <= End(k)
    BY <2>3, PositionArith
  <2>5. OnlyAt(l[1], s, k)
    <3>1. End(k) > kv_len[s]
      BY <2>2, <2>3, <2>4 DEF Computing
    <3>. QED BY <2>1, <2>2, <3>1 DEF ShareInv, FreshExclusive, OnlyAt
  <2>6. ASSUME NEW t \in Seqs, NEW i \in 1 .. MaxLen, i <= kv_len[t], Slot(t, i) = l
        PROVE  FALSE
    <3>1. PICK m \in DOMAIN block_table[t], jj \in 0 .. BlockSize - 1 :
              i = Position(m, jj) /\ Slot(t, i) = <<block_table[t][m], jj>>
      BY <1>1, <2>6
    <3>2. block_table[t][m] = l[1] /\ jj = j
      BY <2>2, <2>6, <3>1
    <3>3. t = s /\ m = k
      BY <2>1, <2>5, <3>2 DEF OnlyAt
    <3>. QED BY <2>2, <2>3, <2>4, <2>6, <3>1, <3>2, <3>3 DEF Computing
  <2>. QED BY <2>5, <2>6, FewHolders
<1>4. ASSUME Unused(l[1]), releasing = {}
      PROVE  /\ Cardinality(Holders(l[1])) <= 1
             /\ \A s \in Seqs, i \in 1 .. MaxLen : i <= kv_len[s] => Slot(s, i) # l
  <2>1. Cardinality(Holders(l[1])) <= 1
    <3>1. CASE Seqs = {}
      <4>1. Holders(l[1]) = {}
        BY <3>1 DEF Holders, Uses, Entries
      <4>. QED BY <4>1, FS_EmptySet
    <3>2. CASE Seqs # {}
      BY <1>4, <3>2, FewHolders
    <3>. QED BY <3>1, <3>2
  <2>2. ASSUME NEW t \in Seqs, NEW i \in 1 .. MaxLen, i <= kv_len[t]
        PROVE  Slot(t, i) # l
    BY <1>1, <1>4, <2>2 DEF Unused
  <2>. QED BY <2>1, <2>2
<1>5. CASE EvictLeaf
  <2>1. releasing = {} /\ \E id \in Blocks : Unused(id) /\ kv' = Discard(id)
    BY <1>5, Evicted
  <2>2. PICK id \in Blocks : Unused(id) /\ kv' = Discard(id)
    BY <2>1
  <2>3. l[1] = id
    BY <2>2 DEF Discard
  <2>. QED BY <1>4, <2>1, <2>2, <2>3
<1>6. ASSUME NEW s \in Seqs, ReleaseBlock(s)
      PROVE  /\ Cardinality(Holders(l[1])) <= 1
             /\ \A t \in Seqs, i \in 1 .. MaxLen : i <= kv_len[t] => Slot(t, i) # l
  <2>1. /\ releasing = {s}
        /\ \E b \in Blocks : kv' = Discard(b) /\ OnlyAt(b, s, freed + 1)
    BY <1>6, Dropped
  <2>2. PICK b \in Blocks : kv' = Discard(b) /\ OnlyAt(b, s, freed + 1)
    BY <2>1
  <2>3. l[1] = b
    BY <2>2 DEF Discard
  <2>4. ASSUME NEW t \in Seqs, NEW i \in 1 .. MaxLen, i <= kv_len[t]
        PROVE  Slot(t, i) # l
    BY <1>1, <2>1, <2>2, <2>3, <2>4 DEF OnlyAt
  <2>. QED BY <2>2, <2>3, <2>4, FewHolders
<1>7. CASE ThreadMoves \/ CommitBlock \/ PlaceToken \/ OpenBlock
  BY <1>7 DEF ThreadMoves, CommitBlock, InsertCache, PlaceToken, OpenBlock
<1>8. ASSUME NEW s \in Seqs,
             \/ FlushCache(s) \/ StartRelease(s) \/ FinishRelease(s)
             \/ \E chunk \in Chunks : PrefixHit(s, chunk)
      PROVE  FALSE
  BY <1>8 DEF FlushCache, InsertCache, StartRelease, FinishRelease, PrefixHit
<1>. QED BY <1>3, <1>5, <1>6, <1>7, <1>8, StepSplits

(* Entries that are shared or were computed before never change under      *)
(* their readers, whatever the hash function does: hits need no            *)
(* copy-on-write.                                                          *)
THEOREM SharedEntriesStay == Spec => SharedEntriesImmutable
<1>1. Init => MemoryInv /\ ShareInv
  BY InitMemoryInv, ShareInit
<1>2. MemoryInv /\ ShareInv /\ [Next]_memVars => (MemoryInv /\ ShareInv)'
  BY NextMemoryInv, ShareKept DEF MemoryStep
<1>3. MemoryInv /\ ShareInv /\ [Next]_memVars =>
          [\A l \in Slots : kv'[l] # kv[l] =>
               /\ Cardinality(Holders(l[1])) <= 1
               /\ \A s \in Seqs, i \in 1 .. MaxLen :
                      i <= kv_len[s] => Slot(s, i) # l]_kv
  BY StepLeavesRead DEF MemoryStep
<1>. QED BY <1>1, <1>2, <1>3, PTL DEF Spec, SharedEntriesImmutable

-----------------------------------------------------------------------------
(***************************************************************************)
(* Every sequence reads its own text, if the hash does not collide.        *)
(***************************************************************************)

\* The texts that occur are in Corpus.
InCorpus(Corpus) == \A s \in Seqs : text[s] \in Corpus

\* The hash that insert_cache publishes a block under is that of the text.
LEMMA PublishedText ==
    ASSUME MemoryInv, NEW Corpus, InCorpus(Corpus), NEW T, Decodes(T, Corpus),
           HashTells(T), NEW s \in Seqs, s \notin sealed, token_buffer[s] \in Chunks
    PROVE  T[hash_block_state(current_hash[s], token_buffer[s])] = text[s]
<1>1. text[s] = T[current_hash[s]] \o token_buffer[s]
  BY DEF HashTells, Pending
<1>2. current_hash[s] \in Hashes /\ text[s] \in Corpus
  BY ReadTypes DEF InCorpus
<1>. QED BY <1>1, <1>2 DEF Decodes

\* A sequence's hash goes with its text.
LEMMA HashKept ==
    ASSUME MemoryInv, NEW Corpus, InCorpus(Corpus), InCorpus(Corpus)',
           NEW T, Decodes(T, Corpus), HashTells(T), MemoryStep
    PROVE  HashTells(T)'
<1>0. /\ text \in [Seqs -> Seq(Tokens)]
      /\ current_hash \in [Seqs -> Hashes]
      /\ token_buffer \in [Seqs -> Seq(Tokens)]
      /\ BlockSize \in Nat /\ BlockSize >= 1
      /\ T \in [Hashes -> Seq(Tokens)]
  BY ReadTypes, EndArith DEF Decodes
<1>1. ASSUME UNCHANGED <<text, current_hash, token_buffer, sealed>>
      PROVE  HashTells(T)'
  BY <1>1 DEF HashTells, Pending
<1>2. CASE ThreadMoves \/ Compute \/ EvictLeaf
  BY <1>1, <1>2 DEF ThreadMoves, Compute, EvictLeaf, seqVars, ghostVars
<1>3. ASSUME NEW s \in Seqs, StartRelease(s) \/ ReleaseBlock(s)
      PROVE  HashTells(T)'
  BY <1>1, <1>3 DEF StartRelease, ReleaseBlock, seqVars, ghostVars
<1>4. ASSUME NEW s \in Seqs, s \notin sealed, s \notin releasing,
             Len(token_buffer[s]) = BlockSize, InsertCache(s),
             \A t \in Seqs \ {s} : /\ token_buffer'[t] = token_buffer[t]
                                   /\ t \in sealed' <=> t \in sealed,
             Pending(s)' = <<>>
      PROVE  HashTells(T)'
  <2>1. PICK h \in Hashes :
            /\ token_buffer[s] \in Chunks
            /\ h = hash_block_state(current_hash[s], token_buffer[s])
            /\ current_hash' = [current_hash EXCEPT ![s] = h]
            /\ text' = text
    BY <1>4, Published
  <2>2. T[h] = text[s]
    BY <1>4, <2>1, PublishedText
  <2>3. text'[s] = T[current_hash'[s]] \o Pending(s)'
    <3>1. T[h] \o <<>> = T[h]
      BY <1>0, ConcatEmptySeq
    <3>2. current_hash'[s] = h
      BY <1>0, <2>1
    <3>. QED BY <1>4, <2>1, <2>2, <3>1, <3>2
  <2>4. ASSUME NEW t \in Seqs \ {s} PROVE text'[t] = T[current_hash'[t]] \o Pending(t)'
    <3>1. /\ text'[t] = text[t] /\ current_hash'[t] = current_hash[t]
          /\ Pending(t)' = Pending(t)
      BY <1>0, <1>4, <2>1 DEF Pending
    <3>. QED BY <3>1 DEF HashTells
  <2>. QED BY <2>3, <2>4 DEF HashTells
<1>5. CASE CommitBlock
  <2>0. pc = "append" /\ todo # <<>>
    BY <1>5 DEF CommitBlock
  <2>2. PICK s \in Seqs : s = todo[1].seq /\ s \notin sealed /\ s \notin releasing
    BY <2>0, FrontToken
  <2>1. /\ Len(token_buffer[s]) = BlockSize
        /\ InsertCache(s)
        /\ token_buffer' = [token_buffer EXCEPT ![s] = <<>>]
        /\ sealed' = sealed
    BY <1>5, <2>2 DEF CommitBlock
  <2>3. Pending(s)' = <<>>
    BY <1>0, <2>1, <2>2 DEF Pending
  <2>. QED BY <1>0, <1>4, <2>1, <2>2, <2>3
<1>6. ASSUME NEW s \in Seqs, FlushCache(s) PROVE HashTells(T)'
  <2>1. /\ pc = "idle" /\ s \notin sealed
        /\ sealed' = sealed \cup {s}
        /\ token_buffer' = token_buffer
    BY <1>6 DEF FlushCache
  <2>2. s \notin releasing
    BY <2>1, ReadTypes
  <2>3. CASE Len(token_buffer[s]) = BlockSize
    <3>1. InsertCache(s) /\ Pending(s)' = <<>>
      BY <1>6, <2>1, <2>3 DEF FlushCache, Pending
    <3>. QED BY <1>4, <2>1, <2>2, <2>3, <3>1
  <2>4. CASE Len(token_buffer[s]) # BlockSize
    <3>1. UNCHANGED <<text, current_hash>>
      BY <1>6, <2>4 DEF FlushCache
    <3>2. \A t \in Seqs : Pending(t)' = Pending(t)
      BY <2>1, <2>4 DEF Pending
    <3>. QED BY <3>1, <3>2 DEF HashTells
  <2>. QED BY <2>3, <2>4
<1>7. CASE PlaceToken \/ OpenBlock
  <2>1. PICK s \in Seqs, tok \in Tokens :
            /\ s \notin sealed
            /\ token_buffer' = [token_buffer EXCEPT ![s] = Append(@, tok)]
            /\ text' = [text EXCEPT ![s] = Append(@, tok)]
            /\ UNCHANGED <<current_hash, sealed>>
    BY <1>7, Placed
  <2>2. text'[s] = T[current_hash'[s]] \o Pending(s)'
    <3>. DEFINE d == T[current_hash[s]]
                q == token_buffer[s]
    <3>1. d \in Seq(Tokens) /\ q \in Seq(Tokens) /\ text[s] = d \o q
      BY <1>0, <2>1 DEF HashTells, Pending
    <3>2. text'[s] = Append(text[s], tok) /\ Pending(s)' = Append(q, tok)
      BY <1>0, <2>1 DEF Pending
    <3>. HIDE DEF d, q
    <3>3. /\ <<tok>> \in Seq(Tokens)
          /\ Append(d \o q, tok) = (d \o q) \o <<tok>>
          /\ Append(q, tok) = q \o <<tok>>
      BY <3>1, ConcatProperties, AppendIsConcat
    <3>4. (d \o q) \o <<tok>> = d \o (q \o <<tok>>)
      BY <3>1, <3>3, ConcatAssociative
    <3>5. text'[s] = d \o Pending(s)'
      BY <3>1, <3>2, <3>3, <3>4
    <3>. QED BY <2>1, <3>5 DEF d
  <2>3. ASSUME NEW t \in Seqs \ {s} PROVE text'[t] = T[current_hash'[t]] \o Pending(t)'
    <3>1. text'[t] = text[t] /\ Pending(t)' = Pending(t)
      BY <1>0, <2>1 DEF Pending
    <3>. QED BY <2>1, <3>1 DEF HashTells
  <2>. QED BY <2>2, <2>3 DEF HashTells
<1>8. ASSUME NEW s \in Seqs, FinishRelease(s) PROVE HashTells(T)'
  <2>1. /\ token_buffer' = [token_buffer EXCEPT ![s] = <<>>]
        /\ current_hash' = [current_hash EXCEPT ![s] = FNV_OFFSET_BASIS]
        /\ text' = [text EXCEPT ![s] = <<>>]
        /\ sealed' = sealed \ {s}
    BY <1>8 DEF FinishRelease
  <2>2. text'[s] = T[current_hash'[s]] \o Pending(s)'
    <3>1. /\ text'[s] = <<>> /\ Pending(s)' = <<>>
          /\ current_hash'[s] = FNV_OFFSET_BASIS /\ T[FNV_OFFSET_BASIS] = <<>>
      BY <1>0, <2>1 DEF Pending, Decodes
    <3>2. <<>> \o <<>> = <<>>
      OBVIOUS
    <3>. QED BY <3>1, <3>2
  <2>3. ASSUME NEW t \in Seqs \ {s} PROVE text'[t] = T[current_hash'[t]] \o Pending(t)'
    <3>1. /\ text'[t] = text[t] /\ current_hash'[t] = current_hash[t]
          /\ Pending(t)' = Pending(t)
      BY <1>0, <2>1 DEF Pending
    <3>. QED BY <3>1 DEF HashTells
  <2>. QED BY <2>2, <2>3 DEF HashTells
<1>9. ASSUME NEW s \in Seqs, NEW chunk \in Chunks, PrefixHit(s, chunk)
      PROVE  HashTells(T)'
  <2>1. PICK h \in Hashes :
            /\ token_buffer[s] = <<>>
            /\ h = hash_block_state(current_hash[s], chunk)
            /\ current_hash' = [current_hash EXCEPT ![s] = h]
            /\ text' = [text EXCEPT ![s] = @ \o chunk]
            /\ UNCHANGED <<token_buffer, sealed>>
    BY <1>9, Shared
  <2>2. /\ Pending(s) = <<>> /\ Pending(s)' = <<>>
        /\ text'[s] = text[s] \o chunk /\ current_hash'[s] = h
        /\ current_hash[s] \in Hashes
    BY <1>0, <2>1 DEF Pending
  <2>3. text[s] = T[current_hash[s]]
    <3>1. T[current_hash[s]] \o <<>> = T[current_hash[s]]
      BY <1>0, <2>2, ConcatEmptySeq
    <3>. QED BY <2>2, <3>1 DEF HashTells
  <2>4. T[h] = text'[s]
    BY <2>1, <2>2, <2>3 DEF Decodes, InCorpus
  <2>5. T[h] \o <<>> = T[h]
    BY <1>0, ConcatEmptySeq
  <2>6. ASSUME NEW t \in Seqs \ {s} PROVE text'[t] = T[current_hash'[t]] \o Pending(t)'
    <3>1. /\ text'[t] = text[t] /\ current_hash'[t] = current_hash[t]
          /\ Pending(t)' = Pending(t)
      BY <1>0, <2>1 DEF Pending
    <3>. QED BY <3>1 DEF HashTells
  <2>. QED BY <2>2, <2>4, <2>5, <2>6 DEF HashTells
<1>. QED BY <1>2, <1>3, <1>5, <1>6, <1>7, <1>8, <1>9, StepSplits

\* A block of a table is published for the table's own text.
LEMMA TableTextsKept ==
    ASSUME MemoryInv, ShareInv, NEW Corpus, InCorpus(Corpus), InCorpus(Corpus)',
           NEW T, Decodes(T, Corpus), HashTells(T), HashTells(T)', TableTexts(T),
           MemoryStep
    PROVE  TableTexts(T)'
<1>0. /\ text \in [Seqs -> Seq(Tokens)]
      /\ block_table \in [Seqs -> Seq(Blocks)]
      /\ current_hash \in [Seqs -> Hashes]
      /\ logical_token_count \in [Seqs -> Nat]
      /\ T \in [Hashes -> Seq(Tokens)]
      /\ pc # "release" => releasing = {} /\ freed = 0
      /\ \A s \in Seqs : \A k \in DOMAIN block_table[s] :
             k \in Nat \ {0} /\ End(k) \in Nat /\ k <= Len(block_table[s])
      /\ \A s \in Seqs : Len(text[s]) = logical_token_count[s]
  BY ReadTypes DEF Decodes
<1>1. ASSUME UNCHANGED <<block_table, text>>, releasing \subseteq releasing',
             Cached' \subseteq Cached, \A b \in Cached' : reverse_map'[b] = reverse_map[b]
      PROVE  TableTexts(T)'
  BY <1>1 DEF TableTexts
<1>2. CASE ThreadMoves \/ Compute
  <2>1. UNCHANGED <<block_table, text, releasing, reverse_map>>
    BY <1>2 DEF ThreadMoves, Compute, seqVars, cacheVars
  <2>. QED BY <1>1, <2>1 DEF Cached
<1>3. CASE EvictLeaf
  <2>1. /\ UNCHANGED <<block_table, text, releasing>>
        /\ Cached' \subseteq Cached
        /\ \A b \in Cached' : reverse_map'[b] = reverse_map[b]
    BY <1>3, Evicted DEF seqVars, ghostVars, ctlVars
  <2>. QED BY <1>1, <2>1
<1>4. ASSUME NEW s \in Seqs, s \notin sealed, s \notin releasing,
             Len(token_buffer[s]) = BlockSize, InsertCache(s), releasing' = releasing
      PROVE  TableTexts(T)'
  <2>. DEFINE n == Len(block_table[s])
  <2>1. PICK b \in Blocks, h \in Hashes :
            /\ token_buffer[s] \in Chunks
            /\ h = hash_block_state(current_hash[s], token_buffer[s])
            /\ b \notin Cached
            /\ OnlyAt(b, s, n)
            /\ End(n) = logical_token_count[s]
            /\ Cached' = Cached \cup {b}
            /\ reverse_map'[b] = h
            /\ \A c \in Cached : reverse_map'[c] = reverse_map[c]
            /\ UNCHANGED <<block_table, text>>
    BY <1>4, Published
  <2>2. T[h] = text[s]
    BY <1>4, <2>1, PublishedText
  <2>3. SubSeq(text[s], 1, End(n)) = text[s]
    BY <1>0, <2>1, SubSeqFull
  <2>4. SUFFICES ASSUME NEW t \in Seqs \ releasing, NEW k \in DOMAIN block_table[t],
                        block_table[t][k] \in Cached'
                 PROVE  T[reverse_map'[block_table[t][k]]] = SubSeq(text[t], 1, End(k))
    BY <1>4, <2>1 DEF TableTexts
  <2>5. CASE block_table[t][k] = b
    <3>1. t = s /\ k = n
      BY <2>1, <2>4, <2>5 DEF OnlyAt
    <3>. QED BY <2>1, <2>2, <2>3, <2>5, <3>1
  <2>6. CASE block_table[t][k] # b
    BY <2>1, <2>4, <2>6 DEF TableTexts
  <2>. QED BY <2>5, <2>6
<1>5. CASE CommitBlock
  <2>1. /\ pc = "append" /\ todo # <<>>
        /\ InsertCache(todo[1].seq) /\ releasing' = releasing
        /\ Len(token_buffer[todo[1].seq]) = BlockSize
    BY <1>5 DEF CommitBlock, ctlVars
  <2>. QED BY <1>4, <2>1, FrontToken
<1>6. ASSUME NEW s \in Seqs, FlushCache(s) PROVE TableTexts(T)'
  <2>1. pc = "idle" /\ s \notin sealed /\ releasing' = releasing
    BY <1>6 DEF FlushCache, ctlVars
  <2>2. CASE Len(token_buffer[s]) = BlockSize
    BY <1>0, <1>4, <1>6, <2>1, <2>2 DEF FlushCache
  <2>3. CASE Len(token_buffer[s]) # BlockSize
    <3>1. UNCHANGED <<reverse_map, block_table, text>>
      BY <1>6, <2>3 DEF FlushCache, cacheVars
    <3>. QED BY <1>1, <2>1, <3>1 DEF Cached
  <2>. QED BY <2>2, <2>3
<1>7. CASE PlaceToken \/ OpenBlock
  <2>1. PICK s \in Seqs, tok \in Tokens :
            /\ releasing = {} /\ UNCHANGED <<releasing, reverse_map>>
            /\ text' = [text EXCEPT ![s] = Append(@, tok)]
            /\ \/ block_table' = block_table
               \/ \E id \in Blocks :
                      /\ id \notin Cached
                      /\ block_table' = [block_table EXCEPT ![s] = Append(@, id)]
    BY <1>7, Placed
  <2>2. ASSUME NEW t \in Seqs, NEW k \in DOMAIN block_table[t],
               block_table[t][k] \in Cached
        PROVE  SubSeq(text'[t], 1, End(k)) = SubSeq(text[t], 1, End(k))
    <3>1. End(k) \in Nat /\ End(k) <= Len(text[t])
      BY <1>0, <2>1, <2>2 DEF ShareInv, PartialUncached
    <3>2. CASE t = s
      <4>1. text'[t] = Append(text[t], tok) /\ text[t] \in Seq(Tokens)
        BY <1>0, <2>1, <3>2
      <4>2. <<tok>> \in Seq(Tokens) /\ text'[t] = text[t] \o <<tok>>
        BY <4>1, AppendIsConcat
      <4>. QED BY <3>1, <4>1, <4>2, PrefixStays
    <3>3. CASE t # s
      BY <1>0, <2>1, <3>3
    <3>. QED BY <3>2, <3>3
  <2>3. \A t \in Seqs : \A k \in DOMAIN block_table'[t] :
            block_table'[t][k] \in Cached =>
                /\ k \in DOMAIN block_table[t]
                /\ block_table'[t][k] = block_table[t][k]
    <3>1. CASE block_table' = block_table
      BY <3>1
    <3>2. CASE block_table' # block_table
      <4>1. PICK id \in Blocks :
                /\ id \notin Cached
                /\ block_table' = [block_table EXCEPT ![s] = Append(@, id)]
        BY <2>1, <3>2
      <4>. DEFINE n == Len(block_table[s])
      <4>2. /\ block_table'[s][n + 1] = id
            /\ \A t \in Seqs : \A m \in DOMAIN block_table[t] :
                   block_table'[t][m] = block_table[t][m]
            /\ \A t \in Seqs : \A m \in DOMAIN block_table'[t] :
                   m \in DOMAIN block_table[t] \/ (t = s /\ m = n + 1)
        BY <1>0, <4>1, TableGrows
      <4>. HIDE DEF n
      <4>. QED BY <4>1, <4>2
    <3>. QED BY <3>1, <3>2
  <2>4. Cached' = Cached
    BY <2>1 DEF Cached
  <2>5. SUFFICES ASSUME NEW t \in Seqs, NEW k \in DOMAIN block_table'[t],
                        block_table'[t][k] \in Cached
                 PROVE  T[reverse_map[block_table'[t][k]]] = SubSeq(text'[t], 1, End(k))
    BY <2>1, <2>4 DEF TableTexts
  <2>6. k \in DOMAIN block_table[t] /\ block_table'[t][k] = block_table[t][k]
    BY <2>3, <2>5
  <2>7. T[reverse_map[block_table[t][k]]] = SubSeq(text[t], 1, End(k))
    BY <2>1, <2>5, <2>6 DEF TableTexts
  <2>. QED BY <2>2, <2>5, <2>6, <2>7
<1>8. ASSUME NEW s \in Seqs, StartRelease(s) \/ ReleaseBlock(s) PROVE TableTexts(T)'
  <2>1. /\ UNCHANGED <<block_table, text, reverse_map>>
        /\ releasing \subseteq releasing'
    BY <1>0, <1>8 DEF StartRelease, ReleaseBlock, seqVars, cacheVars, ghostVars
  <2>. QED BY <1>1, <2>1 DEF Cached
<1>9. ASSUME NEW s \in Seqs, FinishRelease(s) PROVE TableTexts(T)'
  <2>1. /\ s \in releasing /\ releasing' = {}
        /\ block_table' = [block_table EXCEPT ![s] = <<>>]
        /\ text' = [text EXCEPT ![s] = <<>>]
        /\ reverse_map' = reverse_map
    BY <1>9 DEF FinishRelease, cacheVars
  <2>2. releasing = {s}
    BY <2>1 DEF MemoryInv, ControlShape
  <2>3. /\ DOMAIN block_table'[s] = {} /\ Cached' = Cached
        /\ \A t \in Seqs \ {s} : block_table'[t] = block_table[t] /\ text'[t] = text[t]
    BY <1>0, <2>1 DEF Cached
  <2>. QED BY <2>1, <2>2, <2>3 DEF TableTexts
<1>10. ASSUME NEW s \in Seqs, NEW chunk \in Chunks, PrefixHit(s, chunk)
       PROVE  TableTexts(T)'
  <2>0. chunk \in Seq(Tokens) /\ Len(chunk) = BlockSize
    BY <1>10, Shared
  <2>1. PICK hit \in Blocks :
            /\ releasing = {}
            /\ token_buffer[s] = <<>>
            /\ block_table' = [block_table EXCEPT ![s] = Append(@, hit)]
            /\ current_hash' = [current_hash EXCEPT ![s] = reverse_map[hit]]
            /\ text' = [text EXCEPT ![s] = @ \o chunk]
            /\ UNCHANGED <<releasing, reverse_map, token_buffer>>
    BY <1>10, Shared
  <2>. DEFINE h == reverse_map[hit]
  <2>. DEFINE n == Len(block_table[s])
  <2>2. /\ n \in Nat
        /\ block_table'[s][n + 1] = hit
        /\ \A t \in Seqs : \A m \in DOMAIN block_table[t] :
               block_table'[t][m] = block_table[t][m]
        /\ \A t \in Seqs : \A m \in DOMAIN block_table'[t] :
               m \in DOMAIN block_table[t] \/ (t = s /\ m = n + 1)
    BY <1>0, <2>1, TableGrows
  <2>3. T[h] = SubSeq(text'[s], 1, End(n + 1))
    <3>1. /\ text[s] \in Seq(Tokens) /\ text'[s] = text[s] \o chunk
          /\ Len(text[s]) = logical_token_count[s]
          /\ current_hash'[s] = h /\ Pending(s)' = <<>>
      BY <1>0, <2>1 DEF Pending
    <3>2. text'[s] \in Seq(Tokens) /\ Len(text'[s]) = Len(text[s]) + BlockSize
      BY <2>0, <3>1, ConcatProperties
    <3>3. Len(text'[s]) = End(n + 1)
      <4>1. logical_token_count[s] = End(n)
        BY <2>1, TableFacts
      <4>. QED BY <2>2, <3>1, <3>2, <4>1, EndArith
    <3>4. text'[s] = T[h]
      <4>1. T[h] \o <<>> = T[h]
        BY <1>0, ConcatEmptySeq
      <4>. QED BY <3>1, <4>1 DEF HashTells
    <3>. QED BY <3>2, <3>3, <3>4, SubSeqFull
  <2>4. ASSUME NEW t \in Seqs, NEW k \in DOMAIN block_table[t],
               block_table[t][k] \in Cached
        PROVE  SubSeq(text'[t], 1, End(k)) = SubSeq(text[t], 1, End(k))
    <3>1. End(k) \in Nat /\ End(k) <= Len(text[t])
      BY <1>0, <2>1, <2>4 DEF ShareInv, PartialUncached
    <3>2. CASE t = s
      <4>1. text'[t] = text[t] \o chunk /\ text[t] \in Seq(Tokens)
        BY <1>0, <2>1, <3>2
      <4>. QED BY <2>0, <3>1, <4>1, PrefixStays
    <3>3. CASE t # s
      BY <1>0, <2>1, <3>3
    <3>. QED BY <3>2, <3>3
  <2>. HIDE DEF n
  <2>5. Cached' = Cached /\ reverse_map' = reverse_map /\ releasing' = releasing
    BY <2>1 DEF Cached
  <2>6. SUFFICES ASSUME NEW t \in Seqs, NEW k \in DOMAIN block_table'[t],
                        block_table'[t][k] \in Cached
                 PROVE  T[reverse_map[block_table'[t][k]]] = SubSeq(text'[t], 1, End(k))
    BY <2>5 DEF TableTexts
  <2>7. CASE k \in DOMAIN block_table[t]
    <3>1. block_table'[t][k] = block_table[t][k]
      BY <2>2, <2>7
    <3>2. T[reverse_map[block_table[t][k]]] = SubSeq(text[t], 1, End(k))
      BY <2>1, <2>6, <2>7, <3>1 DEF TableTexts
    <3>. QED BY <2>4, <2>6, <2>7, <3>1, <3>2
  <2>8. CASE k \notin DOMAIN block_table[t]
    <3>1. t = s /\ k = n + 1
      BY <2>2, <2>8
    <3>. QED BY <2>2, <2>3, <3>1
  <2>. QED BY <2>7, <2>8
<1>. QED BY <1>2, <1>3, <1>5, <1>6, <1>7, <1>8, <1>9, <1>10, StepSplits

\* Between passes, every published block holds its entries.
LEMMA RightWhenIdle ==
    ASSUME MemoryInv, ShareInv, NEW T, CachedHolds(T), pc \in {"idle", "release"},
           NEW b \in Cached, NEW j \in 0 .. BlockSize - 1
    PROVE  Right(T, b, j)
<1>1. SUFFICES ASSUME NEW s \in Seqs \ releasing, NEW k \in DOMAIN block_table[s],
                      block_table[s][k] = b, Position(k, j) > kv_len[s]
               PROVE  FALSE
  BY DEF CachedHolds
<1>2. /\ k \in Nat \ {0} /\ End(k) \in Nat
      /\ logical_token_count[s] \in Nat /\ kv_len[s] = logical_token_count[s]
  BY ReadTypes DEF ShareInv, LenInv
<1>3. Position(k, j) \in Nat /\ Position(k, j) <= End(k)
  BY <1>2, PositionArith
<1>4. End(k) <= logical_token_count[s]
  BY <1>1, <1>2 DEF ShareInv, PartialUncached
<1>. QED BY <1>1, <1>2, <1>3, <1>4

\* What is read at offset j of a block that is published for the text itself.
LEMMA RightReads ==
    ASSUME NEW q \in Seq(Tokens), NEW k \in Nat \ {0}, End(k) <= Len(q),
           NEW t, t = SubSeq(q, 1, End(k)), NEW j \in 0 .. BlockSize - 1
    PROVE  /\ Len(t) - BlockSize + j + 1 = Position(k, j)
           /\ SubSeq(t, 1, Position(k, j)) = SubSeq(q, 1, Position(k, j))
<1>1. End(k) \in Nat /\ BlockSize \in Nat
  BY EndArith
<1>2. Position(k, j) \in Nat /\ Position(k, j) <= End(k)
  BY PositionArith
<1>3. /\ Len(t) = End(k)
      /\ SubSeq(t, 1, Position(k, j)) = SubSeq(q, 1, Position(k, j))
  BY <1>1, <1>2, PrefixOfPrefix
<1>. QED BY <1>3 DEF Position

\* A pass completes the blocks that were published before it computed them.
LEMMA ComputedHolds ==
    ASSUME MemoryInv, ShareInv, NEW T, TableTexts(T), CachedHolds(T), Compute,
           NEW b \in Cached, NEW j \in 0 .. BlockSize - 1
    PROVE  LET t == T[reverse_map[b]]
           IN  kv'[<<b, j>>] = SubSeq(t, 1, Len(t) - BlockSize + j + 1)
<1>. DEFINE t == T[reverse_map[b]]
<1>0. releasing = {} /\ b \in Blocks
  BY Written DEF MemoryInv, TypeOK, IsPartial, Cached
<1>1. ASSUME NEW s \in Seqs, NEW k \in DOMAIN block_table[s],
             block_table[s][k] = b, kv_len[s] < Position(k, j)
      PROVE  kv'[<<b, j>>] = SubSeq(t, 1, Len(t) - BlockSize + j + 1)
  <2>1. /\ k \in Nat \ {0} /\ End(k) \in Nat
        /\ text[s] \in Seq(Tokens) /\ Len(text[s]) = logical_token_count[s]
        /\ logical_token_count[s] \in Nat
    BY ReadTypes
  <2>2. End(k) <= Len(text[s])
    BY <1>0, <1>1, <2>1 DEF ShareInv, PartialUncached
  <2>3. t = SubSeq(text[s], 1, End(k))
    BY <1>0, <1>1 DEF TableTexts
  <2>4. Position(k, j) \in Nat /\ Position(k, j) <= End(k)
    BY <2>1, PositionArith
  <2>5. Computing(s, k, j)
    BY <1>1, <2>1, <2>2, <2>4 DEF Computing
  <2>6. kv'[<<b, j>>] = SubSeq(text[s], 1, Position(k, j))
    BY <1>1, <2>5, Written
  <2>. HIDE DEF t
  <2>7. /\ Len(t) - BlockSize + j + 1 = Position(k, j)
        /\ SubSeq(t, 1, Position(k, j)) = SubSeq(text[s], 1, Position(k, j))
    BY <2>1, <2>2, <2>3, RightReads
  <2>. QED BY <2>6, <2>7
<1>2. CASE Right(T, b, j)
  <2>1. kv[<<b, j>>] = SubSeq(t, 1, Len(t) - BlockSize + j + 1)
    BY <1>2 DEF Right
  <2>2. CASE kv'[<<b, j>>] = kv[<<b, j>>]
    BY <2>1, <2>2
  <2>3. CASE kv'[<<b, j>>] # kv[<<b, j>>]
    <3>1. <<b, j>> \in Slots
      BY <1>0 DEF Slots
    <3>2. PICK s \in Seqs : \E k \in DOMAIN block_table[s] :
              \E i \in 0 .. BlockSize - 1 :
                  Computing(s, k, i) /\ <<b, j>> = <<block_table[s][k], i>>
      BY <2>3, <3>1, Written
    <3>3. PICK k \in DOMAIN block_table[s] :
              Computing(s, k, j) /\ block_table[s][k] = b
      BY <3>2
    <3>. QED BY <1>1, <3>3 DEF Computing
  <2>. QED BY <2>2, <2>3
<1>3. CASE ~Right(T, b, j)
  <2>1. PICK s \in Seqs \ releasing : \E k \in DOMAIN block_table[s] :
            block_table[s][k] = b /\ Position(k, j) > kv_len[s]
    BY <1>3 DEF CachedHolds
  <2>2. PICK k \in DOMAIN block_table[s] :
            block_table[s][k] = b /\ Position(k, j) > kv_len[s]
    BY <2>1
  <2>3. Position(k, j) \in Int /\ kv_len[s] \in Int
    <3>1. k \in Nat \ {0}
      BY ReadTypes
    <3>. QED BY <3>1, PositionArith, ReadTypes
  <2>. QED BY <1>1, <2>2, <2>3
<1>. QED BY <1>2, <1>3

\* A published block holds the entries of the text it is published for.
LEMMA CachedHoldsKept ==
    ASSUME MemoryInv, ShareInv, NEW Corpus, InCorpus(Corpus),
           NEW T, Decodes(T, Corpus), HashTells(T), TableTexts(T), CachedHolds(T),
           ReadAt, MemoryStep
    PROVE  CachedHolds(T)'
<1>. DEFINE Waits(b, j) == \E s \in Seqs \ releasing : \E k \in DOMAIN block_table[s] :
                               block_table[s][k] = b /\ Position(k, j) > kv_len[s]
<1>0. /\ text \in [Seqs -> Seq(Tokens)]
      /\ block_table \in [Seqs -> Seq(Blocks)]
      /\ T \in [Hashes -> Seq(Tokens)]
      /\ pc # "release" => releasing = {} /\ freed = 0
      /\ \A s \in Seqs : Len(text[s]) = logical_token_count[s]
  BY ReadTypes DEF Decodes
<1>1. ASSUME Cached' \subseteq Cached,
             \A b \in Cached' : /\ reverse_map'[b] = reverse_map[b]
                                /\ \A j \in 0 .. BlockSize - 1 :
                                       /\ kv'[<<b, j>>] = kv[<<b, j>>]
                                       /\ Waits(b, j) => Waits(b, j)'
      PROVE  CachedHolds(T)'
  <2>1. ASSUME NEW b \in Cached', NEW j \in 0 .. BlockSize - 1
        PROVE  Right(T, b, j)' \/ Waits(b, j)'
    <3>1. Right(T, b, j) \/ Waits(b, j)
      BY <1>1 DEF CachedHolds
    <3>2. Right(T, b, j) => Right(T, b, j)'
      BY <1>1 DEF Right
    <3>. QED BY <1>1, <3>1, <3>2
  <2>. QED BY <2>1 DEF CachedHolds
<1>2. ASSUME UNCHANGED <<block_table, releasing, kv_len>>, NEW b, NEW j
      PROVE  Waits(b, j) => Waits(b, j)'
  BY <1>2
<1>3. CASE ThreadMoves
  <2>1. UNCHANGED <<block_table, releasing, kv_len, kv, reverse_map>>
    BY <1>3 DEF ThreadMoves
  <2>. HIDE DEF Waits
  <2>. QED BY <1>1, <1>2, <2>1 DEF Cached
<1>4. CASE EvictLeaf
  <2>1. PICK id \in Blocks :
            /\ kv' = Discard(id)
            /\ Cached' = Cached \ {id}
            /\ \A b \in Cached' : reverse_map'[b] = reverse_map[b]
    BY <1>4, Evicted
  <2>2. UNCHANGED <<block_table, releasing, kv_len>>
    BY <1>4, Evicted DEF seqVars, ghostVars, ctlVars
  <2>3. \A b \in Cached' : \A j \in 0 .. BlockSize - 1 : kv'[<<b, j>>] = kv[<<b, j>>]
    <3>1. Cached \subseteq Blocks
      BY DEF MemoryInv, TypeOK, IsPartial, Cached
    <3>. QED BY <2>1, <3>1 DEF Discard, Slots
  <2>. HIDE DEF Waits
  <2>. QED BY <1>1, <1>2, <2>1, <2>2, <2>3
<1>5. CASE Compute
  <2>1. reverse_map' = reverse_map /\ Cached' = Cached
    BY <1>5, Written DEF Cached
  <2>2. ASSUME NEW b \in Cached, NEW j \in 0 .. BlockSize - 1
        PROVE  Right(T, b, j)'
    BY <1>5, <2>1, ComputedHolds DEF Right
  <2>. QED BY <2>1, <2>2 DEF CachedHolds
<1>6. ASSUME NEW s \in Seqs, s \notin sealed, s \notin releasing,
             Len(token_buffer[s]) = BlockSize, InsertCache(s), releasing' = releasing
      PROVE  CachedHolds(T)'
  <2>. DEFINE n == Len(block_table[s])
  <2>1. PICK b \in Blocks, h \in Hashes :
            /\ token_buffer[s] \in Chunks
            /\ block_table[s] # <<>>
            /\ h = hash_block_state(current_hash[s], token_buffer[s])
            /\ b = block_table[s][n]
            /\ End(n) = logical_token_count[s]
            /\ Cached' = Cached \cup {b}
            /\ reverse_map'[b] = h
            /\ \A c \in Cached : reverse_map'[c] = reverse_map[c]
            /\ UNCHANGED <<kv, block_table, text, kv_len>>
    BY <1>6, Published
  <2>2. T[h] = text[s]
    BY <1>6, <2>1, PublishedText
  <2>3. n \in DOMAIN block_table[s] /\ n \in Nat \ {0}
    BY <1>0, <2>1, EmptySeq
  <2>4. ASSUME NEW j \in 0 .. BlockSize - 1 PROVE Right(T, b, j)' \/ Waits(b, j)'
    <3>1. CASE Position(n, j) <= kv_len[s]
      <4>1. kv[<<b, j>>] = SubSeq(text[s], 1, Position(n, j))
        BY <1>6, <2>1, <2>3, <3>1 DEF ReadAt
      <4>2. Len(text[s]) - BlockSize + j + 1 = Position(n, j)
        BY <1>0, <2>1 DEF Position
      <4>3. Right(T, b, j)'
        BY <2>1, <2>2, <4>1, <4>2 DEF Right
      <4>. QED BY <4>3
    <3>2. CASE ~(Position(n, j) <= kv_len[s])
      <4>1. Position(n, j) \in Nat /\ kv_len[s] \in Nat
        BY <2>3, PositionArith, ReadTypes
      <4>2. Position(n, j) > kv_len[s]
        BY <3>2, <4>1
      <4>3. Waits(b, j)
        BY <1>6, <2>1, <2>3, <4>2
      <4>4. Waits(b, j)'
        BY <1>2, <1>6, <2>1, <4>3
      <4>. QED BY <4>4
    <3>. QED BY <3>1, <3>2
  <2>5. ASSUME NEW c \in Cached, NEW j \in 0 .. BlockSize - 1
        PROVE  Right(T, c, j)' \/ Waits(c, j)'
    <3>1. Right(T, c, j) \/ Waits(c, j)
      BY DEF CachedHolds
    <3>2. Right(T, c, j) => Right(T, c, j)'
      BY <2>1 DEF Right
    <3>3. Waits(c, j) => Waits(c, j)'
      BY <1>2, <1>6, <2>1
    <3>. QED BY <3>1, <3>2, <3>3
  <2>6. \A c \in Cached' : \A j \in 0 .. BlockSize - 1 : Right(T, c, j)' \/ Waits(c, j)'
    <3>. HIDE DEF Waits
    <3>. QED BY <2>1, <2>4, <2>5
  <2>. QED BY <2>6 DEF CachedHolds
<1>7. CASE CommitBlock
  <2>1. /\ pc = "append" /\ todo # <<>>
        /\ InsertCache(todo[1].seq) /\ releasing' = releasing
        /\ Len(token_buffer[todo[1].seq]) = BlockSize
    BY <1>7 DEF CommitBlock, ctlVars
  <2>. QED BY <1>6, <2>1, FrontToken
<1>8. ASSUME NEW s \in Seqs, FlushCache(s) PROVE CachedHolds(T)'
  <2>1. pc = "idle" /\ s \notin sealed /\ releasing' = releasing
    BY <1>8 DEF FlushCache, ctlVars
  <2>2. CASE Len(token_buffer[s]) = BlockSize
    BY <1>0, <1>6, <1>8, <2>1, <2>2 DEF FlushCache
  <2>3. CASE Len(token_buffer[s]) # BlockSize
    <3>1. UNCHANGED <<kv, reverse_map, block_table, kv_len>>
      BY <1>8, <2>3 DEF FlushCache, cacheVars
    <3>. HIDE DEF Waits
    <3>. QED BY <1>1, <1>2, <2>1, <3>1 DEF Cached
  <2>. QED BY <2>2, <2>3
<1>9. CASE PlaceToken \/ OpenBlock
  <2>1. PICK s \in Seqs, tok \in Tokens :
            /\ UNCHANGED <<releasing, reverse_map, kv, kv_len>>
            /\ \/ block_table' = block_table
               \/ \E id \in Blocks : block_table' = [block_table EXCEPT ![s] = Append(@, id)]
    BY <1>9, Placed
  <2>2. \A t \in Seqs : \A k \in DOMAIN block_table[t] :
            k \in DOMAIN block_table'[t] /\ block_table'[t][k] = block_table[t][k]
    <3>1. CASE block_table' = block_table
      BY <3>1
    <3>2. CASE block_table' # block_table
      <4>1. PICK id \in Blocks : block_table' = [block_table EXCEPT ![s] = Append(@, id)]
        BY <2>1, <3>2
      <4>. QED BY <1>0, <4>1, TableGrows
    <3>. QED BY <3>1, <3>2
  <2>3. ASSUME NEW b, NEW j, Waits(b, j) PROVE Waits(b, j)'
    BY <2>1, <2>2, <2>3
  <2>4. Cached' = Cached
    BY <2>1 DEF Cached
  <2>. HIDE DEF Waits
  <2>. QED BY <1>1, <2>1, <2>3, <2>4
<1>10. ASSUME pc \in {"idle", "release"}, reverse_map' = reverse_map,
              \A b \in Cached : \A j \in 0 .. BlockSize - 1 : kv'[<<b, j>>] = kv[<<b, j>>]
       PROVE  CachedHolds(T)'
  <2>1. Cached' = Cached
    BY <1>10 DEF Cached
  <2>2. ASSUME NEW b \in Cached, NEW j \in 0 .. BlockSize - 1 PROVE Right(T, b, j)'
    <3>1. Right(T, b, j)
      BY <1>10, RightWhenIdle
    <3>. QED BY <1>10, <3>1 DEF Right
  <2>. QED BY <2>1, <2>2 DEF CachedHolds
<1>11. ASSUME NEW s \in Seqs, StartRelease(s) \/ FinishRelease(s) PROVE CachedHolds(T)'
  <2>1. pc \in {"idle", "release"} /\ UNCHANGED <<reverse_map, kv>>
    BY <1>11 DEF StartRelease, FinishRelease, cacheVars
  <2>. QED BY <1>10, <2>1
<1>12. ASSUME NEW s \in Seqs, ReleaseBlock(s) PROVE CachedHolds(T)'
  <2>1. pc = "release" /\ reverse_map' = reverse_map
    BY <1>12 DEF ReleaseBlock
  <2>2. kv' = kv \/ \E b \in Blocks : kv' = Discard(b) /\ b \notin Cached
    BY <1>12, Dropped
  <2>3. ASSUME NEW c \in Cached, NEW j \in 0 .. BlockSize - 1
        PROVE  kv'[<<c, j>>] = kv[<<c, j>>]
    <3>1. <<c, j>> \in Slots
      BY DEF Slots, MemoryInv, TypeOK, IsPartial, Cached
    <3>. QED BY <2>2, <3>1 DEF Discard
  <2>. QED BY <1>10, <2>1, <2>3
<1>13. ASSUME NEW s \in Seqs, NEW chunk \in Chunks, PrefixHit(s, chunk)
       PROVE  CachedHolds(T)'
  <2>1. pc = "idle" /\ UNCHANGED <<reverse_map, kv>>
    BY <1>13 DEF PrefixHit
  <2>. QED BY <1>10, <2>1
<1>. QED BY <1>3, <1>4, <1>5, <1>7, <1>8, <1>9, <1>11, <1>12, <1>13, StepSplits


\* What a sequence has computed stays what it reads.
LEMMA ReadAtKept ==
    ASSUME MemoryInv, ShareInv, NEW Corpus, InCorpus(Corpus), InCorpus(Corpus)',
           NEW T, Decodes(T, Corpus), HashTells(T)', CachedHolds(T), ReadAt,
           MemoryStep
    PROVE  ReadAt'
<1>0. /\ text \in [Seqs -> Seq(Tokens)]
      /\ block_table \in [Seqs -> Seq(Blocks)]
      /\ logical_token_count \in [Seqs -> Nat]
      /\ kv_len \in [Seqs -> Nat]
      /\ current_hash \in [Seqs -> Hashes]
      /\ T \in [Hashes -> Seq(Tokens)]
      /\ pc # "release" => releasing = {} /\ freed = 0
      /\ \A s \in Seqs : \A k \in DOMAIN block_table[s] :
             k \in Nat \ {0} /\ End(k) \in Nat /\ k <= Len(block_table[s])
      /\ \A s \in Seqs : Len(text[s]) = logical_token_count[s]
  BY ReadTypes DEF Decodes
<1>1. ASSUME NEW s \in Seqs, s \notin releasing, NEW k \in DOMAIN block_table[s],
             NEW j \in 0 .. BlockSize - 1, Position(k, j) <= kv_len[s]
      PROVE  /\ Position(k, j) \in Nat /\ Position(k, j) <= Len(text[s])
             /\ kv'[<<block_table[s][k], j>>] = SubSeq(text[s], 1, Position(k, j))
  <2>1. k \in Nat \ {0} /\ block_table[s][k] \in Blocks
    BY <1>0
  <2>2. Position(k, j) \in Nat \ {0}
    BY <2>1, PositionArith
  <2>3. /\ Position(k, j) <= Len(text[s])
        /\ Position(k, j) \in 1 .. MaxLen
    <3>1. /\ kv_len[s] <= logical_token_count[s]
          /\ Len(text[s]) <= MaxLen /\ MaxLen \in Nat
      BY <1>1, PoolAssumption DEF ShareInv, LenInv, BoundInv
    <3>2. kv_len[s] \in Nat /\ logical_token_count[s] \in Nat /\ Len(text[s]) = logical_token_count[s]
      BY <1>0
    <3>. QED BY <1>1, <2>2, <3>1, <3>2
  <2>4. kv[<<block_table[s][k], j>>] = SubSeq(text[s], 1, Position(k, j))
    BY <1>1 DEF ReadAt
  <2>5. kv'[<<block_table[s][k], j>>] = kv[<<block_table[s][k], j>>]
    <3>1. Slot(s, Position(k, j)) = <<block_table[s][k], j>>
      BY <2>1, SlotAt
    <3>2. <<block_table[s][k], j>> \in Slots
      BY <2>1 DEF Slots
    <3>. QED BY <1>1, <2>3, <3>1, <3>2, StepLeavesRead
  <2>. QED BY <2>2, <2>3, <2>4, <2>5
<1>2. ASSUME UNCHANGED <<block_table, text, kv_len>>, releasing \subseteq releasing'
      PROVE  ReadAt'
  BY <1>1, <1>2 DEF ReadAt
<1>3. CASE ThreadMoves \/ CommitBlock \/ EvictLeaf
  BY <1>2, <1>3 DEF ThreadMoves, CommitBlock, InsertCache, EvictLeaf, seqVars,
                    ctlVars, ghostVars
<1>4. ASSUME NEW s \in Seqs, FlushCache(s) \/ ReleaseBlock(s) PROVE ReadAt'
  BY <1>2, <1>4 DEF FlushCache, InsertCache, ReleaseBlock, seqVars, ctlVars, ghostVars
<1>5. CASE Compute
  <2>1. /\ releasing = {} /\ kv_len' = logical_token_count
        /\ UNCHANGED <<block_table, text, releasing>>
    BY <1>5, Written
  <2>2. SUFFICES ASSUME NEW s \in Seqs, NEW k \in DOMAIN block_table[s],
                        NEW j \in 0 .. BlockSize - 1,
                        Position(k, j) <= logical_token_count[s]
                 PROVE  kv'[<<block_table[s][k], j>>] = SubSeq(text[s], 1, Position(k, j))
    BY <2>1 DEF ReadAt
  <2>3. Position(k, j) \in Nat /\ kv_len[s] \in Nat
    BY <1>0, PositionArith
  <2>4. CASE Position(k, j) <= kv_len[s]
    BY <1>1, <2>1, <2>4
  <2>5. CASE ~(Position(k, j) <= kv_len[s])
    <3>1. Computing(s, k, j)
      BY <2>2, <2>3, <2>5 DEF Computing
    <3>. QED BY <1>5, <3>1, Written
  <2>. QED BY <2>4, <2>5
<1>6. CASE PlaceToken \/ OpenBlock
  <2>1. PICK s \in Seqs, tok \in Tokens :
            /\ releasing = {} /\ UNCHANGED <<releasing, kv_len>>
            /\ text' = [text EXCEPT ![s] = Append(@, tok)]
            /\ \/ block_table' = block_table
               \/ \E id \in Blocks :
                      /\ logical_token_count[s] = End(Len(block_table[s]))
                      /\ block_table' = [block_table EXCEPT ![s] = Append(@, id)]
    BY <1>6, Placed
  <2>2. ASSUME NEW t \in Seqs, NEW k \in DOMAIN block_table[t],
               NEW j \in 0 .. BlockSize - 1, Position(k, j) <= kv_len[t]
        PROVE  kv'[<<block_table[t][k], j>>] = SubSeq(text'[t], 1, Position(k, j))
    <3>1. /\ Position(k, j) \in Nat /\ Position(k, j) <= Len(text[t])
          /\ kv'[<<block_table[t][k], j>>] = SubSeq(text[t], 1, Position(k, j))
      BY <1>1, <2>1, <2>2
    <3>2. CASE t = s
      <4>1. text'[t] = Append(text[t], tok) /\ text[t] \in Seq(Tokens)
        BY <1>0, <2>1, <3>2
      <4>2. <<tok>> \in Seq(Tokens) /\ text'[t] = text[t] \o <<tok>>
        BY <4>1, AppendIsConcat
      <4>. QED BY <3>1, <4>1, <4>2, PrefixStays
    <3>3. CASE t # s
      BY <1>0, <2>1, <3>1, <3>3
    <3>. QED BY <3>2, <3>3
  <2>3. ASSUME NEW t \in Seqs, NEW k \in DOMAIN block_table'[t],
               NEW j \in 0 .. BlockSize - 1, Position(k, j) <= kv_len[t]
        PROVE  k \in DOMAIN block_table[t] /\ block_table'[t][k] = block_table[t][k]
    <3>1. CASE block_table' = block_table
      BY <3>1
    <3>2. CASE block_table' # block_table
      <4>1. PICK id \in Blocks :
                /\ logical_token_count[s] = End(Len(block_table[s]))
                /\ block_table' = [block_table EXCEPT ![s] = Append(@, id)]
        BY <2>1, <3>2
      <4>. DEFINE n == Len(block_table[s])
      <4>2. /\ n \in Nat
            /\ \A u \in Seqs : \A m \in DOMAIN block_table[u] :
                   block_table'[u][m] = block_table[u][m]
            /\ \A u \in Seqs : \A m \in DOMAIN block_table'[u] :
                   m \in DOMAIN block_table[u] \/ (u = s /\ m = n + 1)
        BY <1>0, <4>1, TableGrows
      <4>3. ~(t = s /\ k = n + 1)
        <5>1. /\ Position(n + 1, j) = End(n) + j + 1
              /\ End(n) \in Nat
          <6>1. /\ BlockSize \in Nat /\ End(n) \in Nat
                /\ End(n + 1) = End(n) + BlockSize
            BY <4>2, EndArith
          <6>. QED BY <6>1 DEF Position
        <5>2. kv_len[s] <= End(n) /\ kv_len[s] \in Nat
          BY <1>0, <2>1, <4>1 DEF ShareInv, LenInv
        <5>. QED BY <2>3, <5>1, <5>2
      <4>. QED BY <4>2, <4>3
    <3>. QED BY <3>1, <3>2
  <2>4. ASSUME NEW t \in Seqs, NEW k \in DOMAIN block_table'[t],
               NEW j \in 0 .. BlockSize - 1, Position(k, j) <= kv_len[t]
        PROVE  kv'[<<block_table'[t][k], j>>] = SubSeq(text'[t], 1, Position(k, j))
    <3>1. k \in DOMAIN block_table[t] /\ block_table'[t][k] = block_table[t][k]
      BY <2>3, <2>4
    <3>. QED BY <2>2, <2>4, <3>1
  <2>5. kv_len' = kv_len /\ releasing' = {}
    BY <2>1
  <2>. QED BY <2>4, <2>5 DEF ReadAt
<1>7. ASSUME NEW s \in Seqs, StartRelease(s) PROVE ReadAt'
  <2>1. /\ releasing = {} /\ releasing' = {s}
        /\ kv_len' = [kv_len EXCEPT ![s] = 0]
        /\ UNCHANGED <<block_table, text>>
    BY <1>0, <1>7 DEF StartRelease, seqVars
  <2>2. \A t \in Seqs \ {s} : kv_len'[t] = kv_len[t]
    BY <1>0, <2>1
  <2>3. SUFFICES ASSUME NEW t \in Seqs \ {s}, NEW k \in DOMAIN block_table[t],
                        NEW j \in 0 .. BlockSize - 1, Position(k, j) <= kv_len'[t]
                 PROVE  kv'[<<block_table[t][k], j>>] = SubSeq(text[t], 1, Position(k, j))
    BY <2>1 DEF ReadAt
  <2>. QED BY <1>1, <2>1, <2>2, <2>3
<1>8. ASSUME NEW s \in Seqs, FinishRelease(s) PROVE ReadAt'
  <2>1. /\ s \in releasing /\ releasing' = {}
        /\ block_table' = [block_table EXCEPT ![s] = <<>>]
        /\ text' = [text EXCEPT ![s] = <<>>]
        /\ kv_len' = kv_len
    BY <1>8 DEF FinishRelease
  <2>2. releasing = {s}
    BY <2>1 DEF MemoryInv, ControlShape
  <2>3. /\ DOMAIN block_table'[s] = {}
        /\ \A t \in Seqs \ {s} : block_table'[t] = block_table[t] /\ text'[t] = text[t]
    BY <1>0, <2>1
  <2>. QED BY <1>1, <2>1, <2>2, <2>3 DEF ReadAt
<1>9. ASSUME NEW s \in Seqs, NEW chunk \in Chunks, PrefixHit(s, chunk)
      PROVE  ReadAt'
  <2>0. chunk \in Seq(Tokens) /\ Len(chunk) = BlockSize
    BY <1>9, Shared
  <2>1. PICK hit \in Blocks :
            /\ pc = "idle" /\ releasing = {}
            /\ token_buffer[s] = <<>>
            /\ hit \in Cached
            /\ block_table' = [block_table EXCEPT ![s] = Append(@, hit)]
            /\ current_hash' = [current_hash EXCEPT ![s] = reverse_map[hit]]
            /\ text' = [text EXCEPT ![s] = @ \o chunk]
            /\ kv_len' = [kv_len EXCEPT ![s] = @ + BlockSize]
            /\ UNCHANGED <<kv, releasing, token_buffer>>
    BY <1>9, Shared
  <2>. DEFINE n == Len(block_table[s])
              h == reverse_map[hit]
  <2>2. /\ n \in Nat
        /\ block_table'[s][n + 1] = hit
        /\ \A t \in Seqs : \A m \in DOMAIN block_table[t] :
               block_table'[t][m] = block_table[t][m]
        /\ \A t \in Seqs : \A m \in DOMAIN block_table'[t] :
               m \in DOMAIN block_table[t] \/ (t = s /\ m = n + 1)
    BY <1>0, <2>1, TableGrows
  <2>3. /\ logical_token_count[s] = End(n) /\ kv_len[s] = End(n) /\ End(n) \in Nat
        /\ kv_len[s] \in Nat
    <3>1. logical_token_count[s] = End(n) /\ kv_len[s] = logical_token_count[s]
      BY <2>1, TableFacts DEF ShareInv, LenInv
    <3>. QED BY <1>0, <2>2, <3>1, EndArith
  <2>4. /\ text[s] \in Seq(Tokens) /\ text'[s] = text[s] \o chunk
        /\ text'[s] \in Seq(Tokens) /\ Len(text'[s]) = Len(text[s]) + BlockSize
    <3>1. text[s] \in Seq(Tokens) /\ text'[s] = text[s] \o chunk
      BY <1>0, <2>1
    <3>. QED BY <2>0, <3>1, ConcatProperties
  <2>5. T[h] = text'[s]
    <3>1. current_hash'[s] = h /\ Pending(s)' = <<>> /\ h \in Hashes
      BY <1>0, <2>1 DEF Pending, MemoryInv, TypeOK, IsPartial, Cached
    <3>2. T[h] \o <<>> = T[h]
      BY <1>0, <3>1, ConcatEmptySeq
    <3>. QED BY <3>1, <3>2 DEF HashTells
  <2>6. ASSUME NEW j \in 0 .. BlockSize - 1
        PROVE  kv'[<<hit, j>>] = SubSeq(text'[s], 1, Position(n + 1, j))
    <3>1. Right(T, hit, j)
      BY <2>1, RightWhenIdle
    <3>2. Len(text'[s]) - BlockSize + j + 1 = Position(n + 1, j)
      <4>1. Len(text'[s]) = End(n + 1)
        BY <1>0, <2>2, <2>3, <2>4, EndArith
      <4>. QED BY <4>1 DEF Position
    <3>. QED BY <2>1, <2>5, <3>1, <3>2 DEF Right
  <2>7. ASSUME NEW t \in Seqs, NEW k \in DOMAIN block_table[t],
               NEW j \in 0 .. BlockSize - 1, Position(k, j) <= kv_len[t]
        PROVE  kv'[<<block_table[t][k], j>>] = SubSeq(text'[t], 1, Position(k, j))
    <3>1. /\ Position(k, j) \in Nat /\ Position(k, j) <= Len(text[t])
          /\ kv'[<<block_table[t][k], j>>] = SubSeq(text[t], 1, Position(k, j))
      BY <1>1, <2>1, <2>7
    <3>2. CASE t = s
      BY <2>0, <2>4, <3>1, <3>2, PrefixStays
    <3>3. CASE t # s
      BY <1>0, <2>1, <3>1, <3>3
    <3>. QED BY <3>2, <3>3
  <2>8. SUFFICES ASSUME NEW t \in Seqs, NEW k \in DOMAIN block_table'[t],
                        NEW j \in 0 .. BlockSize - 1, Position(k, j) <= kv_len'[t]
                 PROVE  kv'[<<block_table'[t][k], j>>] = SubSeq(text'[t], 1, Position(k, j))
    BY DEF ReadAt
  <2>9. CASE k \in DOMAIN block_table[t]
    <3>1. Position(k, j) <= kv_len[t]
      <4>1. CASE t # s
        BY <1>0, <2>1, <2>8, <4>1
      <4>2. CASE t = s
        <5>1. /\ k \in Nat \ {0} /\ k <= n /\ End(k) \in Nat
          BY <1>0, <2>9, <4>2
        <5>2. Position(k, j) \in Nat /\ Position(k, j) <= End(k)
          BY <5>1, PositionArith
        <5>3. End(k) <= End(n)
          <6>1. k < n => End(k) + BlockSize <= End(n)
            BY <2>2, <5>1, EndArith
          <6>2. k = n \/ k < n
            BY <2>2, <5>1
          <6>3. BlockSize \in Nat
            BY EndArith
          <6>4. CASE k = n
            BY <2>3, <6>4
          <6>5. CASE k < n
            BY <2>3, <5>1, <6>1, <6>3, <6>5
          <6>. QED BY <6>2, <6>4, <6>5
        <5>. QED BY <2>3, <4>2, <5>1, <5>2, <5>3
      <4>. QED BY <4>1, <4>2
    <3>2. block_table'[t][k] = block_table[t][k]
      BY <2>2, <2>9
    <3>. QED BY <2>7, <2>9, <3>1, <3>2
  <2>10. CASE k \notin DOMAIN block_table[t]
    <3>1. t = s /\ k = n + 1
      BY <2>2, <2>10
    <3>. QED BY <2>2, <2>6, <3>1
  <2>. QED BY <2>9, <2>10
<1>. QED BY <1>3, <1>4, <1>5, <1>6, <1>7, <1>8, <1>9, StepSplits

\* The pool of a new manager holds nothing, and nothing is read.
LEMMA ReadInit ==
    ASSUME Init, NEW Corpus, NEW T, Decodes(T, Corpus)
    PROVE  ReadInv(T)
<1>1. /\ \A s \in Seqs : /\ DOMAIN block_table[s] = {} /\ text[s] = <<>>
                         /\ token_buffer[s] = <<>>
                         /\ current_hash[s] = FNV_OFFSET_BASIS
      /\ Cached = {}
      /\ T[FNV_OFFSET_BASIS] = <<>>
  BY DEF Init, Cached, Decodes
<1>2. HashTells(T)
  <2>1. \A s \in Seqs : Pending(s) = <<>>
    BY <1>1 DEF Pending
  <2>2. <<>> \o <<>> = <<>>
    OBVIOUS
  <2>. QED BY <1>1, <2>1, <2>2 DEF HashTells
<1>. QED BY <1>1, <1>2 DEF ReadInv, TableTexts, CachedHolds, ReadAt

\* ReadInv is inductive relative to the other two.
LEMMA ReadKept ==
    ASSUME MemoryInv, ShareInv, NEW Corpus, InCorpus(Corpus), InCorpus(Corpus)',
           NEW T, Decodes(T, Corpus), ReadInv(T), MemoryStep
    PROVE  ReadInv(T)'
<1>1. HashTells(T)'
  BY HashKept DEF ReadInv
<1>. QED BY <1>1, TableTextsKept, CachedHoldsKept, ReadAtKept DEF ReadInv

\* Read through Slot, position by position.
LEMMA ReadAtIsReadback == MemoryInv /\ ShareInv /\ ReadAt => Readback
<1>. SUFFICES ASSUME MemoryInv, ShareInv, ReadAt,
                     NEW s \in Seqs, NEW i \in 1 .. kv_len[s]
              PROVE  kv[Slot(s, i)] = SubSeq(text[s], 1, i)
  BY DEF Readback
<1>1. /\ kv_len[s] \in Nat /\ logical_token_count[s] \in Nat
      /\ i \in Nat \ {0} /\ i <= kv_len[s]
  BY ReadTypes
<1>2. s \notin releasing /\ kv_len[s] <= logical_token_count[s]
  BY <1>1 DEF ShareInv, LenInv
<1>3. i <= logical_token_count[s]
  BY <1>1, <1>2
<1>4. PICK k \in DOMAIN block_table[s], j \in 0 .. BlockSize - 1 :
          i = Position(k, j) /\ Slot(s, i) = <<block_table[s][k], j>>
  BY <1>1, <1>2, <1>3, PositionIn
<1>. QED BY <1>1, <1>2, <1>4 DEF ReadAt

(* Attention reads what was computed for the sequence's own text, if no    *)
(* two of the texts that occur have the same hash, block by block.         *)
THEOREM EveryoneReadsItsText ==
    ASSUME NEW Corpus, NoCollisions(Corpus)
    PROVE  Spec /\ []InCorpus(Corpus) => []Readback
<1>. DEFINE Inv(T) == MemoryInv /\ ShareInv /\ ReadInv(T)
<1>1. PICK T : Decodes(T, Corpus)
  BY DEF NoCollisions
<1>2. Init => Inv(T)
  BY <1>1, InitMemoryInv, ShareInit, ReadInit
<1>3. Inv(T) /\ InCorpus(Corpus) /\ InCorpus(Corpus)' /\ [Next]_memVars => Inv(T)'
  BY <1>1, NextMemoryInv, ShareKept, ReadKept DEF MemoryStep
<1>4. Inv(T) => Readback
  BY ReadAtIsReadback DEF ReadInv
<1>. HIDE DEF Inv
<1>. QED BY <1>2, <1>3, <1>4, PTL DEF Spec

-----------------------------------------------------------------------------
(***************************************************************************)
(* The refinement: what a sequence sees through its table is what a KV     *)
(* cache of its own would hold.                                            *)
(***************************************************************************)

\* The tokens of a pass are each for one of the sequences.
LEMMA BatchMember ==
    ASSUME NEW batch \in Seq([seq : Seqs, tok : Tokens]), NEW i \in DOMAIN batch
    PROVE  i \in Nat \ {0} /\ batch[i].seq \in Seqs
<1>. DEFINE S == [seq : Seqs, tok : Tokens]
<1>1. i \in 1 .. Len(batch)
  OBVIOUS
<1>2. batch[i] \in S
  <2>. HIDE DEF S
  <2>1. batch \in Seq(S)
    BY DEF S
  <2>. QED BY <1>1, <2>1, ElementOfSeq
<1>. QED BY <1>1, <1>2

\* A pass has the shape it started with until it is computed.
LEMMA PassShapeKept ==
    MemoryInv /\ LenInv /\ PassShape /\ MemoryStep => PassShape'
<1>. SUFFICES ASSUME MemoryInv, LenInv, PassShape, MemoryStep,
                     pc' \in {"append", "evict"}
              PROVE  PassShape'
  BY DEF PassShape
<1>0. /\ logical_token_count \in [Seqs -> Nat]
      /\ kv_len \in [Seqs -> Nat]
      /\ todo \in Seq([seq : Seqs, tok : Tokens])
      /\ pc # "release" => releasing = {}
  BY ReadTypes DEF MemoryInv, TypeOK
<1>1. ASSUME pc \in {"append", "evict"}, UNCHANGED <<todo, kv_len, logical_token_count>>
      PROVE  PassShape'
  BY <1>1 DEF PassShape
<1>2. CASE ThreadMoves
  <2>1. ASSUME NEW batch \in Seq([seq : Seqs, tok : Tokens]), StartForward(batch),
               OneOrEach(batch)
        PROVE  PassShape'
    <3>1. /\ pc = "idle" /\ todo' = batch
          /\ UNCHANGED <<kv_len, logical_token_count>>
      BY <2>1 DEF StartForward, seqVars, ghostVars
    <3>2. \A t \in Seqs : kv_len'[t] = logical_token_count'[t]
      BY <1>0, <3>1 DEF LenInv
    <3>3. \A t \in Seqs : logical_token_count'[t] <= kv_len'[t] + 1
      BY <1>0, <3>1, <3>2
    <3>4. CASE \E s \in Seqs : \A i \in DOMAIN batch : batch[i].seq = s
      BY <3>1, <3>2, <3>4 DEF PassShape
    <3>5. CASE \A i, j \in DOMAIN batch : batch[i].seq = batch[j].seq => i = j
      <4>1. \A i \in DOMAIN batch : batch[i].seq \in Seqs
        BY BatchMember
      <4>. QED BY <3>1, <3>2, <3>3, <3>5, <4>1 DEF PassShape
    <3>. QED BY <2>1, <3>4, <3>5 DEF OneOrEach
  <2>. QED BY <1>1, <1>2, <2>1 DEF ThreadMoves
<1>3. CASE CommitBlock \/ EvictLeaf
  BY <1>1, <1>3 DEF CommitBlock, InsertCache, EvictLeaf, ctlVars, ghostVars, seqVars
<1>4. CASE PlaceToken \/ OpenBlock
  <2>1. PICK s \in Seqs :
            /\ pc = "append"
            /\ todo # <<>> /\ todo[1].seq = s /\ todo' = Tail(todo)
            /\ logical_token_count' = [logical_token_count EXCEPT ![s] = @ + 1]
            /\ kv_len' = kv_len
    BY <1>4, Placed
  <2>2. /\ 1 \in DOMAIN todo
        /\ \A i \in DOMAIN todo' :
               /\ i \in Nat \ {0} /\ i + 1 \in DOMAIN todo
               /\ todo'[i] = todo[i + 1] /\ todo'[i].seq \in Seqs
    <3>1. \A i \in DOMAIN Tail(todo) :
              i \in Nat \ {0} /\ Tail(todo)[i].seq \in Seqs
      <4>1. Tail(todo) \in Seq([seq : Seqs, tok : Tokens])
        BY <1>0, <2>1, TailMember
      <4>. QED BY <4>1, BatchMember
    <3>2. \A i \in DOMAIN Tail(todo) : i + 1 \in DOMAIN todo /\ Tail(todo)[i] = todo[i + 1]
      BY <1>0, <2>1, TailMember
    <3>3. 1 \in DOMAIN todo
      BY <1>0, <2>1, EmptySeq
    <3>. QED BY <2>1, <3>1, <3>2, <3>3
  <2>3. CASE \E u \in Seqs :
                 /\ \A i \in DOMAIN todo : todo[i].seq = u
                 /\ \A t \in Seqs \ {u} : kv_len[t] = logical_token_count[t]
    <3>1. PICK u \in Seqs : /\ \A i \in DOMAIN todo : todo[i].seq = u
                            /\ \A t \in Seqs \ {u} : kv_len[t] = logical_token_count[t]
      BY <2>3
    <3>2. u = s
      BY <2>1, <2>2, <3>1
    <3>3. /\ \A i \in DOMAIN todo' : todo'[i].seq = s
          /\ \A t \in Seqs \ {s} : kv_len'[t] = logical_token_count'[t]
      BY <1>0, <2>1, <2>2, <3>1, <3>2
    <3>. QED BY <3>3 DEF PassShape
  <2>4. CASE /\ \A i, j \in DOMAIN todo : todo[i].seq = todo[j].seq => i = j
             /\ \A t \in Seqs : logical_token_count[t] <= kv_len[t] + 1
             /\ \A i \in DOMAIN todo :
                    logical_token_count[todo[i].seq] = kv_len[todo[i].seq]
    <3>1. \A i, j \in DOMAIN todo' : todo'[i].seq = todo'[j].seq => i = j
      BY <2>2, <2>4
    <3>2. logical_token_count[s] = kv_len[s]
      BY <2>1, <2>2, <2>4
    <3>3. \A t \in Seqs : logical_token_count'[t] <= kv_len'[t] + 1
      BY <1>0, <2>1, <2>4, <3>2
    <3>4. \A i \in DOMAIN todo' : todo'[i].seq # s
      BY <2>1, <2>2, <2>4
    <3>5. \A i \in DOMAIN todo' :
              logical_token_count'[todo'[i].seq] = kv_len'[todo'[i].seq]
      <4>1. \A t \in Seqs \ {s} : logical_token_count'[t] = logical_token_count[t]
        BY <1>0, <2>1
      <4>2. \A i \in DOMAIN todo' :
                /\ todo'[i].seq \in Seqs
                /\ logical_token_count[todo'[i].seq] = kv_len[todo'[i].seq]
        BY <2>2, <2>4
      <4>. QED BY <2>1, <3>4, <4>1, <4>2
    <3>. QED BY <3>1, <3>3, <3>5 DEF PassShape
  <2>. QED BY <2>1, <2>3, <2>4 DEF PassShape
<1>5. CASE Compute
  BY <1>5 DEF Compute
<1>6. ASSUME NEW s \in Seqs,
             FlushCache(s) \/ StartRelease(s) \/ ReleaseBlock(s) \/ FinishRelease(s)
      PROVE  PassShape'
  BY <1>6 DEF FlushCache, StartRelease, ReleaseBlock, FinishRelease, ctlVars
<1>7. ASSUME NEW s \in Seqs, NEW chunk \in Chunks, PrefixHit(s, chunk)
      PROVE  PassShape'
  BY <1>7, Shared
<1>. QED BY <1>2, <1>3, <1>4, <1>5, <1>6, <1>7, StepSplits

\* The entries of a KV cache that holds the first n positions of the text q.
CacheOf(q, n) == [i \in 1 .. n |-> SubSeq(q, 1, i)]

\* A prefix is continued by the part behind it.
LEMMA PrefixContinues ==
    ASSUME NEW S, NEW q \in Seq(S), NEW n \in Nat, NEW m \in Nat,
           n <= m, m <= Len(q)
    PROVE  /\ SubSeq(q, n + 1, m) \in [1 .. m - n -> S]
           /\ SubSeq(q, n + 1, m) \in Seq(S) /\ Len(SubSeq(q, n + 1, m)) = m - n
           /\ \A i \in 1 .. m - n :
                  SubSeq(q, 1, n) \o SubSeq(SubSeq(q, n + 1, m), 1, i)
                      = SubSeq(q, 1, n + i)
<1>. DEFINE c == SubSeq(q, n + 1, m)
<1>1. /\ c \in Seq(S) /\ Len(c) = m - n
      /\ \A i \in 1 .. m - n : c[i] = q[n + i]
  <2>1. \A i \in n + 1 .. m : q[i] \in S
    OBVIOUS
  <2>2. /\ c \in Seq(S)
        /\ Len(c) = IF n + 1 <= m THEN m - (n + 1) + 1 ELSE 0
        /\ \A i \in 1 .. m - (n + 1) + 1 : c[i] = q[(n + 1) + i - 1]
    BY <2>1, SubSeqProperties
  <2>. QED BY <2>2
<1>. HIDE DEF c
<1>2. c \in [1 .. m - n -> S]
  BY <1>1
<1>3. ASSUME NEW i \in 1 .. m - n
      PROVE  SubSeq(q, 1, n) \o SubSeq(c, 1, i) = SubSeq(q, 1, n + i)
  <2>. DEFINE a == SubSeq(q, 1, n)
              b == SubSeq(c, 1, i)
              d == SubSeq(q, 1, n + i)
  <2>1. /\ a \in Seq(S) /\ Len(a) = n
        /\ \A x \in 1 .. n : a[x] = q[x]
    <3>1. \A x \in 1 .. n : q[x] \in S
      OBVIOUS
    <3>. QED BY <3>1, SubSeqProperties
  <2>2. /\ b \in Seq(S) /\ Len(b) = i
        /\ \A x \in 1 .. i : b[x] = c[x]
    <3>1. \A x \in 1 .. i : c[x] \in S
      BY <1>2
    <3>. QED BY <3>1, SubSeqProperties
  <2>3. /\ d \in Seq(S) /\ Len(d) = n + i
        /\ \A x \in 1 .. n + i : d[x] = q[x]
    <3>1. \A x \in 1 .. n + i : q[x] \in S
      OBVIOUS
    <3>. QED BY <3>1, SubSeqProperties
  <2>. HIDE DEF a, b, d
  <2>4. /\ a \o b \in Seq(S) /\ Len(a \o b) = n + i
        /\ \A x \in 1 .. n + i : (a \o b)[x] = IF x <= n THEN a[x] ELSE b[x - n]
    BY <2>1, <2>2, ConcatProperties
  <2>5. ASSUME NEW x \in 1 .. n + i PROVE (a \o b)[x] = d[x]
    <3>1. d[x] = q[x]
      BY <2>3
    <3>2. (a \o b)[x] = IF x <= n THEN a[x] ELSE b[x - n]
      BY <2>4
    <3>3. x <= n => a[x] = q[x]
      BY <2>1
    <3>4. ~(x <= n) => b[x - n] = q[x]
      <4>1. ~(x <= n) => /\ x - n \in 1 .. i /\ x - n \in 1 .. m - n
                         /\ n + (x - n) = x
        OBVIOUS
      <4>. QED BY <1>1, <2>2, <4>1
    <3>. QED BY <3>1, <3>2, <3>3, <3>4
  <2>6. a \o b = d
    BY <2>3, <2>4, <2>5, SeqEqual
  <2>. QED BY <2>6 DEF a, b, d
<1>. QED BY <1>1, <1>2, <1>3 DEF c

\* Extending a private KV cache by the tokens that follow what it holds.
LEMMA ExtendsCacheOf ==
    ASSUME NEW q \in Seq(Tokens), NEW n \in Nat, NEW m \in Nat,
           n <= m, m <= Len(q)
    PROVE  Private!Extend(CacheOf(q, n), SubSeq(q, n + 1, m)) = CacheOf(q, m)
<1>. DEFINE c == SubSeq(q, n + 1, m)
            old == CacheOf(q, n)
            more == [i \in 1 .. Len(c) |-> SubSeq(q, 1, n) \o SubSeq(c, 1, i)]
<1>1. /\ Len(c) = m - n
      /\ \A i \in 1 .. m - n : SubSeq(q, 1, n) \o SubSeq(c, 1, i) = SubSeq(q, 1, n + i)
  BY PrefixContinues
<1>2. \A i \in 1 .. m : SubSeq(q, 1, i) \in Seq(Tokens)
  BY PrefixOfPrefix
<1>. HIDE DEF c
<1>3. /\ old \in Seq(Seq(Tokens)) /\ Len(old) = n
      /\ \A i \in 1 .. n : old[i] = SubSeq(q, 1, i)
  BY <1>2 DEF CacheOf
<1>4. /\ more \in Seq(Seq(Tokens)) /\ Len(more) = m - n
      /\ \A i \in 1 .. m - n : more[i] = SubSeq(q, 1, n + i)
  <2>1. more = [i \in 1 .. m - n |-> SubSeq(q, 1, n + i)]
    BY <1>1
  <2>2. m - n \in Nat /\ \A i \in 1 .. m - n : SubSeq(q, 1, n + i) \in Seq(Tokens)
    BY <1>2
  <2>. HIDE DEF more
  <2>. QED BY <2>1, <2>2
<1>5. Private!TextOf(old) = SubSeq(q, 1, n)
  <2>1. CASE n = 0
    BY <1>3, <2>1, SubSeqEmpty, EmptySeq DEF Private!TextOf
  <2>2. CASE n # 0
    BY <1>3, <2>2, EmptySeq DEF Private!TextOf
  <2>. QED BY <2>1, <2>2
<1>6. Private!Extend(old, c) = old \o more
  BY <1>5 DEF Private!Extend
<1>. HIDE DEF old, more
<1>7. /\ old \o more \in Seq(Seq(Tokens)) /\ Len(old \o more) = m
      /\ \A i \in 1 .. m : (old \o more)[i] = IF i <= n THEN old[i] ELSE more[i - n]
  <2>1. /\ old \o more \in Seq(Seq(Tokens))
        /\ Len(old \o more) = Len(old) + Len(more)
        /\ \A i \in 1 .. Len(old) + Len(more) : (old \o more)[i] =
               IF i <= Len(old) THEN old[i] ELSE more[i - Len(old)]
    BY <1>3, <1>4, ConcatProperties
  <2>2. Len(old) + Len(more) = m
    BY <1>3, <1>4
  <2>. QED BY <1>3, <2>1, <2>2
<1>8. CacheOf(q, m) \in Seq(Seq(Tokens)) /\ Len(CacheOf(q, m)) = m
  BY <1>2 DEF CacheOf
<1>9. ASSUME NEW i \in 1 .. m PROVE (old \o more)[i] = CacheOf(q, m)[i]
  <2>1. CacheOf(q, m)[i] = SubSeq(q, 1, i)
    BY DEF CacheOf
  <2>2. (old \o more)[i] = IF i <= n THEN old[i] ELSE more[i - n]
    BY <1>7
  <2>3. i <= n => old[i] = SubSeq(q, 1, i)
    BY <1>3
  <2>4. ~(i <= n) => more[i - n] = SubSeq(q, 1, i)
    <3>1. ~(i <= n) => i - n \in 1 .. m - n /\ n + (i - n) = i
      OBVIOUS
    <3>. QED BY <1>4, <3>1
  <2>. QED BY <2>1, <2>2, <2>3, <2>4
<1>. QED BY <1>6, <1>7, <1>8, <1>9, SeqEqual DEF old, c

\* A KV cache holds the same when the text grows behind it.
LEMMA CacheOfStays ==
    ASSUME NEW q \in Seq(Tokens), NEW r \in Seq(Tokens), NEW n \in Nat, n <= Len(q)
    PROVE  CacheOf(q \o r, n) = CacheOf(q, n)
<1>1. \A i \in 1 .. n : SubSeq(q \o r, 1, i) = SubSeq(q, 1, i)
  BY PrefixStays
<1>. QED BY <1>1 DEF CacheOf

\* A part behind a text is the sequence that was appended.
LEMMA SuffixOfConcat ==
    ASSUME NEW q \in Seq(Tokens), NEW r \in Seq(Tokens)
    PROVE  SubSeq(q \o r, Len(q) + 1, Len(q) + Len(r)) = r
<1>1. CASE Len(r) = 0
  BY <1>1, EmptySeq, SubSeqEmpty
<1>2. CASE Len(r) # 0
  <2>1. Len(r) \in Nat \ {0} /\ Len(q) \in Nat
    BY <1>2
  <2>2. /\ Len(q) + 1 \in Len(q) + 1 .. Len(q) + Len(r)
        /\ Len(q) + Len(r) \in Len(q) + 1 .. Len(q) + Len(r)
        /\ Len(q) + 1 - Len(q) = 1
        /\ Len(q) + Len(r) - Len(q) = Len(r)
    BY <2>1
  <2>. QED BY <2>2, SubSeqOfConcat2, SubSeqFull
<1>. QED BY <1>1, <1>2

\* A part of length one.
LEMMA SubSeqOne ==
    ASSUME NEW S, NEW q \in Seq(S), NEW n \in Nat \ {0}, n <= Len(q)
    PROVE  SubSeq(q, n, n) = <<q[n]>>
<1>1. q[n] \in S
  OBVIOUS
<1>2. /\ SubSeq(q, n, n) \in Seq(S) /\ Len(SubSeq(q, n, n)) = 1
      /\ SubSeq(q, n, n)[1] = q[n]
  <2>1. \A i \in n .. n : q[i] \in S
    BY <1>1
  <2>2. /\ SubSeq(q, n, n) \in Seq(S)
        /\ Len(SubSeq(q, n, n)) = IF n <= n THEN n - n + 1 ELSE 0
        /\ \A i \in 1 .. n - n + 1 : SubSeq(q, n, n)[i] = q[n + i - 1]
    BY <2>1, SubSeqProperties
  <2>. QED BY <2>2
<1>3. <<q[n]>> \in Seq(S) /\ Len(<<q[n]>>) = 1 /\ <<q[n]>>[1] = q[n]
  BY <1>1
<1>. DEFINE u == SubSeq(q, n, n)
            v == <<q[n]>>
<1>4. u \in Seq(S) /\ v \in Seq(S) /\ Len(u) = Len(v)
  BY <1>2, <1>3
<1>5. \A i \in 1 .. Len(u) : u[i] = v[i]
  BY <1>2, <1>3
<1>. HIDE DEF u, v
<1>6. u = v
  BY <1>4, <1>5, SeqEqual
<1>. QED BY <1>6 DEF u, v

\* What a sequence that reads its own text sees.
LEMMA ViewIsText ==
    /\ Readback => View = [s \in Seqs |-> CacheOf(text[s], kv_len[s])]
    /\ Readback' => View' = [s \in Seqs |-> CacheOf(text'[s], kv_len'[s])]
BY DEF Readback, View, CacheOf

\* A step of the pool is a step of the private KV caches, or they do not see it.
LEMMA StepIsPrivate ==
    ASSUME MemoryInv, ShareInv, PassShape, Readback, Readback', MemoryStep
    PROVE  [Private!PrivateNext]_View
<1>. DEFINE M == [s \in Seqs |-> CacheOf(text[s], kv_len[s])]
            N == [s \in Seqs |-> CacheOf(text'[s], kv_len'[s])]
<1>0. /\ text \in [Seqs -> Seq(Tokens)]
      /\ kv_len \in [Seqs -> Nat]
      /\ logical_token_count \in [Seqs -> Nat]
      /\ \A s \in Seqs : Len(text[s]) = logical_token_count[s]
      /\ pc # "release" => releasing = {}
      /\ MaxLen \in Nat
      /\ \A s \in Seqs : Len(text[s]) <= MaxLen
  BY ReadTypes, PoolAssumption DEF ShareInv, BoundInv
<1>1. View = M /\ View' = N
  BY ViewIsText
<1>2. \A s \in Seqs : kv_len[s] <= Len(text[s])
  <2>. SUFFICES ASSUME NEW s \in Seqs PROVE kv_len[s] <= Len(text[s])
    OBVIOUS
  <2>. QED BY <1>0 DEF ShareInv, LenInv
<1>3. ASSUME \A s \in Seqs : CacheOf(text'[s], kv_len'[s]) = CacheOf(text[s], kv_len[s])
      PROVE  [Private!PrivateNext]_View
  <2>1. View' = View
    BY <1>1, <1>3
  <2>. QED BY <2>1
<1>4. ASSUME UNCHANGED <<text, kv_len>> PROVE [Private!PrivateNext]_View
  BY <1>3, <1>4
<1>5. CASE ThreadMoves \/ CommitBlock \/ EvictLeaf
  BY <1>4, <1>5 DEF ThreadMoves, CommitBlock, InsertCache, EvictLeaf, ghostVars
<1>6. CASE PlaceToken \/ OpenBlock
  <2>1. PICK s \in Seqs, tok \in Tokens :
            text' = [text EXCEPT ![s] = Append(@, tok)] /\ kv_len' = kv_len
    BY <1>6, Placed
  <2>2. CacheOf(text'[s], kv_len'[s]) = CacheOf(text[s], kv_len[s])
    <3>1. /\ text[s] \in Seq(Tokens) /\ <<tok>> \in Seq(Tokens)
          /\ text'[s] = Append(text[s], tok) /\ kv_len[s] \in Nat
      BY <1>0, <2>1
    <3>2. text'[s] = text[s] \o <<tok>>
      BY <3>1, AppendIsConcat
    <3>. QED BY <1>2, <2>1, <3>1, <3>2, CacheOfStays
  <2>3. \A t \in Seqs \ {s} : text'[t] = text[t] /\ kv_len'[t] = kv_len[t]
    BY <1>0, <2>1
  <2>. QED BY <1>3, <2>2, <2>3
<1>7. ASSUME NEW s \in Seqs, FlushCache(s) \/ ReleaseBlock(s)
      PROVE  [Private!PrivateNext]_View
  BY <1>4, <1>7 DEF FlushCache, InsertCache, ReleaseBlock, ghostVars
<1>8. ASSUME NEW s \in Seqs, FinishRelease(s) PROVE [Private!PrivateNext]_View
  <2>1. /\ s \in releasing /\ kv_len' = kv_len
        /\ text' = [text EXCEPT ![s] = <<>>]
    BY <1>8 DEF FinishRelease
  <2>2. kv_len[s] = 0
    BY <2>1 DEF ShareInv, LenInv
  <2>3. CacheOf(text'[s], 0) = CacheOf(text[s], 0)
    BY DEF CacheOf
  <2>4. \A t \in Seqs \ {s} : text'[t] = text[t]
    BY <1>0, <2>1
  <2>. QED BY <1>3, <2>1, <2>2, <2>3, <2>4
<1>9. ASSUME NEW s \in Seqs, NEW m \in Nat, m <= Len(text'[s]), kv_len[s] <= m,
             m <= MaxLen, text'[s] \in Seq(Tokens),
             kv_len'[s] = m,
             CacheOf(text[s], kv_len[s]) = CacheOf(text'[s], kv_len[s]),
             \A t \in Seqs \ {s} : /\ CacheOf(text'[t], kv_len'[t])
                                          = CacheOf(text[t], kv_len[t])
      PROVE  [Private!PrivateNext]_View
  <2>. DEFINE c == SubSeq(text'[s], kv_len[s] + 1, m)
              n == m - kv_len[s]
  <2>1. /\ kv_len[s] \in Nat /\ n \in Nat
        /\ c \in [1 .. n -> Tokens]
        /\ Private!Extend(CacheOf(text'[s], kv_len[s]), c) = CacheOf(text'[s], m)
    <3>1. kv_len[s] \in Nat /\ n \in Nat
      BY <1>0, <1>9
    <3>2. PICK q \in Seq(Tokens) : q = text'[s]
      BY <1>9
    <3>3. PICK k \in Nat : k = kv_len[s]
      BY <3>1
    <3>4. m <= Len(q) /\ k <= m
      BY <1>9, <3>2, <3>3
    <3>5. SubSeq(q, k + 1, m) \in [1 .. m - k -> Tokens]
      BY <3>4, PrefixContinues
    <3>6. Private!Extend(CacheOf(q, k), SubSeq(q, k + 1, m)) = CacheOf(q, m)
      BY <3>4, ExtendsCacheOf
    <3>. QED BY <3>1, <3>2, <3>3, <3>5, <3>6
  <2>2. CASE n = 0
    <3>1. m = kv_len[s]
      BY <2>1, <2>2
    <3>. QED BY <1>3, <1>9, <3>1
  <2>3. CASE n # 0
    <3>1. n \in 1 .. MaxLen
      BY <1>0, <1>9, <2>1, <2>3
    <3>2. View' = [View EXCEPT ![s] = Private!Extend(@, c)]
      <4>1. N = [M EXCEPT ![s] = Private!Extend(@, c)]
        <5>. HIDE DEF c
        <5>1. N[s] = Private!Extend(M[s], c)
          BY <1>9, <2>1
        <5>2. \A t \in Seqs \ {s} : N[t] = M[t]
          BY <1>9
        <5>. QED BY <5>1, <5>2
      <4>. QED BY <1>1, <4>1
    <3>. HIDE DEF c, n, M, N
    <3>3. Private!ExtendOne(s)
      BY <2>1, <3>1, <3>2 DEF Private!ExtendOne
    <3>. QED BY <3>3 DEF Private!PrivateNext
  <2>. QED BY <2>2, <2>3
<1>10. ASSUME NEW s \in Seqs, NEW chunk \in Chunks, PrefixHit(s, chunk)
       PROVE  [Private!PrivateNext]_View
  <2>1. /\ pc = "idle" /\ releasing = {} /\ BlockSize \in Nat
        /\ chunk \in Seq(Tokens) /\ Len(chunk) = BlockSize
        /\ Len(text[s]) + BlockSize <= MaxLen
        /\ text' = [text EXCEPT ![s] = @ \o chunk]
        /\ kv_len' = [kv_len EXCEPT ![s] = @ + BlockSize]
    BY <1>10, Shared, EndArith
  <2>2. /\ text[s] \in Seq(Tokens) /\ text'[s] = text[s] \o chunk
        /\ text'[s] \in Seq(Tokens) /\ Len(text'[s]) = Len(text[s]) + BlockSize
    <3>1. text[s] \in Seq(Tokens) /\ text'[s] = text[s] \o chunk
      BY <1>0, <2>1
    <3>. QED BY <2>1, <3>1, ConcatProperties
  <2>3. /\ kv_len[s] = Len(text[s]) /\ kv_len[s] \in Nat
        /\ kv_len'[s] = kv_len[s] + BlockSize
    <3>1. kv_len[s] = logical_token_count[s]
      BY <2>1 DEF ShareInv, LenInv
    <3>. QED BY <1>0, <2>1, <3>1
  <2>4. CacheOf(text[s], kv_len[s]) = CacheOf(text'[s], kv_len[s])
    BY <1>2, <2>1, <2>2, <2>3, CacheOfStays
  <2>5. \A t \in Seqs \ {s} : text'[t] = text[t] /\ kv_len'[t] = kv_len[t]
    BY <1>0, <2>1
  <2>6. /\ kv_len'[s] \in Nat /\ kv_len'[s] <= Len(text'[s]) /\ kv_len[s] <= kv_len'[s]
        /\ kv_len'[s] <= MaxLen
    BY <1>0, <2>1, <2>2, <2>3
  <2>. QED BY <1>9, <2>2, <2>4, <2>5, <2>6
<1>11. ASSUME NEW s \in Seqs, StartRelease(s) PROVE [Private!PrivateNext]_View
  <2>1. text' = text /\ kv_len' = [kv_len EXCEPT ![s] = 0]
    BY <1>11 DEF StartRelease
  <2>2. N[s] = <<>>
    <3>1. kv_len'[s] = 0
      BY <1>0, <2>1
    <3>2. CacheOf(text'[s], 0) = <<>>
      BY DEF CacheOf
    <3>. QED BY <3>1, <3>2
  <2>3. \A t \in Seqs \ {s} : N[t] = M[t]
    BY <1>0, <2>1
  <2>4. N = [M EXCEPT ![s] = <<>>]
    BY <2>2, <2>3
  <2>. HIDE DEF M, N
  <2>5. Private!Clear(s)
    BY <1>1, <2>4 DEF Private!Clear
  <2>. QED BY <2>5 DEF Private!PrivateNext
<1>12. CASE Compute
  <2>1. /\ pc = "append" /\ todo = <<>> /\ releasing = {}
        /\ text' = text /\ kv_len' = logical_token_count
    BY <1>0, <1>12 DEF Compute
  <2>2. \A t \in Seqs : /\ kv_len'[t] = Len(text[t]) /\ kv_len'[t] \in Nat
                        /\ kv_len'[t] = logical_token_count[t]
    BY <1>0, <2>1
  <2>3. ASSUME NEW s \in Seqs, \A t \in Seqs \ {s} : kv_len[t] = logical_token_count[t]
        PROVE  [Private!PrivateNext]_View
    <3>1. \A t \in Seqs \ {s} : kv_len'[t] = kv_len[t]
      BY <2>2, <2>3
    <3>2. /\ text'[s] \in Seq(Tokens) /\ kv_len'[s] <= Len(text'[s])
          /\ kv_len[s] <= kv_len'[s] /\ kv_len'[s] <= MaxLen /\ kv_len'[s] \in Nat
      BY <1>0, <1>2, <2>1, <2>2
    <3>. QED BY <1>9, <2>1, <3>1, <3>2
  <2>4. ASSUME \A t \in Seqs : logical_token_count[t] <= kv_len[t] + 1
        PROVE  [Private!PrivateNext]_View
    <3>. DEFINE S == {t \in Seqs : kv_len[t] < logical_token_count[t]}
                tok == [t \in S |-> text[t][Len(text[t])]]
    <3>1. ASSUME NEW t \in S
          PROVE  tok[t] \in Tokens /\ N[t] = Private!Extend(M[t], <<tok[t]>>)
      <4>1. /\ t \in Seqs /\ text[t] \in Seq(Tokens) /\ kv_len[t] \in Nat
            /\ Len(text[t]) = kv_len[t] + 1
        BY <1>0, <2>4
      <4>2. SubSeq(text[t], kv_len[t] + 1, kv_len[t] + 1) = <<text[t][kv_len[t] + 1]>>
        <5>1. PICK n \in Nat \ {0} : n = kv_len[t] + 1
          BY <4>1
        <5>2. n <= Len(text[t])
          BY <4>1, <5>1
        <5>3. SubSeq(text[t], n, n) = <<text[t][n]>>
          BY <4>1, <5>2, SubSeqOne
        <5>. QED BY <5>1, <5>3
      <4>3. text[t][kv_len[t] + 1] \in Tokens
        BY <4>1
      <4>4. tok[t] = text[t][kv_len[t] + 1]
        BY <4>1
      <4>5. Private!Extend(CacheOf(text[t], kv_len[t]),
                           SubSeq(text[t], kv_len[t] + 1, kv_len[t] + 1))
                = CacheOf(text[t], kv_len[t] + 1)
        BY <4>1, ExtendsCacheOf
      <4>6. N[t] = CacheOf(text[t], kv_len[t] + 1) /\ M[t] = CacheOf(text[t], kv_len[t])
        BY <2>1, <2>2, <4>1
      <4>. HIDE DEF tok, M, N
      <4>. QED BY <4>2, <4>3, <4>4, <4>5, <4>6
    <3>2. ASSUME NEW t \in Seqs \ S PROVE N[t] = M[t]
      <4>1. kv_len'[t] = kv_len[t]
        BY <1>0, <1>2, <2>2, <3>2
      <4>. QED BY <2>1, <4>1
    <3>3. tok \in [S -> Tokens]
      BY <3>1
    <3>4. N = [s \in Seqs |-> IF s \in S THEN Private!Extend(M[s], <<tok[s]>>) ELSE M[s]]
      <4>. HIDE DEF tok
      <4>. DEFINE E == [s \in Seqs |-> IF s \in S THEN Private!Extend(M[s], <<tok[s]>>)
                                       ELSE M[s]]
      <4>1. \A s \in Seqs : E[s] = N[s]
        BY <3>1, <3>2
      <4>2. E = [s \in Seqs |-> E[s]] /\ N = [s \in Seqs |-> N[s]]
        OBVIOUS
      <4>. HIDE DEF E, M, N
      <4>3. E = N
        BY <4>1, <4>2
      <4>. QED BY <4>3 DEF E
    <3>5. S \in SUBSET Seqs
      OBVIOUS
    <3>. HIDE DEF tok, S, M, N
    <3>6. Private!ExtendEach(S)
      BY <1>1, <3>3, <3>4 DEF Private!ExtendEach
    <3>. QED BY <3>5, <3>6 DEF Private!PrivateNext
  <2>. QED BY <2>1, <2>3, <2>4 DEF PassShape
<1>. QED BY <1>5, <1>6, <1>7, <1>8, <1>10, <1>11, <1>12, StepSplits

(* Seen through the block tables, the pool implements KV caches of their   *)
(* own for the sequences, if no two of the texts that occur have the same  *)
(* hash, block by block.                                                   *)
THEOREM PoolImplementsPrivateKV ==
    ASSUME NEW Corpus, NoCollisions(Corpus)
    PROVE  Spec /\ []InCorpus(Corpus) => ImplementsPrivateKV
<1>. DEFINE Inv == MemoryInv /\ ShareInv /\ PassShape
<1>1. Init => Inv
  BY InitMemoryInv, ShareInit DEF PassShape, Init
<1>2. Inv /\ [Next]_memVars => Inv'
  BY NextMemoryInv, ShareKept, PassShapeKept DEF ShareInv, MemoryStep
<1>3. Init => Private!PrivateInit
  BY DEF Init, Private!PrivateInit, View
<1>4. Inv /\ Readback /\ Readback' /\ [Next]_memVars => [Private!PrivateNext]_View
  BY StepIsPrivate DEF MemoryStep
<1>5. Spec /\ []InCorpus(Corpus) => []Readback
  BY EveryoneReadsItsText
<1>. HIDE DEF Inv
<1>. QED BY <1>1, <1>2, <1>3, <1>4, <1>5, PTL
         DEF Spec, ImplementsPrivateKV, Private!PrivateSpec
=============================================================================
