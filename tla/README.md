# NitroRAG in TLA+

A verification project for NitroRAG: TLA+ models of its inference server, its
vector indexes and the protocol between its processes, TLC runs that check them
on small instances, and TLAPS proofs for every value of the constants: that the
paged KV memory is safe and implements a private cache per sequence, that the
server answers in order and greedily from each prompt alone, that a team of
threads builds neighbour lists which are simple, fit their arrays and are not
empty at the end, that a search returns the best of what it has visited wherever
its comparison is an order, and that messages arrive whole.

Paths below are relative to the repository; `pagedMemory.hpp:206` is
`src/src/pagedMemory.hpp`, line 206.

## The system

A question passes through three processes.

| Part | Code | State | Operations |
|---|---|---|---|
| Client gateway | `scripts/agent.py` | none between questions | parses filters, queries the vector database, assembles the prompt, reads the answer token by token |
| Vector database server | `server_VectorDB.cpp` | the mapped index, read-only | one detached thread per client: receive query, `greedy_search`, send ids |
| Joint attribute graph | `JAG_new.cpp:64-437` | header and nodes in a mapped file; locks; visited bytes per thread | `greedy_search`, `robust_prune`, `build_index` (OpenMP, a lock per node), constructor, destructor |
| Filtered and plain Vamana | `retriever.hpp:345-1162` | the same, with a medoid per label | `load_data_and_get_medoids`, random first lists, `Filtered_greedy_search`, `Filtered_robust_prune`, `Filtered_build_index` |
| In-memory table, sorted file | `retriever.hpp:85-343` | ids and embeddings | `insert`, parallel top-k search, `flush_to_disk`, `load` |
| RPC | `NitroRPC.hpp` | none | length-prefixed messages over TCP |
| Inference server | `Server_Inference.cpp` | `incoming_requests` under `queue_mutex` | listener thread: accept, receive, queue; engine thread: drain, step, reply, close |
| Continuous scheduler | `pagedMemory.hpp:303-399` | `waiting_queue`, `running_batch`, the fields of `Request` | `add_request`, `step` |
| Sequence | `pagedMemory.hpp:233-285` | block table, token count, running hash, token buffer | `allocate_next_token`, `flush_cache`, `release` |
| Prefix cache | `pagedMemory.hpp:64-83, 163-229` | hash -> block, block -> hash, LRU list of leaves | `check_cache`, `insert_cache`, `evaluate_evictability`, `evict_lru_block` |
| Block pool | `pagedMemory.hpp:42-61, 86-160` | free list; per block `ref_count`, `num_tokens`, `parent_id`, `child_count`; KV floats | `allocate_block`, `inc_ref_count`, `free_block`, `force_free_block` |
| Forward passes | `model_q8.cpp` | scratch buffers | `forward_prefill_chunk`, `forward_decode_batch`, `forward_paged`: allocate, write KV, attend |

The listener and the engine share one queue. The engine alone touches the
scheduler, the sequences, the cache and the pool, and these four call each other
in both directions: a token appended to a sequence may publish a block in the
cache, allocate a block from the pool, which evicts from the cache, which frees
blocks in the pool. Inside `forward_decode_batch` an OpenMP team makes those
calls for different requests at the same time.

What is hard in it:

* **derived state**: `evictable_leaves` and `child_count` are functions of other
  state, kept up to date by hand at five places;
* **sharing without copying**: a block is shared the moment it is full, and
  reused the moment it is evicted; nothing but the counters keeps one sequence's
  KV entries from another;
* **publication before computation**: blocks enter the cache in the allocation
  loop, before the kernels fill the pass's own entries;
* **the pool running dry** inside a forward pass, with eviction, cascading
  eviction and `exit(1)`;
* **two threads and chunked admission** around all that;
* **searches beside rewrites**: while an index is built, every thread walks
  adjacency lists that other threads store to, without a lock; the stores to
  count and slots are plain, and a list that is full is pruned by whoever wants
  to append to it;
* **a graph that starts empty**: whether a node ends up with any neighbour
  depends on later insertions linking back to it;
* **a comparison that is no order**: candidates are compared with a tolerance,
  so that heaps and sort need not have the best on top;
* **streams, not messages**: three processes speak over TCP, each of which may
  end in the middle of a message, with one listener for all prompts.

The `hazards` in `PROJECT.json` list these places line by line, each with the
properties that cover it or the reason why none does yet.

Correctness, per component: the pool neither leaks nor double-frees; the cache
hands out only blocks that hold what was asked for, and evicts only idle leaves;
a sequence reads only its own text; a batch fits its buffers; a request's answer
depends on its prompt alone, and it gets one; no neighbour list overruns its
array, names a node twice or loses its last edge; a search returns the best of
all nodes it has visited, as far as its comparison orders them, and leaves
nothing behind for the next; a build ends; a medoid carries its label, and only
a query for labels without documents finds none; a message arrives whole or not at all, and no question
waits for ever.

### State of the code

As checked in, neither server builds: `Server_Inference.cpp` includes
`model_q8.cpp`, which has a `main` of its own, and reads the private
`running_batch`; `server_VectorDB.cpp:34` has a misspelt name, and line 24 pushes
an array on a vector of int. The models are of the evident program, in which
these are repaired and nothing else is changed. Some places where documents and
code differ, and which no run is about:

* `ARCHITECTURE.md:79` has 32 vector and 32 semantic edges per node; the code
  keeps `max_degree * 5 / 8`, 40, semantic ones and 24 vector ones
  (`JAG_new.cpp:237`).
* `ARCHITECTURE.md:355` speaks of a random graph to start from; the filtered and
  the plain index have one, the joint attribute graph starts empty.
* the test with alpha squared relaxes pruning in `JAG_new.cpp:268` and
  `retriever.hpp:829` and tightens it in `retriever.hpp:470`.
* the benchmark writes `nitro_corr.bin`; the server opens
  `Retrieval/nitrorag_index.bin`. `IndexFile` has the step that puts one in the
  other's place.
* the constructor of the index does not truncate: a kept file's slots hold old
  ids behind the count (`OldSlots` in `NitroIndex`, any of them in any slot).

## Modules

| Module | What it is |
|---|---|
| `PagedMemory` | block pool, prefix cache, sequences and the forward passes as their callers |
| `PagedMemorySafety` | its properties and the inductive invariant `MemoryInv` |
| `PrivateKV` | the abstract specification: every sequence has a contiguous KV cache of its own |
| `PagedMemoryProofs`, `ReadbackProofs` | theorems: the bookkeeping of the memory; the KV entries in it, and the refinement of `PrivateKV` |
| `ContinuousScheduler` | listener, engine loop and `step`; extends `PagedMemory` |
| `SchedulerSafety`, `SchedulerProofs` | its safety and liveness properties; theorems |
| `ParallelDecode` | the OpenMP loop at the head of `forward_decode_batch`, access by access |
| `IndexData` | nodes, distances, labels, attributes and queries of all indexes |
| `BeamSearch` | `greedy_search` of all three indexes, slot by slot |
| `GraphBuild` | the parallel build of both filtered indexes, and queries of the finished one |
| `GraphSafety`, `GraphBuildProofs` | its properties; the inductive invariants of lists, beams and searches |
| `JagRules`, `NitroIndex`, `NitroIndexProofs` | penalties and `robust_prune` of `NitroRAG_Vamana`; the index as the benchmark runs it; theorems |
| `FilteredRules`, `FilteredIndex`, `FilteredIndexProofs` | label quotas and `Filtered_robust_prune`; the index from the choice of its medoids on; theorems |
| `NitroRPC` | the wire format and the loops that read it |
| `Retrieval`, `RetrievalProofs` | gateway, database and listener over it; theorems |
| `MemTable` | `MEMTABLE` and `SSTable` |
| `IndexFile` | an index file from its creation to its use in the server |
| `ListLemmas` | what the proofs share: lists without duplicates, least elements and sorted lists of finite sets, folds |
| `MC*` | constants for TLC |

`NitroIndex` extends `GraphSafety` (with `GraphBuild` and `BeamSearch`) and
`JagRules`, `FilteredIndex` the same and `FilteredRules`: the build is written
once, with the rules as constant operators (`Admits`, `Before`, `Nearer`,
`Related`, `Prune`), as the two classes of the code are one algorithm with
different rules. `Retrieval` takes the search of an index as any member of
`Answers`, and the engine as something that serves what it is given, which is
what `NitroIndex` and `ContinuousScheduler` establish.

Operators whose comment begins with "Mutant of" are what a plausible bug would
make of the definition that follows. No specification uses them; each shows that
some property notices that bug.

### PagedMemory

The variables carry the names of the fields. `cache_map` and `reverse_map` are
functions whose domain is the set of keys; `leaf_pointers` is an index into
`evictable_leaves` and needs no variable. Three kinds of variables are not in the
code: `pc`, `todo`, `releasing` and `freed` say in which loop the engine thread
is; `kv` says, for each slot of the pool, for which text its entry was computed;
`text`, `kv_len` and `sealed` are history.

`kv` is how data is abstracted. The entry of position `i` depends, through
attention, on all tokens up to `i`; so the entry *is* that text. The float pool
of a freed block keeps its old content; the model writes `<<>>`, which is no
entry of any text, so that reading it is always noticed.

Each iteration of a loop is an action: `CommitBlock`, then `PlaceToken` or
`OpenBlock`, are `allocate_next_token`; `StartEvict`, `EvictLeaf`, `EvictDone`
and `OutOfMemory` are `evict_lru_block` as `allocate_block` calls it; `Compute`
is the rest of a forward pass; `StartRelease`, `ReleaseBlock` and
`FinishRelease` are `release`. `FlushCache` and `PrefixHit` run in one step, as
nothing can come between. `EvaluateEvictability` gives the LRU list that
`evaluate_evictability` leaves behind; every action calls it where the code does
and with the counters the code has at that point.

Three guards are promises of the callers, not tests of the code: tokens per
sequence are bounded by `MaxLen`; a decode batch contains sequences past their
prefill; and a sequence that was flushed is only released (`sealed`), because
`flush_cache` leaves `token_buffer` full and a further token would publish the
block a second time. Both callers of `flush_cache` (`model_q8.cpp:924, 932`) keep
to that.

### ContinuousScheduler

Requests and their sequences share one identity. `phase` is where `step` and the
engine loop are between calls to the memory; the loops of `step` that call into
the memory are one action per iteration (`Reap`, `AdmitHit`), the others one
action. While a memory call is in progress (`pc # "idle"`) the engine does that
and nothing else, and the listener goes on: `Receive` and `ReceiveFails`
interleave with every step, except that `Drain` is atomic because it holds the
mutex. `TextRead` reads a request's tokens back *from the pool*, through its
block table, and `argmax` of that text is the generated token; that is how an
answer would show any fault of the memory. `decode_tokens` and
`decode_positions` are copied when the code copies them.

A prompt is never empty (`agent.py:57` puts token 1 first).

### ParallelDecode

`free_list` is its end pointer; a thread's `back()` and `pop_back()` are separate
accesses, and `pop_back` may or may not reload the pointer, both of which a
compiler may produce for what is a data race. The pool never runs empty here.

### BeamSearch and GraphBuild

`num_neighbours` and `neighbours` are the fields of the mapped nodes. A search
takes no lock, so a step has one access to what other threads store: `Look` reads
the count, as the loop condition does, and `Read` one slot, and visits the node in
it. `search` holds the locals of a call; `visited` the thread's byte vector, which
all its searches share.

The heaps are sets. If the comparison orders the nodes that the search has seen
(`Ordered`: `Before` and `Nearer` are strict weak orders of them), the top of a
heap is any element that no other beats. If it does not, which the tolerance of
`JAG_new.cpp:53` makes possible, the top is any element at all: `push_heap` and
`pop_heap` permute their array whatever the comparison says. `Pop` and `Read` take
such a top for the test against `top_L.top()` and for the `pop` behind it.

A filtered search needs a start. `NoStart` is the `exit(1)` of
`Filtered_greedy_search` (`retriever.hpp:730-733`), for a search of the build as for
a query; it ends the process, so that no thread takes another step (`Alive`).

A thread of the build is at one of the labels of `pc`: it claims a chunk, makes
the searches for a node, locks the node and chooses its list (`LockOwn`), makes
the stores one at a time in any order (`StoreSlot`, `StoreCount`), unlocks, and
then does the same for each neighbour (`Link`), by an append or by a prune. `at`
is the lock it holds, at most one. What a thread reads under a lock no other
thread writes, so that reading and choosing is one step; what it stores is seen
by searches as it goes. A store is atomic by itself: the fields are aligned ints,
and no compiler for the targets of the code splits such a store. `Barrier` is the
end of a parallel region.

`NitroIndex` multiplies penalties by the two sigmas, so that they are integers
and keep every comparison; the tolerance 1e-5 becomes `Epsilon`. `Lanes` says
which lists a greedy sweep can keep, given that `std::sort` may put equal
candidates in any order, and any candidates if the comparison does not order them
(`Settled`). `FilteredIndex` begins earlier: the per-thread heaps of
`load_data_and_get_medoids`, merged in a critical section, the serial choice of
medoids, and the random first lists, of which every outcome of the draws is
possible.

### NitroRPC and Retrieval

A stream is the sequence of bytes sent and not yet read; a byte is the pair of
its word and its place in the word. `RecvSizes` is what one `recv` may return. The
loops of `recv_all` read until `Whole` or `Broken`; the gateway calls `recv` once
per field, and its `struct.unpack` raises when too little came. The gateway is a
process per user, the database a handler per connection, the listener one call of
`recv_ints` at a time. `SentDims` and `ExpectedDims` are the 384 and the 128
dimensions on which gateway and server disagree: the rest stays unread, so that
closing the connection resets it, and `Reset` may cost the gateway an answer
already sent. The database may end in a search (see `IndexFile`) or by `SIGPIPE`,
and closes all its connections with it. A connection on which the closing side
has bytes unread ends with a reset (`rst`), any other with an orderly end
(`fin`). The gateway takes an orderly end before the length of the answer for an
answer without documents (`agent.py:24`), and asks its question without a
context; `ContextWhole` shows that this needs the database to have ended.

### MemTable and IndexFile

`MemTable` has the documents of the in-memory table and of the mapped file (which
`flush_to_disk` may fail to open, and then leaves both as they are), one
heap per thread over the static shares of the loop, and the critical section that
merges them. `IndexFile` has the header and the nodes that have edges; benchmark
and server open it, one after the other, and may end at any step.

## Runs

| Run | Checks | Bounds |
|---|---|---|
| `paged_memory` | type, `BlockConservation`, `RefCountsExact`, `LeavesExact`, `ChildCountsExact`, `CacheMapSound`, `TailExclusive`, `FragmentationBound`, `Readback`, `SharedEntriesImmutable`, `ImplementsPrivateKV` | 2 sequences, 2 tokens, 3 blocks of 2 slots, 5 tokens a sequence, chunks of 1 to 3 |
| `scheduler` | type, `InOnePlace`, `BatchBound`, `DecodesFresh`, `NoOvertaking`, `GreedyOutput`, `ClosedOnce`; `EveryRequestServed`, `MemoryReturned` | 4 clients, prompts of 3, 3, 5 and 2 tokens, 5 blocks of 2, answers of 2 tokens, batches of 5 |
| `low_water` | `LowWaterEvicts`: violated | 40 blocks of 1, so that the marks are 2 and 8 |
| `duplicate_prefix` | `EvictsOnlyTrueLeaves`: violated | 2 sequences, 4 blocks |
| `whole_prompt_hit` | `WholePromptHitsToo`: violated | as `scheduler` |
| `streaming` | `AnswerStreamed`: violated | as `scheduler` |
| `parallel_decode` | `MemoryMapsToTokens`: violated | 2 threads, 3 requests |
| `nitro_index` | type, `VisitedExact`, `BestOfVisited`, `DegreeBound`, `SimpleLists`, `NoIsolatedNode`, `ResultsExpanded`; `NeverEmptied`, `BuildEnds` | 4 nodes, 2 threads, degree 2, beam 2, chunks of 1, 2 passes, 2 queries; penalties `Epsilon` apart |
| `filtered_index` | type, `CandidatesExact`, `MedoidsOwnLabel`, `ExitsForNoDocument`, `EdgesRelated`; `NeverEmptied`, `BuildEnds` | the same with 2 labels that nodes have and 1 that none has, 2 medoid candidates, a query for the first two and one for the third |
| `retrieval` | `QueryWhole`, `ContextWhole`, `PromptWhole`; `QuestionEnds` | 2 gateways, one of which may die; words of 2 bytes, queries of 2 words (the gateway sends 3), answers of 0 or 2 tokens |
| `memtable_search` | `FindsTheBest`: violated | 4 documents, two of them equally similar; 2 threads, best 2 |
| `index_open` | `TraversesTheGraph`: violated | indexes of 2 or 3 nodes, 3 served |

**Why the bounds suffice.** Three blocks for two sequences of five tokens (three
blocks each) are too few, so that TLC meets sharing, two sequences publishing the
same prefix, eviction in the middle of a pass, an evicted leaf whose parent
becomes the next leaf, release in every order, and `exit(1)`. Tokens, blocks and
sequences are symmetric: the model compares them for equality only. (The boot
order tells blocks apart in the initial state; permuting the blocks permutes the
reachable states of one boot order into those of another, and no property depends
on the order.) With 3 blocks both water marks sit at their minimum, 1 and 2; the
`low_water` run has the proportional ones. The hash of these runs is the prefix
itself, which has no collisions.

In the `scheduler` run three clients start with the same block, one of them with
a prompt of that block alone; the second shares none with them; the third exceeds
the token budget when others decode; and the pool cannot hold all four. `MaxLen`
and `ChunkSizes` are large enough never to hold a call back.

In the index runs the nodes lie on a line, unevenly, so that no two distances
from a node are equal; their labels are chosen so that the semantic lane prefers
far nodes (`nitro_index`), and one node has both labels (`filtered_index`), hence
makes two searches. Degree 2 is small enough that lists get full, and that an
append has to prune them while the other thread walks them. Two threads suffice
for a search beside a rewrite, two appends to one list and two owners waiting for
each other's node; a thread never holds two locks. A beam of 2 turns candidates
away. Chunks of one (128 in the code) let the threads share four nodes;
`Epsilon` is 1, so that two documents whose attributes differ by one are ordered
by their distance, `QuotaFloor` 1 (8 in the
code) makes the label quotas bind at degree 2, `OldSlots` is the zero of a fresh
file, and `Shortfalls` leaves out draws that happen to repeat fifty times. The
passes use the two alphas of the code. In `nitro_index` the penalties of nodes 3, 0
and 2 from node 1, and for the second query, are `Epsilon` apart from one to the
next and 2 `Epsilon` in all, and the distances order them the other way round: the
three are a cycle of the comparison, for the prune as for the search. For the first
query the same three are ties within the tolerance, and ordered. Both index runs
take what their pruning rule may keep from a table that TLC computes once
(`MCPruned`).

In the `retrieval` run two bytes per word are enough for a word to arrive torn,
and two words per query for meta data and vector to arrive together or apart;
`MetaWords` is 1 (4 in the code), and the vector one word too long, as 384 is
beside 128. An answer of two tokens is torn in every way; an empty one takes the
early return of `send_ints`. Two gateways are what one listener can keep waiting.

`CHECK_DEADLOCK FALSE` is set since the memory stops after `exit(1)`, the server
when every client was served, a decode loop at its end, a team when all queries
are answered, the gateways when every question has ended, and the table and the
index file when their documents and opens are used up.

**Fairness.** `Spec` assumes `WF(CallStep)`: a call in progress proceeds, no call
need begin. `ServerSpec` assumes `WF(EngineStep)`: the engine thread polls for
ever. Clients and the listener get none. `EveryRequestServed` and
`MemoryReturned` allow for `pc = "exit"`: the server does end itself when memory
runs out. `NitroSpec` and `FilteredSpec` assume `WF` of the whole next-state
relation: while some thread can run, some thread does, which is less than any
operating system gives and enough, since the team has no loop that waits.
`BuildEnds` allows for the `exit(1)` of a filtered search, which
`ExitsForNoDocument` confines to queries for labels without documents.
`Retrieval` assumes `WF` of each process: a gateway, a handler, the listener and
the engine go on while they can; that a gateway dies is never assumed.

### What the violated runs show

Each checks a sentence of the documentation against what the code does; the
details are the `findings` of `PROJECT.json`.

1. `streaming`: no code sets `just_generated_new_token`, so that no token is ever
   sent (README.md:46).
2. `whole_prompt_hit`: a prompt that is entirely cached gets a different answer:
   its first decode feeds the prompt's first token again (ARCHITECTURE.md:105, 324).
3. `low_water`: eviction starts at an empty free list, not at 5% (ARCHITECTURE.md:102,
   pagedMemory.hpp:208).
4. `duplicate_prefix`: evicting one of two blocks with the same prefix removes the
   other one's cache entry (ARCHITECTURE.md:102). It is then cached but unreachable
   until it is evicted itself. `CacheMapSound` and `Readback` show that nothing
   worse follows.
5. `parallel_decode`: two requests of a batch can be given one block
   (ARCHITECTURE.md:105).

6. `memtable_search`: merging the threads' heaps trims the wrong one, so that
   with two threads the search returns the worst of what they kept
   (retriever.hpp:198; the serial search it replaces, lines 163-170, returns the
   best).
7. `index_open`: the server opens the index with medoid -1, which the constructor
   writes into the header, and searches start before the first node
   (JAG_new.cpp:387, README.md:41).

`GreedyOutput` leaves the requests of (2) out, and everything outside
`ParallelDecode` assumes what (5) shows not to be so: that the calls of
`allocate_next_token` in one batch do not overlap. With one OpenMP thread, or a
lock, they do not.

## Proofs

All theorems hold for every value of the constants under the assumptions named
in the modules, each of which TLC evaluates on the instances of the runs. Each
inductive invariant below was checked by TLC, on a run's instance, before it was
proved.

### The memory

`PagedMemoryProofs` proves, from the assumptions named in `PagedMemory` alone
(finitely many blocks and sequences, a positive block size, hashes that stay in
their type):

* `MemorySafety`: `Spec => []MemoryInv`, and from it
* `TypeCorrect`, `NoLeakNoDoubleFree`, `ReferenceCounting`, `EvictableLeaves`,
  `TopologicalEviction`, `HitsAreSound`, `PrivateTails`, `BoundedFragmentation`:
  eight of the invariants of the `paged_memory` run.

* `SharedEntriesStay` (`SharedEntriesImmutable`), in `ReadbackProofs`.

The hash function is arbitrary: these hold also if two prefixes collide.

None of the eight is inductive alone. That `free_block` does not make a counter
negative needs `RefCountsExact`, which counts the block-table entries that
`release` has not dropped yet (`Uses`). That an evicted block is in no table needs
`LeavesExact`, and that no cached child is left behind needs `ChildCountsExact`.
That `insert_cache` publishes a block no list knows of needs `TailExclusive`: the
block at the back of a table that is being filled is not cached and has one user;
and that needs `BlockConservation` when the block comes from the free list.
`TableShape` and `ControlShape` tie token counts, buffers and tables to each
other, and the loops to the call in progress. The conjunction is `MemoryInv`;
`NextMemoryInv` proves it inductive with one lemma per action and in it one step
per conjunct the action can disturb. `ListLemmas` has what `push_back`,
`push_front`, `pop_back` and `erase` do to the members of a list without
duplicates.

`ReadbackProofs` is about the entries in the blocks. `ShareInv` says how long
things are and who sees a block: positions stay within a table (`BoundInv`), and
token counts are what the lengths of the texts make them (`LenInv`); a block
taken in this pass has one user (`FreshExclusive`), and a block that is not full
is not cached (`PartialUncached`). A block that two tables share was therefore
full before the pass began, so that `Compute`, which stores only the entries of
its own pass (`PassShape`), stores none of them; that is
`SharedEntriesImmutable`, whatever the hash.

That a sequence reads *its own* text needs the hash: a hit is a claim about the
text behind a hash. Hashes have 64 bits and texts are unbounded, so an assumption
that no two texts collide would be one that no program satisfies. The hypothesis
of `EveryoneReadsItsText` (`Readback`) and `PoolImplementsPrivateKV`
(`ImplementsPrivateKV`) speaks of a set `Corpus` of texts instead: the texts that
ever occur are in it (`[]InCorpus(Corpus)`), and in it no two collide
(`NoCollisions(Corpus)`: there is a decoding `T` of hashes to texts, block by
block). The finite texts of a run are such a corpus; what follows if two texts
collide is that one is answered from the other's context. Under it, `ReadInv(T)`
is inductive: a running hash tells the text so far (`HashTells`), each entry in a
table was computed for the text of the sequence up to there (`TableTexts`,
`ReadAt`), and a cached block holds the entries of the text its key decodes to
(`CachedHolds`). `PrivateKV` then follows step by step: a forward pass extends the
private cache, a hit fills it at once, `release` and eviction do not touch it.

### The scheduler

`SchedulerProofs` proves `ServerSafety`: `ServerSpec => []ServerInv`, and from it
`SchedulerTypes`, `EachInOnePlace`, `DecodesStayFresh`, `ServedInOrder`
(`NoOvertaking`), `BatchStaysBounded` (`BatchBound`) and `ConnectionsClosedOnce`
(`ClosedOnce`); from it and the memory's invariants `ServerReadsItsText`
(`Readback`, of the memory as the server uses it) and `AnswersAreGreedy`
(`GreedyOutput`), the last two with the hypothesis on the corpus.

`ServerInv` has the memory's `MemoryInv` and `ShareInv` among its conjuncts: every
step of the server is a step of the memory or leaves it alone
(`ServerKeepsMemory`). The others say where a request is (`PlaceInv`), which of
its fields have which values in which phase (`ValueInv`, `LengthInv`,
`DecodeInv`), and what is true between a call to the memory and what follows it
(`CallInv`, `NextInv`). `AnswerInv` adds that a request's sequence holds its
prompt and what it has generated (`TextInv`), and that the next token to be fed
is the last one generated (`FeedInv`). With `Readback`, the text that the engine
reads from the pool is then the one that the request should be answered from.
That `argmax` of every text is a token (`ModelChooses`) is a hypothesis of that
theorem and not an assumption of the module, since it speaks of all texts and TLC
cannot evaluate it.

`OrderInv` says that the order of arrival is three parts one after the other:
the requests whose prefill is done, `waiting_queue`, `incoming_requests`; and that
at most the first of the second part has been begun. Every step moves the border
between two parts by at most what it appends. `BatchInv` bounds the batch although
nothing in the code compares its size with anything. A request ages by one with
every decode and leaves after `MaxGenerated` tokens (`MaxGenerated >= 2`, as a
request that ends with its first token is not covered), and a step admits at most
one; so of the k oldest requests the i-th has decoded at least k - i times
(`Aged`), and no batch is longer than `MaxGenerated + 1`. `SettledInv`, `AdmitInv`
and `StepInv` say what is true of the ages between steps and in the parts of a
step, when some requests have aged and others not yet.

### The graph indexes

`GraphBuildProofs` proves that every step of a build keeps `GraphInv`
(`BuildKeepsInv`), for every team, degree, chunk and number of passes, and for
every pruning rule that meets `PruneAssumption` (candidates only, each once, at
most `MaxDegree`, at least one if there is a related one). From it follow
`ListsAreSimple` (`SimpleLists` and `EdgesRelated`) and that no step empties a
list. A list that is being written is in no good state: count and slots belong to
two lists. So `GraphInv` speaks of lists that nobody writes, and of a list under
lock says what its thread is on its way to: there is a good list such that each
slot holds its value or is still to be stored, and likewise the count
(`WritesGood`). `Exclusive` makes that a statement about one thread.

None of the proofs assumes that the comparison is an order: `BeamAssumption` says
of it no more than that `Nearer` implies `Before`. `BuildKeepsBeams` shows that the
beam of every search is at all times a set of L of the nodes it has seen, and the
L best of them if they are ordered (`BeamInv`), also while the lists change under
it; `BeamsAreBest` is what that means for its results. That the condition may be
put on what the search has seen *at its end* is because every part of an ordered
set is ordered (`OrderedBelow`), so that all tops taken on the way were best.
`QueriesExpand` is about the searches of the finished graph: a node in the beam is
still in the heap, or being read, or all its neighbours have been looked at
(`ExpandInv`). The loop ends when the heap is empty, or when the closest of the heap
is farther than the farthest of a full beam; then no node of the beam can be in
the heap, as it would be closer. Hence `ResultsExpanded` (`QueriesEndAtAnOptimum`)
of a search that is `Thorough`: either the comparison orders what it has visited,
or it has visited fewer than L nodes and never came to the break.
`ResultsExpanded` also needs that no list changes any more, which holds once the
build is over, and not before.

`NitroIndexProofs` discharges `PruneAssumption` for the two lanes of `JagPrune`
(`JagPruneFits`) and concludes, for `NitroSpec`, `NitroTypes`, `NitroDegree`,
`NitroSimple`, `NitroVisited`, `NitroNeverEmptied`, `NitroBest` and
`NitroExpanded`. The first five, and
`NitroNoIsolatedNode` below, hold whatever the comparison does. The last two say
what they say of the *nearest* nodes only under the conditions above. When this
index meets them is `NitroOrders`: a set of nodes is ordered if any two of its
penalties for the query are equal or more than the tolerance apart, as they are for
a query whose range takes in every attribute (the penalties are multiples of one
over sigma), and for attributes on a grid coarse enough. With a million documents and attributes in 0..1000, scaled by their mean
difference, there are queries for which it fails. Of the nodes that such a query has visited
it returns L, not necessarily the nearest; the second query of `nitro_index` is one,
and the build goes on as it should. The lanes need a nearest candidate: `LeastExists` in
`ListLemmas` finds one as a minimum of the well-founded order of strict subsets,
because an induction theorem that takes a predicate is not available to the
provers.

`NitroNoIsolatedNode`: if there is a thread and there are two nodes, the finished
graph leaves no node without neighbours of its own. That is less than being
connected: nodes without a path from the medoid are not excluded. Every list starts empty and every search at one medoid, so
that as long as the medoid has no neighbour a search finds nothing but the medoid.
`ConnectInv` says that until then every list is empty or has the medoid alone in
it (`Alone`), and that afterwards a node that was inserted has a neighbour
(`Joined`, with `Progress` for the node each thread has in hand and `InHand` for
those it has still to do). The step between the two is the first link back to the
medoid, and the thread that has inserted a node into an index of empty lists is
always on its way to make it. `NitroRules` in `NitroIndex` says that the rules of
the build are those of this index; the build's other theorems do not need it.

`FilteredIndexProofs` proves `CandidatesAreExact`: whatever nodes each thread
scans and in whatever order the threads merge, a label's candidates are its K
nearest. `CandidatesInv` says that trimming everything that is in some heap, or
not scanned yet, always gives that result; `TrimEarly` is why a thread may trim
its own heap first.

`FilteredPruneFits` discharges `PruneAssumption` for `Filtered_robust_prune`. The
rule is a fold over the candidates in the order of their distance; `SweepRuns`
says of every prefix of them what the sweep has kept and put aside (`Swept`):
members of the prefix only, each once, with a label of the node, and one at least
if the prefix has such a member. The fold is unrolled by `FoldTable` in
`ListLemmas`. `FirstListsGood` says the same of the random first lists, a fold
over the labels of a node: whatever is drawn, a list is simple, related and fits,
although the labels of a node share members and each adds its medoid at the end.

`FilteredSafety` is `FilteredSpec => []FilteredInv`. Before the build nothing that
`GraphInv` speaks of holds of the lists being drawn, so `FilteredInv` is a
disjunction: `Preparing` (no search, no lock, and each list is either empty or
already good) or `Building` (`GraphInv`, each search still to be made for a node
has a medoid to start from, and what ended the process was a query). `MedoidInv` takes the one to the other: a label whose turn
is over has a medoid with that label, unless no node has it; so a node's own
labels always have one. `HeapsInv` bounds heaps and usage counts. From it follow
`FilteredTypes`, `FilteredMedoids` (`MedoidsOwnLabel`), `FilteredExits`
(`ExitsForNoDocument`), `FilteredEdges` (`EdgesRelated`, with `SimpleLists` and
`DegreeBound`) and `FilteredNeverEmptied`; with `BeamInv` and `ExpandInv` also
`FilteredSearches` (`VisitedExact`, `BestOfVisited` and `ResultsExpanded`, which
the `filtered_index` run does not check again). The heaps of this index compare
pairs of distance and id, which orders any nodes (`FilteredOrders`), so that here
the condition of the last two always holds. The assumption `FilteredChoices`
says, as `NitroRules` does, that the rules of the build are those of this index.
`Sorted` in `FilteredRules` names a sorted list by what it is, as the provers
cannot expand the library's sorting operator.

### Gateway, database and listener

`RetrievalProofs` proves `RetrievalSafety`: `Spec => []RetrievalInv`, for any
number of gateways, words of any number of bytes and messages of any length, and
however the bytes are cut into pieces; and from it `QueriesArriveWhole`
(`QueryWhole`), `ContextsAreWhole` (`ContextWhole`) and `PromptsArriveWhole`
(`PromptWhole`).

`RetrievalInv` has a conjunct for each of the three streams of a client
(`QueryOf`, `ReplyOf`, `PromptOf`): what the reader has, followed by what is on
its way, is how the message begins, and all of it if the writer is through.
`RequestInv` and `ListenerInv` say what gateway and listener do with what they
have read. The bytes of a message are a `FlattenSeq`, which is defined by
recursion on the length; `SetInduction` in `ListLemmas` is what unrolls it:
an induction over a set instead of a predicate, for which set comprehension makes
up.

### Model-checked only

* Liveness, of which the provers at hand know nothing: `EveryRequestServed`,
  `MemoryReturned`, `BuildEnds`, `QuestionEnds`.
* The violated sentences, which are counterexamples.

## Not modelled

* Arithmetic: kernels, softmax, quantisation, distances; `argmax` is a constant
  operator, distances are numbers on a line, `compute_global_statistics` is two
  positive numbers.
* The bounds of `freq_cis` and `attn` by `seq_len`, which no code checks.
* Memory exhaustion in the allocation of the pools, start-up and weight mapping.
* Races on the maps and the LRU list in `forward_decode_batch`: any outcome is
  possible once a map is corrupt.
* `build_index` of the plain `VAMANA` (retriever.hpp:488-537) and its random
  graph. It prunes a node's list and walks it without the node's lock; which
  updates are lost depends on how the compiler loads and stores the count, and no
  document says anything of the outcome. What the lock buys is shown on the two
  other indexes: `SimpleLists` fails without it (`FreeAlways`). The search of
  this class is `BeamSearch`.
* What `std::sort` does with a comparison that is no order beyond leaving its
  array in any order. The standard leaves it undefined, and an implementation may
  run past the end of the array. `push_heap` and `pop_heap` do not: they go along
  one path of the heap.
* A crash while the sorted file's header or the index's pages are being written
  back, that is, the order in which the kernel writes a mapping.

## Plan

Done: the memory with its refinement, the scheduler, the parallel decode loop,
both filtered indexes, the RPC layer with gateway and listener, the in-memory
table and the index file; proofs of all safety properties that the
passing runs check. What is left, in this order:

1. Which nodes a search from the medoid can reach in the finished graph; today
   only that no node is without an edge of its own.
2. The plain `VAMANA` build, with the outcomes that one compiler produces.
3. `MemTable` and `IndexFile` in proofs: which of the kept documents a merge
   loses, and that an index that was closed by its destructor is served whole.
