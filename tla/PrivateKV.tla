------------------------------ MODULE PrivateKV ------------------------------
(***************************************************************************)
(* What the paged memory promises to the kernels: every sequence behaves   *)
(* as if it had a contiguous KV cache of its own, which only its own       *)
(* forward passes extend and only its own release empties.  Paging, block  *)
(* sharing between sequences and eviction must not be visible here.        *)
(***************************************************************************)
EXTENDS Integers, Sequences

CONSTANTS Seqs, Tokens, MaxLen

VARIABLE mem      \* mem[s][i]: the text that entry i of s was computed for

\* The text that a KV cache holds entries for.
TextOf(m) == IF m = <<>> THEN <<>> ELSE m[Len(m)]

\* m after the tokens `chunk': entry i stands for the text up to i.
Extend(m, chunk) ==
    m \o [i \in 1 .. Len(chunk) |-> TextOf(m) \o SubSeq(chunk, 1, i)]

PrivateInit == mem = [s \in Seqs |-> <<>>]

\* A prefill chunk, or a prefix found in the cache, extends one sequence.
ExtendOne(s) ==
    \E n \in 1 .. MaxLen : \E chunk \in [1 .. n -> Tokens] :
        mem' = [mem EXCEPT ![s] = Extend(@, chunk)]

\* A decode batch extends several sequences by one token each.
ExtendEach(S) ==
    \E tok \in [S -> Tokens] :
        mem' = [s \in Seqs |-> IF s \in S THEN Extend(mem[s], <<tok[s]>>)
                               ELSE mem[s]]

Clear(s) == mem' = [mem EXCEPT ![s] = <<>>]

\* What the caches hold changes in these ways only.
PrivateNext ==
    /\ mem' # mem
    /\ \/ \E s \in Seqs : ExtendOne(s) \/ Clear(s)
       \/ \E S \in SUBSET Seqs : ExtendEach(S)

PrivateSpec == PrivateInit /\ [][PrivateNext]_mem
=============================================================================
