-------------------------- MODULE MCPagedMemoryPool --------------------------
(***************************************************************************)
(* PagedMemory with a pool large enough for the two water marks to lie     *)
(* above their minimum: 5% of PoolSize blocks is min_free_blocks = 2.      *)
(***************************************************************************)
EXTENDS PagedMemorySafety

CONSTANT PoolSize
Pool == 1 .. PoolSize
NoBlockId == 0

PrefixHash(parent, tokens) ==
    IF Len(parent) + Len(tokens) > MaxLen THEN <<>> ELSE parent \o tokens
NoTokens == <<>>
MCHashes == {[i \in 1 .. n |-> t] : n \in 0 .. MaxLen, t \in Tokens}
PoolOrder == [i \in 1 .. PoolSize |-> i]
=============================================================================
