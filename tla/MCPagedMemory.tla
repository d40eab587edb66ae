---------------------------- MODULE MCPagedMemory ----------------------------
EXTENDS PagedMemorySafety

\* A hash without collisions on the texts that fit a sequence: the text
\* itself.  No sequence reaches the longer ones.
PrefixHash(parent, tokens) ==
    IF Len(parent) + Len(tokens) > MaxLen THEN <<>> ELSE parent \o tokens
NoTokens == <<>>
MCHashes == BoundedSeq(Tokens, MaxLen)

BlockOrder == SetToSeq(Blocks)

\* Ids are only names.  The blocks' boot order tells them apart in Init alone,
\* and Next maps the reachable states of any order to those of any other.
Symmetry == Permutations(Seqs) \cup Permutations(Tokens)
                \cup Permutations(Blocks)
=============================================================================
