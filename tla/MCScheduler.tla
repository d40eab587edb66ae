----------------------------- MODULE MCScheduler -----------------------------
EXTENDS SchedulerSafety

CONSTANTS r1, r2, r3, r4, ta, tb

\* Four clients against MaxGenerated = 2: r1, r3 and r4 start with the same
\* block, r2 shares none and makes the pool evict; r3 exceeds what the decodes of
\* others leave of the budget; r4 is a whole number of blocks.
MCPrompt == (r1 :> <<ta, tb, ta>>) @@ (r2 :> <<tb, tb, ta>>)
                @@ (r3 :> <<ta, tb, tb, ta, ta>>) @@ (r4 :> <<ta, tb>>)

\* A model whose answer depends on the whole text.
MCArgmax(t) ==
    IF (Cardinality({i \in DOMAIN t : t[i] = ta}) + Len(t)) % 3 = 0 THEN ta ELSE tb

PrefixHash(parent, tokens) ==
    IF Len(parent) + Len(tokens) > MaxLen THEN <<>> ELSE parent \o tokens
NoTokens == <<>>
MCHashes == BoundedSeq(Tokens, MaxLen)
BlockOrder == SetToSeq(Blocks)
=============================================================================
