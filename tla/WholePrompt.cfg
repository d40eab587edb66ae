SPECIFICATION ServerSpec
CONSTANTS
    r1 = r1
    r2 = r2
    r3 = r3
    r4 = r4
    ta = ta
    tb = tb
    Seqs = {r1, r2, r3, r4}
    Tokens = {ta, tb}
    Prompt <- MCPrompt
    argmax <- MCArgmax
    max_tokens_per_batch = 5
    MaxGenerated = 2
    Blocks = {p, q, r, t, u}
    BootOrder <- BlockOrder
    NoBlock = NoBlock
    BlockSize = 2
    MaxLen = 8
    ChunkSizes = {1, 2, 3, 4, 5}
    Hashes <- MCHashes
    FNV_OFFSET_BASIS <- NoTokens
    hash_block_state <- PrefixHash
INVARIANT WholePromptHitsToo
CHECK_DEADLOCK FALSE
