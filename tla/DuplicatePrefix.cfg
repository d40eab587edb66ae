SPECIFICATION Spec
CONSTANTS
    Seqs = {s1, s2}
    Tokens = {a}
    Blocks = {p, q, r, t}
    BootOrder <- BlockOrder
    NoBlock = NoBlock
    BlockSize = 2
    MaxLen = 5
    ChunkSizes = {1, 2, 3, 4, 5}
    Hashes <- MCHashes
    FNV_OFFSET_BASIS <- NoTokens
    hash_block_state <- PrefixHash
SYMMETRY Symmetry
PROPERTY EvictsOnlyTrueLeaves
CHECK_DEADLOCK FALSE
