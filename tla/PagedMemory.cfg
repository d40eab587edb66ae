SPECIFICATION Spec
CONSTANTS
    Seqs = {s1, s2}
    Tokens = {a, b}
    Blocks = {p, q, r}
    BootOrder <- BlockOrder
    NoBlock = NoBlock
    BlockSize = 2
    MaxLen = 5
    ChunkSizes = {1, 2, 3}
    Hashes <- MCHashes
    FNV_OFFSET_BASIS <- NoTokens
    hash_block_state <- PrefixHash
SYMMETRY Symmetry
INVARIANTS
    TypeOK
    BlockConservation
    RefCountsExact
    LeavesExact
    ChildCountsExact
    CacheMapSound
    TailExclusive
    FragmentationBound
    Readback
CHECK_DEADLOCK FALSE
PROPERTIES
    SharedEntriesImmutable
    ImplementsPrivateKV
