SPECIFICATION Spec
CONSTANTS
    Seqs = {s1}
    Tokens = {a}
    Blocks <- Pool
    PoolSize = 40
    BootOrder <- PoolOrder
    NoBlock <- NoBlockId
    BlockSize = 1
    MaxLen = 21
    ChunkSizes = {21}
    Hashes <- MCHashes
    FNV_OFFSET_BASIS <- NoTokens
    hash_block_state <- PrefixHash
PROPERTY LowWaterEvicts
CHECK_DEADLOCK FALSE
