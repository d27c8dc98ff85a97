CONSTANTS
    r1 = r1
    r2 = r2
    b1 = b1
    b2 = b2
    b3 = b3
    b4 = b4
    Seqs = {r1, r2}
    Blocks = {b1, b2, b3}
    BlockSize = 2
    Backend = "radix"
    Token = {0, 1}
    Sampled = {0}
    Prompt <- SharedPrompts
    MaxLen = 5
SPECIFICATION BMSpec
SYMMETRY Symmetry
INVARIANTS PoolConsistent CachedPrefixIntact IndexedPageIntact WritesArePrivate AttentionWindow
