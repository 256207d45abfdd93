\* Two reads, which may share a flight, two mutations at a time, Redis failing, and
\* recreated while nobody reads.
SPECIFICATION QuietSpec
CONSTANTS
    Proc = {p1}
    Slot = {s1, s2}
    Writer = {w1, w2}
    Query = {q1}
    MaxWrites = 3
    NoTree = noTree
    RedisFails = TRUE
    RedisRestarts = TRUE
SYMMETRY Symmetry
INVARIANTS
    TypeOK
    PayloadsFresh
    FreshReads
PROPERTIES
    CacheTransparent
