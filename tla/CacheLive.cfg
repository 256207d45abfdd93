\* Two reads of one instance, Redis failing and recreated; liveness, so without symmetry.
SPECIFICATION FairSpec

CONSTANTS
    Proc = {p1}
    Slot = {s1, s2}
    Writer = {w1}
    Query = {q1}
    MaxWrites = 2
    NoTree = noTree
    RedisFails = TRUE
    RedisRestarts = TRUE

INVARIANTS
    LoadOnlyOnMiss
PROPERTIES
    EveryReadAnswered
    CacheConverges
