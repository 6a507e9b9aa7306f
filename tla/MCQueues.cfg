SPECIFICATION MCSpec
CONSTANTS
    Producers = {p1, p2}
    Consumers = {c1, c2}
    Tasks = {t1, t2, t3}
    NoTask = NoTask
    Cap = 2
    Batch = 2
    Modulus = 32
    Start = 30
    MaxLag = 8
    Spawned = {1, 2, 3}
    NoSpawn = 0
    w0 = w0
    w1 = w1
    w2 = w2
    DequeSlots = 2
    Items = {1, 2, 3}
    NoItem = 0
    m1 = m1
    m2 = m2
    k1 = k1
    k2 = k2
    l1 = l1
    RingSlots = 2
    Turns = 8
    First = 7
    Retries = 2
SYMMETRY Symmetry
INVARIANTS
    ExclusiveCells
    CopiesAreTheLog
    CountWasTrue
PROPERTIES
    RefusedOnlyWhenFull
    ImplementsChannel
    ImplementsDeque
    PeekIsTheItem
    ImplementsFifo
