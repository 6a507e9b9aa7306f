SPECIFICATION MCSpec
CONSTANTS
    main = main  other = other  a = a  b = b  c = c  d = d  l = l  r = r
    Tasks = {a, b, c, d, l, r}
    NoTask = NoTask
    Submitters = {main, other}
    Main = main
    Kids <- SomeKids
    Plans <- SomePlans
    NumShards = 1
    NumWorkers = 2
    ShardCap = 2
    DequeCap = 1
    LifoCap = 1
    Batch = 2
    k1 = k1  k2 = k2  p1 = p1
    NoCore = NoCore
INVARIANTS
    NothingLost
    CountersExact
    WaitIdleExact
PROPERTIES
    EveryTaskStarts
    DestroyEnds
CHECK_DEADLOCK FALSE
