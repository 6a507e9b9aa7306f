SPECIFICATION Spec
CONSTANTS
    main = main  other = other  a = a  b = b  c = c  d = d  l = l  r = r
    Tasks = {a, b, c, d, l, r}
    NoTask = NoTask
    Submitters = {main, other}
    Main = main
    Kids <- SomeKids
    Plans <- PairPlan
    NumShards = 2
    NumWorkers = 2
    ShardCap = 1
    DequeCap = 1
    LifoCap = 1
    Batch = 2
INVARIANT WaitIdleDrains
CHECK_DEADLOCK FALSE
