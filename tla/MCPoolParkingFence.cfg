SPECIFICATION MCSpec
CONSTANTS
    c1 = c1  c2 = c2  c3 = c3
    Cores = {c1}
    Submitters = {p1}
    Batch = 2
    Starts <- FenceStarts
    NoCore = NoCore
    w1 = w1  w2 = w2
    elastic = elastic
    s1 = s1
    total = total
    NoOne = NoOne
    QueueCap = 1
    Few = 1
INVARIANT NoTaskDependsOnTimeout
