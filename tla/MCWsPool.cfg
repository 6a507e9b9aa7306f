SPECIFICATION MCSpec
CONSTANTS
    t1 = t1  t2 = t2
    w1 = w1  w2 = w2  w3 = w3
    Scenarios <- Small
    Tasks = {t1, t2}
    NoTask = NoTask
    Workers = {w1, w2, w3}
    NoWorker = NoWorker
    First = w1
    Clients = {s1}
    Monitor = m
    Lanes = 2
    RingCap = 1
    ReserveCap = 4
    TargetCap = 1
    Cpus = 3
    MaxHelpers = 2
INVARIANTS
    PendingExact
    NobodyUsesFreed
PROPERTIES
    PoisonedOnlyIfStuck
    EveryTaskRuns
    DestroyReturns
CHECK_DEADLOCK FALSE
