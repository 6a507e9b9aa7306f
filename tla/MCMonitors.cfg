SPECIFICATION MCSpec
CONSTANTS
    NumBase = 1
    NumElastic = 1
    StuckMin = 1
    Batch = 2
    Plans <- MCPlans
    app = app  owner = owner  t1 = t1  t2 = t2
    Unlocked = Unlocked
    NoThread = NoThread
    None = None
INVARIANTS
    FreedOnlyWhenDone
    NoLongSleepWithWork
    ThreadsAreKnown
    OneTimer
PROPERTIES
    TimerComesBack
    JudgedStuckRanThroughout
    WaitingWorkGetsHelp
    StopsReturn
    ScansEnd
CHECK_DEADLOCK FALSE
