SPECIFICATION Spec
CONSTANTS
    t1 = t1  t2 = t2  app = app  owner = owner
    Threads = {t1, t2}
    Callers = {app, owner}
    Boss = owner
    InitMax = 2
    Unlocked = Unlocked
    NoThread = NoThread
    Plans <- RestartPlan
INVARIANT OneScan
CHECK_DEADLOCK FALSE
