CONSTANTS
    t1 = t1
    t2 = t2
    t3 = t3
    NoTask = NoTask
    Tasks <- MCTasks
    NSec = 1
    MAX_TASKS = 2
    MaxSuspends = 1
    SIGNAL_PRIMARY_ON_NEW_SECONDARY_TASK = TRUE
    HasAdapter = TRUE
    RemoteModes = {TRUE}
    Endless = {}
    EndlessClasses = {}
    RemotePlacedByExecutor = TRUE

SPECIFICATION Spec

INVARIANTS
    TypeOK
    SingleOwner
    TaskCount
    NoDoubleFree
    NoLeakOnDestroy
