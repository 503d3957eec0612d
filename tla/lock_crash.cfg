SPECIFICATION FairSpec
CONSTANTS
    t1 = t1
    t2 = t2
    t3 = t3
    t4 = t4
    server = server
    cli1 = cli1
    cli2 = cli2
    NoThread = NoThread
    Threads = {t1, t2, t3, t4}
    Procs = {server, cli1, cli2}
    ProcOf <- ServerAndClis
    Crashable = {server, cli1}
    Slow = {t1, t3}
    StaleAfter = 2
    WaitTimeout = 1
PROPERTY StaleMeansDeadOrSlow
PROPERTY WaitersFinish
PROPERTY AbandonedLockIsBroken
PROPERTY ImplementsMutex
