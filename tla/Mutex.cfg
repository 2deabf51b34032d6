\* Four threads and one mutex, regular or the big lock of a process, nested
\* twice; upgrading a shared lock is allowed, and deadlocks as Mutex::lock
\* warns, so the system may stop.
CONSTANTS
    Thread = {t1, t2, t3, t4}
    NoThread = NoThread
    MaxLocks = 2
    Upgrades = TRUE
SPECIFICATION FairSpec
INVARIANTS
    TypeOK
    MutualExclusion
    CountsAgree
    HandOff
    NoWaiterLeftBehind
PROPERTIES
    NoBarging
    ImplementsRWLock
    EveryWaiterServed
CHECK_DEADLOCK FALSE
