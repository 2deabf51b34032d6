\* One processor, which is what the kernel uses unless it boots with smp=on.
CONSTANTS
    Thread = {t1, t2}
    Waker = {w}
    Nobody = Nobody
    SMP = FALSE
    WakeCounts = {1, 3}
SPECIFICATION FairSpec
INVARIANTS
    TypeOK
    NoDanglingBlocker
    BlockedIffBlocker
    NoLostWakeup
    ResultTruthful
PROPERTIES
    UnblockedReturns
    TimedWaitReturns
