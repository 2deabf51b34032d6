\* Three threads, any of which waits, signals and broadcasts.
CONSTANTS
    Thread = {t1, t2, t3}
    NoThread = NoThread
    MaxLevel = 0
    MaxGeneration = 2
SPECIFICATION CondSpec
SYMMETRY Symmetry
INVARIANTS
    MutualExclusion
    SignalReleases
    SleepersFlagged
