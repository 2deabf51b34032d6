\* A mutex of either type, used with or without condition variables: three threads.
CONSTANTS
    Thread = {t1, t2, t3}
    NoThread = NoThread
    MaxLevel = 1
SPECIFICATION FairSpec
INVARIANTS
    TypeOK
    MutualExclusion
    LevelsBalanced
    NoSleeperForgotten
PROPERTIES
    SomebodyGetsIt
