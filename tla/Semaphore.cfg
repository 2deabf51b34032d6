\* Four threads and up to two slots.
CONSTANTS
    Thread = {t1, t2, t3, t4}
    MaxCount = 2
SPECIFICATION FairSpec
INVARIANTS
    TypeOK
    ResponsibilityKept
    NoSleeperForgotten
PROPERTIES
    SlotsAreTaken
