\* With the pessimistic lock of the condition variables.
CONSTANTS
    Thread = {t1, t2, t3}
    NoThread = NoThread
    MaxLevel = 0
SPECIFICATION Spec
SYMMETRY Symmetry
INVARIANTS
    SleepersKnown
