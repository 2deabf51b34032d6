\* Several processors: a wake that comes before begin_blocking is lost.
CONSTANTS
    Thread = {t1, t2}
    Waker = {w1, w2}
    Nobody = Nobody
    SMP = TRUE
    WakeCounts = {1, 3}
SPECIFICATION Spec
SYMMETRY ThreadSymmetry
INVARIANTS
    NoLostWakeup
CHECK_DEADLOCK FALSE
