\* A wake of another process between the load and the wait.
CONSTANTS
    t1 = t1
    t2 = t2
    t3 = t3
    p1 = p1
    p2 = p2
    b1 = b1
    b2 = b2
    Thread = {t1, t2, t3}
    Process = {p1, p2}
    ProcessOf <- TwoAndOne
    Queue = {q1, q2, q3, q4}
    NoQueue = NoQueue
    Nobody = Nobody
    Value = {0, 1}
    Bit <- TwoBits
    WaitBitsets <- AllBits
    WakeBitsets <- AllBits
    WakeCounts = {1, 3}
SPECIFICATION Spec
SYMMETRY Symmetry
INVARIANTS
    NoMissedWake
