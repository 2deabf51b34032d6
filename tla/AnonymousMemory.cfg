\* Three pages, three objects of two pages, two threads.
CONSTANTS
    Page = {p1, p2, p3}
    Object = {o1, o2, o3}
    Index = {i1, i2}
    CowSet = {s1, s2, s3, s4}
    Thread = {t1, t2}
    MaxMixed = 2
    MaxBusy = 2
    Zero = Zero
    Lazy = Lazy
    Null = Null
SPECIFICATION Spec
SYMMETRY Symmetry
INVARIANTS
    TypeOK
    Accounting
    LazyBacked
    CowIsolation
    PanicExplained
CHECK_DEADLOCK FALSE
