SPECIFICATION Spec
CONSTANTS
    Conns = {c1, c2, c3}
    Callers = {t1, t2, t3}
    None = None
CHECK_DEADLOCK FALSE
INVARIANTS
    HandedOverOnce
PROPERTIES
    HandOverEnds
