SPECIFICATION Spec
CONSTANTS
    Procs = {p1, p2, p3}
    p1 = p1
    Root = p1
    Objs = {o1, o2, o3}
    Slots = {1, 2}
    MaxLeak = 1
    NULL = NULL
INVARIANTS RefsExact SleeperHasWaker
PROPERTY IsJoin
SYMMETRY Symmetry
