\* violated: the handler of a client that left is given no time.
SPECIFICATION Spec
CONSTANTS
    None = None
    c1 = c1
    c2 = c2
    c3 = c3
    Conns = {c1, c2}
INVARIANTS
    CutOnlyAfterDeadline
