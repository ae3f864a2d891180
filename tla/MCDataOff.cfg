\* Two requests on two connections: what a flush leaves.
SPECIFICATION Spec
CONSTANTS
    Token = {t1, t2}
    None = None
    MaxOutages = 1
    CidCount = 2
SYMMETRY TokenSymmetry
INVARIANT OffClears
CHECK_DEADLOCK FALSE
