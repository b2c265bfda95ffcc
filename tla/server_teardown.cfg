CONSTANTS
    c1 = c1
    c2 = c2
    Conns <- MCConns

SYMMETRY MCSymmetry

SPECIFICATION Spec

INVARIANT TeardownOffPool
