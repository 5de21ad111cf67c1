SPECIFICATION Spec
CONSTANTS
    ra = ra
    rb = rb
    W = 2
    H = 1
    Names <- MCNames
    Widths = {1, 2, 3}
    Mirrored = {1, 2}
    Inputs = {"0", "1", "x"}
    NoName = NoName
INVARIANT UnusedBitsClear
