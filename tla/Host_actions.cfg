\* Three attempts on one host.
CONSTANTS
    Attempt = {x1, x2, x3}
    RunKey = {k1, k2}
    EntryName = {n1, n2}
    Address = {a1}
    Port = {p1, p2}
    Task = {t1}
    Process = {q1}
SPECIFICATION HostSpec
SYMMETRY Symmetry
INVARIANT LostOnlyInARace
PROPERTY StaysInForce
CHECK_DEADLOCK FALSE
