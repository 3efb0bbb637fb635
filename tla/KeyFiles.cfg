SPECIFICATION Spec
CONSTANTS
    p1 = p1
    p2 = p2
    p3 = p3
    k1 = k1
    k2 = k2
    k3 = k3
    c1 = c1
    Absent = Absent
    Empty = Empty
    None = None
    Processes = {p1, p2, p3}
    Clients = {c1}
    Keys = {k1, k2}
    Commands <- CommandsTyped
SYMMETRY Interchangeable
INVARIANTS
    AcceptedHoldsPrivateKey
    RefusedForStaleKey
