CONSTANTS
    g1 = g1  g2 = g2
    front = front  back = back
    sF = sF  sB = sB
    Guests = {g1, g2}
    Partitions = {front, back}
    Services = {sF, sB}
    Owner <- MCOwner
    Allowed <- MCAllowed
    NConns = 3
    NMsgs = 2
    PerClient = 2
    NsTotal = 2
    GenMax = 4
    GenBound = 2
    HeldBound = 2
    RestartLimit = 1
    None = None
SPECIFICATION Spec
INVARIANTS
    RequestsOK
    HandlesOK
    RhandleFresh
    SecureReserve
PROPERTY ErrorSticky
CONSTRAINT Explored
SYMMETRY MCSymmetry
CHECK_DEADLOCK FALSE
