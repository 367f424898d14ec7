SPECIFICATION FwuSpec
CONSTANTS
    g1 = g1
    g2 = g2
    g3 = g3
    a = a
    b = b
    NoTable = NoTable
    Guests = {g1}
    Images = {a, b}
    Version <- MCVersion
    Record <- MCRecord
    Clients = {c1, c2}
    NoOwner = NoOwner
    Chunks = 2
    Size <- MCSize
    Short = {b}
    Blank = Blank
    Undeclared = Undeclared
    Contiguous = TRUE
    Timeout = 2
    TickMod = 4
INVARIANT CompleteVerifies
