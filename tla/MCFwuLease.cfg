SPECIFICATION FwuSpec
CONSTANTS
    g1 = g1
    g2 = g2
    g3 = g3
    a = a
    b = b
    NoTable = NoTable
    Guests = {g1}
    Images = {a}
    Version <- MCVersion
    Record <- MCRecord
    Clients = {c1, c2}
    NoOwner = NoOwner
    Chunks = 1
    Size <- MCSizeOne
    Short = {a}
    Blank = Blank
    Undeclared = Undeclared
    Contiguous = FALSE
    Timeout = 2
    TickMod = 4
INVARIANTS SessionOK
PROPERTIES Undisturbed
