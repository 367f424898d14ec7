SPECIFICATION FwuSpec
CONSTANTS
    g1 = g1
    g2 = g2
    g3 = g3
    a = a
    b = b
    NoTable = NoTable
    Guests = {g1, g2, g3}
    Images = {a, b}
    Version <- MCVersion
    Record <- MCRecordThree
    Clients = {c1}
    NoOwner = NoOwner
    Chunks = 2
    Size <- MCSize
    Short = {}
    Blank = Blank
    Undeclared = Undeclared
    Contiguous = TRUE
    Timeout = 1
    TickMod = 2
INVARIANTS UpdateBoots
PROPERTIES RbSpec NeverBack
CONSTRAINT NoTime
