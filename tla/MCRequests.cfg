SPECIFICATION RSpec
CONSTANTS
    a1 = a1
    a2 = a2
    f1 = f1
    f2 = f2
    f3 = f3
    Cells = {a1, a2}
    NULL = NULL
    HEAD = HEAD
    Tasks = {f1, f2, f3}
    NoTask = NoTask
    CriticalLoad2 = 2
    Workers = {1}
    Messages <- MCMessages
    NoMessage = NoMessage
    Junk = Junk
    MaxBody = 3
    MaxFaults = 1
SYMMETRY Symmetry
INVARIANTS
    ClosedOnce
    RequestIsReadWhole
PROPERTIES
    QueueIsFifo
    RequestsAreAtomic
