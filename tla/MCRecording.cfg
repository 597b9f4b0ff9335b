SPECIFICATION Spec

CONSTANTS
    EventContents = {x, y}
    MaxEvents = 3
    MaxNs = 1
    Loggers = {l1, l2}
    NoLine = NoLine
    MaxLines = 3

INVARIANTS
    ChainTellsEdits
    LinesAccounted
    OnlyOverlapsReorder

CHECK_DEADLOCK FALSE
