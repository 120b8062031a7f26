SPECIFICATION TailerSpec
CONSTANTS
    Inodes = {1, 2}
    Valid = {1, 2}
    InParts = {1}
    MaxLines = 2
    MaxFiles = 2
INVARIANTS TailerTypeOK NoDuplicates ReadUpToOffset
PROPERTY LinesArrive
CHECK_DEADLOCK FALSE
