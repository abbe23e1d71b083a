CONSTANTS
    empty = empty  blank = blank  a = a  padded = padded  pair = pair  b = b
    Cell <- MCCell
    EmptyCell = empty
    Trim <- MCTrim
    Parts <- MCParts
    Convert <- MCConvert
    NotAnObject = NotAnObject
    Missing = Missing
    Commands <- MCCommands
    NewLines <- MCNewLines
    MaxAdded = 3
SPECIFICATION Spec
INVARIANTS
    WholeOrRefused
    PathsAgree
    OrphansAreYoung
    ManifestTrue
CHECK_DEADLOCK FALSE
