SPECIFICATION ViewSpec
CONSTANTS
    Folder <- Pages
    File = {a, b}
    In <- AllOnA
    MaxHistory = 2
    MaxObjects = 3
    MaxPending = 2
    MaxPicked = 1
    MaxActs = 5
    Photo = {p, q}
    MaxEvents = 1
    MaxTime = 2
    Video = {v, w}
    Other = {o}
    MaxMediaActs = 4
SYMMETRY Symmetry
INVARIANTS TypesOK ShownSettles SelectionFollows HistoryFollows PictureIsCurrent HandlesReleased SessionSettles
CHECK_DEADLOCK FALSE
