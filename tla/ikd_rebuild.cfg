SPECIFICATION Spec
CONSTANTS
    Points = {1, 2}
    Boxes = {{1}, {1, 2}}
    FatherBoxes = {{1, 2}}
    Searchers = {s1, s2}
    MaxOps = 3
INVARIANTS
    SearchLockedOut
    DiscardedUnread
PROPERTIES
    RebuildKeepsPoints
    RebuildCompletes
    StopCompletes
