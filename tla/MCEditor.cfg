SPECIFICATION Spec
CONSTANTS
    Duration = 6
    MinSeg = 2
    MinSel = 4
    MaxUndo = 1
    Grab = 1
    SnapRadius = 1
    MarkerReach = 2
    Chapters <- MCChapters
    Steps <- MCSteps
    MaxEdits = 2
INVARIANTS
    EditsAreSound
PROPERTIES
    CutRemovesSelection
    ImplementsCutHistory
CHECK_DEADLOCK FALSE
