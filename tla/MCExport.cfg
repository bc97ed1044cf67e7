SPECIFICATION Spec
CONSTANTS
    Jobs <- MCJobs
    MaxLines = 1
INVARIANTS
    NothingBroken
    FileAsAsked
PROPERTY CancelEnds
