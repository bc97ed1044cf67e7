SPECIFICATION FilesSpec
CONSTANTS
    Savers = {save, mark}
    save = save
    mark = mark
    Units <- MCUnits
    RecToken = TRUE
    OwnDir = FALSE
    Grace = 1
    MaxAge = 3
    MaxTotal = 1
    MaxClock = 4
    MaxFiles = 3
    MaxSuffix = 2
INVARIANTS NothingOverwritten InUseSpared PlanIsLeast PartsKept
CHECK_DEADLOCK FALSE
SYMMETRY SameSavers
