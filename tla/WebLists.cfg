SPECIFICATION MCSpec
CONSTANTS
    MaxId = 3
    FirstRows <- MCFirstRows
    PageSizes = {1, 2}
    FirstSize = 2
    Views <- MCViews
    Slots = {s1, s2}
    MaxWork = 2
    MaxMoves = 2
    MaxFaults = 1
SYMMETRY MCSymmetry
INVARIANTS
    ListTypeOK
    QuietMeansCurrent
    BulkStaysWithinChoice
    LabelsStayHome
    BusyIsBacked
CHECK_DEADLOCK FALSE
