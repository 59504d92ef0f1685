SPECIFICATION Spec
CONSTANTS
    Calls = {c1, c2, c3}
    MaxClicks = 3
    MaxFaults = 1
    Accounts = {1, 2}
    MaxVersion = 2
    MaxRows = 2
    PanelSize = 1
    Ranges <- MCRanges
    FirstRange <- MCFirstRange
    MonthStart <- MCMonthStart
    Days = {10, 1704, 1705}
    Nows <- MCNows
    BenchTyped = {0, 156, 900}
    Elsewhere <- MCElsewhere
CONSTRAINT SettingsBound
INVARIANTS
    PagesTypeOK
    SpinnersBacked
    UsageIsCurrent
    RefreshIsCurrent
    OverviewShowsRange
    PickedRangeIsCounted
    LiveIsServer
    LonePatchTakesEffect
PROPERTY
    SessionComesToRest
CHECK_DEADLOCK FALSE
