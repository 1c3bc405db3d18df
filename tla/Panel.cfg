SPECIFICATION Spec
CONSTANTS
    NoWafer = 0
    WaferIds = {1, 2}
    AlarmIds = {"ScanStall", "FitQualityPoor"}
    MaxClicks = 2
    MaxPosts = 3
    MaxBuilds = 2
INVARIANTS
    PanelFollowsMachine
    ResultIsShown
    CommandsKeepMachine
CHECK_DEADLOCK FALSE
