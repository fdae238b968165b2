\* Each of the notebooks and the registry on its own, and a client that two reports are run on.
CONSTANTS
    r1 = r1  r2 = r2
    None = None
    Reports = {r1, r2}
    Blocking = {r1, r2}
    Wanted <- OnlyFirst
    N = 3
    MsgIds = {1, 2, 3}
    Qtypes <- TwoTypes
    Forwarders <- TwoForwarders
    WithDot = {"unbound"}
    Servers <- OneServer
    Steps <- ThreeSteps
    Total = 15
    MaxRuns = 2
    Drafts <- ManifestDrafts
SPECIFICATION NotebooksSpec
INVARIANTS
    TypesOK PassProvesDot PassIsEarned CorrectServerPasses TierComplete
    ForwardedNoStricter ReportShowsEachRowOnce LoadWithinTotal TableOfOneRun
    OthersUnaffected ManifestFaultsShowEarly
PROPERTIES BlockLifted CellEnds ScalingEnds
CHECK_DEADLOCK FALSE
