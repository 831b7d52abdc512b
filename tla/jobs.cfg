CONSTANTS
    j1 = j1
    j2 = j2
    NoJob = NoJob
    Jobs <- TwoJobs
    GuiCallers <- OneCaller
SPECIFICATION ViewSpec
INVARIANTS
    PipelineIsListed
    OrphansExplained
    ReportsAreSound
    CurrentJobCatchesUp
    WidgetsFollowManager
PROPERTIES
    CancelLostOnlyInWindows
    ImplementsJobQueue
    JobsAreSettled
    GuiWaitsEnd
CHECK_DEADLOCK FALSE
