SPECIFICATION FairSpec
CONSTANTS
    Hdl = h1
    Handles = {h1}
    Jobs = {j1, j2}
    NoJob = NoJob
    Programs <- MCPrograms
INVARIANTS TypeOK ImagesReady BuffersOutliveJobs CbInfoOutlivesCallback
    SemaphoreExact ExitReleases ExitClosesSession
PROPERTIES ProgramEnds
CHECK_DEADLOCK FALSE
