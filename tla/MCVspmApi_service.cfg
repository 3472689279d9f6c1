SPECIFICATION FairSpec
CONSTANTS
    Handles = {h1, h2}
    Jobs = {j1, j2}
    NoJob = NoJob
INVARIANTS TypeOK HandleOutlivesThread NothingLeftBehind JoinsLiveThread
PROPERTIES ServiceSpec QuitReturns EveryJobSettled
CHECK_DEADLOCK FALSE
