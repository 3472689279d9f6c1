SPECIFICATION MCSpec
CONSTANTS
    UsedSrcs <- MCUsedSrcs
    LutSizes <- MCLutSizes
    CluSizes <- MCCluSizes
    Widths <- MCWidths
    FdpRequests <- MCFdpRequests
    VspRequests <- MCVspRequests
    InWidths <- MCInWidths
    InHeights <- MCInHeights
    Sizes <- MCSizes
INVARIANTS TypeOK BuffersAccounted TablesFit HistogramsFromBuffers
    DisplayListCovers JobIsRequest MaskOwned
    SamplesInside RefusesOnlyImpossible
CHECK_DEADLOCK FALSE
