SPECIFICATION PartSpec
CONSTANTS
    Reg <- MCReg
    Restored = {1}
    Block <- MCBlock
    Entry = 0
    Graphs <- TwoGraphs
    Size = 4
    N = 4
    NoWork = "nothing"
    Contents <- MCContents
    Terms <- MCForks
INVARIANTS
    EmittedAgrees
    NothingReadIsJunk
    LeavesDominate
    StorePassesUnseen
    SameWork
    EveryTargetIsEmitted
