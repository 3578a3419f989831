SPECIFICATION PartSpec
CONSTANTS
    Reg <- MCReg
    Mem = {s1, s2}
    Const = {imm}
    None = None
    InputReg <- MCInputReg
    ResultReg <- MCResultReg
    Volatile <- MCVolatile
    Rax = rax
    rax = rax
    rcx = rcx
    rdx = rdx
    rbx = rbx
    r8 = r8
    Allocatable <- MCAllocatable
    CallDestroys <- MCCallDestroys
    N = 3
    BoxedWrites <- MCBoxedWrites
    EntryLast <- MCEntryLast
    Total = 3
    Trampoline <- MCTrampoline
    Base = 100000
    Reach = 98500
    Records <- MCRecords
    UnwindSize <- MCUnwindSize
    Lengths = {20, 28, 140}
    Elsewhere = 4000
    L <- OneOfEach
    Entries <- MCEntries
    Bodies <- MCBodies
    Tails <- MCTails
    Shapes <- MCShapes
INVARIANTS
    InputsDelivered
    OthersKept
    ResultsHome
    AllocationConsistent
    LiveValuesInPlace
    ReadsAgreeUnlessReread
    SaveAreaIntact
    CallsLandIfNoneIsShort
    TableDescribesBodies
    PatchedOrReported
