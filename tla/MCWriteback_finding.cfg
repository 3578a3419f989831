SPECIFICATION WriteSpec
CONSTANTS
    Total = 3
    Trampoline <- MCTrampoline
    Base = 100000
    Reach = 98500
    Records <- MCRecords
    UnwindSize <- MCUnwindSize
    Lengths = {20, 28, 140}
    Elsewhere = 4000
INVARIANTS
    LayoutsAgree
