SPECIFICATION Spec
CONSTANTS
    Id <- MCId
    Entry = 0
    NoId = NoId
    NativeForks <- MCNative
    SymbolicForks <- MCSymbolic
    Tables <- MCTables
    BlockBudgets = {2, 3}
    OnlyLoses = FALSE
INVARIANTS
    OneBlockPerId
    OnlyReachable
    PredsAreSound
    FirstPassIsClosed
    JoinsCutIfSameShape
PROPERTIES
    Terminates
