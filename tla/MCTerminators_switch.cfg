SPECIFICATION TSpec
CONSTANTS
    Reg <- MCReg
    Fixed = {spill, zero}
    NoLoc = NoLoc
    Rax = 0
    Rcx = 1
    Rdx = 2
    R11 = 2
    Rsp = 4
    Volatile <- MCVolatile
    CalleeSaved <- MCCalleeSaved
    Zero = zero
    NotCode = "outside"
    Arms <- MCArms
INVARIANT
    SwitchTakesItsArm
