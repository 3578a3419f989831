SPECIFICATION Spec
CONSTANTS
    Reg <- MCReg
    Mem = {s1, s2}
    Const = {imm}
    None = None
    InputReg <- MCInputReg
    ResultReg <- MCResultReg
    Volatile <- MCVolatile
    Rax = rax
    rax = rax
    rcx = rcx
    rdx = rdx
    rbx = rbx
    r8 = r8
INVARIANTS
    PointerIntact
