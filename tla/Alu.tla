--------------------------------- MODULE Alu ----------------------------------
(***************************************************************************)
(* ir/lift.rs: the arithmetic arms of Emulator::step, the flags they set,  *)
(* partial registers, and vm/state.rs: the flags as one word.              *)
(*                                                                         *)
(* A register of the evaluator holds a term; here it holds the value that  *)
(* term has for the registers the program starts with, and a flag that     *)
(* holds an opaque term is Unknown.  Each arm is translated operation by   *)
(* operation, at the width it builds it; Processor is what it is meant to  *)
(* be indistinguishable from.                                              *)
(***************************************************************************)
EXTENDS Processor

\* An instruction is [op, to, from]: operands, or a constant [imm, w]; [cc] of a condition; [first] of a third operand.
CONSTANTS Programs,          \* [code, depth]: sets of instructions, and how many of them run
          Starts,            \* values of the registers at first
          Allowed            \* the approximations a behaviour may meet

VARIABLES program,   \* one of Programs
          lifted,    \* registers, flags and stack of the evaluator
          machine,   \* those of the processor
          loose,     \* whether the last flags are known to be approximated
          steps

vars == <<program, lifted, machine, loose, steps>>

-----------------------------------------------------------------------------
(* Registers. *)
ReadReg(regs, o) == Down(regs[o.reg], o.at) \cap Bits(o.w)

\* Mutation: writing the low half of a register keeps the rest of it.
WriteRegKeeps(regs, o, v) ==
    LET lane == Up(Bits(o.w), o.at)
    IN  [regs EXCEPT ![o.reg] = (@ \ lane) \cup Up(v \cap Bits(o.w), o.at)]

WriteReg(regs, o, v) ==
    LET lane == Up(Bits(o.w), o.at)
    IN  [regs EXCEPT ![o.reg] = IF o.w \in {Word, Long} THEN v \cap Bits(o.w)
                                ELSE (@ \ lane) \cup Up(v \cap Bits(o.w), o.at)]

\* A second operand: of a register, or a constant; and extended by its sign.
Plain(regs, i) == IF "imm" \in DOMAIN i.from THEN i.from.imm ELSE ReadReg(regs, i.from)
Source(regs, i) == SignExtend(Plain(regs, i), i.from.w, i.to.w)

-----------------------------------------------------------------------------
(* The flags as the evaluator builds them. *)
Xor(x, y) == FoldBin("xor", x, y, Word)

ZeroSignParity(f, r, w) ==
    [f EXCEPT !["zf"] = (r = {}), !["sf"] = (r \cap {w - 1} = {w - 1}), !["pf"] = (FoldUn("parity", r, w) # {})]

Auxiliary(a, b, r) == Nibble \in Xor(Xor(a, b), r)

LogicFlags(f, r, w) == [ZeroSignParity(f, r, w) EXCEPT !["cf"] = FALSE, !["of"] = FALSE, !["af"] = Unknown]

AddFlags(f, a, b, r, w) ==
    [ZeroSignParity(f, r, w) EXCEPT !["cf"] = (Num(r) < Num(a)), !["of"] = (w - 1 \in Xor(a, r) \cap Xor(b, r)),
                                    !["af"] = Auxiliary(a, b, r)]

\* Mutation: the overflow of a difference is computed as that of a sum.
SubFlagsOfSum(f, a, b, r, w) ==
    [ZeroSignParity(f, r, w) EXCEPT !["cf"] = (Num(a) < Num(b)), !["of"] = (w - 1 \in Xor(a, r) \cap Xor(b, r)),
                                    !["af"] = Auxiliary(a, b, r)]

SubFlags(f, a, b, r, w) ==
    [ZeroSignParity(f, r, w) EXCEPT !["cf"] = (Num(a) < Num(b)), !["of"] = (w - 1 \in Xor(a, b) \cap Xor(a, r)),
                                    !["af"] = Auxiliary(a, b, r)]

ClobberCfOf(f) == [f EXCEPT !["cf"] = Unknown, !["of"] = Unknown]
ClobberArithFlags(f) == [g \in DOMAIN f |-> IF g \in Flags THEN Unknown ELSE f[g]]

Condition(f, cc) ==
    LET g == [x \in Flags |-> f[x] = TRUE]
        base == CASE Positive(cc) = "be" -> g["cf"] \/ g["zf"]
                  [] Positive(cc) = "l" -> g["sf"] # g["of"]
                  [] Positive(cc) = "le" -> (g["sf"] # g["of"]) \/ g["zf"]
                  [] OTHER -> \E x \in Tests(cc) : g[x]
    IN  IF \E x \in Tests(cc) : f[x] = Unknown THEN Unknown ELSE base # (cc # Positive(cc))

-----------------------------------------------------------------------------
(* What the evaluator makes of an instruction: the registers and flags after it. *)
Put(s, o, v, f) == [s EXCEPT !.regs = WriteReg(@, o, v), !.flags = f]

Carry(s) == Truth(s.flags["cf"] = TRUE)

LiftAdd(s, i, withCarry) ==
    LET w == i.to.w
        a == ReadReg(s.regs, i.to)
        b == IF withCarry THEN FoldBin("add", Source(s.regs, i), Carry(s), w) ELSE Source(s.regs, i)
        r == FoldBin("add", a, b, w)
    IN  Put(s, i.to, r, AddFlags(s.flags, a, b, r, w))

LiftSub(s, i, withCarry) ==
    LET w == i.to.w
        a == ReadReg(s.regs, i.to)
        b == IF withCarry THEN FoldBin("add", Source(s.regs, i), Carry(s), w) ELSE Source(s.regs, i)
        r == FoldBin("sub", a, b, w)
    IN  Put(s, i.to, r, SubFlags(s.flags, a, b, r, w))

LiftCmp(s, i) == [s EXCEPT !.flags = LiftSub(s, i, FALSE).flags]

LiftLogic(s, i) ==
    LET r == FoldBin(i.op, ReadReg(s.regs, i.to), Source(s.regs, i), i.to.w)
    IN  Put(s, i.to, r, LogicFlags(s.flags, r, i.to.w))

LiftTest(s, i) == [s EXCEPT !.flags = LiftLogic(s, [i EXCEPT !.op = "and"]).flags]

LiftNot(s, i) == Put(s, i.to, FoldUn("not", ReadReg(s.regs, i.to), i.to.w), s.flags)

LiftNeg(s, i) ==
    LET a == ReadReg(s.regs, i.to)
        r == FoldBin("sub", {}, a, i.to.w)
    IN  Put(s, i.to, r, SubFlags(s.flags, {}, a, r, i.to.w))

\* inc and dec keep the carry.
LiftStep(s, i) ==
    LET w == i.to.w
        a == ReadReg(s.regs, i.to)
        r == FoldBin(IF i.op = "inc" THEN "add" ELSE "sub", a, {0}, w)
        f == IF i.op = "inc" THEN AddFlags(s.flags, a, {0}, r, w) ELSE SubFlags(s.flags, a, {0}, r, w)
    IN  Put(s, i.to, r, [f EXCEPT !["cf"] = s.flags["cf"]])

LiftShift(s, i) ==
    LET w == i.to.w
        count == Plain(s.regs, i)
        r == FoldBin(i.op, ReadReg(s.regs, i.to), count, w)
    IN  Put(s, i.to, r, IF "imm" \in DOMAIN i.from /\ count = {} THEN s.flags
                        ELSE ClobberCfOf(ZeroSignParity(s.flags, r, w)))

LiftBitTest(s, i) ==
    LET bit == FoldBin("and", FoldBin("shr", ReadReg(s.regs, i.to), Plain(s.regs, i), i.to.w), {0}, i.to.w)
    IN  [s EXCEPT !.flags["cf"] = (bit # {})]

LiftSpread(s, i) ==
    LET w == i.to.w
        negative == ReadReg(s.regs, AtWidth(w).acc) \cap {w - 1} = {w - 1}
    IN  Put(s, AtWidth(w).dx, IF negative THEN Bits(w) ELSE {}, s.flags)

\* One operand: both halves of the product, but only the low one of a byte.
LiftMul(s, i) ==
    LET w == i.to.w
        o == AtWidth(w)
        a == ReadReg(s.regs, o.acc)
        b == ReadReg(s.regs, i.to)
        low == WriteReg(s.regs, o.acc, FoldBin("mul", a, b, w))
        high == FoldBin(IF i.op = "mul" THEN "mulhiu" ELSE "mulhis", a, b, w)
    IN  [s EXCEPT !.regs = IF w = Byte THEN low ELSE WriteReg(low, o.dx, high), !.flags = ClobberArithFlags(@)]

LiftImul(s, i) ==
    LET a == ReadReg(s.regs, IF i.op = "imul3" THEN i.first ELSE i.to)
        r == FoldBin("mul", a, Source(s.regs, i), i.to.w)
    IN  Put(s, i.to, r, ClobberCfOf(ZeroSignParity(s.flags, r, i.to.w)))

\* The dividend is twice as wide, but that of a byte is a byte and that of a word has no room.
Double(w) == IF w \in {Byte, Word} THEN w ELSE 2 * w

Dividend(s, w) ==
    LET lo == ReadReg(s.regs, AtWidth(w).acc)
        hi == ReadReg(s.regs, AtWidth(w).dx)
    IN  IF w = Byte THEN lo ELSE FoldBin("shl", hi, BitsOf(w, Word), Double(w)) \cup lo

LiftDiv(s, i) ==
    LET w == i.to.w
        o == AtWidth(w)
        d == Dividend(s, w)
        b == ReadReg(s.regs, i.to)
        q == FoldBin(IF i.op = "div" THEN "udiv" ELSE "sdiv", d, b, Double(w)) \cap Bits(w)
        r == FoldBin(IF i.op = "div" THEN "urem" ELSE "srem", d, b, Double(w)) \cap Bits(w)
        ax == [reg |-> Acc, at |-> 0, w |-> Half]
    IN  [s EXCEPT !.regs = IF w = Byte THEN WriteReg(@, ax, q \cup Up(r, Byte))
                           ELSE WriteReg(WriteReg(@, o.acc, q), o.dx, r),
                  !.flags = ClobberArithFlags(@)]

LiftMove(s, i) ==
    LET v == ReadReg(s.regs, i.from)
    IN  Put(s, i.to, IF i.op = "movsx" THEN SignExtend(v, i.from.w, i.to.w) ELSE v, s.flags)

LiftXchg(s, i) ==
    LET a == ReadReg(s.regs, i.to)
        b == ReadReg(s.regs, i.from)
    IN  [s EXCEPT !.regs = WriteReg(WriteReg(s.regs, i.to, b), i.from, a)]

LiftCmov(s, i) ==
    Put(s, i.to, ReadReg(s.regs, IF Condition(s.flags, i.cc) THEN i.from ELSE i.to), s.flags)

LiftSet(s, i) == Put(s, i.to, Truth(Condition(s.flags, i.cc)), s.flags)

\* Both operands are always written, the accumulator last.
LiftCmpxchg(s, i) ==
    LET w == i.to.w
        acc == ReadReg(s.regs, AtWidth(w).acc)
        dst == ReadReg(s.regs, i.to)
        equal == FoldBin("eq", acc, dst, w) # {}
        r == FoldBin("sub", acc, dst, w)
        done == WriteReg(s.regs, i.to, IF equal THEN ReadReg(s.regs, i.from) ELSE dst)
    IN  [s EXCEPT !.regs = WriteReg(done, AtWidth(w).acc, IF equal THEN acc ELSE dst),
                  !.flags = SubFlags(@, acc, dst, r, w)]

PackFlags(f) == {1} \cup UNION {Up({0} \cap Truth(f[x] = TRUE), Position[x]) : x \in DOMAIN f}
UnpackFlags(v) == [x \in DOMAIN Position |-> Down(v, Position[x]) \cap {0} # {}]

LiftStack(s, i) ==
    CASE i.op = "push"  -> [s EXCEPT !.stack = <<SignExtend(Plain(s.regs, i), i.from.w, Word)>> \o @]
      [] i.op = "pushf" -> [s EXCEPT !.stack = <<PackFlags(s.flags)>> \o @]
      [] i.op = "pop"   -> [s EXCEPT !.regs = WriteReg(@, i.to, Head(s.stack)), !.stack = Tail(@)]
      [] i.op = "popf"  -> [s EXCEPT !.flags = UnpackFlags(Head(s.stack)), !.stack = Tail(@)]

Lift(s, i) ==
    CASE i.op \in {"add", "adc"} -> LiftAdd(s, i, i.op = "adc")
      [] i.op \in {"sub", "sbb"} -> LiftSub(s, i, i.op = "sbb")
      [] i.op = "cmp" -> LiftCmp(s, i)
      [] i.op \in {"and", "or", "xor"} -> LiftLogic(s, i)
      [] i.op = "test" -> LiftTest(s, i)
      [] i.op = "not" -> LiftNot(s, i)
      [] i.op = "neg" -> LiftNeg(s, i)
      [] i.op \in {"inc", "dec"} -> LiftStep(s, i)
      [] i.op \in Shifts -> LiftShift(s, i)
      [] i.op = "bt" -> LiftBitTest(s, i)
      [] i.op = "cdq" -> LiftSpread(s, i)
      [] i.op \in {"mul", "imul1"} -> LiftMul(s, i)
      [] i.op \in {"imul", "imul3"} -> LiftImul(s, i)
      [] i.op \in {"div", "idiv"} -> LiftDiv(s, i)
      [] i.op \in {"mov", "movzx", "movsx"} -> LiftMove(s, i)
      [] i.op = "xchg" -> LiftXchg(s, i)
      [] i.op = "cmpxchg" -> LiftCmpxchg(s, i)
      [] i.op = "cmov" -> LiftCmov(s, i)
      [] i.op = "set" -> LiftSet(s, i)
      [] i.op \in {"push", "pushf", "pop", "popf"} -> LiftStack(s, i)

-----------------------------------------------------------------------------
(* Where the evaluator is known to differ, of itself. *)
Approximated(s, i) ==
    LET w == i.to.w
        see(o) == Seen(s.regs, o)
        ax == see(AtWidth(Half).acc)
    IN  {which \in {"carry", "byte product", "byte dividend", "signed divisor", "word dividend", "far bit", "kept half"} :
            CASE which = "carry" -> i.op \in {"adc", "sbb"} /\ s.flags["cf"] /\ Bits(Nibble) \subseteq Given(s.regs, i)
              [] which = "byte product" -> i.op \in {"mul", "imul1"} /\ w = Byte
              [] which = "byte dividend" -> w = Byte /\ i.op \in {"div", "idiv"} /\
                     ax # IF i.op = "div" THEN ax \cap Bits(Byte) ELSE SignExtend(ax \cap Bits(Byte), Byte, Half)
              [] which = "signed divisor" -> i.op = "idiv" /\ w \in {Half, Long} /\ w - 1 \in see(i.to)
              [] which = "word dividend" -> i.op = "idiv" /\ w = Word /\ w - 1 \in see(AtWidth(w).acc)
              [] which = "far bit" -> i.op = "bt" /\ Num(Taking(s.regs, i)) % Long >= w
              [] which = "kept half" -> i.op = "cmpxchg" /\ w = Long /\ see(AtWidth(w).acc) = see(i.to)
                                                         /\ ~(s.regs[Acc] \subseteq Bits(Long))}

\* A shift by nothing, or a rotation, leaves zf, sf and pf to the processor but not to the evaluator.
Loosens(s, i) == i.op \in Shifts /\ ~ ("imm" \in DOMAIN i.from /\ i.from.imm = {})
                                 /\ (i.op \in {"rol", "ror"} \/ Count(s, i) = 0)

Settles(i) == i.op \in Sums \cup Differences \cup Logic \cup {"cmpxchg", "mul", "imul1", "div", "idiv", "popf"}

\* Flags both sides hold a value of.
Settled(f) == lifted.flags[f] # Unknown /\ machine.flags[f] # Unknown

-----------------------------------------------------------------------------
\* The flags a program starts with are unknown to the evaluator, but for the direction flag.
Init ==
    /\ program \in Programs
    /\ \E regs \in Starts :
          /\ lifted = [regs |-> regs, flags |-> [x \in DOMAIN Position |-> IF x = "df" THEN FALSE ELSE Unknown], stack |-> <<>>]
          /\ machine = [lifted EXCEPT !.flags = [x \in DOMAIN Position |-> FALSE]]
    /\ loose = FALSE
    /\ steps = 0

\* The flags an instruction reads.
Reads(i) == CASE i.op \in {"cmov", "set"} -> Tests(i.cc)
              [] i.op \in {"adc", "sbb"} -> {"cf"}
              [] i.op = "pushf" -> DOMAIN Position
              [] OTHER -> {}

Step(i) ==
    /\ steps < program.depth
    /\ \A f \in Reads(i) : Settled(f)
    /\ loose => ~ \E f \in Reads(i) : f \in {"zf", "sf", "pf"}
    /\ i.op \in {"div", "idiv"} => Divides(machine, i)
    /\ i.op \in {"pop", "popf"} => machine.stack # <<>>
    /\ Approximated(machine, i) \subseteq Allowed
    /\ lifted' = Lift(lifted, i)
    /\ machine' = Execute(machine, i)
    /\ loose' = (Loosens(machine, i) \/ (loose /\ ~Settles(i)))
    /\ steps' = steps + 1
    /\ UNCHANGED program

Next == \E i \in program.code : Step(i)

Spec == Init /\ [][Next]_vars

-----------------------------------------------------------------------------
(* Every register, and every word pushed, has in the evaluator the value   *)
(* the processor gives it: partial writes, products, quotients, what       *)
(* conditions choose and the flags that popf takes and pushf gives back.   *)
RegistersAgree == lifted.regs = machine.regs /\ lifted.stack = machine.stack

(* A flag the evaluator holds a value for has that value whenever the      *)
(* processor defines it, so a branch that folds goes where the guest does. *)
FlagsAgree ==
    \A f \in DOMAIN Position : Settled(f) /\ ~(loose /\ f \in {"zf", "sf", "pf"}) => lifted.flags[f] = machine.flags[f]
===============================================================================
