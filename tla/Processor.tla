------------------------------- MODULE Processor ------------------------------
(***************************************************************************)
(* What an x86 processor does on the integer instructions of ir/lift.rs:   *)
(* the reference for Alu.  It is not in the repository.  Numbers, not      *)
(* bits: a flag is defined by the exact sum, difference or product.        *)
(***************************************************************************)
EXTENDS Expr

CONSTANTS Half,        \* bits of a 16-bit register
          Nibble,      \* the bit AF is the carry into
          Acc, Dx,     \* the accumulator and the register of its other half
          Unknown      \* a flag left undefined

ASSUME DoubleAssumption == Half = 2 * Byte /\ Long = 2 * Half /\ Word = 2 * Long /\ Nibble < Byte

Flags == {"cf", "pf", "af", "zf", "sf", "of"}

\* Where they are in the flags register, with the direction flag; bit 1 is always set.
Position == [cf |-> 0, pf |-> 2, af |-> 4, zf |-> 6, sf |-> 7, df |-> 10, of |-> 11]

\* Operands: w bits of a register from bit `at` on.
AtWidth(w) == [acc |-> [reg |-> Acc, at |-> 0, w |-> w], dx |-> [reg |-> Dx, at |-> 0, w |-> w]]

Seen(regs, o) == {i \in Bits(o.w) : i + o.at \in regs[o.reg]}

\* A bit of a register is written, cleared by a 32-bit write, or kept.
Latched(regs, o, v) ==
    [regs EXCEPT ![o.reg] = {i \in Bits(Word) : IF i - o.at \in Bits(o.w) THEN i - o.at \in v
                                                ELSE o.w # Long /\ i \in @}]

\* The second operand: of a register, or a constant extended by its sign.
Taking(regs, i) == IF "imm" \in DOMAIN i.from THEN i.from.imm ELSE Seen(regs, i.from)
Given(regs, i) == BitsOf(Signed(Taking(regs, i), i.from.w), i.to.w)

\* The flags a condition reads, and when it holds.
Positive(cc) == CASE cc = "no" -> "o" [] cc = "ae" -> "b" [] cc = "ne" -> "e" [] cc = "a" -> "be" [] cc = "ns" -> "s"
                  [] cc = "np" -> "p" [] cc = "ge" -> "l" [] cc = "g" -> "le" [] OTHER -> cc

Tests(cc) == CASE Positive(cc) = "o" -> {"of"} [] Positive(cc) = "b" -> {"cf"} [] Positive(cc) = "e" -> {"zf"}
               [] Positive(cc) = "be" -> {"cf", "zf"} [] Positive(cc) = "s" -> {"sf"} [] Positive(cc) = "p" -> {"pf"}
               [] Positive(cc) = "l" -> {"sf", "of"} [] Positive(cc) = "le" -> {"sf", "of", "zf"}

Holds(f, cc) ==
    CASE cc = "o" -> f["of"] [] cc = "no" -> ~f["of"] [] cc = "b" -> f["cf"] [] cc = "ae" -> ~f["cf"]
      [] cc = "e" -> f["zf"] [] cc = "ne" -> ~f["zf"] [] cc = "be" -> f["cf"] \/ f["zf"] [] cc = "a" -> ~f["cf"] /\ ~f["zf"]
      [] cc = "s" -> f["sf"] [] cc = "ns" -> ~f["sf"] [] cc = "p" -> f["pf"] [] cc = "np" -> ~f["pf"]
      [] cc = "l" -> f["sf"] # f["of"] [] cc = "ge" -> f["sf"] = f["of"]
      [] cc = "le" -> f["zf"] \/ f["sf"] # f["of"] [] cc = "g" -> ~f["zf"] /\ f["sf"] = f["of"]

Undefined(f, which) == [x \in DOMAIN f |-> IF x \in which THEN Unknown ELSE f[x]]

OfResult(f, r, w) ==
    [f EXCEPT !["zf"] = (Num(r) = 0), !["sf"] = (Signed(r, w) < 0), !["pf"] = (Cardinality(r \cap Bits(Byte)) \in {0, 2, 4, 6, 8})]

InRange(n, w) == -(2^(w - 1)) <= n /\ n < 2^(w - 1)
Low(x) == Num(x \cap Bits(Nibble))

Taken(i, f) == CASE i.op \in {"adc", "sbb"} -> IF f["cf"] THEN 1 ELSE 0 [] i.op \in {"inc", "dec"} -> 1 [] OTHER -> 0

Added(f, a, b, c, r, w) ==
    [OfResult(f, r, w) EXCEPT !["cf"] = (Num(a) + Num(b) + c >= 2^w), !["of"] = ~InRange(Signed(a, w) + Signed(b, w) + c, w),
                              !["af"] = (Low(a) + Low(b) + c >= 2^Nibble)]

Subtracted(f, a, b, c, r, w) ==
    [OfResult(f, r, w) EXCEPT !["cf"] = (Num(a) < Num(b) + c), !["of"] = ~InRange(Signed(a, w) - Signed(b, w) - c, w),
                              !["af"] = (Low(a) < Low(b) + c)]

Sums == {"add", "adc", "inc"}
Differences == {"sub", "sbb", "cmp", "dec", "neg"}
Logic == {"and", "or", "xor", "test"}
Shifts == {"shl", "shr", "sar", "rol", "ror"}

\* add, sub and their relatives; cmp writes no register, inc and dec no carry.
Arithmetic(s, i) ==
    LET w == i.to.w
        a == IF i.op = "neg" THEN {} ELSE Seen(s.regs, i.to)
        b == IF i.op = "neg" THEN Seen(s.regs, i.to) ELSE IF i.op \in {"inc", "dec"} THEN {} ELSE Given(s.regs, i)
        c == Taken(i, s.flags)
        r == BitsOf(IF i.op \in Sums THEN Num(a) + Num(b) + c ELSE Num(a) - Num(b) - c, w)
        f == IF i.op \in Sums THEN Added(s.flags, a, b, c, r, w) ELSE Subtracted(s.flags, a, b, c, r, w)
    IN  [s EXCEPT !.regs = IF i.op = "cmp" THEN s.regs ELSE Latched(s.regs, i.to, r),
         !.flags = IF i.op \in {"inc", "dec"} THEN [f EXCEPT !["cf"] = s.flags["cf"]] ELSE f]

Bitwise(s, i) ==
    LET a == Seen(s.regs, i.to)
        b == Given(s.regs, i)
        r == CASE i.op = "or" -> a \cup b [] i.op = "xor" -> (a \cup b) \ (a \cap b) [] OTHER -> a \cap b
        f == [OfResult(s.flags, r, i.to.w) EXCEPT !["cf"] = FALSE, !["of"] = FALSE, !["af"] = Unknown]
    IN  [s EXCEPT !.regs = IF i.op = "test" THEN s.regs ELSE Latched(s.regs, i.to, r), !.flags = f]

\* The count a shift sees: 6 bits of it for a word, 5 for anything less.
Count(s, i) == Num(Taking(s.regs, i)) % (IF i.to.w = Word THEN Word ELSE Long)

\* A count of zero leaves the flags, and a rotation all but the carry and overflow.
ShiftBy(s, i) ==
    LET w == i.to.w
        a == Seen(s.regs, i.to)
        c == Count(s, i)
        turn == c % w
        r == CASE i.op = "shl" -> {k \in Bits(w) : k - c \in a}
               [] i.op = "shr" -> {k \in Bits(w) : k + c \in a}
               [] i.op = "sar" -> {k \in Bits(w) : (IF k + c < w THEN k + c ELSE w - 1) \in a}
               [] i.op = "rol" -> {k \in Bits(w) : (k + w - turn) % w \in a}
               [] i.op = "ror" -> {k \in Bits(w) : (k + turn) % w \in a}
        f == IF i.op \in {"rol", "ror"} THEN Undefined(s.flags, {"cf", "of"})
             ELSE Undefined(OfResult(s.flags, r, w), {"cf", "of", "af"})
    IN  [s EXCEPT !.regs = Latched(s.regs, i.to, r), !.flags = IF c = 0 THEN s.flags ELSE f]

BitTest(s, i) ==
    [s EXCEPT !.flags = [Undefined(@, {"of", "sf", "af", "pf"}) EXCEPT
                            !["cf"] = (Num(Taking(s.regs, i)) % i.to.w) \in Seen(s.regs, i.to)]]

\* A product is twice as wide; that of bytes is in the accumulator.
Multiply(s, i) ==
    LET w == i.to.w
        o == AtWidth(w)
        a == Seen(s.regs, o.acc)
        b == Seen(s.regs, i.to)
        n == IF i.op = "mul" THEN Num(a) * Num(b) ELSE Signed(a, w) * Signed(b, w)
    IN  [s EXCEPT !.regs = IF w = Byte THEN Latched(s.regs, AtWidth(Half).acc, BitsOf(n, Half))
                  ELSE Latched(Latched(s.regs, o.acc, BitsOf(n, w)), o.dx, BitsOf(n \div 2^w, w)),
         !.flags = Undefined(s.flags, Flags)]

\* Two operands, or a third the product is of.
MultiplyInto(s, i) ==
    LET w == i.to.w
        a == Seen(s.regs, IF i.op = "imul3" THEN i.first ELSE i.to)
    IN  [s EXCEPT !.regs = Latched(s.regs, i.to, BitsOf(Num(a) * Num(Given(s.regs, i)), w)),
         !.flags = Undefined(s.flags, Flags)]

\* The dividend of a division: the accumulator and its other half, or both bytes of it.
Whole(s, w) ==
    IF w = Byte THEN Seen(s.regs, AtWidth(Half).acc)
    ELSE Seen(s.regs, AtWidth(w).acc) \cup {k + w : k \in Seen(s.regs, AtWidth(w).dx)}

\* Bits of a word and its double do not fit an integer: a word is divided when it is short.
Short(s, i) == Seen(s.regs, AtWidth(Word).dx) = {}

Quotient(s, i) ==
    LET w == i.to.w
        wide == IF w = Word THEN Word + 1 ELSE 2 * w
        bits == Whole(s, w)
        n == MapThenSumSet(LAMBDA k : 2^k, bits)
        d == Seen(s.regs, i.to)
        signed == IF wide - 1 \in bits THEN n - 2^wide ELSE n
    IN  IF i.op = "div" THEN [q |-> n \div Num(d), r |-> n % Num(d)]
        ELSE LET q == Truncated(signed, Signed(d, w)) IN [q |-> q, r |-> signed - q * Signed(d, w)]

\* A division that raises no fault.
Divides(s, i) ==
    /\ Seen(s.regs, i.to) # {}
    /\ i.to.w = Word => Short(s, i)
    /\ LET q == Quotient(s, i).q IN IF i.op = "div" THEN q < 2^i.to.w ELSE InRange(q, i.to.w)

Divide(s, i) ==
    LET w == i.to.w
        o == AtWidth(w)
        d == Quotient(s, i)
    IN  [s EXCEPT !.regs = IF w = Byte THEN Latched(s.regs, AtWidth(Half).acc, BitsOf(d.q, Byte) \cup {k + Byte : k \in BitsOf(d.r, Byte)})
                  ELSE Latched(Latched(s.regs, o.acc, BitsOf(d.q, w)), o.dx, BitsOf(d.r, w)),
         !.flags = Undefined(s.flags, Flags)]

Move(s, i) ==
    LET v == Seen(s.regs, i.from)
    IN  [s EXCEPT !.regs = Latched(@, i.to, CASE i.op = "movsx" -> BitsOf(Signed(v, i.from.w), i.to.w)
                                              [] i.op = "cmov" -> IF Holds(s.flags, i.cc) THEN v ELSE Seen(s.regs, i.to)
                                              [] OTHER -> v)]

Exchange(s, i) == [s EXCEPT !.regs = Latched(Latched(@, i.to, Seen(@, i.from)), i.from, Seen(@, i.to))]

\* The accumulator is compared: equal, the operand takes the source; else it takes the operand,
\* which is written back.
CompareExchange(s, i) ==
    LET w == i.to.w
        a == Seen(s.regs, AtWidth(w).acc)
        d == Seen(s.regs, i.to)
        r == BitsOf(Num(a) - Num(d), w)
        x == IF a = d THEN Seen(s.regs, i.from) ELSE d
        kept == Latched(s.regs, i.to, x)
    IN  [s EXCEPT !.regs = IF a = d THEN kept ELSE Latched(kept, AtWidth(w).acc, d),
         !.flags = Subtracted(s.flags, a, d, 0, r, w)]

Packed(f) == {1} \cup {Position[x] : x \in {x \in DOMAIN f : f[x] = TRUE}}
Unpacked(v) == [x \in DOMAIN Position |-> Position[x] \in v]

Stack(s, i) ==
    CASE i.op = "push" -> [s EXCEPT !.stack = <<Given(s.regs, i)>> \o @]
      [] i.op = "pushf" -> [s EXCEPT !.stack = <<Packed(s.flags)>> \o @]
      [] i.op = "pop" -> [s EXCEPT !.regs = Latched(@, i.to, Head(s.stack)), !.stack = Tail(@)]
      [] i.op = "popf" -> [s EXCEPT !.flags = Unpacked(Head(s.stack)), !.stack = Tail(@)]

Execute(s, i) ==
    CASE i.op \in Sums \cup Differences -> Arithmetic(s, i)
      [] i.op \in Logic -> Bitwise(s, i)
      [] i.op = "not" -> [s EXCEPT !.regs = Latched(@, i.to, Bits(i.to.w) \ Seen(@, i.to))]
      [] i.op \in Shifts -> ShiftBy(s, i)
      [] i.op = "bt" -> BitTest(s, i)
      [] i.op = "cdq" -> [s EXCEPT !.regs = Latched(@, AtWidth(i.to.w).dx,
                                                    IF i.to.w - 1 \in Seen(@, AtWidth(i.to.w).acc) THEN Bits(i.to.w) ELSE {})]
      [] i.op \in {"mul", "imul1"} -> Multiply(s, i)
      [] i.op \in {"imul", "imul3"} -> MultiplyInto(s, i)
      [] i.op \in {"div", "idiv"} -> Divide(s, i)
      [] i.op \in {"mov", "movzx", "movsx", "cmov"} -> Move(s, i)
      [] i.op = "xchg" -> Exchange(s, i)
      [] i.op = "cmpxchg" -> CompareExchange(s, i)
      [] i.op \in {"push", "pop", "pushf", "popf"} -> Stack(s, i)
      [] i.op = "set" -> [s EXCEPT !.regs = Latched(@, i.to, Truth(Holds(s.flags, i.cc)))]
===============================================================================
