-------------------------------- MODULE MCAlu ---------------------------------
(***************************************************************************)
(* Alu with bytes of 2 bits, so registers of 16; AF is the carry into bit  *)
(* 1.  Counts are given at half width, which holds every count; products   *)
(* and divisions of words stay below what an integer of TLC holds.         *)
(***************************************************************************)
EXTENDS Alu, TLC

In(r, w) == [reg |-> r, at |-> 0, w |-> w]
High(r) == [reg |-> r, at |-> Byte, w |-> Byte]
Imm(n, w) == [imm |-> BitsOf(n, w), w |-> w]

Op(op, to, from) == [op |-> op, to |-> to, from |-> from]
On(op, to) == Op(op, to, to)

\* Pairs of operands of one width: registers, parts of one register, constants.
Pairs ==
    UNION {{<<In("a", w), In("c", w)>>, <<In("a", w), Imm(-1, w)>>} : w \in {Byte, Half, Long, Word}}
    \cup {<<In("a", Byte), High("a")>>, <<High("a"), In("c", Byte)>>, <<In("a", Long), Imm(1, Byte)>>}

Two == {"add", "adc", "sub", "sbb", "cmp", "and", "xor", "or", "test"}

Plainly ==
    {Op(op, p[1], p[2]) : op \in Two, p \in Pairs}
    \cup {On(op, o) : op \in {"inc", "dec", "neg", "not"}, o \in {In("a", Half), High("a"), In("a", Word)}}

Shifting ==
    {Op(op, In("a", w), from) : op \in Shifts, w \in {Half, Long, Word}, from \in {In("c", Half), Imm(9, Half), Imm(0, Half)}}
    \cup {Op("shr", High("a"), Imm(1, Half)), Op("rol", In("a", Byte), Imm(3, Half))}
    \cup UNION {{Op("bt", In("a", w), In("c", w)), Op("bt", In("a", w), Imm(3, Byte))} : w \in {Half, Long}}

Multiplying ==
    {On("cdq", In("a", w)) : w \in {Half, Long, Word}}
    \cup {On(op, In("c", w)) : op \in {"mul", "imul1", "div", "idiv"}, w \in {Byte, Half, Long}}
    \cup {On("div", In("c", Word)), On("idiv", In("c", Word))}
    \cup {Op("imul", In("a", w), In("c", w)) : w \in {Half, Long}}
    \cup {Op("imul3", In("a", Long), Imm(-2, Byte)) @@ [first |-> In("c", Long)]}

Moving ==
    {Op("mov", In("a", w), In("d", w)) : w \in {Byte, Long}} \cup {Op("mov", High("c"), In("d", Byte))}
    \cup {Op("movzx", In("c", Long), High("a")), Op("movsx", In("c", Word), In("a", Long)), Op("movsx", In("d", Half), High("c"))}
    \cup {Op("xchg", In("a", Long), In("d", Long)), Op("xchg", High("a"), In("a", Byte))}
    \cup {Op("cmpxchg", In("c", w), In("d", w)) : w \in {Byte, Long, Word}}

Choosing ==
    {Op(op, to, In("c", to.w)) @@ [cc |-> cc] : op \in {"cmov"}, to \in {In("a", Long)}, cc \in {"a", "le", "np", "o", "b", "ne"}}
    \cup {On("set", High("a")) @@ [cc |-> cc] : cc \in {"no", "g", "s", "ae", "e", "be", "ns", "p", "l", "ge"}}

Stacking == {On(op, In("a", Word)) : op \in {"push", "pop", "pushf", "popf"}}

Each == Plainly \cup Shifting \cup Multiplying \cup Moving \cup Choosing \cup Stacking

\* Flags set, kept, pushed, popped and read.
FlagChains ==
    Choosing \cup Stacking \cup {Op("sub", In("a", w), In("c", w)) : w \in {Byte, Long}} \cup {Op("adc", In("c", Half), In("a", Half))}
    \cup {On("inc", High("a")), Op("shl", In("a", Half), In("d", Half)), Op("test", In("a", Long), In("a", Long))}

Every == {[code |-> Each, depth |-> 2], [code |-> FlagChains, depth |-> 4]}

\* Values of a, c and d: small, signed, at the ends of a width, and mixed.
Start(a, c, d) == [r \in {"a", "c", "d"} |-> BitsOf(CASE r = "a" -> a [] r = "c" -> c [] r = "d" -> d, Word)]
Several == {Start(5, 3, 0), Start(65535, 1, 2), Start(127, 128, 1), Start(32768, 32768, 9), Start(40058, 243, 65535),
            Start(21930, 10, 0)}

\* Additions with carry.
CarryCode == {Op(op, In("a", w), In("c", w)) : op \in {"add", "adc"}, w \in {Byte, Half}} \cup {On("not", In("c", Half))}
Carrying == {[code |-> CarryCode, depth |-> 3]}
===============================================================================
