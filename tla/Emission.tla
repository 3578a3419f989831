------------------------------- MODULE Emission -------------------------------
(***************************************************************************)
(* codegen/emit.rs, `emit_instr`: the machine code of one computing        *)
(* instruction, run as it is emitted.                                      *)
(*                                                                         *)
(* The operands, and the place of the result, are where the allocator put  *)
(* them: registers, spill slots, or constants in one of three shapes.  x86 *)
(* wants registers where there may be none and names some of them itself,  *)
(* so the emitter borrows: a volatile register that holds nothing, or one  *)
(* it parks in the frame.                                                  *)
(*                                                                         *)
(* A place holds a value and how many of its low bytes are valid.  Values  *)
(* are named by the operand, or are terms over such names.                 *)
(***************************************************************************)
EXTENDS Integers, SequencesExt

CONSTANTS Volatiles,  \* VOLATILE, in its order: rax, rcx, rdx, r10 and r11 are used by name
          Preserved   \* the other allocatable registers

Registers == ToSet(Volatiles) \cup Preserved
Operands == {"a", "b", "c"}

VARIABLES instr,    \* kind, operation, width of result and operands, operands read
          home,     \* operand or result -> its place, or the shape of a constant
          live,     \* registers that hold other values needed later
          memory,   \* what was stored
          contents,  \* contents of registers, spill slots and the frame's scratch slots
          phase

emitVars == <<instr, home, live, memory, contents, phase>>

Slot(o) == CASE o = "a" -> "slot_a" [] o = "b" -> "slot_b" [] o = "c" -> "slot_c" [] o = "d" -> "slot_d"
Slots == {Slot(o) : o \in Operands \cup {"d"}}
Parks == {"park0", "park1", "park2", "park3"}
Places == Registers \cup Slots \cup Parks

\* A constant: one the instruction can encode, one wider than 32 bits, a stack address.
Shapes == {"near", "far", "frame"}

ASSUME RegisterAssumption == /\ Volatiles \in Seq(Registers)
                             /\ {"rax", "rcx", "rdx", "r10", "r11"} \subseteq ToSet(Volatiles)
                             /\ Registers \cap (Slots \cup Parks \cup Shapes) = {}

Value(o) == <<o>>
Junk == <<"junk">>
Cell(v, n) == [v |-> v, n |-> n]

-----------------------------------------------------------------------------
(* Instructions and where the allocator puts what they read. *)

Width == {1, 4, 8}

\* `mul` stands for and, or and xor too, `shl` for shifts and rotates, `ult` for
\* comparisons, `div` and `rem` for what is done in rdx:rax.
Bins == {[kind |-> "bin", op |-> op, w |-> w, from |-> w, reads |-> r] :
            op \in {"add", "mul", "sub", "shl", "ult", "div", "rem"}, w \in Width, r \in {<<"a", "b">>, <<"a", "a">>}}
Uns == {[kind |-> "un", op |-> "not", w |-> w, from |-> w, reads |-> <<"a">>] : w \in Width}
Casts == {c \in {[kind |-> "cast", op |-> op, w |-> w, from |-> f, reads |-> <<"a">>] :
                    op \in {"extend", "trunc"}, w \in Width, f \in Width} :
            IF c.op = "trunc" THEN c.w < c.from ELSE c.from < c.w}
SelectInstrs == {[kind |-> "select", op |-> "select", w |-> w, from |-> w, reads |-> <<"a", "b", "c">>] : w \in {4, 8}}
Loads == {[kind |-> "load", op |-> "load", w |-> w, from |-> 8, reads |-> <<"a">>] : w \in Width}
Stores == {[kind |-> "store", op |-> "store", w |-> w, from |-> 8, reads |-> <<"a", "b">>] : w \in {4, 8}}

Instr == Bins \cup Uns \cup Casts \cup SelectInstrs \cup Loads \cup Stores

Reads(i) == ToSet(i.reads)
Writes(i) == IF i.kind = "store" THEN {} ELSE {"d"}

\* The width an operand has: conditions are bytes, addresses are whole.
WidthOf(i, o) == CASE o = "c" -> 1
                   [] i.kind = "store" -> IF o = "a" THEN 8 ELSE i.w
                   [] OTHER -> i.from

\* Constants are folded into unary operations, conditions and each other before.
ShapesOf(i, o) == CASE o = "c" \/ i.kind = "un" \/ i.op = "extend" -> {}
                    [] i.kind = "cast" -> {"frame"}
                    [] WidthOf(i, o) < 8 -> {"near"}
                    [] OTHER -> Shapes

\* A result may take the register of its first operand if that is not read again.
HandsOver(i) == i.kind \in {"bin", "un"} \/ i.op = "trunc"

IsHome(i, h) ==
    /\ \A o \in Reads(i) : h[o] \in Registers \cup {Slot(o)} \cup ShapesOf(i, o)
    /\ \A o \in Writes(i) : h[o] \in Registers \cup {Slot(o)}
    /\ \A o, p \in DOMAIN h : o # p /\ h[o] = h[p] => \/ h[o] \in Shapes
                                                      \/ HandsOver(i) /\ {o, p} = {"a", "d"}
    /\ i.kind = "bin" => \E o \in Reads(i) : h[o] \notin Shapes

EmitInit ==
    /\ instr \in Instr
    /\ home \in [Reads(instr) \cup Writes(instr) -> Registers \cup Slots \cup Shapes]
    /\ IsHome(instr, home)
    /\ live \in SUBSET (ToSet(Volatiles) \ {home[o] : o \in DOMAIN home})
    /\ memory = <<>>
    /\ contents = [p \in Places |->
                    IF \E o \in Reads(instr) : home[o] = p
                    THEN LET o == CHOOSE x \in Reads(instr) : home[x] = p IN Cell(Value(o), WidthOf(instr, o))
                    ELSE Cell(IF p \in live THEN Value(p) ELSE Junk, 8)]
    /\ phase = "emit"

-----------------------------------------------------------------------------
(* Single machine instructions. *)

LowBytes(cell, w) == IF cell.n < w THEN cell ELSE Cell(cell.v, w)
Mov(m, to, from, w) == [m EXCEPT ![to] = LowBytes(m[from], w)]
Xchg(m, p, q) == [m EXCEPT ![p] = m[q], ![q] = m[p]]
Set(m, p, v, w) == [m EXCEPT ![p] = Cell(v, w)]
Get(m, p, w) == IF m[p].n >= w THEN m[p].v ELSE Junk

-----------------------------------------------------------------------------
(* Operands and borrowed registers. *)

InRegister(o) == home[o] \in Registers
InSlot(o) == home[o] \in Slots
Constant(o) == home[o] \in Shapes

\* `free_volatile_at`: what dies in this instruction, and its result, count as busy.
Busy == live \cup {home[o] : o \in DOMAIN home}
Free(avoid) == ToSet(Volatiles) \ (Busy \cup avoid)

\* Of some registers, the first in the allocator's order.
FirstOf(regs) == Volatiles[CHOOSE i \in DOMAIN Volatiles : /\ Volatiles[i] \in regs
                                                          /\ \A j \in 1..(i - 1) : Volatiles[j] \notin regs]

FreeOr(avoid, other) == IF Free(avoid) = {} THEN other ELSE FirstOf(Free(avoid))

\* What is borrowed when none is free.
FirstBut(avoid) == FirstOf(ToSet(Volatiles) \ avoid)

\* An operand's value into r, by a move, a load or as a constant.
Fetch(m, o, r, w) == IF Constant(o) THEN Set(m, r, Value(o), w) ELSE Mov(m, r, home[o], w)

\* `ensure_reg`: where the operand is, with r to load it into if it is in no register.
RegOf(o, r) == IF InRegister(o) THEN home[o] ELSE r
EnsureReg(m, o, w, r) == IF InRegister(o) THEN m ELSE Fetch(m, o, r, w)

FirstInto(m, o, r, w) == IF home[o] = r THEN m ELSE Fetch(m, o, r, w)

\* `with_spilled_dst`: a result without a register is computed in a borrowed one.
Dest == IF InRegister("d") THEN home["d"] ELSE FreeOr({}, "rax")
ParksDest == InSlot("d") /\ Free({}) = {}
Opened(m) == IF ParksDest THEN Mov(m, "park0", Dest, 8) ELSE m
Closed(m, w) ==
    LET stored == IF InSlot("d") THEN Mov(m, home["d"], Dest, w) ELSE m
    IN  IF ParksDest THEN Mov(stored, Dest, "park0", 8) ELSE stored

-----------------------------------------------------------------------------
(* `emit_bin_into` *)

\* `emit_shift_by_reg`: the count is in rcx, or comes there by an exchange that is
\* undone; if it is the value as well, by a copy.
ShiftByReg(m, r, count, w) ==
    LET Shifted(n, p) == Set(n, p, <<"shl", Get(n, p, w), Get(n, "rcx", 1)>>, w)
        kept == FreeOr({r}, "none") # "rcx"
        target == IF r = "rcx" THEN count ELSE r
    IN  IF count = "rcx" THEN Shifted(m, r)
        ELSE IF count # r THEN Xchg(Shifted(Xchg(m, "rcx", count), target), "rcx", count)
        ELSE LET parked == IF kept THEN Mov(m, "park1", "rcx", 8) ELSE m
                 done == Shifted(Mov(parked, "rcx", count, 8), r)
             IN  IF kept THEN Mov(done, "rcx", "park1", 8) ELSE done

\* `emit_rdx_rax_op`: rax, rdx and a holder for the second operand are parked, and
\* restored unless the result is there.
HolderFor(o) == FirstBut({"rax", "rdx", home[o]})

DividesInto(m, r, a, b, op, w) ==
    LET hold == HolderFor(a)
        parked == Mov(Mov(Mov(m, "park1", "rax", 8), "park2", "rdx", 8), "park3", hold, 8)
        held == IF InRegister(b) THEN Mov(parked, hold, home[b], 8) ELSE Fetch(parked, b, hold, w)
        low == FirstInto(held, a, "rax", w)
        high == IF w = 1 THEN low ELSE Set(low, "rdx", <<"high">>, 8)
        value == IF w = 1 \/ high["rdx"].v = <<"high">>
                 THEN <<op, Get(high, "rax", w), Get(high, hold, w)>> ELSE Junk
        answer == IF op = "div" \/ w = 1 THEN "rax" ELSE "rdx"
        divided == Set(Set(Set(high, "rax", Junk, 8), "rdx", IF w = 1 THEN high["rdx"].v ELSE Junk, 8), answer, value, w)
        moved == IF r = answer THEN divided ELSE Mov(divided, r, answer, 8)
        Restored(n, p, park) == IF r = p THEN n ELSE Mov(n, p, park, 8)
    IN  Restored(Restored(Restored(moved, "rax", "park1"), "rdx", "park2"), hold, "park3")

\* The constant goes into the result's register, and the operand in a register is applied to it.
ConstantFirst(r, a, b, op, w) ==
    w = 8 /\ op \in {"add", "mul"} /\ home[b] \in {"far", "frame"} /\ InRegister(a) /\ home[a] # r

\* Which constants the instruction itself can hold.
Encodes(op, b, w) == \/ home[b] = "near" /\ (w = 1 => op \notin {"add", "sub"})
                     \/ home[b] = "far" /\ op = "shl"

ResultWidth(op, w) == IF op = "ult" THEN 1 ELSE w

\* The second operand would be overwritten when the first is moved into r.
InTheWay(r, a, b) == home[b] = r /\ home[a] # r

\* Mutation: a register is borrowed although it holds the first operand.
AvoidResult(r, a) == {r}

AvoidFor(r, a) == {r} \cup ({home[a]} \cap Registers)
ScratchFor(r, a) == FreeOr(AvoidFor(r, a), IF r # "rax" THEN "rax" ELSE "rcx")

AluInto(m, r, a, b, op, w) ==
    LET avoid == AvoidFor(r, a)
        away == InTheWay(r, a, b)
        borrows == away /\ Free(avoid) = {}
        tmp == FreeOr(avoid, FirstBut(avoid))
        parked == IF borrows THEN Mov(m, "park1", tmp, 8) ELSE m
        moved == IF away THEN Mov(parked, tmp, r, 8) ELSE parked
        first == FirstInto(moved, a, r, w)
        second == IF away THEN tmp ELSE RegOf(b, ScratchFor(r, a))
        both == IF away THEN first ELSE EnsureReg(first, b, w, ScratchFor(r, a))
        done == IF Encodes(op, b, w) THEN Set(first, r, <<op, Get(first, r, w), Value(b)>>, ResultWidth(op, w))
                ELSE IF op = "shl" THEN ShiftByReg(both, r, second, w)
                ELSE Set(both, r, <<op, Get(both, r, w), Get(both, second, w)>>, ResultWidth(op, w))
    IN  IF borrows THEN Mov(done, tmp, "park1", 8) ELSE done

ConstantFirstInto(m, r, a, b, op) ==
    LET constant == Fetch(m, b, r, 8)
    IN  Set(constant, r, <<op, Get(constant, home[a], 8), Get(constant, r, 8)>>, 8)

BinInto(m, r, a, b, op, w) ==
    IF op \in {"div", "rem"} THEN DividesInto(m, r, a, b, op, w)
    ELSE IF ConstantFirst(r, a, b, op, w) THEN ConstantFirstInto(m, r, a, b, op)
    ELSE AluInto(m, r, a, b, op, w)

-----------------------------------------------------------------------------
(* The others. *)

UnInto(m, r) ==
    LET first == FirstInto(m, "a", r, instr.w)
    IN  Set(first, r, <<instr.op, Get(first, r, instr.w), <<>>>>, instr.w)

\* `emit_cast`: widening reads the operand where it is; narrowing is a move, or nothing.
CastInto(m, r) ==
    LET loaded == IF InRegister("a") THEN m ELSE Fetch(m, "a", r, instr.from)
        from == RegOf("a", r)
    IN  IF instr.op = "extend" THEN Set(loaded, r, <<"extend", Get(loaded, from, instr.from), <<>>>>, instr.w)
        ELSE IF from = r THEN loaded ELSE Mov(loaded, r, from, instr.w)

\* `emit_select_into`: the result has the first value already, and takes the second on zero.
SelectInto(m, r) ==
    LET forB == FreeOr({r}, IF r # "rax" THEN "rax" ELSE "rcx")
        forC == FreeOr({r, forB}, IF "rcx" \notin {r, forB} THEN "rcx" ELSE "rdx")
        first == FirstInto(m, "a", r, instr.w)
        second == EnsureReg(first, "b", instr.w, forB)
        all == EnsureReg(second, "c", 1, forC)
    IN  Set(all, r, <<"select", Get(all, RegOf("c", forC), 1),
                      Get(all, r, instr.w), Get(all, RegOf("b", forB), instr.w)>>, instr.w)

\* `emit_load`: an address in no register is brought into the result's.
LoadInto(m, r) ==
    LET direct == home["a"] \in {"near", "frame"}
        addressed == IF direct THEN m ELSE EnsureReg(m, "a", 8, r)
        address == IF direct THEN Value("a") ELSE Get(addressed, RegOf("a", r), 8)
    IN  Set(addressed, r, <<"load", address, <<>>>>, instr.w)

\* `emit_store`: a spilled address goes to rcx, an absolute one out of reach to r10, a wide
\* constant to r11; any other value without a register is carried by one that is free or parked.
StoresWide == home["b"] = "far" /\ instr.w = 8
Carries == home["b"] \in Slots \cup {"frame"}
CarrierAvoids == {"r10", "r11"} \cup (IF InSlot("a") THEN {"rcx"} ELSE {home["a"]} \cap Registers)
Carrier == FreeOr(CarrierAvoids, FirstBut(CarrierAvoids))

Stored(m) ==
    LET parks == Carries /\ Free(CarrierAvoids) = {}
        addressed == IF InSlot("a") THEN Mov(m, "rcx", home["a"], 8) ELSE m
        parked == IF parks THEN Mov(addressed, "park1", Carrier, 8) ELSE addressed
        carried == IF Carries THEN Fetch(parked, "b", Carrier, instr.w) ELSE parked
        absolute == IF home["a"] = "far" THEN Set(carried, "r10", Value("a"), 8) ELSE carried
        ready == IF StoresWide THEN Set(absolute, "r11", Value("b"), 8) ELSE absolute
        address == CASE home["a"] \in {"near", "frame"} -> Value("a")
                     [] home["a"] = "far" -> Get(ready, "r10", 8)
                     [] OTHER -> Get(ready, RegOf("a", "rcx"), 8)
        value == CASE StoresWide -> Get(ready, "r11", 8)
                   [] home["b"] \in {"near", "far"} -> Value("b")
                   [] OTHER -> Get(ready, RegOf("b", Carrier), instr.w)
    IN  [memory |-> <<address, value>>,
         contents |-> IF parks THEN Mov(ready, Carrier, "park1", 8) ELSE ready]

-----------------------------------------------------------------------------
Emitted(kind) == phase = "emit" /\ instr.kind = kind /\ phase' = "done" /\ UNCHANGED <<instr, home, live>>

Bin == /\ Emitted("bin")
       /\ contents' = Closed(BinInto(Opened(contents), Dest, instr.reads[1], instr.reads[2], instr.op, instr.w),
                            ResultWidth(instr.op, instr.w))
       /\ UNCHANGED memory

Un == Emitted("un") /\ contents' = Closed(UnInto(Opened(contents), Dest), instr.w) /\ UNCHANGED memory

Cast == Emitted("cast") /\ contents' = Closed(CastInto(Opened(contents), Dest), instr.w) /\ UNCHANGED memory

Select == Emitted("select") /\ contents' = Closed(SelectInto(Opened(contents), Dest), instr.w) /\ UNCHANGED memory

Load == Emitted("load") /\ contents' = Closed(LoadInto(Opened(contents), Dest), instr.w) /\ UNCHANGED memory

Store == Emitted("store") /\ contents' = Stored(contents).contents /\ memory' = Stored(contents).memory

Done == phase = "done" /\ UNCHANGED emitVars

EmitNext == Bin \/ Un \/ Cast \/ Select \/ Load \/ Store \/ Done

EmitSpec == EmitInit /\ [][EmitNext]_emitVars

-----------------------------------------------------------------------------
\* What the instruction means.
Meaning == CASE instr.kind = "bin" -> <<instr.op, Value(instr.reads[1]), Value(instr.reads[2])>>
             [] instr.op = "trunc" -> Value("a")
             [] instr.kind = "select" -> <<"select", Value("c"), Value("a"), Value("b")>>
             [] OTHER -> <<instr.op, Value("a"), <<>>>>

(* The result is in its home, at its width: no operand was overwritten before *)
(* it was read, by the other, by what was borrowed, or by what the encoding   *)
(* names itself.                                                              *)
ResultArrives ==
    phase = "done" /\ "d" \in DOMAIN home =>
        Get(contents, home["d"], ResultWidth(instr.op, instr.w)) = Meaning

(* A store stores its value at its address.                                   *)
StoreLands == phase = "done" /\ instr.kind = "store" => memory = <<Value("a"), Value("b")>>

(* Every operand that is read again, and every other value, is where it was:  *)
(* what was borrowed is given back, in full.                                  *)
NothingElseChanges ==
    phase = "done" =>
        /\ \A r \in live : contents[r] = Cell(Value(r), 8)
        /\ \A o \in Reads(instr) :
              ~Constant(o) /\ ~("d" \in DOMAIN home /\ home[o] = home["d"]) =>
                  Get(contents, home[o], WidthOf(instr, o)) = Value(o)

-----------------------------------------------------------------------------
(* Where the emitter borrows without giving back. *)

\* A second operand of no register is loaded into one that is taken.
ScratchIsTaken ==
    instr.kind = "bin" /\
        LET a == instr.reads[1]
            b == instr.reads[2]
        IN  /\ ~InRegister(b) /\ ~Encodes(instr.op, b, instr.w) /\ instr.op \notin {"div", "rem"}
            /\ ~ConstantFirst(Dest, a, b, instr.op, instr.w)
            /\ Free(AvoidFor(Dest, a)) = {}

\* Of three operands two may need registers; or the result is computed in one's own.
SelectIsCrowded ==
    instr.kind = "select" /\
        \/ Dest \in {home["b"], home["c"]}
        \/ ~InRegister("b") /\ Free({Dest}) = {}
        \/ ~InRegister("c") /\ Free({Dest, FreeOr({Dest}, Dest)}) = {}

\* A fixed register of a store is taken.
StoreIsCrowded ==
    instr.kind = "store" /\
        \/ InSlot("a") /\ "rcx" \in Busy
        \/ home["a"] = "far" /\ "r10" \in Busy
        \/ StoresWide /\ "r11" \in Busy

Crowded == ScratchIsTaken \/ SelectIsCrowded \/ StoreIsCrowded

(* The emitted code does what the instruction says and nothing else, except   *)
(* where it runs out of registers.                                            *)
ExactUnlessCrowded == Crowded \/ (ResultArrives /\ StoreLands /\ NothingElseChanges)

(* "both chosen so that neither can clobber the register already holding the *)
(* address": what a store writes to is where it was to write.                *)
AddressIsSpared == phase = "done" /\ instr.kind = "store" => memory[1] = Value("a")
===============================================================================
