------------------------------ MODULE Evaluator --------------------------------
(***************************************************************************)
(* ir/lift.rs and vm/state.rs: what the evaluator holds of memory, of the  *)
(* SSE registers and of what a boxed instruction or a call leaves behind,  *)
(* beside the machine the guest runs on; and the generations by which      *)
(* ir/expr.rs keeps two loads of one address apart.                        *)
(*                                                                         *)
(* A term is the sequence of its bytes, lowest first.  A byte is of a      *)
(* constant, of what the machine starts with, of an opaque, or of a load   *)
(* that did not resolve: then it is whatever memory held when that node    *)
(* was first made, so two loads that intern to one node had better read    *)
(* the same.  An address is a number, or one of two terms: Pointer, of     *)
(* which nothing is known, and Either, which takes one of two values.      *)
(***************************************************************************)
EXTENDS Integers, SequencesExt

CONSTANTS Region,     \* of each address: "stack", "ro", "bss", "data" or "bound" (the import table)
          Cell,       \* bytes of a cell: W64
          Dword,      \* bytes of W32
          Gprs, ArgRegs, Volatile, Xmms,
          Programs,   \* [code, depth, sp, worlds]: sets of instructions, how many run, where the stack is, and
                      \* [pointer, cond, at]: what Pointer and the condition of Either are, and both of its addresses
          Allowed     \* the approximations a behaviour may meet

Pointer == -1
Either == -2

VARIABLES program, world,
          held,       \* the evaluator: registers, SSE halves, bytes, generations, pins
          machine,    \* the machine: registers, SSE halves, the bytes written
          taken,      \* what memory held for each load that did not resolve
          loose,      \* bytes and SSE registers that changed unseen
          said,       \* the last instruction's events: terms, and what they are terms of
          ran

liftVars == <<program, world, held, machine, taken, loose, said, ran>>

-----------------------------------------------------------------------------
(* Terms. *)
Byte(of, a, i) == [of |-> of, a |-> a, w |-> 0, g |-> 0, i |-> i]
LoadByte(a, w, g, i) == [of |-> "load", a |-> a, w |-> w, g |-> g, i |-> i]
Zero == Byte("const", 0, 0)
Word(of, n) == [i \in 1..Cell |-> Byte(of, n, i)]
Zeros(w) == [i \in 1..w |-> Zero]

AllConst(t) == \A i \in DOMAIN t : t[i].of = "const"
Low(t, w) == SubSeq(t, 1, w)
Widened(t) == t \o Zeros(Cell - Len(t))

Span(a, w) == a..(a + w - 1)

\* One function over another.
Overlay(f, g) == [x \in DOMAIN f \cup DOMAIN g |-> IF x \in DOMAIN f THEN f[x] ELSE g[x]]

\* The address a term is.
Real(a) == CASE a = Pointer -> world.pointer
             [] a = Either  -> IF world.cond THEN world.at[2] ELSE world.at[1]
             [] OTHER       -> a

\* The node a byte of a load is of; what it read is what the node means.
Key(b) == <<b.a, b.w, b.g>>
Keys(t) == {Key(t[i]) : i \in {i \in DOMAIN t : t[i].of = "load"}}

Meaning(t) == [i \in DOMAIN t |-> IF t[i].of = "load" THEN taken[Key(t[i])][t[i].i] ELSE t[i]]

-----------------------------------------------------------------------------
(* Memory: bytes at addresses that are known, each a byte of a stored term. *)
StoreConcrete(mem, a, t) ==
    [b \in DOMAIN mem \cup Span(a, Len(t)) |->
        IF b \notin Span(a, Len(t)) THEN mem[b]
        ELSE IF AllConst(t) THEN [expr |-> <<t[b - a + 1]>>, index |-> 0]
        ELSE [expr |-> t, index |-> b - a]]

ForgetConcrete(mem, a, bytes) == [b \in DOMAIN mem \ Span(a, bytes) |-> mem[b]]

\* Bytes of the image: the rest of a section past its file content is zero.
Image(a) == IF Region[a] = "bss" THEN Zero ELSE Byte("image", a, 0)
HasImage(a) == Region[a] \in {"ro", "bss", "data", "bound"}

\* Mutation: a store dates only the cell it begins in.
CellsOfStart(a, w) == {a - (a % Cell)}

Cells(a, w) == {b - (b % Cell) : b \in Span(a, w)}

\* What a shift by whole bytes is at a width: the count keeps 6 bits of it, or 5.
ShiftedBy(index, w) == index % (IF w = Cell THEN Cell ELSE Dword)

\* Byte k of a load: the run of one stored term it is in, brought to the width of the load and shifted.
Source(mem, a, k) == IF a + k \in DOMAIN mem THEN mem[a + k] ELSE [expr |-> <<Image(a + k)>>, index |-> 0]
Joined(mem, a, j) == /\ Source(mem, a, j).expr = Source(mem, a, j + 1).expr
                     /\ Source(mem, a, j).index + 1 = Source(mem, a, j + 1).index
RunStart(mem, a, k) == Min({j \in 0..k : \A i \in j..(k - 1) : Joined(mem, a, i)})
Place(mem, a, k, w) == LET j == RunStart(mem, a, k) IN ShiftedBy(Source(mem, a, j).index, w) + k - j

LoadConcrete(mem, a, w) ==
    [k \in 1..w |-> LET t == Source(mem, a, k - 1).expr
                        p == Place(mem, a, k - 1, w)
                    IN  IF p < w /\ p < Len(t) THEN t[p + 1] ELSE Zero]

\* Some byte is of a part of its source that does not survive that.
Torn(mem, a, w) == \E k \in 0..(w - 1) : LET p == Place(mem, a, k, w) IN p >= w \/ p # Source(mem, a, k).index

\* The loader and the program write where the file's content is only what memory starts with.
Resolves(mem, a, w) ==
    /\ Region[a] # "data"
    /\ \A b \in Span(a, w) : Region[b] # "bound" /\ (b \in DOMAIN mem \/ HasImage(b))

\* The newest store that may have changed what is read.
LoadGen(h, a, w) ==
    IF a < 0 THEN h.gen ELSE Max({h.symGen} \cup {h.cellGen[c] : c \in Cells(a, w) \cap DOMAIN h.cellGen})

Opened(h, a, w) == [i \in 1..w |-> LoadByte(a, w, LoadGen(h, a, w), i)]

\* A pin makes an address that takes two values one of them.
PinnedAddress(h, a) == IF a = Either /\ h.pinned THEN Real(a) ELSE a

\* An address that takes two values is read at both, and the condition chooses.
Splits(h, a, w) == a = Either /\ \A i \in {1, 2} : Resolves(h.mem, world.at[i], w)

Load(h, at, w) ==
    LET a == PinnedAddress(h, at)
    IN  CASE a >= 0 /\ Resolves(h.mem, a, w) -> LoadConcrete(h.mem, a, w)
          [] a < 0 /\ Splits(h, a, w)        -> LoadConcrete(h.mem, Real(a), w)
          [] OTHER                           -> Opened(h, a, w)

NoteConcrete(h, a, w) ==
    [h EXCEPT !.gen = @ + 1,
              !.cellGen = [c \in DOMAIN @ \cup Cells(a, w) |-> IF c \in Cells(a, w) THEN h.gen + 1 ELSE @[c]]]

NoteSymbolic(h) == [h EXCEPT !.gen = @ + 1, !.symGen = h.gen + 1]

Store(h, a, t) == IF a >= 0 THEN NoteConcrete([h EXCEPT !.mem = StoreConcrete(@, a, t)], a, Len(t)) ELSE NoteSymbolic(h)

ForgetMemory(h, a, w) == IF a >= 0 THEN NoteConcrete([h EXCEPT !.mem = ForgetConcrete(@, a, w)], a, w) ELSE NoteSymbolic(h)

-----------------------------------------------------------------------------
(* The machine. *)
Fetch(bytes, b) == IF b \in DOMAIN bytes THEN bytes[b] ELSE IF Region[b] \in {"ro", "bss"} THEN Image(b) ELSE Byte("memory", b, 0)

Read(m, a, w) == [i \in 1..w |-> Fetch(m.bytes, Real(a) + i - 1)]
Written(m, a, t) == [m EXCEPT !.bytes = Overlay([b \in Span(Real(a), Len(t)) |-> t[b - Real(a) + 1]], @)]

Is(t, real) == [term |-> t, real |-> real]

\* write_reg notes the arguments set up for the next call.
SetReg(h, r, t) == [h EXCEPT !.regs[r] = t, !.args = @ \cup ({r} \cap ArgRegs)]

\* Step results: the evaluator, the machine, and what its events say.
After(h, m, events) == [held |-> h, machine |-> m, said |-> events]

\* mov r, [at] and mov [at], r at width w; push and pop.
DoLoad(h, m, i) ==
    LET t == Load(h, i.at, i.w)
        v == Read(m, i.at, i.w)
    IN  After(SetReg(h, i.r, Widened(t)), [m EXCEPT !.regs[i.r] = Widened(v)], {Is(t, v)})

DoStore(h, m, i) ==
    LET t == Low(h.regs[i.r], i.w)
        v == Low(m.regs[i.r], i.w)
    IN  After(Store(h, i.at, t), Written(m, i.at, v), {Is(t, v)})

DoPush(h, m, i) ==
    LET sp == h.sp - Cell
        done == DoStore(h, m, [at |-> sp, r |-> i.r, w |-> Cell])
    IN  After([done.held EXCEPT !.sp = sp], done.machine, done.said)

DoPop(h, m, i) ==
    LET done == DoLoad(h, m, [at |-> h.sp, r |-> i.r, w |-> Cell])
    IN  After([done.held EXCEPT !.sp = @ + Cell], done.machine, done.said)

DoConst(h, m, i) ==
    LET v == Word("const", i.n) IN After(SetReg(h, i.r, v), [m EXCEPT !.regs[i.r] = v], {})

HighLoaded(h, i) == IF i.w = Cell THEN Zeros(Cell) ELSE Load(h, i.at + Cell, Cell)

\* SSE moves of 16 bytes, or of 8, which clear the high half.
DoSseLoad(h, m, i) ==
    LET lo == Load(h, i.at, Cell)
        low == Read(m, i.at, Cell)
        hi == HighLoaded(h, i)
        high == IF i.w = Cell THEN (IF i.form = "half" THEN m.xmm[i.x].hi ELSE Zeros(Cell)) ELSE Read(m, i.at + Cell, Cell)
    IN  After([h EXCEPT !.xmm[i.x] = [lo |-> lo, hi |-> hi]], [m EXCEPT !.xmm[i.x] = [lo |-> low, hi |-> high]],
              {Is(lo, low)} \cup IF i.w = Cell THEN {} ELSE {Is(hi, high)})

DoSseStore(h, m, i) ==
    LET x == h.xmm[i.x]
        v == m.xmm[i.x]
        known == x.lo # <<>> /\ (i.w = Cell \/ x.hi # <<>>)
        stored == Store(h, i.at, x.lo)
        after == Written(m, i.at, v.lo)
    IN  After(CASE ~known                -> ForgetMemory(h, i.at, i.w)
                [] known /\ i.w = Cell   -> stored
                [] known /\ i.w # Cell   -> Store(stored, i.at + Cell, x.hi),
              IF i.w = Cell THEN after ELSE Written(after, i.at + Cell, v.hi),
              IF ~known THEN {} ELSE {Is(x.lo, v.lo)} \cup IF i.w = Cell THEN {} ELSE {Is(x.hi, v.hi)})

Unknown == [lo |-> <<>>, hi |-> <<>>]

\* The low half first; a high half that is not known takes the low one with it.
DoSseMove(h, m, i) ==
    LET y == h.xmm[i.y]
        low == IF y.lo # <<>> THEN [h.xmm[i.x] EXCEPT !.lo = y.lo] ELSE Unknown
        v == m.xmm[i.y]
    IN  After([h EXCEPT !.xmm[i.x] = CASE i.w = Cell -> [low EXCEPT !.hi = Zeros(Cell)]
                                       [] i.w # Cell /\ y.hi # <<>> -> [low EXCEPT !.hi = y.hi]
                                       [] i.w # Cell /\ y.hi = <<>> -> Unknown],
              [m EXCEPT !.xmm[i.x] = [lo |-> v.lo, hi |-> CASE i.w # Cell -> v.hi
                                                            [] i.w = Cell /\ i.form = "half" -> @.hi
                                                            [] i.w = Cell /\ i.form # "half" -> Zeros(Cell)]],
              {})

DoSseZero(h, m, i) ==
    LET z == [lo |-> Zeros(Cell), hi |-> Zeros(Cell)] IN After([h EXCEPT !.xmm[i.x] = z], [m EXCEPT !.xmm[i.x] = z], {})

-----------------------------------------------------------------------------
(* Boxed instructions: recorded as they are, with what they read; what     *)
(* they write becomes an opaque.  i.writes are the registers the machine   *)
(* writes; the evaluator has lists for a few (i.listed), or takes the      *)
(* first operand (i.dest): a register, an SSE register or memory.          *)
Narrow(t) == Widened(Low(t, Dword))
Fresh(h, k) == Word("opaque", h.opaques + k)

\* Opaques are numbered by the register they are for.
Numbered == CHOOSE f \in [Gprs -> 1..Cardinality(Gprs)] : \A r, s \in Gprs : f[r] = f[s] => r = s

\* Mutation: the operands are read when the results are already there.
BoxedUsesAfter(h, m, i) == {Is(IF r \in i.listed THEN Narrow(Fresh(h, Numbered[r])) ELSE h.regs[r], m.regs[r]) : r \in i.reads}

BoxedUses(h, m, i) == {Is(h.regs[r], m.regs[r]) : r \in i.reads}

ApplyBoxedEffects(h, i) ==
    LET clobbered == i.listed \cup (i.dest.reg \cap Gprs)
        known == [h EXCEPT !.regs = [r \in Gprs |-> IF r \in i.listed THEN Narrow(Fresh(h, Numbered[r]))
                                                    ELSE IF r \in clobbered THEN Fresh(h, Numbered[r]) ELSE @[r]],
                           !.xmm = [x \in Xmms |-> IF x \in i.dest.reg THEN Unknown ELSE @[x]],
                           !.args = @ \cup (clobbered \cap ArgRegs),
                           !.opaques = @ + Cardinality(Gprs) + 1]
    IN  IF i.dest.bytes = 0 THEN known ELSE ForgetMemory(known, i.dest.at, i.dest.bytes)

\* What the machine leaves there is what the opaque stands for.
DoBox(h, m, i) ==
    LET wrote == [m EXCEPT !.regs = [r \in Gprs |-> IF r \in i.listed THEN Narrow(Fresh(h, Numbered[r]))
                                                    ELSE IF r \in i.writes THEN Fresh(h, Numbered[r]) ELSE @[r]],
                           !.xmm = [x \in Xmms |-> IF x \in i.dest.reg THEN [lo |-> Fresh(h, 0), hi |-> Fresh(h, 0)] ELSE @[x]]]
        new == [k \in 1..i.dest.bytes |-> Byte("opaque", h.opaques, -k)]
    IN  After(ApplyBoxedEffects(h, i), IF i.dest.bytes = 0 THEN wrote ELSE Written(wrote, i.dest.at, new),
              BoxedUses(h, m, i))

\* A call outside the machine: arguments as they are, then the volatile registers are gone.
ClobberCall(h) == [h EXCEPT !.regs = [r \in Gprs |-> IF r \in Volatile THEN Fresh(h, Numbered[r]) ELSE @[r]],
                            !.args = {},
                            !.opaques = @ + Cardinality(Gprs) + 1]

DoCall(h, m, i) ==
    After(ClobberCall(h),
          [m EXCEPT !.regs = [r \in Gprs |-> IF r \in Volatile THEN Fresh(h, Numbered[r]) ELSE @[r]],
                    !.bytes = Overlay([b \in i.changes |-> Byte("opaque", h.opaques, -b)], @),
                    !.xmm = [x \in Xmms |-> IF x \in i.gone THEN [lo |-> Fresh(h, 0), hi |-> Fresh(h, 0)] ELSE @[x]]],
          {Is(h.regs[r], m.regs[r]) : r \in h.args})

\* A branch on the condition of Either: the run goes on with it pinned.
DoPin(h, m) == After([h EXCEPT !.pinned = TRUE], m, {})

\* A jump through a register: a load that a pin gives an address is resolved again.
Opens(t) == Cardinality({i \in DOMAIN t : t[i].of = "load"})
Again(h, t) == LET w == Opens(t)
               IN  IF /\ h.pinned /\ t[1].of = "load" /\ t[1].a = Either
                      /\ Low(t, w) = [i \in 1..w |-> [t[1] EXCEPT !.i = i]]
                      /\ Resolves(h.mem, Real(Either), w)
                   THEN LoadConcrete(h.mem, Real(Either), w) \o SubSeq(t, w + 1, Cell)
                   ELSE t

DoJump(h, m, i) == After(h, m, {Is(Again(h, h.regs[i.r]), m.regs[i.r])})

Effect(h, m, i) ==
    CASE i.op = "load" -> DoLoad(h, m, i)
      [] i.op = "store" -> DoStore(h, m, i)
      [] i.op = "push" -> DoPush(h, m, i)
      [] i.op = "pop" -> DoPop(h, m, i)
      [] i.op = "const" -> DoConst(h, m, i)
      [] i.op = "sseload" -> DoSseLoad(h, m, i)
      [] i.op = "ssestore" -> DoSseStore(h, m, i)
      [] i.op = "ssemove" -> DoSseMove(h, m, i)
      [] i.op = "ssezero" -> DoSseZero(h, m, i)
      [] i.op = "box" -> DoBox(h, m, i)
      [] i.op = "call" -> DoCall(h, m, i)
      [] i.op = "pin" -> DoPin(h, m)
      [] i.op = "jump" -> DoJump(h, m, i)

-----------------------------------------------------------------------------
(* Where the evaluator is known to be wrong, of itself. *)
Reading(i) ==
    CASE i.op = "load" -> {[a |-> i.at, w |-> i.w]}
      [] i.op = "pop" -> {[a |-> held.sp, w |-> Cell]}
      [] i.op = "sseload" -> {[a |-> i.at, w |-> Cell]} \cup IF i.w = Cell THEN {} ELSE {[a |-> i.at + Cell, w |-> Cell]}
      [] i.op = "jump" /\ Again(held, held.regs[i.r]) # held.regs[i.r] -> {[a |-> Either, w |-> Opens(held.regs[i.r])]}
      [] OTHER -> {}

\* Of what memory holds, those that resolve; only the first byte is asked whether it may have been written.
Resolving(i) == {x \in Reading(i) : /\ PinnedAddress(held, x.a) >= 0 \/ Splits(held, x.a, x.w)
                                    /\ Resolves(held.mem, Real(x.a), x.w)}

Approximated(i) ==
    {which \in {"torn source", "mixed source", "unseen write", "half move", "implicit result", "late resolve"} :
        CASE which = "torn source" -> \E x \in Resolving(i) : Torn(held.mem, Real(x.a), x.w)
          [] which = "mixed source" -> \E x \in Resolving(i) : \E b \in Span(Real(x.a), x.w) \ DOMAIN held.mem : Region[b] = "data"
          [] which = "unseen write" -> \/ \E x \in Reading(i) : Span(Real(x.a), x.w) \cap loose.bytes # {}
                                       \/ i.op = "ssestore" /\ i.x \in loose.xmm
                                       \/ i.op = "ssemove" /\ i.y \in loose.xmm
          [] which = "half move" -> i.op \in {"sseload", "ssemove"} /\ i.form = "half"
          [] which = "implicit result" -> i.op = "box" /\ ~(i.writes \subseteq i.listed \cup i.dest.reg)
          [] which = "late resolve" -> /\ i.op = "jump" /\ Again(held, held.regs[i.r]) # held.regs[i.r]
                                       /\ LET k == Key(held.regs[i.r][1]) IN taken[k] # Read(machine, k[1], k[2])}

\* What an instruction writes in memory, and whether through an address the evaluator does not know.
Writing(i) ==
    CASE i.op = "store" -> [a |-> i.at, w |-> i.w]
      [] i.op = "push" -> [a |-> held.sp - Cell, w |-> Cell]
      [] i.op = "ssestore" -> [a |-> i.at, w |-> i.w]
      [] i.op = "box" -> [a |-> i.dest.at, w |-> i.dest.bytes]
      [] OTHER -> [a |-> 0, w |-> 0]

Unseen(i, h) ==
    LET x == Writing(i)
        span == Span(Real(x.a), x.w)
        resolvable == {b \in span : b \in DOMAIN h.mem \/ Region[b] \in {"ro", "bss"}}
    IN  IF i.op = "call" THEN loose.bytes \cup i.changes
        ELSE IF x.a < 0 THEN loose.bytes \cup resolvable
        ELSE (loose.bytes \ span) \cup (resolvable \ DOMAIN h.mem)

UnseenSse(i) ==
    CASE i.op = "call" -> loose.xmm \cup i.gone
      [] i.op \in {"sseload", "ssemove", "ssezero"} -> loose.xmm \ {i.x}
      [] i.op = "box" -> loose.xmm \ i.dest.reg
      [] OTHER -> loose.xmm

-----------------------------------------------------------------------------
(* What programs are made of: accesses of up to a cell anywhere, of two at *)
(* a known address; boxed instructions that write their first operand.     *)
Addresses == Nat \cup {Pointer, Either}

Ops == {"load", "store", "push", "pop", "const", "sseload", "ssestore", "ssemove", "ssezero", "box", "call", "pin", "jump"}

Legal(i) ==
    /\ i.op \in Ops
    /\ i.op \in {"load", "store", "push", "pop", "const", "jump"} => i.r \in Gprs
    /\ i.op \in {"load", "store"} => i.at \in Addresses /\ i.w \in 1..Cell
    /\ i.op = "const" => i.n \in Int
    /\ i.op \in {"sseload", "ssestore", "ssemove", "ssezero"} => i.x \in Xmms
    /\ i.op \in {"sseload", "ssestore"} => (i.w = Cell /\ i.at \in Addresses) \/ (i.w = 2 * Cell /\ i.at \in Nat)
    /\ i.op = "ssemove" => i.y \in Xmms /\ i.w \in {Cell, 2 * Cell}
    /\ i.op = "box" => /\ i.reads \subseteq Gprs /\ i.dest.reg \cap Gprs \subseteq i.writes
                       /\ i.dest.at \in Addresses /\ i.dest.bytes \in Nat
    /\ i.op = "call" => i.changes \subseteq Nat

Given ==
    /\ Cell \in Nat \ {0} /\ Dword \in 1..Cell
    /\ IsFiniteSet(Gprs) /\ ArgRegs \subseteq Gprs
    /\ \A p \in Programs : /\ p.sp \in Nat /\ \A i \in p.code : Legal(i)
                          /\ \A w \in p.worlds : /\ w.pointer \in Nat /\ w.cond \in BOOLEAN
                                               /\ w.at[1] \in Nat /\ w.at[2] \in Nat

ASSUME GivenAssumption == Given

LiftInit ==
    /\ program \in Programs
    /\ world \in program.worlds
    /\ LET regs == [r \in Gprs |-> Word("start", Numbered[r])]
       IN  /\ held = [regs |-> regs, xmm |-> [x \in Xmms |-> Unknown], mem |-> [b \in {} |-> 0], gen |-> 0, symGen |-> 0,
                      cellGen |-> [c \in {} |-> 0], sp |-> program.sp, pinned |-> FALSE, args |-> {}, opaques |-> 0]
           /\ machine = [regs |-> regs, xmm |-> [x \in Xmms |-> [lo |-> Word("start", 0), hi |-> Word("start", -1)]],
                         bytes |-> [b \in {} |-> 0]]
    /\ taken = [k \in {} |-> <<>>]
    /\ loose = [bytes |-> {}, xmm |-> {}]
    /\ said = {}
    /\ ran = 0

Step(i) ==
    /\ ran < program.depth
    /\ i.op = "pop" => held.sp < program.sp
    /\ i.op = "push" => held.sp - Cell \in DOMAIN Region
    /\ Approximated(i) \subseteq Allowed
    /\ LET e == Effect(held, machine, i)
       IN  /\ held' = e.held
           /\ machine' = e.machine
           /\ said' = e.said
           /\ taken' = [k \in DOMAIN taken \cup UNION {Keys(p.term) : p \in e.said} |->
                            IF k \in DOMAIN taken THEN taken[k] ELSE Read(machine, k[1], k[2])]
           /\ loose' = [bytes |-> Unseen(i, e.held), xmm |-> UnseenSse(i)]
    /\ ran' = ran + 1
    /\ UNCHANGED <<program, world>>

LiftNext == \E i \in program.code : Step(i)

LiftSpec == LiftInit /\ [][LiftNext]_liftVars

-----------------------------------------------------------------------------
(* A register the evaluator holds a term of has the value of that term,    *)
(* whatever was stored, loaded, boxed or called before: in particular two  *)
(* loads that intern to one node have read the same bytes.                 *)
RegistersAreTrue == \A r \in Gprs : Meaning(held.regs[r]) = machine.regs[r]

(* A byte of memory the evaluator resolves is what memory holds, also      *)
(* after overlapping stores of different widths, unless it changed unseen. *)
BytesAreTrue ==
    \A b \in DOMAIN held.mem \ loose.bytes : Meaning(held.mem[b].expr)[held.mem[b].index + 1] = Fetch(machine.bytes, b)

(* A half of an SSE register the evaluator tracks has that value; one it   *)
(* does not know is never taken for known.                                 *)
SseIsTrue ==
    \A x \in Xmms \ loose.xmm :
        LET h == held.xmm[x]
        IN  (h.lo # <<>> => Meaning(h.lo) = machine.xmm[x].lo) /\ (h.hi # <<>> => Meaning(h.hi) = machine.xmm[x].hi)

(* What the evaluator holds is what the machine holds, however stores      *)
(* overlap and whatever was boxed, called or moved.                        *)
StateIsTrue == RegistersAreTrue /\ BytesAreTrue /\ SseIsTrue

(* An event tells what the guest does: what is loaded and stored, the      *)
(* inputs of a boxed instruction, the arguments of a call and where a jump *)
(* goes are the values the machine has when it happens.                    *)
EventsAreTrue == \A p \in said : Meaning(p.term) = p.real
===============================================================================
