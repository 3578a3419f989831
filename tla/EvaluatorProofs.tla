---------------------------- MODULE EvaluatorProofs ----------------------------
(***************************************************************************)
(* What the evaluator holds is true of the machine, for every program,     *)
(* every layout of the image and every width of a cell, as long as none of *)
(* the approximations is met (Allowed = {}).                               *)
(***************************************************************************)
EXTENDS Evaluator, FiniteSetTheorems, FunctionTheorems, SequenceTheorems, NaturalsInduction, WellFoundedInduction, TLAPS

\* A term of n bytes.
Kinds == {"const", "start", "opaque", "image", "memory", "load"}
ByteSet == [of : Kinds, a : Int, w : Int, g : Int, i : Int]
Term(n) == [1..n -> ByteSet]

\* A byte of a term tells a byte of the machine: its own, or what a load has read.
Tells(tk, b, v) ==
    /\ b \in ByteSet /\ v \in ByteSet
    /\ b.of # "load" => v = b
    /\ b.of = "load" => Key(b) \in DOMAIN tk /\ b.i \in 1..b.w /\ v = tk[Key(b)][b.i]
Describes(tk, t, v, n) == t \in Term(n) /\ v \in Term(n) /\ \A j \in 1..n : Tells(tk, t[j], v[j])

\* Registers, and the SSE registers that did not change unseen.
RegsTrue(tk, hr, mr) ==
    /\ hr \in [Gprs -> Term(Cell)] /\ mr \in [Gprs -> Term(Cell)]
    /\ \A r \in Gprs : Describes(tk, hr[r], mr[r], Cell)

Half == Term(Cell) \cup {<<>>}
HalfTrue(tk, t, v) == t # <<>> => Describes(tk, t, v, Cell)
SseTrue(tk, hx, mx, lx) ==
    /\ hx \in [Xmms -> [lo : Half, hi : Half]] /\ mx \in [Xmms -> [lo : Term(Cell), hi : Term(Cell)]]
    /\ \A x \in Xmms \ lx : HalfTrue(tk, hx[x].lo, mx[x].lo) /\ HalfTrue(tk, hx[x].hi, mx[x].hi)

\* Tracked bytes, and those of the image that are not tracked: nothing was written there.
MemTrue(tk, mem, bytes, lb) ==
    /\ DOMAIN mem \subseteq Int /\ \A b \in DOMAIN bytes : bytes[b] \in ByteSet
    /\ \A b \in DOMAIN mem : mem[b].expr \in Seq(ByteSet) /\ mem[b].index \in 0..(Len(mem[b].expr) - 1)
    /\ \A b \in DOMAIN mem \ lb : Tells(tk, mem[b].expr[mem[b].index + 1], Fetch(bytes, b))
    /\ \A b \in DOMAIN bytes \ (DOMAIN mem \cup lb) : Region[b] \notin {"ro", "bss"}

\* A load that would be the same node now would read the same now.
GensOK(h) == /\ h.gen \in Nat /\ h.symGen \in 0..h.gen
             /\ DOMAIN h.cellGen \subseteq Int /\ \A c \in DOMAIN h.cellGen : h.cellGen[c] \in 0..h.gen
LoadsTrue(tk, h, m, lb) ==
    \A k \in DOMAIN tk :
        /\ k \in Int \X Nat \X (0..h.gen) /\ tk[k] \in Term(k[2])
        /\ LoadGen(h, k[1], k[2]) = k[3] /\ Span(Real(k[1]), k[2]) \cap lb = {} => tk[k] = Read(m, k[1], k[2])

Rest(h) == h.sp \in Int /\ h.pinned \in BOOLEAN /\ h.args \subseteq Gprs /\ h.opaques \in Nat
IsHeld(h) == h = [regs |-> h.regs, xmm |-> h.xmm, mem |-> h.mem, gen |-> h.gen, symGen |-> h.symGen,
                  cellGen |-> h.cellGen, sp |-> h.sp, pinned |-> h.pinned, args |-> h.args, opaques |-> h.opaques]
IsMachine(m) == m = [regs |-> m.regs, xmm |-> m.xmm, bytes |-> m.bytes]

Memory(tk, h, m, lb) == /\ IsHeld(h) /\ IsMachine(m) /\ GensOK(h)
                        /\ MemTrue(tk, h.mem, m.bytes, lb) /\ LoadsTrue(tk, h, m, lb)

Sound(tk, h, m, ls) ==
    /\ Rest(h)
    /\ RegsTrue(tk, h.regs, m.regs)
    /\ SseTrue(tk, h.xmm, m.xmm, ls.xmm)
    /\ Memory(tk, h, m, ls.bytes)

IInv == /\ program \in Programs /\ world \in program.worlds
        /\ Sound(taken, held, machine, loose)
        /\ \A p \in said : \E n \in 0..Cell : Describes(taken, p.term, p.real, n)
-----------------------------------------------------------------------------
(* Terms                                                                      *)

(* A term is a sequence of bytes.                                             *)
LEMMA TermIs ==
  ASSUME NEW n \in Nat, NEW t \in Term(n)
  PROVE  t \in Seq(ByteSet) /\ Len(t) = n /\ DOMAIN t = 1..n
BY DEF Term

(* The byte zero is a constant and tells zero.                                *)
LEMMA ZeroIs == Zero \in ByteSet /\ Zero.of # "load" /\ \A tk : Tells(tk, Zero, Zero)
BY DEF Zero, Byte, ByteSet, Kinds, Tells

(* What a term of a given length describes, its low bytes do, and the term    *)
(* with zeros on top.                                                         *)
LEMMA LowDescribes ==
  ASSUME NEW tk, NEW t, NEW v, NEW n \in Nat, Describes(tk, t, v, n), NEW w \in 0..n
  PROVE  Describes(tk, Low(t, w), Low(v, w), w)
<1>1. t \in Term(n) /\ v \in Term(n)
  BY DEF Describes
<1>2. Low(t, w) = [j \in 1..w |-> t[j]] /\ Low(v, w) = [j \in 1..w |-> v[j]]
  BY DEF Low
<1>3. \A j \in 1..w : j \in 1..n
  OBVIOUS
<1>4. \A j \in 1..n : t[j] \in ByteSet /\ v[j] \in ByteSet
  BY <1>1 DEF Term
<1> QED
  BY <1>2, <1>3, <1>4 DEF Describes, Term

(* Zeros are zeros.                                                           *)
LEMMA ZerosDescribe ==
  ASSUME NEW tk, NEW n \in Nat
  PROVE  Describes(tk, Zeros(n), Zeros(n), n)
BY ZeroIs DEF Describes, Zeros, Term

(* Two terms one behind the other.                                            *)
LEMMA JoinDescribes ==
  ASSUME NEW tk, NEW t, NEW v, NEW n \in Nat, Describes(tk, t, v, n),
         NEW t2, NEW v2, NEW n2 \in Nat, Describes(tk, t2, v2, n2)
  PROVE  Describes(tk, t \o t2, v \o v2, n + n2)
<1>1. t \in Term(n) /\ v \in Term(n) /\ t2 \in Term(n2) /\ v2 \in Term(n2)
  BY DEF Describes
<1>2. /\ t \in Seq(ByteSet) /\ v \in Seq(ByteSet) /\ t2 \in Seq(ByteSet) /\ v2 \in Seq(ByteSet)
      /\ Len(t) = n /\ Len(v) = n /\ Len(t2) = n2 /\ Len(v2) = n2
  BY <1>1, TermIs
<1>3. /\ DOMAIN (t \o t2) = 1..(n + n2) /\ DOMAIN (v \o v2) = 1..(n + n2)
      /\ t \o t2 \in Seq(ByteSet) /\ v \o v2 \in Seq(ByteSet)
      /\ Len(t \o t2) = n + n2 /\ Len(v \o v2) = n + n2
  BY <1>2
<1>4. \A j \in 1..(n + n2) : /\ (t \o t2)[j] = IF j <= n THEN t[j] ELSE t2[j - n]
                             /\ (v \o v2)[j] = IF j <= n THEN v[j] ELSE v2[j - n]
  BY <1>2
<1>5. t \o t2 \in Term(n + n2) /\ v \o v2 \in Term(n + n2)
  BY <1>3, LenProperties DEF Term
<1>6. \A j \in 1..(n + n2) : Tells(tk, (t \o t2)[j], (v \o v2)[j])
  <2> SUFFICES ASSUME NEW j \in 1..(n + n2) PROVE Tells(tk, (t \o t2)[j], (v \o v2)[j])
    OBVIOUS
  <2>1. CASE j <= n
    <3>1. j \in 1..n
      BY <2>1
    <3> QED
      BY <1>4, <2>1, <3>1 DEF Describes
  <2>2. CASE ~(j <= n)
    <3>1. j - n \in 1..n2
      BY <2>2
    <3> QED
      BY <1>4, <2>2, <3>1 DEF Describes
  <2> QED
    BY <2>1, <2>2
<1> QED
  BY <1>5, <1>6 DEF Describes

(* A term brought to a cell describes the value with zeros on top.            *)
LEMMA WidenedDescribes ==
  ASSUME Given, NEW tk, NEW t, NEW v, NEW n \in 0..Cell, Describes(tk, t, v, n)
  PROVE  Describes(tk, Widened(t), Widened(v), Cell)
<1>1. Cell \in Nat /\ n \in Nat /\ Cell - n \in Nat /\ n + (Cell - n) = Cell
  BY DEF Given
<1>2. Len(t) = n /\ Len(v) = n
  BY <1>1, TermIs DEF Describes
<1>3. Describes(tk, Zeros(Cell - n), Zeros(Cell - n), Cell - n)
  BY <1>1, ZerosDescribe
<1>4. Describes(tk, t \o Zeros(Cell - n), v \o Zeros(Cell - n), n + (Cell - n))
  BY <1>1, <1>3, JoinDescribes
<1> QED
  BY <1>1, <1>2, <1>4 DEF Widened

(* A word of something other than a load is what it is.                       *)
LEMMA WordDescribes ==
  ASSUME NEW tk, NEW of \in Kinds \ {"load"}, NEW a \in Int, Given
  PROVE  Describes(tk, Word(of, a), Word(of, a), Cell)
BY DEF Given, Describes, Word, Term, Tells, Byte, ByteSet

(* What a write of 32 bits leaves of a register.                              *)
LEMMA NarrowDescribes ==
  ASSUME Given, NEW tk, NEW t, NEW v, Describes(tk, t, v, Cell)
  PROVE  Describes(tk, Narrow(t), Narrow(v), Cell)
<1>1. Cell \in Nat /\ Dword \in 0..Cell
  BY DEF Given
<1>2. Describes(tk, Low(t, Dword), Low(v, Dword), Dword)
  BY <1>1, LowDescribes
<1> QED
  BY <1>1, <1>2, WidenedDescribes DEF Narrow

(* What a term describes is its meaning, and its loads are known.             *)
LEMMA MeaningIs ==
  ASSUME NEW t, NEW v, NEW n \in Nat, Describes(taken, t, v, n)
  PROVE  Meaning(t) = v
<1>1. DOMAIN t = 1..n /\ v = [j \in 1..n |-> v[j]]
  BY DEF Describes, Term
<1>2. \A j \in 1..n : v[j] = IF t[j].of = "load" THEN taken[Key(t[j])][t[j].i] ELSE t[j]
  BY DEF Describes, Tells
<1> QED
  BY <1>1, <1>2 DEF Meaning

(* A term that describes a value is of loads that were made.                  *)
LEMMA KeysKnown ==
  ASSUME NEW tk, NEW t, NEW v, NEW n \in Nat, Describes(tk, t, v, n)
  PROVE  Keys(t) \subseteq DOMAIN tk
<1>1. DOMAIN t = 1..n
  BY DEF Describes, Term
<1> QED
  BY <1>1 DEF Describes, Tells, Keys

-----------------------------------------------------------------------------
(* More loads                                                                 *)
Extends(tk, tk2) == DOMAIN tk \subseteq DOMAIN tk2 /\ \A k \in DOMAIN tk : tk2[k] = tk[k]

(* What a byte tells it still tells when more loads are known.                *)
LEMMA TellsMore ==
  ASSUME NEW tk, NEW tk2, Extends(tk, tk2), NEW b, NEW v, Tells(tk, b, v)
  PROVE  Tells(tk2, b, v)
BY DEF Extends, Tells

(* So does a term.                                                            *)
LEMMA DescribesMore ==
  ASSUME NEW tk, NEW tk2, Extends(tk, tk2), NEW t, NEW v, NEW n, Describes(tk, t, v, n)
  PROVE  Describes(tk2, t, v, n)
BY TellsMore DEF Describes

(* So do the registers.                                                       *)
LEMMA RegsMore ==
  ASSUME NEW tk, NEW tk2, Extends(tk, tk2), NEW hr, NEW mr, RegsTrue(tk, hr, mr)
  PROVE  RegsTrue(tk2, hr, mr)
BY DescribesMore DEF RegsTrue

(* So do the SSE registers.                                                   *)
LEMMA SseMore ==
  ASSUME NEW tk, NEW tk2, Extends(tk, tk2), NEW hx, NEW mx, NEW lx, SseTrue(tk, hx, mx, lx)
  PROVE  SseTrue(tk2, hx, mx, lx)
BY DescribesMore DEF SseTrue, HalfTrue

(* So do the bytes that are tracked.                                          *)
LEMMA MemMore ==
  ASSUME NEW tk, NEW tk2, Extends(tk, tk2), NEW mem, NEW bytes, NEW lb, MemTrue(tk, mem, bytes, lb)
  PROVE  MemTrue(tk2, mem, bytes, lb)
BY TellsMore DEF MemTrue

-----------------------------------------------------------------------------
(* Generations                                                                *)

(* Numbers with a bound have a greatest.                                      *)
LEMMA MaxIs ==
  ASSUME NEW n \in Nat, NEW S \in SUBSET (0..n), S # {}
  PROVE  Max(S) \in S /\ \A x \in S : x <= Max(S)
<1> DEFINE R == {p \in Nat \X Nat : p[1] < p[2]}
           T == {n - x : x \in S}
<1>1. IsWellFoundedOn(OpToRel(<, Nat), Nat)
  BY NatLessThanWellFounded
<1>2. R = OpToRel(<, Nat)
  BY DEF OpToRel
<1>3. IsWellFoundedOn(R, Nat)
  BY <1>1, <1>2
<1>4. \A k, m \in Nat : <<k, m>> \in R <=> k < m
  OBVIOUS
<1>5. T \subseteq Nat /\ T # {}
  <2>1. \A x \in 0..n : n - x \in Nat
    OBVIOUS
  <2> QED
    BY <2>1
<1> HIDE DEF R
<1>6. PICK m \in T : \A k \in T : ~(<<k, m>> \in R)
  BY <1>3, <1>5, WFMin
<1>7. PICK top \in S : m = n - top
  OBVIOUS
<1>8. \A x \in S : x <= top
  <2> SUFFICES ASSUME NEW x \in S PROVE x <= top
    OBVIOUS
  <2>1. n - x \in T /\ n - x \in Nat /\ n - top \in Nat
    OBVIOUS
  <2>2. ~(n - x < n - top)
    BY <1>4, <1>6, <1>7, <2>1
  <2>3. x \in Nat /\ top \in Nat
    OBVIOUS
  <2> QED
    BY <2>2, <2>3
<1> HIDE DEF T
<1>9. \E y \in S : \A x \in S : y >= x
  BY <1>8
<1>10. Max(S) \in S /\ \A x \in S : Max(S) >= x
  BY <1>9 DEF Max
<1>11. \A x \in S : x \in Nat
  OBVIOUS
<1> QED
  BY <1>10, <1>11

\* What a load is dated by.
Dates(h, a, w) == {h.symGen} \cup {h.cellGen[c] : c \in Cells(a, w) \cap DOMAIN h.cellGen}

(* The generation of a load: the newest of the stores that date it            *)
(* (ir/expr.rs `load_gen`).                                                   *)
LEMMA LoadGenIs ==
  ASSUME NEW h, GensOK(h), NEW a, NEW w
  PROVE  /\ a < 0 => LoadGen(h, a, w) = h.gen
         /\ ~(a < 0) => LoadGen(h, a, w) \in Dates(h, a, w) /\ \A x \in Dates(h, a, w) : x <= LoadGen(h, a, w)
         /\ LoadGen(h, a, w) \in 0..h.gen
<1>1. Dates(h, a, w) \in SUBSET (0..h.gen) /\ Dates(h, a, w) # {} /\ h.gen \in Nat
  BY DEF Dates, GensOK
<1>2. Max(Dates(h, a, w)) \in Dates(h, a, w) /\ \A x \in Dates(h, a, w) : x <= Max(Dates(h, a, w))
  BY <1>1, MaxIs
<1>3. LoadGen(h, a, w) = IF a < 0 THEN h.gen ELSE Max(Dates(h, a, w))
  BY DEF LoadGen, Dates
<1>4. h.gen \in 0..h.gen
  BY <1>1
<1> QED
  BY <1>1, <1>2, <1>3, <1>4

\* The same memory, as far as loads are dated.
SameGens(h, h2) == h2.gen = h.gen /\ h2.symGen = h.symGen /\ h2.cellGen = h.cellGen

(* With the same generations a load is dated the same.                        *)
LEMMA SameLoadGen ==
  ASSUME NEW h, NEW h2, SameGens(h, h2), NEW a, NEW w
  PROVE  LoadGen(h2, a, w) = LoadGen(h, a, w) /\ (GensOK(h) => GensOK(h2))
BY DEF SameGens, LoadGen, GensOK

\* A store through an address that is not known, and one through one that is.
Symbolic(h, h2) == h2.gen = h.gen + 1 /\ h2.symGen = h.gen + 1 /\ h2.cellGen = h.cellGen
Concrete(h, h2, a, w) ==
    /\ h2.gen = h.gen + 1 /\ h2.symGen = h.symGen
    /\ h2.cellGen = [c \in DOMAIN h.cellGen \cup Cells(a, w) |-> IF c \in Cells(a, w) THEN h.gen + 1 ELSE h.cellGen[c]]

(* A store through an address that is not known dates everything anew.        *)
LEMMA SymbolicDates ==
  ASSUME NEW h, GensOK(h), NEW h2, Symbolic(h, h2)
  PROVE  GensOK(h2) /\ \A a, w : LoadGen(h2, a, w) = h.gen + 1
<1>1. h.gen \in Nat
  BY DEF GensOK
<1>2. GensOK(h2)
  BY <1>1 DEF GensOK, Symbolic
<1> SUFFICES ASSUME NEW a, NEW w PROVE LoadGen(h2, a, w) = h.gen + 1
  BY <1>2
<1>3. CASE a < 0
  BY <1>2, <1>3, LoadGenIs DEF Symbolic
<1>4. CASE ~(a < 0)
  <2>1. h.gen + 1 \in Dates(h2, a, w)
    BY DEF Dates, Symbolic
  <2>2. LoadGen(h2, a, w) \in 0..(h.gen + 1) /\ h.gen + 1 <= LoadGen(h2, a, w)
    BY <1>2, <1>4, <2>1, LoadGenIs DEF Symbolic
  <2> QED
    BY <1>1, <2>2
<1> QED
  BY <1>3, <1>4

(* A store to a known address dates anew what it may have changed; what it    *)
(* does not date anew it has not touched.                                     *)
LEMMA ConcreteDates ==
  ASSUME NEW h, GensOK(h), NEW h2, NEW a \in Int, NEW w \in Nat, Concrete(h, h2, a, w), Given
  PROVE  /\ GensOK(h2)
         /\ \A b \in Int, n \in Nat :
               LoadGen(h2, b, n) # h.gen + 1 =>
                   ~(b < 0) /\ Span(b, n) \cap Span(a, w) = {} /\ LoadGen(h2, b, n) = LoadGen(h, b, n)
<1>1. h.gen \in Nat /\ Cell \in Nat /\ Cell # 0
  BY DEF GensOK, Given
<1>2. Cells(a, w) \subseteq Int
  BY <1>1 DEF Cells, Span
<1>3. GensOK(h2)
  <2>1. DOMAIN h2.cellGen \subseteq Int /\ h2.gen = h.gen + 1 /\ h2.symGen \in 0..h2.gen
    BY <1>1, <1>2 DEF GensOK, Concrete
  <2>2. \A c \in DOMAIN h2.cellGen : h2.cellGen[c] \in 0..h2.gen
    BY <1>1 DEF GensOK, Concrete
  <2> QED
    BY <1>1, <2>1, <2>2 DEF GensOK
<1> SUFFICES ASSUME NEW b \in Int, NEW n \in Nat, LoadGen(h2, b, n) # h.gen + 1
             PROVE  ~(b < 0) /\ Span(b, n) \cap Span(a, w) = {} /\ LoadGen(h2, b, n) = LoadGen(h, b, n)
  BY <1>3
<1>4. ~(b < 0)
  BY <1>3, LoadGenIs DEF Concrete
<1>5. Cells(b, n) \cap Cells(a, w) = {}
  <2> SUFFICES ASSUME NEW c \in Cells(b, n), c \in Cells(a, w) PROVE FALSE
    OBVIOUS
  <2>1. c \in DOMAIN h2.cellGen /\ h2.cellGen[c] = h.gen + 1
    BY DEF Concrete
  <2>2. h.gen + 1 \in Dates(h2, b, n)
    BY <2>1 DEF Dates
  <2>3. h.gen + 1 <= LoadGen(h2, b, n) /\ LoadGen(h2, b, n) \in 0..(h.gen + 1)
    BY <1>3, <1>4, <2>2, LoadGenIs DEF Concrete
  <2> QED
    BY <1>1, <2>3
<1>6. Span(b, n) \cap Span(a, w) = {}
  BY <1>5 DEF Cells
<1>7. Dates(h2, b, n) = Dates(h, b, n)
  <2>1. Cells(b, n) \cap DOMAIN h2.cellGen = Cells(b, n) \cap DOMAIN h.cellGen
    BY <1>5 DEF Concrete
  <2>2. \A c \in Cells(b, n) \cap DOMAIN h.cellGen : h2.cellGen[c] = h.cellGen[c]
    BY <1>5 DEF Concrete
  <2>3. h2.symGen = h.symGen
    BY DEF Concrete
  <2> QED
    BY <2>1, <2>2, <2>3 DEF Dates
<1>8. LoadGen(h2, b, n) = LoadGen(h, b, n)
  BY <1>4, <1>7 DEF LoadGen, Dates
<1> QED
  BY <1>4, <1>6, <1>8

-----------------------------------------------------------------------------
(* Addresses                                                                  *)

\* What the program says of the addresses that are not known.
WorldOK == world.pointer \in Nat /\ world.cond \in BOOLEAN /\ world.at[1] \in Nat /\ world.at[2] \in Nat

(* An address that is a number is itself; the other two are numbers of the    *)
(* world.                                                                     *)
LEMMA RealIs ==
  ASSUME WorldOK
  PROVE  /\ \A a \in Int : Real(a) \in Int /\ Real(Real(a)) = Real(a)
         /\ \A a \in Int : ~(a < 0) => Real(a) = a
         /\ \A a \in Addresses : Real(a) \in Nat
         /\ Real(Either) = world.at[1] \/ Real(Either) = world.at[2]
<1>1. \A a \in Int : Real(a) = IF a = -1 THEN world.pointer
                               ELSE IF a = -2 THEN (IF world.cond THEN world.at[2] ELSE world.at[1]) ELSE a
  BY DEF Real, Pointer, Either
<1> QED
  BY <1>1 DEF WorldOK, Addresses, Pointer, Either

-----------------------------------------------------------------------------
(* Memory                                                                     *)
Bytes(f) == \A b \in DOMAIN f : f[b] \in ByteSet

(* Memory holds bytes.                                                        *)
LEMMA FetchIs ==
  ASSUME NEW bytes, Bytes(bytes), NEW b \in Int
  PROVE  Fetch(bytes, b) \in ByteSet
BY DEF Bytes, Fetch, Image, Zero, Byte, ByteSet, Kinds

(* What the machine reads is a term of the width.                             *)
LEMMA ReadIs ==
  ASSUME WorldOK, NEW m, Bytes(m.bytes), NEW a \in Int, NEW w \in Nat
  PROVE  Read(m, a, w) \in Term(w)
<1>1. Real(a) \in Int
  BY RealIs
<1>2. \A j \in 1..w : Real(a) + j - 1 \in Int
  BY <1>1
<1> QED
  BY <1>2, FetchIs DEF Read, Term

(* Where nothing was written memory is what it was, elsewhere what was        *)
(* written.                                                                   *)
LEMMA FetchOver ==
  ASSUME NEW f, NEW bytes, NEW b
  PROVE  Fetch(Overlay(f, bytes), b) = IF b \in DOMAIN f THEN f[b] ELSE Fetch(bytes, b)
<1>1. DOMAIN Overlay(f, bytes) = DOMAIN f \cup DOMAIN bytes
  BY DEF Overlay
<1>2. \A x \in DOMAIN f \cup DOMAIN bytes : Overlay(f, bytes)[x] = IF x \in DOMAIN f THEN f[x] ELSE bytes[x]
  BY DEF Overlay
<1>3. CASE b \in DOMAIN f
  BY <1>1, <1>2, <1>3 DEF Fetch
<1>4. CASE b \notin DOMAIN f /\ b \in DOMAIN bytes
  BY <1>1, <1>2, <1>4 DEF Fetch
<1>5. CASE b \notin DOMAIN f /\ b \notin DOMAIN bytes
  BY <1>1, <1>5 DEF Fetch
<1> QED
  BY <1>3, <1>4, <1>5

(* Bytes over bytes are bytes.                                                *)
LEMMA OverBytes ==
  ASSUME NEW f, Bytes(f), NEW bytes, Bytes(bytes)
  PROVE  Bytes(Overlay(f, bytes)) /\ DOMAIN Overlay(f, bytes) = DOMAIN f \cup DOMAIN bytes
BY DEF Bytes, Overlay

(* Bytes that change unseen: those that are tracked or taken from the image   *)
(* are noted as loose.                                                        *)
LEMMA MemUnseen ==
  ASSUME NEW tk, NEW mem, NEW bytes, NEW lb, MemTrue(tk, mem, bytes, lb), NEW f, Bytes(f), NEW lb2, lb \subseteq lb2,
         \A b \in DOMAIN f : b \in DOMAIN mem \/ Region[b] \in {"ro", "bss"} => b \in lb2
  PROVE  MemTrue(tk, mem, Overlay(f, bytes), lb2)
<1>1. Bytes(Overlay(f, bytes)) /\ DOMAIN Overlay(f, bytes) = DOMAIN f \cup DOMAIN bytes
  BY OverBytes DEF MemTrue, Bytes
<1>2. ASSUME NEW b \in DOMAIN mem \ lb2
      PROVE  Tells(tk, mem[b].expr[mem[b].index + 1], Fetch(Overlay(f, bytes), b))
  <2>1. b \notin DOMAIN f /\ b \in DOMAIN mem \ lb
    OBVIOUS
  <2> QED
    BY <2>1, FetchOver DEF MemTrue
<1>3. ASSUME NEW b \in DOMAIN Overlay(f, bytes) \ (DOMAIN mem \cup lb2)
      PROVE  Region[b] \notin {"ro", "bss"}
  <2>1. b \in DOMAIN f \/ b \in DOMAIN bytes \ (DOMAIN mem \cup lb)
    BY <1>1
  <2> QED
    BY <2>1 DEF MemTrue
<1> QED
  BY <1>1, <1>2, <1>3 DEF MemTrue, Bytes

\* What is tracked is a byte of a term.
Holds(s, byte) == s.expr \in Seq(ByteSet) /\ s.index \in 0..(Len(s.expr) - 1) /\ s.expr[s.index + 1] = byte

(* What StoreConcrete leaves at a byte.                                       *)
LEMMA StoredDomain ==
  ASSUME NEW mem, NEW a \in Int, NEW n \in Nat, NEW t \in Term(n)
  PROVE  /\ DOMAIN StoreConcrete(mem, a, t) = DOMAIN mem \cup Span(a, n)
         /\ \A b \in DOMAIN mem : b \notin Span(a, n) => StoreConcrete(mem, a, t)[b] = mem[b]
<1>1. Len(t) = n
  BY TermIs
<1> QED
  BY <1>1 DEF StoreConcrete

(* A stored byte is tracked as a byte of the stored term, or as itself when   *)
(* the term is constant.                                                      *)
LEMMA StoredAt ==
  ASSUME NEW mem, NEW a \in Int, NEW n \in Nat, NEW t \in Term(n), NEW b \in Span(a, n)
  PROVE  Holds(StoreConcrete(mem, a, t)[b], t[b - a + 1])
<1>1. t \in Seq(ByteSet) /\ Len(t) = n /\ DOMAIN t = 1..n
  BY TermIs
<1>2. b \in Int /\ b - a + 1 \in 1..n /\ b - a \in 0..(n - 1) /\ (b - a) + 1 = b - a + 1
  BY DEF Span
<1>3. StoreConcrete(mem, a, t)[b] = IF AllConst(t) THEN [expr |-> <<t[b - a + 1]>>, index |-> 0]
                                    ELSE [expr |-> t, index |-> b - a]
  BY <1>1 DEF StoreConcrete
<1>4. CASE AllConst(t)
  <2>1. t[b - a + 1] \in ByteSet
    BY <1>2 DEF Term
  <2>2. <<t[b - a + 1]>> \in Seq(ByteSet) /\ Len(<<t[b - a + 1]>>) = 1
    BY <2>1
  <2> QED
    BY <1>3, <1>4, <2>2 DEF Holds
<1>5. CASE ~AllConst(t)
  BY <1>1, <1>2, <1>3, <1>5 DEF Holds
<1> QED
  BY <1>4, <1>5

(* A store at a known address: the bytes are tracked, and none of them is     *)
(* loose any more.                                                            *)
LEMMA MemStore ==
  ASSUME NEW tk, NEW mem, NEW bytes, NEW lb, MemTrue(tk, mem, bytes, lb),
         NEW a \in Int, NEW n \in Nat, NEW t, NEW v, Describes(tk, t, v, n),
         NEW f, DOMAIN f = Span(a, n), \A b \in Span(a, n) : f[b] = v[b - a + 1],
         NEW lb2, lb \ Span(a, n) \subseteq lb2
  PROVE  MemTrue(tk, StoreConcrete(mem, a, t), Overlay(f, bytes), lb2)
<1> DEFINE mem2 == StoreConcrete(mem, a, t)
           bytes2 == Overlay(f, bytes)
<1>1. t \in Term(n) /\ v \in Term(n) /\ \A j \in 1..n : Tells(tk, t[j], v[j])
  BY DEF Describes
<1>2. \A b \in Span(a, n) : b \in Int /\ b - a + 1 \in 1..n
  BY DEF Span
<1>3. Bytes(f) /\ Bytes(bytes)
  <2>1. \A j \in 1..n : v[j] \in ByteSet
    BY <1>1 DEF Term
  <2>2. \A b \in DOMAIN f : f[b] \in ByteSet
    BY <1>2, <2>1
  <2>3. Bytes(bytes)
    BY DEF MemTrue, Bytes
  <2> QED
    BY <2>2, <2>3 DEF Bytes
<1>4. Bytes(bytes2) /\ DOMAIN bytes2 = Span(a, n) \cup DOMAIN bytes
  BY <1>3, OverBytes
<1>5. /\ DOMAIN mem2 = DOMAIN mem \cup Span(a, n)
      /\ \A b \in DOMAIN mem : b \notin Span(a, n) => mem2[b] = mem[b]
  <2>1. t \in Term(n)
    BY <1>1
  <2> QED
    BY <2>1, StoredDomain
<1>6. DOMAIN mem2 \subseteq Int
  BY <1>2, <1>5 DEF MemTrue
<1>7. ASSUME NEW b \in DOMAIN mem2
      PROVE  /\ mem2[b].expr \in Seq(ByteSet) /\ mem2[b].index \in 0..(Len(mem2[b].expr) - 1)
             /\ b \notin lb2 => Tells(tk, mem2[b].expr[mem2[b].index + 1], Fetch(bytes2, b))
  <2>1. CASE b \in Span(a, n)
    <3>1. Holds(mem2[b], t[b - a + 1])
      BY <1>1, <2>1, StoredAt
    <3>2. Fetch(bytes2, b) = v[b - a + 1]
      BY <2>1, FetchOver
    <3>3. Tells(tk, t[b - a + 1], v[b - a + 1])
      BY <1>1, <1>2, <2>1
    <3> HIDE DEF mem2, bytes2
    <3> QED
      BY <3>1, <3>2, <3>3 DEF Holds
  <2>2. CASE b \notin Span(a, n)
    <3>1. b \in DOMAIN mem
      BY <1>5, <2>2
    <3>2. mem2[b] = mem[b]
      BY <1>5, <2>2, <3>1
    <3>3. Fetch(bytes2, b) = Fetch(bytes, b)
      BY <2>2, FetchOver
    <3>4. b \notin lb2 => b \notin lb
      BY <2>2
    <3> HIDE DEF mem2, bytes2
    <3> QED
      BY <3>1, <3>3, <3>4, <3>2 DEF MemTrue
  <2> QED
    BY <2>1, <2>2
<1>8. ASSUME NEW b \in DOMAIN bytes2 \ (DOMAIN mem2 \cup lb2)
      PROVE  Region[b] \notin {"ro", "bss"}
  <2>1. b \in DOMAIN bytes \ (DOMAIN mem \cup lb)
    BY <1>4, <1>5
  <2> QED
    BY <2>1 DEF MemTrue
<1> HIDE DEF mem2, bytes2
<1>9. MemTrue(tk, mem2, bytes2, lb2)
  BY <1>4, <1>6, <1>7, <1>8 DEF MemTrue, Bytes
<1> QED
  BY <1>9 DEF mem2, bytes2

(* A write at a known address of what the evaluator does not know: nothing is *)
(* tracked there, and what would be taken from the image is noted as loose.   *)
LEMMA MemForget ==
  ASSUME NEW tk, NEW mem, NEW bytes, NEW lb, MemTrue(tk, mem, bytes, lb),
         NEW a \in Int, NEW n \in Nat, NEW f, Bytes(f), DOMAIN f = Span(a, n),
         NEW lb2, lb \ Span(a, n) \subseteq lb2, \A b \in Span(a, n) : Region[b] \in {"ro", "bss"} => b \in lb2
  PROVE  MemTrue(tk, ForgetConcrete(mem, a, n), Overlay(f, bytes), lb2)
<1> DEFINE mem2 == ForgetConcrete(mem, a, n)
           bytes2 == Overlay(f, bytes)
<1>1. DOMAIN mem2 = DOMAIN mem \ Span(a, n) /\ \A b \in DOMAIN mem \ Span(a, n) : mem2[b] = mem[b]
  BY DEF ForgetConcrete
<1>2. Bytes(bytes2) /\ DOMAIN bytes2 = Span(a, n) \cup DOMAIN bytes
  BY OverBytes DEF MemTrue, Bytes
<1>3. ASSUME NEW b \in DOMAIN mem2
      PROVE  /\ mem2[b].expr \in Seq(ByteSet) /\ mem2[b].index \in 0..(Len(mem2[b].expr) - 1) /\ b \in Int
             /\ b \notin lb2 => Tells(tk, mem2[b].expr[mem2[b].index + 1], Fetch(bytes2, b))
  <2>1. b \in DOMAIN mem /\ b \notin Span(a, n) /\ mem2[b] = mem[b]
    BY <1>1
  <2>2. Fetch(bytes2, b) = Fetch(bytes, b)
    BY <2>1, FetchOver
  <2>3. b \notin lb2 => b \notin lb
    BY <2>1
  <2> HIDE DEF mem2, bytes2
  <2> QED
    BY <2>1, <2>2, <2>3 DEF MemTrue
<1>4. ASSUME NEW b \in DOMAIN bytes2 \ (DOMAIN mem2 \cup lb2)
      PROVE  Region[b] \notin {"ro", "bss"}
  <2>1. CASE b \in Span(a, n)
    BY <2>1
  <2>2. CASE b \notin Span(a, n)
    <3>1. b \in DOMAIN bytes \ (DOMAIN mem \cup lb)
      BY <1>1, <1>2, <2>2
    <3> QED
      BY <3>1 DEF MemTrue
  <2> QED
    BY <2>1, <2>2
<1> HIDE DEF mem2, bytes2
<1>5. MemTrue(tk, mem2, bytes2, lb2)
  BY <1>2, <1>3, <1>4 DEF MemTrue, Bytes
<1> QED
  BY <1>5 DEF mem2, bytes2

(* A load that resolves, is not torn and does not take a byte of the image    *)
(* that the program writes, is of what memory holds.                          *)
LEMMA LoadConcreteIs ==
  ASSUME NEW tk, NEW mem, NEW bytes, NEW lb, MemTrue(tk, mem, bytes, lb),
         NEW a \in Int, NEW w \in Nat, Resolves(mem, a, w), ~Torn(mem, a, w),
         \A b \in Span(a, w) \ DOMAIN mem : Region[b] # "data",
         Span(a, w) \cap lb = {}
  PROVE  Describes(tk, LoadConcrete(mem, a, w), [k \in 1..w |-> Fetch(bytes, a + k - 1)], w)
<1>1. ASSUME NEW k \in 1..w
      PROVE  /\ Tells(tk, LoadConcrete(mem, a, w)[k], Fetch(bytes, a + k - 1))
  <2> DEFINE b == a + k - 1
             s == Source(mem, a, k - 1)
             p == Place(mem, a, k - 1, w)
  <2>1. k - 1 \in 0..(w - 1) /\ a + (k - 1) = b /\ b \in Span(a, w) /\ b \in Int
    BY DEF Span
  <2>2. ~(p >= w) /\ p = s.index
    BY <2>1 DEF Torn
  <2>3. s = IF b \in DOMAIN mem THEN mem[b] ELSE [expr |-> <<Image(b)>>, index |-> 0]
    BY <2>1 DEF Source
  <2>4. s.index \in Nat /\ s.index < Len(s.expr) /\ Tells(tk, s.expr[s.index + 1], Fetch(bytes, b))
    <3>1. CASE b \in DOMAIN mem
      <4>1. s.expr \in Seq(ByteSet) /\ s.index \in 0..(Len(s.expr) - 1)
        BY <2>3, <3>1 DEF MemTrue
      <4>2. Tells(tk, s.expr[s.index + 1], Fetch(bytes, b))
        BY <2>1, <2>3, <3>1 DEF MemTrue
      <4>3. Len(s.expr) \in Nat
        BY <4>1
      <4> HIDE DEF s, b
      <4>4. s.index \in Nat /\ s.index < Len(s.expr)
        BY <4>1, <4>3
      <4> QED
        BY <4>2, <4>4
    <3>2. CASE b \notin DOMAIN mem
      <4>1. Region[b] \in {"ro", "bss"}
        BY <2>1, <3>2 DEF Resolves, HasImage
      <4>2. b \notin DOMAIN bytes
        BY <2>1, <3>2, <4>1 DEF MemTrue
      <4>3. Fetch(bytes, b) = Image(b)
        BY <4>1, <4>2 DEF Fetch
      <4>4. Tells(tk, Image(b), Image(b))
        BY <2>1 DEF Tells, Image, Zero, Byte, ByteSet, Kinds
      <4>5. s.expr = <<Image(b)>> /\ s.index = 0
        BY <2>3, <3>2
      <4> HIDE DEF s, b
      <4> QED
        BY <4>3, <4>4, <4>5
    <3> QED
      BY <3>1, <3>2
  <2>5. LoadConcrete(mem, a, w)[k] = IF p < w /\ p < Len(s.expr) THEN s.expr[p + 1] ELSE Zero
    BY DEF LoadConcrete
  <2>6. p < w
    BY <2>2, <2>4
  <2> HIDE DEF b, s, p
  <2>7. LoadConcrete(mem, a, w)[k] = s.expr[s.index + 1]
    BY <2>2, <2>4, <2>5, <2>6
  <2>8. Tells(tk, LoadConcrete(mem, a, w)[k], Fetch(bytes, b))
    BY <2>4, <2>7
  <2> QED
    BY <2>8 DEF b
<1>2. DOMAIN LoadConcrete(mem, a, w) = 1..w /\ LoadConcrete(mem, a, w) = [k \in 1..w |-> LoadConcrete(mem, a, w)[k]]
  BY DEF LoadConcrete
<1>3. \A k \in 1..w : LoadConcrete(mem, a, w)[k] \in ByteSet /\ Fetch(bytes, a + k - 1) \in ByteSet
  BY <1>1 DEF Tells
<1>4. LoadConcrete(mem, a, w) \in Term(w) /\ [k \in 1..w |-> Fetch(bytes, a + k - 1)] \in Term(w)
  BY <1>2, <1>3 DEF Term
<1> QED
  BY <1>1, <1>4 DEF Describes

-----------------------------------------------------------------------------
(* Loads that did not resolve                                                 *)

(* A load that was made has an address, a width and a generation; if it would *)
(* be the same node now, it would read the same.                              *)
LEMMA LoadTrueIs ==
  ASSUME NEW tk, NEW h, NEW m, NEW lb, LoadsTrue(tk, h, m, lb), NEW k \in DOMAIN tk
  PROVE  /\ k \in Int \X Nat \X (0..h.gen) /\ k[1] \in Int /\ k[2] \in Nat /\ k[3] \in 0..h.gen /\ tk[k] \in Term(k[2])
         /\ LoadGen(h, k[1], k[2]) = k[3] /\ Span(Real(k[1]), k[2]) \cap lb = {} => tk[k] = Read(m, k[1], k[2])
BY DEF LoadsTrue

(* A read elsewhere than the write reads what it did.                         *)
LEMMA ReadOver ==
  ASSUME WorldOK, NEW f, NEW m, NEW m2, m2.bytes = Overlay(f, m.bytes), NEW a \in Int, NEW w \in Nat,
         Span(Real(a), w) \cap DOMAIN f = {}
  PROVE  Read(m2, a, w) = Read(m, a, w)
<1>1. Real(a) \in Int
  BY RealIs
<1>2. \A j \in 1..w : Real(a) + j - 1 \in Span(Real(a), w)
  BY <1>1 DEF Span
<1>3. \A j \in 1..w : Fetch(m2.bytes, Real(a) + j - 1) = Fetch(m.bytes, Real(a) + j - 1)
  BY <1>2, FetchOver
<1> QED
  BY <1>3 DEF Read

(* After a store through an address that is not known no load is the same     *)
(* node any more; after one through a known address only a load of bytes that *)
(* were not stored.                                                           *)
LEMMA LoadsSymbolic ==
  ASSUME NEW tk, NEW h, NEW m, NEW lb, LoadsTrue(tk, h, m, lb), GensOK(h), NEW h2, Symbolic(h, h2), NEW m2, NEW lb2
  PROVE  LoadsTrue(tk, h2, m2, lb2)
<1> SUFFICES ASSUME NEW k \in DOMAIN tk
             PROVE  /\ k \in Int \X Nat \X (0..h2.gen) /\ tk[k] \in Term(k[2])
                    /\ LoadGen(h2, k[1], k[2]) # k[3]
  BY DEF LoadsTrue
<1>1. k \in Int \X Nat \X (0..h.gen) /\ k[3] \in 0..h.gen /\ tk[k] \in Term(k[2])
  BY LoadTrueIs
<1>2. h.gen \in Nat /\ h2.gen = h.gen + 1
  BY DEF GensOK, Symbolic
<1>3. LoadGen(h2, k[1], k[2]) = h.gen + 1
  BY SymbolicDates
<1>4. 0..h.gen \subseteq 0..h2.gen /\ h.gen + 1 # k[3]
  BY <1>1, <1>2
<1> QED
  BY <1>1, <1>3, <1>4

(* A store at a known address dates anew every load it can change.            *)
LEMMA LoadsConcrete ==
  ASSUME Given, WorldOK, NEW tk, NEW h, NEW m, NEW lb, LoadsTrue(tk, h, m, lb), GensOK(h),
         NEW a \in Int, NEW n \in Nat, NEW h2, Concrete(h, h2, a, n),
         NEW f, DOMAIN f = Span(a, n), NEW m2, m2.bytes = Overlay(f, m.bytes), NEW lb2, lb \ Span(a, n) \subseteq lb2
  PROVE  LoadsTrue(tk, h2, m2, lb2)
<1> SUFFICES ASSUME NEW k \in DOMAIN tk
             PROVE  /\ k \in Int \X Nat \X (0..h2.gen) /\ tk[k] \in Term(k[2])
                    /\ LoadGen(h2, k[1], k[2]) = k[3] /\ Span(Real(k[1]), k[2]) \cap lb2 = {} => tk[k] = Read(m2, k[1], k[2])
  BY DEF LoadsTrue
<1>1. k \in Int \X Nat \X (0..h.gen) /\ k[1] \in Int /\ k[2] \in Nat /\ k[3] \in 0..h.gen /\ tk[k] \in Term(k[2])
  BY LoadTrueIs
<1>2. LoadGen(h, k[1], k[2]) = k[3] /\ Span(Real(k[1]), k[2]) \cap lb = {} => tk[k] = Read(m, k[1], k[2])
  BY LoadTrueIs
<1>3. h.gen \in Nat /\ h2.gen = h.gen + 1
  BY DEF GensOK, Concrete
<1>4. 0..h.gen \subseteq 0..h2.gen /\ h.gen + 1 # k[3]
  BY <1>1, <1>3
<1>5. ASSUME LoadGen(h2, k[1], k[2]) = k[3], Span(Real(k[1]), k[2]) \cap lb2 = {}
      PROVE  tk[k] = Read(m2, k[1], k[2])
  <2>1. /\ ~(k[1] < 0) /\ Span(k[1], k[2]) \cap Span(a, n) = {}
        /\ LoadGen(h2, k[1], k[2]) = LoadGen(h, k[1], k[2])
    BY <1>1, <1>4, <1>5, ConcreteDates
  <2>2. Real(k[1]) = k[1]
    BY <1>1, <2>1, RealIs
  <2>3. Span(Real(k[1]), k[2]) \cap lb = {}
    BY <1>5, <2>1, <2>2
  <2>4. tk[k] = Read(m, k[1], k[2])
    BY <1>5, <1>2, <2>1, <2>3
  <2>5. Read(m2, k[1], k[2]) = Read(m, k[1], k[2])
    BY <1>1, <2>1, <2>2, ReadOver
  <2> QED
    BY <2>4, <2>5
<1> QED
  BY <1>1, <1>4, <1>5

(* Where no load is dated anew, what changes is loose.                        *)
LEMMA LoadsUnseen ==
  ASSUME WorldOK, NEW tk, NEW h, NEW m, NEW lb, LoadsTrue(tk, h, m, lb), NEW h2, SameGens(h, h2),
         NEW f, NEW m2, m2.bytes = Overlay(f, m.bytes), NEW lb2, lb \subseteq lb2, DOMAIN f \subseteq lb2
  PROVE  LoadsTrue(tk, h2, m2, lb2)
<1> SUFFICES ASSUME NEW k \in DOMAIN tk
             PROVE  /\ k \in Int \X Nat \X (0..h2.gen) /\ tk[k] \in Term(k[2])
                    /\ LoadGen(h2, k[1], k[2]) = k[3] /\ Span(Real(k[1]), k[2]) \cap lb2 = {} => tk[k] = Read(m2, k[1], k[2])
  BY DEF LoadsTrue
<1>1. k \in Int \X Nat \X (0..h.gen) /\ k[1] \in Int /\ k[2] \in Nat /\ tk[k] \in Term(k[2])
  BY LoadTrueIs
<1>2. LoadGen(h, k[1], k[2]) = k[3] /\ Span(Real(k[1]), k[2]) \cap lb = {} => tk[k] = Read(m, k[1], k[2])
  BY LoadTrueIs
<1>3. h2.gen = h.gen /\ LoadGen(h2, k[1], k[2]) = LoadGen(h, k[1], k[2])
  BY SameLoadGen DEF SameGens
<1>4. ASSUME LoadGen(h2, k[1], k[2]) = k[3], Span(Real(k[1]), k[2]) \cap lb2 = {}
      PROVE  tk[k] = Read(m2, k[1], k[2])
  <2>1. Span(Real(k[1]), k[2]) \cap lb = {} /\ Span(Real(k[1]), k[2]) \cap DOMAIN f = {}
    BY <1>4
  <2>2. tk[k] = Read(m, k[1], k[2])
    BY <1>3, <1>4, <1>2, <2>1
  <2>3. Read(m2, k[1], k[2]) = Read(m, k[1], k[2])
    BY <1>1, <2>1, ReadOver
  <2> QED
    BY <2>2, <2>3
<1> QED
  BY <1>1, <1>3, <1>4

(* Nothing was written: the loads are as they were.                           *)
LEMMA LoadsSame ==
  ASSUME NEW tk, NEW h, NEW m, NEW lb, LoadsTrue(tk, h, m, lb), NEW h2, SameGens(h, h2),
         NEW m2, m2.bytes = m.bytes, NEW lb2, lb \subseteq lb2
  PROVE  LoadsTrue(tk, h2, m2, lb2)
<1> SUFFICES ASSUME NEW k \in DOMAIN tk
             PROVE  /\ k \in Int \X Nat \X (0..h2.gen) /\ tk[k] \in Term(k[2])
                    /\ LoadGen(h2, k[1], k[2]) = k[3] /\ Span(Real(k[1]), k[2]) \cap lb2 = {} => tk[k] = Read(m2, k[1], k[2])
  BY DEF LoadsTrue
<1>1. k \in Int \X Nat \X (0..h.gen) /\ tk[k] \in Term(k[2])
  BY LoadTrueIs
<1>2. h2.gen = h.gen /\ LoadGen(h2, k[1], k[2]) = LoadGen(h, k[1], k[2])
  BY SameLoadGen DEF SameGens
<1>3. Read(m2, k[1], k[2]) = Read(m, k[1], k[2])
  BY DEF Read
<1>4. Span(Real(k[1]), k[2]) \cap lb2 = {} => Span(Real(k[1]), k[2]) \cap lb = {}
  OBVIOUS
<1> QED
  BY <1>1, <1>2, <1>3, <1>4, LoadTrueIs

\* What has been taken once loads of these keys were made.
Noted(tk, m, keys) == [k \in DOMAIN tk \cup keys |-> IF k \in DOMAIN tk THEN tk[k] ELSE Read(m, k[1], k[2])]

\* A node that is new has the generation of now.
New(h, k) == k \in Int \X Nat \X (0..h.gen) /\ LoadGen(h, k[1], k[2]) = k[3]

(* Loads that are made now read what memory holds now.                        *)
LEMMA LoadsNoted ==
  ASSUME WorldOK, NEW tk, NEW h, NEW m, NEW lb, LoadsTrue(tk, h, m, lb), Bytes(m.bytes),
         NEW keys, \A k \in keys : k \in DOMAIN tk \/ New(h, k)
  PROVE  LoadsTrue(Noted(tk, m, keys), h, m, lb)
<1> DEFINE tk2 == Noted(tk, m, keys)
<1>1. /\ DOMAIN tk2 = DOMAIN tk \cup keys /\ \A k \in DOMAIN tk : tk2[k] = tk[k]
      /\ \A k \in keys : k \notin DOMAIN tk => tk2[k] = Read(m, k[1], k[2])
  BY DEF Noted
<1> SUFFICES ASSUME NEW k \in DOMAIN tk2
             PROVE  /\ k \in Int \X Nat \X (0..h.gen) /\ tk2[k] \in Term(k[2])
                    /\ LoadGen(h, k[1], k[2]) = k[3] /\ Span(Real(k[1]), k[2]) \cap lb = {} => tk2[k] = Read(m, k[1], k[2])
  BY DEF LoadsTrue
<1>2. CASE k \in DOMAIN tk
  <2>1. tk2[k] = tk[k]
    BY <1>2, <1>1
  <2> HIDE DEF tk2
  <2> QED
    BY <1>2, <2>1, LoadTrueIs
<1>3. CASE k \notin DOMAIN tk
  <2>1. k \in keys /\ tk2[k] = Read(m, k[1], k[2])
    BY <1>3, <1>1
  <2>2. New(h, k)
    BY <1>3, <2>1
  <2>3. k \in Int \X Nat \X (0..h.gen) /\ k[1] \in Int /\ k[2] \in Nat
    BY <2>2 DEF New
  <2>4. Read(m, k[1], k[2]) \in Term(k[2])
    BY <2>3, ReadIs
  <2> HIDE DEF tk2
  <2> QED
    BY <2>1, <2>3, <2>4
<1> QED
  BY <1>2, <1>3

-----------------------------------------------------------------------------
(* What a load gives                                                          *)

\* A load that is none of those the evaluator gets wrong.
Safe(h, lb, at, w) ==
    /\ Span(Real(at), w) \cap lb = {}
    /\ (PinnedAddress(h, at) >= 0 \/ Splits(h, at, w)) /\ Resolves(h.mem, Real(at), w) =>
           ~Torn(h.mem, Real(at), w) /\ \A b \in Span(Real(at), w) \ DOMAIN h.mem : Region[b] # "data"

(* A load either resolves, to the bytes of the address it has, or opens.      *)
LEMMA LoadCases ==
  ASSUME WorldOK, NEW h, NEW at \in Int, NEW w \in Nat
  PROVE  \/ /\ PinnedAddress(h, at) >= 0 \/ Splits(h, at, w)
            /\ Resolves(h.mem, Real(at), w) /\ Load(h, at, w) = LoadConcrete(h.mem, Real(at), w)
         \/ /\ PinnedAddress(h, at) \in Int /\ Real(PinnedAddress(h, at)) = Real(at)
            /\ Load(h, at, w) = Opened(h, PinnedAddress(h, at), w)
<1> DEFINE a == PinnedAddress(h, at)
<1>1. a \in Int /\ Real(a) = Real(at)
  BY RealIs DEF PinnedAddress
<1>2. Load(h, at, w) = IF a >= 0 /\ Resolves(h.mem, a, w) THEN LoadConcrete(h.mem, a, w)
                       ELSE IF a < 0 /\ Splits(h, a, w) THEN LoadConcrete(h.mem, Real(a), w) ELSE Opened(h, a, w)
  BY <1>1 DEF Load
<1>3. CASE a >= 0 /\ Resolves(h.mem, a, w)
  <2>1. a = Real(at)
    BY <1>1, <1>3, RealIs
  <2> QED
    BY <1>2, <1>3, <2>1
<1>4. CASE a < 0 /\ Splits(h, a, w)
  <2>1. a = at /\ a = Either
    <3>1. a = Either
      BY <1>4 DEF Splits
    <3>2. at = Either /\ h.pinned => a = Real(Either) /\ Real(Either) \in Nat
      BY RealIs DEF PinnedAddress, Addresses
    <3>3. ~(at = Either /\ h.pinned) => a = at
      BY DEF PinnedAddress
    <3> HIDE DEF a
    <3> QED
      BY <1>4, <3>1, <3>2, <3>3
  <2>2. Resolves(h.mem, world.at[1], w) /\ Resolves(h.mem, world.at[2], w)
    BY <1>4 DEF Splits
  <2>3. Resolves(h.mem, Real(at), w)
    BY <2>1, <2>2, RealIs
  <2>4. ~(a >= 0)
    BY <1>1, <1>4
  <2> HIDE DEF a
  <2>5. Load(h, at, w) = LoadConcrete(h.mem, Real(at), w)
    BY <1>2, <1>4, <2>1, <2>4
  <2> QED
    BY <1>4, <2>1, <2>3, <2>5
<1>5. CASE ~(a >= 0 /\ Resolves(h.mem, a, w)) /\ ~(a < 0 /\ Splits(h, a, w))
  BY <1>1, <1>2, <1>5
<1> QED
  BY <1>3, <1>4, <1>5

(* The node a load that opens is of: it is new, or an earlier load that would *)
(* read the same now.                                                         *)
LEMMA OpenedIs ==
  ASSUME WorldOK, NEW h, GensOK(h), NEW m, Bytes(m.bytes), NEW a \in Int, NEW w \in Nat
  PROVE  /\ \A k \in Keys(Opened(h, a, w)) : New(h, k)
         /\ \A tk2, lb : LoadsTrue(tk2, h, m, lb) /\ Span(Real(a), w) \cap lb = {} /\ Keys(Opened(h, a, w)) \subseteq DOMAIN tk2 =>
                Describes(tk2, Opened(h, a, w), Read(m, a, w), w)
<1> DEFINE g == LoadGen(h, a, w)
           k == <<a, w, g>>
<1>1. g \in 0..h.gen /\ h.gen \in Nat
  BY LoadGenIs DEF GensOK
<1>2. New(h, k)
  BY <1>1 DEF New
<1>3. DOMAIN Opened(h, a, w) = 1..w /\ \A j \in 1..w : Opened(h, a, w)[j] = LoadByte(a, w, g, j)
  BY DEF Opened
<1>4. Opened(h, a, w) = [j \in 1..w |-> LoadByte(a, w, g, j)]
  BY DEF Opened
<1> HIDE DEF g
<1>5. \A j \in 1..w : /\ LoadByte(a, w, g, j) \in ByteSet /\ LoadByte(a, w, g, j).of = "load"
                      /\ Key(LoadByte(a, w, g, j)) = k /\ LoadByte(a, w, g, j).i = j /\ LoadByte(a, w, g, j).w = w
  BY <1>1 DEF LoadByte, ByteSet, Kinds, Key
<1>6. Keys(Opened(h, a, w)) \subseteq {k} /\ (w # 0 => k \in Keys(Opened(h, a, w)))
  <2>1. \A j \in DOMAIN Opened(h, a, w) : Opened(h, a, w)[j].of = "load" /\ Key(Opened(h, a, w)[j]) = k
    BY <1>3, <1>5
  <2>2. w # 0 => 1 \in DOMAIN Opened(h, a, w)
    BY <1>3
  <2> HIDE DEF k
  <2> QED
    BY <2>1, <2>2 DEF Keys
<1>7. ASSUME NEW tk2, NEW lb, LoadsTrue(tk2, h, m, lb), Span(Real(a), w) \cap lb = {}, Keys(Opened(h, a, w)) \subseteq DOMAIN tk2
      PROVE  Describes(tk2, Opened(h, a, w), Read(m, a, w), w)
  <2>1. Opened(h, a, w) \in Term(w) /\ Read(m, a, w) \in Term(w)
    BY <1>4, <1>5, ReadIs DEF Term
  <2>2. ASSUME NEW j \in 1..w PROVE Tells(tk2, Opened(h, a, w)[j], Read(m, a, w)[j])
    <3>1. k \in DOMAIN tk2
      BY <1>6, <1>7
    <3>2. tk2[k] = Read(m, a, w)
      <4>1. LoadGen(h, k[1], k[2]) = k[3] /\ k[1] = a /\ k[2] = w
        BY DEF g
      <4>2. LoadGen(h, k[1], k[2]) = k[3] /\ Span(Real(k[1]), k[2]) \cap lb = {} => tk2[k] = Read(m, k[1], k[2])
        BY <1>7, <3>1, LoadTrueIs
      <4> HIDE DEF k
      <4> QED
        BY <1>7, <4>1, <4>2
    <3>3. Opened(h, a, w)[j] = LoadByte(a, w, g, j)
      BY <1>3
    <3>4. Opened(h, a, w)[j] \in ByteSet /\ Read(m, a, w)[j] \in ByteSet
      BY <2>1 DEF Term
    <3> HIDE DEF k
    <3> QED
      BY <1>5, <3>1, <3>2, <3>3, <3>4 DEF Tells
  <2> QED
    BY <2>1, <2>2 DEF Describes
<1> QED
  BY <1>2, <1>6, <1>7

(* A load that is safe gives a term of what memory holds, whether it resolves *)
(* or opens.                                                                  *)
LEMMA LoadIs ==
  ASSUME WorldOK, NEW tk, NEW h, NEW m, NEW lb, GensOK(h), MemTrue(tk, h.mem, m.bytes, lb), LoadsTrue(tk, h, m, lb),
         NEW at \in Int, NEW w \in Nat, Safe(h, lb, at, w)
  PROVE  /\ \A k \in Keys(Load(h, at, w)) : k \in DOMAIN tk \/ New(h, k)
         /\ \A tk2 : Extends(tk, tk2) /\ LoadsTrue(tk2, h, m, lb) /\ Keys(Load(h, at, w)) \subseteq DOMAIN tk2 =>
                Describes(tk2, Load(h, at, w), Read(m, at, w), w)
<1> DEFINE a == PinnedAddress(h, at)
<1>1. Bytes(m.bytes) /\ Real(at) \in Int
  BY RealIs DEF MemTrue, Bytes
<1>2. Read(m, at, w) = [j \in 1..w |-> Fetch(m.bytes, Real(at) + j - 1)]
  BY DEF Read
<1>3. CASE /\ PinnedAddress(h, at) >= 0 \/ Splits(h, at, w)
           /\ Resolves(h.mem, Real(at), w) /\ Load(h, at, w) = LoadConcrete(h.mem, Real(at), w)
  <2>1. /\ Span(Real(at), w) \cap lb = {} /\ ~Torn(h.mem, Real(at), w)
        /\ \A b \in Span(Real(at), w) \ DOMAIN h.mem : Region[b] # "data"
    BY <1>3 DEF Safe
  <2>2. Describes(tk, Load(h, at, w), [j \in 1..w |-> Fetch(m.bytes, Real(at) + j - 1)], w)
    BY <1>1, <1>3, <2>1, LoadConcreteIs
  <2>3. Describes(tk, Load(h, at, w), Read(m, at, w), w)
    BY <1>2, <2>2
  <2> QED
    BY <2>3, KeysKnown, DescribesMore
<1>4. CASE /\ a \in Int /\ Real(a) = Real(at)
           /\ Load(h, at, w) = Opened(h, a, w)
  <2>1. Read(m, a, w) = Read(m, at, w)
    BY <1>4 DEF Read
  <2>2. Span(Real(a), w) \cap lb = {}
    BY <1>4 DEF Safe
  <2> HIDE DEF a
  <2>3. \A k \in Keys(Opened(h, a, w)) : New(h, k)
    BY <1>1, <1>4, OpenedIs
  <2>4. \A tk2 : LoadsTrue(tk2, h, m, lb) /\ Span(Real(a), w) \cap lb = {} /\ Keys(Opened(h, a, w)) \subseteq DOMAIN tk2 =>
                     Describes(tk2, Opened(h, a, w), Read(m, a, w), w)
    BY <1>1, <1>4, OpenedIs
  <2> QED
    BY <1>4, <2>1, <2>2, <2>3, <2>4
<1> QED
  BY <1>3, <1>4, LoadCases

-----------------------------------------------------------------------------
(* Stores                                                                     *)
SameRest(h, h2) == /\ h2.regs = h.regs /\ h2.xmm = h.xmm /\ h2.sp = h.sp
                   /\ h2.pinned = h.pinned /\ h2.args = h.args /\ h2.opaques = h.opaques

(* What a store and a write of something unknown leave of the evaluator.      *)
LEMMA StoreIs ==
  ASSUME NEW h, IsHeld(h), NEW at, NEW t, NEW n
  PROVE  /\ IsHeld(Store(h, at, t)) /\ SameRest(h, Store(h, at, t))
         /\ at >= 0 => /\ Store(h, at, t).mem = StoreConcrete(h.mem, at, t)
                       /\ Concrete(h, Store(h, at, t), at, Len(t))
         /\ ~(at >= 0) => Store(h, at, t).mem = h.mem /\ Symbolic(h, Store(h, at, t))
         /\ IsHeld(ForgetMemory(h, at, n)) /\ SameRest(h, ForgetMemory(h, at, n))
         /\ at >= 0 => /\ ForgetMemory(h, at, n).mem = ForgetConcrete(h.mem, at, n)
                       /\ Concrete(h, ForgetMemory(h, at, n), at, n)
         /\ ~(at >= 0) => ForgetMemory(h, at, n).mem = h.mem /\ Symbolic(h, ForgetMemory(h, at, n))
<1> DEFINE mid == [h EXCEPT !.mem = StoreConcrete(h.mem, at, t)]
           gone == [h EXCEPT !.mem = ForgetConcrete(h.mem, at, n)]
<1>1. /\ IsHeld(mid) /\ SameRest(h, mid) /\ SameGens(h, mid) /\ mid.mem = StoreConcrete(h.mem, at, t)
      /\ IsHeld(gone) /\ SameRest(h, gone) /\ SameGens(h, gone) /\ gone.mem = ForgetConcrete(h.mem, at, n)
  BY DEF IsHeld, SameRest, SameGens
<1>2. ASSUME NEW x, IsHeld(x), NEW k
      PROVE  /\ IsHeld(NoteConcrete(x, at, k)) /\ SameRest(x, NoteConcrete(x, at, k)) /\ NoteConcrete(x, at, k).mem = x.mem
             /\ Concrete(x, NoteConcrete(x, at, k), at, k)
             /\ IsHeld(NoteSymbolic(x)) /\ SameRest(x, NoteSymbolic(x)) /\ NoteSymbolic(x).mem = x.mem
             /\ Symbolic(x, NoteSymbolic(x))
  <2> DEFINE cg == [c \in DOMAIN x.cellGen \cup Cells(at, k) |-> IF c \in Cells(at, k) THEN x.gen + 1 ELSE x.cellGen[c]]
             y == NoteConcrete(x, at, k)
             z == NoteSymbolic(x)
  <2>1. y = [x EXCEPT !.gen = x.gen + 1, !.cellGen = cg] /\ z = [x EXCEPT !.gen = x.gen + 1, !.symGen = x.gen + 1]
    BY DEF NoteConcrete, NoteSymbolic
  <2> HIDE DEF cg, y, z
  <2>2. IsHeld(y) /\ SameRest(x, y) /\ y.mem = x.mem /\ y.gen = x.gen + 1 /\ y.symGen = x.symGen /\ y.cellGen = cg
    BY <1>2, <2>1 DEF IsHeld, SameRest
  <2>3. IsHeld(z) /\ SameRest(x, z) /\ z.mem = x.mem /\ z.gen = x.gen + 1 /\ z.symGen = x.gen + 1 /\ z.cellGen = x.cellGen
    BY <1>2, <2>1 DEF IsHeld, SameRest
  <2>4. Concrete(x, y, at, k)
    BY <2>2 DEF Concrete, cg
  <2>5. Symbolic(x, z)
    BY <2>3 DEF Symbolic
  <2> QED
    BY <2>2, <2>3, <2>4, <2>5 DEF y, z
<1>3. /\ Store(h, at, t) = IF at >= 0 THEN NoteConcrete(mid, at, Len(t)) ELSE NoteSymbolic(h)
      /\ ForgetMemory(h, at, n) = IF at >= 0 THEN NoteConcrete(gone, at, n) ELSE NoteSymbolic(h)
  BY DEF Store, ForgetMemory
<1> HIDE DEF mid, gone
<1>4. CASE at >= 0
  <2>1. Store(h, at, t) = NoteConcrete(mid, at, Len(t)) /\ ForgetMemory(h, at, n) = NoteConcrete(gone, at, n)
    BY <1>3, <1>4
  <2>2. /\ IsHeld(NoteConcrete(mid, at, Len(t))) /\ SameRest(mid, NoteConcrete(mid, at, Len(t)))
        /\ NoteConcrete(mid, at, Len(t)).mem = mid.mem /\ Concrete(mid, NoteConcrete(mid, at, Len(t)), at, Len(t))
    BY <1>1, <1>2
  <2>3. /\ IsHeld(NoteConcrete(gone, at, n)) /\ SameRest(gone, NoteConcrete(gone, at, n))
        /\ NoteConcrete(gone, at, n).mem = gone.mem /\ Concrete(gone, NoteConcrete(gone, at, n), at, n)
    BY <1>1, <1>2
  <2> QED
    BY <1>1, <1>4, <2>1, <2>2, <2>3 DEF SameRest, SameGens, Concrete
<1>5. CASE ~(at >= 0)
  BY <1>2, <1>3, <1>5
<1> QED
  BY <1>4, <1>5

\* Bytes that may have changed unseen when n of them were written through an address that is not known.
Lost(mem, lb, at, n, lb2) ==
    lb \subseteq lb2 /\ \A b \in Span(Real(at), n) : b \in DOMAIN mem \/ Region[b] \in {"ro", "bss"} => b \in lb2

\* Bytes v over those of m.
Fills(f, m, m2, at, n, v) ==
    /\ m2.bytes = Overlay(f, m.bytes) /\ Bytes(f) /\ DOMAIN f = Span(Real(at), n)
    /\ \A b \in Span(Real(at), n) : f[b] = v[b - Real(at) + 1]
    /\ IsMachine(m2) /\ m2.regs = m.regs /\ m2.xmm = m.xmm

(* The machine has the bytes that were written over those it had.             *)
LEMMA WrittenIs ==
  ASSUME NEW m, IsMachine(m), NEW at, NEW n \in Nat, NEW v \in Term(n), WorldOK, at \in Int
  PROVE  \E f : Fills(f, m, Written(m, at, v), at, n, v)
<1> DEFINE f == [b \in Span(Real(at), n) |-> v[b - Real(at) + 1]]
<1>1. Len(v) = n
  BY TermIs
<1>2. Real(at) \in Int
  BY RealIs
<1>3. \A b \in Span(Real(at), n) : b - Real(at) + 1 \in 1..n
  BY <1>2 DEF Span
<1>4. Bytes(f) /\ DOMAIN f = Span(Real(at), n) /\ \A b \in Span(Real(at), n) : f[b] = v[b - Real(at) + 1]
  BY <1>3 DEF Bytes, Term
<1>5. Written(m, at, v) = [m EXCEPT !.bytes = Overlay(f, m.bytes)]
  BY <1>1 DEF Written
<1> HIDE DEF f
<1>6. /\ Written(m, at, v).bytes = Overlay(f, m.bytes)
      /\ IsMachine(Written(m, at, v)) /\ Written(m, at, v).regs = m.regs /\ Written(m, at, v).xmm = m.xmm
  BY <1>5 DEF IsMachine
<1> QED
  BY <1>4, <1>6 DEF Fills

(* A store of a term that describes the value stored keeps what is held of    *)
(* memory true.                                                               *)
LEMMA StoreKeeps ==
  ASSUME Given, WorldOK, NEW tk, NEW h, NEW m, NEW lb, Memory(tk, h, m, lb), NEW at \in Int, NEW n \in Nat,
         NEW t, NEW v, Describes(tk, t, v, n), NEW lb2,
         at >= 0 => lb \ Span(at, n) \subseteq lb2, ~(at >= 0) => Lost(h.mem, lb, at, n, lb2)
  PROVE  /\ Memory(tk, Store(h, at, t), Written(m, at, v), lb2) /\ SameRest(h, Store(h, at, t))
         /\ Written(m, at, v).regs = m.regs /\ Written(m, at, v).xmm = m.xmm
<1> DEFINE h2 == Store(h, at, t)
           m2 == Written(m, at, v)
<1>1. t \in Term(n) /\ v \in Term(n) /\ Len(t) = n
  BY TermIs DEF Describes
<1>2. IsHeld(h) /\ IsMachine(m) /\ GensOK(h) /\ MemTrue(tk, h.mem, m.bytes, lb) /\ LoadsTrue(tk, h, m, lb)
  BY DEF Memory
<1>3. PICK f : Fills(f, m, m2, at, n, v)
  BY <1>1, <1>2, WrittenIs
<1>4. /\ m2.bytes = Overlay(f, m.bytes) /\ Bytes(f) /\ DOMAIN f = Span(Real(at), n)
      /\ \A b \in Span(Real(at), n) : f[b] = v[b - Real(at) + 1]
      /\ IsMachine(m2) /\ m2.regs = m.regs /\ m2.xmm = m.xmm
  BY <1>3 DEF Fills
<1>5. IsHeld(h2) /\ SameRest(h, h2)
  BY <1>2, StoreIs
<1>6. CASE at >= 0
  <2>1. h2.mem = StoreConcrete(h.mem, at, t) /\ Concrete(h, h2, at, n)
    BY <1>1, <1>2, <1>6, StoreIs
  <2>2. Real(at) = at
    BY <1>6, RealIs
  <2>3. DOMAIN f = Span(at, n) /\ (\A b \in Span(at, n) : f[b] = v[b - at + 1]) /\ lb \ Span(at, n) \subseteq lb2
    BY <1>4, <1>6, <2>2
  <2>4. MemTrue(tk, StoreConcrete(h.mem, at, t), Overlay(f, m.bytes), lb2)
    BY <1>2, <2>3, MemStore
  <2> HIDE DEF h2, m2
  <2>5. LoadsTrue(tk, h2, m2, lb2)
    BY <1>2, <1>4, <2>1, <2>3, LoadsConcrete
  <2>6. GensOK(h2)
    BY <1>2, <2>1, ConcreteDates
  <2>7. Memory(tk, h2, m2, lb2)
    BY <1>4, <1>5, <2>1, <2>4, <2>5, <2>6 DEF Memory
  <2> QED
    BY <1>4, <1>5, <2>7 DEF h2, m2
<1>7. CASE ~(at >= 0)
  <2>1. h2.mem = h.mem /\ Symbolic(h, h2)
    BY <1>2, <1>7, StoreIs
  <2>2. lb \subseteq lb2 /\ \A b \in DOMAIN f : b \in DOMAIN h.mem \/ Region[b] \in {"ro", "bss"} => b \in lb2
    BY <1>4, <1>7 DEF Lost
  <2>3. MemTrue(tk, h.mem, Overlay(f, m.bytes), lb2)
    BY <1>2, <1>4, <2>2, MemUnseen
  <2> HIDE DEF h2, m2
  <2>4. LoadsTrue(tk, h2, m2, lb2)
    BY <1>2, <2>1, LoadsSymbolic
  <2>5. GensOK(h2)
    BY <1>2, <2>1, SymbolicDates
  <2>6. Memory(tk, h2, m2, lb2)
    BY <1>4, <1>5, <2>1, <2>3, <2>4, <2>5 DEF Memory
  <2> QED
    BY <1>4, <1>5, <2>6 DEF h2, m2
<1> QED
  BY <1>6, <1>7

(* A write of what the evaluator does not know.                               *)
LEMMA ForgetKeeps ==
  ASSUME Given, WorldOK, NEW tk, NEW h, NEW m, NEW lb, Memory(tk, h, m, lb), NEW at \in Int, NEW n \in Nat,
         NEW f, Bytes(f), DOMAIN f = Span(Real(at), n), NEW m2, IsMachine(m2), m2.bytes = Overlay(f, m.bytes), NEW lb2,
         at >= 0 => lb \ Span(at, n) \subseteq lb2 /\ \A b \in Span(at, n) : Region[b] \in {"ro", "bss"} => b \in lb2,
         ~(at >= 0) => Lost(h.mem, lb, at, n, lb2)
  PROVE  Memory(tk, ForgetMemory(h, at, n), m2, lb2) /\ SameRest(h, ForgetMemory(h, at, n))
<1> DEFINE h2 == ForgetMemory(h, at, n)
<1>1. IsHeld(h) /\ GensOK(h) /\ MemTrue(tk, h.mem, m.bytes, lb) /\ LoadsTrue(tk, h, m, lb)
  BY DEF Memory
<1>2. IsHeld(h2) /\ SameRest(h, h2)
  BY <1>1, StoreIs
<1>3. CASE at >= 0
  <2>1. h2.mem = ForgetConcrete(h.mem, at, n) /\ Concrete(h, h2, at, n)
    BY <1>1, <1>3, StoreIs
  <2>2. Real(at) = at
    BY <1>3, RealIs
  <2>3. /\ DOMAIN f = Span(at, n) /\ lb \ Span(at, n) \subseteq lb2
        /\ \A b \in Span(at, n) : Region[b] \in {"ro", "bss"} => b \in lb2
    BY <1>3, <2>2
  <2>4. MemTrue(tk, ForgetConcrete(h.mem, at, n), Overlay(f, m.bytes), lb2)
    BY <1>1, <2>3, MemForget
  <2> HIDE DEF h2
  <2>5. LoadsTrue(tk, h2, m2, lb2)
    BY <1>1, <2>1, <2>3, LoadsConcrete
  <2>6. GensOK(h2)
    BY <1>1, <2>1, ConcreteDates
  <2>7. Memory(tk, h2, m2, lb2)
    BY <1>2, <2>1, <2>4, <2>5, <2>6 DEF Memory
  <2> QED
    BY <1>2, <2>7 DEF h2
<1>4. CASE ~(at >= 0)
  <2>1. h2.mem = h.mem /\ Symbolic(h, h2)
    BY <1>1, <1>4, StoreIs
  <2>2. lb \subseteq lb2 /\ \A b \in DOMAIN f : b \in DOMAIN h.mem \/ Region[b] \in {"ro", "bss"} => b \in lb2
    BY <1>4 DEF Lost
  <2>3. MemTrue(tk, h.mem, Overlay(f, m.bytes), lb2)
    BY <1>1, <2>2, MemUnseen
  <2> HIDE DEF h2
  <2>4. LoadsTrue(tk, h2, m2, lb2)
    BY <1>1, <2>1, LoadsSymbolic
  <2>5. GensOK(h2)
    BY <1>1, <2>1, SymbolicDates
  <2>6. Memory(tk, h2, m2, lb2)
    BY <1>2, <2>1, <2>3, <2>4, <2>5 DEF Memory
  <2> QED
    BY <1>2, <2>6 DEF h2
<1> QED
  BY <1>3, <1>4

-----------------------------------------------------------------------------
(* Instructions                                                               *)

\* What the actions of a step amount to: the evaluator and the machine after it, and what its events say.
Result(e, ls) ==
    LET tk == Noted(taken, machine, UNION {Keys(p.term) : p \in e.said})
    IN  /\ Sound(tk, e.held, e.machine, ls)
        /\ \A p \in e.said : \E n \in 0..Cell : Describes(tk, p.term, p.real, n)

Now == Sound(taken, held, machine, loose)

(* What is true of the evaluator now, part by part.                           *)
LEMMA NowIs ==
  ASSUME Now
  PROVE  /\ Rest(held) /\ RegsTrue(taken, held.regs, machine.regs) /\ SseTrue(taken, held.xmm, machine.xmm, loose.xmm)
         /\ Memory(taken, held, machine, loose.bytes) /\ IsHeld(held) /\ IsMachine(machine) /\ GensOK(held)
         /\ MemTrue(taken, held.mem, machine.bytes, loose.bytes) /\ LoadsTrue(taken, held, machine, loose.bytes)
         /\ Bytes(machine.bytes)
BY DEF Now, Sound, Memory, MemTrue, Bytes

(* Knowing more loads changes nothing that is true.                           *)
LEMMA SoundMore ==
  ASSUME NEW tk, NEW tk2, Extends(tk, tk2), NEW h, NEW m, NEW ls, Sound(tk, h, m, ls), LoadsTrue(tk2, h, m, ls.bytes)
  PROVE  Sound(tk2, h, m, ls)
BY RegsMore, SseMore, MemMore DEF Sound, Memory

(* An instruction whose events are of terms that were held notes no load.     *)
LEMMA Quiet ==
  ASSUME Given, NEW e, NEW ls, Sound(taken, e.held, e.machine, ls),
         \A p \in e.said : \E n \in 0..Cell : Describes(taken, p.term, p.real, n)
  PROVE  Result(e, ls)
<1> DEFINE keys == UNION {Keys(p.term) : p \in e.said}
           tk == Noted(taken, machine, keys)
<1>1. \A p \in e.said : Keys(p.term) \subseteq DOMAIN taken
  <2> SUFFICES ASSUME NEW p \in e.said PROVE Keys(p.term) \subseteq DOMAIN taken
    OBVIOUS
  <2>1. PICK n \in 0..Cell : Describes(taken, p.term, p.real, n)
    OBVIOUS
  <2>2. n \in Nat
    BY DEF Given
  <2> QED
    BY <2>1, <2>2, KeysKnown
<1>2. keys \subseteq DOMAIN taken
  BY <1>1
<1> HIDE DEF keys
<1>3. Extends(taken, tk) /\ DOMAIN tk = DOMAIN taken
  BY <1>2 DEF Noted, Extends
<1> HIDE DEF tk
<1>4. LoadsTrue(tk, e.held, e.machine, ls.bytes)
  <2>1. LoadsTrue(taken, e.held, e.machine, ls.bytes)
    BY DEF Sound, Memory
  <2> QED
    BY <1>3, <2>1 DEF LoadsTrue, Extends
<1>5. Sound(tk, e.held, e.machine, ls)
  BY <1>3, <1>4, SoundMore
<1>6. \A p \in e.said : \E n \in 0..Cell : Describes(tk, p.term, p.real, n)
  BY <1>3, DescribesMore
<1> QED
  BY <1>5, <1>6 DEF Result, tk, keys

(* The stack pointer is a number like any other: moving it changes nothing    *)
(* else.                                                                      *)
LEMMA Moving ==
  ASSUME NEW e, NEW ls, Result(e, ls), NEW sp \in Int
  PROVE  Result(After([e.held EXCEPT !.sp = sp], e.machine, e.said), ls)
<1> DEFINE tk == Noted(taken, machine, UNION {Keys(p.term) : p \in e.said})
           h == e.held
           h2 == [e.held EXCEPT !.sp = sp]
           e2 == After(h2, e.machine, e.said)
<1>1. Sound(tk, h, e.machine, ls) /\ \A p \in e.said : \E n \in 0..Cell : Describes(tk, p.term, p.real, n)
  BY DEF Result
<1>2. e2.held = h2 /\ e2.machine = e.machine /\ e2.said = e.said
  BY DEF After
<1>3. IsHeld(h) /\ LoadsTrue(tk, h, e.machine, ls.bytes)
  BY <1>1 DEF Sound, Memory
<1>4. /\ IsHeld(h2) /\ SameGens(h, h2) /\ h2.regs = h.regs /\ h2.xmm = h.xmm /\ h2.mem = h.mem /\ h2.sp = sp
      /\ h2.pinned = h.pinned /\ h2.args = h.args /\ h2.opaques = h.opaques
  BY <1>3 DEF IsHeld, SameGens
<1> HIDE DEF tk, h, h2, e2
<1>5. GensOK(h2)
  BY <1>1, <1>4, SameLoadGen DEF Sound, Memory
<1>6. LoadsTrue(tk, h2, e.machine, ls.bytes)
  BY <1>3, <1>4, LoadsSame
<1>7. Sound(tk, h2, e.machine, ls)
  BY <1>1, <1>4, <1>5, <1>6 DEF Sound, Memory, Rest
<1>8. Result(e2, ls)
  BY <1>1, <1>2, <1>7 DEF Result, tk
<1> QED
  BY <1>8 DEF e2, h2

(* A register is set to a term of the value it has.                           *)
LEMMA RegsSet ==
  ASSUME NEW tk, NEW hr, NEW mr, RegsTrue(tk, hr, mr), NEW r \in Gprs, NEW t, NEW v, Describes(tk, t, v, Cell)
  PROVE  RegsTrue(tk, [hr EXCEPT ![r] = t], [mr EXCEPT ![r] = v])
BY DEF RegsTrue, Describes

\* What setting a register does: nothing to what the others and memory rest on.
WasSet(h, h2, r, t) ==
    /\ IsHeld(h2) /\ SameGens(h, h2) /\ h2.regs = [h.regs EXCEPT ![r] = t] /\ h2.xmm = h.xmm /\ h2.mem = h.mem
    /\ Rest(h) => Rest(h2)

(* Setting a register changes that register and the arguments noted for a     *)
(* call.                                                                      *)
LEMMA SetRegIs ==
  ASSUME Given, NEW h, IsHeld(h), NEW r, NEW t
  PROVE  WasSet(h, SetReg(h, r, t), r, t)
<1> DEFINE h2 == SetReg(h, r, t)
<1>1. h2 = [h EXCEPT !.regs = [h.regs EXCEPT ![r] = t], !.args = h.args \cup ({r} \cap ArgRegs)]
  BY DEF SetReg
<1> HIDE DEF h2
<1>2. /\ IsHeld(h2) /\ SameGens(h, h2) /\ h2.regs = [h.regs EXCEPT ![r] = t] /\ h2.xmm = h.xmm /\ h2.mem = h.mem
      /\ h2.sp = h.sp /\ h2.pinned = h.pinned /\ h2.args = h.args \cup ({r} \cap ArgRegs) /\ h2.opaques = h.opaques
  BY <1>1 DEF IsHeld, SameGens
<1>3. ArgRegs \subseteq Gprs
  BY DEF Given
<1>4. Rest(h) => Rest(h2)
  BY <1>2, <1>3 DEF Rest
<1> QED
  BY <1>2, <1>4 DEF WasSet, h2

(* mov r, [at] at a width of up to a cell.                                    *)
LEMMA LoadKeeps ==
  ASSUME Given, WorldOK, Now, NEW j, j.at \in Int, j.w \in 1..Cell, j.r \in Gprs, Safe(held, loose.bytes, j.at, j.w)
  PROVE  Result(DoLoad(held, machine, j), loose)
<1> DEFINE t == Load(held, j.at, j.w)
           v == Read(machine, j.at, j.w)
           h2 == SetReg(held, j.r, Widened(t))
           m2 == [machine EXCEPT !.regs = [machine.regs EXCEPT ![j.r] = Widened(v)]]
           e == DoLoad(held, machine, j)
           tk == Noted(taken, machine, Keys(t))
<1>1. e.held = h2 /\ e.machine = m2 /\ e.said = {Is(t, v)}
  BY DEF DoLoad, After
<1>2. Is(t, v).term = t /\ Is(t, v).real = v
  BY DEF Is
<1>3. UNION {Keys(p.term) : p \in e.said} = Keys(t)
  BY <1>1, <1>2
<1>4. Cell \in Nat /\ j.w \in Nat /\ j.w \in 0..Cell
  BY DEF Given
<1>5. /\ \A k \in Keys(t) : k \in DOMAIN taken \/ New(held, k)
      /\ \A tk2 : Extends(taken, tk2) /\ LoadsTrue(tk2, held, machine, loose.bytes) /\ Keys(t) \subseteq DOMAIN tk2 =>
             Describes(tk2, t, v, j.w)
  BY <1>4, NowIs, LoadIs
<1> HIDE DEF t, v, e
<1>6. Extends(taken, tk) /\ Keys(t) \subseteq DOMAIN tk
  BY DEF Noted, Extends
<1>7. LoadsTrue(tk, held, machine, loose.bytes)
  BY <1>5, NowIs, LoadsNoted
<1> HIDE DEF tk
<1>8. Describes(tk, t, v, j.w)
  BY <1>5, <1>6, <1>7
<1>9. Describes(tk, Widened(t), Widened(v), Cell)
  BY <1>4, <1>8, WidenedDescribes
<1>10. Sound(tk, held, machine, loose)
  BY <1>6, <1>7, SoundMore DEF Now
<1>11. /\ IsHeld(h2) /\ SameGens(held, h2) /\ h2.regs = [held.regs EXCEPT ![j.r] = Widened(t)]
       /\ h2.xmm = held.xmm /\ h2.mem = held.mem /\ Rest(h2)
  <2>1. IsHeld(held) /\ Rest(held)
    BY NowIs
  <2>2. WasSet(held, h2, j.r, Widened(t))
    BY <2>1, SetRegIs
  <2> HIDE DEF h2
  <2> QED
    BY <2>1, <2>2 DEF WasSet
<1>12. IsMachine(m2) /\ m2.regs = [machine.regs EXCEPT ![j.r] = Widened(v)] /\ m2.xmm = machine.xmm /\ m2.bytes = machine.bytes
  BY NowIs DEF IsMachine
<1> HIDE DEF h2, m2
<1>13. RegsTrue(tk, h2.regs, m2.regs)
  BY <1>9, <1>10, <1>11, <1>12, RegsSet DEF Sound
<1>14. GensOK(h2) /\ LoadsTrue(tk, h2, m2, loose.bytes)
  BY <1>7, <1>11, <1>12, NowIs, SameLoadGen, LoadsSame
<1>15. Sound(tk, h2, m2, loose)
  BY <1>10, <1>11, <1>12, <1>13, <1>14 DEF Sound, Memory
<1>16. \A p \in e.said : \E n \in 0..Cell : Describes(tk, p.term, p.real, n)
  BY <1>1, <1>2, <1>4, <1>8
<1> QED
  BY <1>1, <1>3, <1>15, <1>16 DEF Result, tk, e

(* What may have changed unseen may as well be more.                          *)
LEMMA Looser ==
  ASSUME NEW e, NEW ls, Result(e, ls), NEW ls2, ls.bytes \subseteq ls2.bytes, ls.xmm \subseteq ls2.xmm
  PROVE  Result(e, ls2)
<1> DEFINE tk == Noted(taken, machine, UNION {Keys(p.term) : p \in e.said})
<1>1. Sound(tk, e.held, e.machine, ls) /\ \A p \in e.said : \E n \in 0..Cell : Describes(tk, p.term, p.real, n)
  BY DEF Result
<1> HIDE DEF tk
<1>2. MemTrue(tk, e.held.mem, e.machine.bytes, ls2.bytes)
  <2>1. MemTrue(tk, e.held.mem, e.machine.bytes, ls.bytes)
    BY <1>1 DEF Sound, Memory
  <2> QED
    BY <2>1 DEF MemTrue
<1>3. LoadsTrue(tk, e.held, e.machine, ls2.bytes)
  <2>1. LoadsTrue(tk, e.held, e.machine, ls.bytes) /\ SameGens(e.held, e.held) /\ e.machine.bytes = e.machine.bytes
    BY <1>1 DEF Sound, Memory, SameGens
  <2> QED
    BY <2>1, LoadsSame
<1>4. SseTrue(tk, e.held.xmm, e.machine.xmm, ls2.xmm)
  BY <1>1 DEF Sound, SseTrue
<1>5. Sound(tk, e.held, e.machine, ls2)
  BY <1>1, <1>2, <1>3, <1>4 DEF Sound, Memory
<1> QED
  BY <1>1, <1>5 DEF Result, tk

\* What may have changed unseen after an instruction.
NextLoose(i, h) == [bytes |-> Unseen(i, h), xmm |-> UnseenSse(i)]

(* What an instruction that writes leaves loose.                              *)
LEMMA UnseenIs ==
  ASSUME WorldOK, NEW i, NEW h, i.op # "call", Writing(i).a \in Int
  PROVE  /\ Writing(i).a < 0 => Lost(h.mem, loose.bytes, Writing(i).a, Writing(i).w, Unseen(i, h))
         /\ ~(Writing(i).a < 0) =>
                /\ loose.bytes \ Span(Writing(i).a, Writing(i).w) \subseteq Unseen(i, h)
                /\ \A b \in Span(Writing(i).a, Writing(i).w) :
                       Region[b] \in {"ro", "bss"} /\ b \notin DOMAIN h.mem => b \in Unseen(i, h)
<1> DEFINE x == Writing(i)
           span == Span(Real(x.a), x.w)
           resolvable == {b \in span : b \in DOMAIN h.mem \/ Region[b] \in {"ro", "bss"}}
<1>1. Unseen(i, h) = IF x.a < 0 THEN loose.bytes \cup resolvable ELSE (loose.bytes \ span) \cup (resolvable \ DOMAIN h.mem)
  BY DEF Unseen
<1>2. ~(x.a < 0) => Real(x.a) = x.a
  BY RealIs
<1>3. ASSUME x.a < 0 PROVE Lost(h.mem, loose.bytes, x.a, x.w, Unseen(i, h))
  BY <1>1, <1>3 DEF Lost
<1>4. ASSUME ~(x.a < 0)
      PROVE  /\ loose.bytes \ Span(x.a, x.w) \subseteq Unseen(i, h)
             /\ \A b \in Span(x.a, x.w) : Region[b] \in {"ro", "bss"} /\ b \notin DOMAIN h.mem => b \in Unseen(i, h)
  <2>1. span = Span(x.a, x.w)
    BY <1>2, <1>4
  <2> HIDE DEF x
  <2> QED
    BY <1>1, <1>4, <2>1
<1> QED
  BY <1>3, <1>4

(* An instruction that writes nothing leaves loose what was loose.            *)
LEMMA NothingUnseen ==
  ASSUME WorldOK, NEW i, NEW h, i.op \notin {"store", "push", "ssestore", "box", "call"}
  PROVE  loose.bytes \subseteq Unseen(i, h)
<1>1. Writing(i) = [a |-> 0, w |-> 0]
  BY DEF Writing
<1>2. loose.bytes \ Span(0, 0) \subseteq Unseen(i, h)
  BY <1>1, UnseenIs
<1>3. Span(0, 0) = {}
  BY DEF Span
<1> QED
  BY <1>2, <1>3

(* The SSE registers an instruction leaves loose.                             *)
LEMMA SseUnseen ==
  ASSUME NEW i
  PROVE  /\ i.op = "call" => UnseenSse(i) = loose.xmm \cup i.gone
         /\ i.op \in {"sseload", "ssemove", "ssezero"} => UnseenSse(i) = loose.xmm \ {i.x}
         /\ i.op = "box" => UnseenSse(i) = loose.xmm \ i.dest.reg
         /\ i.op \notin {"call", "sseload", "ssemove", "ssezero", "box"} => UnseenSse(i) = loose.xmm
BY DEF UnseenSse

(* An instruction that meets none of the approximations.                      *)
Exact(i) ==
    /\ \A x \in Reading(i) : Safe(held, loose.bytes, x.a, x.w)
    /\ i.op = "ssestore" => i.x \notin loose.xmm
    /\ i.op = "ssemove" => i.y \notin loose.xmm
    /\ i.op \in {"sseload", "ssemove"} => i.form # "half"
    /\ i.op = "box" => i.writes \subseteq i.listed \cup i.dest.reg
    /\ i.op = "jump" /\ Again(held, held.regs[i.r]) # held.regs[i.r] =>
           LET k == Key(held.regs[i.r][1]) IN taken[k] = Read(machine, k[1], k[2])

(* An instruction that is not approximated in any way is exact.               *)
LEMMA ExactIs ==
  ASSUME NEW i, Approximated(i) = {}
  PROVE  Exact(i)
<1>1. ~(\E x \in Resolving(i) : Torn(held.mem, Real(x.a), x.w))
  <2>1. "torn source" \notin Approximated(i)
    OBVIOUS
  <2> QED
    BY <2>1 DEF Approximated
<1>2. ~(\E x \in Resolving(i) : \E b \in Span(Real(x.a), x.w) \ DOMAIN held.mem : Region[b] = "data")
  <2>1. "mixed source" \notin Approximated(i)
    OBVIOUS
  <2> QED
    BY <2>1 DEF Approximated
<1>3. ~(\/ \E x \in Reading(i) : Span(Real(x.a), x.w) \cap loose.bytes # {}
        \/ i.op = "ssestore" /\ i.x \in loose.xmm
        \/ i.op = "ssemove" /\ i.y \in loose.xmm)
  <2>1. "unseen write" \notin Approximated(i)
    OBVIOUS
  <2> QED
    BY <2>1 DEF Approximated
<1>4. ~(i.op \in {"sseload", "ssemove"} /\ i.form = "half")
  <2>1. "half move" \notin Approximated(i)
    OBVIOUS
  <2> QED
    BY <2>1 DEF Approximated
<1>5. ~(i.op = "box" /\ ~(i.writes \subseteq i.listed \cup i.dest.reg))
  <2>1. "implicit result" \notin Approximated(i)
    OBVIOUS
  <2> QED
    BY <2>1 DEF Approximated
<1>6. ~(/\ i.op = "jump" /\ Again(held, held.regs[i.r]) # held.regs[i.r]
        /\ LET k == Key(held.regs[i.r][1]) IN taken[k] # Read(machine, k[1], k[2]))
  <2>1. "late resolve" \notin Approximated(i)
    OBVIOUS
  <2> QED
    BY <2>1 DEF Approximated
<1>7. \A x \in Reading(i) : Safe(held, loose.bytes, x.a, x.w)
  BY <1>1, <1>2, <1>3 DEF Safe, Resolving
<1> QED
  BY <1>3, <1>4, <1>5, <1>6, <1>7 DEF Exact

(* mov r, [at].                                                               *)
LEMMA LoadDone ==
  ASSUME Given, WorldOK, Now, NEW i, Legal(i), Exact(i), i.op = "load"
  PROVE  LET e == DoLoad(held, machine, i) IN Result(e, NextLoose(i, e.held))
<1> DEFINE e == DoLoad(held, machine, i)
<1>1. i.at \in Int /\ i.w \in 1..Cell /\ i.r \in Gprs
  BY DEF Legal, Addresses, Pointer, Either
<1>2. Safe(held, loose.bytes, i.at, i.w)
  BY DEF Exact, Reading
<1>3. Result(e, loose)
  BY <1>1, <1>2, LoadKeeps
<1> HIDE DEF e
<1>4. loose.bytes \subseteq NextLoose(i, e.held).bytes /\ loose.xmm \subseteq NextLoose(i, e.held).xmm
  BY NothingUnseen, SseUnseen DEF NextLoose
<1>5. Result(e, NextLoose(i, e.held))
  BY <1>3, <1>4, Looser
<1> QED
  BY <1>5 DEF e

(* pop r.                                                                     *)
LEMMA PopDone ==
  ASSUME Given, WorldOK, Now, NEW i, Legal(i), Exact(i), i.op = "pop"
  PROVE  LET e == DoPop(held, machine, i) IN Result(e, NextLoose(i, e.held))
<1> DEFINE j == [at |-> held.sp, r |-> i.r, w |-> Cell]
           done == DoLoad(held, machine, j)
           e == DoPop(held, machine, i)
<1>1. held.sp \in Int /\ Cell \in 1..Cell /\ Cell \in Int /\ i.r \in Gprs
  BY NowIs DEF Rest, Given, Legal
<1>2. Safe(held, loose.bytes, held.sp, Cell)
  BY DEF Exact, Reading
<1>3. j.at = held.sp /\ j.r = i.r /\ j.w = Cell
  OBVIOUS
<1> HIDE DEF j
<1>4. Result(done, loose)
  BY <1>1, <1>2, <1>3, LoadKeeps
<1>5. done.held.sp + Cell \in Int
  BY <1>1, <1>4 DEF Result, Sound, Rest
<1>6. e = After([done.held EXCEPT !.sp = done.held.sp + Cell], done.machine, done.said)
  BY DEF DoPop, j
<1> HIDE DEF e, done
<1>7. Result(e, loose)
  BY <1>4, <1>5, <1>6, Moving
<1>8. loose.bytes \subseteq NextLoose(i, e.held).bytes /\ loose.xmm \subseteq NextLoose(i, e.held).xmm
  BY NothingUnseen, SseUnseen DEF NextLoose
<1>9. Result(e, NextLoose(i, e.held))
  BY <1>7, <1>8, Looser
<1> QED
  BY <1>9 DEF e

(* A write to memory leaves everything else as it is.                         *)
LEMMA SoundStored ==
  ASSUME NEW tk, NEW h, NEW m, NEW ls, Sound(tk, h, m, ls), NEW h2, NEW m2, NEW lb2, Memory(tk, h2, m2, lb2),
         SameRest(h, h2), m2.regs = m.regs, m2.xmm = m.xmm
  PROVE  Sound(tk, h2, m2, [bytes |-> lb2, xmm |-> ls.xmm])
BY DEF Sound, SameRest, Rest

\* Bytes that may be loose after n of them were written at an address.
Covers(mem, lb, at, n, lb2) ==
    /\ at >= 0 => lb \ Span(at, n) \subseteq lb2
    /\ ~(at >= 0) => Lost(mem, lb, at, n, lb2)

(* mov [at], r at a width of up to a cell.                                    *)
LEMMA StoreResult ==
  ASSUME Given, WorldOK, Now, NEW j, j.at \in Int, j.w \in 1..Cell, j.r \in Gprs, NEW lb2,
         Covers(held.mem, loose.bytes, j.at, j.w, lb2)
  PROVE  Result(DoStore(held, machine, j), [bytes |-> lb2, xmm |-> loose.xmm])
<1> DEFINE t == Low(held.regs[j.r], j.w)
           v == Low(machine.regs[j.r], j.w)
           e == DoStore(held, machine, j)
           ls == [bytes |-> lb2, xmm |-> loose.xmm]
<1>1. e.held = Store(held, j.at, t) /\ e.machine = Written(machine, j.at, v) /\ e.said = {Is(t, v)}
  BY DEF DoStore, After
<1>2. Cell \in Nat /\ j.w \in Nat /\ j.w \in 0..Cell
  BY DEF Given
<1>3. Describes(taken, held.regs[j.r], machine.regs[j.r], Cell)
  BY NowIs DEF RegsTrue
<1>4. Describes(taken, t, v, j.w)
  BY <1>2, <1>3, LowDescribes
<1> HIDE DEF t, v, e
<1>5. j.at >= 0 => loose.bytes \ Span(j.at, j.w) \subseteq lb2
  BY DEF Covers
<1>6. ~(j.at >= 0) => Lost(held.mem, loose.bytes, j.at, j.w, lb2)
  BY DEF Covers
<1>7. Memory(taken, held, machine, loose.bytes)
  BY NowIs
<1>8. /\ Memory(taken, e.held, e.machine, lb2) /\ SameRest(held, e.held)
      /\ e.machine.regs = machine.regs /\ e.machine.xmm = machine.xmm
  BY <1>1, <1>2, <1>4, <1>5, <1>6, <1>7, StoreKeeps
<1>9. Sound(taken, e.held, e.machine, ls)
  BY <1>8, SoundStored DEF Now
<1>10. \A p \in e.said : \E n \in 0..Cell : Describes(taken, p.term, p.real, n)
  BY <1>1, <1>2, <1>4 DEF Is
<1> HIDE DEF ls
<1>11. Result(e, ls)
  BY <1>9, <1>10, Quiet
<1> QED
  BY <1>11 DEF e, ls

(* What an instruction that writes leaves loose covers what it writes.        *)
LEMMA UnseenCovers ==
  ASSUME WorldOK, NEW i, NEW h, i.op # "call", Writing(i).a \in Int,
         Writing(i).a < 0 => h.mem = held.mem
  PROVE  Covers(held.mem, loose.bytes, Writing(i).a, Writing(i).w, Unseen(i, h))
<1>1. Writing(i).a >= 0 <=> ~(Writing(i).a < 0)
  OBVIOUS
<1>2. CASE Writing(i).a < 0
  <2>1. Lost(h.mem, loose.bytes, Writing(i).a, Writing(i).w, Unseen(i, h)) /\ h.mem = held.mem
    BY <1>2, UnseenIs
  <2> QED
    BY <1>1, <1>2, <2>1 DEF Covers
<1>3. CASE ~(Writing(i).a < 0)
  BY <1>1, <1>3, UnseenIs DEF Covers
<1> QED
  BY <1>2, <1>3

(* mov [at], r.                                                               *)
LEMMA StoreDone ==
  ASSUME Given, WorldOK, Now, NEW i, Legal(i), Exact(i), i.op = "store"
  PROVE  LET e == DoStore(held, machine, i) IN Result(e, NextLoose(i, e.held))
<1> DEFINE e == DoStore(held, machine, i)
<1>1. i.at \in Int /\ i.w \in 1..Cell /\ i.r \in Gprs
  BY DEF Legal, Addresses, Pointer, Either
<1>2. Writing(i).a = i.at /\ Writing(i).w = i.w
  BY DEF Writing
<1>3. i.at < 0 => e.held.mem = held.mem
  <2>1. e.held = Store(held, i.at, Low(held.regs[i.r], i.w))
    BY DEF DoStore, After
  <2>2. i.at < 0 => ~(i.at >= 0)
    BY <1>1
  <2> QED
    BY <2>1, <2>2, StoreIs, NowIs
<1> HIDE DEF e
<1>4. Covers(held.mem, loose.bytes, i.at, i.w, Unseen(i, e.held))
  <2>1. Writing(i).a \in Int /\ (Writing(i).a < 0 => e.held.mem = held.mem) /\ i.op # "call"
    BY <1>1, <1>2, <1>3
  <2>2. Covers(held.mem, loose.bytes, Writing(i).a, Writing(i).w, Unseen(i, e.held))
    BY <2>1, UnseenCovers
  <2> QED
    BY <1>2, <2>2
<1>5. NextLoose(i, e.held) = [bytes |-> Unseen(i, e.held), xmm |-> loose.xmm]
  BY SseUnseen DEF NextLoose
<1>6. Result(e, NextLoose(i, e.held))
  BY <1>1, <1>4, <1>5, StoreResult DEF e
<1> QED
  BY <1>6 DEF e

(* push r.                                                                    *)
LEMMA PushDone ==
  ASSUME Given, WorldOK, Now, NEW i, Legal(i), Exact(i), i.op = "push"
  PROVE  LET e == DoPush(held, machine, i) IN Result(e, NextLoose(i, e.held))
<1> DEFINE sp == held.sp - Cell
           j == [at |-> sp, r |-> i.r, w |-> Cell]
           done == DoStore(held, machine, j)
           e == DoPush(held, machine, i)
<1>1. sp \in Int /\ Cell \in 1..Cell /\ i.r \in Gprs
  BY NowIs DEF Rest, Given, Legal
<1>2. Writing(i).a = sp /\ Writing(i).w = Cell
  BY DEF Writing
<1>3. j.at = sp /\ j.r = i.r /\ j.w = Cell
  OBVIOUS
<1>4. e = After([done.held EXCEPT !.sp = sp], done.machine, done.said)
  BY DEF DoPush
<1> HIDE DEF sp, j
<1>5. sp < 0 => done.held.mem = held.mem
  <2>1. done.held = Store(held, j.at, Low(held.regs[j.r], j.w))
    BY DEF DoStore, After
  <2>2. sp < 0 => ~(sp >= 0)
    BY <1>1
  <2> QED
    BY <1>3, <2>1, <2>2, StoreIs, NowIs
<1> HIDE DEF done, e
<1>6. Covers(held.mem, loose.bytes, sp, Cell, Unseen(i, done.held))
  <2>1. Writing(i).a \in Int /\ (Writing(i).a < 0 => done.held.mem = held.mem) /\ i.op # "call"
    BY <1>1, <1>2, <1>5
  <2>2. Covers(held.mem, loose.bytes, Writing(i).a, Writing(i).w, Unseen(i, done.held))
    BY <2>1, UnseenCovers
  <2> QED
    BY <1>2, <2>2
<1>7. Result(done, [bytes |-> Unseen(i, done.held), xmm |-> loose.xmm])
  BY <1>1, <1>3, <1>6, StoreResult DEF done
<1>8. Result(e, [bytes |-> Unseen(i, done.held), xmm |-> loose.xmm])
  BY <1>1, <1>4, <1>7, Moving
<1>9. NextLoose(i, e.held) = [bytes |-> Unseen(i, done.held), xmm |-> loose.xmm]
  <2>1. e.held.mem = done.held.mem
    <3>1. IsHeld(done.held)
      BY <1>7 DEF Result, Sound, Memory
    <3> QED
      BY <1>4, <3>1 DEF After, IsHeld
  <2>2. Unseen(i, e.held) = Unseen(i, done.held)
    BY <2>1 DEF Unseen
  <2> QED
    BY <2>2, SseUnseen DEF NextLoose
<1>10. Result(e, NextLoose(i, e.held))
  BY <1>8, <1>9
<1> QED
  BY <1>10 DEF e

(* mov r, n.                                                                  *)
LEMMA ConstDone ==
  ASSUME Given, WorldOK, Now, NEW i, Legal(i), Exact(i), i.op = "const"
  PROVE  LET e == DoConst(held, machine, i) IN Result(e, NextLoose(i, e.held))
<1> DEFINE v == Word("const", i.n)
           h2 == SetReg(held, i.r, v)
           m2 == [machine EXCEPT !.regs = [machine.regs EXCEPT ![i.r] = v]]
           e == DoConst(held, machine, i)
<1>1. e.held = h2 /\ e.machine = m2 /\ e.said = {}
  BY DEF DoConst, After
<1>2. i.r \in Gprs /\ i.n \in Int
  BY DEF Legal
<1>3. Describes(taken, v, v, Cell)
  BY <1>2, WordDescribes DEF Kinds
<1> HIDE DEF v, e
<1>4. /\ IsHeld(h2) /\ SameGens(held, h2) /\ h2.regs = [held.regs EXCEPT ![i.r] = v]
      /\ h2.xmm = held.xmm /\ h2.mem = held.mem /\ Rest(h2)
  <2>1. IsHeld(held) /\ Rest(held)
    BY NowIs
  <2>2. WasSet(held, h2, i.r, v)
    BY <2>1, SetRegIs
  <2> HIDE DEF h2
  <2> QED
    BY <2>1, <2>2 DEF WasSet
<1>5. IsMachine(m2) /\ m2.regs = [machine.regs EXCEPT ![i.r] = v] /\ m2.xmm = machine.xmm /\ m2.bytes = machine.bytes
  BY NowIs DEF IsMachine
<1> HIDE DEF h2, m2
<1>6. RegsTrue(taken, h2.regs, m2.regs)
  BY <1>2, <1>3, <1>4, <1>5, NowIs, RegsSet
<1>7. GensOK(h2) /\ LoadsTrue(taken, h2, m2, loose.bytes)
  BY <1>4, <1>5, NowIs, SameLoadGen, LoadsSame
<1>8. Sound(taken, h2, m2, loose)
  BY <1>4, <1>5, <1>6, <1>7, NowIs DEF Sound, Memory
<1>9. Result(e, loose)
  BY <1>1, <1>8, Quiet
<1>10. loose.bytes \subseteq NextLoose(i, e.held).bytes /\ loose.xmm \subseteq NextLoose(i, e.held).xmm
  BY NothingUnseen, SseUnseen DEF NextLoose
<1>11. Result(e, NextLoose(i, e.held))
  BY <1>9, <1>10, Looser
<1> QED
  BY <1>11 DEF e

(* A branch whose condition is pinned.                                        *)
LEMMA PinDone ==
  ASSUME Given, WorldOK, Now, NEW i, Legal(i), Exact(i), i.op = "pin"
  PROVE  LET e == DoPin(held, machine) IN Result(e, NextLoose(i, e.held))
<1> DEFINE b == TRUE
           h2 == [held EXCEPT !.pinned = b]
           e == DoPin(held, machine)
<1>1. e.held = h2 /\ e.machine = machine /\ e.said = {} /\ b \in BOOLEAN
  BY DEF DoPin, After
<1> HIDE DEF b
<1>2. /\ IsHeld(h2) /\ SameGens(held, h2) /\ h2.regs = held.regs /\ h2.xmm = held.xmm /\ h2.mem = held.mem
      /\ Rest(h2)
  <2>1. IsHeld(held) /\ Rest(held)
    BY NowIs
  <2>2. /\ IsHeld(h2) /\ SameGens(held, h2) /\ h2.regs = held.regs /\ h2.xmm = held.xmm /\ h2.mem = held.mem
        /\ h2.sp = held.sp /\ h2.pinned = b /\ h2.args = held.args /\ h2.opaques = held.opaques
    BY <2>1 DEF IsHeld, SameGens
  <2> HIDE DEF h2
  <2> QED
    BY <1>1, <2>1, <2>2 DEF Rest
<1> HIDE DEF h2, e
<1>3. GensOK(h2) /\ LoadsTrue(taken, h2, machine, loose.bytes)
  BY <1>2, NowIs, SameLoadGen, LoadsSame
<1>4. Sound(taken, h2, machine, loose)
  BY <1>2, <1>3, NowIs DEF Sound, Memory
<1>5. Result(e, loose)
  BY <1>1, <1>4, Quiet
<1>6. loose.bytes \subseteq NextLoose(i, e.held).bytes /\ loose.xmm \subseteq NextLoose(i, e.held).xmm
  BY NothingUnseen, SseUnseen DEF NextLoose
<1>7. Result(e, NextLoose(i, e.held))
  BY <1>5, <1>6, Looser
<1> QED
  BY <1>7 DEF e

-----------------------------------------------------------------------------
(* SSE registers                                                              *)

\* A half that is known has its value.
HalfIs(tk, t, v) == t \in Half /\ v \in Term(Cell) /\ HalfTrue(tk, t, v)

(* A term that describes a half is that half.                                 *)
LEMMA HalfKnown ==
  ASSUME NEW tk, NEW t, NEW v, Describes(tk, t, v, Cell)
  PROVE  HalfIs(tk, t, v)
BY DEF HalfIs, Half, HalfTrue, Describes

(* The halves of an SSE register, and that they are true unless it is loose.  *)
LEMMA HalvesAre ==
  ASSUME NEW tk, NEW hx, NEW mx, NEW lx, SseTrue(tk, hx, mx, lx), NEW x \in Xmms
  PROVE  /\ hx[x] = [lo |-> hx[x].lo, hi |-> hx[x].hi] /\ mx[x] = [lo |-> mx[x].lo, hi |-> mx[x].hi]
         /\ mx[x].lo \in Term(Cell) /\ mx[x].hi \in Term(Cell) /\ hx[x].lo \in Half /\ hx[x].hi \in Half
         /\ x \notin lx => HalfIs(tk, hx[x].lo, mx[x].lo) /\ HalfIs(tk, hx[x].hi, mx[x].hi)
BY DEF SseTrue, HalfIs

(* An SSE register is set to halves that have the values it has: it is not    *)
(* loose any more.                                                            *)
LEMMA SseSet ==
  ASSUME NEW tk, NEW hx, NEW mx, NEW lx, SseTrue(tk, hx, mx, lx), NEW x \in Xmms,
         NEW lo, NEW hi, NEW low, NEW high, HalfIs(tk, lo, low), HalfIs(tk, hi, high)
  PROVE  SseTrue(tk, [hx EXCEPT ![x] = [lo |-> lo, hi |-> hi]], [mx EXCEPT ![x] = [lo |-> low, hi |-> high]], lx \ {x})
<1> DEFINE hr == [lo |-> lo, hi |-> hi]
           mr == [lo |-> low, hi |-> high]
           hx2 == [hx EXCEPT ![x] = hr]
           mx2 == [mx EXCEPT ![x] = mr]
<1>1. /\ hr.lo = lo /\ hr.hi = hi /\ mr.lo = low /\ mr.hi = high
      /\ hr \in [lo : Half, hi : Half] /\ mr \in [lo : Term(Cell), hi : Term(Cell)]
  BY DEF HalfIs
<1> HIDE DEF hr, mr
<1>2. hx2 \in [Xmms -> [lo : Half, hi : Half]] /\ mx2 \in [Xmms -> [lo : Term(Cell), hi : Term(Cell)]]
  BY <1>1 DEF SseTrue
<1>3. ASSUME NEW y \in Xmms \ (lx \ {x})
      PROVE  HalfTrue(tk, hx2[y].lo, mx2[y].lo) /\ HalfTrue(tk, hx2[y].hi, mx2[y].hi)
  <2>1. CASE y = x
    <3>1. hx2[y] = hr /\ mx2[y] = mr
      BY <2>1 DEF SseTrue
    <3> HIDE DEF hx2, mx2
    <3> QED
      BY <1>1, <3>1 DEF HalfIs
  <2>2. CASE y # x
    <3>1. hx2[y] = hx[y] /\ mx2[y] = mx[y] /\ y \in Xmms \ lx
      BY <1>3, <2>2 DEF SseTrue
    <3> HIDE DEF hx2, mx2
    <3> QED
      BY <3>1 DEF SseTrue
  <2> QED
    BY <2>1, <2>2
<1> HIDE DEF hx2, mx2
<1>4. SseTrue(tk, hx2, mx2, lx \ {x})
  BY <1>2, <1>3 DEF SseTrue
<1> QED
  BY <1>4 DEF hx2, mx2, hr, mr

(* An SSE register is set.                                                    *)
LEMMA SseSound ==
  ASSUME Given, Now, NEW tk, Extends(taken, tk), LoadsTrue(tk, held, machine, loose.bytes), NEW x \in Xmms,
         NEW lo, NEW hi, NEW low, NEW high, HalfIs(tk, lo, low), HalfIs(tk, hi, high),
         NEW h2, NEW m2, h2 = [held EXCEPT !.xmm[x] = [lo |-> lo, hi |-> hi]],
         m2 = [machine EXCEPT !.xmm[x] = [lo |-> low, hi |-> high]]
  PROVE  Sound(tk, h2, m2, [bytes |-> loose.bytes, xmm |-> loose.xmm \ {x}])
<1> DEFINE hx2 == [held.xmm EXCEPT ![x] = [lo |-> lo, hi |-> hi]]
           mx2 == [machine.xmm EXCEPT ![x] = [lo |-> low, hi |-> high]]
           ls == [bytes |-> loose.bytes, xmm |-> loose.xmm \ {x}]
<1>1. Sound(tk, held, machine, loose)
  BY SoundMore DEF Now
<1>2. h2 = [held EXCEPT !.xmm = hx2] /\ m2 = [machine EXCEPT !.xmm = mx2]
  OBVIOUS
<1>3. SseTrue(tk, hx2, mx2, loose.xmm \ {x})
  BY <1>1, SseSet DEF Sound
<1>4. ls.bytes = loose.bytes /\ ls.xmm = loose.xmm \ {x}
  OBVIOUS
<1> HIDE DEF hx2, mx2, ls
<1>5. IsHeld(held) /\ IsMachine(machine) /\ GensOK(held)
  BY NowIs
<1>6. /\ IsHeld(h2) /\ SameGens(held, h2) /\ h2.regs = held.regs /\ h2.xmm = hx2 /\ h2.mem = held.mem
      /\ h2.sp = held.sp /\ h2.pinned = held.pinned /\ h2.args = held.args /\ h2.opaques = held.opaques
  BY <1>2, <1>5 DEF IsHeld, SameGens
<1>7. IsMachine(m2) /\ m2.regs = machine.regs /\ m2.xmm = mx2 /\ m2.bytes = machine.bytes
  BY <1>2, <1>5 DEF IsMachine
<1>8. GensOK(h2) /\ LoadsTrue(tk, h2, m2, loose.bytes)
  BY <1>5, <1>6, <1>7, SameLoadGen, LoadsSame
<1>9. Sound(tk, h2, m2, ls)
  BY <1>1, <1>3, <1>4, <1>6, <1>7, <1>8 DEF Sound, Memory, Rest
<1> QED
  BY <1>9 DEF ls

(* After a move to an SSE register, that one is as it is held to be.          *)
LEMMA SseLooser ==
  ASSUME Given, WorldOK, NEW i, i.op \in {"sseload", "ssemove", "ssezero"}, NEW e,
         Result(e, [bytes |-> loose.bytes, xmm |-> loose.xmm \ {i.x}])
  PROVE  Result(e, NextLoose(i, e.held))
<1>1. loose.bytes \subseteq NextLoose(i, e.held).bytes /\ loose.xmm \ {i.x} \subseteq NextLoose(i, e.held).xmm
  BY NothingUnseen, SseUnseen DEF NextLoose
<1> QED
  BY <1>1, Looser

(* xorps xmm, xmm.                                                            *)
LEMMA SseZeroDone ==
  ASSUME Given, WorldOK, Now, NEW i, Legal(i), Exact(i), i.op = "ssezero"
  PROVE  LET e == DoSseZero(held, machine, i) IN Result(e, NextLoose(i, e.held))
<1> DEFINE e == DoSseZero(held, machine, i)
           z == Zeros(Cell)
<1>1. /\ e.held = [held EXCEPT !.xmm[i.x] = [lo |-> z, hi |-> z]]
      /\ e.machine = [machine EXCEPT !.xmm[i.x] = [lo |-> z, hi |-> z]] /\ e.said = {}
  BY DEF DoSseZero, After
<1>2. i.x \in Xmms /\ HalfIs(taken, z, z)
  BY ZerosDescribe, HalfKnown DEF Legal, Given
<1>3. Extends(taken, taken) /\ LoadsTrue(taken, held, machine, loose.bytes)
  BY NowIs DEF Extends
<1> HIDE DEF e, z
<1>4. Sound(taken, e.held, e.machine, [bytes |-> loose.bytes, xmm |-> loose.xmm \ {i.x}])
  BY <1>1, <1>2, <1>3, SseSound
<1>5. Result(e, [bytes |-> loose.bytes, xmm |-> loose.xmm \ {i.x}])
  BY <1>1, <1>4, Quiet
<1>6. Result(e, NextLoose(i, e.held))
  BY <1>5, SseLooser
<1> QED
  BY <1>6 DEF e

(* movaps xmm, xmm and movq xmm, xmm: a half that is not known makes the      *)
(* other unknown.                                                             *)
LEMMA SseMoveDone ==
  ASSUME Given, WorldOK, Now, NEW i, Legal(i), Exact(i), i.op = "ssemove"
  PROVE  LET e == DoSseMove(held, machine, i) IN Result(e, NextLoose(i, e.held))
<1> DEFINE e == DoSseMove(held, machine, i)
           y == held.xmm[i.y]
           v == machine.xmm[i.y]
           lo == IF y.lo # <<>> /\ (i.w = Cell \/ y.hi # <<>>) THEN y.lo ELSE <<>>
           hi == IF i.w = Cell THEN Zeros(Cell) ELSE y.hi
           high == IF i.w = Cell THEN Zeros(Cell) ELSE v.hi
<1>1. i.x \in Xmms /\ i.y \in Xmms /\ i.y \notin loose.xmm /\ i.form # "half" /\ i.w \in {Cell, 2 * Cell}
  BY DEF Legal, Exact
<1>2. /\ held.xmm[i.x] = [lo |-> held.xmm[i.x].lo, hi |-> held.xmm[i.x].hi]
      /\ HalfIs(taken, y.lo, v.lo) /\ HalfIs(taken, y.hi, v.hi)
  <2>1. SseTrue(taken, held.xmm, machine.xmm, loose.xmm)
    BY NowIs
  <2>2. held.xmm[i.x] = [lo |-> held.xmm[i.x].lo, hi |-> held.xmm[i.x].hi]
    BY <1>1, <2>1 DEF SseTrue
  <2>3. HalfIs(taken, held.xmm[i.y].lo, machine.xmm[i.y].lo) /\ HalfIs(taken, held.xmm[i.y].hi, machine.xmm[i.y].hi)
    BY <1>1, <2>1, HalvesAre
  <2> QED
    BY <2>2, <2>3
<1>3. HalfIs(taken, Zeros(Cell), Zeros(Cell))
  BY ZerosDescribe, HalfKnown DEF Given
<1>4. HalfIs(taken, lo, v.lo) /\ HalfIs(taken, hi, high)
  <2>1. HalfIs(taken, <<>>, v.lo)
    BY <1>2 DEF HalfIs, Half, HalfTrue
  <2> HIDE DEF y, v
  <2> QED
    BY <1>2, <1>3, <2>1
<1>5. e.held = [held EXCEPT !.xmm[i.x] = [lo |-> lo, hi |-> hi]]
  <2>1. e.held = LET low == IF y.lo # <<>> THEN [held.xmm[i.x] EXCEPT !.lo = y.lo] ELSE Unknown
                 IN  [held EXCEPT !.xmm[i.x] = CASE i.w = Cell -> [low EXCEPT !.hi = Zeros(Cell)]
                                                 [] i.w # Cell /\ y.hi # <<>> -> [low EXCEPT !.hi = y.hi]
                                                 [] i.w # Cell /\ y.hi = <<>> -> Unknown]
    BY DEF DoSseMove, After
  <2> DEFINE low == IF y.lo # <<>> THEN [held.xmm[i.x] EXCEPT !.lo = y.lo] ELSE Unknown
  <2>2. low = [lo |-> IF y.lo # <<>> THEN y.lo ELSE <<>>, hi |-> IF y.lo # <<>> THEN held.xmm[i.x].hi ELSE <<>>]
    BY <1>2 DEF Unknown
  <2> HIDE DEF low
  <2>3. i.w = Cell => [low EXCEPT !.hi = Zeros(Cell)] = [lo |-> lo, hi |-> hi]
    BY <2>2
  <2>4. i.w # Cell /\ y.hi # <<>> => [low EXCEPT !.hi = y.hi] = [lo |-> lo, hi |-> hi]
    BY <2>2
  <2>5. i.w # Cell /\ y.hi = <<>> => Unknown = [lo |-> lo, hi |-> hi]
    BY DEF Unknown
  <2> HIDE DEF lo, hi, y
  <2>6. (CASE i.w = Cell -> [low EXCEPT !.hi = Zeros(Cell)]
           [] i.w # Cell /\ y.hi # <<>> -> [low EXCEPT !.hi = y.hi]
           [] i.w # Cell /\ y.hi = <<>> -> Unknown) = [lo |-> lo, hi |-> hi]
    BY <2>3, <2>4, <2>5
  <2> QED
    BY <2>1, <2>6 DEF low
<1>6. e.machine = [machine EXCEPT !.xmm[i.x] = [lo |-> v.lo, hi |-> high]]
  BY <1>1 DEF DoSseMove, After
<1>7. e.said = {}
  BY DEF DoSseMove, After
<1>8. Extends(taken, taken) /\ LoadsTrue(taken, held, machine, loose.bytes)
  BY NowIs DEF Extends
<1> HIDE DEF e, lo, hi, high, v
<1>9. Sound(taken, e.held, e.machine, [bytes |-> loose.bytes, xmm |-> loose.xmm \ {i.x}])
  BY <1>1, <1>4, <1>5, <1>6, <1>8, SseSound
<1>10. Result(e, [bytes |-> loose.bytes, xmm |-> loose.xmm \ {i.x}])
  BY <1>7, <1>9, Quiet
<1>11. Result(e, NextLoose(i, e.held))
  BY <1>10, SseLooser
<1> QED
  BY <1>11 DEF e

(* movups xmm, [at] and movlps xmm, [at] that clears the other half.          *)
LEMMA SseLoadDone ==
  ASSUME Given, WorldOK, Now, NEW i, Legal(i), Exact(i), i.op = "sseload"
  PROVE  LET e == DoSseLoad(held, machine, i) IN Result(e, NextLoose(i, e.held))
<1> DEFINE e == DoSseLoad(held, machine, i)
           lo == Load(held, i.at, Cell)
           low == Read(machine, i.at, Cell)
           hi == HighLoaded(held, i)
           high == IF i.w = Cell THEN Zeros(Cell) ELSE Read(machine, i.at + Cell, Cell)
           keys == UNION {Keys(p.term) : p \in e.said}
           tk == Noted(taken, machine, keys)
           ls == [bytes |-> loose.bytes, xmm |-> loose.xmm \ {i.x}]
<1>1. i.x \in Xmms /\ i.form # "half" /\ i.at \in Int /\ i.at + Cell \in Int /\ Cell \in Nat /\ Cell \in 0..Cell
  BY DEF Legal, Exact, Addresses, Pointer, Either, Given
<1>2. /\ e.held = [held EXCEPT !.xmm[i.x] = [lo |-> lo, hi |-> hi]]
      /\ e.machine = [machine EXCEPT !.xmm[i.x] = [lo |-> low, hi |-> high]]
      /\ e.said = {Is(lo, low)} \cup IF i.w = Cell THEN {} ELSE {Is(hi, high)}
  BY <1>1 DEF DoSseLoad, After
<1>3. Safe(held, loose.bytes, i.at, Cell) /\ (i.w # Cell => Safe(held, loose.bytes, i.at + Cell, Cell))
  <2>1. Reading(i) = {[a |-> i.at, w |-> Cell]} \cup IF i.w = Cell THEN {} ELSE {[a |-> i.at + Cell, w |-> Cell]}
    BY DEF Reading
  <2>2. \A x \in Reading(i) : Safe(held, loose.bytes, x.a, x.w)
    BY DEF Exact
  <2>3. Safe(held, loose.bytes, i.at, Cell)
    <3>1. [a |-> i.at, w |-> Cell] \in Reading(i)
      BY <2>1
    <3> QED
      BY <2>2, <3>1
  <2>4. i.w # Cell => Safe(held, loose.bytes, i.at + Cell, Cell)
    <3>1. i.w # Cell => [a |-> i.at + Cell, w |-> Cell] \in Reading(i)
      BY <2>1
    <3> QED
      BY <2>2, <3>1
  <2> QED
    BY <2>3, <2>4
<1>4. /\ GensOK(held) /\ MemTrue(taken, held.mem, machine.bytes, loose.bytes)
      /\ LoadsTrue(taken, held, machine, loose.bytes)
  BY NowIs
<1>5. /\ \A k \in Keys(lo) : k \in DOMAIN taken \/ New(held, k)
      /\ \A tk2 : Extends(taken, tk2) /\ LoadsTrue(tk2, held, machine, loose.bytes) /\ Keys(lo) \subseteq DOMAIN tk2 =>
             Describes(tk2, lo, low, Cell)
  BY <1>1, <1>3, <1>4, LoadIs
<1>6. i.w = Cell => hi = Zeros(Cell) /\ high = Zeros(Cell)
  BY DEF HighLoaded
<1>7. ASSUME i.w # Cell
      PROVE  /\ \A k \in Keys(hi) : k \in DOMAIN taken \/ New(held, k)
             /\ \A tk2 : Extends(taken, tk2) /\ LoadsTrue(tk2, held, machine, loose.bytes) /\ Keys(hi) \subseteq DOMAIN tk2 =>
                    Describes(tk2, hi, high, Cell)
  <2>1. hi = Load(held, i.at + Cell, Cell) /\ high = Read(machine, i.at + Cell, Cell)
    BY <1>7 DEF HighLoaded
  <2>2. Safe(held, loose.bytes, i.at + Cell, Cell)
    BY <1>3, <1>7
  <2> HIDE DEF hi, high
  <2> QED
    BY <1>1, <1>4, <2>1, <2>2, LoadIs
<1> HIDE DEF lo, low, hi, high, e
<1>8. keys = Keys(lo) \cup IF i.w = Cell THEN {} ELSE Keys(hi)
  <2>1. Is(lo, low).term = lo /\ Is(hi, high).term = hi
    BY DEF Is
  <2> QED
    BY <1>2, <2>1
<1> HIDE DEF keys
<1>9. Extends(taken, tk) /\ keys \subseteq DOMAIN tk
  BY DEF Noted, Extends
<1>10. LoadsTrue(tk, held, machine, loose.bytes)
  <2>1. \A k \in keys : k \in DOMAIN taken \/ New(held, k)
    BY <1>5, <1>7, <1>8
  <2> QED
    BY <2>1, NowIs, LoadsNoted
<1> HIDE DEF tk
<1>11. Describes(tk, lo, low, Cell)
  BY <1>5, <1>8, <1>9, <1>10
<1>12. Describes(tk, hi, high, Cell)
  <2>1. CASE i.w = Cell
    BY <1>1, <1>6, <2>1, ZerosDescribe
  <2>2. CASE i.w # Cell
    BY <1>7, <1>8, <1>9, <1>10, <2>2
  <2> QED
    BY <2>1, <2>2
<1>13. HalfIs(tk, lo, low) /\ HalfIs(tk, hi, high)
  BY <1>11, <1>12, HalfKnown
<1>14. Sound(tk, e.held, e.machine, ls)
  BY <1>1, <1>2, <1>9, <1>10, <1>13, SseSound
<1>15. \A p \in e.said : \E n \in 0..Cell : Describes(tk, p.term, p.real, n)
  BY <1>1, <1>2, <1>11, <1>12 DEF Is
<1> HIDE DEF ls
<1>16. Result(e, ls)
  BY <1>14, <1>15 DEF Result, tk, keys
<1>17. Result(e, NextLoose(i, e.held))
  BY <1>16, SseLooser DEF ls
<1> QED
  BY <1>17 DEF e

\* Some bytes over those of m, and nothing else.
Brings(f, m, m2, at, n) ==
    /\ m2.bytes = Overlay(f, m.bytes) /\ Bytes(f) /\ DOMAIN f = Span(Real(at), n)
    /\ IsMachine(m2) /\ m2.regs = m.regs /\ m2.xmm = m.xmm

(* A write changes its bytes and nothing else.                                *)
LEMMA WrittenBrings ==
  ASSUME NEW m, IsMachine(m), NEW at, NEW n \in Nat, NEW v \in Term(n), WorldOK, at \in Int
  PROVE  \E f : Brings(f, m, Written(m, at, v), at, n)
BY WrittenIs DEF Fills, Brings

(* Two cells are written, one behind the other.                               *)
LEMMA SpanTwice ==
  ASSUME NEW a \in Int, Cell \in Nat
  PROVE  Span(a, 2 * Cell) = Span(a, Cell) \cup Span(a + Cell, Cell)
BY DEF Span

(* Two writes of a cell each, one behind the other, are one write of two      *)
(* cells.                                                                     *)
LEMMA WrittenTwice ==
  ASSUME Given, WorldOK, NEW m, IsMachine(m), NEW at \in Nat, NEW t \in Term(Cell), NEW u \in Term(Cell)
  PROVE  \E f : Brings(f, m, Written(Written(m, at, t), at + Cell, u), at, 2 * Cell)
<1> DEFINE m2 == Written(m, at, t)
           m3 == Written(m2, at + Cell, u)
<1>1. Cell \in Nat /\ at \in Int /\ at + Cell \in Int /\ Real(at) = at /\ Real(at + Cell) = at + Cell
  <2>1. Cell \in Nat /\ at \in Int /\ at + Cell \in Int /\ ~(at < 0) /\ ~(at + Cell < 0)
    BY DEF Given
  <2> QED
    BY <2>1, RealIs
<1>2. PICK f : Brings(f, m, m2, at, Cell)
  BY <1>1, WrittenBrings
<1>3. IsMachine(m2)
  BY <1>2 DEF Brings
<1> HIDE DEF m2
<1>4. PICK g : Brings(g, m2, m3, at + Cell, Cell)
  BY <1>1, <1>3, WrittenBrings
<1> HIDE DEF m3
<1>5. Overlay(g, Overlay(f, m.bytes)) = Overlay(Overlay(g, f), m.bytes)
  <2> DEFINE x == Overlay(g, Overlay(f, m.bytes))
             y == Overlay(Overlay(g, f), m.bytes)
  <2>1. DOMAIN x = DOMAIN g \cup DOMAIN f \cup DOMAIN m.bytes /\ DOMAIN y = DOMAIN g \cup DOMAIN f \cup DOMAIN m.bytes
    BY DEF Overlay
  <2>2. ASSUME NEW b \in DOMAIN g \cup DOMAIN f \cup DOMAIN m.bytes PROVE x[b] = y[b]
    BY DEF Overlay
  <2>3. x = [b \in DOMAIN x |-> x[b]] /\ y = [b \in DOMAIN y |-> y[b]]
    BY DEF Overlay
  <2> HIDE DEF x, y
  <2>4. x = y
    BY <2>1, <2>2, <2>3
  <2> QED
    BY <2>4 DEF x, y
<1>6. Bytes(Overlay(g, f)) /\ DOMAIN Overlay(g, f) = Span(at, 2 * Cell)
  <2>1. Bytes(Overlay(g, f)) /\ DOMAIN Overlay(g, f) = DOMAIN g \cup DOMAIN f
    BY <1>2, <1>4, OverBytes DEF Brings
  <2>2. DOMAIN g = Span(at + Cell, Cell) /\ DOMAIN f = Span(at, Cell)
    BY <1>1, <1>2, <1>4 DEF Brings
  <2> QED
    BY <1>1, <2>1, <2>2, SpanTwice
<1>7. Brings(Overlay(g, f), m, m3, at, 2 * Cell)
  BY <1>1, <1>2, <1>4, <1>5, <1>6 DEF Brings
<1> QED
  BY <1>7 DEF m3, m2

\* Bytes that may be loose after n of them became unknown at an address.
CoversUnknown(mem, lb, at, n, lb2) ==
    /\ at >= 0 => lb \ Span(at, n) \subseteq lb2 /\ \A b \in Span(at, n) : Region[b] \in {"ro", "bss"} => b \in lb2
    /\ ~(at >= 0) => Lost(mem, lb, at, n, lb2)

(* What is loose after a write of something unknown covers what was written.  *)
LEMMA UnknownCovers ==
  ASSUME WorldOK, NEW i, i.op # "call", Writing(i).a \in Int, NEW h, IsHeld(h), h.mem = held.mem,
         NEW h2, h2 = ForgetMemory(h, Writing(i).a, Writing(i).w)
  PROVE  CoversUnknown(held.mem, loose.bytes, Writing(i).a, Writing(i).w, Unseen(i, h2))
<1> DEFINE a == Writing(i).a
           w == Writing(i).w
<1>1. a >= 0 <=> ~(a < 0)
  OBVIOUS
<1>2. CASE a < 0
  <2>1. h2.mem = h.mem
    BY <1>1, <1>2, StoreIs
  <2>2. Lost(h2.mem, loose.bytes, a, w, Unseen(i, h2))
    BY <1>2, UnseenIs
  <2> HIDE DEF a, w
  <2> QED
    BY <1>1, <1>2, <2>1, <2>2 DEF CoversUnknown, a, w
<1>3. CASE ~(a < 0)
  <2>1. h2.mem = ForgetConcrete(h.mem, a, w)
    BY <1>1, <1>3, StoreIs
  <2>2. \A b \in Span(a, w) : b \notin DOMAIN h2.mem
    BY <2>1 DEF ForgetConcrete
  <2>3. /\ loose.bytes \ Span(a, w) \subseteq Unseen(i, h2)
        /\ \A b \in Span(a, w) : Region[b] \in {"ro", "bss"} /\ b \notin DOMAIN h2.mem => b \in Unseen(i, h2)
    BY <1>3, UnseenIs
  <2> HIDE DEF a, w
  <2> QED
    BY <1>1, <1>3, <2>2, <2>3 DEF CoversUnknown, a, w
<1> QED
  BY <1>2, <1>3

(* What is written is not known: the bytes are forgotten.                     *)
LEMMA ForgetSound ==
  ASSUME Given, WorldOK, NEW tk, NEW h, NEW m, NEW ls, Sound(tk, h, m, ls), NEW at \in Int, NEW n \in Nat,
         NEW f, NEW m2, Brings(f, m, m2, at, n), NEW lb2, CoversUnknown(h.mem, ls.bytes, at, n, lb2)
  PROVE  Sound(tk, ForgetMemory(h, at, n), m2, [bytes |-> lb2, xmm |-> ls.xmm])
<1>1. Memory(tk, h, m, ls.bytes)
  BY DEF Sound
<1>2. /\ Bytes(f) /\ DOMAIN f = Span(Real(at), n) /\ IsMachine(m2) /\ m2.bytes = Overlay(f, m.bytes)
      /\ m2.regs = m.regs /\ m2.xmm = m.xmm
  BY DEF Brings
<1>3. /\ at >= 0 => ls.bytes \ Span(at, n) \subseteq lb2 /\ \A b \in Span(at, n) : Region[b] \in {"ro", "bss"} => b \in lb2
      /\ ~(at >= 0) => Lost(h.mem, ls.bytes, at, n, lb2)
  BY DEF CoversUnknown
<1>4. Memory(tk, ForgetMemory(h, at, n), m2, lb2) /\ SameRest(h, ForgetMemory(h, at, n))
  BY <1>1, <1>2, <1>3, ForgetKeeps
<1> QED
  BY <1>2, <1>4, SoundStored

(* movups [at], xmm and movlps [at], xmm.                                     *)
LEMMA SseStoreDone ==
  ASSUME Given, WorldOK, Now, NEW i, Legal(i), Exact(i), i.op = "ssestore"
  PROVE  LET e == DoSseStore(held, machine, i) IN Result(e, NextLoose(i, e.held))
<1> DEFINE e == DoSseStore(held, machine, i)
           x == held.xmm[i.x]
           v == machine.xmm[i.x]
           known == x.lo # <<>> /\ (i.w = Cell \/ x.hi # <<>>)
           stored == Store(held, i.at, x.lo)
           after == Written(machine, i.at, v.lo)
           lb2 == Unseen(i, e.held)
           ls == [bytes |-> lb2, xmm |-> loose.xmm]
<1>1. /\ e.held = CASE ~known                -> ForgetMemory(held, i.at, i.w)
                    [] known /\ i.w = Cell   -> stored
                    [] known /\ i.w # Cell   -> Store(stored, i.at + Cell, x.hi)
      /\ e.machine = IF i.w = Cell THEN after ELSE Written(after, i.at + Cell, v.hi)
      /\ e.said = IF ~known THEN {} ELSE {Is(x.lo, v.lo)} \cup IF i.w = Cell THEN {} ELSE {Is(x.hi, v.hi)}
  BY DEF DoSseStore, After
<1>2. /\ i.x \in Xmms /\ i.x \notin loose.xmm /\ i.at \in Int /\ Cell \in Nat /\ i.w \in Nat
      /\ i.w = Cell \/ (i.w = 2 * Cell /\ i.at \in Nat /\ i.w # Cell)
  BY DEF Legal, Exact, Addresses, Pointer, Either, Given
<1>3. /\ HalfTrue(taken, x.lo, v.lo) /\ HalfTrue(taken, x.hi, v.hi) /\ v.lo \in Term(Cell) /\ v.hi \in Term(Cell)
  <2>1. SseTrue(taken, held.xmm, machine.xmm, loose.xmm)
    BY NowIs
  <2>2. HalfIs(taken, held.xmm[i.x].lo, machine.xmm[i.x].lo) /\ HalfIs(taken, held.xmm[i.x].hi, machine.xmm[i.x].hi)
    BY <1>2, <2>1, HalvesAre
  <2> QED
    BY <2>2 DEF HalfIs
<1>4. Writing(i).a = i.at /\ Writing(i).w = i.w /\ i.op # "call"
  BY DEF Writing
<1> HIDE DEF e, x, v
<1>5. IsHeld(held) /\ IsMachine(machine) /\ Memory(taken, held, machine, loose.bytes) /\ Sound(taken, held, machine, loose)
  BY NowIs DEF Now
<1> DEFINE good == Sound(taken, e.held, e.machine, ls) /\ \A p \in e.said : \E n \in 0..Cell : Describes(taken, p.term, p.real, n)
<1>6. ASSUME ~known PROVE good
  <2>1. e.held = ForgetMemory(held, i.at, i.w) /\ e.said = {}
    BY <1>1, <1>6
  <2>2. CoversUnknown(held.mem, loose.bytes, i.at, i.w, lb2)
    <3>1. CoversUnknown(held.mem, loose.bytes, Writing(i).a, Writing(i).w, Unseen(i, e.held))
      BY <1>2, <1>4, <1>5, <2>1, UnknownCovers
    <3> QED
      BY <1>4, <3>1
  <2>3. PICK f : Brings(f, machine, e.machine, i.at, i.w)
    <3>1. CASE i.w = Cell
      BY <1>1, <1>2, <1>3, <1>5, <3>1, WrittenBrings
    <3>2. CASE i.w # Cell
      BY <1>1, <1>2, <1>3, <1>5, <3>2, WrittenTwice
    <3> QED
      BY <3>1, <3>2
  <2> HIDE DEF lb2
  <2>4. Sound(taken, e.held, e.machine, [bytes |-> lb2, xmm |-> loose.xmm])
    BY <1>2, <1>5, <2>1, <2>2, <2>3, ForgetSound
  <2> QED
    BY <2>1, <2>4
<1>7. ASSUME known PROVE good
  <2>1. Describes(taken, x.lo, v.lo, Cell) /\ (i.w # Cell => Describes(taken, x.hi, v.hi, Cell))
    BY <1>3, <1>7 DEF HalfTrue
  <2>2. \A p \in e.said : \E n \in 0..Cell : Describes(taken, p.term, p.real, n)
    BY <1>1, <1>2, <1>7, <2>1 DEF Is
  <2>3. CASE i.w = Cell
    <3>1. e.held = Store(held, i.at, x.lo) /\ e.machine = Written(machine, i.at, v.lo)
      BY <1>1, <1>7, <2>3
    <3>2. i.at < 0 => e.held.mem = held.mem
      <4>1. i.at < 0 => ~(i.at >= 0)
        BY <1>2
      <4> QED
        BY <1>5, <3>1, <4>1, StoreIs
    <3>3. Covers(held.mem, loose.bytes, Writing(i).a, Writing(i).w, Unseen(i, e.held))
      BY <1>2, <1>4, <3>2, UnseenCovers
    <3>4. i.at >= 0 => loose.bytes \ Span(i.at, Cell) \subseteq lb2
      BY <1>4, <2>3, <3>3 DEF Covers
    <3>5. ~(i.at >= 0) => Lost(held.mem, loose.bytes, i.at, Cell, lb2)
      BY <1>4, <2>3, <3>3 DEF Covers
    <3> HIDE DEF lb2
    <3>6. /\ Memory(taken, e.held, e.machine, lb2) /\ SameRest(held, e.held)
          /\ e.machine.regs = machine.regs /\ e.machine.xmm = machine.xmm
      BY <1>2, <1>5, <2>1, <3>1, <3>4, <3>5, StoreKeeps
    <3>7. Sound(taken, e.held, e.machine, ls)
      BY <1>5, <3>6, SoundStored
    <3> QED
      BY <2>2, <3>7
  <2>4. CASE i.w # Cell
    <3> DEFINE lb1 == loose.bytes \ Span(i.at, Cell)
    <3>1. e.held = Store(stored, i.at + Cell, x.hi) /\ e.machine = Written(after, i.at + Cell, v.hi)
      BY <1>1, <1>7, <2>4
    <3>2. i.at >= 0 /\ i.at + Cell >= 0 /\ i.at + Cell \in Int /\ ~(i.at < 0)
      BY <1>2, <2>4
    <3>3. loose.bytes \ Span(i.at, i.w) \subseteq lb2
      BY <1>2, <1>4, <3>2, UnseenIs
    <3>4. lb1 \ Span(i.at + Cell, Cell) \subseteq lb2
      BY <1>2, <2>4, <3>3, SpanTwice
    <3> HIDE DEF lb2
    <3>5. i.at >= 0 => loose.bytes \ Span(i.at, Cell) \subseteq lb1
      OBVIOUS
    <3>6. i.at + Cell >= 0 => lb1 \ Span(i.at + Cell, Cell) \subseteq lb2
      BY <3>4
    <3> HIDE DEF lb1
    <3>7. Describes(taken, x.lo, v.lo, Cell)
      BY <2>1
    <3>8. /\ Memory(taken, stored, after, lb1) /\ SameRest(held, stored)
          /\ after.regs = machine.regs /\ after.xmm = machine.xmm
      <4>1. ~(i.at >= 0) => Lost(held.mem, loose.bytes, i.at, Cell, lb1)
        BY <3>2
      <4>2. Cell \in Nat /\ i.at \in Int /\ Memory(taken, held, machine, loose.bytes)
        BY <1>2, <1>5
      <4> QED
        BY <3>5, <3>7, <4>1, <4>2, StoreKeeps
    <3> HIDE DEF stored, after
    <3>9. Describes(taken, x.hi, v.hi, Cell)
      BY <2>1, <2>4
    <3>10. /\ Memory(taken, e.held, e.machine, lb2) /\ SameRest(stored, e.held)
           /\ e.machine.regs = after.regs /\ e.machine.xmm = after.xmm
      <4>1. ~(i.at + Cell >= 0) => Lost(stored.mem, lb1, i.at + Cell, Cell, lb2)
        BY <3>2
      <4>2. Cell \in Nat /\ i.at + Cell \in Int /\ Memory(taken, stored, after, lb1)
        BY <1>2, <3>2, <3>8
      <4> QED
        BY <3>1, <3>6, <3>9, <4>1, <4>2, StoreKeeps
    <3>11. SameRest(held, e.held)
      BY <3>8, <3>10 DEF SameRest
    <3>12. Sound(taken, e.held, e.machine, ls)
      BY <1>5, <3>8, <3>10, <3>11, SoundStored
    <3> QED
      BY <2>2, <3>12
  <2> QED
    BY <2>3, <2>4
<1>8. Result(e, ls)
  <2>1. Sound(taken, e.held, e.machine, ls) /\ \A p \in e.said : \E n \in 0..Cell : Describes(taken, p.term, p.real, n)
    BY <1>6, <1>7
  <2> HIDE DEF ls
  <2> QED
    BY <2>1, Quiet
<1>9. NextLoose(i, e.held) = ls
  BY SseUnseen DEF NextLoose
<1>10. Result(e, NextLoose(i, e.held))
  BY <1>8, <1>9
<1> QED
  BY <1>10 DEF e

-----------------------------------------------------------------------------
(* What the evaluator does not know becomes an opaque                         *)

(* Registers have numbers of their own.                                       *)
LEMMA NumberedIs ==
  ASSUME Given
  PROVE  Cardinality(Gprs) \in Nat /\ \A r \in Gprs : Numbered[r] \in Int
<1>1. Cardinality(Gprs) \in Nat /\ ExistsBijection(1..Cardinality(Gprs), Gprs)
  BY FS_CardinalityType DEF Given
<1>2. ExistsBijection(Gprs, 1..Cardinality(Gprs))
  BY <1>1, Fun_ExistsBijSymmetric
<1>3. \E f \in [Gprs -> 1..Cardinality(Gprs)] : \A r, s \in Gprs : f[r] = f[s] => r = s
  BY <1>2 DEF ExistsBijection, Bijection, Injection, IsInjective
<1>4. Numbered \in [Gprs -> 1..Cardinality(Gprs)]
  BY <1>3 DEF Numbered
<1> QED
  BY <1>1, <1>4

(* An opaque describes what it stands for.                                    *)
LEMMA FreshDescribes ==
  ASSUME Given, NEW tk, NEW h, h.opaques \in Nat, NEW k \in Int
  PROVE  Describes(tk, Fresh(h, k), Fresh(h, k), Cell)
<1>1. h.opaques + k \in Int /\ "opaque" \in Kinds \ {"load"}
  BY DEF Kinds
<1> QED
  BY <1>1, WordDescribes DEF Fresh

(* Registers that are written hold an opaque of what the machine has there.   *)
LEMMA RegsClobbered ==
  ASSUME NEW tk, NEW hr, NEW mr, RegsTrue(tk, hr, mr), NEW hr2, NEW mr2,
         hr2 = [r \in Gprs |-> hr2[r]], mr2 = [r \in Gprs |-> mr2[r]],
         \A r \in Gprs : (hr2[r] = hr[r] /\ mr2[r] = mr[r]) \/ Describes(tk, hr2[r], mr2[r], Cell)
  PROVE  RegsTrue(tk, hr2, mr2)
<1>1. \A r \in Gprs : Describes(tk, hr2[r], mr2[r], Cell)
  BY DEF RegsTrue
<1>2. \A r \in Gprs : hr2[r] \in Term(Cell) /\ mr2[r] \in Term(Cell)
  BY <1>1 DEF Describes
<1> QED
  BY <1>1, <1>2 DEF RegsTrue

\* SSE registers that are written: unknown to the evaluator, or loose.
Clobbers(hx, mx, lx, t, hx2, mx2, lx2) ==
    /\ hx2 = [x \in Xmms |-> hx2[x]] /\ mx2 = [x \in Xmms |-> mx2[x]]
    /\ \A x \in Xmms : /\ hx2[x] = hx[x] \/ hx2[x] = Unknown
                       /\ mx2[x] = mx[x] \/ mx2[x] = [lo |-> t, hi |-> t]
                       /\ hx2[x] = Unknown \/ x \in lx2 \/ (hx2[x] = hx[x] /\ mx2[x] = mx[x] /\ x \notin lx)

(* SSE registers that are written are unknown, or loose.                      *)
LEMMA SseClobbered ==
  ASSUME NEW tk, NEW hx, NEW mx, NEW lx, SseTrue(tk, hx, mx, lx), NEW t \in Term(Cell),
         NEW hx2, NEW mx2, NEW lx2, Clobbers(hx, mx, lx, t, hx2, mx2, lx2)
  PROVE  SseTrue(tk, hx2, mx2, lx2)
<1> DEFINE mr == [lo |-> t, hi |-> t]
<1>1. Unknown \in [lo : Half, hi : Half] /\ Unknown.lo = <<>> /\ Unknown.hi = <<>>
  BY DEF Unknown, Half
<1>2. mr \in [lo : Term(Cell), hi : Term(Cell)]
  OBVIOUS
<1>3. \A x \in Xmms : hx2[x] \in [lo : Half, hi : Half] /\ mx2[x] \in [lo : Term(Cell), hi : Term(Cell)]
  BY <1>1, <1>2 DEF SseTrue, Clobbers
<1>4. hx2 \in [Xmms -> [lo : Half, hi : Half]] /\ mx2 \in [Xmms -> [lo : Term(Cell), hi : Term(Cell)]]
  BY <1>3 DEF Clobbers
<1>5. ASSUME NEW x \in Xmms \ lx2
      PROVE  HalfTrue(tk, hx2[x].lo, mx2[x].lo) /\ HalfTrue(tk, hx2[x].hi, mx2[x].hi)
  <2>1. CASE hx2[x] = Unknown
    BY <1>1, <2>1 DEF HalfTrue
  <2>2. CASE hx2[x] = hx[x] /\ mx2[x] = mx[x] /\ x \notin lx
    BY <2>2 DEF SseTrue
  <2> QED
    BY <1>5, <2>1, <2>2 DEF Clobbers
<1> QED
  BY <1>4, <1>5 DEF SseTrue

\* What a boxed instruction leaves in registers.
Boxed(h, i) ==
    [h EXCEPT !.regs = [r \in Gprs |-> IF r \in i.listed THEN Narrow(Fresh(h, Numbered[r]))
                                       ELSE IF r \in i.listed \cup (i.dest.reg \cap Gprs) THEN Fresh(h, Numbered[r]) ELSE @[r]],
              !.xmm = [x \in Xmms |-> IF x \in i.dest.reg THEN Unknown ELSE @[x]],
              !.args = @ \cup ((i.listed \cup (i.dest.reg \cap Gprs)) \cap ArgRegs),
              !.opaques = @ + Cardinality(Gprs) + 1]
Wrote(h, m, i) ==
    [m EXCEPT !.regs = [r \in Gprs |-> IF r \in i.listed THEN Narrow(Fresh(h, Numbered[r]))
                                       ELSE IF r \in i.writes THEN Fresh(h, Numbered[r]) ELSE @[r]],
              !.xmm = [x \in Xmms |-> IF x \in i.dest.reg THEN [lo |-> Fresh(h, 0), hi |-> Fresh(h, 0)] ELSE @[x]]]

(* What a boxed instruction writes in registers (ir/lift.rs                   *)
(* `apply_boxed_effects`).                                                    *)
LEMMA BoxedSound ==
  ASSUME Given, WorldOK, Now, NEW i, Legal(i), Exact(i), i.op = "box"
  PROVE  LET h == Boxed(held, i)
             m == Wrote(held, machine, i)
         IN  /\ Sound(taken, h, m, [bytes |-> loose.bytes, xmm |-> loose.xmm \ i.dest.reg])
             /\ IsHeld(h) /\ h.mem = held.mem /\ IsMachine(m)
<1> DEFINE h == Boxed(held, i)
           m == Wrote(held, machine, i)
           clobbered == i.listed \cup (i.dest.reg \cap Gprs)
           hr2 == [r \in Gprs |-> IF r \in i.listed THEN Narrow(Fresh(held, Numbered[r]))
                                  ELSE IF r \in clobbered THEN Fresh(held, Numbered[r]) ELSE held.regs[r]]
           mr2 == [r \in Gprs |-> IF r \in i.listed THEN Narrow(Fresh(held, Numbered[r]))
                                  ELSE IF r \in i.writes THEN Fresh(held, Numbered[r]) ELSE machine.regs[r]]
           t == Fresh(held, 0)
           hx2 == [x \in Xmms |-> IF x \in i.dest.reg THEN Unknown ELSE held.xmm[x]]
           mx2 == [x \in Xmms |-> IF x \in i.dest.reg THEN [lo |-> t, hi |-> t] ELSE machine.xmm[x]]
           args == held.args \cup (clobbered \cap ArgRegs)
           opaques == held.opaques + Cardinality(Gprs) + 1
           ls == [bytes |-> loose.bytes, xmm |-> loose.xmm \ i.dest.reg]
<1>1. /\ Rest(held) /\ IsHeld(held) /\ IsMachine(machine) /\ RegsTrue(taken, held.regs, machine.regs)
      /\ SseTrue(taken, held.xmm, machine.xmm, loose.xmm) /\ GensOK(held)
      /\ MemTrue(taken, held.mem, machine.bytes, loose.bytes) /\ LoadsTrue(taken, held, machine, loose.bytes)
  BY NowIs
<1>2. held.opaques \in Nat /\ Cardinality(Gprs) \in Nat /\ ArgRegs \subseteq Gprs
  BY <1>1, NumberedIs DEF Rest, Given
<1>3. h = [held EXCEPT !.regs = hr2, !.xmm = hx2, !.args = args, !.opaques = opaques]
  BY DEF Boxed
<1>4. m = [machine EXCEPT !.regs = mr2, !.xmm = mx2]
  BY DEF Wrote
<1>5. RegsTrue(taken, hr2, mr2)
  <2>1. hr2 = [r \in Gprs |-> hr2[r]] /\ mr2 = [r \in Gprs |-> mr2[r]]
    OBVIOUS
  <2>2. ASSUME NEW r \in Gprs
        PROVE  (hr2[r] = held.regs[r] /\ mr2[r] = machine.regs[r]) \/ Describes(taken, hr2[r], mr2[r], Cell)
    <3> DEFINE f == Fresh(held, Numbered[r])
    <3>1. Describes(taken, f, f, Cell)
      BY <1>2, NumberedIs, FreshDescribes
    <3>2. Describes(taken, Narrow(f), Narrow(f), Cell)
      BY <3>1, NarrowDescribes
    <3>3. /\ hr2[r] = IF r \in i.listed THEN Narrow(f) ELSE IF r \in clobbered THEN f ELSE held.regs[r]
          /\ mr2[r] = IF r \in i.listed THEN Narrow(f) ELSE IF r \in i.writes THEN f ELSE machine.regs[r]
      OBVIOUS
    <3>4. r \notin i.listed => (r \in clobbered <=> r \in i.writes)
      BY DEF Legal, Exact
    <3> HIDE DEF f, hr2, mr2, clobbered
    <3> QED
      BY <3>1, <3>2, <3>3, <3>4
  <2> HIDE DEF hr2, mr2
  <2> QED
    BY <1>1, <2>1, <2>2, RegsClobbered
<1>6. SseTrue(taken, hx2, mx2, loose.xmm \ i.dest.reg)
  <2>1. t \in Term(Cell)
    <3>1. Describes(taken, Fresh(held, 0), Fresh(held, 0), Cell)
      BY <1>2, FreshDescribes
    <3> QED
      BY <3>1 DEF Describes
  <2> DEFINE lx2 == loose.xmm \ i.dest.reg
  <2>2. hx2 = [x \in Xmms |-> hx2[x]] /\ mx2 = [x \in Xmms |-> mx2[x]]
    OBVIOUS
  <2>3. \A x \in Xmms : /\ hx2[x] = IF x \in i.dest.reg THEN Unknown ELSE held.xmm[x]
                        /\ mx2[x] = IF x \in i.dest.reg THEN [lo |-> t, hi |-> t] ELSE machine.xmm[x]
    OBVIOUS
  <2> HIDE DEF t, hx2, mx2
  <2>4. Clobbers(held.xmm, machine.xmm, loose.xmm, t, hx2, mx2, lx2)
    BY <2>2, <2>3 DEF Clobbers
  <2> HIDE DEF lx2
  <2>5. SseTrue(taken, hx2, mx2, lx2)
    BY <1>1, <2>1, <2>4, SseClobbered
  <2> QED
    BY <2>5 DEF lx2
<1>7. args \subseteq Gprs /\ opaques \in Nat
  BY <1>1, <1>2 DEF Rest
<1>8. ls.bytes = loose.bytes /\ ls.xmm = loose.xmm \ i.dest.reg
  OBVIOUS
<1> HIDE DEF h, m, hr2, mr2, hx2, mx2, args, opaques, ls
<1>9. /\ IsHeld(h) /\ SameGens(held, h) /\ h.regs = hr2 /\ h.xmm = hx2 /\ h.mem = held.mem
      /\ h.sp = held.sp /\ h.pinned = held.pinned /\ h.args = args /\ h.opaques = opaques
  BY <1>1, <1>3 DEF IsHeld, SameGens
<1>10. IsMachine(m) /\ m.regs = mr2 /\ m.xmm = mx2 /\ m.bytes = machine.bytes
  BY <1>1, <1>4 DEF IsMachine
<1>11. GensOK(h) /\ LoadsTrue(taken, h, m, loose.bytes)
  BY <1>1, <1>9, <1>10, SameLoadGen, LoadsSame
<1>12. Sound(taken, h, m, ls)
  <2>1. Rest(h)
    BY <1>1, <1>7, <1>9 DEF Rest
  <2>2. Memory(taken, h, m, ls.bytes)
    BY <1>1, <1>8, <1>9, <1>10, <1>11 DEF Memory
  <2> QED
    BY <1>5, <1>6, <1>8, <1>9, <1>10, <2>1, <2>2 DEF Sound
<1> QED
  BY <1>9, <1>10, <1>12 DEF h, m, ls

(* A boxed instruction, whatever its first operand is.                        *)
LEMMA BoxDone ==
  ASSUME Given, WorldOK, Now, NEW i, Legal(i), Exact(i), i.op = "box"
  PROVE  LET e == DoBox(held, machine, i) IN Result(e, NextLoose(i, e.held))
<1> DEFINE e == DoBox(held, machine, i)
           h == Boxed(held, i)
           m == Wrote(held, machine, i)
           at == i.dest.at
           n == i.dest.bytes
           new == [k \in 1..n |-> Byte("opaque", held.opaques, -k)]
           lx == loose.xmm \ i.dest.reg
           ls == [bytes |-> loose.bytes, xmm |-> lx]
<1>1. /\ Sound(taken, h, m, [bytes |-> loose.bytes, xmm |-> loose.xmm \ i.dest.reg])
      /\ IsHeld(h) /\ h.mem = held.mem /\ IsMachine(m)
  BY BoxedSound
<1>2. /\ e.held = IF n = 0 THEN h ELSE ForgetMemory(h, at, n)
      /\ e.machine = IF n = 0 THEN m ELSE Written(m, at, new)
      /\ e.said = BoxedUses(held, machine, i)
  BY DEF DoBox, ApplyBoxedEffects, Boxed, Wrote, After
<1>3. at \in Int /\ n \in Nat /\ i.reads \subseteq Gprs
  BY DEF Legal, Addresses, Pointer, Either
<1>4. Writing(i).a = at /\ Writing(i).w = n /\ i.op # "call"
  BY DEF Writing
<1>5. new \in Term(n)
  <2>1. held.opaques \in Nat
    BY NowIs DEF Rest
  <2>2. \A k \in 1..n : Byte("opaque", held.opaques, -k) \in ByteSet
    BY <1>3, <2>1 DEF Byte, ByteSet, Kinds
  <2> QED
    BY <2>2 DEF Term
<1>6. \A p \in e.said : \E k \in 0..Cell : Describes(taken, p.term, p.real, k)
  <2>1. \A r \in i.reads : Describes(taken, held.regs[r], machine.regs[r], Cell)
    BY <1>3, NowIs DEF RegsTrue
  <2>2. Cell \in 0..Cell
    BY DEF Given
  <2> HIDE DEF e
  <2> QED
    BY <1>2, <2>1, <2>2 DEF BoxedUses, Is
<1>7. NextLoose(i, e.held) = [bytes |-> Unseen(i, e.held), xmm |-> lx]
  BY SseUnseen DEF NextLoose
<1>8. Sound(taken, h, m, ls) /\ ls.bytes = loose.bytes /\ ls.xmm = lx
  BY <1>1
<1> HIDE DEF e, h, m, at, n, new, lx, ls
<1>9. CASE n = 0
  <2>1. e.held = h /\ e.machine = m
    BY <1>2, <1>9
  <2>2. Result(e, ls)
    BY <1>6, <1>8, <2>1, Quiet
  <2>3. loose.bytes \subseteq Unseen(i, e.held)
    <3>1. Span(at, 0) = {}
      BY <1>3 DEF Span
    <3>2. at < 0 => loose.bytes \subseteq Unseen(i, e.held)
      BY <1>3, <1>4, UnseenIs DEF Lost
    <3>3. ~(at < 0) => loose.bytes \ Span(at, n) \subseteq Unseen(i, e.held)
      BY <1>3, <1>4, UnseenIs
    <3> QED
      BY <1>9, <3>1, <3>2, <3>3
  <2>4. ls.bytes \subseteq NextLoose(i, e.held).bytes /\ ls.xmm \subseteq NextLoose(i, e.held).xmm
    BY <1>7, <1>8, <2>3
  <2>5. Result(e, NextLoose(i, e.held))
    BY <2>2, <2>4, Looser
  <2> QED
    BY <2>5 DEF e
<1>10. CASE n # 0
  <2>1. e.held = ForgetMemory(h, at, n) /\ e.machine = Written(m, at, new)
    BY <1>2, <1>10
  <2>2. PICK f : Brings(f, m, e.machine, at, n)
    BY <1>1, <1>3, <1>5, <2>1, WrittenBrings
  <2>3. CoversUnknown(held.mem, loose.bytes, Writing(i).a, Writing(i).w, Unseen(i, e.held))
    BY <1>1, <1>3, <1>4, <2>1, UnknownCovers
  <2>4. CoversUnknown(h.mem, ls.bytes, at, n, Unseen(i, e.held))
    BY <1>1, <1>4, <1>8, <2>3
  <2>5. Sound(taken, e.held, e.machine, [bytes |-> Unseen(i, e.held), xmm |-> ls.xmm])
    BY <1>3, <1>8, <2>1, <2>2, <2>4, ForgetSound
  <2>6. Sound(taken, e.held, e.machine, NextLoose(i, e.held))
    BY <1>7, <1>8, <2>5
  <2>7. Result(e, NextLoose(i, e.held))
    BY <1>6, <2>6, Quiet
  <2> QED
    BY <2>7 DEF e
<1> QED
  BY <1>9, <1>10

(* A call outside the machine changes what it likes, and that is loose.       *)
LEMMA CallDone ==
  ASSUME Given, WorldOK, Now, NEW i, Legal(i), Exact(i), i.op = "call"
  PROVE  LET e == DoCall(held, machine, i) IN Result(e, NextLoose(i, e.held))
<1> DEFINE e == DoCall(held, machine, i)
           t == Fresh(held, 0)
           hr2 == [r \in Gprs |-> IF r \in Volatile THEN Fresh(held, Numbered[r]) ELSE held.regs[r]]
           mr2 == [r \in Gprs |-> IF r \in Volatile THEN Fresh(held, Numbered[r]) ELSE machine.regs[r]]
           mx2 == [x \in Xmms |-> IF x \in i.gone THEN [lo |-> t, hi |-> t] ELSE machine.xmm[x]]
           args == {}
           opaques == held.opaques + Cardinality(Gprs) + 1
           f == [b \in i.changes |-> Byte("opaque", held.opaques, -b)]
           lb2 == loose.bytes \cup i.changes
           lx2 == loose.xmm \cup i.gone
           h == e.held
           m == e.machine
<1>1. /\ Rest(held) /\ IsHeld(held) /\ IsMachine(machine) /\ RegsTrue(taken, held.regs, machine.regs)
      /\ SseTrue(taken, held.xmm, machine.xmm, loose.xmm) /\ GensOK(held)
      /\ MemTrue(taken, held.mem, machine.bytes, loose.bytes) /\ LoadsTrue(taken, held, machine, loose.bytes)
  BY NowIs
<1>2. held.opaques \in Nat /\ Cardinality(Gprs) \in Nat /\ i.changes \subseteq Nat /\ opaques \in Nat
  BY <1>1, NumberedIs DEF Rest, Legal
<1>3. /\ h = [held EXCEPT !.regs = hr2, !.args = args, !.opaques = opaques]
      /\ m = [machine EXCEPT !.regs = mr2, !.bytes = Overlay(f, machine.bytes), !.xmm = mx2]
      /\ e.said = {Is(held.regs[r], machine.regs[r]) : r \in held.args}
  BY DEF DoCall, ClobberCall, After
<1>4. RegsTrue(taken, hr2, mr2)
  <2>1. hr2 = [r \in Gprs |-> hr2[r]] /\ mr2 = [r \in Gprs |-> mr2[r]]
    OBVIOUS
  <2>2. ASSUME NEW r \in Gprs
        PROVE  (hr2[r] = held.regs[r] /\ mr2[r] = machine.regs[r]) \/ Describes(taken, hr2[r], mr2[r], Cell)
    <3> DEFINE g == Fresh(held, Numbered[r])
    <3>1. Describes(taken, g, g, Cell)
      BY <1>2, NumberedIs, FreshDescribes
    <3>2. /\ hr2[r] = IF r \in Volatile THEN g ELSE held.regs[r]
          /\ mr2[r] = IF r \in Volatile THEN g ELSE machine.regs[r]
      OBVIOUS
    <3> HIDE DEF g, hr2, mr2
    <3> QED
      BY <3>1, <3>2
  <2> HIDE DEF hr2, mr2
  <2> QED
    BY <1>1, <2>1, <2>2, RegsClobbered
<1>5. SseTrue(taken, held.xmm, mx2, lx2)
  <2>1. t \in Term(Cell)
    <3>1. Describes(taken, Fresh(held, 0), Fresh(held, 0), Cell)
      BY <1>2, FreshDescribes
    <3> QED
      BY <3>1 DEF Describes
  <2>2. held.xmm = [x \in Xmms |-> held.xmm[x]] /\ mx2 = [x \in Xmms |-> mx2[x]]
    BY <1>1 DEF SseTrue
  <2>3. \A x \in Xmms : mx2[x] = IF x \in i.gone THEN [lo |-> t, hi |-> t] ELSE machine.xmm[x]
    OBVIOUS
  <2> HIDE DEF t, mx2
  <2>4. Clobbers(held.xmm, machine.xmm, loose.xmm, t, held.xmm, mx2, lx2)
    BY <2>2, <2>3 DEF Clobbers
  <2> HIDE DEF lx2
  <2> QED
    BY <1>1, <2>1, <2>4, SseClobbered
<1>6. Bytes(f) /\ DOMAIN f = i.changes
  BY <1>2 DEF Bytes, Byte, ByteSet, Kinds
<1>7. \A p \in e.said : \E k \in 0..Cell : Describes(taken, p.term, p.real, k)
  <2>1. \A r \in held.args : Describes(taken, held.regs[r], machine.regs[r], Cell)
    BY <1>1 DEF RegsTrue, Rest
  <2>2. Cell \in 0..Cell
    BY DEF Given
  <2> HIDE DEF e
  <2> QED
    BY <1>3, <2>1, <2>2 DEF Is
<1>8. NextLoose(i, h) = [bytes |-> lb2, xmm |-> lx2]
  BY SseUnseen DEF NextLoose, Unseen
<1>9. loose.bytes \subseteq lb2 /\ i.changes \subseteq lb2 /\ args \subseteq Gprs
  OBVIOUS
<1> HIDE DEF e, h, m, hr2, mr2, mx2, args, opaques, f, lb2, lx2
<1>10. /\ IsHeld(h) /\ SameGens(held, h) /\ h.regs = hr2 /\ h.xmm = held.xmm /\ h.mem = held.mem
       /\ h.sp = held.sp /\ h.pinned = held.pinned /\ h.args = args /\ h.opaques = opaques
  BY <1>1, <1>3 DEF IsHeld, SameGens
<1>11. IsMachine(m) /\ m.regs = mr2 /\ m.xmm = mx2 /\ m.bytes = Overlay(f, machine.bytes)
  BY <1>1, <1>3 DEF IsMachine
<1>12. MemTrue(taken, held.mem, Overlay(f, machine.bytes), lb2)
  <2>1. \A b \in DOMAIN f : b \in DOMAIN held.mem \/ Region[b] \in {"ro", "bss"} => b \in lb2
    BY <1>6, <1>9
  <2> QED
    BY <1>1, <1>6, <1>9, <2>1, MemUnseen
<1>13. GensOK(h) /\ LoadsTrue(taken, h, m, lb2)
  <2>1. DOMAIN f \subseteq lb2
    BY <1>6, <1>9
  <2> QED
    BY <1>1, <1>9, <1>10, <1>11, <2>1, SameLoadGen, LoadsUnseen
<1>14. Sound(taken, h, m, NextLoose(i, h))
  <2>1. Rest(h)
    BY <1>1, <1>2, <1>9, <1>10 DEF Rest
  <2>2. Memory(taken, h, m, lb2)
    BY <1>10, <1>11, <1>12, <1>13 DEF Memory
  <2> QED
    BY <1>4, <1>5, <1>8, <1>10, <1>11, <2>1, <2>2 DEF Sound
<1>15. Result(e, NextLoose(i, e.held))
  BY <1>7, <1>14, Quiet DEF h, m
<1> QED
  BY <1>15 DEF e

-----------------------------------------------------------------------------
(* A jump through a register                                                  *)

(* What is left of a term behind its low bytes.                               *)
LEMMA HighDescribes ==
  ASSUME NEW tk, NEW t, NEW v, NEW n \in Nat, Describes(tk, t, v, n), NEW w \in 0..n
  PROVE  /\ Describes(tk, SubSeq(t, w + 1, n), SubSeq(v, w + 1, n), n - w)
         /\ Low(v, w) \o SubSeq(v, w + 1, n) = v
<1> DEFINE t2 == SubSeq(t, w + 1, n)
           v2 == SubSeq(v, w + 1, n)
<1>1. t \in Term(n) /\ v \in Term(n) /\ \A j \in 1..n : Tells(tk, t[j], v[j])
  BY DEF Describes
<1>2. t \in Seq(ByteSet) /\ v \in Seq(ByteSet) /\ Len(t) = n /\ Len(v) = n
  BY <1>1, TermIs
<1>3. n - w \in Nat /\ \A j \in 1..(n - w) : j + w \in 1..n /\ w + 1 + j - 1 = j + w
  OBVIOUS
<1>4. t2 = [j \in 1..(n - w) |-> t[j + w]] /\ v2 = [j \in 1..(n - w) |-> v[j + w]]
  BY <1>2, <1>3
<1>5. t2 \in Term(n - w) /\ v2 \in Term(n - w)
  BY <1>1, <1>3, <1>4 DEF Term
<1>6. \A j \in 1..(n - w) : Tells(tk, t2[j], v2[j])
  BY <1>1, <1>3, <1>4
<1>7. Low(v, w) \o v2 = v
  <2>1. Low(v, w) \in Seq(ByteSet) /\ Len(Low(v, w)) = w /\ \A j \in 1..w : Low(v, w)[j] = v[j]
    BY <1>2 DEF Low
  <2>2. v2 \in Seq(ByteSet) /\ Len(v2) = n - w /\ \A j \in 1..(n - w) : v2[j] = v[j + w]
    BY <1>3, <1>4, <1>5, TermIs
  <2> DEFINE x == Low(v, w) \o v2
  <2> HIDE DEF v2
  <2>3. x \in Seq(ByteSet) /\ Len(x) = n
    BY <2>1, <2>2
  <2>4. \A j \in 1..n : x[j] = v[j]
    <3> SUFFICES ASSUME NEW j \in 1..n PROVE x[j] = v[j]
      OBVIOUS
    <3>1. CASE j <= w
      BY <2>1, <2>2, <3>1
    <3>2. CASE ~(j <= w)
      <4>1. j - w \in 1..(n - w) /\ (j - w) + w = j
        BY <3>2
      <4>2. x[j] = v2[j - w]
        BY <2>1, <2>2, <3>2
      <4> QED
        BY <2>2, <4>1, <4>2
    <3> QED
      BY <3>1, <3>2
  <2>5. x = v
    <3> HIDE DEF x
    <3> QED
      BY <1>2, <2>3, <2>4, SeqEqual
  <2> QED
    BY <2>5 DEF x
<1> QED
  BY <1>5, <1>6, <1>7 DEF Describes

(* The bytes of loads in a term are no more than its bytes.                   *)
LEMMA OpensIs ==
  ASSUME NEW t, NEW n \in Nat, t \in Term(n)
  PROVE  Opens(t) \in 0..n
<1>1. DOMAIN t = 1..n
  BY TermIs
<1>2. IsFiniteSet(1..n) /\ Cardinality(1..n) = n
  BY FS_Interval
<1> DEFINE S == {i \in DOMAIN t : t[i].of = "load"}
<1>3. S \subseteq 1..n
  BY <1>1
<1>4. IsFiniteSet(S) /\ Cardinality(S) <= n
  BY <1>2, <1>3, FS_Subset
<1>5. Cardinality(S) \in Nat
  BY <1>4, FS_CardinalityType
<1> QED
  BY <1>4, <1>5 DEF Opens

(* A load that is resolved again is what the register holds: memory holds     *)
(* what it held when the load was made.                                       *)
LEMMA AgainDescribes ==
  ASSUME Given, WorldOK, Now, NEW i, Legal(i), Exact(i), i.op = "jump"
  PROVE  Describes(taken, Again(held, held.regs[i.r]), machine.regs[i.r], Cell)
<1> DEFINE t == held.regs[i.r]
           v == machine.regs[i.r]
           w == Opens(t)
           a == Real(Either)
           k == Key(t[1])
           low == LoadConcrete(held.mem, a, w)
           real == [j \in 1..w |-> Fetch(machine.bytes, a + j - 1)]
<1>1. i.r \in Gprs /\ Cell \in Nat
  BY DEF Legal, Given
<1>2. Describes(taken, t, v, Cell)
  BY <1>1, NowIs DEF RegsTrue
<1>3. t \in Term(Cell) /\ v \in Term(Cell) /\ w \in 0..Cell /\ w \in Nat
  BY <1>1, <1>2, OpensIs DEF Describes
<1>4. a \in Nat /\ a \in Int
  <2>1. Either \in Addresses
    BY DEF Addresses
  <2>2. \A x \in Addresses : Real(x) \in Nat
    BY RealIs
  <2> QED
    BY <2>1, <2>2
<1>5. CASE Again(held, t) = t
  BY <1>2, <1>5
<1>6. CASE Again(held, t) # t
  <2>1. /\ held.pinned /\ t[1].of = "load" /\ t[1].a = Either
        /\ Low(t, w) = [j \in 1..w |-> [t[1] EXCEPT !.i = j]]
        /\ Resolves(held.mem, a, w)
        /\ Again(held, t) = low \o SubSeq(t, w + 1, Cell)
    BY <1>6 DEF Again
  <2>2. taken[k] = Read(machine, k[1], k[2])
    BY <1>6 DEF Exact
  <2>3. k[1] = Either /\ k[2] = t[1].w /\ Real(k[1]) = a
    BY <2>1 DEF Key
  <2>4. Safe(held, loose.bytes, Either, w)
    <3>1. Reading(i) = {[a |-> Either, w |-> w]}
      BY <1>6 DEF Reading
    <3>2. \A x \in Reading(i) : Safe(held, loose.bytes, x.a, x.w)
      BY DEF Exact
    <3>3. [a |-> Either, w |-> w] \in Reading(i)
      BY <3>1
    <3> QED
      BY <3>2, <3>3
  <2>5. PinnedAddress(held, Either) >= 0
    <3>1. PinnedAddress(held, Either) = a
      BY <2>1 DEF PinnedAddress
    <3> HIDE DEF a
    <3> QED
      BY <1>4, <3>1
  <2>6. /\ Span(a, w) \cap loose.bytes = {} /\ ~Torn(held.mem, a, w)
        /\ \A b \in Span(a, w) \ DOMAIN held.mem : Region[b] # "data"
    BY <2>1, <2>4, <2>5 DEF Safe
  <2>7. MemTrue(taken, held.mem, machine.bytes, loose.bytes)
    BY NowIs
  <2>8. Describes(taken, low, real, w)
    <3>1. w \in Nat /\ a \in Int /\ Resolves(held.mem, a, w)
      BY <1>3, <1>4, <2>1
    <3> HIDE DEF a, w
    <3>2. Describes(taken, LoadConcrete(held.mem, a, w), [j \in 1..w |-> Fetch(machine.bytes, a + j - 1)], w)
      BY <2>6, <2>7, <3>1, LoadConcreteIs
    <3> QED
      BY <3>2
  <2>9. Low(v, w) = real
    <3>1. v \in Seq(ByteSet) /\ Len(v) = Cell /\ t \in Seq(ByteSet) /\ Len(t) = Cell
      BY <1>1, <1>3, TermIs
    <3> HIDE DEF a, w, v, t, k
    <3>2. Low(v, w) = [j \in 1..w |-> v[j]] /\ Low(t, w) = [j \in 1..w |-> t[j]]
      BY <1>1, <1>3, <3>1 DEF Low
    <3>3. ASSUME NEW j \in 1..w PROVE v[j] = Fetch(machine.bytes, a + j - 1)
      <4>1. j \in 1..Cell /\ 1 \in 1..Cell
        BY <1>1, <1>3
      <4>2. t[j] = [t[1] EXCEPT !.i = j]
        <5> DEFINE f == [x \in 1..w |-> [t[1] EXCEPT !.i = x]]
                   g == [x \in 1..w |-> t[x]]
        <5>1. f = g
          BY <2>1, <3>2
        <5>2. f[j] = [t[1] EXCEPT !.i = j] /\ g[j] = t[j]
          OBVIOUS
        <5> HIDE DEF f, g
        <5> QED
          BY <5>1, <5>2
      <4>3. t[1] \in ByteSet
        BY <1>3, <4>1 DEF Term
      <4>4. t[j].of = "load" /\ t[j].i = j /\ t[j].w = t[1].w /\ Key(t[j]) = k
        BY <2>1, <4>2, <4>3 DEF ByteSet, Key, k
      <4>5. Tells(taken, t[j], v[j])
        BY <1>2, <4>1 DEF Describes
      <4>6. j \in 1..(t[1].w) /\ v[j] = taken[k][j]
        BY <4>4, <4>5 DEF Tells
      <4>7. taken[k] = [x \in 1..(t[1].w) |-> Fetch(machine.bytes, a + x - 1)]
        BY <2>2, <2>3 DEF Read
      <4>8. taken[k][j] = Fetch(machine.bytes, a + j - 1)
        BY <4>6, <4>7
      <4> QED
        BY <4>6, <4>8
    <3> QED
      BY <3>2, <3>3 DEF real
  <2>10. /\ Describes(taken, SubSeq(t, w + 1, Cell), SubSeq(v, w + 1, Cell), Cell - w)
         /\ Low(v, w) \o SubSeq(v, w + 1, Cell) = v
    <3>1. Cell \in Nat /\ w \in 0..Cell /\ Describes(taken, t, v, Cell)
      BY <1>1, <1>2, <1>3
    <3> HIDE DEF w, t, v
    <3> QED
      BY <3>1, HighDescribes, Zenon
  <2> HIDE DEF w, t, v, low, real
  <2>11. Cell - w \in Nat /\ w + (Cell - w) = Cell
    BY <1>1, <1>3
  <2>12. Describes(taken, low \o SubSeq(t, w + 1, Cell), real \o SubSeq(v, w + 1, Cell), w + (Cell - w))
    BY <1>3, <2>8, <2>10, <2>11, JoinDescribes
  <2>13. Describes(taken, Again(held, t), v, Cell)
    BY <2>1, <2>9, <2>10, <2>11, <2>12
  <2> QED
    BY <2>13 DEF t, v
<1> QED
  BY <1>5, <1>6

(* A jump says where it goes.                                                 *)
LEMMA JumpDone ==
  ASSUME Given, WorldOK, Now, NEW i, Legal(i), Exact(i), i.op = "jump"
  PROVE  LET e == DoJump(held, machine, i) IN Result(e, NextLoose(i, e.held))
<1> DEFINE e == DoJump(held, machine, i)
           t == Again(held, held.regs[i.r])
           v == machine.regs[i.r]
<1>1. e.held = held /\ e.machine = machine /\ e.said = {Is(t, v)}
  BY DEF DoJump, After
<1>2. Describes(taken, t, v, Cell) /\ Cell \in 0..Cell
  BY AgainDescribes DEF Given
<1> HIDE DEF e, t, v
<1>3. \A p \in e.said : \E n \in 0..Cell : Describes(taken, p.term, p.real, n)
  BY <1>1, <1>2 DEF Is
<1>4. Result(e, loose)
  BY <1>1, <1>3, Quiet DEF Now
<1>5. loose.bytes \subseteq NextLoose(i, e.held).bytes /\ loose.xmm \subseteq NextLoose(i, e.held).xmm
  BY NothingUnseen, SseUnseen DEF NextLoose
<1>6. Result(e, NextLoose(i, e.held))
  BY <1>4, <1>5, Looser
<1> QED
  BY <1>6 DEF e

-----------------------------------------------------------------------------
(* Steps                                                                      *)

(* Whatever the instruction, what the evaluator holds after it is true of the *)
(* machine, and so is what it says of it.                                     *)
LEMMA EffectIs ==
  ASSUME Given, WorldOK, Now, NEW i, Legal(i), Exact(i)
  PROVE  Result(Effect(held, machine, i), NextLoose(i, Effect(held, machine, i).held))
<1>1. i.op \in Ops
  BY DEF Legal
<1>2. CASE i.op = "load"
  BY <1>2, LoadDone DEF Effect
<1>3. CASE i.op = "store"
  BY <1>3, StoreDone DEF Effect
<1>4. CASE i.op = "push"
  BY <1>4, PushDone DEF Effect
<1>5. CASE i.op = "pop"
  BY <1>5, PopDone DEF Effect
<1>6. CASE i.op = "const"
  BY <1>6, ConstDone DEF Effect
<1>7. CASE i.op = "sseload"
  BY <1>7, SseLoadDone DEF Effect
<1>8. CASE i.op = "ssestore"
  BY <1>8, SseStoreDone DEF Effect
<1>9. CASE i.op = "ssemove"
  BY <1>9, SseMoveDone DEF Effect
<1>10. CASE i.op = "ssezero"
  BY <1>10, SseZeroDone DEF Effect
<1>11. CASE i.op = "box"
  BY <1>11, BoxDone DEF Effect
<1>12. CASE i.op = "call"
  BY <1>12, CallDone DEF Effect
<1>13. CASE i.op = "pin"
  BY <1>13, PinDone DEF Effect
<1>14. CASE i.op = "jump"
  BY <1>14, JumpDone DEF Effect
<1> QED
  BY <1>1, <1>2, <1>3, <1>4, <1>5, <1>6, <1>7, <1>8, <1>9, <1>10, <1>11, <1>12, <1>13, <1>14 DEF Ops

\* The events of the last instruction.
Told(tk, events) == \A p \in events : \E n \in 0..Cell : Describes(tk, p.term, p.real, n)

(* Where the addresses are does not change.                                   *)
LEMMA SamePlaces ==
  ASSUME world' = world, Sound(taken', held', machine', loose')
  PROVE  Sound(taken, held, machine, loose)'
<1>1. /\ Rest(held') /\ RegsTrue(taken', held'.regs, machine'.regs) /\ SseTrue(taken', held'.xmm, machine'.xmm, loose'.xmm)
      /\ IsHeld(held') /\ IsMachine(machine') /\ GensOK(held') /\ MemTrue(taken', held'.mem, machine'.bytes, loose'.bytes)
      /\ LoadsTrue(taken', held', machine', loose'.bytes)
  BY DEF Sound, Memory
<1>2. LoadsTrue(taken, held, machine, loose.bytes)'
  BY <1>1 DEF LoadsTrue, Read, Real
<1> QED
  BY <1>1, <1>2 DEF Sound, Memory

(* The evaluator starts with what the machine starts with.                    *)
LEMMA InitHolds ==
  ASSUME Given, LiftInit
  PROVE  IInv
<1> DEFINE regs == [r \in Gprs |-> Word("start", Numbered[r])]
           unknown == [x \in Xmms |-> Unknown]
           xmm == [x \in Xmms |-> [lo |-> Word("start", 0), hi |-> Word("start", -1)]]
           mem == [b \in {} |-> 0]
<1>1. /\ program \in Programs /\ world \in program.worlds
      /\ held = [regs |-> regs, xmm |-> unknown, mem |-> mem, gen |-> 0, symGen |-> 0,
                 cellGen |-> mem, sp |-> program.sp, pinned |-> FALSE, args |-> {}, opaques |-> 0]
      /\ machine = [regs |-> regs, xmm |-> xmm, bytes |-> mem]
      /\ taken = [k \in {} |-> <<>>] /\ loose = [bytes |-> {}, xmm |-> {}] /\ said = {}
  BY DEF LiftInit
<1>2. \A a \in Int : Describes(taken, Word("start", a), Word("start", a), Cell)
  <2>1. "start" \in Kinds \ {"load"}
    BY DEF Kinds
  <2> QED
    BY <2>1, WordDescribes
<1>3. RegsTrue(taken, regs, regs)
  <2>1. \A r \in Gprs : regs[r] = Word("start", Numbered[r]) /\ Numbered[r] \in Int
    BY NumberedIs
  <2>2. \A r \in Gprs : Describes(taken, regs[r], regs[r], Cell)
    BY <1>2, <2>1
  <2>3. \A r \in Gprs : regs[r] \in Term(Cell)
    BY <2>2 DEF Describes
  <2>4. regs \in [Gprs -> Term(Cell)]
    BY <2>3
  <2> HIDE DEF regs
  <2> QED
    BY <2>2, <2>4 DEF RegsTrue
<1>4. SseTrue(taken, unknown, xmm, {})
  <2>1. Unknown \in [lo : Half, hi : Half] /\ Unknown.lo = <<>> /\ Unknown.hi = <<>>
    BY DEF Unknown, Half
  <2>2. Word("start", 0) \in Term(Cell) /\ Word("start", -1) \in Term(Cell)
    <3>1. Describes(taken, Word("start", 0), Word("start", 0), Cell) /\ Describes(taken, Word("start", -1), Word("start", -1), Cell)
      BY <1>2
    <3> QED
      BY <3>1 DEF Describes
  <2>3. unknown \in [Xmms -> [lo : Half, hi : Half]] /\ xmm \in [Xmms -> [lo : Term(Cell), hi : Term(Cell)]]
    BY <2>1, <2>2
  <2>4. \A x \in Xmms : HalfTrue(taken, unknown[x].lo, xmm[x].lo) /\ HalfTrue(taken, unknown[x].hi, xmm[x].hi)
    BY <2>1 DEF HalfTrue
  <2> HIDE DEF unknown, xmm
  <2> QED
    BY <2>3, <2>4 DEF SseTrue
<1>5. DOMAIN mem = {} /\ program.sp \in Int
  BY <1>1 DEF Given
<1> HIDE DEF regs, unknown, xmm, mem
<1>6. /\ held.regs = regs /\ held.xmm = unknown /\ held.mem = mem /\ held.gen = 0 /\ held.symGen = 0
      /\ held.cellGen = mem /\ held.sp = program.sp /\ held.pinned \in BOOLEAN /\ held.args = {} /\ held.opaques = 0
      /\ IsHeld(held)
  BY <1>1 DEF IsHeld
<1>7. machine.regs = regs /\ machine.xmm = xmm /\ machine.bytes = mem /\ IsMachine(machine)
  BY <1>1 DEF IsMachine
<1>8. loose.bytes = {} /\ loose.xmm = {} /\ DOMAIN taken = {}
  BY <1>1
<1>9. Rest(held) /\ GensOK(held)
  BY <1>5, <1>6 DEF Rest, GensOK
<1>10. MemTrue(taken, held.mem, machine.bytes, loose.bytes) /\ LoadsTrue(taken, held, machine, loose.bytes)
  BY <1>5, <1>6, <1>7, <1>8 DEF MemTrue, LoadsTrue
<1>11. Sound(taken, held, machine, loose)
  BY <1>3, <1>4, <1>6, <1>7, <1>8, <1>9, <1>10 DEF Sound, Memory
<1> QED
  BY <1>1, <1>11 DEF IInv

(* Every step keeps the invariant.                                            *)
LEMMA StepKeeps ==
  ASSUME Given, Allowed = {}, IInv, NEW i \in program.code, Step(i)
  PROVE  IInv'
<1> DEFINE e == Effect(held, machine, i)
           ls == NextLoose(i, e.held)
           keys == UNION {Keys(p.term) : p \in e.said}
<1>1. program \in Programs /\ world \in program.worlds /\ Now
  BY DEF IInv, Now
<1>2. WorldOK /\ Legal(i)
  BY <1>1 DEF Given, WorldOK
<1>3. Exact(i)
  <2>1. Approximated(i) = {}
    BY DEF Step
  <2> QED
    BY <2>1, ExactIs
<1>4. Result(e, ls)
  BY <1>1, <1>2, <1>3, EffectIs
<1>5. /\ held' = e.held /\ machine' = e.machine /\ said' = e.said
      /\ taken' = Noted(taken, machine, keys) /\ loose' = ls /\ program' = program /\ world' = world
  BY DEF Step, Noted, NextLoose
<1> HIDE DEF e, ls
<1>6. Sound(taken', held', machine', loose') /\ Told(taken', said')
  BY <1>4, <1>5 DEF Result, Told
<1> HIDE DEF keys
<1>7. Sound(taken, held, machine, loose)'
  BY <1>5, <1>6, SamePlaces
<1>8. (\A p \in said : \E n \in 0..Cell : Describes(taken, p.term, p.real, n))'
  BY <1>6 DEF Told
<1> QED
  BY <1>1, <1>5, <1>7, <1>8 DEF IInv

(* What the evaluator holds is true of the machine after every instruction,   *)
(* however stores overlap and generations pass (ir/lift.rs, vm/state.rs).     *)
THEOREM EvaluatorInvariant ==
  ASSUME Allowed = {}
  PROVE  LiftSpec => []IInv
<1> USE GivenAssumption
<1>1. LiftInit => IInv
  BY InitHolds
<1>2. IInv /\ [LiftNext]_liftVars => IInv'
  <2> SUFFICES ASSUME IInv, [LiftNext]_liftVars PROVE IInv'
    OBVIOUS
  <2>1. CASE LiftNext
    BY <2>1, StepKeeps DEF LiftNext
  <2>2. CASE UNCHANGED liftVars
    <3>1. /\ program' = program /\ world' = world /\ held' = held /\ machine' = machine
          /\ taken' = taken /\ loose' = loose /\ said' = said
      BY <2>2 DEF liftVars
    <3>2. Sound(taken, held, machine, loose) /\ Told(taken, said)
      BY DEF IInv, Told
    <3>3. Sound(taken', held', machine', loose') /\ Told(taken', said')
      BY <3>1, <3>2
    <3>4. Sound(taken, held, machine, loose)'
      BY <3>1, <3>3, SamePlaces
    <3>5. (\A p \in said : \E n \in 0..Cell : Describes(taken, p.term, p.real, n))'
      BY <3>3 DEF Told
    <3> QED
      BY <3>1, <3>4, <3>5 DEF IInv
  <2> QED
    BY <2>1, <2>2
<1> QED
  BY <1>1, <1>2, PTL DEF LiftSpec

(* The registers, the bytes of memory and the SSE registers the evaluator     *)
(* knows have the values it knows, at every width and for every layout of the *)
(* image: in particular two loads that became one node have read the same     *)
(* (ir/expr.rs, the generations of a load).                                   *)
THEOREM StateStaysTrue ==
  ASSUME Allowed = {}
  PROVE  LiftSpec => []StateIsTrue
<1> USE GivenAssumption
<1>1. IInv => StateIsTrue
  <2> SUFFICES ASSUME IInv PROVE StateIsTrue
    OBVIOUS
  <2>1. /\ RegsTrue(taken, held.regs, machine.regs) /\ SseTrue(taken, held.xmm, machine.xmm, loose.xmm)
        /\ MemTrue(taken, held.mem, machine.bytes, loose.bytes)
    BY DEF IInv, Sound, Memory
  <2>2. Cell \in Nat
    BY DEF Given
  <2>3. RegistersAreTrue
    BY <2>1, <2>2, MeaningIs DEF RegistersAreTrue, RegsTrue
  <2>4. BytesAreTrue
    <3> SUFFICES ASSUME NEW b \in DOMAIN held.mem \ loose.bytes
                 PROVE  Meaning(held.mem[b].expr)[held.mem[b].index + 1] = Fetch(machine.bytes, b)
      BY DEF BytesAreTrue
    <3> DEFINE s == held.mem[b].expr
               k == held.mem[b].index + 1
    <3>1. s \in Seq(ByteSet) /\ k \in DOMAIN s /\ Tells(taken, s[k], Fetch(machine.bytes, b))
      BY <2>1, LenProperties DEF MemTrue
    <3> HIDE DEF s, k
    <3>2. Meaning(s)[k] = IF s[k].of = "load" THEN taken[Key(s[k])][s[k].i] ELSE s[k]
      BY <3>1 DEF Meaning
    <3>3. Meaning(s)[k] = Fetch(machine.bytes, b)
      BY <3>1, <3>2 DEF Tells
    <3> QED
      BY <3>3 DEF s, k
  <2>5. SseIsTrue
    BY <2>1, <2>2, MeaningIs DEF SseIsTrue, SseTrue, HalfTrue
  <2> QED
    BY <2>3, <2>4, <2>5 DEF StateIsTrue
<1> QED
  BY <1>1, EvaluatorInvariant, PTL

(* The terms of an instruction's events are terms of what the guest does in   *)
(* it: what is loaded and stored, the inputs of boxed instructions, the       *)
(* arguments of calls, the target of a jump (ir/lift.rs `Event`).             *)
THEOREM EventsStayTrue ==
  ASSUME Allowed = {}
  PROVE  LiftSpec => []EventsAreTrue
<1> USE GivenAssumption
<1>1. IInv => EventsAreTrue
  <2> SUFFICES ASSUME IInv, NEW p \in said PROVE Meaning(p.term) = p.real
    BY DEF EventsAreTrue
  <2>1. PICK n \in 0..Cell : Describes(taken, p.term, p.real, n)
    BY DEF IInv
  <2>2. n \in Nat
    BY DEF Given
  <2> QED
    BY <2>1, <2>2, MeaningIs
<1> QED
  BY <1>1, EvaluatorInvariant, PTL
=============================================================================
