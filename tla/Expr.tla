--------------------------------- MODULE Expr ---------------------------------
(***************************************************************************)
(* ir/expr.rs: the terms of the evaluator and what they mean.              *)
(*                                                                         *)
(* A value is the set of its bits that are one.  A width is a number of    *)
(* bits: Byte, Long and Word are W8, W32 and W64 made small, and W16 is    *)
(* left out.  An interned node is a record, so that two nodes are the same *)
(* exactly when they are equal; its fields `zero` and `one` are the known  *)
(* bits the arena remembers for it.                                        *)
(***************************************************************************)
EXTENDS Integers, SequencesExt

CONSTANTS Byte, Long, Word,
          Leaves            \* names of values nothing is known of

ASSUME WidthAssumption == Byte \in Nat \ {0} /\ Long \in Nat /\ Word \in Nat /\ Byte < Long /\ Long < Word

Widths == {Byte, Long, Word}
Bits(w) == 0..(w - 1)

NumOf == [s \in SUBSET Bits(Word) |-> MapThenSumSet(LAMBDA i : 2^i, s)]
Num(s) == NumOf[s]

\* The bits of a number at width w, in two's complement.
BitsOf(n, w) == {i \in Bits(w) : (n \div 2^i) % 2 = 1}

Signed(s, w) == IF w - 1 \in s THEN Num(s) - 2^w ELSE Num(s)

SignExtend(s, from, to) == BitsOf(Signed(s, from), to)

\* Division that rounds towards zero.
Truncated(n, d) == IF (n < 0) = (d < 0) THEN (IF n < 0 THEN -n ELSE n) \div (IF d < 0 THEN -d ELSE d)
                   ELSE -((IF n < 0 THEN -n ELSE n) \div (IF d < 0 THEN -d ELSE d))

-----------------------------------------------------------------------------
\* What an operation gives on two values.
Commutative == {"add", "mul", "and", "or", "xor", "eq", "mulhiu", "mulhis"}
Comparisons == {"eq", "ult", "slt"}
Divisions == {"udiv", "urem", "sdiv", "srem"}

ShiftCount(k, w) == k % (IF w = Word THEN Word ELSE Long)

Shifted(op, n, signed, c, r, w) ==
    CASE op = "shl" -> n * 2^c
      [] op = "shr" -> n \div 2^c
      [] op = "sar" -> signed \div 2^c
      [] op = "rol" -> n * 2^r + n \div 2^(w - r)
      [] op = "ror" -> n \div 2^r + (n % 2^r) * 2^(w - r)

Truth(p) == IF p THEN {0} ELSE {}

\* On numbers, without a sign and with it.
Number(op, n, k, sn, sk, w) ==
    CASE op = "ult" -> IF n < k THEN 1 ELSE 0
      [] op = "slt" -> IF sn < sk THEN 1 ELSE 0
      [] op = "add" -> n + k
      [] op = "sub" -> n - k
      [] op = "mul" -> n * k
      [] op = "mulhiu" -> (n * k) \div 2^w
      [] op = "mulhis" -> (sn * sk) \div 2^w
      [] op = "udiv" -> n \div k
      [] op = "urem" -> n % k
      [] op = "sdiv" -> Truncated(sn, sk)
      [] op = "srem" -> sn - sk * Truncated(sn, sk)
      [] OTHER -> Shifted(op, n, sn, ShiftCount(k, w), k % w, w)

\* On values of width w.
Folded(op, x, y, w) ==
    CASE op = "and" -> x \cap y
      [] op = "or"  -> x \cup y
      [] op = "xor" -> (x \ y) \cup (y \ x)
      [] op = "eq"  -> Truth(x = y)
      [] op \in Divisions /\ y = {} -> {}
      [] OTHER -> BitsOf(Number(op, Num(x), Num(y), Signed(x, w), Signed(y, w), w), w)

FoldBin(op, u, v, w) == Folded(op, u \cap Bits(w), v \cap Bits(w), w)

\* Dividing by zero, and the one signed quotient that does not fit, are not folded.
Folds(op, u, v, w) == ~ /\ op \in Divisions
                        /\ \/ v \cap Bits(w) = {}
                           \/ /\ op \in {"sdiv", "srem"} /\ w = Word
                              /\ Signed(u, w) = -(2^(w - 1)) /\ Signed(v, w) = -1

FoldUn(op, u, w) ==
    CASE op = "not" -> Bits(w) \ u
      [] op = "neg" -> BitsOf(-Num(u), w)
      [] op = "parity" -> Truth(Cardinality(u \cap Bits(Byte)) % 2 = 0)
      [] op = "bswap" -> {w - 1 - i : i \in u \cap Bits(w)}   \* bits for bytes

-----------------------------------------------------------------------------
(* Known bits. *)
LowRun(s) == {i \in s : 0..i \subseteq s}

IsConst(t) == t.op = "const"

Outside(w) == Bits(Word) \ Bits(w)
Up(s, c) == {i + c : i \in s} \cap Bits(Word)
Down(s, c) == {i - c : i \in s} \cap Bits(Word)

KnownZero(op, w, v, of) ==
    LET a == of[1].zero
        b == of[2].zero
        c == Num(of[2].v) % Word
    IN  CASE op = "const" -> Bits(Word) \ v
          [] op = "and" -> a \cup b
          [] op \in {"or", "xor"} -> a \cap b
          [] op = "shl" /\ IsConst(of[2]) -> Up(a, c) \cup 0..(c - 1)
          [] op = "shr" /\ IsConst(of[2]) -> Down(a, c) \cup {i \in Bits(Word) : i + c >= w}
          [] op \in {"add", "sub"} -> LowRun(a \cap b)
          [] op = "mul" -> 0..(Cardinality(LowRun(a)) + Cardinality(LowRun(b)) - 1) \cap Bits(Word)
          [] op \in Comparisons \cup {"parity"} -> Bits(Word) \ {0}
          [] op = "zext" -> a \cup Outside(of[1].w)
          [] op = "trunc" -> a
          [] op = "select" -> b \cap of[3].zero
          [] OTHER -> {}

\* Mutation: a bit of an exclusive or is one when it is one in either operand.
KnownOneXor(op, w, v, of) ==
    CASE op = "const" -> v
      [] op \in {"or", "xor"} -> of[1].one \cup of[2].one
      [] OTHER -> {}

KnownOne(op, w, v, of) ==
    LET a == of[1].one
        b == of[2].one
        c == Num(of[2].v) % Word
    IN  CASE op = "const" -> v
          [] op = "and" -> a \cap b
          [] op = "or" -> a \cup b
          [] op = "xor" -> (a \cap of[2].zero) \cup (b \cap of[1].zero)
          [] op = "shl" /\ IsConst(of[2]) -> Up(a, c)
          [] op = "shr" /\ IsConst(of[2]) -> Down(a, c)
          [] op \in {"zext", "trunc"} -> a \cap Bits(of[1].w)
          [] op = "select" -> b \cap of[3].one
          [] op = "not" -> of[1].zero
          [] OTHER -> {}

Intern(op, w, v, of) == [op |-> op, w |-> w, v |-> v, of |-> of,
                         zero |-> KnownZero(op, w, v, of) \cup Outside(w),
                         one |-> KnownOne(op, w, v, of) \cap Bits(w)]

Node(op, w, of) == Intern(op, w, {}, of)
Const(v, w) == Intern("const", w, v \cap Bits(w), <<>>)
Leaf(l) == Node(l, Word, <<>>)

-----------------------------------------------------------------------------
\* What a term means when the leaves have the values of env.
RECURSIVE Value(_, _)
Value(t, env) ==
    LET of == [i \in DOMAIN t.of |-> Value(t.of[i], env)]
        wide == Max({t.of[i].w : i \in DOMAIN t.of})
    IN  CASE t.op = "const" -> t.v
          [] t.op \in Leaves -> env[t.op]
          [] t.op \in {"zext", "trunc"} -> of[1] \cap Bits(t.w)
          [] t.op = "sext" -> SignExtend(of[1], t.of[1].w, t.w)
          [] t.op \in {"not", "neg", "parity", "bswap"} -> FoldUn(t.op, of[1], t.w)
          [] t.op = "select" -> IF of[1] # {} THEN of[2] ELSE of[3]
          [] OTHER -> FoldBin(t.op, of[1], of[2], wide)
===============================================================================
