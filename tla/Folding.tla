------------------------------- MODULE Folding --------------------------------
(***************************************************************************)
(* ir/expr.rs: the constructors of the arena.  Each folds constants, gives *)
(* a commutative operation a fixed operand order, and tries a list of      *)
(* identities in turn; the first that matches builds the node instead.     *)
(*                                                                         *)
(* The operand order of two nodes that are not constants is the order they *)
(* were interned in; here it is that of CHOOSE, and every identity is      *)
(* tried on both orders as the code does.  The limits on depth             *)
(* (TRUNC_DISTRIBUTE_DEPTH, the 6 levels of and_factors, the 32 of         *)
(* collect_or_terms) exceed the terms built here.                          *)
(***************************************************************************)
EXTENDS Expr, TLC

CONSTANTS Families,  \* what a behaviour builds terms with: its operations and its constants
          Values     \* that the leaves are tried with

VARIABLES family,    \* one of Families
          inArena,   \* whether the arena happens to hold the complement of a factor
          acc,       \* the term being built
          tmp,       \* a term built before
          means,     \* what acc and tmp mean for every value of the leaves
          steps

vars == <<family, inArena, acc, tmp, means, steps>>

-----------------------------------------------------------------------------
\* The constructors: nodes through their identities.
RECURSIVE Make(_, _, _)
Bin(op, a, b) == Make(op, a.w, <<a, b>>)
Not(t) == Make("not", t.w, <<t>>)
Zext(t, to) == Make("zext", to, <<t>>)
Trunc(t, to) == Make("trunc", to, <<t>>)

(* Results of an identity: a node there is, a constant, or a node to build,
   which may have a constant for its right operand. *)
Is(t) == [op |-> "is", l |-> t, r |-> t, const |-> FALSE]
IsConstant(v) == [op |-> "is", l |-> v, r |-> v, const |-> TRUE]
To(op, x, y) == [op |-> op, l |-> x, r |-> y, const |-> FALSE]
ToConst(op, x, v) == [op |-> op, l |-> x, r |-> v, const |-> TRUE]
When(p, result) == IF p THEN {result} ELSE {}

Split(op, t) == IF t.op = op THEN {<<t.of[1], t.of[2]>>, <<t.of[2], t.of[1]>>} ELSE {}
Has(op, t, x) == t.op = op /\ x \in {t.of[1], t.of[2]}

\* One of a, b (p) is x op y, the other is q, in every order.
Opened(op, a, b) ==
    UNION {{[p |-> o[1], q |-> o[2], x |-> s[1], y |-> s[2]] : s \in Split(op, o[1])} : o \in {<<a, b>>, <<b, a>>}}

\* One is x op1 y and the other x op2 y.
Twins(op1, op2, a, b) == {m \in Opened(op1, a, b) : <<m.x, m.y>> \in Split(op2, m.q)}

\* a is x op c for a constant c.
WithConst(op, a) == {s \in Split(op, a) : IsConst(s[2])}

IsComplement(a, b) == (b.op = "not" /\ b.of[1] = a) \/ (a.op = "not" /\ a.of[1] = b)

\* The bits of t that may be one.
Live(t, w) == Bits(w) \ t.zero

RECURSIVE OrTerms(_)
OrTerms(t) == IF t.op = "or" THEN OrTerms(t.of[1]) \o OrTerms(t.of[2]) ELSE <<t>>

\* Factors of t, or of its complement: what they are, and whether they are all.
Joined(l, r) == [all |-> l.all \o r.all, exact |-> l.exact /\ r.exact]

RECURSIVE Factors(_, _)
Factors(t, negated) ==
    CASE t.op = (IF negated THEN "or" ELSE "and") -> Joined(Factors(t.of[1], negated), Factors(t.of[2], negated))
      [] t.op = "not" -> Factors(t.of[1], ~negated)
      [] OTHER -> IF ~negated THEN [all |-> <<t>>, exact |-> TRUE]
                  ELSE IF ~inArena THEN [all |-> <<>>, exact |-> FALSE]
                  ELSE [all |-> <<IF IsConst(t) THEN Const(Bits(t.w) \ t.v, t.w) ELSE Node("not", t.w, <<t>>)>>,
                        exact |-> TRUE]

MayHaveFactors(t) == t.op \in {"and", "not"}

DisjointByFactors(a, b) ==
    /\ MayHaveFactors(a) /\ MayHaveFactors(b)
    /\ \E x \in ToSet(Factors(a, FALSE).all), y \in ToSet(Factors(b, FALSE).all) : IsComplement(x, y)

\* A factor both have, when what else they have is one factor and its complement.
Without(f, s) == SelectSeq(f.all, LAMBDA t : t # s)

Rebuilt(fa, fb, w) ==
    {s \in ToSet(fa.all) \cap ToSet(fb.all) :
        /\ fa.exact /\ fb.exact /\ s.w = w
        /\ Len(Without(fa, s)) = 1 /\ Len(Without(fb, s)) = 1
        /\ IsComplement(Without(fa, s)[1], Without(fb, s)[1])}

\* Bit k of t as a 0-or-1 term, if one is found.
RECURSIVE BitAt(_, _)
BitAt(t, k) ==
    LET x == t.of[1]
        y == t.of[2]
        s == Num(y.v)
    IN  CASE k >= Word -> {}
          [] k \in t.zero \/ IsConst(t) -> {Const(Truth(k \in t.v), Word)}
          [] k = 0 /\ Bits(Word) \ {0} \subseteq t.zero -> {t}
          [] t.op = "or" /\ k \in y.zero /\ k \notin x.zero -> BitAt(x, k)
          [] t.op = "or" /\ k \in x.zero /\ k \notin y.zero -> BitAt(y, k)
          [] t.op = "shl" /\ IsConst(y) /\ s <= k -> BitAt(x, k - s)
          [] t.op = "shr" /\ IsConst(y) -> BitAt(x, k + s)
          [] t.op = "and" /\ IsConst(y) -> BitAt(x, k)
          [] t.op \in {"zext", "trunc"} -> BitAt(x, k)
          [] OTHER -> {}

-----------------------------------------------------------------------------
(* The identities, in the order they are tried; c is the right operand of a term with a constant. *)
AddRules(a, b, w) ==
  << When(b.op = "const" /\ b.v = {}, Is(a)),
     {IsConstant({}) : t \in {t \in {a, b} : t.op = "neg" /\ t.of[1] \in {a, b}}},
     When(IsComplement(a, b), IsConstant(Bits(w))),
     When(Live(a, w) \cap Live(b, w) = {}, To("or", a, b)),
     {To("add", m.x, m.y) : m \in Twins("or", "and", a, b)},
     {To("or", m.x, m.y) : m \in Twins("xor", "and", a, b)},
     {Is(m.x) : m \in {m \in Opened("xor", a, b) : m.y = m.q /\ Has("or", m.x, m.q)}},
     {To("add", m.y, m.q) : m \in {m \in Opened("and", a, b) :
         \E s \in Split("or", m.x) : s[1] = m.q /\ <<m.y, m.q>> \in Split("xor", s[2])}},
     When(DisjointByFactors(a, b), To("or", a, b)),
     {ToConst("add", s[1], FoldBin("add", s[2].v, b.v, w)) : s \in {s \in WithConst("add", a) : IsConst(b)}} >>

SubRules(a, b, w) ==
  << When(b.op = "const" /\ b.v = {}, Is(a)),
     When(a = b, IsConstant({})),
     {To("xor", s[1], s[2]) : s \in {s \in Split("or", a) : s \in Split("and", b)}},
     {Is(s[1]) : s \in {s \in Split("add", a) : s[2] = b}},
     {To("and", a, Not(s[2])) : s \in {s \in Split("and", b) : s[1] = a}},
     {Is(t.of[2]) : t \in {t \in {b} : t.op = "sub" /\ t.of[1] = a /\ Has("and", t.of[2], a)}},
     UNION {{Is(u[1]) : u \in {u \in Split("and", s[1]) : s[2] = a /\ u[2] = a /\ u[1].op = "and"}} : s \in Split("xor", b)},
     When(IsConst(b), ToConst("add", a, BitsOf(-Num(b.v), w))) >>

\* A constant mask, first: a single bit, and arms of an or that it hides.
MaskRules(a, b, w) ==
    LET c == b.v
        dead(t) == c \subseteq t.zero
        live == SelectSeq(OrTerms(a), LAMBDA t : ~dead(t))
    IN  << {Is(t) : t \in IF c = {0} /\ a.op = "shr" /\ IsConst(a.of[2]) THEN BitAt(a.of[1], Num(a.of[2].v)) ELSE {}},
           {Is(t) : t \in IF c = {0} THEN BitAt(a, 0) ELSE {}},
           When(c = {}, IsConstant({})),
           When(c = Bits(w), Is(a)),
           {To("and", s[2], b) : s \in {s \in Split("or", a) : dead(s[1]) /\ ~dead(s[2])}},
           When(a.op = "or" /\ live = <<>>, IsConstant({})),
           {To("and", FoldLeft(LAMBDA x, y : Bin("or", x, y), Head(live), Tail(live)), b) :
               t \in {t \in {a} : t.op = "or" /\ live # <<>> /\ live # OrTerms(a)}},
           UNION {{To("and", s[1], b) : s \in {s \in WithConst("xor", t.of[1]) : c \subseteq s[2].v}} :
               t \in {t \in {a} : t.op = "not"}} >>

\* And last: what is known of the bits it keeps.
MaskedRules(a, b, w) ==
    LET c == b.v
    IN  << {ToConst("and", s[1], s[2].v \cap c) : s \in WithConst("and", a)},
           When(c \subseteq a.zero, IsConstant({})),
           When(Live(a, w) \subseteq c, Is(a)),
           When(c \subseteq a.one, IsConstant(c)) >>

AndRules(a, b, w) ==
    LET orders == {<<a, b>>, <<b, a>>}
    IN  << When(a = b, Is(a)) >> \o
        (IF IsConst(b) THEN MaskRules(a, b, w)
         ELSE << {Is(o[2]) : o \in {o \in orders : Bits(w) \subseteq o[1].one \cup o[2].zero}} >>) \o
        << When(IsComplement(a, b), IsConstant({})),
           {Is(o[2]) : o \in {o \in orders : Has("or", o[1], o[2])}},
           {Is(o[1]) : o \in {o \in orders : Has("and", o[1], o[2])}},
           {To("and", m.q, Not(m.y)) : m \in {m \in Opened("xor", a, b) : m.x = m.q}},
           {To("and", m.q, m.y) : m \in {m \in Opened("or", a, b) : IsComplement(m.x, m.q)}} >> \o
        (IF IsConst(b) THEN MaskedRules(a, b, w) ELSE <<>>)

\* Mutation: the or of two masked halves is the value, whatever the masks.
OrRulesAnyMask(a, b, w) ==
  << {To("or", m.q, m.y) : m \in {m \in Opened("xor", a, b) : m.x = m.q}},
     When(a = b, Is(a)),
     UNION {{Is(s[1]) : s \in {s \in Split("and", a) : Has("and", b, s[1])}}} >>

OrRules(a, b, w) ==
  << {To("or", m.q, m.y) : m \in {m \in Opened("xor", a, b) : m.x = m.q}},
     When(a = b, Is(a)),
     When(IsConst(b) /\ b.v = {}, Is(a)),
     When((IsConst(b) /\ b.v = Bits(w)) \/ IsComplement(a, b), IsConstant(Bits(w))),
     {To("or", m.q, m.y) : m \in {m \in Opened("and", a, b) : IsComplement(m.x, m.q)}},
     {Is(o[2]) : o \in {o \in {<<a, b>>, <<b, a>>} : Has("and", o[1], o[2])}},
     {Is(o[1]) : o \in {o \in {<<a, b>>, <<b, a>>} : Has("or", o[1], o[2])}},
     UNION {{Is(s[1]) : s \in {s \in Split("and", a) : s[1] = u[1] /\ IsComplement(s[2], u[2]) /\ s[1].w = w}} :
         u \in Split("and", b)},
     UNION {{ToConst("and", s[1], s[2].v \cup u[2].v) : s \in {s \in WithConst("and", a) : s[1] = u[1]}} :
         u \in WithConst("and", b)},
     {Is(s) : s \in Rebuilt(Factors(a, FALSE), Factors(b, FALSE), w)},
     {Is(o[2]) : o \in {o \in {<<a, b>>, <<b, a>>} : Live(o[1], w) \subseteq o[2].one}},
     {ToConst("or", s[1], b.v) : s \in {s \in WithConst("xor", a) : IsConst(b) /\ s[2].v = b.v}},
     {ToConst("or", s[1], s[2].v \cup b.v) : s \in {s \in WithConst("or", a) : IsConst(b)}},
     {To("or", m.q, m.y) : m \in {m \in Opened("or", a, b) : Has("and", m.x, m.q)}},
     {Is(m.q) : m \in {m \in Opened("xor", a, b) : <<m.q, m.y>> \in Split("or", m.x)}} >>

XorRules(a, b, w) ==
  << When(a = b, IsConstant({})),
     {To("xor", m.x, m.y) : m \in Twins("and", "or", a, b)},
     {To("or", m.x, m.y) : m \in Twins("and", "xor", a, b)},
     {To("and", Not(m.q), m.y) : m \in {m \in Opened("or", a, b) : m.x = m.q}},
     UNION {{To("and", Bin("xor", s[1], u[1]), s[2]) : s \in {s \in WithConst("and", a) : s[2] = u[2]}} :
         u \in WithConst("and", b)},
     When(IsConst(b) /\ b.v = {}, Is(a)),
     {Is(Not(t)) : t \in {t \in {a} : IsConst(b) /\ b.v = Bits(w)}},
     When(IsComplement(a, b), IsConstant(Bits(w))),
     {ToConst("xor", s[1], b.v \ s[2].v) : s \in {s \in WithConst("or", a) : IsConst(b) /\ s[2].v \subseteq b.v}},
     {ToConst("xor", s[1], FoldBin("xor", s[2].v, b.v, w)) : s \in {s \in WithConst("xor", a) : IsConst(b)}},
     {To("and", m.q, Not(m.y)) : m \in {m \in Opened("and", a, b) : m.x = m.q}},
     {Is(m.y) : m \in {m \in Opened("xor", a, b) : m.x = m.q}} >>

\* Identities of the other operations.
RestRules(op, a, b, w) ==
  << When(op = "mul" /\ IsConst(b) /\ b.v = {}, IsConstant({})),
     When(op = "mul" /\ IsConst(b) /\ b.v = {0}, Is(a)),
     When(op \in {"shl", "shr", "sar", "rol", "ror"} /\ IsConst(b) /\ b.v = {}, Is(a)),
     When(op \in Comparisons /\ a = b, Is(Const(Truth(op = "eq"), Byte))) >>

Rules(op, a, b, w) ==
    CASE op = "add" -> AddRules(a, b, w)
      [] op = "sub" -> SubRules(a, b, w)
      [] op = "and" -> AndRules(a, b, w)
      [] op = "or"  -> OrRules(a, b, w)
      [] op = "xor" -> XorRules(a, b, w)
      [] OTHER -> RestRules(op, a, b, w)

-----------------------------------------------------------------------------
(* The constructors. *)
Ordered(op, a, b) ==
    IF op \notin Commutative \/ (IsConst(b) /\ ~IsConst(a)) \/ a = b THEN <<a, b>>
    ELSE IF IsConst(a) THEN <<b, a>>
    ELSE LET first == CHOOSE t \in {a, b} : TRUE
         IN  <<first, IF first = a THEN b ELSE a>>

Built(r, w) == LET y == IF r.const THEN Const(r.r, w) ELSE r.r
               IN  IF r.op = "is" THEN y ELSE Bin(r.op, r.l, y)

FirstMatch(rules, w, node) ==
    LET hits == SelectSeq(rules, LAMBDA results : results # {})
    IN  IF hits = <<>> THEN node ELSE Built(CHOOSE r \in hits[1] : TRUE, w)

Simplified(op, a, b, w) == FirstMatch(Rules(op, a, b, w), w, Node(op, w, <<a, b>>))

MakeBin(op, a, b) ==
    LET wide == Max({a.w, b.w})
        w == IF op \in Comparisons THEN Byte ELSE wide
        o == Ordered(op, a, b)
    IN  IF IsConst(a) /\ IsConst(b) /\ Folds(op, a.v, b.v, wide)
        THEN Const(FoldBin(op, a.v, b.v, wide), w)
        ELSE Simplified(op, o[1], o[2], w)

\* De Morgan only where it takes a complement away.
MakeNot(t) ==
    CASE IsConst(t) -> Const(Bits(t.w) \ t.v, t.w)
      [] t.op = "not" -> t.of[1]
      [] t.op \in {"or", "and"} /\ \E i \in {1, 2} : t.of[i].op \in {"not", "const"} ->
             Bin(IF t.op = "or" THEN "and" ELSE "or", Not(t.of[1]), Not(t.of[2]))
      [] OTHER -> Node("not", t.w, <<t>>)

MakeUn(op, t) == IF IsConst(t) THEN Const(FoldUn(op, t.v, t.w), t.w)
                 ELSE IF op = "neg" /\ t.op = "neg" THEN t.of[1]
                 ELSE Node(op, t.w, <<t>>)

MakeSelect(c, a, b) == IF IsConst(c) THEN (IF c.v # {} THEN a ELSE b)
                       ELSE IF a = b THEN a
                       ELSE Node("select", a.w, <<c, a, b>>)

MakeZext(t, to) ==
    CASE t.w = to -> t
      [] to < t.w -> Trunc(t, to)
      [] to > t.w /\ IsConst(t) -> Const(t.v, to)
      [] to > t.w /\ t.op = "zext" -> Zext(t.of[1], to)
      [] to > t.w /\ t.op = "trunc" -> Bin("and", Zext(t.of[1], to), Const(Bits(t.w), to))
      [] OTHER -> Node("zext", to, <<t>>)

MakeSext(t, to) ==
    CASE t.w = to -> t
      [] to < t.w -> Trunc(t, to)
      [] to > t.w /\ IsConst(t) -> Const(SignExtend(t.v, t.w, to), to)
      [] OTHER -> Node("sext", to, <<t>>)

LowBitsSuffice == {"and", "or", "xor", "add", "sub", "mul"}

MakeTrunc(t, to) ==
    CASE t.w = to -> t
      [] to > t.w -> Zext(t, to)
      [] to < t.w /\ IsConst(t) -> Const(t.v, to)
      [] to < t.w /\ t.op \in {"zext", "sext", "trunc"} /\ t.of[1].w >= to -> Trunc(t.of[1], to)
      [] to < t.w /\ t.op = "and" /\ IsConst(t.of[2]) /\ Bits(to) \subseteq t.of[2].v -> Trunc(t.of[1], to)
      [] to < t.w /\ t.op \in LowBitsSuffice -> Bin(t.op, Trunc(t.of[1], to), Trunc(t.of[2], to))
      [] to < t.w /\ t.op \in {"not", "neg"} -> Make(t.op, to, <<Trunc(t.of[1], to)>>)
      [] OTHER -> Node("trunc", to, <<t>>)

Make(op, w, of) ==
    CASE op = "zext" -> MakeZext(of[1], w)
      [] op = "sext" -> MakeSext(of[1], w)
      [] op = "trunc" -> MakeTrunc(of[1], w)
      [] op = "not" -> MakeNot(of[1])
      [] op \in {"neg", "parity", "bswap"} -> MakeUn(op, of[1])
      [] op = "select" -> MakeSelect(of[1], of[2], of[3])
      [] OTHER -> MakeBin(op, of[1], of[2])

\* Build t again with `to` in the place of each `from`.
RECURSIVE Rewrite(_, _, _)
Rewrite(t, from, to) ==
    IF t = from THEN to
    ELSE IF t.of = <<>> THEN t
    ELSE Make(t.op, t.w, [i \in DOMAIN t.of |-> Rewrite(t.of[i], from, to)])

-----------------------------------------------------------------------------
(* A term built as instructions build it, beside what it should mean. *)
Envs == [Leaves -> Values]

Started(l) == [term |-> Leaf(l), means |-> [e \in Envs |-> e[l]]]

Init ==
    /\ family \in Families
    /\ inArena \in BOOLEAN
    /\ \E l \in Leaves : LET s == Started(l) IN acc = s.term /\ means = [acc |-> s.means, tmp |-> s.means]
    /\ tmp = acc
    /\ steps = 0

InTime == steps < family.depth /\ steps' = steps + 1

\* Operands of the width of acc: the other term, a leaf, a constant.
LowPart(l, w) == IF w = Word THEN Leaf(l) ELSE Node("trunc", w, <<Leaf(l)>>)

Others ==
    (IF tmp.w = acc.w THEN {[term |-> tmp, means |-> means.tmp]} ELSE {})
    \cup {[term |-> LowPart(l, acc.w), means |-> [e \in Envs |-> e[l] \cap Bits(acc.w)]] : l \in Leaves}

Constants(op) == {[term |-> Const(c, acc.w), means |-> [e \in Envs |-> c \cap Bits(acc.w)]] : c \in family.const[op]}

\* The operands an operation can have, one of which is acc.
Operands(op) ==
    LET this == [term |-> acc, means |-> means.acc]
    IN  (IF op \in family.bin THEN {this} \X Others ELSE {})
        \cup (IF op \in family.bin \ Commutative THEN Others \X {this} ELSE {})
        \cup (IF op \in DOMAIN family.const THEN {this} \X Constants(op) ELSE {})

Meant(op, x, y, w) == [e \in Envs |-> FoldBin(op, x[e], y[e], w)]

\* An instruction cuts its result to its width.
Result(op, t) == Trunc(t, IF op \in Comparisons THEN Byte ELSE acc.w)

Binary ==
    /\ InTime
    /\ \E op \in family.bin \cup DOMAIN family.const : \E o \in Operands(op) :
          /\ acc' = Result(op, Bin(op, o[1].term, o[2].term))
          /\ means' = [means EXCEPT !.acc = Meant(op, o[1].means, o[2].means, acc.w)]
    /\ UNCHANGED <<family, inArena, tmp>>

Unary ==
    /\ InTime
    /\ \E op \in family.un :
          /\ acc' = Make(op, acc.w, <<acc>>)
          /\ means' = [means EXCEPT !.acc = [e \in Envs |-> FoldUn(op, @[e], acc.w)]]
    /\ UNCHANGED <<family, inArena, tmp>>

Resize ==
    /\ InTime
    /\ \E w \in family.widths \ {acc.w} :
          \/ /\ acc' = Zext(acc, w)
             /\ means' = [means EXCEPT !.acc = [e \in Envs |-> @[e] \cap Bits(w)]]
          \/ /\ w > acc.w
             /\ acc' = Make("sext", w, <<acc>>)
             /\ means' = [means EXCEPT !.acc = [e \in Envs |-> SignExtend(@[e], acc.w, w)]]
    /\ UNCHANGED <<family, inArena, tmp>>

Choice ==
    /\ InTime /\ family.select /\ acc.w = tmp.w
    /\ \E l \in Leaves :
          /\ acc' = Make("select", acc.w, <<LowPart(l, Byte), acc, tmp>>)
          /\ means' = [means EXCEPT !.acc = [e \in Envs |-> IF e[l] \cap Bits(Byte) # {} THEN @[e] ELSE means.tmp[e]]]
    /\ UNCHANGED <<family, inArena, tmp>>

\* Keep the term and begin another.
Save ==
    /\ InTime
    /\ acc # tmp
    /\ \E l \in Leaves : LET s == Started(l) IN acc' = s.term /\ means' = [acc |-> s.means, tmp |-> means.acc]
    /\ tmp' = acc
    /\ UNCHANGED <<family, inArena>>

Next == Binary \/ Unary \/ Resize \/ Choice \/ Save

Spec == Init /\ [][Next]_vars

-----------------------------------------------------------------------------
(* Building a term through the identities gives one with the same value,   *)
(* whatever the leaves are.                                                *)
FoldKeepsValue == \A e \in Envs : Value(acc, e) = means.acc[e]

(* A bit the arena holds for zero is zero, and one it holds for one is     *)
(* one, in every value the term can have.                                  *)
KnownBitsHold == \A e \in Envs : Value(acc, e) \cap acc.zero = {} /\ acc.one \subseteq Value(acc, e)

(* Rebuilding a term with another in the place of a leaf, as rewrite and   *)
(* the pins of the evaluator do, gives the value the term has where the    *)
(* leaf has the value of the other.                                        *)
ReplacedIsSubstituted ==
    \A l \in DOMAIN family.replace :
        LET new == family.replace[l]
            rebuilt == Rewrite(acc, Leaf(l), new)
        IN  \A e \in Envs : Value(rebuilt, e) = Value(acc, [e EXCEPT ![l] = Value(new, e)])
===============================================================================
