--------------------------- MODULE LoweringProofs ---------------------------
(***************************************************************************)
(* Theorems about the way from the recovered graph to emitted code, for    *)
(* any finite set of blocks, any graphs all of whose blocks are reached,   *)
(* any registers and any program.                                          *)
(*                                                                         *)
(* Three arguments carry them.  Dominance is reasoned about by the blocks  *)
(* that can be reached around a block, the complement of what it           *)
(* dominates.  What the recovered graph says about the guest is stated     *)
(* over the configurations the guest can reach: a block, its registers,    *)
(* and for every parameter the value its register had at the last arrival. *)
(* And the emitted program is followed beside such a configuration.        *)
(***************************************************************************)
EXTENDS Lowering, FiniteSetTheorems, TLAPS

\* The blocks that can be reached without passing c.
Around(c) == {x \in Block : ~Dominates(c, x)}

\* What the recovered graph mentions: entry values, parameters of joins and
\* constants.
Leaves == {InitReg(q) : q \in Reg}
            \cup {Param(p[1], p[2]) : p \in {x \in Block : IsJoin(x)} \X Reg}
            \cup {Const(b) : b \in Block}
GraphExprs == [leaf : Leaves, n : 0..Size-1]
Regs == [Reg -> GraphExprs]

IsParam(leaf) == leaf[1] = "param"
AllParams == {Param(p[1], p[2]) : p \in Block \X Reg}

-----------------------------------------------------------------------------
(* A set of numbers that is closed under successor below n holds n if it      *)
(* holds 0: counting it would otherwise map it one to one into itself, and    *)
(* miss 0.                                                                    *)
LEMMA Climb ==
  ASSUME NEW n \in Nat, NEW S \in SUBSET (0..n), 0 \in S,
         \A k \in S : k < n => k + 1 \in S
  PROVE  n \in S
<1> SUFFICES ASSUME n \notin S PROVE FALSE
  OBVIOUS
<1> DEFINE up == [k \in S |-> k + 1]
<1>1. IsFiniteSet(S)
  <2>1. IsFiniteSet(0..n)
    BY FS_Interval
  <2> QED
    BY <2>1, FS_Subset
<1>2. up \in Injection(S, S)
  BY DEF Injection, IsInjective
<1>3. up \in Surjection(S, S)
  BY <1>1, <1>2, FS_Injection
<1>4. PICK k \in S : up[k] = 0
  BY <1>3 DEF Surjection
<1> QED
  BY <1>4

(* A set of numbers that is not empty has a least one.                        *)
LEMMA Least ==
  ASSUME NEW T \in SUBSET Nat, T # {}
  PROVE  \E n \in T : \A m \in T : n <= m
<1> SUFFICES ASSUME ~ \E n \in T : \A m \in T : n <= m PROVE FALSE
  OBVIOUS
<1>1. PICK t \in T : TRUE
  OBVIOUS
<1> DEFINE S == {k \in 0..t : \A m \in T : k <= m}
<1>2. 0 \in S
  OBVIOUS
<1>3. \A k \in S : k < t => k + 1 \in S
  OBVIOUS
<1>4. t \in S
  <2>1. S \in SUBSET (0..t)
    OBVIOUS
  <2> HIDE DEF S
  <2> QED
    BY <1>2, <1>3, <2>1, Climb
<1> QED
  BY <1>4

(* `FirstOf` finds the first of some registers.                               *)
LEMMA FirstIsOne ==
  ASSUME NEW S \in SUBSET Reg, S # {}
  PROVE  FirstOf(S) \in S
<1>1. S \in SUBSET Nat
  BY RegAssumption
<1>2. \E n \in S : \A m \in S : n <= m
  BY <1>1, Least
<1> QED
  BY <1>2 DEF FirstOf

-----------------------------------------------------------------------------
(* Expressions *)

(* What is left by a division is determined by the sum it leaves.             *)
LEMMA ModUnique ==
  ASSUME NEW S \in Nat, S # 0, NEW q \in Nat, NEW r \in 0..S-1
  PROVE  (S * q + r) % S = r
  OBVIOUS

(* A number is its quotient and its remainder.                                *)
LEMMA ModSplit ==
  ASSUME NEW S \in Nat, S # 0, NEW x \in Nat
  PROVE  \E q \in Nat : \E r \in 0..S-1 : x % S = r /\ x = S * q + r
<1>1. x % S \in 0..S-1
  OBVIOUS
<1>2. x = S * (x \div S) + (x % S)
  OBVIOUS
<1>3. x \div S \in Nat
  OBVIOUS
<1> QED
  BY <1>1, <1>2, <1>3

(* A summand may be reduced first.                                            *)
LEMMA ModLeft ==
  ASSUME NEW S \in Nat, S # 0, NEW x \in Nat, NEW y \in Nat
  PROVE  ((x % S) + y) % S = (x + y) % S
<1>1. PICK q \in Nat, r \in 0..S-1 : x % S = r /\ x = S * q + r
  BY ModSplit
<1>2. PICK z \in Nat : z = r + y
  OBVIOUS
<1>3. PICK p \in Nat, t \in 0..S-1 : z % S = t /\ z = S * p + t
  BY ModSplit
<1>4. PICK k \in Nat : k = q + p
  OBVIOUS
<1>5. S * k = S * q + S * p
  BY <1>4
<1>6. x + y = S * k + t
  <2>1. S * q \in Nat /\ S * p \in Nat
    OBVIOUS
  <2> QED
    BY <1>1, <1>2, <1>3, <1>5, <2>1
<1>7. (S * k + t) % S = t
  BY ModUnique
<1> QED
  BY <1>1, <1>2, <1>3, <1>6, <1>7

(* Additions modulo Size may be reduced at any point.                         *)
LEMMA ModAdd ==
  ASSUME NEW x \in Nat, NEW y \in Nat
  PROVE  /\ x % Size \in 0..Size-1
         /\ ((x % Size) + y) % Size = (x + y) % Size
         /\ (x + (y % Size)) % Size = (x + y) % Size
<1>0. Size \in Nat /\ Size # 0
  BY BlockAssumption
<1>1. x % Size \in 0..Size-1
  BY <1>0, ModSplit
<1>2. ((x % Size) + y) % Size = (x + y) % Size
  BY <1>0, ModLeft
<1>3. ((y % Size) + x) % Size = (y + x) % Size
  BY <1>0, ModLeft
<1>4. y % Size \in Nat
  BY <1>0, ModSplit
<1>5. (y % Size) + x = x + (y % Size) /\ y + x = x + y
  BY <1>4
<1> QED
  BY <1>1, <1>2, <1>3, <1>5

(* What is already reduced stays.                                             *)
LEMMA ModSmall ==
  ASSUME NEW x \in 0..Size-1
  PROVE  x \in Nat /\ x % Size = x
<1>0. Size \in Nat /\ Size # 0
  BY BlockAssumption
<1>1. Size * 0 + x = x
  BY <1>0
<1> QED
  BY <1>0, <1>1, ModUnique

(* Expressions are closed under addition, and adding twice is adding the sum. *)
LEMMA PlusFacts ==
  ASSUME NEW L, NEW e \in [leaf : L, n : 0..Size-1], NEW n \in Nat, NEW m \in Nat
  PROVE  /\ Plus(e, n) \in [leaf : L, n : 0..Size-1]
         /\ Plus(e, n).leaf = e.leaf
         /\ Plus(Plus(e, n), m) = Plus(e, n + m)
         /\ Plus(e, n % Size) = Plus(e, n)
         /\ Plus(e, 0) = e
<1> DEFINE k == e.n
<1>0. e = [leaf |-> e.leaf, n |-> e.n] /\ e.leaf \in L /\ e.n \in 0..Size-1
  OBVIOUS
<1>1. k \in Nat /\ k % Size = k
  BY <1>0, ModSmall
<1>2. (k + n) % Size \in 0..Size-1
  <2>1. k + n \in Nat
    BY <1>1
  <2> QED
    BY <2>1, ModAdd
<1>3. (((k + n) % Size) + m) % Size = ((k + n) + m) % Size
  <2>1. PICK x \in Nat : x = k + n
    BY <1>1
  <2>2. ((x % Size) + m) % Size = (x + m) % Size
    BY ModAdd
  <2> QED
    BY <2>1, <2>2
<1>4. (k + (n % Size)) % Size = (k + n) % Size
  BY <1>1, ModAdd
<1>5. k + 0 = k /\ (k + n) + m = k + (n + m)
  BY <1>1
<1>6. \A x : Plus(e, x) = [leaf |-> e.leaf, n |-> (k + x) % Size]
  BY DEF Plus, Expr
<1>7. \A x, y : Plus(Plus(e, x), y) = [leaf |-> e.leaf, n |-> (((k + x) % Size) + y) % Size]
  BY <1>6 DEF Plus, Expr
<1> HIDE DEF k
<1>8. Plus(e, n) \in [leaf : L, n : 0..Size-1] /\ Plus(e, n).leaf = e.leaf
  BY <1>0, <1>2, <1>6
<1>9. Plus(Plus(e, n), m) = Plus(e, n + m)
  BY <1>3, <1>5, <1>6, <1>7
<1>10. Plus(e, n % Size) = Plus(e, n)
  BY <1>4, <1>6
<1>11. Plus(e, 0) = e
  <2>1. Plus(e, 0) = [leaf |-> e.leaf, n |-> k]
    BY <1>1, <1>5, <1>6
  <2> QED
    BY <1>0, <2>1 DEF k
<1> QED
  BY <1>8, <1>9, <1>10, <1>11

(* Expressions are closed under addition, whatever their leaves.              *)
LEMMA PlusTyped ==
  ASSUME NEW L, NEW e \in [leaf : L, n : 0..Size-1], NEW n \in Nat
  PROVE  Plus(e, n) \in [leaf : L, n : 0..Size-1] /\ Plus(e, n).leaf = e.leaf
<1>1. 0 \in Nat
  OBVIOUS
<1> QED
  BY <1>1, PlusFacts

-----------------------------------------------------------------------------
(* The graph *)

(* The entry has no block before it.                                          *)
LEMMA EntryFacts ==
  ASSUME succ \in Graphs
  PROVE  /\ succ \in [Block -> SUBSET Block]
         /\ Preds(Entry) = {}
         /\ ~IsJoin(Entry)
         /\ Entry \in Block
         /\ \A b \in Block : Entry \notin succ[b]
<1>1. succ \in [Block -> SUBSET Block] /\ \A b \in Block : Entry \notin succ[b]
  BY GraphAssumption
<1>2. Preds(Entry) = {}
  BY <1>1 DEF Preds
<1>3. Cardinality({}) = 0
  BY FS_EmptySet
<1>4. ~IsJoin(Entry)
  BY <1>2, <1>3 DEF IsJoin
<1> QED
  BY <1>1, <1>2, <1>4, BlockAssumption

(* Every block is reached: what holds of the entry and passes along every     *)
(* edge holds of every block.                                                 *)
LEMMA Reached ==
  ASSUME succ \in Graphs, NEW S \in SUBSET Block, Entry \in S,
         \A b \in S : \A s \in succ[b] : s \in S
  PROVE  S = Block
<1>1. \A b \in S : succ[b] \subseteq S
  OBVIOUS
<1> QED
  BY <1>1, GraphAssumption

(* A set of blocks around c that is closed leaves out only blocks c           *)
(* dominates.                                                                 *)
LEMMA DominatesBy ==
  ASSUME succ \in Graphs, NEW c \in Block, NEW S \in SUBSET Block, c \notin S, Entry \in S,
         \A x \in S : \A y \in succ[x] : y # c => y \in S,
         NEW b \in Block, b \notin S
  PROVE  Dominates(c, b)
<1>1. S \in SUBSET (Block \ {c}) /\ \A x \in S : succ[x] \ {c} \subseteq S
  OBVIOUS
<1> QED
  BY <1>1 DEF Dominates

(* What is reached around c is such a set.                                    *)
LEMMA AroundFacts ==
  ASSUME succ \in Graphs, NEW c \in Block, c # Entry
  PROVE  /\ Around(c) \in SUBSET Block
         /\ Entry \in Around(c) /\ c \notin Around(c)
         /\ \A x \in Around(c) : \A y \in succ[x] : y # c => y \in Around(c)
         /\ \A x \in Block : x \in Around(c) <=> ~Dominates(c, x)
<1>0. succ \in [Block -> SUBSET Block] /\ Entry \in Block
  BY EntryFacts
<1>1. Entry \in Around(c)
  BY <1>0 DEF Around, Dominates
<1>2. c \notin Around(c)
  BY DEF Around, Dominates
<1>3. ASSUME NEW x \in Around(c), NEW y \in succ[x], y # c PROVE y \in Around(c)
  <2>1. x \in Block /\ y \in Block /\ x # c
    BY <1>0, <1>2, <1>3 DEF Around
  <2>2. SUFFICES ASSUME Dominates(c, y) PROVE FALSE
    BY <2>1 DEF Around
  <2>3. PICK S \in SUBSET (Block \ {c}) : Entry \in S /\ (\A z \in S : succ[z] \ {c} \subseteq S) /\ y \notin S
    BY <1>3, <2>2 DEF Dominates
  <2>4. x \notin S
    BY <1>3, <2>3
  <2>5. Dominates(c, x)
    BY <2>3, <2>4 DEF Dominates
  <2> QED
    BY <2>5 DEF Around
<1> QED
  BY <1>1, <1>2, <1>3 DEF Around

(* A block that is no join has only the predecessor it was reached from.      *)
LEMMA OnlyPred ==
  ASSUME succ \in Graphs, NEW b \in Block, NEW s \in succ[b], ~IsJoin(s)
  PROVE  Preds(s) = {b}
<1>1. succ \in [Block -> SUBSET Block]
  BY EntryFacts
<1>2. b \in Preds(s) /\ Preds(s) \subseteq Block
  BY <1>1 DEF Preds
<1>3. IsFiniteSet(Preds(s))
  BY <1>2, BlockAssumption, FS_Subset
<1>4. Cardinality(Preds(s)) \in Nat
  BY <1>3, FS_CardinalityType
<1>5. ASSUME NEW p \in Preds(s), p # b PROVE FALSE
  <2>1. IsFiniteSet({p, b}) /\ Cardinality({p, b}) <= Cardinality(Preds(s))
    BY <1>2, <1>3, FS_Subset
  <2>2. Cardinality({p, b}) = 2
    <3>1. IsFiniteSet({b}) /\ Cardinality({b}) = 1
      BY FS_Singleton
    <3>2. Cardinality({b} \cup {p}) = Cardinality({b}) + 1
      BY <1>5, <3>1, FS_AddElement
    <3>3. {b} \cup {p} = {p, b}
      OBVIOUS
    <3> QED
      BY <3>1, <3>2, <3>3
  <2> QED
    BY <1>4, <2>1, <2>2 DEF IsJoin
<1> QED
  BY <1>2, <1>5

(* Every block but the entry is entered from a block it does not dominate.    *)
LEMMA FreshPred ==
  ASSUME succ \in Graphs, NEW c \in Block, c # Entry
  PROVE  \E p \in Preds(c) : p \in Around(c)
<1> SUFFICES ASSUME \A p \in Preds(c) : p \notin Around(c) PROVE FALSE
  OBVIOUS
<1>1. /\ Around(c) \in SUBSET Block
      /\ Entry \in Around(c) /\ c \notin Around(c)
      /\ \A x \in Around(c) : \A y \in succ[x] : y # c => y \in Around(c)
  BY AroundFacts
<1>2. \A x \in Around(c) : \A y \in succ[x] : y \in Around(c)
  BY <1>1 DEF Preds
<1>3. Around(c) = Block
  <2> HIDE DEF Around
  <2> QED
    BY <1>1, <1>2, Reached
<1> QED
  BY <1>1, <1>3

-----------------------------------------------------------------------------
(* Instructions *)

(* What an instruction names are registers.                                   *)
LEMMA InstrFacts ==
  ASSUME NEW i \in Instr
  PROVE  /\ i.op \in {"nop", "mov", "set", "inc", "store"}
         /\ i.op # "nop" => i.dst \in Reg
         /\ i.op = "mov" => i.src \in Reg
  BY DEF Instr

(* What a block does to registers, by its instruction.                        *)
LEMMA AfterForms ==
  ASSUME code \in [Block -> Instr], NEW b \in Block, NEW regs
  PROVE  LET i == code[b]
         IN  \/ /\ i.op = "mov" /\ i.dst \in Reg /\ i.src \in Reg
                /\ After(b, regs) = [regs EXCEPT ![i.dst] = regs[i.src]]
             \/ /\ i.op = "set" /\ i.dst \in Reg
                /\ After(b, regs) = [regs EXCEPT ![i.dst] = Expr(Const(b), 0)]
             \/ /\ i.op = "inc" /\ i.dst \in Reg
                /\ After(b, regs) = [regs EXCEPT ![i.dst] = Plus(regs[i.dst], 1)]
             \/ i.op \notin {"mov", "set", "inc"} /\ After(b, regs) = regs
<1> DEFINE i == code[b]
<1>1. i \in Instr
  OBVIOUS
<1>2. /\ i.op \in {"nop", "mov", "set", "inc", "store"}
      /\ i.op # "nop" => i.dst \in Reg
      /\ i.op = "mov" => i.src \in Reg
  BY <1>1, InstrFacts
<1>3. i.op = "mov" => After(b, regs) = [regs EXCEPT ![i.dst] = regs[i.src]]
  BY DEF After
<1>4. i.op = "set" => After(b, regs) = [regs EXCEPT ![i.dst] = Expr(Const(b), 0)]
  BY DEF After
<1>5. i.op = "inc" => After(b, regs) = [regs EXCEPT ![i.dst] = Plus(regs[i.dst], 1)]
  BY DEF After
<1>6. i.op \in {"nop", "store"} => After(b, regs) = regs
  BY DEF After
<1> HIDE DEF i
<1>7. \/ /\ i.op = "mov" /\ i.dst \in Reg /\ i.src \in Reg
         /\ After(b, regs) = [regs EXCEPT ![i.dst] = regs[i.src]]
      \/ /\ i.op = "set" /\ i.dst \in Reg
         /\ After(b, regs) = [regs EXCEPT ![i.dst] = Expr(Const(b), 0)]
      \/ /\ i.op = "inc" /\ i.dst \in Reg
         /\ After(b, regs) = [regs EXCEPT ![i.dst] = Plus(regs[i.dst], 1)]
      \/ i.op \notin {"mov", "set", "inc"} /\ After(b, regs) = regs
  BY <1>2, <1>3, <1>4, <1>5, <1>6
<1> QED
  BY <1>7 DEF i

(* The leaves of the graph as expressions.                                    *)
LEMMA LeafExprs ==
  /\ \A l \in Leaves : Expr(l, 0) \in GraphExprs /\ Expr(l, 0).leaf = l /\ Expr(l, 0).n = 0
  /\ \A l \in Leaves : \A n \in Nat : Plus(Expr(l, 0), n) = Expr(l, n)
  /\ \A e \in GraphExprs : e.leaf \in Leaves /\ e.n \in Nat /\ Expr(e.leaf, e.n) = e
<1>0. Size \in Nat /\ Size # 0 /\ 0 \in 0..Size-1
  BY BlockAssumption
<1>1. 0 % Size = 0
  BY <1>0, ModSmall
<1>2. \A l \in Leaves : Expr(l, 0) \in GraphExprs /\ Expr(l, 0).leaf = l /\ Expr(l, 0).n = 0
  BY <1>0, <1>1 DEF Expr, GraphExprs
<1>3. ASSUME NEW l \in Leaves, NEW n \in Nat PROVE Plus(Expr(l, 0), n) = Expr(l, n)
  <2>1. 0 + n = n
    OBVIOUS
  <2> QED
    BY <1>2, <2>1 DEF Plus
<1>4. ASSUME NEW e \in GraphExprs PROVE e.leaf \in Leaves /\ e.n \in Nat /\ Expr(e.leaf, e.n) = e
  <2>1. e = [leaf |-> e.leaf, n |-> e.n] /\ e.leaf \in Leaves /\ e.n \in 0..Size-1
    BY DEF GraphExprs
  <2>2. e.n \in Nat /\ e.n % Size = e.n
    BY <2>1, ModSmall
  <2> QED
    BY <2>1, <2>2 DEF Expr
<1> QED
  BY <1>2, <1>3, <1>4

(* A block keeps registers typed.                                             *)
LEMMA AfterTyped ==
  ASSUME code \in [Block -> Instr], NEW b \in Block, NEW regs \in Regs
  PROVE  After(b, regs) \in Regs
<1> DEFINE i == code[b]
<1>0. regs \in [Reg -> GraphExprs]
  BY DEF Regs
<1>1. Expr(Const(b), 0) \in GraphExprs
  BY LeafExprs DEF Leaves
<1>2. \A r \in Reg : Plus(regs[r], 1) \in GraphExprs
  BY <1>0, PlusFacts DEF GraphExprs
<1>3. \/ /\ i.op = "mov" /\ i.dst \in Reg /\ i.src \in Reg
         /\ After(b, regs) = [regs EXCEPT ![i.dst] = regs[i.src]]
      \/ /\ i.op = "set" /\ i.dst \in Reg
         /\ After(b, regs) = [regs EXCEPT ![i.dst] = Expr(Const(b), 0)]
      \/ /\ i.op = "inc" /\ i.dst \in Reg
         /\ After(b, regs) = [regs EXCEPT ![i.dst] = Plus(regs[i.dst], 1)]
      \/ After(b, regs) = regs
  BY AfterForms
<1> HIDE DEF i
<1> QED
  BY <1>0, <1>1, <1>2, <1>3 DEF Regs

(* A register after a block holds what some register held before, added to,   *)
(* or a constant.                                                             *)
LEMMA AfterLeaf ==
  ASSUME code \in [Block -> Instr], NEW b \in Block, NEW regs \in Regs, NEW r \in Reg
  PROVE  \/ After(b, regs)[r].leaf = Const(b)
         \/ \E q \in Reg : After(b, regs)[r].leaf = regs[q].leaf
<1> DEFINE i == code[b]
<1>0. regs \in [Reg -> GraphExprs]
  BY DEF Regs
<1>1. Expr(Const(b), 0).leaf = Const(b)
  BY LeafExprs DEF Leaves
<1>2. \A q \in Reg : Plus(regs[q], 1).leaf = regs[q].leaf
  BY <1>0, PlusFacts DEF GraphExprs
<1>3. \/ /\ i.op = "mov" /\ i.dst \in Reg /\ i.src \in Reg
         /\ After(b, regs) = [regs EXCEPT ![i.dst] = regs[i.src]]
      \/ /\ i.op = "set" /\ i.dst \in Reg
         /\ After(b, regs) = [regs EXCEPT ![i.dst] = Expr(Const(b), 0)]
      \/ /\ i.op = "inc" /\ i.dst \in Reg
         /\ After(b, regs) = [regs EXCEPT ![i.dst] = Plus(regs[i.dst], 1)]
      \/ After(b, regs) = regs
  BY AfterForms
<1> HIDE DEF i
<1> QED
  BY <1>0, <1>1, <1>2, <1>3

-----------------------------------------------------------------------------
(* The registers a block starts from, as recovery finds them.                 *)

Start == [r \in Reg |-> Expr(InitReg(r), 0)]
OwnParams(b) == [r \in Reg |-> Expr(Param(b, r), 0)]
PredOf(b) == CHOOSE x \in Block : x \in Preds(b)
From(b, f) == IF b = Entry THEN Start ELSE IF IsJoin(b) THEN OwnParams(b) ELSE After(PredOf(b), f[PredOf(b)])

\* f says so for the blocks of S, whose single predecessors are in S.
Settled(S, f) ==
    /\ S \in SUBSET Block /\ f \in [Block -> Regs]
    /\ \A b \in S : f[b] = From(b, f) /\ (b = Entry \/ IsJoin(b) \/ PredOf(b) \in S)

(* The entry's registers and the parameters of a join are typed.              *)
LEMMA StartTyped ==
  Start \in Regs /\ \A b \in Block : IsJoin(b) => OwnParams(b) \in Regs
<1>1. \A r \in Reg : InitReg(r) \in Leaves
  BY DEF Leaves
<1>2. ASSUME NEW b \in Block, IsJoin(b), NEW r \in Reg PROVE Param(b, r) \in Leaves
  <2>1. <<b, r>> \in {x \in Block : IsJoin(x)} \X Reg
    BY <1>2
  <2> QED
    BY <2>1 DEF Leaves
<1> QED
  BY <1>1, <1>2, LeafExprs DEF Start, OwnParams, Regs

(* What was settled for some blocks can be settled for one more.              *)
LEMMA SettleOneMore ==
  ASSUME succ \in Graphs, code \in [Block -> Instr], NEW S, NEW f, Settled(S, f), S # Block
  PROVE  \E y \in Block \ S : \E g : Settled(S \cup {y}, g)
<1>0. S \in SUBSET Block /\ f \in [Block -> Regs]
  BY DEF Settled
<1>1. \E y \in Block \ S : y = Entry \/ IsJoin(y) \/ PredOf(y) \in S
  <2> SUFFICES ASSUME \A y \in Block \ S : y # Entry /\ ~IsJoin(y) /\ PredOf(y) \notin S PROVE FALSE
    OBVIOUS
  <2>1. Entry \in S
    BY EntryFacts
  <2>2. ASSUME NEW b \in S, NEW s \in succ[b] PROVE s \in S
    <3>1. s \in Block /\ b \in Block
      BY <1>0, EntryFacts
    <3>2. SUFFICES ASSUME s \notin S PROVE FALSE
      OBVIOUS
    <3>3. Preds(s) = {b}
      BY <3>1, <3>2, OnlyPred
    <3>4. PredOf(s) = b
      BY <3>1, <3>3 DEF PredOf
    <3> QED
      BY <3>1, <3>2, <3>4
  <2>3. S = Block
    BY <1>0, <2>1, <2>2, Reached
  <2> QED
    BY <2>3
<1>2. PICK y \in Block \ S : y = Entry \/ IsJoin(y) \/ PredOf(y) \in S
  BY <1>1
<1> DEFINE g == [f EXCEPT ![y] = From(y, f)]
<1>3. From(y, f) \in Regs
  <2>1. CASE y = Entry
    BY <2>1, StartTyped DEF From
  <2>2. CASE y # Entry /\ IsJoin(y)
    BY <2>2, StartTyped DEF From
  <2>3. CASE y # Entry /\ ~IsJoin(y)
    <3>1. PredOf(y) \in Block
      BY <1>0, <1>2, <2>3
    <3> QED
      BY <1>0, <2>3, <3>1, AfterTyped DEF From
  <2> QED
    BY <2>1, <2>2, <2>3
<1>4. g \in [Block -> Regs]
  BY <1>0, <1>3
<1>5. \A b \in S \cup {y} : g[b] = From(b, f)
  BY <1>0, <1>2 DEF Settled
<1>6. ASSUME NEW b \in S \cup {y}
      PROVE  From(b, g) = From(b, f) /\ (b = Entry \/ IsJoin(b) \/ PredOf(b) \in S \cup {y})
  <2>1. b = Entry \/ IsJoin(b) \/ PredOf(b) \in S
    BY <1>2 DEF Settled
  <2>2. PredOf(b) \in S => g[PredOf(b)] = f[PredOf(b)]
    BY <1>0, <1>2
  <2> QED
    BY <2>1, <2>2 DEF From
<1>7. Settled(S \cup {y}, g)
  <2> HIDE DEF g
  <2> QED
    BY <1>0, <1>2, <1>4, <1>5, <1>6 DEF Settled
<1> QED
  BY <1>2, <1>7

(* Something can be settled for all blocks.                                   *)
LEMMA SettleAll ==
  ASSUME succ \in Graphs, code \in [Block -> Instr]
  PROVE  \E f : Settled(Block, f)
<1> DEFINE n == Cardinality(Block)
           T == {k \in 0..n : \E S \in SUBSET Block : \E f : Settled(S, f) /\ Cardinality(S) = k}
<1>0. n \in Nat
  BY BlockAssumption, FS_CardinalityType
<1>1. 0 \in T
  <2>1. Settled({}, [b \in Block |-> Start])
    BY StartTyped DEF Settled
  <2>2. Cardinality({}) = 0
    BY FS_EmptySet
  <2> QED
    BY <1>0, <2>1, <2>2
<1>2. ASSUME NEW k \in T, k < n PROVE k + 1 \in T
  <2>1. PICK S \in SUBSET Block : \E f : Settled(S, f) /\ Cardinality(S) = k
    OBVIOUS
  <2>2. PICK f : Settled(S, f) /\ Cardinality(S) = k
    BY <2>1
  <2>3. S # Block
    BY <1>0, <1>2, <2>2
  <2>4. PICK y \in Block \ S : \E g : Settled(S \cup {y}, g)
    BY <2>2, <2>3, SettleOneMore
  <2>5. PICK g : Settled(S \cup {y}, g)
    BY <2>4
  <2>6. IsFiniteSet(S)
    BY BlockAssumption, FS_Subset
  <2>7. Cardinality(S \cup {y}) = k + 1
    BY <2>2, <2>4, <2>6, FS_AddElement
  <2> QED
    BY <1>0, <1>2, <2>5, <2>7
<1>3. n \in T
  <2>1. T \in SUBSET (0..n)
    OBVIOUS
  <2> HIDE DEF T
  <2> QED
    BY <1>0, <1>1, <1>2, <2>1, Climb
<1>4. PICK S \in SUBSET Block : \E f : Settled(S, f) /\ Cardinality(S) = n
  BY <1>3
<1>5. S = Block
  BY <1>0, <1>4, BlockAssumption, FS_Subset
<1> QED
  BY <1>4, <1>5

(* Recovery's equations have a solution, and `arriving` is one.               *)
LEMMA ArrivingIs ==
  ASSUME succ \in Graphs, code \in [Block -> Instr]
  PROVE  /\ arriving \in [Block -> Regs]
         /\ \A b \in Block : arriving[b] = From(b, arriving)
<1> DEFINE Rhs(f) == [b \in Block |-> CASE b = Entry -> [r \in Reg |-> Expr(InitReg(r), 0)]
                                        [] IsJoin(b) -> [r \in Reg |-> Expr(Param(b, r), 0)]
                                        [] OTHER     -> LET p == CHOOSE x \in Block : x \in Preds(b)
                                                        IN  After(p, f[p])]
<1>1. ASSUME NEW f PROVE Rhs(f) = [b \in Block |-> From(b, f)]
  <2>1. ASSUME NEW b \in Block PROVE Rhs(f)[b] = From(b, f)
    BY EntryFacts DEF From, Start, OwnParams, PredOf
  <2> QED
    BY <2>1
<1>2. arriving = CHOOSE f : f = Rhs(f)
  BY DEF arriving
<1>3. PICK f : Settled(Block, f)
  BY SettleAll
<1>4. f = Rhs(f)
  <2>1. f \in [Block -> Regs] /\ \A b \in Block : f[b] = From(b, f)
    BY <1>3 DEF Settled
  <2>2. f = [b \in Block |-> From(b, f)]
    BY <2>1
  <2> HIDE DEF Rhs
  <2> QED
    BY <1>1, <2>2
<1>5. arriving = Rhs(arriving)
  <2> HIDE DEF Rhs
  <2> QED
    BY <1>2, <1>4
<1>6. arriving = [b \in Block |-> From(b, arriving)]
  BY <1>1, <1>5
<1>7. \A b \in Block : arriving[b] = From(b, arriving)
  BY <1>6
<1> DEFINE S == {b \in Block : arriving[b] \in Regs}
<1>8. Entry \in S
  BY <1>7, EntryFacts, StartTyped DEF From
<1>9. ASSUME NEW b \in S, NEW s \in succ[b] PROVE s \in S
  <2>1. s \in Block
    BY EntryFacts
  <2>2. CASE s = Entry \/ IsJoin(s)
    BY <1>7, <2>1, <2>2, StartTyped DEF From
  <2>3. CASE s # Entry /\ ~IsJoin(s)
    <3>1. PredOf(s) = b
      BY <2>3, OnlyPred DEF PredOf
    <3>2. arriving[s] = After(b, arriving[b])
      BY <1>7, <2>1, <2>3, <3>1 DEF From
    <3> QED
      BY <2>1, <3>2, AfterTyped
  <2> QED
    BY <2>2, <2>3
<1>10. S = Block
  <2> HIDE DEF S
  <2>1. S \in SUBSET Block
    BY DEF S
  <2> QED
    BY <1>8, <1>9, <2>1, Reached
<1> QED
  BY <1>6, <1>7, <1>10

-----------------------------------------------------------------------------
(* What the graph says about the guest                                        *)

\* What the parameters stand for: for each the value its register had when its
\* join was last entered.
Envs == [AllParams -> GraphExprs]

\* The value of an expression.
Env(env, e) == IF IsParam(e.leaf) THEN Plus(env[e.leaf], e.n) ELSE e

\* A block, the guest's registers on entry to it, and the parameters.
Configs == Block \X Regs \X Envs
Begin == <<Entry, Start, [l \in AllParams |-> NoEvent]>>
Arrived(s, regs, env) ==
    IF IsJoin(s) THEN [l \in AllParams |-> IF l[2] = s THEN regs[l[3]] ELSE env[l]] ELSE env
Followed(c, s) == <<s, After(c[1], c[2]), Arrived(s, After(c[1], c[2]), c[3])>>

\* The ones the guest can reach.
ClosedConfigs(Q) ==
    /\ Q \in SUBSET Configs /\ Begin \in Q
    /\ \A c \in Q : \A s \in succ[c[1]] : Followed(c, s) \in Q
Reach == {c \in Configs : \A Q : ClosedConfigs(Q) => c \in Q}

\* Where control leaves a block, its exits evaluate to the guest's registers,
\* and so does what it stores.
TellsAt(c) ==
    /\ \A r \in Reg : After(c[1], c[2])[r] = Env(c[3], exits[c[1]][r])
    /\ Stores(c[1]) => c[2][code[c[1]].dst] = Env(c[3], event[c[1]])
GraphTells == \A c \in Reach : TellsAt(c)

(* Leaves are entry values, parameters or constants.                          *)
LEMMA LeafKinds ==
  ASSUME NEW l \in Leaves
  PROVE  \/ \E q \in Reg : l = InitReg(q) /\ l[1] = "init" /\ l[3] = q
         \/ \E c \in Block, q \in Reg :
               /\ IsJoin(c) /\ l = Param(c, q) /\ l[1] = "param" /\ l[2] = c /\ l[3] = q
               /\ l \in AllParams
         \/ \E b \in Block : l = Const(b) /\ l[1] = "const"
<1>1. ASSUME NEW p \in {x \in Block : IsJoin(x)} \X Reg, l = Param(p[1], p[2])
      PROVE  /\ p[1] \in Block /\ p[2] \in Reg /\ IsJoin(p[1])
             /\ l[1] = "param" /\ l[2] = p[1] /\ l[3] = p[2] /\ l \in AllParams
  <2>1. p \in Block \X Reg
    OBVIOUS
  <2> QED
    BY <1>1, <2>1 DEF Param, AllParams
<1>2. \A q \in Reg : InitReg(q)[1] = "init" /\ InitReg(q)[3] = q
  BY DEF InitReg
<1>3. \A b \in Block : Const(b)[1] = "const"
  BY DEF Const
<1>4. \/ \E q \in Reg : l = InitReg(q)
      \/ \E p \in {x \in Block : IsJoin(x)} \X Reg : l = Param(p[1], p[2])
      \/ \E b \in Block : l = Const(b)
  BY DEF Leaves
<1>5. CASE \E q \in Reg : l = InitReg(q)
  BY <1>2, <1>5
<1>6. CASE \E p \in {x \in Block : IsJoin(x)} \X Reg : l = Param(p[1], p[2])
  BY <1>1, <1>6
<1>7. CASE \E b \in Block : l = Const(b)
  BY <1>3, <1>7
<1> QED
  BY <1>4, <1>5, <1>6, <1>7

(* The value of an expression is one, and adding commutes with taking it.     *)
LEMMA EnvFacts ==
  ASSUME NEW env \in Envs, NEW e \in GraphExprs, NEW n \in Nat
  PROVE  /\ Env(env, e) \in GraphExprs
         /\ Plus(e, n) \in GraphExprs /\ Plus(e, n).leaf = e.leaf
         /\ Env(env, Plus(e, n)) = Plus(Env(env, e), n)
<1>1. e.leaf \in Leaves /\ e.n \in Nat /\ e.n \in 0..Size-1 /\ Expr(e.leaf, e.n) = e
  BY LeafExprs DEF GraphExprs
<1>2. IsParam(e.leaf) => e.leaf \in AllParams
  BY <1>1, LeafKinds DEF IsParam
<1>3. IsParam(e.leaf) => env[e.leaf] \in GraphExprs
  BY <1>2 DEF Envs
<1>4. Plus(e, n) \in GraphExprs /\ Plus(e, n).leaf = e.leaf /\ Plus(e, n).n = (e.n + n) % Size
  BY PlusFacts DEF GraphExprs, Plus, Expr
<1>5. CASE ~IsParam(e.leaf)
  BY <1>4, <1>5 DEF Env
<1>6. CASE IsParam(e.leaf)
  <2> DEFINE v == env[e.leaf]
  <2>1. v \in GraphExprs
    BY <1>3, <1>6
  <2>2. Env(env, e) = Plus(v, e.n) /\ Env(env, Plus(e, n)) = Plus(v, (e.n + n) % Size)
    BY <1>4, <1>6 DEF Env
  <2> HIDE DEF v
  <2>3. Plus(v, e.n) \in GraphExprs /\ Plus(Plus(v, e.n), n) = Plus(v, e.n + n)
    BY <1>1, <2>1, PlusFacts DEF GraphExprs
  <2>4. PICK m \in Nat : m = e.n + n
    BY <1>1
  <2>5. Plus(v, m % Size) = Plus(v, m)
    BY <2>1, PlusFacts DEF GraphExprs
  <2> QED
    BY <1>4, <2>2, <2>3, <2>4, <2>5
<1> QED
  BY <1>5, <1>6

(* A leaf by itself has the value of its parameter, or is its own.            *)
LEMMA EnvLeaf ==
  ASSUME NEW env \in Envs, NEW l \in Leaves
  PROVE  /\ IsParam(l) => l \in AllParams /\ Env(env, Expr(l, 0)) = env[l] /\ env[l] \in GraphExprs
         /\ ~IsParam(l) => Env(env, Expr(l, 0)) = Expr(l, 0)
<1>1. Expr(l, 0).leaf = l /\ Expr(l, 0).n = 0
  BY LeafExprs
<1>2. IsParam(l) => l \in AllParams
  BY LeafKinds DEF IsParam
<1>3. IsParam(l) => env[l] \in GraphExprs
  BY <1>2 DEF Envs
<1>4. IsParam(l) => Plus(env[l], 0) = env[l]
  BY <1>3, PlusFacts DEF GraphExprs
<1> QED
  BY <1>1, <1>2, <1>3, <1>4 DEF Env

(* An expression has the value of its leaf, added to.                         *)
LEMMA EnvOfLeaf ==
  ASSUME NEW env \in Envs, NEW e \in GraphExprs
  PROVE  Env(env, e) = Plus(Env(env, Expr(e.leaf, 0)), e.n)
<1>1. e.leaf \in Leaves /\ e.n \in Nat /\ Expr(e.leaf, e.n) = e
  BY LeafExprs
<1>2. Plus(Expr(e.leaf, 0), e.n) = e /\ Expr(e.leaf, 0) \in GraphExprs
  BY <1>1, LeafExprs
<1> QED
  BY <1>1, <1>2, EnvFacts

(* What a block does to symbolic registers it does to their values.           *)
LEMMA AfterEnv ==
  ASSUME code \in [Block -> Instr], NEW b \in Block, NEW regs \in Regs, NEW sym \in Regs, NEW env \in Envs,
         \A r \in Reg : regs[r] = Env(env, sym[r]), NEW r \in Reg
  PROVE  After(b, regs)[r] = Env(env, After(b, sym)[r])
<1> DEFINE i == code[b]
<1>0. regs \in [Reg -> GraphExprs] /\ sym \in [Reg -> GraphExprs]
  BY DEF Regs
<1>1. Env(env, Expr(Const(b), 0)) = Expr(Const(b), 0)
  <2>1. Const(b) \in Leaves /\ ~IsParam(Const(b))
    BY DEF Leaves, Const, IsParam
  <2> QED
    BY <2>1, EnvLeaf
<1>2. \A q \in Reg : Env(env, Plus(sym[q], 1)) = Plus(regs[q], 1)
  BY <1>0, EnvFacts
<1>3. \A rr : \/ /\ i.op = "mov" /\ i.dst \in Reg /\ i.src \in Reg
                 /\ After(b, rr) = [rr EXCEPT ![i.dst] = rr[i.src]]
              \/ /\ i.op = "set" /\ i.dst \in Reg
                 /\ After(b, rr) = [rr EXCEPT ![i.dst] = Expr(Const(b), 0)]
              \/ /\ i.op = "inc" /\ i.dst \in Reg
                 /\ After(b, rr) = [rr EXCEPT ![i.dst] = Plus(rr[i.dst], 1)]
              \/ /\ i.op \notin {"mov", "set", "inc"}
                 /\ After(b, rr) = rr
  BY AfterForms
<1> HIDE DEF i
<1>4. CASE i.op = "mov"
  <2>1. /\ i.dst \in Reg /\ i.src \in Reg
        /\ After(b, regs) = [regs EXCEPT ![i.dst] = regs[i.src]]
        /\ After(b, sym) = [sym EXCEPT ![i.dst] = sym[i.src]]
    BY <1>3, <1>4
  <2> QED
    BY <1>0, <2>1
<1>5. CASE i.op = "set"
  <2>1. /\ i.dst \in Reg
        /\ After(b, regs) = [regs EXCEPT ![i.dst] = Expr(Const(b), 0)]
        /\ After(b, sym) = [sym EXCEPT ![i.dst] = Expr(Const(b), 0)]
    BY <1>3, <1>5
  <2> QED
    BY <1>0, <1>1, <2>1
<1>6. CASE i.op = "inc"
  <2>1. /\ i.dst \in Reg
        /\ After(b, regs) = [regs EXCEPT ![i.dst] = Plus(regs[i.dst], 1)]
        /\ After(b, sym) = [sym EXCEPT ![i.dst] = Plus(sym[i.dst], 1)]
    BY <1>3, <1>6
  <2> QED
    BY <1>0, <1>2, <2>1
<1>7. CASE i.op \notin {"mov", "set", "inc"}
  BY <1>3, <1>7
<1> QED
  BY <1>4, <1>5, <1>6, <1>7

(* The configurations reached are the least closed set of them.               *)
LEMMA BeginTyped == Begin \in Configs
<1>1. NoEvent \in GraphExprs
  BY LeafExprs, BlockAssumption DEF NoEvent, Leaves
<1> QED
  BY <1>1, StartTyped, BlockAssumption DEF Begin, Configs, Envs

(* Following an edge leads to a configuration.                                *)
LEMMA FollowedTyped ==
  ASSUME succ \in Graphs, code \in [Block -> Instr], NEW c \in Configs, NEW s \in succ[c[1]]
  PROVE  Followed(c, s) \in Configs
<1>1. c[1] \in Block /\ c[2] \in Regs /\ c[3] \in Envs /\ s \in Block
  BY EntryFacts DEF Configs
<1>2. After(c[1], c[2]) \in Regs
  BY <1>1, AfterTyped
<1>3. \A l \in AllParams : l[3] \in Reg
  BY DEF AllParams, Param
<1>4. ASSUME NEW regs \in Regs, NEW env \in Envs PROVE Arrived(s, regs, env) \in Envs
  BY <1>3 DEF Arrived, Envs, Regs
<1> QED
  BY <1>1, <1>2, <1>4 DEF Followed, Configs

(* What is reached goes on to what is reached.                                *)
LEMMA ReachClosed ==
  ASSUME succ \in Graphs, code \in [Block -> Instr]
  PROVE  ClosedConfigs(Reach)
<1>1. Reach \in SUBSET Configs
  BY DEF Reach
<1>2. Begin \in Reach
  BY BeginTyped DEF Reach, ClosedConfigs
<1>3. ASSUME NEW c \in Reach, NEW s \in succ[c[1]] PROVE Followed(c, s) \in Reach
  <2>1. Followed(c, s) \in Configs
    BY <1>1, FollowedTyped
  <2>2. ASSUME NEW Q, ClosedConfigs(Q) PROVE Followed(c, s) \in Q
    <3>1. c \in Q
      BY <2>2 DEF Reach
    <3> QED
      BY <2>2, <3>1 DEF ClosedConfigs
  <2> QED
    BY <2>1, <2>2 DEF Reach
<1> QED
  BY <1>1, <1>2, <1>3 DEF ClosedConfigs

(* What holds at the beginning and along every edge holds of all of them.     *)
LEMMA ReachInduction ==
  ASSUME succ \in Graphs, code \in [Block -> Instr], NEW Q \in SUBSET Reach, Begin \in Q,
         \A c \in Q : \A s \in succ[c[1]] : Followed(c, s) \in Q
  PROVE  Q = Reach
<1>1. ClosedConfigs(Q)
  BY DEF Reach, ClosedConfigs
<1> QED
  BY <1>1 DEF Reach

-----------------------------------------------------------------------------
(* What recovery finds is so                                                  *)

\* Graph state is typed: blocks mention entry values, parameters of joins and
\* constants.
GraphTyped ==
    /\ succ \in Graphs /\ code \in [Block -> Instr]
    /\ exits \in [Block -> Regs] /\ event \in [Block -> GraphExprs]
    /\ params \subseteq {l \in Leaves : IsParam(l)}

(* On arrival at a block the guest's registers are what recovery says.        *)
LEMMA ArrivingTells ==
  ASSUME succ \in Graphs, code \in [Block -> Instr]
  PROVE  \A c \in Reach : \A r \in Reg : c[2][r] = Env(c[3], arriving[c[1]][r])
<1> DEFINE Q == {c \in Reach : \A r \in Reg : c[2][r] = Env(c[3], arriving[c[1]][r])}
<1>0. ClosedConfigs(Reach)
  BY ReachClosed
<1>1. Begin \in Q
  <2>1. Begin[1] = Entry /\ Begin[2] = Start /\ Begin[3] \in Envs
    BY BeginTyped DEF Begin, Configs
  <2>2. arriving[Entry] = Start
    BY ArrivingIs, BlockAssumption DEF From
  <2>3. ASSUME NEW r \in Reg PROVE Start[r] = Env(Begin[3], Start[r])
    <3>1. InitReg(r) \in Leaves /\ ~IsParam(InitReg(r))
      BY DEF Leaves, InitReg, IsParam
    <3> QED
      BY <2>1, <3>1, EnvLeaf DEF Start
  <2> QED
    BY <1>0, <2>1, <2>2, <2>3 DEF ClosedConfigs
<1>2. ASSUME NEW c \in Q, NEW s \in succ[c[1]] PROVE Followed(c, s) \in Q
  <2> DEFINE regs == After(c[1], c[2])
             env  == Arrived(s, regs, c[3])
  <2>1. c \in Reach /\ c \in Configs /\ Followed(c, s) \in Reach
    BY <1>0 DEF ClosedConfigs
  <2>2. c[1] \in Block /\ c[2] \in Regs /\ c[3] \in Envs /\ s \in Block /\ s # Entry
    BY <2>1, EntryFacts DEF Configs
  <2>3. Followed(c, s) = <<s, regs, env>>
    BY DEF Followed
  <2>4. regs \in Regs /\ env \in Envs
    BY <2>1, <2>3, FollowedTyped DEF Configs
  <2>5. ASSUME NEW r \in Reg PROVE regs[r] = Env(env, arriving[s][r])
    <3>1. CASE IsJoin(s)
      <4>1. arriving[s] = OwnParams(s)
        BY <2>2, <3>1, ArrivingIs DEF From
      <4>2. Param(s, r) \in Leaves /\ IsParam(Param(s, r)) /\ Param(s, r)[2] = s /\ Param(s, r)[3] = r
        <5>1. <<s, r>> \in {x \in Block : IsJoin(x)} \X Reg
          BY <2>2, <3>1
        <5> QED
          BY <5>1 DEF Leaves, Param, IsParam
      <4>3. Env(env, Expr(Param(s, r), 0)) = env[Param(s, r)] /\ Param(s, r) \in AllParams
        BY <2>4, <4>2, EnvLeaf
      <4>4. env[Param(s, r)] = regs[r]
        BY <3>1, <4>2, <4>3 DEF Arrived
      <4> QED
        BY <4>1, <4>3, <4>4 DEF OwnParams
    <3>2. CASE ~IsJoin(s)
      <4>1. PredOf(s) = c[1]
        BY <2>2, <3>2, OnlyPred DEF PredOf
      <4>2. arriving[s] = After(c[1], arriving[c[1]])
        BY <2>2, <3>2, <4>1, ArrivingIs DEF From
      <4>3. env = c[3]
        BY <3>2 DEF Arrived
      <4>4. arriving[c[1]] \in Regs
        BY <2>2, ArrivingIs
      <4>5. After(c[1], c[2])[r] = Env(c[3], After(c[1], arriving[c[1]])[r])
        BY <2>2, <4>4, AfterEnv
      <4> QED
        BY <4>2, <4>3, <4>5
    <3> QED
      BY <3>1, <3>2
  <2> HIDE DEF regs, env
  <2> QED
    BY <2>1, <2>3, <2>5
<1>3. Q = Reach
  <2>1. Q \in SUBSET Reach
    OBVIOUS
  <2> HIDE DEF Q
  <2> QED
    BY <1>1, <1>2, <2>1, ReachInduction
<1> QED
  BY <1>3

(* The parameters a block starts from belong to joins every path to it        *)
(* passes.                                                                    *)
LEMMA ArrivingDominated ==
  ASSUME succ \in Graphs, code \in [Block -> Instr]
  PROVE  \A b \in Block : \A r \in Reg :
            IsParam(arriving[b][r].leaf) => Dominates(arriving[b][r].leaf[2], b)
<1> DEFINE Ok(b) == \A r \in Reg : IsParam(arriving[b][r].leaf) => Dominates(arriving[b][r].leaf[2], b)
           S == {b \in Block : Ok(b)}
<1>1. Entry \in S
  <2>1. arriving[Entry] = Start
    BY ArrivingIs, BlockAssumption DEF From
  <2>2. ASSUME NEW r \in Reg PROVE ~IsParam(Start[r].leaf)
    <3>1. InitReg(r) \in Leaves /\ ~IsParam(InitReg(r))
      BY DEF Leaves, InitReg, IsParam
    <3> QED
      BY <3>1, LeafExprs DEF Start
  <2> QED
    BY <2>1, <2>2, BlockAssumption
<1>2. ASSUME NEW b \in S, NEW s \in succ[b] PROVE s \in S
  <2>1. s \in Block /\ s # Entry /\ b \in Block
    BY EntryFacts
  <2>2. CASE IsJoin(s)
    <3>1. arriving[s] = OwnParams(s)
      BY <2>1, <2>2, ArrivingIs DEF From
    <3>2. ASSUME NEW r \in Reg PROVE OwnParams(s)[r].leaf[2] = s
      <4>1. <<s, r>> \in {x \in Block : IsJoin(x)} \X Reg
        BY <2>1, <2>2
      <4>2. Param(s, r) \in Leaves /\ Param(s, r)[2] = s
        BY <4>1 DEF Leaves, Param
      <4> QED
        BY <4>2, LeafExprs DEF OwnParams
    <3>3. Dominates(s, s)
      BY DEF Dominates
    <3> QED
      BY <2>1, <3>1, <3>2, <3>3
  <2>3. CASE ~IsJoin(s)
    <3>1. Preds(s) = {b}
      BY <2>1, <2>3, OnlyPred
    <3>2. arriving[s] = After(b, arriving[b])
      BY <2>1, <2>3, <3>1, ArrivingIs DEF From, PredOf
    <3>3. arriving[b] \in Regs /\ arriving[s] \in Regs
      BY <2>1, ArrivingIs
    <3>4. ASSUME NEW r \in Reg, IsParam(arriving[s][r].leaf)
          PROVE  Dominates(arriving[s][r].leaf[2], s)
      <4>1. PICK q \in Reg : arriving[s][r].leaf = arriving[b][q].leaf
        BY <2>1, <3>2, <3>3, <3>4, AfterLeaf DEF IsParam, Const
      <4>2. arriving[s][r].leaf \in Leaves
        BY <3>3 DEF Regs, GraphExprs
      <4>3. PICK c \in Block : arriving[s][r].leaf[2] = c /\ IsJoin(c)
        BY <3>4, <4>2, LeafKinds DEF IsParam
      <4>4. Dominates(c, b) /\ c # Entry
        BY <3>4, <4>1, <4>3, EntryFacts
      <4>5. CASE c = s
        BY <4>3, <4>5 DEF Dominates
      <4>6. CASE c # s
        <5>1. /\ Around(c) \in SUBSET Block
              /\ Entry \in Around(c) /\ c \notin Around(c)
              /\ \A x \in Around(c) : \A y \in succ[x] : y # c => y \in Around(c)
              /\ b \notin Around(c)
          BY <2>1, <4>4, AroundFacts
        <5> DEFINE W == Around(c) \ {s}
        <5>2. ASSUME NEW x \in W, NEW y \in succ[x], y # c PROVE y \in W
          <6>1. y \in Around(c) /\ x \in Block /\ y \in Block
            BY <5>1, <5>2
          <6>2. y = s => x \in Preds(s)
            BY <5>2, <6>1 DEF Preds
          <6>3. y # s
            BY <3>1, <5>1, <6>2
          <6> QED
            BY <6>1, <6>3
        <5>3. W \in SUBSET Block /\ c \notin W /\ Entry \in W /\ s \notin W
          BY <2>1, <5>1
        <5>4. Dominates(c, s)
          <6> HIDE DEF W
          <6> QED
            BY <2>1, <5>2, <5>3, DominatesBy
        <5> QED
          BY <4>3, <5>4
      <4> QED
        BY <4>5, <4>6
    <3> QED
      BY <2>1, <3>4
  <2> QED
    BY <2>2, <2>3
<1>3. S = Block
  <2>1. S \in SUBSET Block
    OBVIOUS
  <2> HIDE DEF S
  <2> QED
    BY <1>1, <1>2, <2>1, Reached
<1> QED
  BY <1>3

(* The graph recovery hands over: typed, scoped by dominance, and true of the *)
(* guest.                                                                     *)
LEMMA InitGraph ==
  ASSUME Init
  PROVE  GraphTyped /\ LeavesDominate /\ GraphTells
<1>0. /\ succ \in Graphs /\ code \in [Block -> Instr]
      /\ exits = [b \in Block |-> After(b, arriving[b])]
      /\ event = [b \in Block |-> IF Stores(b) THEN arriving[b][code[b].dst] ELSE NoEvent]
      /\ params = {Param(b, r) : b \in {c \in Block : IsJoin(c)}, r \in Reg}
  BY DEF Init
<1>1. \A b \in Block : arriving[b] \in Regs /\ After(b, arriving[b]) \in Regs
  BY <1>0, ArrivingIs, AfterTyped
<1>2. \A b \in Block : Stores(b) => code[b].dst \in Reg
  BY <1>0, InstrFacts DEF Stores
<1>3. NoEvent \in GraphExprs /\ ~IsParam(NoEvent.leaf)
  <2>1. Const(Entry) \in Leaves /\ ~IsParam(Const(Entry))
    BY BlockAssumption DEF Leaves, Const, IsParam
  <2> QED
    BY <2>1, LeafExprs DEF NoEvent
<1>4. \A b \in Block : event[b] \in GraphExprs
  BY <1>0, <1>1, <1>2, <1>3 DEF Regs
<1>5. params \subseteq {l \in Leaves : IsParam(l)}
  <2>1. ASSUME NEW b \in {c \in Block : IsJoin(c)}, NEW r \in Reg
        PROVE  Param(b, r) \in {l \in Leaves : IsParam(l)}
    <3>1. <<b, r>> \in {x \in Block : IsJoin(x)} \X Reg
      OBVIOUS
    <3> QED
      BY <3>1 DEF Leaves, Param, IsParam
  <2> QED
    BY <1>0, <2>1
<1>6. GraphTyped
  BY <1>0, <1>1, <1>4, <1>5 DEF GraphTyped
<1>7. LeavesDominate
  <2> SUFFICES ASSUME NEW b \in Block, NEW l \in Mentioned(b), IsParam(l) PROVE Dominates(l[2], b)
    BY DEF LeavesDominate, IsParam
  <2>1. \A r \in Reg : IsParam(arriving[b][r].leaf) => Dominates(arriving[b][r].leaf[2], b)
    BY <1>0, ArrivingDominated
  <2>2. ~IsParam(Const(b))
    BY DEF Const, IsParam
  <2>3. CASE l = event[b].leaf
    BY <1>0, <1>2, <1>3, <2>1, <2>3
  <2>4. CASE \E r \in Reg : l = exits[b][r].leaf
    <3>1. PICK r \in Reg : l = After(b, arriving[b])[r].leaf
      BY <1>0, <2>4
    <3>2. l = Const(b) \/ \E q \in Reg : l = arriving[b][q].leaf
      BY <1>0, <1>1, <3>1, AfterLeaf
    <3> QED
      BY <2>1, <2>2, <3>2
  <2> QED
    BY <2>3, <2>4 DEF Mentioned
<1>8. GraphTells
  <2> SUFFICES ASSUME NEW c \in Reach PROVE TellsAt(c)
    BY DEF GraphTells
  <2>1. c[1] \in Block /\ c[2] \in Regs /\ c[3] \in Envs
    BY DEF Reach, Configs
  <2>2. \A r \in Reg : c[2][r] = Env(c[3], arriving[c[1]][r])
    BY <1>0, ArrivingTells
  <2>3. \A r \in Reg : After(c[1], c[2])[r] = Env(c[3], After(c[1], arriving[c[1]])[r])
    BY <1>0, <1>1, <2>1, <2>2, AfterEnv
  <2>4. Stores(c[1]) => event[c[1]] = arriving[c[1]][code[c[1]].dst] /\ code[c[1]].dst \in Reg
    BY <1>0, <1>2, <2>1
  <2> QED
    BY <1>0, <2>1, <2>2, <2>3, <2>4 DEF TellsAt
<1> QED
  BY <1>6, <1>7, <1>8

-----------------------------------------------------------------------------
(* Simplifying phis                                                           *)

(* Two blocks do not dominate each other.                                     *)
LEMMA Antisymmetry ==
  ASSUME succ \in Graphs, NEW c \in Block, NEW d \in Block, c # Entry, d # Entry, c # d,
         Dominates(c, d), Dominates(d, c)
  PROVE  FALSE
<1>1. /\ Around(c) \in SUBSET Block
      /\ Entry \in Around(c) /\ c \notin Around(c) /\ d \notin Around(c)
      /\ \A x \in Around(c) : \A y \in succ[x] : y # c => y \in Around(c)
  BY AroundFacts
<1>2. /\ Around(d) \in SUBSET Block
      /\ Entry \in Around(d) /\ c \notin Around(d) /\ d \notin Around(d)
      /\ \A x \in Around(d) : \A y \in succ[x] : y # d => y \in Around(d)
  BY AroundFacts
<1> DEFINE W == Around(c) \cap Around(d)
<1>3. \A x \in W : \A y \in succ[x] : y \in W
  BY <1>1, <1>2
<1>4. W \in SUBSET Block /\ Entry \in W /\ c \notin W
  BY <1>1, <1>2
<1>5. W = Block
  <2> HIDE DEF W
  <2> QED
    BY <1>3, <1>4, Reached
<1> QED
  BY <1>4, <1>5

(* A strict dominator dominates every predecessor.                            *)
LEMMA StrictPred ==
  ASSUME succ \in Graphs, NEW c \in Block, c # Entry, NEW b \in Block, NEW s \in succ[b], s # c,
         Dominates(c, s)
  PROVE  Dominates(c, b)
<1>1. s \in Block
  BY EntryFacts
<1> QED
  BY <1>1, AroundFacts

\* v is what all of p's edges bring that do not bring p itself.
Replaces(v, p) ==
    /\ v \in GraphExprs /\ v # Expr(p, 0)
    /\ Incoming(p) = {v} /\ (CHOOSE w \in Incoming(p) : TRUE) = v
    /\ p \in params /\ p \in Leaves /\ IsParam(p) /\ p \in AllParams
    /\ p[2] \in Block /\ p[2] # Entry /\ p[3] \in Reg /\ p = Param(p[2], p[3])
    /\ \A x \in Preds(p[2]) : exits[x][p[3]] \in {v, Expr(p, 0)}

(* A trivial parameter has one replacement.                                   *)
LEMMA TrivialReplaced ==
  ASSUME GraphTyped, NEW p \in Trivial
  PROVE  \E v : Replaces(v, p)
<1>0. succ \in Graphs /\ exits \in [Block -> Regs]
  BY DEF GraphTyped
<1>1. p \in params /\ p \in Leaves /\ IsParam(p)
  BY DEF Trivial, GraphTyped
<1>2. PICK c \in Block, q \in Reg : IsJoin(c) /\ p = Param(c, q) /\ p[2] = c /\ p[3] = q /\ p \in AllParams
  BY <1>1, LeafKinds DEF IsParam
<1>3. c # Entry
  BY <1>0, <1>2, EntryFacts
<1>4. Preds(c) \subseteq Block /\ \A x \in Preds(c) : exits[x][q] \in GraphExprs
  BY <1>0, <1>2 DEF Preds, Regs
<1>5. IsFiniteSet(Incoming(p))
  <2> DEFINE image == {exits[x][q] : x \in Preds(c)}
  <2>1. IsFiniteSet(Preds(c))
    BY <1>4, BlockAssumption, FS_Subset
  <2>2. IsFiniteSet(image)
    <3> DEFINE brings == [x \in Preds(c) |-> exits[x][q]]
    <3>1. brings \in Surjection(Preds(c), image)
      BY DEF Surjection
    <3> QED
      BY <2>1, <3>1, FS_Surjection
  <2>3. Incoming(p) \subseteq image
    BY <1>2 DEF Incoming
  <2> QED
    BY <2>2, <2>3, FS_Subset
<1>6. Cardinality(Incoming(p)) = 1
  BY DEF Trivial
<1>7. PICK v : Incoming(p) = {v}
  BY <1>5, <1>6, FS_Singleton
<1>8. v # Expr(p, 0) /\ v \in {exits[x][q] : x \in Preds(c)}
  BY <1>2, <1>7 DEF Incoming
<1>9. v \in GraphExprs
  BY <1>4, <1>8
<1>10. \A x \in Preds(c) : exits[x][q] \in {v, Expr(p, 0)}
  BY <1>2, <1>7 DEF Incoming
<1> QED
  BY <1>1, <1>2, <1>3, <1>7, <1>8, <1>9, <1>10 DEF Replaces

(* A block's exits and the leaf they mention.                                 *)
LEMMA ExitsMentioned ==
  ASSUME NEW b \in Block
  PROVE  /\ \A r \in Reg : exits[b][r].leaf \in Mentioned(b)
         /\ event[b].leaf \in Mentioned(b)
  BY DEF Mentioned

(* A parameter that replaces another belongs to a join further up, one that   *)
(* dominates all the replaced one's join dominates: some edge enters that     *)
(* join from outside, and what it brings is no parameter of the join.         *)
LEMMA ReplacementAbove ==
  ASSUME GraphTyped, LeavesDominate, NEW p, NEW v, Replaces(v, p), IsParam(v.leaf)
  PROVE  /\ v.leaf[2] \in Block /\ v.leaf[2] # Entry /\ v.leaf[2] # p[2]
         /\ \A b \in Block : Dominates(p[2], b) => Dominates(v.leaf[2], b)
<1> DEFINE c == p[2]
           d == v.leaf[2]
<1>0. succ \in Graphs /\ c \in Block /\ c # Entry
  BY DEF GraphTyped, Replaces
<1>1. v.leaf \in Leaves
  BY LeafExprs DEF Replaces
<1>2. d \in Block /\ d # Entry
  BY <1>0, <1>1, LeafKinds, EntryFacts DEF IsParam
<1>3. /\ Around(c) \in SUBSET Block
      /\ Entry \in Around(c) /\ c \notin Around(c)
      /\ \A x \in Around(c) : \A y \in succ[x] : y # c => y \in Around(c)
      /\ \A x \in Block : x \in Around(c) <=> ~Dominates(c, x)
  BY <1>0, AroundFacts
<1>4. /\ Around(d) \in SUBSET Block
      /\ Entry \in Around(d) /\ d \notin Around(d)
      /\ \A x \in Around(d) : \A y \in succ[x] : y # d => y \in Around(d)
      /\ \A x \in Block : x \in Around(d) <=> ~Dominates(d, x)
  BY <1>0, <1>2, AroundFacts
<1>5. ASSUME NEW x \in Preds(c), x \in Around(c) PROVE Dominates(d, x)
  <2>1. x \in Block /\ exits[x][p[3]] \in {v, Expr(p, 0)} /\ exits[x][p[3]].leaf \in Mentioned(x)
    BY ExitsMentioned DEF Replaces, Preds
  <2>2. CASE exits[x][p[3]] = v
    BY <2>1, <2>2 DEF LeavesDominate, IsParam
  <2>3. CASE exits[x][p[3]] = Expr(p, 0)
    <3>1. Expr(p, 0).leaf = p /\ IsParam(p)
      BY LeafExprs DEF Replaces
    <3>2. Dominates(c, x)
      BY <2>1, <2>3, <3>1 DEF LeavesDominate, IsParam
    <3> QED
      BY <1>3, <1>5, <2>1, <3>2
  <2> QED
    BY <2>1, <2>2, <2>3
<1>6. d # c
  <2>1. PICK x \in Preds(c) : x \in Around(c)
    BY <1>0, FreshPred
  <2>2. Dominates(d, x)
    BY <1>5, <2>1
  <2> QED
    BY <1>3, <2>1, <2>2
<1>7. ASSUME NEW b \in Block, Dominates(c, b) PROVE Dominates(d, b)
  <2> DEFINE W == Around(c) \cap Around(d)
  <2>1. ASSUME NEW x \in W, NEW y \in succ[x], y # d PROVE y \in W
    <3>1. x \in Around(c) /\ x \in Around(d) /\ x \in Block
      BY <1>3, <2>1
    <3>2. y # c
      BY <1>4, <1>5, <3>1, <2>1 DEF Preds
    <3> QED
      BY <1>3, <1>4, <2>1, <3>1, <3>2
  <2>2. W \in SUBSET Block /\ Entry \in W /\ d \notin W /\ b \notin W
    BY <1>3, <1>4, <1>7
  <2> HIDE DEF W, c, d
  <2> QED
    BY <1>0, <1>2, <2>1, <2>2, DominatesBy
<1> QED
  BY <1>2, <1>6, <1>7

(* Where the parameter's join has been passed, its register held the value    *)
(* of its replacement, and still does.                                        *)
LEMMA ReplacementTells ==
  ASSUME GraphTyped, LeavesDominate, GraphTells, NEW p, NEW v, Replaces(v, p)
  PROVE  \A f \in Reach : Dominates(p[2], f[1]) => f[3][p] = Env(f[3], v)
<1> DEFINE c == p[2]
           q == p[3]
           Q == {f \in Reach : Dominates(c, f[1]) => f[3][p] = Env(f[3], v)}
<1>0. /\ succ \in Graphs /\ code \in [Block -> Instr] /\ exits \in [Block -> Regs]
      /\ c \in Block /\ c # Entry /\ q \in Reg /\ p = Param(c, q)
      /\ p \in Leaves /\ IsParam(p) /\ p \in AllParams /\ v \in GraphExprs
  BY DEF GraphTyped, Replaces
<1>1. ClosedConfigs(Reach)
  BY <1>0, ReachClosed
<1>2. Begin \in Q
  <2>1. ~Dominates(c, Entry)
    BY <1>0, AroundFacts, BlockAssumption
  <2>2. Begin[1] = Entry
    BY DEF Begin
  <2> QED
    BY <1>1, <2>1, <2>2 DEF ClosedConfigs
<1>3. ASSUME NEW f \in Q, NEW s \in succ[f[1]] PROVE Followed(f, s) \in Q
  <2> DEFINE b    == f[1]
             regs == After(b, f[2])
             env  == f[3]
             new  == Arrived(s, regs, env)
  <2>1. f \in Reach /\ f \in Configs /\ Followed(f, s) \in Reach
    BY <1>1 DEF ClosedConfigs
  <2>2. b \in Block /\ f[2] \in Regs /\ env \in Envs /\ s \in Block /\ s # Entry /\ b \in Preds(s)
    BY <1>0, <2>1, EntryFacts DEF Configs, Preds
  <2>3. Followed(f, s) = <<s, regs, new>>
    BY DEF Followed
  <2>4. regs \in Regs /\ new \in Envs
    BY <1>0, <2>1, <2>3, FollowedTyped DEF Configs
  <2>5. Dominates(c, b) => env[p] = Env(env, v)
    OBVIOUS
  <2>6. \A r \in Reg : regs[r] = Env(env, exits[b][r])
    BY <2>1 DEF GraphTells, TellsAt
  <2>7. \A l \in AllParams : l[2] # s => new[l] = env[l]
    BY DEF Arrived
  <2>8. v.leaf \in Leaves /\ (IsParam(v.leaf) => v.leaf \in AllParams)
    BY <1>0, LeafExprs, LeafKinds DEF IsParam
  <2>9. (IsParam(v.leaf) => v.leaf[2] # s) => Env(new, v) = Env(env, v)
    BY <2>7, <2>8 DEF Env
  <2>10. SUFFICES ASSUME Dominates(c, s) PROVE new[p] = Env(new, v)
    BY <2>1, <2>3
  <2>11. CASE s = c
    <3>1. IsParam(v.leaf) => v.leaf[2] # s
      BY <2>11, ReplacementAbove
    <3>2. IsJoin(s)
      BY <1>0, <2>11, LeafKinds DEF IsParam
    <3>3. p[2] = s /\ p[3] = q
      BY <2>11
    <3>4. new[p] = regs[q]
      BY <1>0, <3>2, <3>3 DEF Arrived
    <3>5. exits[b][q] \in {v, Expr(p, 0)}
      BY <2>2, <2>11 DEF Replaces
    <3>6. CASE exits[b][q] = v
      BY <1>0, <2>6, <2>9, <3>1, <3>4, <3>6
    <3>7. CASE exits[b][q] = Expr(p, 0)
      <4>1. Expr(p, 0).leaf = p
        BY <1>0, LeafExprs
      <4>2. Dominates(c, b)
        BY <1>0, <2>2, <3>7, <4>1, ExitsMentioned DEF LeavesDominate, IsParam
      <4>3. Env(env, Expr(p, 0)) = env[p]
        BY <1>0, <2>2, EnvLeaf
      <4> QED
        BY <1>0, <2>5, <2>6, <2>9, <3>1, <3>4, <3>7, <4>2, <4>3
    <3> QED
      BY <3>5, <3>6, <3>7
  <2>12. CASE s # c
    <3>1. Dominates(c, b)
      BY <1>0, <2>2, <2>10, <2>12, StrictPred
    <3>2. p[2] # s
      BY <2>12
    <3>3. new[p] = env[p]
      BY <1>0, <2>7, <3>2
    <3>4. IsParam(v.leaf) => v.leaf[2] # s
      <4> SUFFICES ASSUME IsParam(v.leaf), v.leaf[2] = s PROVE FALSE
        OBVIOUS
      <4>1. Dominates(c, c)
        BY DEF Dominates
      <4>2. Dominates(s, c)
        BY <1>0, <4>1, ReplacementAbove
      <4> QED
        BY <1>0, <2>2, <2>10, <2>12, <4>2, Antisymmetry
    <3> QED
      BY <2>5, <2>9, <3>1, <3>3, <3>4
  <2> QED
    BY <2>11, <2>12
<1>4. Q = Reach
  <2>1. Q \in SUBSET Reach
    OBVIOUS
  <2> HIDE DEF Q
  <2> QED
    BY <1>0, <1>2, <1>3, <2>1, ReachInduction
<1> QED
  BY <1>4

(* A rewritten expression keeps its value and stays in scope.                 *)
LEMMA RewrittenFacts ==
  ASSUME GraphTyped, LeavesDominate, GraphTells, NEW b \in Block, NEW e \in GraphExprs,
         e.leaf \in Mentioned(b)
  PROVE  /\ Rewritten(e) \in GraphExprs
         /\ IsParam(Rewritten(e).leaf) => Dominates(Rewritten(e).leaf[2], b)
         /\ \A f \in Reach : f[1] = b => Env(f[3], Rewritten(e)) = Env(f[3], e)
<1>1. CASE e.leaf \notin Trivial
  BY <1>1 DEF Rewritten, LeavesDominate, IsParam
<1>2. CASE e.leaf \in Trivial
  <2> DEFINE p == e.leaf
  <2>1. PICK v : Replaces(v, p)
    BY <1>2, TrivialReplaced
  <2>2. v \in GraphExprs /\ p \in Leaves /\ IsParam(p) /\ p[2] \in Block
    BY <2>1 DEF Replaces
  <2>3. Rewritten(e) = Plus(v, e.n)
    BY <1>2, <2>1 DEF Rewritten, Replaces
  <2>4. e.n \in Nat
    BY LeafExprs
  <2>5. Plus(v, e.n) \in GraphExprs /\ Plus(v, e.n).leaf = v.leaf
    BY <2>2, <2>4, PlusFacts DEF GraphExprs
  <2>6. Dominates(p[2], b)
    BY <2>2 DEF LeavesDominate, IsParam
  <2>7. IsParam(v.leaf) => Dominates(v.leaf[2], b)
    BY <2>1, <2>6, ReplacementAbove
  <2>8. ASSUME NEW f \in Reach, f[1] = b PROVE Env(f[3], Plus(v, e.n)) = Env(f[3], e)
    <3>1. f[3] \in Envs
      BY DEF Reach, Configs
    <3>2. f[3][p] = Env(f[3], v)
      BY <2>1, <2>6, <2>8, ReplacementTells
    <3>3. Env(f[3], Plus(v, e.n)) = Plus(Env(f[3], v), e.n)
      BY <2>2, <2>4, <3>1, EnvFacts
    <3>4. Env(f[3], e) = Plus(f[3][p], e.n)
      BY <2>2 DEF Env
    <3> QED
      BY <3>2, <3>3, <3>4
  <2> QED
    BY <2>3, <2>5, <2>7, <2>8
<1> QED
  BY <1>1, <1>2

(* What depends on the program only stays when it does.                       *)
LEMMA SameProgram ==
  ASSUME UNCHANGED program
  PROVE  /\ Leaves' = Leaves /\ GraphExprs' = GraphExprs /\ Regs' = Regs /\ Reach' = Reach
         /\ \A b \in Block : Preds(b)' = Preds(b) /\ IsJoin(b)' = IsJoin(b) /\ Stores(b)' = Stores(b)
         /\ \A b, c \in Block : Dominates(c, b)' = Dominates(c, b)
<1>1. succ' = succ /\ code' = code
  BY DEF program
<1>2. \A b : Preds(b)' = Preds(b)
  BY <1>1 DEF Preds
<1>3. \A b : IsJoin(b)' = IsJoin(b)
  BY <1>2 DEF IsJoin
<1>4. Leaves' = Leaves
  BY <1>3 DEF Leaves
<1>5. GraphExprs' = GraphExprs
  BY <1>4 DEF GraphExprs
<1>6. Regs' = Regs /\ Envs' = Envs
  BY <1>5 DEF Regs, Envs
<1>7. Configs' = Configs
  BY <1>6 DEF Configs
<1>8. \A b, r : After(b, r)' = After(b, r)
  BY <1>1 DEF After
<1>9. \A s, r, e : Arrived(s, r, e)' = Arrived(s, r, e)
  BY <1>3 DEF Arrived
<1>10. \A c, s : Followed(c, s)' = Followed(c, s)
  BY <1>8, <1>9 DEF Followed
<1>11. \A Q : ClosedConfigs(Q)' = ClosedConfigs(Q)
  BY <1>1, <1>7, <1>10 DEF ClosedConfigs, Begin
<1>12. Reach' = Reach
  BY <1>7, <1>11 DEF Reach
<1>13. \A b, c \in Block : Dominates(c, b)' = Dominates(c, b)
  BY <1>1 DEF Dominates
<1>14. \A b : Stores(b)' = Stores(b)
  BY <1>1 DEF Stores
<1> QED
  BY <1>2, <1>3, <1>4, <1>5, <1>6, <1>12, <1>13, <1>14

(* A round of `simplify_phis` keeps the graph typed, in scope and true.       *)
LEMMA SimplifyGraph ==
  ASSUME GraphTyped, LeavesDominate, GraphTells, Simplify
  PROVE  GraphTyped' /\ LeavesDominate' /\ GraphTells'
<1>0. /\ exits' = [b \in Block |-> [r \in Reg |-> Rewritten(exits[b][r])]]
      /\ event' = [b \in Block |-> Rewritten(event[b])]
      /\ params' = params \ Trivial
      /\ UNCHANGED program /\ succ' = succ /\ code' = code
  BY DEF Simplify, program
<1>1. /\ succ \in Graphs /\ code \in [Block -> Instr]
      /\ exits \in [Block -> Regs] /\ event \in [Block -> GraphExprs]
      /\ params \subseteq {l \in Leaves : IsParam(l)}
  BY DEF GraphTyped
<1>2. /\ Leaves' = Leaves /\ GraphExprs' = GraphExprs /\ Regs' = Regs /\ Reach' = Reach
      /\ \A b \in Block : Stores(b)' = Stores(b)
      /\ \A b, c \in Block : Dominates(c, b)' = Dominates(c, b)
  BY <1>0, SameProgram
<1>3. ASSUME NEW b \in Block, NEW r \in Reg
      PROVE  /\ exits'[b][r] \in GraphExprs
             /\ IsParam(exits'[b][r].leaf) => Dominates(exits'[b][r].leaf[2], b)
             /\ \A f \in Reach : f[1] = b => Env(f[3], exits'[b][r]) = Env(f[3], exits[b][r])
  <2>1. exits[b][r] \in GraphExprs /\ exits[b][r].leaf \in Mentioned(b)
    BY <1>1, ExitsMentioned DEF Regs
  <2>2. exits'[b][r] = Rewritten(exits[b][r])
    BY <1>0
  <2> QED
    BY <2>1, <2>2, RewrittenFacts
<1>4. ASSUME NEW b \in Block
      PROVE  /\ event'[b] \in GraphExprs
             /\ IsParam(event'[b].leaf) => Dominates(event'[b].leaf[2], b)
             /\ \A f \in Reach : f[1] = b => Env(f[3], event'[b]) = Env(f[3], event[b])
  <2>1. event[b] \in GraphExprs /\ event[b].leaf \in Mentioned(b)
    BY <1>1, ExitsMentioned
  <2>2. event'[b] = Rewritten(event[b])
    BY <1>0
  <2> QED
    BY <2>1, <2>2, RewrittenFacts
<1>5. GraphTyped'
  <2>1. exits' \in [Block -> Regs]
    BY <1>0, <1>3 DEF Regs
  <2>2. event' \in [Block -> GraphExprs]
    BY <1>0, <1>4
  <2> QED
    BY <1>0, <1>1, <1>2, <2>1, <2>2 DEF GraphTyped, IsParam
<1>6. LeavesDominate'
  <2>1. ASSUME NEW b \in Block, NEW l \in Mentioned(b)', l[1] = "param" PROVE Dominates(l[2], b)'
    <3>1. l = event'[b].leaf \/ \E r \in Reg : l = exits'[b][r].leaf
      BY DEF Mentioned
    <3>2. Dominates(l[2], b)
      BY <1>3, <1>4, <2>1, <3>1 DEF IsParam
    <3> QED
      BY <1>0, <3>2 DEF Dominates
  <2> QED
    BY <2>1 DEF LeavesDominate
<1>7. GraphTells'
  <2>1. ASSUME NEW f \in Reach PROVE TellsAt(f)'
    <3>1. f[1] \in Block
      BY DEF Reach, Configs
    <3>2. TellsAt(f)
      BY DEF GraphTells
    <3>3. \A r \in Reg : After(f[1], f[2])'[r] = Env(f[3], exits'[f[1]][r])
      <4>1. After(f[1], f[2])' = After(f[1], f[2])
        BY <1>0 DEF After
      <4> QED
        BY <1>3, <3>1, <3>2, <4>1 DEF TellsAt
    <3>4. Stores(f[1]) => f[2][code[f[1]].dst] = Env(f[3], event'[f[1]])
      BY <1>4, <3>1, <3>2 DEF TellsAt
    <3> QED
      BY <1>0, <1>2, <3>1, <3>3, <3>4 DEF TellsAt, Env
  <2> QED
    BY <1>2, <2>1 DEF GraphTells
<1> QED
  BY <1>5, <1>6, <1>7

-----------------------------------------------------------------------------
(* What blocks read                                                           *)

\* A register of the emitted program may also be nobody's.
Held == [leaf : Leaves \cup {<<"junk", Entry, 0>>}, n : 0..Size-1]

RunTyped ==
    /\ live \in [Block -> SUBSET Reg] /\ phase \in {"simplify", "prune", "run"}
    /\ at \in Block /\ guest \in Regs /\ machine \in [Reg -> Held]

(* A home is a register all predecessors leave the entry's value in.          *)
LEMMA ReadOfFacts ==
  ASSUME GraphTyped, NEW b \in Block, NEW q \in Reg
  PROVE  /\ ReadOf(b, q) \in Reg
         /\ HasHome(b, q) => \A p \in Preds(b) : exits[p][ReadOf(b, q)] = Expr(InitReg(q), 0)
         /\ ~HasHome(b, q) => ReadOf(b, q) = q
<1>1. ASSUME NEW p, HomesIn(p, q) # {}
      PROVE  HomeIn(p, q) \in Reg /\ exits[p][HomeIn(p, q)] = Expr(InitReg(q), 0)
  <2>1. HomesIn(p, q) \in SUBSET Reg
    BY DEF HomesIn
  <2>2. HomeIn(p, q) \in HomesIn(p, q)
    BY <1>1, <2>1, FirstIsOne DEF HomeIn
  <2> QED
    BY <2>1, <2>2 DEF HomesIn
<1>2. CASE ~HasHome(b, q)
  BY <1>2 DEF ReadOf
<1>3. CASE HasHome(b, q)
  <2>1. PICK x \in Preds(b) : x = CHOOSE p \in Preds(b) : TRUE
    BY <1>3 DEF HasHome
  <2>2. ReadOf(b, q) = HomeIn(x, q)
    BY <1>3, <2>1 DEF ReadOf
  <2>3. \A p \in Preds(b) : HomesIn(p, q) # {} /\ HomeIn(p, q) = HomeIn(x, q)
    BY <1>3 DEF HasHome
  <2> QED
    BY <1>1, <1>3, <2>1, <2>2, <2>3
<1> QED
  BY <1>2, <1>3

(* An expression over a leaf that is no constant reads one register.          *)
LEMMA ReadsFacts ==
  ASSUME GraphTyped, NEW b \in Block, NEW e \in GraphExprs
  PROVE  /\ Reads(b, e) \subseteq Reg
         /\ e.leaf[1] # "const" => e.leaf[3] \in Reg /\ Reads(b, e) = {ReadOf(b, e.leaf[3])}
<1>1. e.leaf \in Leaves
  BY LeafExprs
<1>2. e.leaf[1] # "const" => e.leaf[3] \in Reg
  BY <1>1, LeafKinds
<1> QED
  BY <1>2, ReadOfFacts DEF Reads

(* Liveness speaks of registers, and contains what is read.                   *)
LEMMA LiveInFacts ==
  ASSUME GraphTyped, NEW b \in Block, live \in [Block -> SUBSET Reg]
  PROVE  /\ LiveOut(b) \subseteq Reg /\ LiveIn(b) \subseteq Reg
         /\ Stores(b) => Reads(b, event[b]) \subseteq LiveIn(b)
         /\ \A r \in LiveOut(b) : ~RestoredAnyway(b, r) => Reads(b, exits[b][r]) \subseteq LiveIn(b)
<1>0. /\ exits[b] \in Regs /\ event[b] \in GraphExprs
      /\ params \subseteq {l \in Leaves : IsParam(l)}
      /\ succ[b] \subseteq Block
  BY EntryFacts DEF GraphTyped
<1>1. \A r \in Reg : Reads(b, exits[b][r]) \subseteq Reg
  BY <1>0, ReadsFacts DEF Regs
<1>2. Reads(b, event[b]) \subseteq Reg
  BY <1>0, ReadsFacts
<1>3. LiveOut(b) \subseteq Reg
  <2>1. \A s \in succ[b] : live[s] \subseteq Reg
    BY <1>0
  <2> QED
    BY <2>1 DEF LiveOut
<1>4. \A l \in params : l[3] \in Reg
  BY <1>0, LeafKinds DEF IsParam
<1>5. BodyReads(b) \subseteq Reg
  BY <1>1, <1>2 DEF BodyReads
<1>6. LiveIn(b) \subseteq Reg
  <2>1. UNION {Reads(b, exits[b][r]) : r \in {x \in LiveOut(b) : ~RestoredAnyway(b, x)}} \subseteq Reg
    BY <1>1, <1>3
  <2>2. {l[3] : l \in {x \in params : x[2] = b}} \subseteq Reg
    BY <1>4
  <2> QED
    BY <1>5, <2>1, <2>2 DEF LiveIn
<1>7. Stores(b) => Reads(b, event[b]) \subseteq LiveIn(b)
  BY DEF LiveIn, BodyReads
<1>8. \A r \in LiveOut(b) : ~RestoredAnyway(b, r) => Reads(b, exits[b][r]) \subseteq LiveIn(b)
  BY <1>3 DEF LiveIn
<1> QED
  BY <1>3, <1>6, <1>7, <1>8

(* A computed value is a register's, added to, or a constant.                 *)
LEMMA ValueFacts ==
  ASSUME GraphTyped, RunTyped, NEW b \in Block, NEW e \in GraphExprs
  PROVE  /\ Value(b, e) \in Held
         /\ (\A r \in Reads(b, e) : machine[r].leaf # Junk.leaf) => Value(b, e).leaf # Junk.leaf
<1>0. machine \in [Reg -> Held]
  BY DEF RunTyped
<1>1. e \in Held /\ e.leaf \in Leaves /\ e.n \in Nat
  BY LeafExprs DEF GraphExprs, Held
<1>2. Junk.leaf = <<"junk", Entry, 0>>
  BY DEF Junk, Expr
<1>3. CASE e.leaf[1] = "const"
  <2>1. Value(b, e) = e
    BY <1>3 DEF Value
  <2>2. e.leaf # Junk.leaf
    BY <1>2, <1>3
  <2> QED
    BY <1>1, <2>1, <2>2
<1>4. CASE e.leaf[1] # "const"
  <2>1. PICK x \in Reg : x = ReadOf(b, e.leaf[3]) /\ x \in Reads(b, e)
    BY <1>4, ReadsFacts
  <2>2. Value(b, e) = Plus(machine[x], e.n)
    BY <1>4, <2>1 DEF Value
  <2>3. machine[x] \in Held
    BY <1>0
  <2>4. Plus(machine[x], e.n) \in Held /\ Plus(machine[x], e.n).leaf = machine[x].leaf
    <3>1. ASSUME NEW m \in Held, NEW k \in Nat PROVE Plus(m, k) \in Held /\ Plus(m, k).leaf = m.leaf
      BY PlusTyped DEF Held
    <3> QED
      BY <1>1, <2>3, <3>1
  <2> QED
    BY <2>1, <2>2, <2>4
<1> QED
  BY <1>3, <1>4

-----------------------------------------------------------------------------
(* The two programs side by side                                              *)

\* Liveness is settled.
Fixpoint == \A b \in Block : live[b] = LiveIn(b)

\* Nothing that is read was left to the allocator.
Kept == \A r \in live[at] : machine[r].leaf # Junk.leaf

\* Every leaf the block mentions is in the guest register it is read from.
Finds(env) ==
    \A l \in Mentioned(at) : l[1] # "const" => guest[ReadOf(at, l[3])] = Env(env, Expr(l, 0))

\* The guest is in a configuration it can reach, and the emitted program holds
\* what is read.
Beside ==
    \E env \in Envs : /\ <<at, guest, env>> \in Reach
                      /\ Placed => Finds(env) /\ \A r \in live[at] : machine[r] = guest[r]

\* Until it runs, nothing has moved.
Waiting == at = Entry /\ guest = Start /\ machine = Start

\* The inductive invariant.
IInv == /\ GraphTyped /\ RunTyped /\ LeavesDominate /\ GraphTells
        /\ phase # "run" => Waiting
        /\ phase = "run" => Fixpoint /\ Kept /\ Beside

(* Beside the guest, what a block computes is what the graph says.            *)
LEMMA ValueTells ==
  ASSUME GraphTyped, RunTyped, NEW env \in Envs, Finds(env),
         \A r \in live[at] : machine[r] = guest[r],
         NEW e \in GraphExprs, e.leaf \in Mentioned(at), Reads(at, e) \subseteq live[at]
  PROVE  Value(at, e) = Env(env, e)
<1>0. e.leaf \in Leaves /\ at \in Block
  BY LeafExprs DEF RunTyped
<1>1. CASE e.leaf[1] = "const"
  BY <1>1 DEF Value, Env, IsParam
<1>2. CASE e.leaf[1] # "const"
  <2>1. PICK x \in Reg : x = ReadOf(at, e.leaf[3]) /\ x \in live[at]
    BY <1>0, <1>2, ReadsFacts
  <2>2. Value(at, e) = Plus(machine[x], e.n)
    BY <1>2, <2>1 DEF Value
  <2>3. machine[x] = Env(env, Expr(e.leaf, 0))
    BY <1>2, <2>1 DEF Finds
  <2> QED
    BY <2>2, <2>3, EnvOfLeaf
<1> QED
  BY <1>1, <1>2

(* So both programs store and return the same.                                *)
LEMMA InvAgrees ==
  ASSUME IInv
  PROVE  EmittedAgrees
<1> SUFFICES ASSUME phase = "run", Placed PROVE SameOutput(at)
  BY DEF EmittedAgrees
<1>0. GraphTyped /\ RunTyped /\ at \in Block /\ live \in [Block -> SUBSET Reg] /\ live[at] = LiveIn(at)
  BY DEF IInv, RunTyped, Fixpoint
<1>1. PICK env \in Envs : /\ <<at, guest, env>> \in Reach
                          /\ Finds(env) /\ \A r \in live[at] : machine[r] = guest[r]
  BY DEF IInv, Beside
<1>2. TellsAt(<<at, guest, env>>)
  BY <1>1 DEF IInv, GraphTells
<1>3. /\ \A r \in Reg : After(at, guest)[r] = Env(env, exits[at][r])
      /\ Stores(at) => guest[code[at].dst] = Env(env, event[at])
  BY <1>2 DEF TellsAt
<1>4. event[at] \in GraphExprs /\ \A r \in Reg : exits[at][r] \in GraphExprs
  BY <1>0 DEF GraphTyped, Regs
<1>5. Stores(at) => Value(at, event[at]) = guest[code[at].dst]
  <2> SUFFICES ASSUME Stores(at) PROVE Value(at, event[at]) = guest[code[at].dst]
    OBVIOUS
  <2>1. Reads(at, event[at]) \subseteq live[at]
    BY <1>0, LiveInFacts
  <2>2. Value(at, event[at]) = Env(env, event[at])
    BY <1>0, <1>1, <1>4, <2>1, ExitsMentioned, ValueTells
  <2> QED
    BY <1>3, <2>2
<1>6. ASSUME Returns(at), NEW r \in Reg \ Restored PROVE Value(at, exits[at][r]) = After(at, guest)[r]
  <2>1. r \in LiveOut(at) /\ ~RestoredAnyway(at, r)
    BY <1>6 DEF LiveOut, RestoredAnyway
  <2>2. Reads(at, exits[at][r]) \subseteq live[at]
    BY <1>0, <2>1, LiveInFacts
  <2>3. Value(at, exits[at][r]) = Env(env, exits[at][r])
    BY <1>0, <1>1, <1>4, <2>2, ExitsMentioned, ValueTells
  <2> QED
    BY <1>3, <2>3
<1> QED
  BY <1>5, <1>6 DEF SameOutput

(* And nothing either reads is junk.                                          *)
LEMMA InvNoJunk ==
  ASSUME IInv
  PROVE  NothingReadIsJunk
<1> SUFFICES ASSUME phase = "run"
             PROVE  /\ Stores(at) => Value(at, event[at]).leaf # Junk.leaf
                    /\ \A r \in LiveOut(at) :
                          ~RestoredAnyway(at, r) => Value(at, exits[at][r]).leaf # Junk.leaf
  BY DEF NothingReadIsJunk
<1>0. GraphTyped /\ RunTyped /\ at \in Block /\ live \in [Block -> SUBSET Reg] /\ live[at] = LiveIn(at)
  BY DEF IInv, RunTyped, Fixpoint
<1>1. \A r \in LiveIn(at) : machine[r].leaf # Junk.leaf
  BY <1>0 DEF IInv, Kept
<1>2. event[at] \in GraphExprs /\ \A r \in Reg : exits[at][r] \in GraphExprs
  BY <1>0 DEF GraphTyped, Regs
<1>3. Stores(at) => Value(at, event[at]).leaf # Junk.leaf
  BY <1>0, <1>1, <1>2, LiveInFacts, ValueFacts
<1>4. ASSUME NEW r \in LiveOut(at), ~RestoredAnyway(at, r)
      PROVE  Value(at, exits[at][r]).leaf # Junk.leaf
  <2>1. r \in Reg /\ Reads(at, exits[at][r]) \subseteq LiveIn(at)
    BY <1>0, <1>4, LiveInFacts
  <2> QED
    BY <1>0, <1>1, <1>2, <2>1, ValueFacts
<1> QED
  BY <1>3, <1>4

-----------------------------------------------------------------------------
(* The invariant is inductive                                                 *)

(* At the entry nothing has moved yet: every entry value is in its register.  *)
LEMMA EntryBeside == GraphTyped /\ RunTyped /\ LeavesDominate /\ Waiting => Kept /\ Beside
<1> SUFFICES ASSUME GraphTyped, RunTyped, LeavesDominate, Waiting PROVE Kept /\ Beside
  OBVIOUS
<1> DEFINE env == [l \in AllParams |-> NoEvent]
<1>0. succ \in Graphs /\ code \in [Block -> Instr] /\ Entry \in Block /\ Preds(Entry) = {}
  BY EntryFacts DEF GraphTyped
<1>1. Begin \in Reach /\ Begin \in Configs /\ Begin = <<Entry, Start, env>>
  BY <1>0, ReachClosed, BeginTyped DEF ClosedConfigs, Begin
<1>2. env \in Envs
  BY <1>1 DEF Configs
<1>3. \A q \in Reg : InitReg(q) \in Leaves /\ ~IsParam(InitReg(q)) /\ InitReg(q)[1] = "init"
  BY DEF Leaves, InitReg, IsParam
<1>4. \A q \in Reg : Start[q] = Expr(InitReg(q), 0) /\ Start[q].leaf = InitReg(q)
  BY <1>3, LeafExprs DEF Start
<1>5. Kept
  <2>1. Junk.leaf[1] = "junk"
    BY DEF Junk, Expr
  <2>2. \A r \in live[at] : r \in Reg
    BY <1>0 DEF Waiting, RunTyped
  <2> QED
    BY <1>3, <1>4, <2>1, <2>2 DEF Kept, Waiting
<1>6. Finds(env)
  <2> SUFFICES ASSUME NEW l \in Mentioned(Entry), l[1] # "const"
               PROVE  Start[ReadOf(Entry, l[3])] = Env(env, Expr(l, 0))
    BY DEF Finds, Waiting
  <2>1. l \in Leaves
    BY <1>0, LeafExprs DEF Mentioned, GraphTyped, Regs
  <2>2. ~IsParam(l)
    <3> SUFFICES ASSUME IsParam(l) PROVE FALSE
      OBVIOUS
    <3>1. PICK c \in Block : IsJoin(c) /\ l[2] = c
      BY <2>1, LeafKinds DEF IsParam
    <3>2. Dominates(c, Entry)
      BY <1>0, <3>1 DEF LeavesDominate, IsParam
    <3>3. c # Entry
      BY <1>0, <3>1, EntryFacts
    <3> QED
      BY <1>0, <3>2, <3>3, AroundFacts
  <2>3. PICK q \in Reg : l = InitReg(q) /\ l[3] = q
    BY <2>1, <2>2, LeafKinds DEF IsParam
  <2>4. ReadOf(Entry, q) = q
    BY <1>0 DEF ReadOf, HasHome
  <2>5. Env(env, Expr(l, 0)) = Expr(l, 0)
    BY <1>2, <2>1, <2>2, EnvLeaf
  <2> QED
    BY <1>4, <2>3, <2>4, <2>5
<1>7. Beside
  <2>1. <<at, guest, env>> \in Reach
    BY <1>1 DEF Waiting
  <2> HIDE DEF env
  <2> QED
    BY <1>2, <1>6, <2>1 DEF Beside, Waiting
<1> QED
  BY <1>5, <1>7

(* Recovery establishes the invariant.                                        *)
LEMMA InitIInv == Init => IInv
<1> SUFFICES ASSUME Init PROVE IInv
  OBVIOUS
<1>1. GraphTyped /\ LeavesDominate /\ GraphTells
  BY InitGraph
<1>2. /\ live = [b \in Block |-> {}] /\ phase = "simplify" /\ at = Entry
      /\ guest = Start /\ machine = Start
  BY DEF Init, Start
<1>3. Start \in Regs /\ Start \in [Reg -> Held]
  BY StartTyped DEF Regs, GraphExprs, Held
<1>4. RunTyped
  BY <1>2, <1>3, BlockAssumption DEF RunTyped
<1> QED
  BY <1>1, <1>2, <1>4 DEF IInv, Waiting

(* The graph stays as it is when only parameters are dropped.                 *)
LEMMA GraphStays ==
  ASSUME GraphTyped, LeavesDominate, GraphTells, UNCHANGED <<program, exits, event>>, params' \subseteq params
  PROVE  GraphTyped' /\ LeavesDominate' /\ GraphTells'
<1>0. /\ succ' = succ /\ code' = code /\ exits' = exits /\ event' = event
      /\ UNCHANGED program
  BY DEF program
<1>1. /\ Leaves' = Leaves /\ GraphExprs' = GraphExprs /\ Regs' = Regs /\ Reach' = Reach
      /\ \A b, c \in Block : Dominates(c, b)' = Dominates(c, b)
  BY <1>0, SameProgram
<1>2. GraphTyped'
  BY <1>0, <1>1 DEF GraphTyped, IsParam
<1>3. LeavesDominate'
  BY <1>0 DEF LeavesDominate, Mentioned, Dominates
<1>4. GraphTells'
  <2>1. \A f : TellsAt(f)' = TellsAt(f)
    BY <1>0 DEF TellsAt, After, Stores, Env
  <2> QED
    BY <1>1, <2>1 DEF GraphTells
<1> QED
  BY <1>2, <1>3, <1>4

(* Liveness is a matter of the graph.                                         *)
LEMMA SameLiveIn ==
  ASSUME UNCHANGED <<program, exits, event, params, live>>
  PROVE  /\ \A b : LiveIn(b)' = LiveIn(b) /\ LiveOut(b)' = LiveOut(b) /\ Mentioned(b)' = Mentioned(b)
         /\ \A b, q : ReadOf(b, q)' = ReadOf(b, q)
         /\ Placed' = Placed
<1>1. /\ succ' = succ /\ code' = code /\ exits' = exits /\ event' = event /\ params' = params /\ live' = live
  BY DEF program
<1>2. \A b : Preds(b)' = Preds(b)
  BY <1>1 DEF Preds
<1>3. \A p, q : HomeIn(p, q)' = HomeIn(p, q) /\ HomesIn(p, q)' = HomesIn(p, q)
  BY <1>1 DEF HomeIn, HomesIn
<1>4. \A b, q : HasHome(b, q)' = HasHome(b, q)
  BY <1>2, <1>3 DEF HasHome
<1>5. \A b, q : ReadOf(b, q)' = ReadOf(b, q)
  BY <1>1 DEF ReadOf, HasHome, HomeIn, HomesIn, Preds
<1>6. \A b, e : Reads(b, e)' = Reads(b, e)
  BY <1>5 DEF Reads
<1>7. \A b : LiveOut(b)' = LiveOut(b) /\ Returns(b)' = Returns(b) /\ Stores(b)' = Stores(b)
  BY <1>1 DEF LiveOut, Returns, Stores
<1>8. \A b, r : RestoredAnyway(b, r)' = RestoredAnyway(b, r)
  BY <1>1, <1>6, <1>7 DEF RestoredAnyway
<1>9. \A b : BodyReads(b)' = BodyReads(b)
  BY <1>1, <1>6, <1>7 DEF BodyReads
<1>10. \A b : LiveIn(b)' = LiveIn(b)
  BY <1>1, <1>6, <1>7, <1>8, <1>9 DEF LiveIn
<1>11. \A b : Mentioned(b)' = Mentioned(b)
  BY <1>1 DEF Mentioned
<1>12. \A b, l : Available(b, l)' = Available(b, l)
  BY <1>1, <1>2, <1>4, <1>5 DEF Available
<1>13. Placed' = Placed
  BY <1>11, <1>12 DEF Placed
<1> QED
  BY <1>5, <1>7, <1>10, <1>11, <1>13

(* While the program waits, typing is kept.                                   *)
LEMMA WaitingStays ==
  ASSUME RunTyped, Waiting, UNCHANGED <<program, at, guest, machine>>,
         live' \in [Block -> SUBSET Reg], phase' \in {"simplify", "prune", "run"}
  PROVE  RunTyped' /\ Waiting'
<1>1. Leaves' = Leaves /\ Regs' = Regs
  BY SameProgram
<1>2. Held' = Held
  BY <1>1 DEF Held
<1> QED
  BY <1>1, <1>2 DEF RunTyped, Waiting

(* Simplifying keeps the invariant.                                           *)
LEMMA SimplifyKeeps ==
  ASSUME IInv, Simplify
  PROVE  IInv'
<1>1. GraphTyped' /\ LeavesDominate' /\ GraphTells'
  BY SimplifyGraph DEF IInv
<1>2. RunTyped' /\ Waiting' /\ phase' # "run"
  BY WaitingStays DEF IInv, Simplify, RunTyped
<1> QED
  BY <1>1, <1>2 DEF IInv

(* So does dropping parameters nobody mentions.                               *)
LEMMA RemoveKeeps ==
  ASSUME IInv, RemoveDeadParams
  PROVE  IInv'
<1>1. GraphTyped' /\ LeavesDominate' /\ GraphTells'
  BY GraphStays DEF IInv, RemoveDeadParams
<1>2. RunTyped' /\ Waiting' /\ phase' # "run"
  BY WaitingStays DEF IInv, RemoveDeadParams, RunTyped
<1> QED
  BY <1>1, <1>2 DEF IInv

(* A round of liveness keeps it, and the last one starts the program.         *)
LEMMA PruneKeeps ==
  ASSUME IInv, PruneRound
  PROVE  IInv'
<1>0. /\ UNCHANGED <<program, exits, event, params, at, guest, machine>>
      /\ phase = "prune" /\ live' = [b \in Block |-> LiveIn(b)]
      /\ phase' = IF live' = live THEN "run" ELSE "prune"
  BY DEF PruneRound, cfg
<1>1. GraphTyped' /\ LeavesDominate' /\ GraphTells'
  BY <1>0, GraphStays DEF IInv
<1>2. live' \in [Block -> SUBSET Reg]
  BY <1>0, LiveInFacts DEF IInv, RunTyped
<1>3. RunTyped' /\ Waiting'
  BY <1>0, <1>2, WaitingStays DEF IInv
<1>4. CASE live' = live
  <2>1. \A b : LiveIn(b)' = LiveIn(b)
    BY <1>0, <1>4, SameLiveIn
  <2>2. Fixpoint'
    BY <1>0, <2>1 DEF Fixpoint
  <2>3. (GraphTyped /\ RunTyped /\ LeavesDominate /\ Waiting)' => (Kept /\ Beside)'
    BY EntryBeside, PTL
  <2> QED
    BY <1>1, <1>3, <2>2, <2>3 DEF IInv
<1>5. CASE live' # live
  BY <1>0, <1>1, <1>3, <1>5 DEF IInv
<1> QED
  BY <1>4, <1>5

(* Arriving at a block, every leaf it mentions is in the guest register it    *)
(* will read: its own parameter, or what all predecessors left there.         *)
LEMMA ArrivalFinds ==
  ASSUME GraphTyped, at \in Block, NEW s \in succ[at], Placed, NEW env \in Envs, <<at, guest, env>> \in Reach,
         TellsAt(<<at, guest, env>>), NEW l \in Mentioned(s), l[1] # "const"
  PROVE  After(at, guest)[ReadOf(s, l[3])] = Env(Arrived(s, After(at, guest), env), Expr(l, 0))
<1> DEFINE regs == After(at, guest)
           new  == Arrived(s, regs, env)
<1>0. /\ succ \in Graphs /\ code \in [Block -> Instr] /\ exits \in [Block -> Regs]
      /\ s \in Block /\ s # Entry /\ at \in Preds(s)
  BY EntryFacts DEF GraphTyped, Preds
<1>1. guest \in Regs /\ regs \in Regs
  BY <1>0, AfterTyped DEF Reach, Configs
<1>2. new \in Envs
  <2>1. Followed(<<at, guest, env>>, s) \in Configs
    BY <1>0, FollowedTyped DEF Reach
  <2> QED
    BY <2>1 DEF Followed, Configs
<1>3. \A r \in Reg : regs[r] = Env(env, exits[at][r])
  BY DEF TellsAt
<1>4. l \in Leaves /\ Available(s, l)
  BY <1>0, LeafExprs DEF Placed, Mentioned, GraphTyped, Regs
<1>5. CASE l[1] = "init"
  <2>1. PICK q \in Reg : l = InitReg(q) /\ l[3] = q
    BY <1>4, <1>5, LeafKinds
  <2>2. HasHome(s, q)
    BY <1>0, <1>4, <1>5, <2>1 DEF Available
  <2>3. PICK h \in Reg : h = ReadOf(s, q) /\ exits[at][h] = Expr(InitReg(q), 0)
    BY <1>0, <2>2, ReadOfFacts
  <2>4. ~IsParam(l)
    BY <1>5 DEF IsParam
  <2>5. Env(env, Expr(l, 0)) = Expr(l, 0) /\ Env(new, Expr(l, 0)) = Expr(l, 0)
    BY <1>2, <1>4, <2>4, EnvLeaf
  <2> QED
    BY <1>3, <2>1, <2>3, <2>5
<1>6. CASE l[1] # "init"
  <2>1. PICK c \in Block, q \in Reg : /\ IsJoin(c) /\ l = Param(c, q) /\ l[1] = "param" /\ l[2] = c /\ l[3] = q
                                      /\ l \in AllParams
    BY <1>4, <1>6, LeafKinds
  <2>2. IsParam(l)
    BY <2>1 DEF IsParam
  <2>3. Env(env, Expr(l, 0)) = env[l] /\ Env(new, Expr(l, 0)) = new[l]
    BY <1>2, <1>4, <2>2, EnvLeaf
  <2>4. ReadOf(s, q) = q /\ (c = s \/ \A p \in Preds(s) : exits[p][q] = Expr(l, 0))
    BY <1>4, <2>1 DEF Available
  <2>5. CASE c = s
    <3>1. new[l] = regs[q]
      BY <2>1, <2>5 DEF Arrived
    <3> QED
      BY <2>1, <2>3, <2>4, <3>1
  <2>6. CASE c # s
    <3>1. new[l] = env[l]
      BY <2>1, <2>6 DEF Arrived
    <3>2. exits[at][q] = Expr(l, 0)
      BY <1>0, <2>4, <2>6
    <3> QED
      BY <1>3, <2>1, <2>3, <2>4, <3>1, <3>2
  <2> QED
    BY <2>5, <2>6
<1> QED
  BY <1>5, <1>6

(* A block's exits arrive, for every register its successor reads.            *)
LEMMA ExitsArrive ==
  ASSUME GraphTyped, RunTyped, Fixpoint, NEW s \in succ[at], NEW r \in live[s]
  PROVE  /\ r \in Reg /\ r \in LiveOut(at) /\ ~RestoredAnyway(at, r)
         /\ Reads(at, exits[at][r]) \subseteq live[at]
<1>0. at \in Block /\ live \in [Block -> SUBSET Reg] /\ s \in Block
  BY EntryFacts DEF RunTyped, GraphTyped
<1>1. ~Returns(at)
  BY DEF Returns
<1>2. r \in LiveOut(at) /\ ~RestoredAnyway(at, r)
  BY <1>1 DEF LiveOut, RestoredAnyway
<1> QED
  BY <1>0, <1>2, LiveInFacts DEF Fixpoint

(* One block of each program.                                                 *)
LEMMA RunKeeps ==
  ASSUME IInv, NEW s \in Block, Run(s)
  PROVE  IInv'
<1>0. /\ UNCHANGED <<program, exits, event, params, live>>
      /\ phase = "run" /\ phase' = "run" /\ s \in succ[at] /\ at' = s
      /\ guest' = After(at, guest)
      /\ machine' = [r \in Reg |-> IF r \in LiveOut(at) THEN Value(at, exits[at][r]) ELSE Junk]
      /\ live' = live
  BY DEF Run, cfg
<1>1. GraphTyped' /\ LeavesDominate' /\ GraphTells'
  BY <1>0, GraphStays DEF IInv
<1>2. /\ GraphTyped /\ RunTyped /\ Fixpoint /\ Kept /\ Beside /\ GraphTells
      /\ at \in Block /\ live \in [Block -> SUBSET Reg] /\ guest \in Regs
      /\ succ \in Graphs /\ code \in [Block -> Instr] /\ exits \in [Block -> Regs]
  BY <1>0 DEF IInv, RunTyped, GraphTyped
<1>3. Leaves' = Leaves /\ Regs' = Regs /\ Reach' = Reach
  BY <1>0, SameProgram
<1>4. Held' = Held /\ Envs' = Envs
  BY <1>0, <1>3, SameProgram DEF Held, Envs
<1>5. RunTyped'
  <2>1. Junk \in Held
    <3>1. Size \in Nat /\ Size # 0
      BY BlockAssumption
    <3>2. 0 % Size \in 0..Size-1
      BY <3>1, ModSplit
    <3> QED
      BY <3>2 DEF Junk, Held, Expr
  <2>2. \A r \in Reg : Value(at, exits[at][r]) \in Held
    BY <1>2, ValueFacts DEF Regs
  <2>3. machine' \in [Reg -> Held]
    BY <1>0, <2>1, <2>2
  <2>4. guest' \in Regs
    BY <1>0, <1>2, AfterTyped
  <2> QED
    BY <1>0, <1>2, <1>3, <1>4, <2>3, <2>4 DEF RunTyped
<1>6. Fixpoint'
  <2>1. \A b : LiveIn(b)' = LiveIn(b)
    BY <1>0, SameLiveIn
  <2> QED
    BY <1>0, <1>2, <2>1 DEF Fixpoint
<1>7. \A r \in live[s] : /\ r \in Reg /\ r \in LiveOut(at) /\ ~RestoredAnyway(at, r)
                         /\ Reads(at, exits[at][r]) \subseteq live[at]
                         /\ machine'[r] = Value(at, exits[at][r])
  <2>1. ASSUME NEW r \in live[s]
        PROVE  /\ r \in Reg /\ r \in LiveOut(at) /\ ~RestoredAnyway(at, r)
               /\ Reads(at, exits[at][r]) \subseteq live[at]
    BY <1>0, <1>2, ExitsArrive
  <2> QED
    BY <1>0, <2>1
<1>8. Kept'
  <2>1. \A r \in live[s] : Value(at, exits[at][r]).leaf # Junk.leaf
    BY <1>0, <1>7, InvNoJunk DEF NothingReadIsJunk
  <2> QED
    BY <1>0, <1>7, <2>1 DEF Kept, Junk, Expr
<1>9. Beside'
  <2>1. PICK env \in Envs : /\ <<at, guest, env>> \in Reach
                            /\ Placed => Finds(env) /\ \A r \in live[at] : machine[r] = guest[r]
    BY <1>2 DEF Beside
  <2>a. PICK new : new = Arrived(s, After(at, guest), env)
    OBVIOUS
  <2>2. <<s, guest', new>> \in Reach
    <3>1. Followed(<<at, guest, env>>, s) = <<s, guest', new>>
      BY <1>0, <2>a DEF Followed
    <3>2. ClosedConfigs(Reach)
      BY <1>2, ReachClosed
    <3>3. Followed(<<at, guest, env>>, s) \in Reach
      BY <1>0, <2>1, <3>2 DEF ClosedConfigs
    <3> QED
      BY <3>1, <3>3
  <2>3. new \in Envs
    BY <2>2 DEF Reach, Configs
  <2>4. TellsAt(<<at, guest, env>>)
    BY <1>2, <2>1 DEF GraphTells
  <2>5. /\ \A b, q : ReadOf(b, q)' = ReadOf(b, q)
        /\ Placed' = Placed /\ Mentioned(s)' = Mentioned(s)
    BY <1>0, SameLiveIn
  <2>6. ASSUME Placed, NEW l \in Mentioned(s), l[1] # "const"
        PROVE  guest'[ReadOf(s, l[3])] = Env(new, Expr(l, 0))
    BY <1>0, <1>2, <2>1, <2>4, <2>6, <2>a, ArrivalFinds
  <2>7. ASSUME Placed, NEW r \in live[s] PROVE machine'[r] = guest'[r]
    <3>1. Value(at, exits[at][r]) = Env(env, exits[at][r])
      <4>1. exits[at][r] \in GraphExprs /\ exits[at][r].leaf \in Mentioned(at)
        BY <1>2, <1>7, <2>7, ExitsMentioned DEF Regs
      <4>2. Finds(env) /\ \A x \in live[at] : machine[x] = guest[x]
        BY <2>1, <2>7
      <4> QED
        BY <1>2, <1>7, <2>7, <4>1, <4>2, ValueTells
    <3>2. After(at, guest)[r] = Env(env, exits[at][r])
      BY <1>7, <2>4, <2>7 DEF TellsAt
    <3> QED
      BY <1>0, <1>7, <2>7, <3>1, <3>2
  <2>8. Placed => Finds(new)'
    <3>1. ASSUME Placed, NEW l \in Mentioned(at)', l[1] # "const"
          PROVE  (guest[ReadOf(at, l[3])])' = Env(new, Expr(l, 0))
      <4>1. exits' = exits /\ event' = event /\ succ' = succ /\ at' = s
        BY <1>0 DEF program
      <4>2. l \in Mentioned(s)
        BY <3>1, <4>1 DEF Mentioned
      <4>3. guest'[ReadOf(s, l[3])] = Env(new, Expr(l, 0))
        BY <2>6, <3>1, <4>2
      <4> QED
        BY <4>1, <4>3 DEF ReadOf, HasHome, HomeIn, HomesIn, Preds
    <3> QED
      BY <3>1 DEF Finds, Env
  <2>9. <<at', guest', new>> \in Reach' /\ new \in Envs'
    BY <1>0, <1>3, <1>4, <2>2, <2>3
  <2>10. Placed' => Finds(new)' /\ \A r \in live'[at'] : machine'[r] = guest'[r]
    BY <1>0, <2>5, <2>7, <2>8
  <2> QED
    BY <2>9, <2>10 DEF Beside
<1> QED
  BY <1>0, <1>1, <1>5, <1>6, <1>8, <1>9 DEF IInv

(* Every step keeps the invariant.                                            *)
LEMMA NextIInv == IInv /\ [Next]_vars => IInv'
<1> SUFFICES ASSUME IInv, [Next]_vars PROVE IInv'
  OBVIOUS
<1>1. CASE Simplify
  BY <1>1, SimplifyKeeps
<1>2. CASE RemoveDeadParams
  BY <1>2, RemoveKeeps
<1>3. CASE PruneRound
  BY <1>3, PruneKeeps
<1>4. CASE \E s \in Block : Run(s)
  BY <1>4, RunKeeps
<1>5. CASE UNCHANGED vars
  <2>1. /\ UNCHANGED <<program, exits, event, params, live>>
        /\ UNCHANGED program
        /\ phase' = phase /\ at' = at /\ guest' = guest /\ machine' = machine /\ live' = live
    BY <1>5 DEF vars, cfg
  <2>2. GraphTyped' /\ LeavesDominate' /\ GraphTells'
    BY <2>1, GraphStays DEF IInv
  <2>3. Leaves' = Leaves /\ GraphExprs' = GraphExprs /\ Regs' = Regs /\ Reach' = Reach
    BY <2>1, SameProgram
  <2>4. Held' = Held /\ Envs' = Envs
    BY <2>3 DEF Held, Envs
  <2>5. /\ \A b : LiveIn(b)' = LiveIn(b) /\ Mentioned(b)' = Mentioned(b)
        /\ \A b, q : ReadOf(b, q)' = ReadOf(b, q)
        /\ Placed' = Placed
    BY <2>1, SameLiveIn
  <2>6. RunTyped' /\ (phase' # "run" => Waiting')
    BY <2>1, <2>3, <2>4 DEF IInv, RunTyped, Waiting
  <2>7. (phase = "run" => Fixpoint /\ Kept)'
    BY <2>1, <2>5 DEF IInv, Fixpoint, Kept
  <2>8. \A env : Finds(env)' = Finds(env)
    BY <2>1, <2>5 DEF Finds, Env
  <2>9. (phase = "run" => Beside)'
    BY <2>1, <2>3, <2>4, <2>5, <2>8 DEF IInv, Beside
  <2> QED
    BY <2>2, <2>6, <2>7, <2>9 DEF IInv
<1> QED
  BY <1>1, <1>2, <1>3, <1>4, <1>5 DEF Next, Returned

-----------------------------------------------------------------------------
(* The inductive invariant of lowering: what the graph says is true of the    *)
(* guest wherever it goes, through every round of simplification; and once    *)
(* liveness is settled, the emitted program holds what its blocks read.       *)
THEOREM LoweringInvariant == Spec => []IInv
<1>1. Init => IInv
  BY InitIInv
<1>2. IInv /\ [Next]_vars => IInv'
  BY NextIInv
<1> QED
  BY <1>1, <1>2, PTL DEF Spec

(* Type correctness, for any graphs and registers.                            *)
THEOREM LoweringTypes == Spec => []TypeOK
<1>1. IInv => TypeOK
  <2> SUFFICES ASSUME IInv PROVE TypeOK
    OBVIOUS
  <2>1. Leaves \subseteq {"init", "param", "const", "junk"} \X Block \X (Reg \cup {0})
    <3>1. \A l \in Leaves : l \in {"init", "param", "const", "junk"} \X Block \X (Reg \cup {0})
      BY LeafKinds, BlockAssumption DEF InitReg, Param, Const
    <3> QED
      BY <3>1
  <2>2. GraphExprs \subseteq Exprs /\ Held \subseteq Exprs
    BY <2>1, BlockAssumption DEF GraphExprs, Held, Exprs
  <2>3. Regs \subseteq [Reg -> Exprs]
    BY <2>2 DEF Regs
  <2>4. \A l \in params : l \in {Param(b, r) : b \in Block, r \in Reg}
    BY LeafKinds DEF IInv, GraphTyped, IsParam
  <2>5. exits \in [Block -> [Reg -> Exprs]] /\ event \in [Block -> Exprs]
    BY <2>2, <2>3 DEF IInv, GraphTyped
  <2>6. guest \in [Reg -> Exprs] /\ machine \in [Reg -> Exprs]
    BY <2>2, <2>3 DEF IInv, RunTyped
  <2> QED
    BY <2>4, <2>5, <2>6 DEF TypeOK, IInv, GraphTyped, RunTyped
<1> QED
  BY <1>1, LoweringInvariant, PTL

(* Simplifying a phi never invents a value: a block mentions a parameter only *)
(* of a block that every path to it passes.                                   *)
THEOREM ParamsAreInScope == Spec => []LeavesDominate
<1>1. IInv => LeavesDominate
  BY DEF IInv
<1> QED
  BY <1>1, LoweringInvariant, PTL

(* Where the leaves that blocks mention are available, the emitted program    *)
(* stores and returns what the guest does, after any number of blocks.        *)
THEOREM EmittedProgramAgrees == Spec => []EmittedAgrees
<1>1. IInv => EmittedAgrees
  BY InvAgrees
<1> QED
  BY <1>1, LoweringInvariant, PTL

(* No block reads a register whose exit a predecessor dropped.                *)
THEOREM PruningSparesReads == Spec => []NothingReadIsJunk
<1>1. IInv => NothingReadIsJunk
  BY InvNoJunk
<1> QED
  BY <1>1, LoweringInvariant, PTL
=============================================================================
