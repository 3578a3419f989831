---------------------------- MODULE CodegenProofs ----------------------------
(***************************************************************************)
(* Theorems about the machine code of a block.                             *)
(*                                                                         *)
(* Its boundary, for every register file and every set of immovable        *)
(* sources: first `reconcile`, which sequences the moves, then             *)
(* `emit_terminator`, which leaves some of them out and emits others after *)
(* the comparison they might have destroyed.  The heart of the first is a  *)
(* pigeonhole: when no destination can be written, every destination is    *)
(* read by another move, so the moves left permute their own destinations. *)
(* That is why a swap never disturbs a register that has been settled.     *)
(* The second compares two machines: `machine`, on which `reconcile` runs  *)
(* all moves, and the contents after the moves that are kept.  Both are    *)
(* followed while the sequence grows, so every statement about a whole     *)
(* sequence is the invariant of one more move.                             *)
(*                                                                         *)
(* Its instructions, for any registers, wherever operands and result are   *)
(* and whatever else is alive: every machine instruction brings a value to *)
(* one place and spares the others, and an emitted sequence is followed    *)
(* one by one.  What it overwrites is the result's register, registers     *)
(* nobody needs, and those it has parked and brings back.                  *)
(***************************************************************************)
EXTENDS Terminators, Emission, NaturalsInduction, WellFoundedInduction, FiniteSetTheorems,
        FunctionTheorems, SequenceTheorems, TLAPS

\* No pending move is already satisfied, and none was invented.
PendingMeaningful == \A d \in Todo : pending[d] # d /\ exits[d] # NoLoc

\* Spill slots, immediates and frame addresses are read only.
FixedIntact == \A p \in Fixed : machine[p] = p

\* The inductive invariant.
IInv == TypeOK /\ PendingMeaningful /\ FixedIntact /\ SourcesIntact /\ SettledStays

-----------------------------------------------------------------------------
(* A finite set of moves in which every destination is read by another move   *)
(* is a permutation: `reconcile` reaches its `None` arm only on such a set.   *)
LEMMA Pigeonhole ==
  ASSUME NEW D, IsFiniteSet(D), NEW f,
         \A d \in D : \E e \in D : f[e] = d
  PROVE  /\ \A e \in D : f[e] \in D
         /\ \A e1, e2 \in D : f[e1] = f[e2] => e1 = e2
<1> DEFINE g == [d \in D |-> CHOOSE e \in D : f[e] = d]
<1>1. \A d \in D : g[d] \in D /\ f[g[d]] = d
  OBVIOUS
<1>2. g \in Injection(D, D)
  BY <1>1 DEF Injection, IsInjective
<1>3. g \in Surjection(D, D)
  BY <1>2, FS_Injection
<1>4. \A e \in D : \E d \in D : g[d] = e
  BY <1>3 DEF Surjection
<1> HIDE DEF g
<1>5. \A e \in D : f[e] \in D /\ g[f[e]] = e
  BY <1>1, <1>4
<1> QED
  BY <1>5

(* There are finitely many moves to emit.                                   *)
LEMMA TodoFinite == IsFiniteSet(Todo)
  BY RegAssumption, FS_Subset DEF Todo

(* "Everything left is on a cycle." *)
LEMMA StuckIsPermutation ==
  ASSUME Ready = {}
  PROVE  /\ \A d \in Todo : pending[d] \in Todo
         /\ \A d, e \in Todo : pending[d] = pending[e] => d = e
<1>1. \A d \in Todo : \E e \in Todo : pending[e] = d
  BY DEF Ready
<1> HIDE DEF Todo
<1> QED
  BY <1>1, TodoFinite, Pigeonhole

-----------------------------------------------------------------------------
(* The moves the loop starts from: every value is where it was. *)
LEMMA InitIInv == Init => IInv
<1> SUFFICES ASSUME Init PROVE IInv
  OBVIOUS
<1> USE DEF Init, Source, Place
<1>1. TypeOK
  BY DEF TypeOK, Unsatisfied
<1>2. PendingMeaningful
  BY DEF PendingMeaningful, Todo, Unsatisfied
<1>3. FixedIntact
  BY DEF FixedIntact
<1>4. SourcesIntact
  BY DEF SourcesIntact, Todo, Unsatisfied
<1>5. SettledStays
  BY NoLocAssumption DEF SettledStays, Todo, Unsatisfied
<1> QED
  BY <1>1, <1>2, <1>3, <1>4, <1>5 DEF IInv

(* Emitting a ready move: its destination is read by nobody else. *)
LEMMA EmitReadyIInv ==
  ASSUME IInv, NEW d \in Reg, EmitReady(d)
  PROVE  IInv'
<1> DEFINE mv == [op |-> "set", dst |-> d, src |-> pending[d]]
<1>1. /\ d \in Todo
      /\ \A e \in Todo \ {d} : pending[e] # d
  BY DEF EmitReady, IsFirst, Ready
<1>2. pending[d] \in Place /\ pending[d] # d
  BY <1>1 DEF IInv, TypeOK, Source, PendingMeaningful, Todo
<1>3. /\ pending' = [pending EXCEPT ![d] = NoLoc]
      /\ out' = Append(out, mv)
      /\ machine' = [machine EXCEPT ![d] = machine[pending[d]]]
      /\ exits' = exits
  BY DEF EmitReady, Emit, Execute
<1>4. TypeOK'
  <2>1. mv \in Move
    BY <1>2 DEF Move
  <2>2. out' \in Seq(Move)
    BY <1>3, <2>1 DEF IInv, TypeOK
  <2> QED
    BY <1>2, <1>3, <2>2 DEF IInv, TypeOK, Source, Place
<1>5. Todo' = Todo \ {d}
  BY <1>3 DEF Todo, IInv, TypeOK
<1>6. PendingMeaningful'
  BY <1>3, <1>5 DEF PendingMeaningful, IInv, TypeOK, Todo
<1>7. FixedIntact'
  BY <1>3, FixedAssumption DEF FixedIntact, IInv, TypeOK, Place
<1>8. SourcesIntact'
  <2> SUFFICES ASSUME NEW e \in Todo' PROVE machine'[pending'[e]] = exits'[e]
    BY DEF SourcesIntact
  <2>1. e \in Todo \ {d} /\ pending'[e] = pending[e] /\ pending[e] # d
    BY <1>1, <1>3, <1>5 DEF IInv, TypeOK, Todo
  <2>2. pending[e] \in Place
    BY <2>1 DEF IInv, TypeOK, Source, Todo
  <2> QED
    BY <1>3, <2>1, <2>2 DEF IInv, TypeOK, SourcesIntact
<1>9. SettledStays'
  <2> SUFFICES ASSUME NEW r \in Reg \ Todo'
               PROVE  machine'[r] = IF exits'[r] = NoLoc THEN r ELSE exits'[r]
    BY DEF SettledStays
  <2>1. CASE r = d
    <3>1. machine'[d] = machine[pending[d]]
      BY <1>3 DEF IInv, TypeOK, Place
    <3>2. machine[pending[d]] = exits[d] /\ exits[d] # NoLoc
      BY <1>1 DEF IInv, SourcesIntact, PendingMeaningful
    <3> QED
      BY <2>1, <3>1, <3>2, <1>3
  <2>2. CASE r # d
    BY <2>2, <1>3, <1>5 DEF IInv, TypeOK, SettledStays, Place
  <2> QED
    BY <2>1, <2>2
<1> QED
  BY <1>4, <1>6, <1>7, <1>8, <1>9 DEF IInv

(* What a swap does to the list of moves: the move it was made for is gone,   *)
(* the others read from where the swap put their value, and the ones it       *)
(* satisfied are dropped.                                                     *)
LEMMA BreakCycleSteps ==
  ASSUME IInv, NEW d \in Reg, BreakCycle(d)
  PROVE  /\ d \in Todo /\ pending[d] \in Todo /\ pending[d] # d
         /\ machine' = [machine EXCEPT ![d] = machine[pending[d]],
                                       ![pending[d]] = machine[d]]
         /\ exits' = exits
         /\ Todo' = {e \in Todo \ {d} : Redirect(pending[e], d, pending[d]) # e}
         /\ \A e \in Todo' : pending'[e] = Redirect(pending[e], d, pending[d])
<1>1. d \in Todo /\ pending[d] \in Todo
  BY StuckIsPermutation DEF BreakCycle, IsFirst
<1>2. pending[d] # d
  BY <1>1 DEF IInv, PendingMeaningful
<1>3. machine' = [machine EXCEPT ![d] = machine[pending[d]], ![pending[d]] = machine[d]]
  BY DEF BreakCycle, Emit, Execute
<1>4. exits' = exits
  BY DEF BreakCycle, Emit
<1> DEFINE R(e) == Redirect(pending[e], d, pending[d])
<1>5. \A e \in Reg : pending'[e] = IF e = d \/ R(e) = e THEN NoLoc ELSE R(e)
  BY DEF BreakCycle, Unsatisfied
<1>6. \A e \in Reg : R(e) = NoLoc <=> e \notin Todo
  BY <1>1, NoLocAssumption DEF Redirect, Todo
<1>7. Todo' = {e \in Todo \ {d} : R(e) # e}
  BY <1>5, <1>6 DEF Todo
<1>8. \A e \in Todo' : pending'[e] = R(e)
  BY <1>5, <1>7 DEF Todo
<1> QED
  BY <1>1, <1>2, <1>3, <1>4, <1>7, <1>8

(* A swap preserves the invariant: it only touches two registers that still    *)
(* have a move, so nothing settled changes, and every reader follows its value.*)
LEMMA BreakCycleIInv ==
  ASSUME IInv, NEW d \in Reg, BreakCycle(d)
  PROVE  IInv'
<1> DEFINE from == pending[d]
           R(e) == Redirect(pending[e], d, from)
           mv == [op |-> "swap", dst |-> d, src |-> from]
<1>1. /\ d \in Todo /\ from \in Todo /\ from # d
      /\ machine' = [machine EXCEPT ![d] = machine[from], ![from] = machine[d]]
      /\ exits' = exits
      /\ Todo' = {e \in Todo \ {d} : R(e) # e}
      /\ \A e \in Todo' : pending'[e] = R(e)
  BY BreakCycleSteps
<1>2. d \in Place /\ from \in Place /\ from \in Reg
  BY <1>1 DEF Todo, Place
<1>3. \A p \in Place : machine'[p] = IF p = d THEN machine[from]
                                     ELSE IF p = from THEN machine[d] ELSE machine[p]
  BY <1>1, <1>2 DEF IInv, TypeOK
<1>4. \A e \in Todo : pending[e] \in Place
  BY DEF IInv, TypeOK, Source, Todo
\* Following a source through the swap finds the same value.
<1>5. \A e \in Todo : R(e) \in Place /\ machine'[R(e)] = machine[pending[e]]
  BY <1>1, <1>2, <1>3, <1>4 DEF Redirect
<1>6. TypeOK'
  <2>1. out' \in Seq(Move)
    <3>1. mv \in Move
      BY <1>2 DEF Move
    <3>2. out' = Append(out, mv)
      BY DEF BreakCycle, Emit
    <3> QED
      BY <3>1, <3>2 DEF IInv, TypeOK
  <2>2. pending' \in [Reg -> Source]
    <3>1. \A e \in Reg : Redirect(pending[e], d, from) \in Source
      BY <1>2 DEF Redirect, IInv, TypeOK, Source
    <3>2. NoLoc \in Source
      BY DEF Source
    <3> QED
      BY <3>1, <3>2 DEF BreakCycle, Unsatisfied
  <2>3. machine' \in [Place -> Place]
    BY <1>1, <1>2 DEF IInv, TypeOK
  <2> QED
    BY <1>1, <2>1, <2>2, <2>3 DEF IInv, TypeOK
<1>7. PendingMeaningful'
  BY <1>1 DEF PendingMeaningful, IInv
<1>8. FixedIntact'
  BY <1>1, <1>2, <1>3, FixedAssumption DEF FixedIntact, IInv, Place
<1>9. SourcesIntact'
  BY <1>1, <1>5 DEF SourcesIntact, IInv
<1>10. SettledStays'
  <2> SUFFICES ASSUME NEW r \in Reg \ Todo'
               PROVE  machine'[r] = IF exits[r] = NoLoc THEN r ELSE exits[r]
    BY <1>1 DEF SettledStays
  <2>1. CASE r \notin Todo
    <3>1. r # d /\ r # from /\ r \in Place
      BY <1>1, <2>1 DEF Place
    <3> QED
      BY <1>3, <2>1, <3>1 DEF IInv, SettledStays
  <2>2. CASE r = d
    BY <1>1, <1>2, <1>3, <2>2 DEF IInv, SourcesIntact, PendingMeaningful
  \* A move the swap happened to satisfy.
  <2>3. CASE r \in Todo /\ r # d
    <3>1. R(r) = r
      BY <1>1, <2>3
    <3>2. machine'[r] = machine[pending[r]]
      BY <1>5, <2>3, <3>1
    <3> QED
      BY <2>3, <3>2 DEF IInv, SourcesIntact, PendingMeaningful
  <2> QED
    BY <2>1, <2>2, <2>3
<1> QED
  BY <1>6, <1>7, <1>8, <1>9, <1>10 DEF IInv

(* Every step of the loop keeps the invariant.                              *)
LEMMA NextIInv == IInv /\ [Next]_vars => IInv'
<1> SUFFICES ASSUME IInv, [Next]_vars PROVE IInv'
  OBVIOUS
<1>1. ASSUME NEW d \in Reg, EmitReady(d) PROVE IInv'
  BY <1>1, EmitReadyIInv
<1>2. ASSUME NEW d \in Reg, BreakCycle(d) PROVE IInv'
  BY <1>2, BreakCycleIInv
<1>3. CASE UNCHANGED vars
  BY <1>3 DEF IInv, TypeOK, PendingMeaningful, FixedIntact, SourcesIntact,
              SettledStays, Todo, vars
<1> QED
  BY <1>1, <1>2, <1>3 DEF Next, Finished

(* The inductive invariant holds throughout. *)
THEOREM Inductive == Spec => []IInv
  BY InitIInv, NextIInv, PTL DEF Spec

-----------------------------------------------------------------------------
(* Every variable keeps its type: the moves emitted are well-formed. *)
THEOREM TypeCorrect == Spec => []TypeOK
<1>1. IInv => TypeOK
  BY DEF IInv
<1> QED
  BY <1>1, Inductive, PTL

(* Until a move is emitted the value it must read is still where the move     *)
(* will look for it, through every write and swap emitted before it.          *)
THEOREM SourcesAreIntact == Spec => []SourcesIntact
<1>1. IInv => SourcesIntact
  BY DEF IInv
<1> QED
  BY <1>1, Inductive, PTL

(* A register whose move is done, or that has none, is never disturbed again. *)
THEOREM SettledRegistersStay == Spec => []SettledStays
<1>1. IInv => SettledStays
  BY DEF IInv
<1> QED
  BY <1>1, Inductive, PTL

(* The escape of the `None` arm for a source that is no register is dead code:*)
(* a set of moves none of which is ready permutes its own destinations.       *)
THEOREM OnlyRegistersCycle == Spec => []CyclesAreRegisters
<1>1. CyclesAreRegisters
  BY StuckIsPermutation DEF CyclesAreRegisters
<1> QED
  BY <1>1, PTL

-----------------------------------------------------------------------------
(* A boundary never costs more instructions than it has exits to deliver.     *)
THEOREM NoMoveIsWasted == Spec => []NoWastedMove
<1> DEFINE Moving == {r \in Reg : exits[r] \notin {r, NoLoc}}
           Budget == Len(out) + Cardinality(Todo) <= Cardinality(Moving)
<1>0. ASSUME NEW S, S \subseteq Reg PROVE IsFiniteSet(S) /\ Cardinality(S) \in Nat
  BY <1>0, RegAssumption, FS_Subset, FS_CardinalityType
<1>1. Init => Budget
  <2> SUFFICES ASSUME Init PROVE Budget
    OBVIOUS
  <2>1. Todo = Moving
    BY DEF Init, Todo, Unsatisfied
  <2>2. Len(out) = 0
    BY DEF Init
  <2> QED
    BY <1>0, <2>1, <2>2
<1>2. IInv /\ Budget /\ [Next]_vars => Budget'
  <2> SUFFICES ASSUME IInv, Budget, [Next]_vars PROVE Budget'
    OBVIOUS
  <2>1. ASSUME NEW d \in Reg, EmitReady(d) \/ BreakCycle(d)
        PROVE  Budget'
    <3>1. d \in Todo /\ Todo' \subseteq Todo \ {d}
      <4>1. CASE EmitReady(d)
        BY <4>1 DEF EmitReady, IsFirst, Ready, Todo, IInv, TypeOK
      <4>2. CASE BreakCycle(d)
        BY <4>2, BreakCycleSteps
      <4> QED
        BY <2>1, <4>1, <4>2
    <3>2. Len(out') = Len(out) + 1 /\ exits' = exits
      BY <2>1 DEF EmitReady, BreakCycle, Emit, IInv, TypeOK
    <3>3. Cardinality(Todo') <= Cardinality(Todo) - 1
      <4>1. IsFiniteSet(Todo \ {d}) /\ Cardinality(Todo \ {d}) = Cardinality(Todo) - 1
        BY <3>1, TodoFinite, FS_RemoveElement
      <4> QED
        BY <3>1, <4>1, FS_Subset
    <3>4. Moving' = Moving
      BY <3>2
    <3>5. /\ Cardinality(Todo) \in Nat /\ Cardinality(Todo') \in Nat
          /\ Cardinality(Moving) \in Nat /\ Len(out) \in Nat
      BY <1>0 DEF Todo, IInv, TypeOK
    <3> QED
      BY <3>2, <3>3, <3>4, <3>5
  <2>2. CASE UNCHANGED vars
    BY <2>2 DEF vars, Todo
  <2> QED
    BY <2>1, <2>2 DEF Next, Finished
<1>3. Budget <=> NoWastedMove
  BY DEF NoWastedMove
<1> QED
  BY <1>1, <1>2, <1>3, Inductive, PTL DEF Spec

-----------------------------------------------------------------------------
\* What the successors find once the last move has been emitted.
AllDelivered == Todo = {} => machine = Abstract!Assigned

(* With no move left, every destination holds its source's value.           *)
LEMMA IInvDelivers == IInv => AllDelivered
<1> SUFFICES ASSUME IInv, Todo = {} PROVE machine = Abstract!Assigned
  BY DEF AllDelivered
<1>1. ASSUME NEW p \in Place
      PROVE  machine[p] = IF p \in Reg /\ exits[p] # NoLoc THEN exits[p] ELSE p
  <2>1. CASE p \in Reg
    BY <2>1 DEF IInv, SettledStays
  <2>2. CASE p \in Fixed /\ p \notin Reg
    BY <2>2 DEF IInv, FixedIntact
  <2> QED
    BY <2>1, <2>2 DEF Place
<1> QED
  BY <1>1 DEF IInv, TypeOK, Abstract!Assigned, Abstract!Place, Place

(* `reconcile` implements the parallel assignment the exits of a block stand  *)
(* for: seen from the successors, every exit is delivered in one step.        *)
THEOREM ImplementsParallelAssign == Spec => Parallel
<1> DEFINE seen == IF Todo = {} THEN machine ELSE [p \in Place |-> p]
<1>1. Init => Abstract!Init
  <2> SUFFICES ASSUME Init PROVE Abstract!Init
    OBVIOUS
  <2> QED
    BY DEF Init, Abstract!Init, Abstract!AtBlockEnd, Abstract!Place, Source, Place
<1>3. IInv /\ AllDelivered' /\ [Next]_vars => [Abstract!Next]_(Abstract!vars)
  <2> SUFFICES ASSUME IInv, AllDelivered', [Next]_vars
               PROVE  Abstract!Next \/ (seen' = seen /\ exits' = exits)
    BY DEF Abstract!vars
  <2>1. CASE UNCHANGED vars
    BY <2>1 DEF vars, Todo
  <2>2. ASSUME NEW d \in Reg, EmitReady(d) \/ BreakCycle(d)
        PROVE  Abstract!Next \/ (seen' = seen /\ exits' = exits)
    <3>1. Todo # {} /\ exits' = exits
      BY <2>2, BreakCycleSteps DEF EmitReady, IsFirst, Ready, Emit
    <3>2. CASE Todo' # {}
      BY <3>1, <3>2
    <3>3. CASE Todo' = {}
      <4>1. seen = Abstract!AtBlockEnd
        BY <3>1 DEF Abstract!AtBlockEnd, Abstract!Place, Place
      <4>2. seen' = Abstract!Assigned'
        BY <3>3 DEF AllDelivered
      <4>3. Abstract!Assigned' = Abstract!Assigned
        BY <3>1 DEF Abstract!Assigned, Abstract!Place
      <4> QED
        BY <3>1, <4>1, <4>2, <4>3 DEF Abstract!Next, Abstract!Assign
    <3> QED
      BY <3>2, <3>3
  <2> QED
    BY <2>1, <2>2 DEF Next, Finished
<1> QED
  BY <1>1, <1>3, IInvDelivers, Inductive, PTL DEF Spec, Parallel, Abstract!Spec

-----------------------------------------------------------------------------
(* Terminators *)

(* Every block begins with each value in the place it is named after. *)
Start == [p \in Place |-> p]

AtEnd == [regs |-> Start, flags |-> NoFlags, dest |-> NoDest]

-----------------------------------------------------------------------------
(* Induction up to a bound, by counting: a set of numbers that is closed      *)
(* under successor below n would otherwise be mapped into itself one to one   *)
(* without reaching 0, which no finite set allows.                            *)
LEMMA Climb ==
  ASSUME NEW n \in Nat, NEW S \in SUBSET (0..n), 0 \in S,
         \A k \in S : k < n => k + 1 \in S
  PROVE  n \in S
<1> SUFFICES ASSUME n \notin S PROVE FALSE
  OBVIOUS
<1> DEFINE up == [k \in S |-> k + 1]
<1>1. IsFiniteSet(S)
  <2>1. IsFiniteSet(0..n)
    BY FS_Interval
  <2> QED
    BY <2>1, FS_Subset
<1>2. up \in Injection(S, S)
  BY DEF Injection, IsInjective
<1>3. up \in Surjection(S, S)
  BY <1>1, <1>2, FS_Injection
<1>4. PICK k \in S : up[k] = 0
  BY <1>3 DEF Surjection
<1> QED
  BY <1>4

(* A set of numbers that is not empty has a least one. *)
LEMMA Least ==
  ASSUME NEW T \in SUBSET Nat, T # {}
  PROVE  \E n \in T : \A m \in T : n <= m
<1> SUFFICES ASSUME ~ \E n \in T : \A m \in T : n <= m PROVE FALSE
  OBVIOUS
<1>1. PICK t \in T : TRUE
  OBVIOUS
<1> DEFINE S == {k \in 0..t : \A m \in T : k <= m}
<1>2. 0 \in S
  OBVIOUS
<1>3. \A k \in S : k < t => k + 1 \in S
  OBVIOUS
<1>4. t \in S
  <2>1. S \in SUBSET (0..t)
    OBVIOUS
  <2> HIDE DEF S
  <2> QED
    BY <1>2, <1>3, <2>1, Climb
<1> QED
  BY <1>4

-----------------------------------------------------------------------------
\* One step of Ran, and the table of its steps up to n.
Ran1(regs, mv, moves) == IF mv \in moves THEN Execute(regs, mv) ELSE regs

Unrolls(f, n, regs, s, moves) ==
    f = [k \in 0..n |-> IF k = 0 THEN regs ELSE Ran1(f[k - 1], s[k], moves)]

(* The table exists for every sequence. *)
LEMMA UnrollingExists ==
  ASSUME NEW s, NEW regs, NEW moves, NEW n \in Nat
  PROVE  \E f : Unrolls(f, n, regs, s, moves)
<1> DEFINE S == {k \in 0..n : \E f : Unrolls(f, k, regs, s, moves)}
<1>1. 0 \in S
  <2>1. Unrolls([k \in 0..0 |-> regs], 0, regs, s, moves)
    BY DEF Unrolls
  <2> QED
    BY <2>1
<1>2. ASSUME NEW k \in S, k < n PROVE k + 1 \in S
  <2>1. PICK f : Unrolls(f, k, regs, s, moves)
    OBVIOUS
  <2> DEFINE g == [j \in 0..k + 1 |-> IF j = k + 1 THEN Ran1(f[k], s[k + 1], moves) ELSE f[j]]
  <2>2. Unrolls(g, k + 1, regs, s, moves)
    <3>1. \A j \in 0..k + 1 : g[j] = IF j = 0 THEN regs ELSE Ran1(g[j - 1], s[j], moves)
      <4> SUFFICES ASSUME NEW j \in 0..k + 1
                   PROVE  g[j] = IF j = 0 THEN regs ELSE Ran1(g[j - 1], s[j], moves)
        OBVIOUS
      <4>1. CASE j = k + 1
        BY <4>1
      <4>2. CASE j # k + 1
        <5>1. j \in 0..k /\ (j # 0 => j - 1 \in 0..k)
          BY <4>2
        <5>2. f[j] = IF j = 0 THEN regs ELSE Ran1(f[j - 1], s[j], moves)
          BY <2>1, <5>1 DEF Unrolls
        <5> QED
          BY <4>2, <5>1, <5>2
      <4> QED
        BY <4>1, <4>2
    <3> QED
      BY <3>1 DEF Unrolls
  <2> HIDE DEF g
  <2>3. \E h : Unrolls(h, k + 1, regs, s, moves)
    BY <2>2
  <2>4. k + 1 \in 0..n
    BY <1>2
  <2> QED
    BY <2>3, <2>4
<1>3. S \in SUBSET (0..n)
  OBVIOUS
<1>4. n \in S
  <2> HIDE DEF S
  <2> QED
    BY <1>1, <1>2, <1>3, Climb
<1> QED
  BY <1>4

(* Two tables agree as far as their sequences do. *)
LEMMA UnrollingsAgree ==
  ASSUME NEW s, NEW t, NEW regs, NEW K, NEW L, NEW n \in Nat, NEW m \in Nat, n <= m,
         NEW f, Unrolls(f, n, regs, s, K), NEW g, Unrolls(g, m, regs, t, L),
         \A i \in 1..n : s[i] = t[i] /\ (s[i] \in K <=> s[i] \in L)
  PROVE  f[n] = g[n]
<1> DEFINE S == {k \in 0..n : f[k] = g[k]}
<1>1. 0 \in S
  BY DEF Unrolls
<1>2. ASSUME NEW k \in S, k < n PROVE k + 1 \in S
  <2>1. /\ f[k + 1] = Ran1(f[k], s[k + 1], K)
        /\ g[k + 1] = Ran1(g[k], t[k + 1], L)
    BY <1>2 DEF Unrolls
  <2>2. k + 1 \in 1..n
    BY <1>2
  <2> QED
    BY <1>2, <2>1, <2>2 DEF Ran1
<1>3. S \in SUBSET (0..n)
  OBVIOUS
<1>4. n \in S
  <2> HIDE DEF S
  <2> QED
    BY <1>1, <1>2, <1>3, Climb
<1> QED
  BY <1>4

(* Ran reads its result off such a table. *)
LEMMA RanUnrolls ==
  ASSUME NEW s, NEW regs, NEW moves, Len(s) \in Nat
  PROVE  \E f : Unrolls(f, Len(s), regs, s, moves) /\ Ran(regs, s, moves) = f[Len(s)]
<1> DEFINE f == CHOOSE f : Unrolls(f, Len(s), regs, s, moves)
<1>1. Unrolls(f, Len(s), regs, s, moves)
  BY UnrollingExists
<1>2. Ran(regs, s, moves) = f[Len(s)]
  BY DEF Ran, Unrolls, Ran1
<1> QED
  BY <1>1, <1>2

(* A sequence of no moves changes nothing. *)
LEMMA RanNothing ==
  ASSUME NEW regs, NEW moves
  PROVE  Ran(regs, <<>>, moves) = regs
  BY RanUnrolls DEF Unrolls

(* One more move is run after the others, if it is run at all. *)
LEMMA RanOneMore ==
  ASSUME NEW s \in Seq(Move), NEW mv \in Move, NEW regs, NEW K, NEW L,
         \A i \in 1..Len(s) : s[i] \in K <=> s[i] \in L
  PROVE  Ran(regs, Append(s, mv), L) = Ran1(Ran(regs, s, K), mv, L)
<1> DEFINE t == Append(s, mv)
           n == Len(s)
<1>1. /\ Len(t) = n + 1 /\ n \in Nat /\ t[n + 1] = mv
      /\ \A i \in 1..n : t[i] = s[i]
  OBVIOUS
<1> HIDE DEF t
<1>2. PICK f : Unrolls(f, n, regs, s, K) /\ Ran(regs, s, K) = f[n]
  BY <1>1, RanUnrolls
<1>3. PICK g : Unrolls(g, n + 1, regs, t, L) /\ Ran(regs, t, L) = g[n + 1]
  BY <1>1, RanUnrolls
<1>4. f[n] = g[n]
  <2> HIDE DEF n
  <2>1. n <= n + 1 /\ n + 1 \in Nat
    BY <1>1
  <2>2. \A i \in 1..n : s[i] = t[i] /\ (s[i] \in K <=> s[i] \in L)
    BY <1>1 DEF n
  <2> QED
    BY <1>1, <1>2, <1>3, <2>1, <2>2, UnrollingsAgree
<1>5. g[n + 1] = Ran1(g[n], t[n + 1], L)
  BY <1>1, <1>3 DEF Unrolls
<1> QED
  BY <1>1, <1>2, <1>3, <1>4, <1>5 DEF t

-----------------------------------------------------------------------------
(* rsp takes its value from a fixed place and gives it to nobody, so it is    *)
(* on no cycle, and no swap touches it.                                       *)
RspApart ==
    /\ \A d \in Todo : pending[d] # Rsp
    /\ Rsp \in Todo => pending[Rsp] \in Fixed
    /\ \A mv \in ToSet(out) : mv.src # Rsp /\ (mv.op = "swap" => mv.dst # Rsp)

(* A register written by a plain move is never read or written again.         *)
SetForGood ==
    \A mv \in ToSet(out) :
        mv.op = "set" => mv.dst \notin Todo /\ \A d \in Todo : pending[d] # mv.dst

(* A cycle through rax is opened at rax, so no swap is older than its.        *)
SetsFirst == Rax \in Todo => \A mv \in ToSet(out) : mv.op = "set"

(* Without the move of rsp, everything but rsp is as `reconcile` leaves it.   *)
StripAgrees == Ran(Start, out, StripRsp) = [machine EXCEPT ![Rsp] = Rsp]

\* What the moves kept at a return make of the registers, and the registers
\* that moves left out would have set.
Kept == Ran(Start, out, Returned)
LeftOut == {mv.dst : mv \in {x \in ToSet(out) : x.op = "set" /\ ~Keep(x)}}

(* While no swap was left out, neither is anything else but what LeftOut      *)
(* names.                                                                     *)
KeptAgrees ==
    (\A mv \in ToSet(out) : mv.op = "swap" => Keep(mv)) =>
        \A p \in Place \ LeftOut : Kept[p] = machine[p]

(* Once rax is settled it has its value, whatever was left out.               *)
RaxArrives == (Rax \notin Todo /\ exits[Rax] # NoLoc) => Kept[Rax] = exits[Rax]

(* The inductive invariant of sequencing, seen from the terminator.           *)
BInv == /\ IInv
        /\ exits[Rsp] \in Fixed \cup {Rsp}
        /\ RspApart /\ SetForGood /\ SetsFirst /\ StripAgrees
        /\ Kept \in [Place -> Place] /\ KeptAgrees /\ RaxArrives

(* The registers the ABI names are registers.                                 *)
LEMMA RegistersNamed ==
  /\ Rax \in Reg /\ Rdx \in Reg /\ R11 \in Reg /\ Rcx \in Reg /\ Rsp \in Reg
  /\ Rax # Rsp /\ Rdx # Rsp /\ R11 # Rsp /\ Rcx # Rsp
  /\ Volatile \subseteq Reg \ {Rsp} /\ CalleeSaved \subseteq Reg \ {Rsp}
  BY RetRegAssumption

(* What one more move does to the set of all moves. *)
LEMMA OneMoreMove ==
  ASSUME NEW s \in Seq(Move), NEW mv \in Move
  PROVE  ToSet(Append(s, mv)) = ToSet(s) \cup {mv}
<1>1. /\ Len(Append(s, mv)) = Len(s) + 1 /\ Len(s) \in Nat
      /\ DOMAIN Append(s, mv) = 1..Len(s) + 1 /\ DOMAIN s = 1..Len(s)
      /\ Append(s, mv)[Len(s) + 1] = mv
      /\ \A i \in 1..Len(s) : Append(s, mv)[i] = s[i]
  OBVIOUS
<1>2. \A x \in ToSet(Append(s, mv)) : x \in ToSet(s) \cup {mv}
  BY <1>1 DEF ToSet
<1>3. \A x \in ToSet(s) : x \in ToSet(Append(s, mv))
  BY <1>1 DEF ToSet
<1>4. mv \in ToSet(Append(s, mv))
  BY <1>1 DEF ToSet
<1> QED
  BY <1>2, <1>3, <1>4

(* Moves are moves. *)
LEMMA MovesAreMoves ==
  ASSUME NEW s \in Seq(Move)
  PROVE  /\ ToSet(s) \subseteq Move
         /\ \A i \in 1..Len(s) : s[i] \in ToSet(s)
  BY DEF ToSet

(* How both machines follow one more move. *)
LEMMA BothFollow ==
  ASSUME out \in Seq(Move), NEW mv \in Move, out' = Append(out, mv)
  PROVE  /\ ToSet(out') = ToSet(out) \cup {mv}
         /\ Ran(Start, out, StripRsp)' =
                IF mv.op = "swap" \/ mv.dst # Rsp THEN Execute(Ran(Start, out, StripRsp), mv)
                ELSE Ran(Start, out, StripRsp)
         /\ Kept' = IF Keep(mv) THEN Execute(Kept, mv) ELSE Kept
<1>1. ToSet(out') = ToSet(out) \cup {mv}
  BY OneMoreMove
<1>2. /\ StripRsp' = {x \in ToSet(out') : x.op = "swap" \/ x.dst # Rsp}
      /\ Returned' = {x \in ToSet(out') : Keep(x)}
      /\ Start' = Start
  BY DEF StripRsp, Returned, Start, Keep, RetRegs, Place
<1>3. \A i \in 1..Len(out) : /\ out[i] \in StripRsp <=> out[i] \in StripRsp'
                             /\ out[i] \in Returned <=> out[i] \in Returned'
  BY <1>1, <1>2, MovesAreMoves DEF StripRsp, Returned
<1>4. Ran(Start, out', StripRsp') = Ran1(Ran(Start, out, StripRsp), mv, StripRsp')
  BY <1>3, RanOneMore
<1>5. Ran(Start, out', Returned') = Ran1(Ran(Start, out, Returned), mv, Returned')
  BY <1>3, RanOneMore
<1>6. /\ Ran(Start, out, StripRsp)' = Ran(Start, out', StripRsp')
      /\ Kept' = Ran(Start, out', Returned')
  BY <1>2 DEF Kept
<1>7. /\ mv \in StripRsp' <=> mv.op = "swap" \/ mv.dst # Rsp
      /\ mv \in Returned' <=> Keep(mv)
  BY <1>1, <1>2
<1> QED
  BY <1>1, <1>4, <1>5, <1>6, <1>7 DEF Ran1, Kept

-----------------------------------------------------------------------------
(* A block that has emitted nothing satisfies the invariant.                  *)
LEMMA InitBInv == TInit => BInv
<1> SUFFICES ASSUME TInit PROVE BInv
  OBVIOUS
<1>1. /\ Init /\ IInv
      /\ out = <<>> /\ machine = Start /\ pending = Unsatisfied(exits)
      /\ \A r \in Reg \ {Rsp} : exits[r] # Rsp
      /\ exits[Rsp] \in Fixed \cup {Rsp}
  BY InitIInv DEF TInit, Init, Start
<1>2. ToSet(out) = {}
  BY <1>1 DEF ToSet
<1>3. Ran(Start, out, StripRsp) = Start /\ Kept = Start
  BY <1>1, RanNothing DEF Kept
<1>4. Start \in [Place -> Place] /\ \A p \in Place : Start[p] = p
  BY DEF Start
<1>5. \A d \in Todo : pending[d] = exits[d] /\ exits[d] # d
  BY <1>1, NoLocAssumption DEF Todo, Unsatisfied
<1>6. RspApart
  BY <1>1, <1>2, <1>5 DEF RspApart, Todo
<1>7. SetForGood /\ SetsFirst
  BY <1>2 DEF SetForGood, SetsFirst
<1>8. StripAgrees
  BY <1>1, <1>3, <1>4, RegistersNamed DEF StripAgrees, Place
<1>9. KeptAgrees
  BY <1>1, <1>3 DEF KeptAgrees
<1>10. RaxArrives
  <2>1. Rax \notin Todo /\ exits[Rax] # NoLoc => exits[Rax] = Rax
    BY <1>1, RegistersNamed DEF Todo, Unsatisfied
  <2> QED
    BY <2>1, <1>3, <1>4, RegistersNamed DEF RaxArrives, Place
<1> QED
  BY <1>1, <1>3, <1>4, <1>6, <1>7, <1>8, <1>9, <1>10 DEF BInv

(* A plain move keeps it: its source was set by nobody and is written by      *)
(* nobody it waits for.                                                       *)
LEMMA EmitReadyBInv ==
  ASSUME BInv, NEW d \in Reg, EmitReady(d)
  PROVE  BInv'
<1> DEFINE src == pending[d]
           mv == [op |-> "set", dst |-> d, src |-> src]
<1>1. /\ d \in Todo /\ \A e \in Todo \ {d} : pending[e] # d
      /\ src \in Place /\ src # Rsp
      /\ machine[src] = exits[d]
  BY DEF EmitReady, IsFirst, Ready, BInv, IInv, TypeOK, Source, Todo, RspApart, SourcesIntact
<1>2. /\ exits' = exits /\ out' = Append(out, mv) /\ mv \in Move
      /\ machine' = [machine EXCEPT ![d] = machine[src]]
      /\ Todo' = Todo \ {d} /\ \A e \in Todo' : pending'[e] = pending[e]
  BY <1>1 DEF EmitReady, Emit, Execute, Move, BInv, IInv, TypeOK, Todo
<1>3. /\ machine \in [Place -> Place] /\ Kept \in [Place -> Place]
      /\ out \in Seq(Move) /\ d \in Place /\ Rsp \in Place
  BY RegistersNamed DEF BInv, IInv, TypeOK, Place
<1> HIDE DEF mv
<1>4. /\ ToSet(out') = ToSet(out) \cup {mv}
      /\ Ran(Start, out, StripRsp)' =
             IF mv.op = "swap" \/ mv.dst # Rsp THEN Execute(Ran(Start, out, StripRsp), mv)
             ELSE Ran(Start, out, StripRsp)
      /\ Kept' = IF Keep(mv) THEN Execute(Kept, mv) ELSE Kept
  BY <1>2, <1>3, BothFollow
<1>5. /\ mv.op = "set" /\ mv.dst = d /\ mv.src = src
      /\ \A m : Execute(m, mv) = [m EXCEPT ![d] = m[src]]
  BY DEF mv, Execute
<1>6. /\ IInv' /\ exits'[Rsp] \in Fixed \cup {Rsp}
  BY <1>2, EmitReadyIInv DEF BInv
<1>7. RspApart'
  BY <1>1, <1>2, <1>4, <1>5 DEF BInv, RspApart
<1>8. SetForGood'
  <2> SUFFICES ASSUME NEW x \in ToSet(out'), x.op = "set"
               PROVE  x.dst \notin Todo' /\ \A e \in Todo' : pending'[e] # x.dst
    BY DEF SetForGood
  <2>1. CASE x = mv
    BY <1>1, <1>2, <1>5, <2>1
  <2>2. CASE x \in ToSet(out)
    <3>1. x.dst \notin Todo /\ \A e \in Todo : pending[e] # x.dst
      BY <2>2 DEF BInv, SetForGood
    <3> QED
      BY <1>2, <3>1
  <2> QED
    BY <1>4, <2>1, <2>2
<1>9. SetsFirst'
  BY <1>2, <1>4, <1>5 DEF BInv, SetsFirst
<1>10. StripAgrees'
  <2>1. Ran(Start, out, StripRsp) = [machine EXCEPT ![Rsp] = Rsp]
    BY DEF BInv, StripAgrees
  <2>2. CASE d = Rsp
    <3>1. Ran(Start, out, StripRsp)' = [machine EXCEPT ![Rsp] = Rsp]
      BY <1>4, <1>5, <2>1, <2>2
    <3>2. [machine EXCEPT ![Rsp] = Rsp] = [machine' EXCEPT ![Rsp] = Rsp]
      BY <1>2, <1>3, <2>2
    <3> QED
      BY <3>1, <3>2 DEF StripAgrees
  <2>3. CASE d # Rsp
    <3> DEFINE m == [machine EXCEPT ![Rsp] = Rsp]
    <3>1. Ran(Start, out, StripRsp)' = [m EXCEPT ![d] = m[src]]
      BY <1>4, <1>5, <2>1, <2>3
    <3>2. [m EXCEPT ![d] = m[src]] = [machine' EXCEPT ![Rsp] = Rsp]
      BY <1>1, <1>2, <1>3, <2>3
    <3> QED
      BY <3>1, <3>2 DEF StripAgrees
  <2> QED
    BY <2>2, <2>3
<1>11. (Kept \in [Place -> Place])'
  <2>1. Place' = Place
    BY DEF Place
  <2>2. Kept[src] \in Place
    BY <1>1, <1>3
  <2>3. Kept' = Kept \/ Kept' = [Kept EXCEPT ![d] = Kept[src]]
    BY <1>4, <1>5
  <2>4. Kept' \in [Place -> Place]
    BY <1>3, <2>2, <2>3
  <2> QED
    BY <2>1, <2>4
\* No plain move, kept or not, has written what this one reads.
<1>12. src \notin LeftOut /\ d \notin LeftOut
  BY <1>1 DEF LeftOut, BInv, SetForGood
<1>13. LeftOut' = IF Keep(mv) THEN LeftOut ELSE LeftOut \cup {d}
  <2>1. LeftOut' = {x.dst : x \in {y \in ToSet(out') : y.op = "set" /\ ~Keep(y)}}
    BY DEF LeftOut, Keep, RetRegs
  <2>2. {y \in ToSet(out') : y.op = "set" /\ ~Keep(y)} =
            {y \in ToSet(out) : y.op = "set" /\ ~Keep(y)} \cup (IF Keep(mv) THEN {} ELSE {mv})
    BY <1>4, <1>5
  <2> QED
    BY <1>5, <2>1, <2>2 DEF LeftOut
<1>14. ASSUME \A x \in ToSet(out) : x.op = "swap" => Keep(x)
       PROVE  \A p \in Place \ LeftOut' : Kept'[p] = machine'[p]
  <2>1. \A p \in Place \ LeftOut : Kept[p] = machine[p]
    BY <1>14 DEF BInv, KeptAgrees
  <2>2. Kept[src] = machine[src]
    BY <1>1, <1>12, <2>1
  <2>3. CASE Keep(mv)
    BY <1>2, <1>3, <1>4, <1>5, <1>13, <2>1, <2>2, <2>3
  <2>4. CASE ~Keep(mv)
    BY <1>2, <1>3, <1>4, <1>13, <2>1, <2>4
  <2> QED
    BY <2>3, <2>4
<1>15. KeptAgrees'
  <2>1. \A x : Keep(x)' <=> Keep(x)
    BY DEF Keep, RetRegs
  <2> QED
    BY <1>4, <1>14, <2>1 DEF KeptAgrees
<1>16. RaxArrives'
  <2>1. CASE d = Rax
    <3>1. Keep(mv)
      BY <1>5, <2>1 DEF Keep, RetRegs
    <3>2. \A x \in ToSet(out) : x.op = "swap" => Keep(x)
      BY <1>1, <2>1 DEF BInv, SetsFirst
    <3>3. Kept[src] = machine[src]
      BY <1>1, <1>12, <3>2 DEF BInv, KeptAgrees
    <3> QED
      BY <1>1, <1>2, <1>3, <1>4, <1>5, <2>1, <3>1, <3>3 DEF RaxArrives
  <2>2. CASE d # Rax
    <3>1. Kept'[Rax] = Kept[Rax]
      BY <1>3, <1>4, <1>5, <2>2, RegistersNamed DEF Place
    <3> QED
      BY <1>2, <2>2, <3>1 DEF BInv, RaxArrives
  <2> QED
    BY <2>1, <2>2
<1> QED
  BY <1>6, <1>7, <1>8, <1>9, <1>10, <1>11, <1>15, <1>16 DEF BInv

(* A swap keeps it: it only touches registers that still wait, and the first  *)
(* one is at rax if rax waits at all.                                         *)
LEMMA BreakCycleBInv ==
  ASSUME BInv, NEW d \in Reg, BreakCycle(d)
  PROVE  BInv'
<1> DEFINE src == pending[d]
           mv == [op |-> "swap", dst |-> d, src |-> src]
<1>1. /\ d \in Todo /\ src \in Todo /\ src # d
      /\ machine' = [machine EXCEPT ![d] = machine[src], ![src] = machine[d]]
      /\ exits' = exits
      /\ Todo' = {e \in Todo \ {d} : Redirect(pending[e], d, src) # e}
      /\ \A e \in Todo' : pending'[e] = Redirect(pending[e], d, src)
  BY BreakCycleSteps DEF BInv
<1>2. /\ out' = Append(out, mv) /\ mv \in Move
      /\ \A e \in Todo : d <= e
  BY <1>1 DEF BreakCycle, IsFirst, Emit, Move, Todo
<1>3. /\ machine \in [Place -> Place] /\ Kept \in [Place -> Place]
      /\ out \in Seq(Move) /\ d \in Place /\ src \in Place /\ Rsp \in Place
  BY <1>1, RegistersNamed DEF BInv, IInv, TypeOK, Place, Todo
<1>4. d # Rsp /\ src # Rsp /\ machine[src] = exits[d]
  BY <1>1, FixedAssumption DEF BInv, RspApart, IInv, SourcesIntact, Todo
<1> HIDE DEF mv
<1>5. /\ ToSet(out') = ToSet(out) \cup {mv}
      /\ Ran(Start, out, StripRsp)' =
             IF mv.op = "swap" \/ mv.dst # Rsp THEN Execute(Ran(Start, out, StripRsp), mv)
             ELSE Ran(Start, out, StripRsp)
      /\ Kept' = IF Keep(mv) THEN Execute(Kept, mv) ELSE Kept
  BY <1>2, <1>3, BothFollow
<1>6. /\ mv.op = "swap" /\ mv.dst = d /\ mv.src = src
      /\ \A m : Execute(m, mv) = [m EXCEPT ![d] = m[src], ![src] = m[d]]
  BY DEF mv, Execute
<1>7. /\ IInv' /\ exits'[Rsp] \in Fixed \cup {Rsp}
  BY <1>1, BreakCycleIInv DEF BInv
<1>8. RspApart'
  <2>1. \A e \in Todo' : pending'[e] # Rsp
    BY <1>1, <1>4 DEF BInv, RspApart, Redirect
  <2>2. Rsp \in Todo' => pending'[Rsp] \in Fixed
    <3>1. d \notin Fixed /\ src \notin Fixed
      BY <1>1, FixedAssumption DEF Todo
    <3> QED
      BY <1>1, <3>1 DEF BInv, RspApart, Redirect
  <2>3. \A x \in ToSet(out') : x.src # Rsp /\ (x.op = "swap" => x.dst # Rsp)
    BY <1>4, <1>5, <1>6 DEF BInv, RspApart
  <2> QED
    BY <2>1, <2>2, <2>3 DEF RspApart
<1>9. SetForGood'
  <2> SUFFICES ASSUME NEW x \in ToSet(out'), x.op = "set"
               PROVE  x.dst \notin Todo' /\ \A e \in Todo' : pending'[e] # x.dst
    BY DEF SetForGood
  <2>1. x \in ToSet(out)
    BY <1>5, <1>6
  <2>2. x.dst \notin Todo /\ \A e \in Todo : pending[e] # x.dst
    BY <2>1 DEF BInv, SetForGood
  <2> QED
    BY <1>1, <2>2 DEF Redirect
<1>10. SetsFirst'
  <2>1. Rax \in Todo => d = Rax
    <3>1. d \in Nat /\ Rax \in Nat /\ Rax <= d
      BY RegAssumption, RetRegAssumption
    <3> QED
      BY <1>2, <3>1
  <2> QED
    BY <1>1, <2>1 DEF SetsFirst
<1>11. StripAgrees'
  <2> DEFINE m == [machine EXCEPT ![Rsp] = Rsp]
  <2>1. Ran(Start, out, StripRsp)' = [m EXCEPT ![d] = m[src], ![src] = m[d]]
    BY <1>5, <1>6 DEF BInv, StripAgrees
  <2>2. [m EXCEPT ![d] = m[src], ![src] = m[d]] = [machine' EXCEPT ![Rsp] = Rsp]
    BY <1>1, <1>3, <1>4
  <2> QED
    BY <2>1, <2>2 DEF StripAgrees
<1>12. (Kept \in [Place -> Place])'
  <2>1. [Kept EXCEPT ![d] = Kept[src], ![src] = Kept[d]] \in [Place -> Place]
    BY <1>3
  <2>2. Kept' \in [Place -> Place]
    BY <1>3, <1>5, <1>6, <2>1
  <2> QED
    BY <2>2 DEF Place
<1>13. src \notin LeftOut /\ d \notin LeftOut
  BY <1>1 DEF LeftOut, BInv, SetForGood
<1>14. LeftOut' = LeftOut
  <2>1. LeftOut' = {x.dst : x \in {y \in ToSet(out') : y.op = "set" /\ ~Keep(y)}}
    BY DEF LeftOut, Keep, RetRegs
  <2>2. {y \in ToSet(out') : y.op = "set" /\ ~Keep(y)} = {y \in ToSet(out) : y.op = "set" /\ ~Keep(y)}
    BY <1>5, <1>6
  <2> QED
    BY <2>1, <2>2 DEF LeftOut
<1>15. ASSUME \A x \in ToSet(out) : x.op = "swap" => Keep(x), Keep(mv)
       PROVE  \A p \in Place \ LeftOut : Kept'[p] = machine'[p]
  <2>1. \A p \in Place \ LeftOut : Kept[p] = machine[p]
    BY <1>15 DEF BInv, KeptAgrees
  <2>2. Kept' = [Kept EXCEPT ![d] = Kept[src], ![src] = Kept[d]]
    BY <1>5, <1>6, <1>15
  <2> QED
    BY <1>1, <1>3, <1>13, <2>1, <2>2
<1>16. KeptAgrees'
  <2>1. \A x : Keep(x)' <=> Keep(x)
    BY DEF Keep, RetRegs
  <2> QED
    BY <1>5, <1>6, <1>14, <1>15, <2>1 DEF KeptAgrees
<1>17. RaxArrives'
  <2>1. CASE Rax \in Todo
    <3>1. d = Rax
      <4>1. d \in Nat /\ Rax \in Nat /\ Rax <= d
        BY RegAssumption, RetRegAssumption
      <4> QED
        BY <1>2, <2>1, <4>1
    <3>2. Keep(mv)
      BY <1>6, <3>1 DEF Keep, RetRegs
    <3>3. \A x \in ToSet(out) : x.op = "swap" => Keep(x)
      BY <2>1 DEF BInv, SetsFirst
    <3>4. Kept'[d] = machine'[d]
      BY <1>3, <1>13, <1>14, <1>15, <3>2, <3>3
    <3> QED
      BY <1>1, <1>3, <1>4, <3>1, <3>4 DEF RaxArrives
  <2>2. CASE Rax \notin Todo
    <3>1. Rax # d /\ Rax # src /\ Rax \in Place
      BY <1>1, <2>2, RegistersNamed DEF Place
    <3>2. Kept'[Rax] = Kept[Rax]
      BY <1>3, <1>5, <1>6, <3>1
    <3> QED
      BY <1>1, <2>2, <3>2 DEF BInv, RaxArrives
  <2> QED
    BY <2>1, <2>2
<1> QED
  BY <1>7, <1>8, <1>9, <1>10, <1>11, <1>12, <1>16, <1>17 DEF BInv

-----------------------------------------------------------------------------
\* Whole sequences of moves, from any contents.

(* What one move does to each place. *)
LEMMA ExecuteAt ==
  ASSUME NEW m \in [Place -> Place], NEW mv \in Move
  PROVE  /\ mv.dst \in Reg /\ mv.src \in Place /\ (mv.op = "swap" => mv.src \in Reg)
         /\ Execute(m, mv) \in [Place -> Place]
         /\ \A p \in Place : Execute(m, mv)[p] =
                IF p = mv.dst THEN m[mv.src]
                ELSE IF mv.op = "swap" /\ p = mv.src THEN m[mv.dst] ELSE m[p]
<1>1. mv.dst \in Reg /\ mv.src \in Place /\ mv.dst \in Place
      /\ (mv.op = "swap" => mv.src \in Reg)
  BY DEF Move, Place
<1>2. CASE mv.op = "swap"
  BY <1>1, <1>2 DEF Execute
<1>3. CASE mv.op # "swap"
  <2>1. mv.op = "set"
    BY <1>3 DEF Move
  <2> QED
    BY <1>1, <1>3, <2>1 DEF Execute
<1> QED
  BY <1>2, <1>3

(* What a kept move writes and reads. *)
LEMMA WrittenAndRead ==
  ASSUME NEW K, NEW mv \in K, mv \in Move
  PROVE  /\ mv.dst \in Written(K) /\ (mv.op = "swap" => mv.src \in Written(K))
         /\ (mv.src \in Reg => mv.src \in ReadBy(K))
         /\ (mv.op = "swap" => mv.dst \in ReadBy(K))
<1>1. mv.dst \in Reg
  BY DEF Move
<1> QED
  BY <1>1 DEF Written, ReadBy, Halves

(* A place that no kept move writes keeps its contents. *)
LEMMA Untouched ==
  ASSUME NEW s \in Seq(Move), NEW K \in SUBSET Move, NEW m \in [Place -> Place]
  PROVE  /\ Ran(m, s, K) \in [Place -> Place]
         /\ \A p \in Place \ Written(K) : Ran(m, s, K)[p] = m[p]
<1> DEFINE n == Len(s)
<1>1. n \in Nat /\ \A i \in 1..n : s[i] \in Move
  OBVIOUS
<1> HIDE DEF n
<1>2. PICK f : Unrolls(f, n, m, s, K) /\ Ran(m, s, K) = f[n]
  BY <1>1, RanUnrolls DEF n
<1> DEFINE Kind(r) == r \in [Place -> Place] /\ \A p \in Place \ Written(K) : r[p] = m[p]
           S == {k \in 0..n : Kind(f[k])}
<1>3. 0 \in S
  BY <1>1, <1>2 DEF Unrolls
<1>4. ASSUME NEW k \in S, k < n PROVE k + 1 \in S
  <2>1. f[k + 1] = Ran1(f[k], s[k + 1], K)
    BY <1>1, <1>2, <1>4 DEF Unrolls
  <2>2. Kind(f[k]) /\ s[k + 1] \in Move
    BY <1>1, <1>4
  <2>3. CASE s[k + 1] \in K
    <3>1. PICK mv \in Move : mv = s[k + 1] /\ mv \in K
      BY <2>2, <2>3
    <3>2. mv.dst \in Written(K) /\ (mv.op = "swap" => mv.src \in Written(K))
      BY <3>1, WrittenAndRead
    <3>3. PICK r \in [Place -> Place] : r = f[k]
      BY <2>2
    <3>4. /\ Execute(r, mv) \in [Place -> Place]
          /\ \A p \in Place : Execute(r, mv)[p] =
                IF p = mv.dst THEN r[mv.src]
                ELSE IF mv.op = "swap" /\ p = mv.src THEN r[mv.dst] ELSE r[p]
      BY ExecuteAt
    <3>5. Kind(Execute(r, mv))
      BY <2>2, <3>2, <3>3, <3>4
    <3> QED
      BY <1>1, <1>4, <2>1, <2>3, <3>1, <3>3, <3>5 DEF Ran1
  <2>4. CASE s[k + 1] \notin K
    BY <1>1, <1>4, <2>1, <2>2, <2>4 DEF Ran1
  <2> QED
    BY <2>3, <2>4
<1>5. S \in SUBSET (0..n)
  OBVIOUS
<1>6. n \in S
  <2> HIDE DEF S
  <2> QED
    BY <1>1, <1>3, <1>4, <1>5, Climb
<1> QED
  BY <1>2, <1>6

(* Contents that agree wherever the moves read give the same results wherever *)
(* they write.                                                                *)
LEMMA ReadersAgree ==
  ASSUME NEW s \in Seq(Move), NEW K \in SUBSET ToSet(s),
         NEW m \in [Place -> Place], NEW w \in [Place -> Place],
         \A p \in Place : p \notin Reg \/ p \in ReadBy(K) => m[p] = w[p]
  PROVE  \A p \in Written(K) : Ran(m, s, K)[p] = Ran(w, s, K)[p]
<1> DEFINE n == Len(s)
           Known(k) == {p \in Place : \/ p \notin Reg \/ p \in ReadBy(K)
                                      \/ \E i \in 1..k : s[i] \in K /\ s[i].dst = p}
<1>1. n \in Nat /\ (\A i \in 1..n : s[i] \in Move) /\ K \in SUBSET Move
  BY MovesAreMoves
<1>2. \A mv \in K : \E i \in 1..n : s[i] = mv
  BY DEF ToSet
<1> HIDE DEF n
<1>3. PICK f : Unrolls(f, n, m, s, K) /\ Ran(m, s, K) = f[n]
  BY <1>1, RanUnrolls DEF n
<1>4. PICK g : Unrolls(g, n, w, s, K) /\ Ran(w, s, K) = g[n]
  BY <1>1, RanUnrolls DEF n
<1> DEFINE Same(a, b, k) == /\ a \in [Place -> Place] /\ b \in [Place -> Place]
                            /\ \A p \in Known(k) : a[p] = b[p]
           S == {k \in 0..n : Same(f[k], g[k], k)}
<1>5. 0 \in S
  BY <1>1, <1>3, <1>4 DEF Unrolls
<1>6. ASSUME NEW k \in S, k < n PROVE k + 1 \in S
  <2>1. f[k + 1] = Ran1(f[k], s[k + 1], K) /\ g[k + 1] = Ran1(g[k], s[k + 1], K)
    BY <1>1, <1>3, <1>4, <1>6 DEF Unrolls
  <2>2. Same(f[k], g[k], k) /\ s[k + 1] \in Move
    BY <1>1, <1>6
  <2>3. CASE s[k + 1] \in K
    <3>1. PICK mv \in Move : mv = s[k + 1] /\ mv \in K
      BY <2>2, <2>3
    <3>2. /\ mv.src \in Reg => mv.src \in ReadBy(K)
          /\ mv.op = "swap" => mv.dst \in ReadBy(K)
          /\ mv.dst \in Place /\ mv.src \in Place
      BY <3>1, WrittenAndRead DEF Move, Place
    <3>3. PICK a \in [Place -> Place], b \in [Place -> Place] : a = f[k] /\ b = g[k]
      BY <2>2
    <3>4. \A p \in Known(k + 1) : p = mv.dst \/ p \in Known(k)
      BY <1>6, <3>1
    <3>5. mv.src \in Known(k) /\ (mv.op = "swap" => mv.dst \in Known(k))
      BY <3>2
    <3>6. \A p \in Known(k) : a[p] = b[p]
      BY <2>2, <3>3
    <3> HIDE DEF Known
    <3>7. \A p \in Known(k + 1) : p \in Place
      BY DEF Known
    <3>8. \A p \in Known(k + 1) : Execute(a, mv)[p] = Execute(b, mv)[p]
      <4>1. \A p \in Place : Execute(a, mv)[p] =
                IF p = mv.dst THEN a[mv.src]
                ELSE IF mv.op = "swap" /\ p = mv.src THEN a[mv.dst] ELSE a[p]
        BY ExecuteAt
      <4>2. \A p \in Place : Execute(b, mv)[p] =
                IF p = mv.dst THEN b[mv.src]
                ELSE IF mv.op = "swap" /\ p = mv.src THEN b[mv.dst] ELSE b[p]
        BY ExecuteAt
      <4> QED
        BY <3>4, <3>5, <3>6, <3>7, <4>1, <4>2
    <3>9. Same(Execute(a, mv), Execute(b, mv), k + 1)
      BY <3>8, ExecuteAt
    <3> QED
      BY <1>1, <1>6, <2>1, <2>3, <3>1, <3>3, <3>9 DEF Ran1
  <2>4. CASE s[k + 1] \notin K
    <3>1. \A p \in Known(k + 1) : p \in Known(k)
      BY <1>6, <2>4
    <3> QED
      BY <1>1, <1>6, <2>1, <2>2, <2>4, <3>1 DEF Ran1
  <2> QED
    BY <2>3, <2>4
<1>7. n \in S
  <2>1. S \in SUBSET (0..n)
    OBVIOUS
  <2> HIDE DEF S
  <2> QED
    BY <1>1, <1>5, <1>6, <2>1, Climb
<1>8. \A p \in Written(K) : p \in Known(n)
  <2> SUFFICES ASSUME NEW mv \in K, NEW p, p = mv.dst \/ (mv.op = "swap" /\ p = mv.src)
               PROVE  p \in Known(n)
    BY DEF Written, Halves
  <2>1. mv \in Move
    BY <1>1
  <2>2. p \in Place /\ p \in Reg
    BY <2>1 DEF Move, Place
  <2>3. CASE p = mv.dst
    BY <1>2, <2>2, <2>3
  <2>4. CASE mv.op = "swap" /\ p = mv.src
    BY <2>1, <2>2, <2>4, WrittenAndRead
  <2> QED
    BY <2>3, <2>4
<1> QED
  BY <1>3, <1>4, <1>7, <1>8

-----------------------------------------------------------------------------
\* The comparison.

(* The scratch registers are volatile ones that are to be left alone by       *)
(* nobody, if there are two; registers other than rsp in any case.            *)
LEMMA Scratches ==
  ASSUME NEW avoid
  PROVE  /\ ScratchA(avoid) \in Reg \ {Rsp} /\ ScratchB(avoid) \in Reg \ {Rsp}
         /\ Cardinality(Volatile \ avoid) >= 2 =>
                ScratchA(avoid) \notin avoid /\ ScratchB(avoid) \notin avoid
<1>1. \A S \in SUBSET Volatile : S # {} => Min(S) \in S
  <2> SUFFICES ASSUME NEW S \in SUBSET Volatile, S # {} PROVE Min(S) \in S
    OBVIOUS
  <2>1. S \in SUBSET Nat
    BY RegAssumption, RegistersNamed
  <2> QED
    BY <2>1, Least DEF Min
<1> DEFINE A == Volatile \ avoid
           B == Volatile \ (avoid \cup {ScratchA(avoid)})
<1>2. /\ ScratchA(avoid) = LeastOr(A, Rax) /\ ScratchB(avoid) = LeastOr(B, Rcx)
      /\ A \in SUBSET Volatile /\ B \in SUBSET Volatile
  BY DEF ScratchA, ScratchB
<1>3. /\ A # {} => ScratchA(avoid) \in A
      /\ B # {} => ScratchB(avoid) \in B
      /\ A = {} => ScratchA(avoid) = Rax
      /\ B = {} => ScratchB(avoid) = Rcx
  BY <1>1, <1>2 DEF LeastOr
<1>4. ScratchA(avoid) \in Reg \ {Rsp} /\ ScratchB(avoid) \in Reg \ {Rsp}
  BY <1>2, <1>3, RegistersNamed
<1>5. ASSUME Cardinality(A) >= 2 PROVE A # {} /\ B # {}
  <2>1. A # {}
    BY <1>5, FS_EmptySet
  <2>2. ASSUME B = {} PROVE FALSE
    <3>1. A = {ScratchA(avoid)}
      BY <1>3, <2>1, <2>2
    <3>2. Cardinality({ScratchA(avoid)}) = 1
      BY FS_Singleton
    <3> QED
      BY <1>5, <3>1, <3>2
  <2> QED
    BY <2>1, <2>2
<1> QED
  BY <1>3, <1>4, <1>5

\* The three parts of the cpu, and where control goes.
Heads(c, dest) == c = [regs |-> c.regs, flags |-> c.flags, dest |-> dest]

(* The comparison changes no place but its scratch registers, and none at all *)
(* when it can name its operands; then its flags are of their contents.       *)
LEMMA TestEffect ==
  ASSUME NEW regs \in [Place -> Place], NEW flags, NEW dest, NEW cond \in Conditions, NEW avoid,
         NEW c, c = Test([regs |-> regs, flags |-> flags, dest |-> dest], cond, avoid)
  PROVE  /\ Heads(c, dest)
         /\ c.regs \in [Place -> Place]
         /\ \A p \in Place : p \notin {ScratchA(avoid), ScratchB(avoid)} => c.regs[p] = regs[p]
         /\ Direct(cond) => /\ c.regs = regs
                            /\ c.flags = IF Len(cond) = 2 THEN <<regs[cond[1]], regs[cond[2]]>>
                                         ELSE <<regs[cond[1]]>>
<1> DEFINE c0 == [regs |-> regs, flags |-> flags, dest |-> dest]
           sa == ScratchA(avoid)
           sb == ScratchB(avoid)
<1>1. sa \in Place /\ sb \in Place /\ sa \in Reg /\ sb \in Reg
  BY Scratches DEF Place
<1> HIDE DEF sa, sb
<1>2. CASE Len(cond) = 2
  <2>1. PICK a \in Place, b \in Place : a = cond[1] /\ b = cond[2]
    BY <1>2 DEF Conditions, Operand, Place
  <2> DEFINE r1 == IF a \in Reg THEN regs ELSE [regs EXCEPT ![sa] = regs[a]]
             r2 == IF b = Zero \/ b \in Reg THEN r1 ELSE [r1 EXCEPT ![sb] = r1[b]]
             fl == <<r2[RegFor(a, sa)], r2[IF b = Zero THEN Zero ELSE RegFor(b, sb)]>>
  <2>2. Ensure(c0, a, sa) = [regs |-> r1, flags |-> flags, dest |-> dest]
    BY DEF Ensure
  <2>3. (IF b = Zero THEN Ensure(c0, a, sa) ELSE Ensure(Ensure(c0, a, sa), b, sb))
            = [regs |-> r2, flags |-> flags, dest |-> dest]
    BY <2>2 DEF Ensure
  <2>4. c = [regs |-> r2, flags |-> fl, dest |-> dest]
    <3> DEFINE c2 == IF b = Zero THEN Ensure(c0, a, sa) ELSE Ensure(Ensure(c0, a, sa), b, sb)
    <3>1. c = Compare(c0, a, b, avoid)
      BY <1>2, <2>1 DEF Test
    <3>2. Compare(c0, a, b, avoid) =
              [c2 EXCEPT !.flags = <<c2.regs[RegFor(a, sa)],
                                     c2.regs[IF b = Zero THEN Zero ELSE RegFor(b, sb)]>>]
      BY DEF Compare, sa, sb
    <3>3. c2 = [regs |-> r2, flags |-> flags, dest |-> dest]
      BY <2>3
    <3> HIDE DEF c2, r2, c0
    <3> QED
      BY <3>1, <3>2, <3>3
  <2>5. r1 \in [Place -> Place] /\ \A p \in Place : p # sa => r1[p] = regs[p]
    BY <1>1
  <2>6. r2 \in [Place -> Place] /\ \A p \in Place : p \notin {sa, sb} => r2[p] = regs[p]
    BY <1>1, <2>5
  <2>7. Direct(cond) => r2 = regs /\ fl = <<regs[a], regs[b]>>
    BY <1>2, <2>1 DEF Direct, RegFor
  <2> HIDE DEF r2, fl
  <2> QED
    BY <1>2, <2>1, <2>4, <2>6, <2>7 DEF sa, sb, Heads
<1>3. CASE Len(cond) # 2
  <2>1. PICK a \in Place : a = cond[1]
    BY <1>3 DEF Conditions, Operand, Place
  <2>2. c = IF a \in Reg THEN [regs |-> regs, flags |-> <<regs[a]>>, dest |-> dest] ELSE c0
    BY <1>3, <2>1 DEF Test
  <2> QED
    BY <1>3, <2>1, <2>2 DEF Direct, Heads
<1> QED
  BY <1>2, <1>3

(* The same of a comparison at the end of the block. *)
LEMMA TestAtEnd ==
  ASSUME NEW cond \in Conditions, NEW avoid, NEW c, c = Test(AtEnd, cond, avoid)
  PROVE  /\ Heads(c, NoDest)
         /\ c.regs \in [Place -> Place]
         /\ \A p \in Place : p \notin {ScratchA(avoid), ScratchB(avoid)} => c.regs[p] = Start[p]
<1>1. Start \in [Place -> Place]
  BY DEF Start
<1>2. /\ Heads(c, NoDest)
      /\ c.regs \in [Place -> Place]
      /\ \A p \in Place : p \notin {ScratchA(avoid), ScratchB(avoid)} => c.regs[p] = Start[p]
      /\ Direct(cond) => /\ c.regs = Start
                         /\ c.flags = IF Len(cond) = 2 THEN <<Start[cond[1]], Start[cond[2]]>>
                                      ELSE <<Start[cond[1]]>>
  BY <1>1, TestEffect DEF AtEnd
<1> QED
  BY <1>2

-----------------------------------------------------------------------------
\* What the code of the terminator has made of the end of the block.
ByReturn(dirty) ==
    /\ term = [kind |-> "return", dirty |-> dirty]
    /\ cpu = Restore(RunMoves(AtEnd, Returned, FALSE), dirty)

ByAdoptedReturn(dirty) ==
    /\ term = [kind |-> "adopted_return", dirty |-> dirty]
    /\ cpu = Restore(AtEnd, dirty)

ByTailCall(dirty) ==
    /\ term = [kind |-> "tail_call", dirty |-> dirty]
    /\ cpu = Restore(RunMoves(AtEnd, StripRsp, FALSE), dirty)

ByJump == term = [kind |-> "jump"] /\ cpu = RunMoves(AtEnd, StripRsp, FALSE)

Refused == term = [kind |-> "refused"] /\ cpu = AtEnd

ByBranch(cond) ==
    /\ term = [kind |-> "branch", cond |-> cond]
    /\ cpu = IF Overwritten(cond)
             THEN RunMoves(Test(AtEnd, cond, ReadBy(StripRsp)), StripRsp, TRUE)
             ELSE Test(RunMoves(AtEnd, StripRsp, FALSE), cond, {})

BySwitch(arms, sel, v) ==
    /\ term = [kind |-> "switch", arms |-> arms, sel |-> sel, value |-> v]
    /\ \E c : /\ c = LoadSelector(RunMoves(AtEnd, StripRsp, FALSE), sel)
              /\ cpu = [c EXCEPT !.dest = IF c.regs[RegFor(sel, R11)] = sel
                                          THEN Chain(Targets(arms), v) ELSE NotCode]

Gone == \/ \E dirty \in SUBSET CalleeSaved :
               ByReturn(dirty) \/ ByAdoptedReturn(dirty) \/ ByTailCall(dirty)
        \/ ByJump
        \/ Refused
        \/ \E cond \in Conditions : ByBranch(cond)
        \/ \E arms \in Arms : \E sel \in Operand \ {Zero}, v \in 0..Len(arms) - 1 :
               BySwitch(arms, sel, v)

(* The inductive invariant: the terminator waits until all moves are          *)
(* sequenced, and is emitted once.                                            *)
TInv == BInv /\ IF term.kind = "none" THEN cpu = AtEnd ELSE Todo = {} /\ Gone

(* It holds at the start, and every step keeps it. *)
LEMMA InitTInv == TInit => TInv
<1> SUFFICES ASSUME TInit PROVE TInv
  OBVIOUS
<1>1. BInv
  BY InitBInv
<1>2. term.kind = "none" /\ cpu = AtEnd
  BY DEF TInit, Init, AtEnd, Start
<1> QED
  BY <1>1, <1>2 DEF TInv

(* Once nothing moves, the invariant of sequencing stays.                     *)
LEMMA RestBInv == BInv /\ UNCHANGED vars => BInv'
<1> SUFFICES ASSUME BInv, UNCHANGED vars PROVE BInv'
  OBVIOUS
<1>1. IInv'
  BY NextIInv DEF BInv
<1>2. out' = out /\ exits' = exits /\ pending' = pending /\ machine' = machine
  BY DEF vars
<1>3. Todo' = Todo
  BY <1>2 DEF Todo
<1>4. StripRsp' = StripRsp /\ Returned' = Returned /\ Start' = Start
  BY <1>2 DEF StripRsp, Returned, Keep, RetRegs, Start, Place
<1>5. LeftOut' = LeftOut
  BY <1>2 DEF LeftOut, Keep, RetRegs
<1>6. Ran(Start, out, StripRsp)' = Ran(Start, out, StripRsp) /\ Kept' = Kept
  BY <1>2, <1>4 DEF Kept
<1>7. RspApart' /\ SetForGood' /\ SetsFirst' /\ StripAgrees'
  BY <1>2, <1>3, <1>6 DEF BInv, RspApart, SetForGood, SetsFirst, StripAgrees
<1>8. KeptAgrees' /\ RaxArrives' /\ (Kept \in [Place -> Place])'
  <2>1. \A x : Keep(x)' <=> Keep(x)
    BY DEF Keep, RetRegs
  <2>2. KeptAgrees'
    BY <1>2, <1>5, <1>6, <2>1 DEF BInv, KeptAgrees, Place
  <2> QED
    BY <1>2, <1>3, <1>6, <2>2 DEF BInv, RaxArrives, Place
<1> QED
  BY <1>1, <1>2, <1>7, <1>8 DEF BInv

(* Emitting the terminator, and waiting. *)
LEMMA TerminateTInv == TInv /\ Terminate => TInv'
<1> SUFFICES ASSUME TInv, Terminate PROVE TInv'
  OBVIOUS
<1>1. Todo = {} /\ term.kind = "none" /\ cpu = AtEnd
  BY DEF Terminate, AtTerminator, TInv
<1>2. UNCHANGED vars
  BY DEF Terminate, Return, AdoptedReturn, TailCall, Jump, Refuse, BranchBeforeMoves,
         BranchAfterMoves, Switch, Leave
<1>3. BInv' /\ Todo' = {}
  BY <1>1, <1>2, RestBInv DEF TInv, Todo, vars
<1>4. /\ StripRsp' = StripRsp /\ Returned' = Returned /\ AtEnd' = AtEnd
      /\ \A c, K, f : RunMoves(c, K, f)' = RunMoves(c, K, f)
      /\ \A c, dirty : Restore(c, dirty)' = Restore(c, dirty)
      /\ \A cond : Overwritten(cond)' <=> Overwritten(cond)
  BY <1>2 DEF vars, StripRsp, Returned, Keep, RetRegs, AtEnd, Start, RunMoves, Ran, Restore,
              Saves, CallerValue, Overwritten, Written, Halves, BranchReads, Place
<1>5. ASSUME NEW dirty \in SUBSET CalleeSaved, Return(dirty) \/ AdoptedReturn(dirty) \/ TailCall(dirty)
      PROVE  /\ term'.kind # "none"
             /\ ByReturn(dirty)' \/ ByAdoptedReturn(dirty)' \/ ByTailCall(dirty)'
  <2>1. CASE Return(dirty)
    BY <1>1, <1>4, <2>1 DEF Return, Leave, ByReturn
  <2>2. CASE AdoptedReturn(dirty)
    BY <1>1, <1>4, <2>2 DEF AdoptedReturn, Leave, ByAdoptedReturn
  <2>3. CASE TailCall(dirty)
    BY <1>1, <1>4, <2>3 DEF TailCall, Leave, ByTailCall
  <2> QED
    BY <1>5, <2>1, <2>2, <2>3
<1>6. ASSUME Jump PROVE ByJump' /\ term'.kind # "none"
  BY <1>1, <1>4, <1>6 DEF Jump, Leave, ByJump
<1>7. ASSUME Refuse PROVE Refused' /\ term'.kind # "none"
  BY <1>1, <1>4, <1>7 DEF Refuse, Leave, Refused
<1>8. ASSUME NEW cond \in Conditions, BranchBeforeMoves(cond) \/ BranchAfterMoves(cond)
      PROVE  ByBranch(cond)' /\ term'.kind # "none"
  <2>1. CASE BranchBeforeMoves(cond)
    <3>1. /\ term' = [kind |-> "branch", cond |-> cond]
          /\ cpu' = RunMoves(Test(AtEnd, cond, ReadBy(StripRsp)), StripRsp, TRUE)
          /\ Overwritten(cond)'
      BY <1>1, <1>4, <2>1 DEF BranchBeforeMoves, Leave
    <3> QED
      BY <1>4, <3>1 DEF ByBranch
  <2>2. CASE BranchAfterMoves(cond)
    <3>1. /\ term' = [kind |-> "branch", cond |-> cond]
          /\ cpu' = Test(RunMoves(AtEnd, StripRsp, FALSE), cond, {})
          /\ ~ Overwritten(cond)'
      BY <1>1, <1>4, <2>2 DEF BranchAfterMoves, Leave
    <3> QED
      BY <1>4, <3>1 DEF ByBranch
  <2> QED
    BY <1>8, <2>1, <2>2
<1>9. ASSUME NEW arms \in Arms, NEW sel \in Operand \ {Zero}, NEW v \in 0..Len(arms) - 1,
             Switch(arms, sel, v)
      PROVE  BySwitch(arms, sel, v)' /\ term'.kind # "none"
  BY <1>1, <1>4, <1>9 DEF Switch, Leave, BySwitch
<1>10. Gone' /\ term'.kind # "none"
  BY <1>5, <1>6, <1>7, <1>8, <1>9 DEF Terminate, Gone
<1> QED
  BY <1>3, <1>10 DEF TInv

(* Every step keeps the invariant: moves are sequenced only before the        *)
(* terminator is emitted.                                                     *)
LEMMA NextTInv == TInv /\ [TNext]_tvars => TInv'
<1> SUFFICES ASSUME TInv, [TNext]_tvars PROVE TInv'
  OBVIOUS
<1>1. ASSUME NEW d \in Reg, EmitReady(d) \/ BreakCycle(d), UNCHANGED <<term, cpu>>
      PROVE  TInv'
  <2>1. Todo # {}
    BY <1>1 DEF EmitReady, BreakCycle, IsFirst, Ready
  <2>2. term.kind = "none" /\ cpu = AtEnd
    BY <2>1 DEF TInv
  <2>3. BInv'
    BY <1>1, EmitReadyBInv, BreakCycleBInv DEF TInv
  <2> QED
    BY <1>1, <2>2, <2>3 DEF TInv, AtEnd, Start, Place
<1>2. CASE Terminate
  BY <1>2, TerminateTInv
<1>3. CASE UNCHANGED tvars
  <2>1. BInv' /\ Todo' = Todo
    BY <1>3, RestBInv DEF TInv, tvars, vars, Todo
  <2>2. UNCHANGED <<term, cpu, out>>
    BY <1>3 DEF tvars, vars
  <2>3. /\ StripRsp' = StripRsp /\ Returned' = Returned /\ AtEnd' = AtEnd
        /\ \A c, K, f : RunMoves(c, K, f)' = RunMoves(c, K, f)
        /\ \A c, dirty : Restore(c, dirty)' = Restore(c, dirty)
        /\ \A cond : Overwritten(cond)' <=> Overwritten(cond)
    BY <2>2 DEF StripRsp, Returned, Keep, RetRegs, AtEnd, Start, RunMoves, Ran, Restore,
                Saves, CallerValue, Overwritten, Written, Halves, BranchReads, Place
  <2>4. \A dirty : /\ ByReturn(dirty)' <=> ByReturn(dirty)
                   /\ ByAdoptedReturn(dirty)' <=> ByAdoptedReturn(dirty)
                   /\ ByTailCall(dirty)' <=> ByTailCall(dirty)
    BY <2>2, <2>3 DEF ByReturn, ByAdoptedReturn, ByTailCall
  <2>5. (ByJump' <=> ByJump) /\ (Refused' <=> Refused)
    BY <2>2, <2>3 DEF ByJump, Refused
  <2>6. \A cond : ByBranch(cond)' <=> ByBranch(cond)
    BY <2>2, <2>3 DEF ByBranch
  <2>7. \A arms, sel, v : BySwitch(arms, sel, v)' <=> BySwitch(arms, sel, v)
    BY <2>2, <2>3 DEF BySwitch
  <2>8. Gone' <=> Gone
    BY <2>4, <2>5, <2>6, <2>7 DEF Gone
  <2> QED
    BY <2>1, <2>2, <2>3, <2>8 DEF TInv
<1> QED
  BY <1>1, <1>2, <1>3 DEF TNext, Sequence, Left

(* The inductive invariant holds throughout.                                  *)
THEOREM TerminatorInvariant == TSpec => []TInv
<1> QED
  BY InitTInv, NextTInv, PTL DEF TSpec

-----------------------------------------------------------------------------
\* What each terminator leaves behind.

(* The terminator emitted says how control has left. *)
LEMMA ByKind ==
  ASSUME TInv
  PROVE  /\ BInv /\ (term.kind # "none" => Todo = {})
         /\ term.kind = "return" => \E dirty \in SUBSET CalleeSaved : ByReturn(dirty)
         /\ term.kind = "adopted_return" => \E dirty \in SUBSET CalleeSaved : ByAdoptedReturn(dirty)
         /\ term.kind = "tail_call" => \E dirty \in SUBSET CalleeSaved : ByTailCall(dirty)
         /\ term.kind = "jump" => ByJump
         /\ term.kind = "branch" => \E cond \in Conditions : ByBranch(cond)
         /\ term.kind = "switch" =>
                \E arms \in Arms : \E sel \in Operand \ {Zero}, v \in 0..Len(arms) - 1 :
                    BySwitch(arms, sel, v)
<1>1. ASSUME NEW dirty
      PROVE  /\ ByReturn(dirty) => term.kind = "return"
             /\ ByAdoptedReturn(dirty) => term.kind = "adopted_return"
             /\ ByTailCall(dirty) => term.kind = "tail_call"
  <2>1. ASSUME ByReturn(dirty) PROVE term.kind = "return"
    BY <2>1 DEF ByReturn
  <2>2. ASSUME ByAdoptedReturn(dirty) PROVE term.kind = "adopted_return"
    BY <2>2 DEF ByAdoptedReturn
  <2>3. ASSUME ByTailCall(dirty) PROVE term.kind = "tail_call"
    BY <2>3 DEF ByTailCall
  <2> QED
    BY <2>1, <2>2, <2>3
<1>2. /\ ByJump => term.kind = "jump"
      /\ Refused => term.kind = "refused"
  <2>1. ASSUME ByJump PROVE term.kind = "jump"
    BY <2>1 DEF ByJump
  <2>2. ASSUME Refused PROVE term.kind = "refused"
    BY <2>2 DEF Refused
  <2> QED
    BY <2>1, <2>2
<1>3. \A cond : ByBranch(cond) => term.kind = "branch"
  BY DEF ByBranch
<1>4. \A arms, sel, v : BySwitch(arms, sel, v) => term.kind = "switch"
  BY DEF BySwitch
<1>5. BInv /\ (term.kind # "none" => Todo = {} /\ Gone)
  BY DEF TInv
<1> QED
  BY <1>1, <1>2, <1>3, <1>4, <1>5 DEF Gone

(* Moves that are to keep the flags change the contents only. *)
LEMMA FlagsKept ==
  ASSUME NEW c, c = [regs |-> c.regs, flags |-> c.flags, dest |-> c.dest], NEW K
  PROVE  RunMoves(c, K, TRUE) = [regs |-> Ran(c.regs, out, K), flags |-> c.flags, dest |-> c.dest]
<1>1. RunMoves(c, K, TRUE) = [c EXCEPT !.regs = Ran(c.regs, out, K), !.flags = c.flags]
  BY DEF RunMoves
<1> QED
  BY <1>1

(* At the end of the block there are no flags to keep. *)
LEMMA RunFromEnd ==
  ASSUME NEW K
  PROVE  RunMoves(AtEnd, K, FALSE) = [regs |-> Ran(Start, out, K), flags |-> NoFlags, dest |-> NoDest]
<1>1. RunMoves(AtEnd, K, FALSE) =
          [AtEnd EXCEPT !.regs = Ran(Start, out, K), !.flags = NoFlags]
  BY DEF RunMoves, AtEnd
<1> QED
  BY <1>1 DEF AtEnd

(* Restoring gives back every register the function must preserve, whatever   *)
(* is left out of the moves.                                                  *)
LEMMA Restored ==
  ASSUME TInv, NEW K \in SUBSET ToSet(out), NEW dirty \in SUBSET CalleeSaved,
         NEW r \in CalleeSaved
  PROVE  Restore(RunMoves(AtEnd, K, FALSE), dirty).regs[r] = CallerValue(r, dirty)
<1>1. out \in Seq(Move) /\ K \in SUBSET Move /\ Start \in [Place -> Place] /\ r \in Place
  BY MovesAreMoves, RegistersNamed DEF TInv, BInv, IInv, TypeOK, Start, Place
<1> DEFINE regs == Ran(Start, out, K)
           c == RunMoves(AtEnd, K, FALSE)
<1>2. c = [regs |-> regs, flags |-> NoFlags, dest |-> NoDest]
  BY RunFromEnd
<1>3. Restore(c, dirty).regs[r] = IF r \in Saves(dirty) THEN CallerValue(r, dirty) ELSE regs[r]
  <2> HIDE DEF c
  <2> QED
    BY <1>1, <1>2 DEF Restore
<1>4. ASSUME r \notin Saves(dirty)
      PROVE  regs[r] = CallerValue(r, dirty)
  <2>1. r \notin dirty /\ r \notin Written(ToSet(out))
    BY <1>4 DEF Saves
  <2>2. r \notin Written(K)
    BY <2>1 DEF Written
  <2>3. regs[r] = Start[r]
    BY <1>1, <2>2, Untouched
  <2> QED
    BY <1>1, <2>1, <2>3 DEF CallerValue, Start
<1> QED
  BY <1>3, <1>4

(* However the function is left, the caller finds its registers as they were. *)
THEOREM CallersAreRestored == TSpec => []CallerRegsRestored
<1>1. TInv => CallerRegsRestored
  <2> SUFFICES ASSUME TInv, term.kind \in {"return", "adopted_return", "tail_call"},
                      NEW r \in CalleeSaved
               PROVE  cpu.regs[r] = CallerValue(r, term.dirty)
    BY DEF CallerRegsRestored
  <2>2. PICK dirty \in SUBSET CalleeSaved : ByReturn(dirty) \/ ByAdoptedReturn(dirty) \/ ByTailCall(dirty)
    BY ByKind
  <2>3. CASE ByReturn(dirty)
    <3>1. Returned \in SUBSET ToSet(out)
      BY DEF Returned
    <3> QED
      BY <2>3, <3>1, Restored DEF ByReturn
  <2>4. CASE ByTailCall(dirty)
    <3>1. StripRsp \in SUBSET ToSet(out)
      BY DEF StripRsp
    <3> QED
      BY <2>4, <3>1, Restored DEF ByTailCall
  <2>5. CASE ByAdoptedReturn(dirty)
    <3>1. r \in Place
      BY RegistersNamed DEF Place
    <3>2. cpu.regs[r] = IF r \in Saves(dirty) THEN CallerValue(r, dirty) ELSE r
      BY <2>5, <3>1 DEF ByAdoptedReturn, Restore, AtEnd, Start
    <3>3. r \notin Saves(dirty) => r = CallerValue(r, dirty)
      BY DEF Saves, CallerValue
    <3> QED
      BY <2>5, <3>2, <3>3 DEF ByAdoptedReturn
  <2> QED
    BY <2>2, <2>3, <2>4, <2>5
<1> QED
  BY <1>1, TerminatorInvariant, PTL

(* What a return delivers although other moves are dropped.                   *)
THEOREM ReturnsArrive == TSpec => []ReturnedUnlessSwapDropped
<1>1. TInv => ReturnedUnlessSwapDropped
  <2> SUFFICES ASSUME TInv, term.kind = "return"
               PROVE  /\ Delivered(Rax)
                      /\ (\A mv \in ToSet(out) : mv.op = "swap" => {mv.dst, mv.src} \cap RetRegs # {})
                             => Delivered(Rdx)
    BY DEF ReturnedUnlessSwapDropped
  <2>1. Todo = {} /\ BInv /\ \E dirty \in SUBSET CalleeSaved : ByReturn(dirty)
    BY ByKind
  <2>2. PICK dirty \in SUBSET CalleeSaved : ByReturn(dirty)
    BY <2>1
  <2> DEFINE c == RunMoves(AtEnd, Returned, FALSE)
  <2>3. c = [regs |-> Kept, flags |-> NoFlags, dest |-> NoDest]
    BY RunFromEnd DEF Kept
  <2>4. \A r \in RetRegs : cpu.regs[r] = Kept[r]
    <3>1. \A r \in RetRegs : r \in Place /\ r \notin Saves(dirty)
      BY RegistersNamed, RetRegAssumption DEF RetRegs, Saves, Place
    <3>2. cpu = Restore(c, dirty)
      BY <2>2 DEF ByReturn
    <3> HIDE DEF c
    <3> QED
      BY <2>3, <3>1, <3>2 DEF Restore
  <2>5. Delivered(Rax)
    BY <2>1, <2>4 DEF Delivered, BInv, RaxArrives, RetRegs
  <2>6. ASSUME \A mv \in ToSet(out) : mv.op = "swap" => {mv.dst, mv.src} \cap RetRegs # {}
        PROVE  Delivered(Rdx)
    <3>1. \A mv \in ToSet(out) : mv.op = "swap" => Keep(mv)
      BY <2>6 DEF Keep
    <3>2. Rdx \in Place \ LeftOut
      BY RegistersNamed DEF Place, LeftOut, Keep, RetRegs
    <3>3. Kept[Rdx] = machine[Rdx]
      BY <2>1, <3>1, <3>2 DEF BInv, KeptAgrees
    <3>4. exits[Rdx] # NoLoc => machine[Rdx] = exits[Rdx]
      BY <2>1, RegistersNamed DEF BInv, IInv, SettledStays
    <3> QED
      BY <2>4, <3>3, <3>4 DEF Delivered, RetRegs
  <2> QED
    BY <2>5, <2>6
<1> QED
  BY <1>1, TerminatorInvariant, PTL

(* The moves without those of rsp: every exit is delivered, rsp stays, and    *)
(* what is not written is as it was.                                          *)
LEMMA Stripped ==
  ASSUME BInv, Todo = {}
  PROVE  /\ Ran(Start, out, StripRsp) \in [Place -> Place]
         /\ Ran(Start, out, StripRsp)[Rsp] = Rsp
         /\ \A r \in Reg \ {Rsp} : exits[r] # NoLoc => Ran(Start, out, StripRsp)[r] = exits[r]
         /\ \A p \in Place \ Written(StripRsp) : Ran(Start, out, StripRsp)[p] = p
         /\ Written(StripRsp) \subseteq Reg \ {Rsp}
         /\ StripRsp \subseteq ToSet(out) /\ out \in Seq(Move)
<1>1. /\ machine \in [Place -> Place] /\ out \in Seq(Move) /\ Rsp \in Place
      /\ Ran(Start, out, StripRsp) = [machine EXCEPT ![Rsp] = Rsp]
      /\ \A r \in Reg : r \in Place /\ (exits[r] # NoLoc => machine[r] = exits[r])
  BY RegistersNamed DEF BInv, IInv, TypeOK, StripAgrees, SettledStays, Place
<1>2. StripRsp \subseteq ToSet(out) /\ StripRsp \in SUBSET Move
  BY <1>1, MovesAreMoves DEF StripRsp
<1>3. Start \in [Place -> Place] /\ \A p \in Place : Start[p] = p
  BY DEF Start
<1>4. \A p \in Place \ Written(StripRsp) : Ran(Start, out, StripRsp)[p] = p
  <2>1. \A p \in Place \ Written(StripRsp) : Ran(Start, out, StripRsp)[p] = Start[p]
    BY <1>1, <1>2, <1>3, Untouched
  <2> QED
    BY <1>3, <2>1
<1>5. Written(StripRsp) \subseteq Reg \ {Rsp}
  <2> SUFFICES ASSUME NEW mv \in StripRsp,
                      NEW r, r = mv.dst \/ (mv.op = "swap" /\ r = mv.src)
               PROVE  r \in Reg \ {Rsp}
    BY DEF Written, Halves
  <2>1. mv \in Move /\ (mv.op = "swap" \/ mv.dst # Rsp) /\ mv \in ToSet(out)
    BY <1>2 DEF StripRsp
  <2>2. mv.src # Rsp /\ (mv.op = "swap" => mv.dst # Rsp)
    BY <2>1 DEF BInv, RspApart
  <2> QED
    BY <2>1, <2>2 DEF Move
<1> QED
  BY <1>1, <1>2, <1>4, <1>5

(* Which machine a branch leaves behind. *)
LEMMA BranchLeaves ==
  ASSUME TInv, term.kind = "branch"
  PROVE  /\ term.cond \in Conditions
         /\ Overwritten(term.cond) =>
              \E t : /\ t = Test(AtEnd, term.cond, ReadBy(StripRsp))
                     /\ cpu = [regs |-> Ran(t.regs, out, StripRsp), flags |-> t.flags, dest |-> NoDest]
         /\ ~Overwritten(term.cond) =>
              cpu = Test([regs |-> Ran(Start, out, StripRsp), flags |-> NoFlags, dest |-> NoDest],
                         term.cond, {})
<1>1. PICK cond \in Conditions : ByBranch(cond)
  BY ByKind
<1>2. term.cond = cond
  BY <1>1 DEF ByBranch
<1>3. ASSUME Overwritten(cond)
      PROVE  \E t : /\ t = Test(AtEnd, cond, ReadBy(StripRsp))
                    /\ cpu = [regs |-> Ran(t.regs, out, StripRsp), flags |-> t.flags, dest |-> NoDest]
  <2>1. PICK avoid, t : /\ avoid = ReadBy(StripRsp) /\ t = Test(AtEnd, cond, avoid)
                        /\ cpu = RunMoves(t, StripRsp, TRUE)
    BY <1>1, <1>3 DEF ByBranch
  <2>2. t = [regs |-> t.regs, flags |-> t.flags, dest |-> NoDest]
    <3>1. Heads(t, NoDest)
      BY <2>1, TestAtEnd
    <3> QED
      BY <3>1 DEF Heads
  <2>3. t.dest = NoDest
    BY <2>2
  <2>4. cpu = [regs |-> Ran(t.regs, out, StripRsp), flags |-> t.flags, dest |-> NoDest]
    BY <2>1, <2>2, <2>3, FlagsKept
  <2> QED
    BY <2>1, <2>4
<1>4. ASSUME ~Overwritten(cond)
      PROVE  cpu = Test([regs |-> Ran(Start, out, StripRsp), flags |-> NoFlags, dest |-> NoDest], cond, {})
  BY <1>1, <1>4, RunFromEnd DEF ByBranch
<1> QED
  BY <1>2, <1>3, <1>4

(* A comparison that can name its operands is of the values at the end of the *)
(* block, and scratches nothing.                                              *)
LEMMA DirectBranch ==
  ASSUME TInv, term.kind = "branch", Direct(term.cond)
  PROVE  cpu = [regs |-> Ran(Start, out, StripRsp), flags |-> term.cond, dest |-> NoDest]
<1> DEFINE R == Ran(Start, out, StripRsp)
           cond == term.cond
<1>1. BInv /\ Todo = {} /\ cond \in Conditions /\ Start \in [Place -> Place]
  BY ByKind, BranchLeaves DEF Start
<1>2. cond = IF Len(cond) = 2 THEN <<cond[1], cond[2]>> ELSE <<cond[1]>>
  BY <1>1 DEF Conditions
<1>3. /\ cond[1] \in Place /\ Start[cond[1]] = cond[1]
      /\ Len(cond) = 2 => cond[2] \in Place /\ Start[cond[2]] = cond[2]
  BY <1>1, RetRegAssumption DEF Direct, Start, Place
<1>4. CASE Overwritten(cond)
  <2>1. PICK t : /\ t = Test(AtEnd, cond, ReadBy(StripRsp))
                 /\ cpu = [regs |-> Ran(t.regs, out, StripRsp), flags |-> t.flags, dest |-> NoDest]
    BY <1>4, BranchLeaves
  <2>2. t = Test([regs |-> Start, flags |-> NoFlags, dest |-> NoDest], cond, ReadBy(StripRsp))
    BY <2>1 DEF AtEnd
  <2> HIDE DEF cond
  <2>3. Direct(cond)
    BY DEF cond
  <2>4. /\ t.regs = Start
        /\ t.flags = IF Len(cond) = 2 THEN <<Start[cond[1]], Start[cond[2]]>> ELSE <<Start[cond[1]]>>
    BY <1>1, <2>2, <2>3, TestEffect
  <2> QED
    BY <1>2, <1>3, <2>1, <2>4 DEF cond
<1>5. CASE ~Overwritten(cond)
  <2>1. cpu = Test([regs |-> R, flags |-> NoFlags, dest |-> NoDest], cond, {})
    BY <1>5, BranchLeaves
  <2>2. R \in [Place -> Place] /\ \A p \in Place \ Written(StripRsp) : R[p] = p
    BY <1>1, Stripped
  <2>3. /\ R[cond[1]] = cond[1]
        /\ Len(cond) = 2 => R[cond[2]] = cond[2]
    <3>1. cond[1] \in Reg => cond[1] \notin Written(StripRsp)
      BY <1>1, <1>2, <1>5 DEF Overwritten, BranchReads, ToSet
    <3>2. Len(cond) = 2 /\ cond[2] \in Reg => cond[2] \notin Written(StripRsp)
      BY <1>1, <1>2, <1>5 DEF Overwritten, BranchReads, ToSet
    <3>3. \A p \in Place : p \notin Reg => p \notin Written(StripRsp)
      BY <1>1, Stripped
    <3> QED
      BY <1>3, <2>2, <3>1, <3>2, <3>3
  <2> HIDE DEF cond, R
  <2>4. Direct(cond)
    BY DEF cond
  <2>5. /\ Heads(cpu, NoDest)
        /\ cpu.regs = R
        /\ cpu.flags = IF Len(cond) = 2 THEN <<R[cond[1]], R[cond[2]]>> ELSE <<R[cond[1]]>>
    BY <1>1, <2>1, <2>2, <2>4, TestEffect
  <2> QED
    BY <1>2, <2>3, <2>5 DEF cond, R, Heads
<1> QED
  BY <1>4, <1>5

(* A branch decides on the values its operands had at the end of the block.   *)
THEOREM BranchesAreExact == TSpec => []BranchIsExact
<1>1. TInv => BranchIsExact
  BY DirectBranch DEF BranchIsExact
<1> QED
  BY <1>1, TerminatorInvariant, PTL

(* Which machine a switch leaves behind. *)
LEMMA SwitchLeaves ==
  ASSUME TInv, term.kind = "switch"
  PROVE  \E c :
           /\ c = LoadSelector([regs |-> Ran(Start, out, StripRsp), flags |-> NoFlags, dest |-> NoDest],
                               term.sel)
           /\ cpu.regs = c.regs
           /\ cpu.dest = IF c.regs[RegFor(term.sel, R11)] = term.sel
                         THEN Chain(Targets(term.arms), term.value) ELSE NotCode
<1>1. PICK arms \in Arms : \E sel \in Operand \ {Zero}, v \in 0..Len(arms) - 1 : BySwitch(arms, sel, v)
  BY ByKind
<1>2. PICK sel \in Operand \ {Zero}, v \in 0..Len(arms) - 1 : BySwitch(arms, sel, v)
  BY <1>1
<1>3. term.arms = arms /\ term.sel = sel /\ term.value = v
  BY <1>2 DEF BySwitch
<1>4. PICK c : /\ c = LoadSelector(RunMoves(AtEnd, StripRsp, FALSE), sel)
               /\ cpu = [c EXCEPT !.dest = IF c.regs[RegFor(sel, R11)] = sel
                                           THEN Chain(Targets(arms), v) ELSE NotCode]
  BY <1>2 DEF BySwitch
<1> DEFINE end == [regs |-> Ran(Start, out, StripRsp), flags |-> NoFlags, dest |-> NoDest]
<1>5. c = LoadSelector(end, sel)
  BY <1>4, RunFromEnd
<1>6. c = [regs |-> c.regs, flags |-> c.flags, dest |-> c.dest]
  BY <1>5 DEF LoadSelector, Ensure
<1>7. /\ cpu.regs = c.regs
      /\ cpu.dest = IF c.regs[RegFor(sel, R11)] = sel THEN Chain(Targets(arms), v) ELSE NotCode
  BY <1>4, <1>6
<1> QED
  BY <1>3, <1>5, <1>7

(* Every exit is in its register when control leaves for another block, and   *)
(* at a tail call in every register that is not handed back to the caller.    *)
THEOREM ExitsAllArrive == TSpec => []ExitsArrive
<1> DEFINE R == Ran(Start, out, StripRsp)
<1>1. TInv => ExitsArrive
  <2> SUFFICES ASSUME TInv, term.kind \in {"branch", "jump", "switch", "tail_call"}, ~Scratched
               PROVE  /\ \A r \in Reg \ {Rsp} :
                           Delivered(r) \/ (term.kind = "tail_call" /\ r \in Saves(term.dirty))
                      /\ cpu.regs[Rsp] = Rsp
    BY DEF ExitsArrive
  <2>1. BInv /\ Todo = {}
    BY ByKind
  <2>2. /\ R \in [Place -> Place] /\ R[Rsp] = Rsp
        /\ \A r \in Reg \ {Rsp} : exits[r] # NoLoc => R[r] = exits[r]
    BY <2>1, Stripped
  <2>3. CASE term.kind = "tail_call"
    <3>1. PICK dirty \in SUBSET CalleeSaved : ByTailCall(dirty)
      BY <2>3, ByKind
    <3> DEFINE c == RunMoves(AtEnd, StripRsp, FALSE)
    <3>2. c = [regs |-> R, flags |-> NoFlags, dest |-> NoDest]
      BY RunFromEnd
    <3>3. term.dirty = dirty /\ cpu = Restore(c, dirty)
      BY <3>1 DEF ByTailCall
    <3>4. \A r \in Reg : r \notin Saves(dirty) => cpu.regs[r] = R[r]
      <4> HIDE DEF c, R
      <4> QED
        BY <3>2, <3>3 DEF Restore, Place
    <3>5. Rsp \in Reg /\ Rsp \notin Saves(dirty)
      BY RegistersNamed DEF Saves
    <3> QED
      BY <2>2, <2>3, <3>3, <3>4, <3>5 DEF Delivered
  <2>4. ASSUME cpu.regs = R
        PROVE  (\A r \in Reg \ {Rsp} : Delivered(r)) /\ cpu.regs[Rsp] = Rsp
    BY <2>2, <2>4 DEF Delivered
  <2>5. CASE term.kind = "jump"
    <3> DEFINE c == RunMoves(AtEnd, StripRsp, FALSE)
    <3>1. c = [regs |-> R, flags |-> NoFlags, dest |-> NoDest]
      BY RunFromEnd
    <3>2. cpu = c
      BY <2>5, ByKind DEF ByJump
    <3>3. cpu.regs = R
      <4> HIDE DEF c, R
      <4> QED
        BY <3>1, <3>2
    <3> QED
      BY <2>4, <3>3
  <2>6. CASE term.kind = "branch"
    <3>1. Direct(term.cond)
      BY <2>6 DEF Scratched
    <3>2. cpu = [regs |-> R, flags |-> term.cond, dest |-> NoDest]
      BY <2>6, <3>1, DirectBranch
    <3> QED
      BY <2>4, <3>2
  <2>7. CASE term.kind = "switch"
    <3>1. term.sel \in Reg
      BY <2>7 DEF Scratched
    <3>2. PICK c : /\ c = LoadSelector([regs |-> R, flags |-> NoFlags, dest |-> NoDest], term.sel)
                   /\ cpu.regs = c.regs
      BY <2>7, SwitchLeaves
    <3>3. cpu.regs = R
      BY <3>1, <3>2 DEF LoadSelector, Ensure
    <3> QED
      BY <2>4, <3>3
  <2> QED
    BY <2>3, <2>5, <2>6, <2>7
<1> QED
  BY <1>1, TerminatorInvariant, PTL

(* With two free registers, the scratch registers of a comparison that is     *)
(* emitted before the moves spoil nothing that the moves write.               *)
THEOREM ScratchIsHarmless == TSpec => []ScratchSparesMoves
<1> DEFINE K == StripRsp
<1>1. TInv => ScratchSparesMoves
  <2> SUFFICES ASSUME TInv, term.kind = "branch", Overwritten(term.cond),
                      Cardinality(Volatile \ ReadBy(K)) >= 2,
                      NEW r \in Written(K)
               PROVE  Delivered(r)
    BY DEF ScratchSparesMoves
  <2>1. BInv /\ Todo = {} /\ term.cond \in Conditions
    BY ByKind, BranchLeaves
  <2>2. /\ Written(K) \subseteq Reg \ {Rsp} /\ K \subseteq ToSet(out) /\ out \in Seq(Move)
        /\ exits[r] # NoLoc => Ran(Start, out, K)[r] = exits[r]
    BY <2>1, Stripped
  <2>3. PICK cond, t : /\ cond = term.cond
                       /\ t = Test(AtEnd, cond, ReadBy(K))
                       /\ cpu = [regs |-> Ran(t.regs, out, K), flags |-> t.flags, dest |-> NoDest]
    BY BranchLeaves
  <2> DEFINE avoid == ReadBy(K)
  <2>4. /\ t.regs \in [Place -> Place]
        /\ \A p \in Place : p \notin {ScratchA(avoid), ScratchB(avoid)} => t.regs[p] = Start[p]
    BY <2>1, <2>3, TestAtEnd
  <2>5. /\ ScratchA(avoid) \in Reg /\ ScratchB(avoid) \in Reg
        /\ ScratchA(avoid) \notin avoid /\ ScratchB(avoid) \notin avoid
    BY Scratches
  <2>6. PICK w \in [Place -> Place] : w = t.regs
    BY <2>4
  <2>7. PICK m \in [Place -> Place] : m = Start
    BY DEF Start
  <2>8. \A p \in Place : p \notin Reg \/ p \in ReadBy(K) => m[p] = w[p]
    BY <2>4, <2>5, <2>6, <2>7
  <2>9. \A p \in Written(K) : Ran(m, out, K)[p] = Ran(w, out, K)[p]
    BY <2>2, <2>8, ReadersAgree
  <2>10. cpu.regs[r] = Ran(Start, out, K)[r]
    BY <2>3, <2>6, <2>7, <2>9
  <2> QED
    BY <2>2, <2>10 DEF Delivered
<1> QED
  BY <1>1, TerminatorInvariant, PTL

(* The chain of comparisons leads to the target of the value's number. *)
LEMMA ChainIndexes ==
  ASSUME NEW arms \in Arms, NEW v \in 0..Len(arms) - 1
  PROVE  Chain(arms, v) = arms[v + 1]
<1>1. arms \in Seq(ToSet(arms))
  BY RetRegAssumption
<1>2. Len(arms) \in Nat
  BY <1>1
<1>3. v < Len(arms) - 1 \/ v + 1 = Len(arms)
  BY <1>2
<1> QED
  BY <1>3 DEF Chain

(* A switch takes the arm recovered for its value when no arm was skipped or  *)
(* merged away and no move overwrites the selector.                           *)
THEOREM SwitchesArrive == TSpec => []SwitchTakesItsArmIfPlain
<1> DEFINE R == Ran(Start, out, StripRsp)
<1>1. TInv => SwitchTakesItsArmIfPlain
  <2> SUFFICES ASSUME TInv, term.kind = "switch", Targets(term.arms) = term.arms,
                      term.sel \notin Written(StripRsp)
               PROVE  cpu.dest = Selects(term.arms, term.value)
    BY DEF SwitchTakesItsArmIfPlain
  <2>1. BInv /\ Todo = {}
    BY ByKind
  <2>2. /\ R \in [Place -> Place]
        /\ \A p \in Place \ Written(StripRsp) : R[p] = p
    BY <2>1, Stripped
  <2>3. PICK arms \in Arms : \E sel \in Operand \ {Zero}, v \in 0..Len(arms) - 1 : BySwitch(arms, sel, v)
    BY ByKind
  <2>4. PICK sel \in Operand \ {Zero}, v \in 0..Len(arms) - 1 : BySwitch(arms, sel, v)
    BY <2>3
  <2>5. term.arms = arms /\ term.sel = sel /\ term.value = v
    BY <2>4 DEF BySwitch
  <2>6. PICK c : /\ c = LoadSelector([regs |-> R, flags |-> NoFlags, dest |-> NoDest], sel)
                 /\ cpu.dest = IF c.regs[RegFor(sel, R11)] = sel
                               THEN Chain(Targets(arms), v) ELSE NotCode
    BY <2>5, SwitchLeaves
  <2>7. sel \in Place /\ R11 \in Place /\ R[sel] = sel
    BY <2>2, <2>5, RegistersNamed DEF Operand, Place
  <2>8. c.regs[RegFor(sel, R11)] = sel
    <3> HIDE DEF R
    <3>1. c = IF sel \in Reg THEN [regs |-> R, flags |-> NoFlags, dest |-> NoDest]
              ELSE [regs |-> [R EXCEPT ![R11] = R[sel]], flags |-> NoFlags, dest |-> NoDest]
      BY <2>6 DEF LoadSelector, Ensure
    <3> QED
      BY <2>2, <2>7, <3>1 DEF RegFor
  <2>9. Chain(arms, v) = arms[v + 1]
    BY ChainIndexes
  <2> QED
    BY <2>5, <2>6, <2>8, <2>9 DEF Selects
<1> QED
  BY <1>1, TerminatorInvariant, PTL

-----------------------------------------------------------------------------
\* Contents of every place.
IsCell(c) == c = Cell(c.v, c.n) /\ c.n \in 0..8
IsContents(m) == m = [p \in Places |-> m[p]] /\ \A p \in Places : IsCell(m[p])

\* A place has a value at a width; contents are as before but for some places.
Has(m, p, v, w) == p \in Places /\ m[p].v = v /\ m[p].n >= w
Spares(m, m2, S) == IsContents(m2) /\ \A p \in Places \ S : m2[p] = m[p]

\* What the allocator hands over, and contents in which the operands are there.
Handed == /\ instr \in Instr /\ DOMAIN home = Reads(instr) \cup Writes(instr) /\ IsHome(instr, home)
          /\ live \subseteq ToSet(Volatiles) \ {home[o] : o \in DOMAIN home}
Given(m) == /\ IsContents(m)
            /\ \A o \in Reads(instr) : ~Constant(o) => Has(m, home[o], Value(o), WidthOf(instr, o))
            /\ \A r \in live : m[r] = Cell(Value(r), 8)

\* The instruction's value is in r, and only what nobody needs has changed besides.
Unused == Free({})
Scratch == {"park1", "park2", "park3"}
Computed(m, m2, r, v, w) == Has(m2, r, v, w) /\ Spares(m, m2, {r} \cup Unused \cup Scratch)

-----------------------------------------------------------------------------
(* Single machine instructions                                                *)

(* The low bytes of a cell.                                                   *)
LEMMA LowIs ==
  ASSUME NEW c, IsCell(c), NEW w \in 0..8
  PROVE  /\ IsCell(LowBytes(c, w)) /\ LowBytes(c, w).v = c.v
         /\ \A w2 \in 0..w : c.n >= w2 => LowBytes(c, w).n >= w2
         /\ w = 8 => LowBytes(c, w) = c
<1>1. Cell(c.v, w).v = c.v /\ Cell(c.v, w).n = w
  BY DEF Cell
<1>2. IsCell(Cell(c.v, w))
  BY <1>1 DEF IsCell
<1>3. CASE c.n < w
  BY <1>3 DEF LowBytes
<1>4. CASE ~(c.n < w)
  <2>1. LowBytes(c, w) = Cell(c.v, w)
    BY <1>4 DEF LowBytes
  <2>2. w = 8 => c.n = 8
    BY <1>4 DEF IsCell
  <2>3. w = 8 => LowBytes(c, w) = c
    BY <2>1, <2>2 DEF IsCell
  <2> QED
    BY <1>1, <1>2, <2>1, <2>3
<1> QED
  BY <1>3, <1>4

(* What a move brings and spares.                                             *)
LEMMA MovIs ==
  ASSUME NEW m, IsContents(m), NEW to \in Places, NEW from \in Places, NEW w \in 0..8
  PROVE  /\ Spares(m, Mov(m, to, from, w), {to})
         /\ Mov(m, to, from, w)[to] = LowBytes(m[from], w)
         /\ w = 8 => Mov(m, to, from, w)[to] = m[from]
<1> DEFINE c == LowBytes(m[from], w)
           m2 == [m EXCEPT ![to] = c]
<1>1. DOMAIN m = Places /\ (\A p \in Places : IsCell(m[p])) /\ IsCell(c) /\ (w = 8 => c = m[from])
  BY LowIs DEF IsContents
<1> HIDE DEF c
<1>2. m2[to] = c /\ (\A p \in Places \ {to} : m2[p] = m[p]) /\ m2 = [p \in Places |-> m2[p]]
  BY <1>1
<1>3. IsContents(m2)
  BY <1>1, <1>2 DEF IsContents
<1>4. Mov(m, to, from, w) = m2
  BY DEF Mov, c
<1> HIDE DEF m2
<1> QED
  BY <1>1, <1>2, <1>3, <1>4 DEF Spares, c

(* A move of everything.                                                      *)
LEMMA MovesAll ==
  ASSUME NEW m, IsContents(m), NEW to \in Places, NEW from \in Places, NEW m2, m2 = Mov(m, to, from, 8)
  PROVE  Spares(m, m2, {to}) /\ m2[to] = m[from]
BY MovIs

(* A move brings a value at its width.                                        *)
LEMMA MovBrings ==
  ASSUME NEW m, IsContents(m), NEW to \in Places, NEW from, NEW v, NEW w \in 0..8, NEW w2 \in 0..w, Has(m, from, v, w2)
  PROVE  Has(Mov(m, to, from, w), to, v, w2)
<1>1. from \in Places /\ IsCell(m[from])
  BY DEF Has, IsContents
<1>2. Mov(m, to, from, w)[to] = LowBytes(m[from], w)
  BY <1>1, MovIs
<1>3. LowBytes(m[from], w).v = m[from].v /\ \A x \in 0..w : m[from].n >= x => LowBytes(m[from], w).n >= x
  BY <1>1, LowIs
<1> QED
  BY <1>2, <1>3 DEF Has

(* What setting a register brings and spares.                                 *)
LEMMA SetIs ==
  ASSUME NEW m, IsContents(m), NEW p \in Places, NEW v, NEW w \in 0..8
  PROVE  Spares(m, Set(m, p, v, w), {p}) /\ Has(Set(m, p, v, w), p, v, w)
<1>1. Set(m, p, v, w) = [m EXCEPT ![p] = Cell(v, w)] /\ DOMAIN m = Places
  BY DEF Set, IsContents
<1>2. Cell(v, w).v = v /\ Cell(v, w).n = w
  BY DEF Cell
<1>3. IsCell(Cell(v, w))
  BY <1>2 DEF IsCell
<1>4. Set(m, p, v, w)[p] = Cell(v, w) /\ \A q \in Places \ {p} : Set(m, p, v, w)[q] = m[q]
  BY <1>1
<1>5. IsContents(Set(m, p, v, w))
  <2>1. Set(m, p, v, w) = [q \in Places |-> Set(m, p, v, w)[q]]
    BY <1>1
  <2> QED
    BY <2>1, <1>3, <1>4 DEF IsContents
<1> QED
  BY <1>2, <1>4, <1>5 DEF Spares, Has

(* An exchange.                                                               *)
LEMMA XchgIs ==
  ASSUME NEW m, IsContents(m), NEW p \in Places, NEW q \in Places
  PROVE  /\ Spares(m, Xchg(m, p, q), {p, q}) /\ Xchg(m, p, q)[p] = m[q] /\ Xchg(m, p, q)[q] = m[p]
<1> DEFINE m2 == Xchg(m, p, q)
<1>1. m2 = [[m EXCEPT ![p] = m[q]] EXCEPT ![q] = m[p]] /\ DOMAIN m = Places
  BY DEF Xchg, IsContents
<1> HIDE DEF m2
<1>2. m2[p] = m[q] /\ m2[q] = m[p] /\ (\A x \in Places \ {p, q} : m2[x] = m[x]) /\ DOMAIN m2 = Places
  BY <1>1
<1>3. \A x \in Places : IsCell(m2[x])
  BY <1>2 DEF IsContents
<1>4. m2 = [x \in Places |-> m2[x]]
  BY <1>1
<1> QED
  BY <1>2, <1>3, <1>4 DEF Spares, IsContents, m2

(* What spares some places twice spares what is in neither.                   *)
LEMMA SparesBoth ==
  ASSUME NEW m, NEW m2, NEW m3, NEW S, NEW T, NEW U, Spares(m, m2, S), Spares(m2, m3, T), S \subseteq U, T \subseteq U
  PROVE  Spares(m, m3, U)
BY DEF Spares

(* Contents that were spared are still there.                                 *)
LEMMA HasStill ==
  ASSUME NEW m, NEW m2, NEW S, Spares(m, m2, S), NEW p, NEW v, NEW w, Has(m, p, v, w), p \notin S
  PROVE  Has(m2, p, v, w)
BY DEF Spares, Has

(* What is read of a place that has a value.                                  *)
LEMMA GetIs ==
  ASSUME NEW m, NEW p, NEW v, NEW w, Has(m, p, v, w)
  PROVE  Get(m, p, w) = v
BY DEF Has, Get

-----------------------------------------------------------------------------
(* Registers and homes                                                        *)

\* An operand that is no constant is where it should be.
There(m, o, w) == ~Constant(o) => Has(m, home[o], Value(o), w)

(* What kinds of places there are.                                            *)
LEMMA PlacesDiffer ==
  /\ Registers \cap Slots = {} /\ Registers \cap Parks = {} /\ Registers \cap Shapes = {}
  /\ Slots \cap Parks = {} /\ Slots \cap Shapes = {} /\ Registers \subseteq Places /\ Slots \subseteq Places
  /\ ToSet(Volatiles) \subseteq Registers /\ {"rax", "rcx", "rdx", "r10", "r11"} \subseteq ToSet(Volatiles)
  /\ {"park0", "park1", "park2", "park3"} \subseteq Places \ (Registers \cup Slots)
<1>1. Slots = {"slot_a", "slot_b", "slot_c", "slot_d"}
  BY DEF Slots, Slot, Operands
<1>2. /\ Registers \cap Slots = {} /\ Registers \cap Parks = {} /\ Registers \cap Shapes = {}
      /\ {"rax", "rcx", "rdx", "r10", "r11"} \subseteq ToSet(Volatiles)
  BY RegisterAssumption
<1>3. Slots \cap Parks = {} /\ Slots \cap Shapes = {}
  BY <1>1 DEF Parks, Shapes
<1>4. Registers \subseteq Places /\ Slots \subseteq Places /\ Parks \subseteq Places /\ ToSet(Volatiles) \subseteq Registers
  BY DEF Places, Registers
<1>5. Parks = {"park0", "park1", "park2", "park3"}
  BY DEF Parks
<1>6. {"park0", "park1", "park2", "park3"} \subseteq Places \ (Registers \cup Slots)
  BY <1>2, <1>3, <1>4, <1>5
<1> QED
  BY <1>2, <1>3, <1>4, <1>6

(* The first of some registers is one of them.                                *)
LEMMA FirstOfIs ==
  ASSUME NEW regs, regs \cap ToSet(Volatiles) # {}
  PROVE  FirstOf(regs) \in regs \cap ToSet(Volatiles)
<1> DEFINE Of(i) == i \in DOMAIN Volatiles /\ Volatiles[i] \in regs
           Is(i) == /\ Volatiles[i] \in regs
                    /\ \A j \in 1..(i - 1) : Volatiles[j] \notin regs
<1>1. DOMAIN Volatiles = 1..Len(Volatiles) /\ Len(Volatiles) \in Nat
  BY RegisterAssumption
<1>2. ToSet(Volatiles) = {Volatiles[i] : i \in DOMAIN Volatiles}
  BY DEF ToSet
<1>3. PICK k \in DOMAIN Volatiles : Volatiles[k] \in regs
  BY <1>2
<1> DEFINE S == {i \in Nat : Of(i)}
<1>4. k \in S
  BY <1>1, <1>3
<1>5. PICK i \in S : \A j \in S : <<j, i>> \notin OpToRel(<, Nat)
  <2>1. S \subseteq Nat /\ S # {}
    BY <1>4
  <2> HIDE DEF S
  <2> QED
    BY <2>1, NatLessThanWellFounded, WFMin
<1>6. i \in DOMAIN Volatiles /\ Volatiles[i] \in regs /\ i \in Nat
  BY <1>5
<1>7. ASSUME NEW j \in 1..(i - 1)
      PROVE  Volatiles[j] \notin regs
  <2>1. j \in Nat /\ j < i /\ j \in DOMAIN Volatiles
    BY <1>1, <1>6, <1>7
  <2>2. <<j, i>> \in OpToRel(<, Nat)
    BY <2>1, <1>6 DEF OpToRel
  <2>3. j \notin S
    BY <2>2, <1>5
  <2> QED
    BY <2>1, <2>3
<1>8. Is(i)
  BY <1>6, <1>7
<1> DEFINE f == CHOOSE x \in DOMAIN Volatiles : Is(x)
<1>9. f \in DOMAIN Volatiles /\ Is(f)
  <2> HIDE DEF Is
  <2> QED
    BY <1>6, <1>8
<1>10. FirstOf(regs) = Volatiles[f]
  BY DEF FirstOf
<1>11. Volatiles[f] \in regs
  BY <1>9
<1> HIDE DEF f, Is
<1> QED
  BY <1>2, <1>9, <1>10, <1>11

(* A free register, if there is one.                                          *)
LEMMA FreeOrIs ==
  ASSUME NEW avoid, NEW other
  PROVE  /\ Free(avoid) # {} => FreeOr(avoid, other) \in Free(avoid)
         /\ Free(avoid) = {} => FreeOr(avoid, other) = other
         /\ Free(avoid) \subseteq Unused /\ Free(avoid) \cap (avoid \cup Busy) = {}
<1>1. Free(avoid) \subseteq ToSet(Volatiles) /\ Free(avoid) \subseteq Unused /\ Free(avoid) \cap (avoid \cup Busy) = {}
  BY DEF Free, Unused
<1>2. Free(avoid) # {} => FirstOf(Free(avoid)) \in Free(avoid)
  BY <1>1, FirstOfIs
<1> QED
  BY <1>1, <1>2 DEF FreeOr

(* A register that is not one of two.                                         *)
LEMMA FirstButIs ==
  ASSUME NEW avoid, {"rax", "rcx", "rdx", "r10", "r11"} \ avoid # {}
  PROVE  FirstBut(avoid) \in ToSet(Volatiles) \ avoid
<1>1. (ToSet(Volatiles) \ avoid) \cap ToSet(Volatiles) # {}
  BY PlacesDiffer
<1> QED
  BY <1>1, FirstOfIs DEF FirstBut

(* Operands are in registers that count as busy, in slots, or constants.      *)
LEMMA HomesAre ==
  ASSUME Handed
  PROVE  /\ \A o \in Reads(instr) : home[o] \in Registers \cup {Slot(o)} \cup ShapesOf(instr, o)
         /\ \A o \in Reads(instr) : home[o] \in Registers \cup Slots \cup Shapes
         /\ \A o \in Reads(instr) : ~Constant(o) => home[o] \in Registers \cup Slots
         /\ \A o \in Reads(instr) : home[o] \in Registers => home[o] \in Busy
         /\ Unused \subseteq Registers /\ Unused \cap Busy = {} /\ live \subseteq Busy /\ live \subseteq Registers
         /\ \A o \in Reads(instr) : home[o] \notin live /\ home[o] \notin Unused
<1>1. Reads(instr) \subseteq Operands
  <2>1. instr.reads \in {<<"a", "b">>, <<"a", "a">>, <<"a">>, <<"a", "b", "c">>}
    BY DEF Handed, Instr, Bins, Uns, Casts, SelectInstrs, Loads, Stores
  <2>2. \A x \in {<<"a", "b">>, <<"a", "a">>, <<"a">>, <<"a", "b", "c">>} : ToSet(x) \subseteq Operands
    BY DEF ToSet, Operands
  <2> QED
    BY <2>1, <2>2 DEF Reads
<1>2. \A o \in Reads(instr) : Slot(o) \in Slots
  BY <1>1 DEF Slots
<1>3. \A o : ShapesOf(instr, o) \subseteq Shapes
  BY DEF ShapesOf, Shapes
<1>4. \A o \in Reads(instr) : home[o] \in Registers \cup {Slot(o)} \cup ShapesOf(instr, o)
  BY DEF Handed, IsHome
<1>5. \A o \in Reads(instr) : home[o] \in Registers \cup Slots \cup Shapes
  BY <1>2, <1>3, <1>4
<1>6. \A o \in Reads(instr) : home[o] \in Busy
  BY DEF Handed, Busy
<1>7. Unused \subseteq ToSet(Volatiles) /\ Unused \cap Busy = {}
  BY DEF Unused, Free
<1>8. live \subseteq Busy /\ live \subseteq ToSet(Volatiles) /\ \A o \in Reads(instr) : home[o] \notin live
  BY DEF Handed, Busy
<1> QED
  BY <1>4, <1>5, <1>6, <1>7, <1>8, PlacesDiffer DEF Constant

(* An operand stays where it is when nothing comes over it.                   *)
LEMMA ThereStill ==
  ASSUME NEW m, NEW m2, NEW S, Spares(m, m2, S), NEW o, NEW w, There(m, o, w), home[o] \notin S
  PROVE  There(m2, o, w)
BY HasStill DEF There

(* An operand's value comes into a register.                                  *)
LEMMA FetchIs ==
  ASSUME NEW m, IsContents(m), NEW o, NEW r \in Registers, NEW w \in 0..8, NEW w2 \in 0..w, There(m, o, w2)
  PROVE  Spares(m, Fetch(m, o, r, w), {r}) /\ Has(Fetch(m, o, r, w), r, Value(o), w2)
<1>0. r \in Places
  BY PlacesDiffer
<1>1. CASE Constant(o)
  <2>1. Fetch(m, o, r, w) = Set(m, r, Value(o), w)
    BY <1>1 DEF Fetch
  <2>2. Spares(m, Set(m, r, Value(o), w), {r}) /\ Has(Set(m, r, Value(o), w), r, Value(o), w)
    BY <1>0, SetIs
  <2>3. Has(Set(m, r, Value(o), w), r, Value(o), w2)
    <3>1. IsCell(Set(m, r, Value(o), w)[r])
      BY <2>2, <1>0 DEF Spares, IsContents
    <3> QED
      BY <2>2, <3>1 DEF Has, IsCell
  <2> QED
    BY <2>1, <2>2, <2>3
<1>2. CASE ~Constant(o)
  <2>1. Fetch(m, o, r, w) = Mov(m, r, home[o], w)
    BY <1>2 DEF Fetch
  <2>2. Has(m, home[o], Value(o), w2) /\ home[o] \in Places
    BY <1>2 DEF There, Has
  <2> QED
    BY <1>0, <2>1, <2>2, MovIs, MovBrings
<1> QED
  BY <1>1, <1>2

(* The first operand's value comes into the result's register.                *)
LEMMA FirstIntoIs ==
  ASSUME NEW m, IsContents(m), NEW o, NEW r \in Registers, NEW w \in 0..8, NEW w2 \in 0..w, There(m, o, w2)
  PROVE  Spares(m, FirstInto(m, o, r, w), {r}) /\ Has(FirstInto(m, o, r, w), r, Value(o), w2)
<1>1. CASE home[o] = r
  <2>1. FirstInto(m, o, r, w) = m /\ ~Constant(o)
    BY <1>1, PlacesDiffer DEF FirstInto, Constant
  <2> QED
    BY <1>1, <2>1 DEF There, Spares
<1>2. CASE home[o] # r
  BY <1>2, FetchIs DEF FirstInto
<1> QED
  BY <1>1, <1>2

(* An operand's value is in a register, its own or one it is loaded into.     *)
LEMMA EnsureRegIs ==
  ASSUME NEW m, IsContents(m), NEW o, NEW r \in Registers, NEW w \in 0..8, NEW w2 \in 0..w, There(m, o, w2)
  PROVE  /\ Spares(m, EnsureReg(m, o, w, r), {r}) /\ Has(EnsureReg(m, o, w, r), RegOf(o, r), Value(o), w2)
         /\ InRegister(o) => EnsureReg(m, o, w, r) = m /\ RegOf(o, r) = home[o]
         /\ ~InRegister(o) => RegOf(o, r) = r
<1>1. CASE InRegister(o)
  <2>1. EnsureReg(m, o, w, r) = m /\ RegOf(o, r) = home[o] /\ ~Constant(o)
    BY <1>1, PlacesDiffer DEF EnsureReg, RegOf, InRegister, Constant
  <2> QED
    BY <1>1, <2>1 DEF There, Spares
<1>2. CASE ~InRegister(o)
  BY <1>2, FetchIs DEF EnsureReg, RegOf
<1> QED
  BY <1>1, <1>2

-----------------------------------------------------------------------------
(* Binary operations                                                          *)

(* A move under a condition.                                                  *)
LEMMA MovWhenIs ==
  ASSUME NEW m, IsContents(m), NEW to \in Places, NEW from \in Places, NEW c \in BOOLEAN,
         NEW m2, m2 = IF c THEN Mov(m, to, from, 8) ELSE m
  PROVE  Spares(m, m2, {to}) /\ (c => m2[to] = m[from]) /\ (~c => m2 = m)
<1>1. CASE c
  BY <1>1, MovesAll
<1>2. CASE ~c
  BY <1>2 DEF Spares
<1> QED
  BY <1>1, <1>2

\* The shift itself, its count in rcx.
Shl(m, p, w) == Set(m, p, <<"shl", Get(m, p, w), Get(m, "rcx", 1)>>, w)

(* The shift itself.                                                          *)
LEMMA ShlIs ==
  ASSUME NEW m, IsContents(m), NEW p, NEW x, NEW y, NEW w \in {1, 4, 8}, Has(m, p, x, w), Has(m, "rcx", y, 1)
  PROVE  Has(Shl(m, p, w), p, <<"shl", x, y>>, w) /\ Spares(m, Shl(m, p, w), {p})
<1>1. Get(m, p, w) = x /\ Get(m, "rcx", 1) = y
  BY GetIs
<1>2. Shl(m, p, w) = Set(m, p, <<"shl", x, y>>, w)
  BY <1>1 DEF Shl
<1>3. w \in 0..8 /\ p \in Places
  BY DEF Has
<1> QED
  BY <1>2, <1>3, SetIs

(* A value at a width is there at a lesser one.                               *)
LEMMA HasLess ==
  ASSUME NEW m, IsContents(m), NEW p, NEW v, NEW w \in 0..8, Has(m, p, v, w), NEW w2 \in 0..w
  PROVE  Has(m, p, v, w2)
<1>1. p \in Places /\ m[p].n \in 0..8
  BY DEF Has, IsContents, IsCell
<1> QED
  BY <1>1 DEF Has

(* A shift by a register: of its value in r, by the value of count.           *)
LEMMA ShiftIs ==
  ASSUME NEW m, IsContents(m), NEW r \in Registers, NEW count \in Registers, NEW w \in {1, 4, 8},
         NEW x, NEW y, Has(m, r, x, w), Has(m, count, y, w)
  PROVE  /\ Has(ShiftByReg(m, r, count, w), r, <<"shl", x, y>>, w)
         /\ Spares(m, ShiftByReg(m, r, count, w), {r, "park1"} \cup Unused)
         /\ count # r => Spares(m, ShiftByReg(m, r, count, w), {r})
<1> DEFINE kept == FreeOr({r}, "none") # "rcx"
           target == IF r = "rcx" THEN count ELSE r
           n1 == Xchg(m, "rcx", count)
           n2 == Shl(n1, target, w)
           n3 == Xchg(n2, "rcx", count)
           k1 == IF kept THEN Mov(m, "park1", "rcx", 8) ELSE m
           k2 == Mov(k1, "rcx", count, 8)
           k3 == Shl(k2, r, w)
           k4 == IF kept THEN Mov(k3, "rcx", "park1", 8) ELSE k3
           v == <<"shl", x, y>>
<1>0. /\ "rcx" \in Registers /\ "rcx" \in Places /\ r \in Places /\ count \in Places /\ "park1" \in Places
      /\ "park1" \notin Registers
  BY PlacesDiffer
<1>1. ShiftByReg(m, r, count, w) = IF count = "rcx" THEN Shl(m, r, w) ELSE IF count # r THEN n3 ELSE k4
  BY DEF ShiftByReg, Shl
<1>2. Has(m, r, x, 1) /\ Has(m, count, y, 1)
  BY HasLess
<1>3. CASE count = "rcx"
  <2>1. Has(m, "rcx", y, 1)
    BY <1>2, <1>3
  <2>2. Has(Shl(m, r, w), r, v, w) /\ Spares(m, Shl(m, r, w), {r})
    BY <2>1, ShlIs
  <2>3. ShiftByReg(m, r, count, w) = Shl(m, r, w)
    BY <1>1, <1>3
  <2>4. Spares(m, Shl(m, r, w), {r, "park1"} \cup Unused)
    BY <2>2 DEF Spares
  <2> QED
    BY <2>2, <2>3, <2>4
<1>4. CASE count # "rcx" /\ count # r
  <2>0. v = <<"shl", x, y>> /\ ShiftByReg(m, r, count, w) = n3
    BY <1>1, <1>4
  <2>10. n1 = Xchg(m, "rcx", count)
    OBVIOUS
  <2>11. n2 = Shl(n1, target, w)
    OBVIOUS
  <2>12. n3 = Xchg(n2, "rcx", count)
    OBVIOUS
  <2>9. target = IF r = "rcx" THEN count ELSE r
    OBVIOUS
  <2> HIDE DEF n1, n2, n3, target, v, kept, k1, k2, k3, k4
  <2>1. Spares(m, n1, {"rcx", count}) /\ n1["rcx"] = m[count] /\ n1[count] = m["rcx"]
    BY <1>0, <2>10, XchgIs
  <2>2. target \in Places \ {"rcx"} /\ IsContents(n1)
    BY <1>0, <1>4, <2>9, <2>1 DEF Spares
  <2>3. Has(n1, target, x, w) /\ Has(n1, "rcx", y, 1)
    <3>1. n1[target] = m[r] /\ n1["rcx"] = m[count]
      BY <1>0, <1>4, <2>9, <2>1 DEF Spares
    <3> QED
      BY <1>0, <1>2, <2>2, <3>1 DEF Has
  <2>4. Has(n2, target, v, w) /\ Spares(n1, n2, {target}) /\ IsContents(n2)
    BY <2>0, <2>2, <2>3, <2>11, ShlIs DEF Spares
  <2>5. Spares(n2, n3, {"rcx", count}) /\ n3["rcx"] = n2[count] /\ n3[count] = n2["rcx"]
    BY <1>0, <2>4, <2>12, XchgIs
  <2>6. Has(n3, r, v, w)
    <3>1. n3[r] = n2[target]
      BY <1>0, <1>4, <2>9, <2>5 DEF Spares
    <3> QED
      BY <1>0, <2>4, <3>1 DEF Has
  <2>7. Spares(m, n3, {r})
    <3>1. IsContents(n3)
      BY <2>5 DEF Spares
    <3>2. ASSUME NEW p \in Places \ {r}
          PROVE  n3[p] = m[p]
      <4>1. CASE p = "rcx"
        <5>1. count # target
          BY <1>4, <2>9, <3>2, <4>1
        <5> QED
          BY <1>0, <1>4, <4>1, <5>1, <2>1, <2>4, <2>5 DEF Spares
      <4>2. CASE p = count
        BY <1>0, <4>2, <2>1, <2>2, <2>4, <2>5 DEF Spares
      <4>3. CASE p \notin {"rcx", count}
        <5>1. p # target
          BY <2>9, <3>2, <4>3
        <5> QED
          BY <3>2, <4>3, <5>1, <2>1, <2>4, <2>5 DEF Spares
      <4> QED
        BY <4>1, <4>2, <4>3
    <3> QED
      BY <3>1, <3>2 DEF Spares
  <2>8. Spares(m, n3, {r, "park1"} \cup Unused)
    BY <2>7 DEF Spares
  <2> QED
    BY <2>0, <2>6, <2>7, <2>8 DEF v
<1>5. CASE count # "rcx" /\ count = r
  <2>0. v = <<"shl", x, y>> /\ ShiftByReg(m, r, count, w) = k4
    BY <1>1, <1>5
  <2>10. k1 = IF kept THEN Mov(m, "park1", "rcx", 8) ELSE m
    OBVIOUS
  <2>11. k2 = Mov(k1, "rcx", count, 8)
    OBVIOUS
  <2>12. k3 = Shl(k2, r, w)
    OBVIOUS
  <2>13. k4 = IF kept THEN Mov(k3, "rcx", "park1", 8) ELSE k3
    OBVIOUS
  <2>9. kept \in BOOLEAN /\ (~kept => FreeOr({r}, "none") = "rcx")
    OBVIOUS
  <2> HIDE DEF n1, n2, n3, target, v, kept, k1, k2, k3, k4
  <2>1. Spares(m, k1, {"park1"}) /\ (kept => k1["park1"] = m["rcx"])
    BY <1>0, <2>9, <2>10, MovWhenIs
  <2>2. Spares(k1, k2, {"rcx"}) /\ k2["rcx"] = k1[count]
    <3>1. IsContents(k1)
      BY <2>1 DEF Spares
    <3> QED
      BY <1>0, <2>11, <3>1, MovesAll
  <2>3. Has(k2, r, x, w) /\ Has(k2, "rcx", y, 1)
    <3>1. k2[r] = m[r] /\ k2["rcx"] = m[count]
      BY <1>0, <1>5, <2>1, <2>2 DEF Spares
    <3> QED
      BY <1>0, <1>2, <3>1 DEF Has
  <2>4. Has(k3, r, v, w) /\ Spares(k2, k3, {r})
    BY <2>0, <2>12, <2>2, <2>3, ShlIs DEF Spares
  <2>5. Spares(k3, k4, {"rcx"}) /\ (kept => k4["rcx"] = k3["park1"])
    <3>1. IsContents(k3)
      BY <2>4 DEF Spares
    <3>2. CASE kept
      <4>1. k4 = Mov(k3, "rcx", "park1", 8)
        BY <2>13, <3>2
      <4> QED
        BY <1>0, <3>1, <4>1, MovesAll
    <3>3. CASE ~kept
      <4>1. k4 = k3
        BY <2>13, <3>3
      <4> QED
        BY <3>1, <3>3, <4>1 DEF Spares
    <3> QED
      BY <3>2, <3>3
  <2>6. ~kept => "rcx" \in Unused
    <3>1. CASE Free({r}) = {}
      BY <2>9, <3>1, FreeOrIs
    <3>2. CASE Free({r}) # {}
      BY <2>9, <3>2, FreeOrIs
    <3> QED
      BY <3>1, <3>2
  <2>7. Has(k4, r, v, w)
    <3>1. k4[r] = k3[r]
      BY <1>0, <1>5, <2>5 DEF Spares
    <3> QED
      BY <1>0, <2>4, <3>1 DEF Has
  <2>8. Spares(m, k4, {r, "park1"} \cup Unused)
    <3>1. IsContents(k4)
      BY <2>5 DEF Spares
    <3>2. ASSUME NEW p \in Places \ ({r, "park1"} \cup Unused)
          PROVE  k4[p] = m[p]
      <4>1. CASE p = "rcx"
        <5>1. kept /\ "park1" # r /\ "park1" # "rcx"
          BY <1>0, <2>6, <3>2, <4>1
        <5> QED
          BY <1>0, <1>5, <4>1, <5>1, <2>1, <2>2, <2>4, <2>5 DEF Spares
      <4>2. CASE p # "rcx"
        BY <3>2, <4>2, <2>1, <2>2, <2>4, <2>5 DEF Spares
      <4> QED
        BY <4>1, <4>2
    <3> QED
      BY <3>1, <3>2 DEF Spares
  <2> QED
    BY <1>5, <2>0, <2>7, <2>8 DEF v
<1> QED
  BY <1>3, <1>4, <1>5

\* The operation on two registers.
Applied(m, r, second, op, w) ==
    IF op = "shl" THEN ShiftByReg(m, r, second, w)
    ELSE Set(m, r, <<op, Get(m, r, w), Get(m, second, w)>>, ResultWidth(op, w))

(* The operation on two registers.                                            *)
LEMMA AppliedIs ==
  ASSUME NEW m, IsContents(m), NEW r \in Registers, NEW second \in Registers, NEW w \in {1, 4, 8}, NEW op,
         NEW x, NEW y, Has(m, r, x, w), Has(m, second, y, w)
  PROVE  /\ Has(Applied(m, r, second, op, w), r, <<op, x, y>>, ResultWidth(op, w))
         /\ Spares(m, Applied(m, r, second, op, w), {r, "park1"} \cup Unused)
         /\ second # r => Spares(m, Applied(m, r, second, op, w), {r})
<1>1. CASE op = "shl"
  <2>1. Applied(m, r, second, op, w) = ShiftByReg(m, r, second, w) /\ ResultWidth(op, w) = w
    BY <1>1 DEF Applied, ResultWidth
  <2> QED
    BY <1>1, <2>1, ShiftIs
<1>2. CASE op # "shl"
  <2>1. Get(m, r, w) = x /\ Get(m, second, w) = y
    BY GetIs
  <2>2. Applied(m, r, second, op, w) = Set(m, r, <<op, x, y>>, ResultWidth(op, w))
    BY <1>2, <2>1 DEF Applied
  <2>3. ResultWidth(op, w) \in 0..8 /\ r \in Places
    BY PlacesDiffer DEF ResultWidth
  <2>4. /\ Spares(m, Set(m, r, <<op, x, y>>, ResultWidth(op, w)), {r})
        /\ Has(Set(m, r, <<op, x, y>>, ResultWidth(op, w)), r, <<op, x, y>>, ResultWidth(op, w))
    BY <2>3, SetIs
  <2>5. Spares(m, Set(m, r, <<op, x, y>>, ResultWidth(op, w)), {r, "park1"} \cup Unused)
    BY <2>4 DEF Spares
  <2> QED
    BY <2>2, <2>4, <2>5
<1> QED
  BY <1>1, <1>2

\* The second operand in a register: moved out of the way, or loaded.
AluAway(m, r, a, b, op, w) ==
    LET borrows == Free(AvoidFor(r, a)) = {}
        tmp == FreeOr(AvoidFor(r, a), FirstBut(AvoidFor(r, a)))
        parked == IF borrows THEN Mov(m, "park1", tmp, 8) ELSE m
        done == Applied(FirstInto(Mov(parked, tmp, r, 8), a, r, w), r, tmp, op, w)
    IN  IF borrows THEN Mov(done, tmp, "park1", 8) ELSE done

AluLoaded(m, r, a, b, op, w) ==
    LET s == ScratchFor(r, a)
    IN  Applied(EnsureReg(FirstInto(m, a, r, w), b, w, s), r, RegOf(b, s), op, w)

AluConstant(m, r, a, b, op, w) ==
    Set(FirstInto(m, a, r, w), r, <<op, Get(FirstInto(m, a, r, w), r, w), Value(b)>>, ResultWidth(op, w))

(* Which of the three an operation is.                                        *)
LEMMA AluIntoIs ==
  ASSUME NEW m, NEW r \in Registers, NEW a, NEW b, NEW op, NEW w
  PROVE  AluInto(m, r, a, b, op, w) =
            IF InTheWay(r, a, b) THEN AluAway(m, r, a, b, op, w)
            ELSE IF Encodes(op, b, w) THEN AluConstant(m, r, a, b, op, w)
            ELSE AluLoaded(m, r, a, b, op, w)
<1>1. CASE InTheWay(r, a, b)
  <2>1. home[b] = r /\ home[b] \notin Shapes
    BY <1>1, PlacesDiffer DEF InTheWay
  <2>2. ~Encodes(op, b, w)
    BY <2>1 DEF Encodes, Shapes
  <2> QED
    BY <1>1, <2>2, Zenon DEF AluInto, AluAway, Applied
<1>2. CASE ~InTheWay(r, a, b) /\ Encodes(op, b, w)
  BY <1>2, Zenon DEF AluInto, AluConstant
<1>3. CASE ~InTheWay(r, a, b) /\ ~Encodes(op, b, w)
  BY <1>3, Zenon DEF AluInto, AluLoaded, Applied
<1> QED
  BY <1>1, <1>2, <1>3

(* The second operand, moved out of the way, and what was there, brought back. *)
LEMMA AluAwayIs ==
  ASSUME Handed, NEW m, IsContents(m), NEW r \in Registers, NEW a \in Reads(instr), NEW b \in Reads(instr),
         NEW op, NEW w \in {1, 4, 8}, There(m, a, w), There(m, b, w), InTheWay(r, a, b)
  PROVE  /\ Has(AluAway(m, r, a, b, op, w), r, <<op, Value(a), Value(b)>>, ResultWidth(op, w))
         /\ Spares(m, AluAway(m, r, a, b, op, w), {r, "park1"} \cup Unused)
<1> DEFINE avoid == AvoidFor(r, a)
           borrows == Free(avoid) = {}
           tmp == FreeOr(avoid, FirstBut(avoid))
           n1 == IF borrows THEN Mov(m, "park1", tmp, 8) ELSE m
           n2 == Mov(n1, tmp, r, 8)
           n3 == FirstInto(n2, a, r, w)
           n4 == Applied(n3, r, tmp, op, w)
           n5 == IF borrows THEN Mov(n4, tmp, "park1", 8) ELSE n4
           v == <<op, Value(a), Value(b)>>
<1>1. AluAway(m, r, a, b, op, w) = n5
  BY DEF AluAway
<1>2. /\ "park1" \in Places /\ "park1" \notin Registers /\ r \in Places /\ "park1" \notin Slots
      /\ w \in 0..8 /\ 8 \in 0..8 /\ Registers \subseteq Places
  BY PlacesDiffer
<1>3. tmp \in Registers \ avoid /\ (~borrows => tmp \in Unused)
  <2>1. CASE borrows
    <3>1. {"rax", "rcx", "rdx", "r10", "r11"} \ avoid # {}
      <4>1. avoid = {r} \/ avoid = {r, home[a]}
        BY DEF AvoidFor
      <4> QED
        BY <4>1
    <3>2. FirstBut(avoid) \in ToSet(Volatiles) \ avoid
      BY <3>1, FirstButIs
    <3> QED
      BY <2>1, <3>2, FreeOrIs, PlacesDiffer
  <2>2. CASE ~borrows
    BY <2>2, FreeOrIs, HomesAre
  <2> QED
    BY <2>1, <2>2
<1>4. r \in avoid /\ (home[a] \in Registers => home[a] \in avoid) /\ home[b] = r /\ home[a] # r /\ borrows \in BOOLEAN
  BY DEF AvoidFor, InTheWay
<1>5. n1 = IF borrows THEN Mov(m, "park1", tmp, 8) ELSE m
  OBVIOUS
<1>6. n2 = Mov(n1, tmp, r, 8)
  OBVIOUS
<1>7. n3 = FirstInto(n2, a, r, w)
  OBVIOUS
<1>8. n4 = Applied(n3, r, tmp, op, w)
  OBVIOUS
<1>9. n5 = IF borrows THEN Mov(n4, tmp, "park1", 8) ELSE n4
  OBVIOUS
<1>10. v = <<op, Value(a), Value(b)>>
  OBVIOUS
<1> HIDE DEF n1, n2, n3, n4, n5, tmp, borrows, avoid, v
<1>11. tmp # r /\ tmp # home[a] /\ tmp \in Places /\ tmp \in Registers
  BY <1>2, <1>3, <1>4
<1>12. home[a] \notin {"park1", tmp} /\ Has(m, r, Value(b), w)
  <2>1. ~Constant(b)
    BY <1>4, PlacesDiffer DEF Constant
  <2>2. home[a] \in Registers \cup Slots \cup Shapes
    BY HomesAre
  <2>3. "park1" \notin Shapes
    BY DEF Shapes
  <2> QED
    BY <1>2, <1>4, <1>11, <2>1, <2>2, <2>3 DEF There
<1>13. Spares(m, n1, {"park1"}) /\ (borrows => n1["park1"] = m[tmp])
  <2>1. CASE borrows
    <3>1. n1 = Mov(m, "park1", tmp, 8)
      BY <1>5, <2>1
    <3> QED
      BY <1>2, <1>11, <3>1, MovesAll
  <2>2. CASE ~borrows
    <3>1. n1 = m
      BY <1>5, <2>2
    <3> QED
      BY <2>2, <3>1 DEF Spares
  <2> QED
    BY <2>1, <2>2
<1>14. Spares(n1, n2, {tmp}) /\ n2[tmp] = n1[r] /\ IsContents(n2) /\ IsContents(n1)
  <2>1. IsContents(n1)
    BY <1>13 DEF Spares
  <2>2. Spares(n1, n2, {tmp}) /\ n2[tmp] = n1[r]
    BY <1>2, <1>6, <1>11, <2>1, MovesAll
  <2> QED
    BY <2>1, <2>2 DEF Spares
<1>15. There(n2, a, w)
  <2>1. Spares(m, n2, {"park1", tmp})
    BY <1>13, <1>14 DEF Spares
  <2> QED
    BY <1>12, <2>1, ThereStill
<1>16. Spares(n2, n3, {r}) /\ Has(n3, r, Value(a), w) /\ IsContents(n3)
  <2>1. w \in 0..w
    OBVIOUS
  <2> QED
    BY <1>2, <1>7, <1>14, <1>15, <2>1, FirstIntoIs DEF Spares
<1>17. Has(n3, tmp, Value(b), w)
  <2>1. n3[tmp] = m[r]
    BY <1>2, <1>11, <1>13, <1>14, <1>16 DEF Spares
  <2> QED
    BY <1>11, <1>12, <2>1 DEF Has
<1>18. Has(n4, r, v, ResultWidth(op, w)) /\ Spares(n3, n4, {r}) /\ IsContents(n4)
  BY <1>8, <1>10, <1>11, <1>16, <1>17, AppliedIs DEF Spares
<1>19. Spares(n4, n5, {tmp}) /\ (borrows => n5[tmp] = n4["park1"])
  <2>1. CASE borrows
    <3>1. n5 = Mov(n4, tmp, "park1", 8)
      BY <1>9, <2>1
    <3> QED
      BY <1>2, <1>11, <1>18, <3>1, MovesAll
  <2>2. CASE ~borrows
    <3>1. n5 = n4
      BY <1>9, <2>2
    <3> QED
      BY <1>18, <2>2, <3>1 DEF Spares
  <2> QED
    BY <2>1, <2>2
<1>20. Has(n5, r, v, ResultWidth(op, w))
  <2>1. n5[r] = n4[r]
    BY <1>2, <1>11, <1>19 DEF Spares
  <2> QED
    BY <1>18, <2>1 DEF Has
<1>21. Spares(m, n5, {r, "park1"} \cup Unused)
  <2>1. IsContents(n5)
    BY <1>19 DEF Spares
  <2>2. ASSUME NEW p \in Places \ ({r, "park1"} \cup Unused)
        PROVE  n5[p] = m[p]
    <3>1. CASE p = tmp
      <4>1. borrows /\ "park1" # tmp /\ "park1" # r
        BY <1>2, <1>3, <1>11, <2>2, <3>1
      <4>2. n5[tmp] = n4["park1"] /\ n4["park1"] = n3["park1"] /\ n3["park1"] = n2["park1"]
        BY <1>2, <4>1, <1>16, <1>18, <1>19 DEF Spares
      <4>3. n2["park1"] = n1["park1"] /\ n1["park1"] = m[tmp]
        BY <1>2, <4>1, <1>13, <1>14 DEF Spares
      <4> QED
        BY <3>1, <4>2, <4>3
    <3>2. CASE p # tmp
      BY <2>2, <3>2, <1>13, <1>14, <1>16, <1>18, <1>19 DEF Spares
    <3> QED
      BY <3>1, <3>2
  <2> QED
    BY <2>1, <2>2 DEF Spares
<1> QED
  BY <1>1, <1>10, <1>20, <1>21

(* The second operand where it is, or loaded into a register nobody needs.    *)
LEMMA AluLoadedIs ==
  ASSUME Handed, NEW m, IsContents(m), NEW r \in Registers, NEW a \in Reads(instr), NEW b \in Reads(instr),
         NEW op, NEW w \in {1, 4, 8}, There(m, a, w), There(m, b, w), ~InTheWay(r, a, b),
         a # b /\ home[a] = home[b] => home[a] \in Shapes,
         InRegister(b) \/ Free(AvoidFor(r, a)) # {}
  PROVE  /\ Has(AluLoaded(m, r, a, b, op, w), r, <<op, Value(a), Value(b)>>, ResultWidth(op, w))
         /\ Spares(m, AluLoaded(m, r, a, b, op, w), {r, "park1"} \cup Unused)
<1> DEFINE s == ScratchFor(r, a)
           n1 == FirstInto(m, a, r, w)
           n2 == EnsureReg(n1, b, w, s)
           second == RegOf(b, s)
           n3 == Applied(n2, r, second, op, w)
<1>1. AluLoaded(m, r, a, b, op, w) = n3
  BY DEF AluLoaded
<1>2. w \in 0..8 /\ w \in 0..w /\ r \in Places
  BY PlacesDiffer
<1>3. s \in Registers /\ (~InRegister(b) => s \in Unused /\ s # r)
  <2>1. CASE Free(AvoidFor(r, a)) = {}
    <3>1. s \in {"rax", "rcx"}
      BY <2>1, FreeOrIs DEF ScratchFor
    <3> QED
      BY <2>1, <3>1, PlacesDiffer
  <2>2. CASE Free(AvoidFor(r, a)) # {}
    <3>1. s \in Free(AvoidFor(r, a))
      BY <2>2, FreeOrIs DEF ScratchFor
    <3>2. r \in AvoidFor(r, a)
      BY DEF AvoidFor
    <3> HIDE DEF s
    <3>3. s \in Unused /\ s # r
      BY <3>1, <3>2, FreeOrIs
    <3> QED
      BY <3>3, HomesAre
  <2> QED
    BY <2>1, <2>2
<1>4. n1 = FirstInto(m, a, r, w)
  OBVIOUS
<1>5. n2 = EnsureReg(n1, b, w, s)
  OBVIOUS
<1>6. second = RegOf(b, s)
  OBVIOUS
<1>7. n3 = Applied(n2, r, second, op, w)
  OBVIOUS
<1> HIDE DEF n1, n2, n3, s, second
<1>8. Spares(m, n1, {r}) /\ Has(n1, r, Value(a), w) /\ IsContents(n1)
  BY <1>2, <1>4, FirstIntoIs DEF Spares
<1>9. /\ Spares(n1, n2, {r} \cup Unused) /\ Has(n2, r, Value(a), w)
      /\ second \in Registers /\ Has(n2, second, Value(b), w)
  <2>1. CASE home[b] = r
    <3>1. home[a] = r /\ InRegister(b) /\ a = b
      BY <2>1, PlacesDiffer DEF InTheWay, InRegister
    <3>2. n2 = n1 /\ second = r
      BY <1>5, <1>6, <2>1, <3>1 DEF EnsureReg, RegOf
    <3> QED
      BY <1>8, <3>1, <3>2 DEF Spares
  <2>2. CASE home[b] # r
    <3>1. There(n1, b, w)
      BY <1>8, <2>2, ThereStill
    <3>2. /\ Spares(n1, n2, {s}) /\ Has(n2, second, Value(b), w)
          /\ InRegister(b) => n2 = n1 /\ second = home[b]
          /\ ~InRegister(b) => second = s
      BY <1>2, <1>3, <1>5, <1>6, <1>8, <3>1, EnsureRegIs
    <3>3. CASE InRegister(b)
      BY <1>8, <3>2, <3>3 DEF InRegister, Spares
    <3>4. CASE ~InRegister(b)
      <4>1. s \in Unused /\ s # r /\ second = s
        BY <1>3, <3>2, <3>4
      <4>2. Has(n2, r, Value(a), w)
        BY <1>8, <3>2, <4>1, HasStill
      <4> QED
        BY <1>3, <3>2, <4>1, <4>2 DEF Spares
    <3> QED
      BY <3>3, <3>4
  <2> QED
    BY <2>1, <2>2
<1>10. IsContents(n2)
  BY <1>9 DEF Spares
<1>11. /\ Has(n3, r, <<op, Value(a), Value(b)>>, ResultWidth(op, w))
       /\ Spares(n2, n3, {r, "park1"} \cup Unused)
  BY <1>7, <1>9, <1>10, AppliedIs
<1>12. Spares(m, n3, {r, "park1"} \cup Unused)
  BY <1>8, <1>9, <1>11 DEF Spares
<1> QED
  BY <1>1, <1>11, <1>12

(* The second operand encoded in the instruction.                             *)
LEMMA AluConstantIs ==
  ASSUME NEW m, IsContents(m), NEW r \in Registers, NEW a, NEW b,
         NEW op, NEW w \in {1, 4, 8}, There(m, a, w)
  PROVE  /\ Has(AluConstant(m, r, a, b, op, w), r, <<op, Value(a), Value(b)>>, ResultWidth(op, w))
         /\ Spares(m, AluConstant(m, r, a, b, op, w), {r, "park1"} \cup Unused)
<1> DEFINE n1 == FirstInto(m, a, r, w)
           v == <<op, Value(a), Value(b)>>
           n2 == Set(n1, r, v, ResultWidth(op, w))
<1>1. w \in 0..8 /\ w \in 0..w /\ r \in Places /\ ResultWidth(op, w) \in 0..8
  BY PlacesDiffer DEF ResultWidth
<1>2. Spares(m, n1, {r}) /\ Has(n1, r, Value(a), w)
  BY <1>1, FirstIntoIs
<1>3. Get(n1, r, w) = Value(a)
  BY <1>2, GetIs
<1>4. AluConstant(m, r, a, b, op, w) = n2
  BY <1>3 DEF AluConstant
<1>5. n2 = Set(n1, r, v, ResultWidth(op, w))
  OBVIOUS
<1> HIDE DEF n1, n2, v
<1>6. IsContents(n1)
  BY <1>2 DEF Spares
<1>7. Spares(n1, n2, {r}) /\ Has(n2, r, v, ResultWidth(op, w))
  BY <1>1, <1>5, <1>6, SetIs
<1>8. Spares(m, n2, {r, "park1"} \cup Unused)
  BY <1>2, <1>7 DEF Spares
<1> QED
  BY <1>4, <1>7, <1>8 DEF v

(* An operation on two operands has its result, and spares what is needed.    *)
LEMMA AluIs ==
  ASSUME Handed, NEW m, IsContents(m), NEW r \in Registers, NEW a \in Reads(instr), NEW b \in Reads(instr),
         NEW op, NEW w \in {1, 4, 8}, There(m, a, w), There(m, b, w),
         a # b /\ home[a] = home[b] => home[a] \in Shapes,
         InRegister(b) \/ Encodes(op, b, w) \/ Free(AvoidFor(r, a)) # {}
  PROVE  Computed(m, AluInto(m, r, a, b, op, w), r, <<op, Value(a), Value(b)>>, ResultWidth(op, w))
<1> DEFINE n == AluInto(m, r, a, b, op, w)
<1>1. /\ Has(n, r, <<op, Value(a), Value(b)>>, ResultWidth(op, w))
      /\ Spares(m, n, {r, "park1"} \cup Unused)
  <2>1. CASE InTheWay(r, a, b)
    BY <2>1, AluIntoIs, AluAwayIs
  <2>2. CASE ~InTheWay(r, a, b) /\ Encodes(op, b, w)
    BY <2>2, AluIntoIs, AluConstantIs
  <2>3. CASE ~InTheWay(r, a, b) /\ ~Encodes(op, b, w)
    <3>1. n = AluLoaded(m, r, a, b, op, w)
      BY <2>3, AluIntoIs
    <3>2. InRegister(b) \/ Free(AvoidFor(r, a)) # {}
      BY <2>3
    <3> QED
      BY <2>3, <3>1, <3>2, AluLoadedIs
  <2> QED
    BY <2>1, <2>2, <2>3
<1>2. Spares(m, n, {r} \cup Unused \cup Scratch)
  BY <1>1 DEF Spares, Scratch
<1> QED
  BY <1>1, <1>2 DEF Computed

(* The constant first, then the operand in a register.                        *)
LEMMA ConstantFirstIs ==
  ASSUME NEW m, IsContents(m), NEW r \in Registers, NEW a, NEW b,
         NEW op, NEW w, There(m, a, 8), There(m, b, 8), ConstantFirst(r, a, b, op, w)
  PROVE  Computed(m, ConstantFirstInto(m, r, a, b, op), r, <<op, Value(a), Value(b)>>, ResultWidth(op, w))
<1> DEFINE n1 == Fetch(m, b, r, 8)
           v == <<op, Value(a), Value(b)>>
           n2 == Set(n1, r, v, 8)
<1>1. /\ InRegister(a) /\ ~Constant(a) /\ home[a] # r /\ home[a] \in Places /\ r \in Places
      /\ ResultWidth(op, w) = 8 /\ 8 \in 0..8
  <2>1. InRegister(a) /\ home[a] # r /\ w = 8 /\ op # "ult"
    BY DEF ConstantFirst
  <2>2. ResultWidth(op, w) = 8
    BY <2>1 DEF ResultWidth
  <2> QED
    BY <2>1, <2>2, PlacesDiffer DEF InRegister, Constant
<1>2. Spares(m, n1, {r}) /\ Has(n1, r, Value(b), 8)
  BY <1>1, FetchIs
<1>3. Has(n1, home[a], Value(a), 8)
  <2>1. Has(m, home[a], Value(a), 8)
    BY <1>1 DEF There
  <2> QED
    BY <1>1, <1>2, <2>1, HasStill
<1>4. Get(n1, home[a], 8) = Value(a) /\ Get(n1, r, 8) = Value(b)
  BY <1>2, <1>3, GetIs
<1>5. ConstantFirstInto(m, r, a, b, op) = n2
  BY <1>4 DEF ConstantFirstInto
<1>6. n2 = Set(n1, r, v, 8)
  OBVIOUS
<1> HIDE DEF n1, n2, v
<1>7. IsContents(n1)
  BY <1>2 DEF Spares
<1>8. Spares(n1, n2, {r}) /\ Has(n2, r, v, 8)
  BY <1>1, <1>6, <1>7, SetIs
<1>9. Spares(m, n2, {r} \cup Unused \cup Scratch)
  BY <1>2, <1>8 DEF Spares
<1> QED
  BY <1>1, <1>5, <1>8, <1>9 DEF v, Computed

\* A register brought back unless the result is there.
Back(m, r, p, park) == IF r = p THEN m ELSE Mov(m, p, park, 8)

(* A register brought back unless the result is there.                        *)
LEMMA BackIs ==
  ASSUME NEW m, IsContents(m), NEW r, NEW p \in Places, NEW park \in Places
  PROVE  Spares(m, Back(m, r, p, park), {p} \ {r}) /\ (p # r => Back(m, r, p, park)[p] = m[park])
<1>1. CASE r = p
  <2>1. Back(m, r, p, park) = m
    BY <1>1 DEF Back
  <2> QED
    BY <1>1, <2>1 DEF Spares
<1>2. CASE r # p
  <2>1. Back(m, r, p, park) = Mov(m, p, park, 8)
    BY <1>2 DEF Back
  <2>2. {p} \ {r} = {p}
    BY <1>2
  <2> QED
    BY <2>1, <2>2, MovesAll
<1> QED
  BY <1>1, <1>2

(* A division has its quotient or remainder, and spares what is needed.       *)
LEMMA DivideIs ==
  ASSUME Handed, NEW m, IsContents(m), NEW r \in Registers, NEW a \in Reads(instr), NEW b \in Reads(instr),
         NEW op \in {"div", "rem"}, NEW w \in {1, 4, 8}, There(m, a, w), There(m, b, w)
  PROVE  Computed(m, DividesInto(m, r, a, b, op, w), r, <<op, Value(a), Value(b)>>, ResultWidth(op, w))
<1> DEFINE hold == HolderFor(a)
           v == <<op, Value(a), Value(b)>>
           n1 == Mov(m, "park1", "rax", 8)
           n2 == Mov(n1, "park2", "rdx", 8)
           n3 == Mov(n2, "park3", hold, 8)
           n4 == IF InRegister(b) THEN Mov(n3, hold, home[b], 8) ELSE Fetch(n3, b, hold, w)
           n5 == FirstInto(n4, a, "rax", w)
           n6 == IF w = 1 THEN n5 ELSE Set(n5, "rdx", <<"high">>, 8)
           value == IF w = 1 \/ n6["rdx"].v = <<"high">> THEN <<op, Get(n6, "rax", w), Get(n6, hold, w)>> ELSE Junk
           answer == IF op = "div" \/ w = 1 THEN "rax" ELSE "rdx"
           rest == IF w = 1 THEN n6["rdx"].v ELSE Junk
           n7 == Set(n6, "rax", Junk, 8)
           n8 == Set(n7, "rdx", rest, 8)
           n9 == Set(n8, answer, value, w)
           n10 == IF r = answer THEN n9 ELSE Mov(n9, r, answer, 8)
           n11 == Back(n10, r, "rax", "park1")
           n12 == Back(n11, r, "rdx", "park2")
           n13 == Back(n12, r, hold, "park3")
<1>1. DividesInto(m, r, a, b, op, w) = n13
  BY Zenon DEF DividesInto, Back
<1>2. n1 = Mov(m, "park1", "rax", 8)
  OBVIOUS
<1>3. n2 = Mov(n1, "park2", "rdx", 8)
  OBVIOUS
<1>4. n3 = Mov(n2, "park3", hold, 8)
  OBVIOUS
<1>5. n4 = IF InRegister(b) THEN Mov(n3, hold, home[b], 8) ELSE Fetch(n3, b, hold, w)
  OBVIOUS
<1>6. n5 = FirstInto(n4, a, "rax", w)
  OBVIOUS
<1>7. n6 = IF w = 1 THEN n5 ELSE Set(n5, "rdx", <<"high">>, 8)
  OBVIOUS
<1>8. value = IF w = 1 \/ n6["rdx"].v = <<"high">> THEN <<op, Get(n6, "rax", w), Get(n6, hold, w)>> ELSE Junk
  OBVIOUS
<1>9. n7 = Set(n6, "rax", Junk, 8)
  OBVIOUS
<1>10. n8 = Set(n7, "rdx", rest, 8)
  OBVIOUS
<1>11. n9 = Set(n8, answer, value, w)
  OBVIOUS
<1>12. n10 = IF r = answer THEN n9 ELSE Mov(n9, r, answer, 8)
  OBVIOUS
<1>13. n11 = Back(n10, r, "rax", "park1")
  OBVIOUS
<1>14. n12 = Back(n11, r, "rdx", "park2")
  OBVIOUS
<1>15. n13 = Back(n12, r, hold, "park3")
  OBVIOUS
<1>16. answer \in {"rax", "rdx"} /\ ResultWidth(op, w) = w
  BY DEF ResultWidth
<1>17. v = <<op, Value(a), Value(b)>>
  OBVIOUS
<1>18. hold \in Registers \ {"rax", "rdx", home[a]}
  <2>1. {"rax", "rcx", "rdx", "r10", "r11"} \ {"rax", "rdx", home[a]} # {}
    OBVIOUS
  <2> QED
    BY <2>1, FirstButIs, PlacesDiffer DEF HolderFor
<1> HIDE DEF hold, v, n1, n2, n3, n4, n5, n6, n7, n8, n9, n10, n11, n12, n13, value, answer, rest
<1>19. /\ {"rax", "rdx", "park1", "park2", "park3", r, hold, answer} \subseteq Places
       /\ {"rax", "rdx", r, hold, answer} \subseteq Registers
       /\ {"park1", "park2", "park3"} \cap Registers = {} /\ w \in 0..8 /\ w \in 0..w /\ 8 \in 0..8 /\ w \in 0..8
  BY <1>16, <1>18, PlacesDiffer
<1>20. Spares(m, n1, {"park1"}) /\ n1["park1"] = m["rax"] /\ IsContents(n1)
  <2>1. Spares(m, n1, {"park1"}) /\ n1["park1"] = m["rax"]
    BY <1>2, <1>19, MovesAll
  <2> QED
    BY <2>1 DEF Spares
<1>21. Spares(n1, n2, {"park2"}) /\ n2["park2"] = n1["rdx"] /\ IsContents(n2)
  <2>1. Spares(n1, n2, {"park2"}) /\ n2["park2"] = n1["rdx"]
    BY <1>3, <1>19, <1>20, MovesAll
  <2> QED
    BY <2>1 DEF Spares
<1>22. Spares(n2, n3, {"park3"}) /\ n3["park3"] = n2[hold] /\ IsContents(n3)
  <2>1. Spares(n2, n3, {"park3"}) /\ n3["park3"] = n2[hold]
    BY <1>4, <1>19, <1>21, MovesAll
  <2> QED
    BY <2>1 DEF Spares
<1>23. Spares(m, n3, Scratch)
  BY <1>20, <1>21, <1>22 DEF Spares, Scratch
<1>24. home[a] \notin Scratch /\ home[b] \notin Scratch
  <2>1. home[a] \in Registers \cup Slots \cup Shapes /\ home[b] \in Registers \cup Slots \cup Shapes
    BY HomesAre
  <2>2. Scratch \cap Shapes = {}
    BY DEF Scratch, Shapes
  <2>3. Scratch \cap (Registers \cup Slots) = {}
    BY PlacesDiffer DEF Scratch
  <2> QED
    BY <2>1, <2>2, <2>3
<1>25. There(n3, a, w) /\ There(n3, b, w)
  BY <1>23, <1>24, ThereStill
<1>26. Spares(n3, n4, {hold}) /\ Has(n4, hold, Value(b), w) /\ IsContents(n4)
  <2>1. CASE InRegister(b)
    <3>1. n4 = Mov(n3, hold, home[b], 8)
      BY <1>5, <2>1
    <3>2. ~Constant(b) /\ home[b] \in Places
      BY <2>1, PlacesDiffer DEF InRegister, Constant
    <3>3. Spares(n3, n4, {hold}) /\ n4[hold] = n3[home[b]]
      <4>1. hold \in Places /\ IsContents(n3)
        BY <1>19, <1>22
      <4>2. home[b] \in Places
        BY <3>2
      <4> QED
        BY <4>1, <4>2, <3>1, MovesAll
    <3> QED
      BY <1>19, <1>25, <3>2, <3>3 DEF There, Has, Spares
  <2>2. CASE ~InRegister(b)
    <3>1. n4 = Fetch(n3, b, hold, w)
      BY <1>5, <2>2
    <3>2. Spares(n3, n4, {hold}) /\ Has(n4, hold, Value(b), w)
      BY <1>19, <1>22, <1>25, <3>1, FetchIs
    <3> QED
      BY <3>2 DEF Spares
  <2> QED
    BY <2>1, <2>2
<1>27. There(n4, a, w)
  BY <1>18, <1>25, <1>26, ThereStill
<1>28. Spares(n4, n5, {"rax"}) /\ Has(n5, "rax", Value(a), w) /\ IsContents(n5)
  <2>1. Spares(n4, n5, {"rax"}) /\ Has(n5, "rax", Value(a), w)
    BY <1>6, <1>19, <1>26, <1>27, FirstIntoIs
  <2> QED
    BY <2>1 DEF Spares
<1>29. Has(n5, hold, Value(b), w)
  BY <1>18, <1>26, <1>28, HasStill
<1>30. Spares(n5, n6, {"rdx"}) /\ (w # 1 => n6["rdx"].v = <<"high">>) /\ IsContents(n6)
  <2>1. CASE w = 1
    <3>1. n6 = n5
      BY <1>7, <2>1
    <3> QED
      BY <1>28, <2>1, <3>1 DEF Spares
  <2>2. CASE w # 1
    <3>1. n6 = Set(n5, "rdx", <<"high">>, 8)
      BY <1>7, <2>2
    <3>2. Spares(n5, n6, {"rdx"}) /\ Has(n6, "rdx", <<"high">>, 8)
      BY <1>19, <1>28, <3>1, SetIs
    <3> QED
      BY <3>2 DEF Has, Spares
  <2> QED
    BY <2>1, <2>2
<1>31. value = v
  <2>1. Has(n6, "rax", Value(a), w) /\ Has(n6, hold, Value(b), w)
    BY <1>18, <1>28, <1>29, <1>30, HasStill
  <2>2. Get(n6, "rax", w) = Value(a) /\ Get(n6, hold, w) = Value(b)
    BY <2>1, GetIs
  <2> QED
    BY <1>8, <1>17, <1>30, <2>2
<1>32. Spares(n6, n7, {"rax"}) /\ IsContents(n7)
  <2>1. Spares(n6, n7, {"rax"})
    BY <1>9, <1>19, <1>30, SetIs
  <2> QED
    BY <2>1 DEF Spares
<1>33. Spares(n7, n8, {"rdx"}) /\ IsContents(n8)
  <2>1. Spares(n7, n8, {"rdx"})
    BY <1>10, <1>19, <1>32, SetIs
  <2> QED
    BY <2>1 DEF Spares
<1>34. Spares(n8, n9, {answer}) /\ Has(n9, answer, v, w) /\ IsContents(n9)
  <2>1. Spares(n8, n9, {answer}) /\ Has(n9, answer, v, w)
    BY <1>11, <1>19, <1>31, <1>33, SetIs
  <2> QED
    BY <2>1 DEF Spares
<1>35. Spares(n9, n10, {r}) /\ Has(n10, r, v, w) /\ IsContents(n10)
  <2>1. CASE r = answer
    <3>1. n10 = n9
      BY <1>12, <2>1
    <3> QED
      BY <1>34, <2>1, <3>1 DEF Spares
  <2>2. CASE r # answer
    <3>1. n10 = Mov(n9, r, answer, 8)
      BY <1>12, <2>2
    <3>2. Spares(n9, n10, {r}) /\ n10[r] = n9[answer]
      BY <1>19, <1>34, <3>1, MovesAll
    <3> QED
      BY <1>19, <1>34, <3>2 DEF Has, Spares
  <2> QED
    BY <2>1, <2>2
<1>36. Spares(n10, n11, {"rax"} \ {r}) /\ ("rax" # r => n11["rax"] = n10["park1"]) /\ IsContents(n11)
  <2>1. Spares(n10, n11, {"rax"} \ {r}) /\ ("rax" # r => n11["rax"] = n10["park1"])
    BY <1>13, <1>19, <1>35, BackIs
  <2> QED
    BY <2>1 DEF Spares
<1>37. Spares(n11, n12, {"rdx"} \ {r}) /\ ("rdx" # r => n12["rdx"] = n11["park2"]) /\ IsContents(n12)
  <2>1. Spares(n11, n12, {"rdx"} \ {r}) /\ ("rdx" # r => n12["rdx"] = n11["park2"])
    BY <1>14, <1>19, <1>36, BackIs
  <2> QED
    BY <2>1 DEF Spares
<1>38. Spares(n12, n13, {hold} \ {r}) /\ (hold # r => n13[hold] = n12["park3"])
  BY <1>15, <1>19, <1>37, BackIs
<1>39. Has(n13, r, v, w)
  <2>1. Has(n11, r, v, w)
    BY <1>35, <1>36, HasStill
  <2>2. Has(n12, r, v, w)
    BY <1>37, <2>1, HasStill
  <2> QED
    BY <1>38, <2>2, HasStill
<1> DEFINE parks == {"park1", "park2", "park3"}
<1>40. \A p \in parks : n10[p] = n4[p] /\ n4[p] = n3[p] /\ n11[p] = n10[p] /\ n12[p] = n11[p]
  <2>1. \A p \in parks : p \in Places /\ p \notin {"rax", "rdx", hold, answer, r}
    BY <1>19
  <2>2. \A p \in parks : n4[p] = n3[p] /\ n5[p] = n4[p] /\ n6[p] = n5[p]
    BY <2>1, <1>26, <1>28, <1>30 DEF Spares
  <2>3. \A p \in parks : n7[p] = n6[p] /\ n8[p] = n7[p] /\ n9[p] = n8[p] /\ n10[p] = n9[p]
    BY <2>1, <1>32, <1>33, <1>34, <1>35 DEF Spares
  <2>4. \A p \in parks : n11[p] = n10[p] /\ n12[p] = n11[p]
    BY <2>1, <1>36, <1>37 DEF Spares
  <2> HIDE DEF parks
  <2> QED
    BY <2>2, <2>3, <2>4
<1>41. ASSUME NEW p \in Places \ ({r} \cup Scratch)
       PROVE  n13[p] = m[p]
  <2>1. CASE p = "rax"
    <3>1. n13[p] = n12[p] /\ n12[p] = n11[p] /\ n11[p] = n10["park1"]
      BY <1>18, <1>41, <2>1, <1>36, <1>37, <1>38 DEF Spares
    <3>2. n3["park1"] = n2["park1"] /\ n2["park1"] = n1["park1"] /\ n1["park1"] = m[p]
      BY <1>19, <2>1, <1>20, <1>21, <1>22 DEF Spares
    <3> QED
      BY <1>40, <3>1, <3>2
  <2>2. CASE p = "rdx"
    <3>1. n13[p] = n12[p] /\ n12[p] = n11["park2"]
      BY <1>18, <1>41, <2>2, <1>37, <1>38 DEF Spares
    <3>2. n3["park2"] = n2["park2"] /\ n2["park2"] = n1[p] /\ n1[p] = m[p]
      BY <1>19, <2>2, <1>20, <1>21, <1>22 DEF Spares
    <3> QED
      BY <1>40, <3>1, <3>2
  <2>3. CASE p = hold
    <3>1. n13[p] = n12["park3"]
      BY <1>41, <2>3, <1>38
    <3>2. n3["park3"] = n2[p] /\ n2[p] = n1[p] /\ n1[p] = m[p]
      BY <1>19, <2>3, <1>20, <1>21, <1>22 DEF Spares
    <3> QED
      BY <1>40, <3>1, <3>2
  <2>4. CASE p \notin {"rax", "rdx", hold}
    <3>0. p \in Places /\ p # r /\ p # answer /\ p \notin {"park1", "park2", "park3"}
      BY <1>16, <1>41, <2>4 DEF Scratch
    <3>1. n4[p] = n3[p] /\ n5[p] = n4[p] /\ n6[p] = n5[p] /\ n7[p] = n6[p] /\ n8[p] = n7[p]
      BY <3>0, <2>4, <1>26, <1>28, <1>30, <1>32, <1>33 DEF Spares
    <3>2. n9[p] = n8[p] /\ n10[p] = n9[p] /\ n11[p] = n10[p] /\ n12[p] = n11[p] /\ n13[p] = n12[p]
      BY <3>0, <2>4, <1>34, <1>35, <1>36, <1>37, <1>38 DEF Spares
    <3>3. n3[p] = m[p]
      BY <1>23, <1>41 DEF Spares
    <3> QED
      BY <3>1, <3>2, <3>3
  <2> QED
    BY <2>1, <2>2, <2>3, <2>4
<1>42. Spares(m, n13, {r} \cup Unused \cup Scratch)
  BY <1>38, <1>41 DEF Spares
<1> QED
  BY <1>1, <1>16, <1>17, <1>39, <1>42 DEF Computed

(* Binary instructions, as they are.                                          *)
LEMMA BinIs ==
  ASSUME Handed, instr.kind = "bin"
  PROVE  /\ instr.w \in {1, 4, 8} /\ instr.reads[1] = "a" /\ instr.reads[2] \in {"a", "b"}
         /\ Reads(instr) = {instr.reads[1], instr.reads[2]} /\ Writes(instr) = {"d"}
         /\ \A o \in Reads(instr) : WidthOf(instr, o) = instr.w
         /\ Meaning = <<instr.op, Value(instr.reads[1]), Value(instr.reads[2])>>
<1>1. instr \in Bins
  BY DEF Handed, Instr, Uns, Casts, SelectInstrs, Loads, Stores
<1>2. PICK op \in {"add", "mul", "sub", "shl", "ult", "div", "rem"}, w \in Width, r \in {<<"a", "b">>, <<"a", "a">>} :
         instr = [kind |-> "bin", op |-> op, w |-> w, from |-> w, reads |-> r]
  BY <1>1 DEF Bins
<1>3. /\ instr.op = op /\ instr.w = w /\ instr.from = w /\ instr.reads = r
      /\ w \in {1, 4, 8} /\ r[1] = "a" /\ r[2] \in {"a", "b"}
  BY <1>2 DEF Width
<1>4. Reads(instr) = {r[1], r[2]}
  <2>1. ToSet(r) = {r[1], r[2]}
    BY DEF ToSet
  <2> QED
    BY <1>3, <2>1 DEF Reads
<1>5. \A o \in Reads(instr) : WidthOf(instr, o) = instr.w
  BY <1>3, <1>4 DEF WidthOf
<1>6. Meaning = <<instr.op, Value(instr.reads[1]), Value(instr.reads[2])>>
  BY <1>3 DEF Meaning
<1>7. Writes(instr) = {"d"}
  BY DEF Writes
<1> QED
  BY <1>3, <1>4, <1>5, <1>6, <1>7

(* A binary instruction has its result, unless a scratch register is taken.   *)
LEMMA BinComputes ==
  ASSUME Handed, instr.kind = "bin", NEW m, Given(m), Dest \in Registers, ~ScratchIsTaken
  PROVE  Computed(m, BinInto(m, Dest, instr.reads[1], instr.reads[2], instr.op, instr.w), Dest, Meaning,
                  ResultWidth(instr.op, instr.w))
<1> DEFINE a == instr.reads[1]
           b == instr.reads[2]
           op == instr.op
           w == instr.w
           r == Dest
<1>1. /\ w \in {1, 4, 8} /\ a = "a" /\ b \in {"a", "b"} /\ a \in Reads(instr) /\ b \in Reads(instr)
      /\ Meaning = <<op, Value(a), Value(b)>>
  BY BinIs
<1>2. There(m, a, w) /\ There(m, b, w) /\ IsContents(m)
  <2>1. WidthOf(instr, a) = w /\ WidthOf(instr, b) = w
    BY <1>1, BinIs
  <2> QED
    BY <1>1, <2>1 DEF Given, There
<1>3. a # b /\ home[a] = home[b] => home[a] \in Shapes
  <2>1. SUFFICES ASSUME a # b, home[a] = home[b]
                 PROVE  home[a] \in Shapes
    OBVIOUS
  <2>2. a \in DOMAIN home /\ b \in DOMAIN home
    BY <1>1 DEF Handed
  <2>3. home[a] \in Shapes \/ {a, b} = {"a", "d"}
    BY <2>1, <2>2 DEF Handed, IsHome
  <2> QED
    BY <1>1, <2>1, <2>3
<1>4. \/ op \in {"div", "rem"} \/ ConstantFirst(r, a, b, op, w)
      \/ InRegister(b) \/ Encodes(op, b, w) \/ Free(AvoidFor(r, a)) # {}
  BY DEF ScratchIsTaken
<1> HIDE DEF a, b, op, w, r
<1>5. CASE op \in {"div", "rem"}
  <2>1. BinInto(m, r, a, b, op, w) = DividesInto(m, r, a, b, op, w)
    BY <1>5 DEF BinInto
  <2>2. Computed(m, DividesInto(m, r, a, b, op, w), r, <<op, Value(a), Value(b)>>, ResultWidth(op, w))
    BY <1>1, <1>2, <1>5, DivideIs DEF r
  <2> QED
    BY <1>1, <2>1, <2>2 DEF a, b, op, w, r
<1>6. CASE op \notin {"div", "rem"} /\ ConstantFirst(r, a, b, op, w)
  <2>1. BinInto(m, r, a, b, op, w) = ConstantFirstInto(m, r, a, b, op)
    BY <1>6 DEF BinInto
  <2>2. w = 8
    BY <1>6 DEF ConstantFirst
  <2>3. Computed(m, ConstantFirstInto(m, r, a, b, op), r, <<op, Value(a), Value(b)>>, ResultWidth(op, w))
    BY <1>1, <1>2, <1>6, <2>2, ConstantFirstIs DEF r
  <2> QED
    BY <1>1, <2>1, <2>3 DEF a, b, op, w, r
<1>7. CASE op \notin {"div", "rem"} /\ ~ConstantFirst(r, a, b, op, w)
  <2>1. BinInto(m, r, a, b, op, w) = AluInto(m, r, a, b, op, w)
    BY <1>7 DEF BinInto
  <2>2. InRegister(b) \/ Encodes(op, b, w) \/ Free(AvoidFor(r, a)) # {}
    BY <1>4, <1>7
  <2>3. Computed(m, AluInto(m, r, a, b, op, w), r, <<op, Value(a), Value(b)>>, ResultWidth(op, w))
    BY <1>1, <1>2, <1>3, <2>2, AluIs DEF r
  <2> QED
    BY <1>1, <2>1, <2>3 DEF a, b, op, w, r
<1> QED
  BY <1>5, <1>6, <1>7

-----------------------------------------------------------------------------
(* The other instructions                                                     *)

(* A result set last is computed.                                             *)
LEMMA SetComputes ==
  ASSUME NEW m, NEW n, NEW r \in Places, Spares(m, n, {r} \cup Unused), NEW v, NEW w \in 0..8,
         NEW n2, n2 = Set(n, r, v, w)
  PROVE  Computed(m, n2, r, v, w)
<1>1. IsContents(n)
  BY DEF Spares
<1>2. Spares(n, n2, {r}) /\ Has(n2, r, v, w)
  BY <1>1, SetIs
<1>3. Spares(m, n2, {r} \cup Unused \cup Scratch)
  BY <1>2 DEF Spares
<1> QED
  BY <1>2, <1>3 DEF Computed

(* Instructions of one operand, as they are.                                  *)
LEMMA OneIs ==
  ASSUME Handed, instr.kind \in {"un", "cast", "load"}
  PROVE  /\ instr.w \in {1, 4, 8} /\ instr.from \in {1, 4, 8}
         /\ Reads(instr) = {"a"} /\ Writes(instr) = {"d"} /\ WidthOf(instr, "a") = instr.from
         /\ instr.kind = "un" => instr.op = "not" /\ instr.from = instr.w
         /\ instr.kind = "load" => instr.op = "load" /\ instr.from = 8
         /\ instr.kind = "cast" => instr.op \in {"extend", "trunc"} /\ (instr.op = "trunc" => instr.w < instr.from)
         /\ Meaning = IF instr.op = "trunc" THEN Value("a") ELSE <<instr.op, Value("a"), <<>>>>
<1>1. instr \in Uns \cup Casts \cup Loads
  BY DEF Handed, Instr, Bins, SelectInstrs, Stores
<1>2. /\ instr.w \in {1, 4, 8} /\ instr.from \in {1, 4, 8} /\ instr.reads = <<"a">>
      /\ instr.kind = "un" => instr.op = "not" /\ instr.from = instr.w
      /\ instr.kind = "load" => instr.op = "load" /\ instr.from = 8
      /\ instr.kind = "cast" => instr.op \in {"extend", "trunc"} /\ (instr.op = "trunc" => instr.w < instr.from)
  <2>1. CASE instr \in Uns
    BY <2>1 DEF Uns, Width
  <2>2. CASE instr \in Casts
    BY <2>2 DEF Casts, Width
  <2>3. CASE instr \in Loads
    BY <2>3 DEF Loads, Width
  <2> QED
    BY <1>1, <2>1, <2>2, <2>3
<1>3. Reads(instr) = {"a"}
  <2>1. ToSet(<<"a">>) = {"a"}
    BY DEF ToSet
  <2> QED
    BY <1>2, <2>1 DEF Reads
<1>4. WidthOf(instr, "a") = instr.from /\ Writes(instr) = {"d"}
  BY DEF WidthOf, Writes
<1>5. Meaning = IF instr.op = "trunc" THEN Value("a") ELSE <<instr.op, Value("a"), <<>>>>
  BY <1>2 DEF Meaning
<1> QED
  BY <1>2, <1>3, <1>4, <1>5

(* A unary operation has its result.                                          *)
LEMMA UnComputes ==
  ASSUME Handed, instr.kind = "un", NEW m, Given(m), Dest \in Registers
  PROVE  Computed(m, UnInto(m, Dest), Dest, Meaning, instr.w)
<1> DEFINE n == FirstInto(m, "a", Dest, instr.w)
           n2 == Set(n, Dest, Meaning, instr.w)
<1>1. /\ instr.w \in 0..8 /\ instr.w \in 0..instr.w /\ There(m, "a", instr.w) /\ IsContents(m) /\ Dest \in Places
      /\ Meaning = <<instr.op, Value("a"), <<>>>>
  BY OneIs, PlacesDiffer DEF Given, There
<1>2. Spares(m, n, {Dest}) /\ Has(n, Dest, Value("a"), instr.w)
  BY <1>1, FirstIntoIs
<1>3. Get(n, Dest, instr.w) = Value("a")
  BY <1>2, GetIs
<1>4. UnInto(m, Dest) = n2
  BY <1>1, <1>3 DEF UnInto
<1>5. n2 = Set(n, Dest, Meaning, instr.w)
  OBVIOUS
<1>6. Spares(m, n, {Dest} \cup Unused)
  BY <1>2 DEF Spares
<1> HIDE DEF n, n2
<1> QED
  BY <1>1, <1>4, <1>5, <1>6, SetComputes

(* A cast has its result.                                                     *)
LEMMA CastComputes ==
  ASSUME Handed, instr.kind = "cast", NEW m, Given(m), Dest \in Registers
  PROVE  Computed(m, CastInto(m, Dest), Dest, Meaning, instr.w)
<1> DEFINE n == EnsureReg(m, "a", instr.from, Dest)
           from == RegOf("a", Dest)
           n2 == Set(n, Dest, Meaning, instr.w)
           n3 == IF from = Dest THEN n ELSE Mov(n, Dest, from, instr.w)
<1>1. /\ instr.w \in 0..8 /\ instr.from \in 0..8 /\ instr.from \in 0..instr.from /\ There(m, "a", instr.from)
      /\ IsContents(m) /\ Dest \in Places
  BY OneIs, PlacesDiffer DEF Given, There
<1>2. Spares(m, n, {Dest}) /\ Has(n, from, Value("a"), instr.from)
  BY <1>1, EnsureRegIs
<1>3. Spares(m, n, {Dest} \cup Unused) /\ IsContents(n)
  BY <1>2 DEF Spares
<1>4. n = IF InRegister("a") THEN m ELSE Fetch(m, "a", Dest, instr.from)
  BY DEF EnsureReg
<1>5. CASE instr.op = "extend"
  <2>1. Get(n, from, instr.from) = Value("a")
    BY <1>2, GetIs
  <2>2. CastInto(m, Dest) = Set(n, Dest, <<"extend", Get(n, from, instr.from), <<>>>>, instr.w)
    BY <1>5, <1>4 DEF CastInto
  <2>3. Meaning = <<"extend", Value("a"), <<>>>>
    BY <1>5, OneIs
  <2>4. CastInto(m, Dest) = n2
    BY <2>1, <2>2, <2>3
  <2>5. n2 = Set(n, Dest, Meaning, instr.w)
    OBVIOUS
  <2> HIDE DEF n, n2
  <2> QED
    BY <1>1, <1>3, <2>4, <2>5, SetComputes
<1>6. CASE instr.op # "extend"
  <2>1. Meaning = Value("a") /\ instr.w \in 0..instr.from
    BY <1>6, OneIs
  <2>2. CastInto(m, Dest) = n3
    BY <1>6, <1>4 DEF CastInto
  <2>3. n3 = IF from = Dest THEN n ELSE Mov(n, Dest, from, instr.w)
    OBVIOUS
  <2> HIDE DEF n, n3, from
  <2>4. Has(n, from, Value("a"), instr.w)
    BY <1>1, <1>2, <1>3, <2>1, HasLess
  <2>5. Has(n3, Dest, Value("a"), instr.w) /\ Spares(n, n3, {Dest})
    <3>1. CASE from = Dest
      <4>1. n3 = n
        BY <2>3, <3>1
      <4> QED
        BY <1>3, <2>4, <3>1, <4>1 DEF Spares
    <3>2. CASE from # Dest
      <4>1. n3 = Mov(n, Dest, from, instr.w)
        BY <2>3, <3>2
      <4>2. from \in Places /\ instr.w \in 0..instr.w
        BY <1>1, <2>4 DEF Has
      <4>3. Spares(n, Mov(n, Dest, from, instr.w), {Dest})
        BY <1>1, <1>3, <4>2, MovIs
      <4>4. Has(Mov(n, Dest, from, instr.w), Dest, Value("a"), instr.w)
        BY <1>1, <1>3, <2>4, <4>2, MovBrings
      <4> QED
        BY <4>1, <4>3, <4>4
    <3> QED
      BY <3>1, <3>2
  <2>6. Spares(m, n3, {Dest} \cup Unused \cup Scratch)
    BY <1>3, <2>5 DEF Spares
  <2> QED
    BY <2>1, <2>2, <2>5, <2>6 DEF Computed
<1> QED
  BY <1>5, <1>6

(* A load has what is at its address.                                         *)
LEMMA LoadComputes ==
  ASSUME Handed, instr.kind = "load", NEW m, Given(m), Dest \in Registers
  PROVE  Computed(m, LoadInto(m, Dest), Dest, Meaning, instr.w)
<1> DEFINE direct == home["a"] \in {"near", "frame"}
           n == IF direct THEN m ELSE EnsureReg(m, "a", 8, Dest)
           address == IF direct THEN Value("a") ELSE Get(n, RegOf("a", Dest), 8)
           n2 == Set(n, Dest, Meaning, instr.w)
<1>1. /\ instr.w \in 0..8 /\ 8 \in 0..8 /\ There(m, "a", 8) /\ IsContents(m) /\ Dest \in Places
      /\ Meaning = <<"load", Value("a"), <<>>>>
  BY OneIs, PlacesDiffer DEF Given, There
<1>2. Spares(m, n, {Dest}) /\ address = Value("a")
  <2>1. CASE direct
    BY <1>1, <2>1 DEF Spares
  <2>2. CASE ~direct
    <3>1. n = EnsureReg(m, "a", 8, Dest) /\ address = Get(n, RegOf("a", Dest), 8)
      BY <2>2
    <3>2. /\ Spares(m, EnsureReg(m, "a", 8, Dest), {Dest})
          /\ Has(EnsureReg(m, "a", 8, Dest), RegOf("a", Dest), Value("a"), 8)
      BY <1>1, EnsureRegIs
    <3>3. Get(EnsureReg(m, "a", 8, Dest), RegOf("a", Dest), 8) = Value("a")
      BY <3>2, GetIs
    <3> HIDE DEF direct, n, address
    <3> QED
      BY <3>1, <3>2, <3>3
  <2> QED
    BY <2>1, <2>2
<1>3. LoadInto(m, Dest) = Set(n, Dest, <<"load", address, <<>>>>, instr.w)
  BY DEF LoadInto
<1>4. LoadInto(m, Dest) = n2
  BY <1>1, <1>2, <1>3
<1>5. n2 = Set(n, Dest, Meaning, instr.w)
  OBVIOUS
<1> HIDE DEF n, n2, address, direct
<1>6. Spares(m, n, {Dest} \cup Unused)
  BY <1>2 DEF Spares
<1> QED
  BY <1>1, <1>4, <1>5, <1>6, SetComputes

(* A choice, as it is.                                                        *)
LEMMA SelectIs ==
  ASSUME Handed, instr.kind = "select"
  PROVE  /\ instr.w \in {4, 8} /\ Reads(instr) = {"a", "b", "c"} /\ Writes(instr) = {"d"}
         /\ WidthOf(instr, "a") = instr.w /\ WidthOf(instr, "b") = instr.w /\ WidthOf(instr, "c") = 1
         /\ Meaning = <<"select", Value("c"), Value("a"), Value("b")>>
<1>1. instr \in SelectInstrs
  BY DEF Handed, Instr, Uns, Casts, Bins, Loads, Stores
<1>2. instr.w \in {4, 8} /\ instr.from = instr.w /\ instr.reads = <<"a", "b", "c">> /\ instr.op = "select"
  BY <1>1 DEF SelectInstrs
<1>3. Reads(instr) = {"a", "b", "c"}
  <2>1. ToSet(<<"a", "b", "c">>) = {"a", "b", "c"}
    BY DEF ToSet
  <2> QED
    BY <1>2, <2>1 DEF Reads
<1>4. WidthOf(instr, "a") = instr.w /\ WidthOf(instr, "b") = instr.w /\ WidthOf(instr, "c") = 1 /\ Writes(instr) = {"d"}
  BY <1>2 DEF WidthOf, Writes
<1>5. Meaning = <<"select", Value("c"), Value("a"), Value("b")>>
  BY <1>2 DEF Meaning
<1> QED
  BY <1>2, <1>3, <1>4, <1>5

(* A choice has its result, unless registers are crowded.                     *)
LEMMA SelectComputes ==
  ASSUME Handed, instr.kind = "select", NEW m, Given(m), Dest \in Registers, ~SelectIsCrowded
  PROVE  Computed(m, SelectInto(m, Dest), Dest, Meaning, instr.w)
<1> DEFINE r == Dest
           w == instr.w
           forB == FreeOr({r}, IF r # "rax" THEN "rax" ELSE "rcx")
           forC == FreeOr({r, forB}, IF "rcx" \notin {r, forB} THEN "rcx" ELSE "rdx")
           n1 == FirstInto(m, "a", r, w)
           n2 == EnsureReg(n1, "b", w, forB)
           n3 == EnsureReg(n2, "c", 1, forC)
           n4 == Set(n3, r, Meaning, w)
           rb == RegOf("b", forB)
           rc == RegOf("c", forC)
<1>1. /\ w \in 0..8 /\ w \in 0..w /\ 1 \in 0..8 /\ 1 \in 0..1 /\ r \in Places /\ r \in Registers /\ IsContents(m)
      /\ There(m, "a", w) /\ There(m, "b", w) /\ There(m, "c", 1)
      /\ Meaning = <<"select", Value("c"), Value("a"), Value("b")>>
  BY SelectIs, PlacesDiffer DEF Given, There
<1>2. /\ r # home["b"] /\ r # home["c"]
      /\ ~InRegister("b") => Free({r}) # {}
      /\ ~InRegister("c") => Free({r, FreeOr({r}, r)}) # {}
  BY DEF SelectIsCrowded
<1>3. /\ home["b"] \notin Unused /\ home["c"] \notin Unused
  BY SelectIs, HomesAre
<1>4. forB \in Registers /\ (~InRegister("b") => forB \in Unused /\ forB # r)
  <2>1. CASE Free({r}) = {}
    <3>1. forB \in {"rax", "rcx"}
      BY <2>1, FreeOrIs
    <3> QED
      BY <1>2, <2>1, <3>1, PlacesDiffer
  <2>2. CASE Free({r}) # {}
    <3>1. forB \in Free({r})
      BY <2>2, FreeOrIs
    <3> HIDE DEF forB
    <3>2. forB \in Unused /\ forB # r
      BY <3>1, FreeOrIs
    <3> QED
      BY <3>2, HomesAre
  <2> QED
    BY <2>1, <2>2
<1>5. forC \in Registers /\ (~InRegister("c") => forC \in Unused /\ forC # r /\ forC # forB)
  <2>1. ~InRegister("c") => Free({r, forB}) # {}
    <3>1. CASE Free({r}) = {}
      <4>1. Free({r, FreeOr({r}, r)}) \subseteq Free({r})
        BY DEF Free
      <4> QED
        BY <1>2, <3>1, <4>1
    <3>2. CASE Free({r}) # {}
      <4>1. FreeOr({r}, r) = forB
        BY <3>2 DEF FreeOr
      <4> QED
        BY <1>2, <4>1
    <3> QED
      BY <3>1, <3>2
  <2> HIDE DEF forB
  <2>2. CASE Free({r, forB}) = {}
    <3>1. forC \in {"rcx", "rdx"}
      BY <2>2, FreeOrIs
    <3> QED
      BY <2>1, <2>2, <3>1, PlacesDiffer
  <2>3. CASE Free({r, forB}) # {}
    <3>1. forC \in Free({r, forB})
      BY <2>3, FreeOrIs
    <3> HIDE DEF forC
    <3>2. forC \in Unused /\ forC # r /\ forC # forB
      BY <3>1, FreeOrIs
    <3> QED
      BY <3>2, HomesAre
  <2> QED
    BY <2>2, <2>3
<1>6. n1 = FirstInto(m, "a", r, w)
  OBVIOUS
<1>7. n2 = EnsureReg(n1, "b", w, forB)
  OBVIOUS
<1>8. n3 = EnsureReg(n2, "c", 1, forC)
  OBVIOUS
<1>9. n4 = Set(n3, r, Meaning, w)
  OBVIOUS
<1>10. rb = RegOf("b", forB)
  OBVIOUS
<1>11. rc = RegOf("c", forC)
  OBVIOUS
<1>12. SelectInto(m, r) = Set(n3, r, <<"select", Get(n3, rc, 1), Get(n3, r, w), Get(n3, rb, w)>>, w)
  BY DEF SelectInto
<1> HIDE DEF r, w, forB, forC, n1, n2, n3, n4, rb, rc
<1>13. Spares(m, n1, {r}) /\ Has(n1, r, Value("a"), w) /\ IsContents(n1)
  <2>1. Spares(m, n1, {r}) /\ Has(n1, r, Value("a"), w)
    BY <1>1, <1>6, FirstIntoIs
  <2> QED
    BY <2>1 DEF Spares
<1>14. There(n1, "b", w) /\ There(n1, "c", 1)
  BY <1>1, <1>2, <1>13, ThereStill
<1>15. /\ Spares(n1, n2, IF InRegister("b") THEN {} ELSE {forB}) /\ Has(n2, rb, Value("b"), w) /\ IsContents(n2)
       /\ (InRegister("b") => rb = home["b"]) /\ (~InRegister("b") => rb = forB)
  <2>1. /\ Spares(n1, n2, {forB}) /\ Has(n2, rb, Value("b"), w)
        /\ InRegister("b") => n2 = n1 /\ rb = home["b"]
        /\ ~InRegister("b") => rb = forB
    BY <1>1, <1>4, <1>7, <1>10, <1>13, <1>14, EnsureRegIs
  <2> QED
    BY <1>13, <2>1 DEF Spares
<1>16. There(n2, "c", 1) /\ Has(n2, r, Value("a"), w) /\ rb # r
  <2>1. home["c"] \notin (IF InRegister("b") THEN {} ELSE {forB}) /\ r \notin (IF InRegister("b") THEN {} ELSE {forB})
    BY <1>3, <1>4
  <2>2. There(n2, "c", 1)
    BY <1>14, <1>15, <2>1, ThereStill
  <2>3. Has(n2, r, Value("a"), w)
    BY <1>13, <1>15, <2>1, HasStill
  <2> QED
    BY <1>2, <1>4, <1>15, <2>2, <2>3
<1>17. /\ Spares(n2, n3, IF InRegister("c") THEN {} ELSE {forC}) /\ Has(n3, rc, Value("c"), 1)
  <2>1. /\ Spares(n2, n3, {forC}) /\ Has(n3, rc, Value("c"), 1)
        /\ InRegister("c") => n3 = n2
    BY <1>1, <1>5, <1>8, <1>11, <1>15, <1>16, EnsureRegIs
  <2> QED
    BY <1>15, <2>1 DEF Spares
<1>18. Has(n3, r, Value("a"), w) /\ Has(n3, rb, Value("b"), w)
  <2>1. r \notin (IF InRegister("c") THEN {} ELSE {forC}) /\ rb \notin (IF InRegister("c") THEN {} ELSE {forC})
    BY <1>3, <1>5, <1>15
  <2> QED
    BY <1>15, <1>16, <1>17, <2>1, HasStill
<1>19. Get(n3, rc, 1) = Value("c") /\ Get(n3, r, w) = Value("a") /\ Get(n3, rb, w) = Value("b")
  BY <1>17, <1>18, GetIs
<1>20. SelectInto(m, r) = n4
  BY <1>1, <1>9, <1>12, <1>19
<1>21. Spares(m, n3, {r} \cup Unused)
  <2>1. Spares(n1, n2, Unused)
    BY <1>4, <1>15 DEF Spares
  <2>2. Spares(n2, n3, Unused)
    BY <1>5, <1>17 DEF Spares
  <2> QED
    BY <1>13, <2>1, <2>2 DEF Spares
<1>22. Computed(m, n4, r, Meaning, w)
  BY <1>1, <1>9, <1>21, SetComputes
<1> QED
  BY <1>20, <1>22 DEF r, w

(* A store, as it is.                                                         *)
LEMMA StoreIs ==
  ASSUME Handed, instr.kind = "store"
  PROVE  /\ instr.w \in {4, 8} /\ Reads(instr) = {"a", "b"} /\ Writes(instr) = {}
         /\ WidthOf(instr, "a") = 8 /\ WidthOf(instr, "b") = instr.w
<1>1. instr \in Stores
  BY DEF Handed, Instr, Uns, Casts, Bins, Loads, SelectInstrs
<1>2. instr.w \in {4, 8} /\ instr.reads = <<"a", "b">>
  BY <1>1 DEF Stores
<1>3. Reads(instr) = {"a", "b"}
  <2>1. ToSet(<<"a", "b">>) = {"a", "b"}
    BY DEF ToSet
  <2> QED
    BY <1>2, <2>1 DEF Reads
<1>4. WidthOf(instr, "a") = 8 /\ WidthOf(instr, "b") = instr.w /\ Writes(instr) = {}
  BY DEF WidthOf, Writes
<1> QED
  BY <1>2, <1>3, <1>4

(* A store stores its value at its address and spares what is needed, unless  *)
(* a register it names is taken.                                              *)
LEMMA StoreComputes ==
  ASSUME Handed, instr.kind = "store", NEW m, Given(m), ~StoreIsCrowded
  PROVE  /\ Stored(m).memory = <<Value("a"), Value("b")>>
         /\ Spares(m, Stored(m).contents, Unused \cup Scratch)
<1> DEFINE w == instr.w
           C == Carrier
           parks == Carries /\ Free(CarrierAvoids) = {}
           n1 == IF InSlot("a") THEN Mov(m, "rcx", home["a"], 8) ELSE m
           n2 == IF parks THEN Mov(n1, "park1", C, 8) ELSE n1
           n3 == IF Carries THEN Fetch(n2, "b", C, w) ELSE n2
           n4 == IF home["a"] = "far" THEN Set(n3, "r10", Value("a"), 8) ELSE n3
           n5 == IF StoresWide THEN Set(n4, "r11", Value("b"), 8) ELSE n4
           n6 == IF parks THEN Mov(n5, C, "park1", 8) ELSE n5
           ra == RegOf("a", "rcx")
           rb == RegOf("b", C)
           address == CASE home["a"] \in {"near", "frame"} -> Value("a")
                        [] home["a"] = "far" -> Get(n5, "r10", 8)
                        [] OTHER -> Get(n5, ra, 8)
           value == CASE StoresWide -> Get(n5, "r11", 8)
                      [] home["b"] \in {"near", "far"} -> Value("b")
                      [] OTHER -> Get(n5, rb, w)
<1>1. Stored(m) = [memory |-> <<address, value>>, contents |-> n6]
  BY Zenon DEF Stored
<1>2. /\ w \in 0..8 /\ w \in 0..w /\ 8 \in 0..8 /\ IsContents(m)
      /\ There(m, "a", 8) /\ There(m, "b", w)
      /\ {"rcx", "r10", "r11", "park1"} \subseteq Places /\ {"rcx", "r10", "r11"} \subseteq Registers
      /\ "park1" \notin Registers
  BY StoreIs, PlacesDiffer DEF Given, There
<1>3. /\ home["a"] \in Registers \cup Slots \cup Shapes /\ home["b"] \in Registers \cup Slots \cup Shapes
      /\ home["a"] \notin Unused /\ home["b"] \notin Unused
      /\ InRegister("a") => home["a"] \in Busy
      /\ InRegister("b") => home["b"] \in Busy
  BY StoreIs, HomesAre DEF InRegister
<1>4. /\ InSlot("a") => "rcx" \in Unused
      /\ home["a"] = "far" => "r10" \in Unused
      /\ StoresWide => "r11" \in Unused
  <2>1. /\ InSlot("a") => "rcx" \notin Busy
        /\ home["a"] = "far" => "r10" \notin Busy
        /\ StoresWide => "r11" \notin Busy
    BY DEF StoreIsCrowded
  <2> QED
    BY <2>1, PlacesDiffer DEF Unused, Free
<1>5. /\ "r10" \in CarrierAvoids /\ "r11" \in CarrierAvoids
      /\ InSlot("a") => "rcx" \in CarrierAvoids
      /\ InRegister("a") => home["a"] \in CarrierAvoids
  <2>1. ~(InSlot("a") /\ InRegister("a"))
    BY PlacesDiffer DEF InSlot, InRegister
  <2> QED
    BY <2>1 DEF CarrierAvoids, InRegister
<1>6. C \in Registers \ CarrierAvoids /\ (Carries /\ ~parks => C \in Unused)
  <2>1. CASE Free(CarrierAvoids) = {}
    <3>1. {"rax", "rcx", "rdx", "r10", "r11"} \ CarrierAvoids # {}
      <4>1. \E x : CarrierAvoids \subseteq {"r10", "r11", x}
        <5>1. CASE InSlot("a")
          BY <5>1 DEF CarrierAvoids
        <5>2. CASE ~InSlot("a")
          <6>1. CarrierAvoids \subseteq {"r10", "r11", home["a"]}
            BY <5>2 DEF CarrierAvoids
          <6> QED
            BY <6>1
        <5> QED
          BY <5>1, <5>2
      <4> QED
        BY <4>1
    <3>2. FirstBut(CarrierAvoids) \in ToSet(Volatiles) \ CarrierAvoids
      BY <3>1, FirstButIs
    <3>3. C = FirstBut(CarrierAvoids)
      BY <2>1, FreeOrIs DEF Carrier
    <3> QED
      BY <2>1, <3>2, <3>3, PlacesDiffer
  <2>2. CASE Free(CarrierAvoids) # {}
    <3>1. C \in Free(CarrierAvoids)
      BY <2>2, FreeOrIs DEF Carrier
    <3> HIDE DEF C
    <3>2. C \in Unused /\ C \notin CarrierAvoids
      BY <3>1, FreeOrIs
    <3> QED
      BY <3>2, HomesAre
  <2> QED
    BY <2>1, <2>2
<1>7. /\ InSlot("a") => n1 = Mov(m, "rcx", home["a"], 8)
      /\ ~InSlot("a") => n1 = m
  OBVIOUS
<1>8. /\ parks => n2 = Mov(n1, "park1", C, 8)
      /\ ~parks => n2 = n1
  OBVIOUS
<1>9. /\ Carries => n3 = Fetch(n2, "b", C, w)
      /\ ~Carries => n3 = n2
  OBVIOUS
<1>10. /\ home["a"] = "far" => n4 = Set(n3, "r10", Value("a"), 8)
       /\ home["a"] # "far" => n4 = n3
  OBVIOUS
<1>11. /\ StoresWide => n5 = Set(n4, "r11", Value("b"), 8)
       /\ ~StoresWide => n5 = n4
  OBVIOUS
<1>12. /\ parks => n6 = Mov(n5, C, "park1", 8)
       /\ ~parks => n6 = n5
  OBVIOUS
<1>13. /\ home["a"] \in {"near", "frame"} => address = Value("a")
       /\ home["a"] = "far" => address = Get(n5, "r10", 8)
       /\ home["a"] \notin {"near", "frame", "far"} => address = Get(n5, ra, 8)
  BY Zenon
<1>14. /\ StoresWide => value \in {Get(n5, "r11", 8), Value("b")}
       /\ ~StoresWide /\ home["b"] \in {"near", "far"} => value = Value("b")
       /\ ~StoresWide /\ home["b"] \notin {"near", "far"} => value = Get(n5, rb, w)
  BY Zenon
<1>15. /\ InRegister("a") => ra = home["a"]
       /\ ~InRegister("a") => ra = "rcx"
       /\ InRegister("b") => rb = home["b"]
       /\ ~InRegister("b") => rb = C
  BY DEF RegOf
<1>16. /\ parks => Carries
       /\ InRegister("b") => ~Carries
       /\ StoresWide => ~Carries /\ ~InRegister("b")
  BY PlacesDiffer DEF Carries, InRegister, StoresWide, Shapes
<1> HIDE DEF w, C, parks, n1, n2, n3, n4, n5, n6, ra, rb, address, value
<1>17. /\ Spares(m, n1, IF InSlot("a") THEN {"rcx"} ELSE {}) /\ IsContents(n1)
       /\ ~Constant("a") => Has(n1, ra, Value("a"), 8)
       /\ There(n1, "b", w)
  <2>1. CASE InSlot("a")
    <3>1. n1 = Mov(m, "rcx", home["a"], 8)
      BY <1>7, <2>1
    <3>2. ~Constant("a") /\ ~InRegister("a") /\ home["a"] \in Places
      BY <2>1, PlacesDiffer DEF InSlot, InRegister, Constant
    <3>3. Spares(m, n1, {"rcx"}) /\ n1["rcx"] = m[home["a"]]
      <4>1. "rcx" \in Places /\ home["a"] \in Places
        BY <1>2, <3>2
      <4> QED
        BY <1>2, <3>1, <4>1, MovesAll
    <3>4. Has(n1, ra, Value("a"), 8)
      BY <1>2, <1>15, <3>2, <3>3 DEF There, Has
    <3>5. home["b"] # "rcx"
      BY <1>3, <1>4, <2>1
    <3>6. There(n1, "b", w)
      BY <1>2, <3>3, <3>5, ThereStill
    <3> QED
      BY <2>1, <3>3, <3>4, <3>6 DEF Spares
  <2>2. CASE ~InSlot("a")
    <3>1. n1 = m
      BY <1>7, <2>2
    <3>2. ~Constant("a") => ra = home["a"]
      BY <1>3, <1>15, <2>2 DEF InSlot, InRegister, Constant
    <3> QED
      BY <1>2, <2>2, <3>1, <3>2 DEF Spares, There
  <2> QED
    BY <2>1, <2>2
<1>18. ~Constant("a") => ra \in Registers /\ ra # C /\ ra # "park1"
  BY <1>2, <1>3, <1>5, <1>6, <1>15 DEF Constant, InSlot, InRegister
<1>19. Spares(n1, n2, {"park1"}) /\ IsContents(n2) /\ (parks => n2["park1"] = n1[C])
  <2>1. CASE parks
    <3>1. n2 = Mov(n1, "park1", C, 8)
      BY <1>8, <2>1
    <3>2. C \in Places /\ "park1" \in Places
      BY <1>2, <1>6, PlacesDiffer
    <3>3. Spares(n1, n2, {"park1"}) /\ n2["park1"] = n1[C]
      BY <1>17, <3>1, <3>2, MovesAll
    <3> QED
      BY <3>3 DEF Spares
  <2>2. CASE ~parks
    BY <1>8, <1>17, <2>2 DEF Spares
  <2> QED
    BY <2>1, <2>2
<1>20. There(n2, "b", w)
  <2>1. home["b"] # "park1"
    <3>1. "park1" \notin Slots /\ "park1" \notin Shapes
      BY PlacesDiffer DEF Shapes
    <3> QED
      BY <1>2, <1>3, <3>1
  <2> QED
    BY <1>17, <1>19, <2>1, ThereStill
<1>21. /\ Spares(n2, n3, IF Carries THEN {C} ELSE {}) /\ IsContents(n3)
       /\ InRegister("b") \/ Carries => Has(n3, rb, Value("b"), w)
  <2>1. CASE Carries
    <3>1. n3 = Fetch(n2, "b", C, w)
      BY <1>9, <2>1
    <3>2. Spares(n2, n3, {C}) /\ Has(n3, C, Value("b"), w)
      <4>1. C \in Registers
        BY <1>6
      <4> QED
        BY <1>2, <1>19, <1>20, <3>1, <4>1, FetchIs
    <3>3. rb = C
      BY <1>15, <1>16, <2>1
    <3> QED
      BY <2>1, <3>2, <3>3 DEF Spares
  <2>2. CASE ~Carries
    <3>1. n3 = n2
      BY <1>9, <2>2
    <3>2. InRegister("b") => ~Constant("b")
      BY PlacesDiffer DEF InRegister, Constant
    <3> QED
      BY <1>15, <1>19, <1>20, <2>2, <3>1, <3>2 DEF Spares, There
  <2> QED
    BY <2>1, <2>2
<1>22. ~Constant("a") => Has(n3, ra, Value("a"), 8)
  <2>1. SUFFICES ASSUME ~Constant("a")
                 PROVE  Has(n3, ra, Value("a"), 8)
    OBVIOUS
  <2>2. Has(n2, ra, Value("a"), 8)
    BY <1>17, <1>18, <1>19, <2>1, HasStill
  <2>3. ra \notin (IF Carries THEN {C} ELSE {})
    BY <1>18, <2>1
  <2> QED
    BY <1>21, <2>2, <2>3, HasStill
<1>23. /\ Spares(n3, n4, IF home["a"] = "far" THEN {"r10"} ELSE {}) /\ IsContents(n4)
       /\ home["a"] = "far" => Has(n4, "r10", Value("a"), 8)
  <2>1. CASE home["a"] = "far"
    <3>1. n4 = Set(n3, "r10", Value("a"), 8)
      BY <1>10, <2>1
    <3>2. Spares(n3, n4, {"r10"}) /\ Has(n4, "r10", Value("a"), 8)
      BY <1>2, <1>21, <3>1, SetIs
    <3> QED
      BY <2>1, <3>2 DEF Spares
  <2>2. CASE home["a"] # "far"
    BY <1>10, <1>21, <2>2 DEF Spares
  <2> QED
    BY <2>1, <2>2
<1>24. /\ Spares(n4, n5, IF StoresWide THEN {"r11"} ELSE {}) /\ IsContents(n5)
       /\ StoresWide => Has(n5, "r11", Value("b"), 8)
  <2>1. CASE StoresWide
    <3>1. n5 = Set(n4, "r11", Value("b"), 8)
      BY <1>11, <2>1
    <3>2. Spares(n4, n5, {"r11"}) /\ Has(n5, "r11", Value("b"), 8)
      BY <1>2, <1>23, <3>1, SetIs
    <3> QED
      BY <2>1, <3>2 DEF Spares
  <2>2. CASE ~StoresWide
    BY <1>11, <1>23, <2>2 DEF Spares
  <2> QED
    BY <2>1, <2>2
<1>25. address = Value("a")
  <2>1. CASE home["a"] \in {"near", "frame"}
    BY <1>13, <2>1
  <2>2. CASE home["a"] = "far"
    <3>1. Has(n5, "r10", Value("a"), 8)
      <4>1. "r10" \notin (IF StoresWide THEN {"r11"} ELSE {})
        OBVIOUS
      <4> QED
        BY <1>23, <1>24, <2>2, <4>1, HasStill
    <3> QED
      BY <1>13, <2>2, <3>1, GetIs
  <2>3. CASE home["a"] \notin {"near", "frame", "far"}
    <3>1. ~Constant("a") /\ home["a"] # "far"
      BY <2>3 DEF Constant, Shapes
    <3>2. Has(n4, ra, Value("a"), 8)
      BY <1>22, <1>23, <3>1, HasStill
    <3>3. ra \notin (IF StoresWide THEN {"r11"} ELSE {})
      <4>1. CASE InRegister("a")
        BY <1>3, <1>4, <1>15, <4>1
      <4>2. CASE ~InRegister("a")
        BY <1>15, <4>2
      <4> QED
        BY <4>1, <4>2
    <3>4. Has(n5, ra, Value("a"), 8)
      BY <1>24, <3>2, <3>3, HasStill
    <3> QED
      BY <1>13, <2>3, <3>4, GetIs
  <2> QED
    BY <2>1, <2>2, <2>3
<1>26. value = Value("b")
  <2>1. CASE StoresWide
    BY <1>14, <1>24, <2>1, GetIs
  <2>2. CASE ~StoresWide /\ home["b"] \in {"near", "far"}
    BY <1>14, <2>2
  <2>3. CASE ~StoresWide /\ home["b"] \notin {"near", "far"}
    <3>1. InRegister("b") \/ Carries
      BY <1>3, <2>3 DEF InRegister, Carries, Shapes
    <3>2. Has(n3, rb, Value("b"), w)
      BY <1>21, <3>1
    <3>3. rb \notin (IF home["a"] = "far" THEN {"r10"} ELSE {})
      <4>1. CASE InRegister("b")
        BY <1>3, <1>4, <1>15, <4>1
      <4>2. CASE ~InRegister("b")
        BY <1>5, <1>6, <1>15, <4>2
      <4> QED
        BY <4>1, <4>2
    <3>4. Has(n4, rb, Value("b"), w)
      BY <1>23, <3>2, <3>3, HasStill
    <3>5. n5 = n4
      BY <1>11, <2>3
    <3> QED
      BY <1>14, <2>3, <3>4, <3>5, GetIs
  <2> QED
    BY <2>1, <2>2, <2>3
<1>27. Spares(m, n5, Unused \cup Scratch \cup {C}) /\ (~Carries => Spares(m, n5, Unused \cup Scratch))
  <2>1. Spares(m, n1, Unused)
    BY <1>4, <1>17 DEF Spares
  <2>2. Spares(n1, n2, Scratch)
    BY <1>19 DEF Spares, Scratch
  <2>3. Spares(n3, n4, Unused)
    BY <1>4, <1>23 DEF Spares
  <2>4. Spares(n4, n5, Unused)
    BY <1>4, <1>24 DEF Spares
  <2> QED
    BY <1>21, <2>1, <2>2, <2>3, <2>4 DEF Spares
<1>28. Spares(m, n6, Unused \cup Scratch)
  <2>1. CASE parks
    <3>1. n6 = Mov(n5, C, "park1", 8)
      BY <1>12, <2>1
    <3>2. C \in Places /\ "park1" \in Places /\ C # "park1" /\ C \notin {"r10", "r11"} /\ "park1" \notin {"r10", "r11"}
      BY <1>2, <1>5, <1>6, PlacesDiffer
    <3>3. Spares(n5, n6, {C}) /\ n6[C] = n5["park1"]
      BY <1>24, <3>1, <3>2, MovesAll
    <3>4. n5["park1"] = n4["park1"] /\ n4["park1"] = n3["park1"]
      BY <3>2, <1>23, <1>24 DEF Spares
    <3>5. n3["park1"] = n2["park1"]
      BY <3>2, <1>21 DEF Spares
    <3>6. n1[C] = m[C]
      <4>1. C \notin (IF InSlot("a") THEN {"rcx"} ELSE {})
        BY <1>5, <1>6
      <4> QED
        BY <3>2, <4>1, <1>17 DEF Spares
    <3>7. n6[C] = m[C]
      BY <2>1, <1>19, <3>3, <3>4, <3>5, <3>6
    <3> QED
      BY <1>27, <3>3, <3>7 DEF Spares
  <2>2. CASE ~parks
    <3>1. n6 = n5
      BY <1>12, <2>2
    <3>2. CASE Carries
      <4>1. C \in Unused
        BY <1>6, <2>2, <3>2
      <4> QED
        BY <1>27, <3>1, <4>1 DEF Spares
    <3>3. CASE ~Carries
      BY <1>27, <3>1, <3>3
    <3> QED
      BY <3>2, <3>3
  <2> QED
    BY <2>1, <2>2
<1>29. Stored(m).memory = <<address, value>> /\ Stored(m).contents = n6
  BY <1>1
<1> QED
  BY <1>25, <1>26, <1>28, <1>29

-----------------------------------------------------------------------------
(* The result on its way home                                                 *)

\* What is needed later is where it was.
Held(m) == /\ \A r \in live : m[r] = Cell(Value(r), 8)
           /\ \A o \in Reads(instr) : ~Constant(o) /\ ~("d" \in DOMAIN home /\ home[o] = home["d"]) =>
                 Get(m, home[o], WidthOf(instr, o)) = Value(o)

(* What spares the unneeded places, and the result's, keeps what is needed.   *)
LEMMA KeptIs ==
  ASSUME Handed, NEW m, Given(m), NEW m2, NEW S, Spares(m, m2, Unused \cup Parks \cup S),
         "d" \in DOMAIN home => S \subseteq {home["d"]}, "d" \notin DOMAIN home => S = {}
  PROVE  Held(m2)
<1>1. ASSUME NEW r \in live
      PROVE  m2[r] = Cell(Value(r), 8)
  <2>1. r \in Registers /\ r \notin Unused
    BY HomesAre
  <2>2. r \in Places /\ r \notin Parks
    BY <2>1, PlacesDiffer
  <2>3. r \notin S
    BY DEF Handed
  <2>4. m[r] = Cell(Value(r), 8)
    BY DEF Given
  <2> QED
    BY <2>1, <2>2, <2>3, <2>4 DEF Spares
<1>2. ASSUME NEW o \in Reads(instr), ~Constant(o), ~("d" \in DOMAIN home /\ home[o] = home["d"])
      PROVE  Get(m2, home[o], WidthOf(instr, o)) = Value(o)
  <2>1. Has(m, home[o], Value(o), WidthOf(instr, o))
    BY <1>2 DEF Given
  <2>2. home[o] \in Registers \cup Slots /\ home[o] \notin Unused
    BY <1>2, HomesAre
  <2>3. home[o] \notin Parks /\ home[o] \notin S
    BY <1>2, <2>2, PlacesDiffer
  <2>4. Has(m2, home[o], Value(o), WidthOf(instr, o))
    BY <2>1, <2>2, <2>3, HasStill
  <2> QED
    BY <2>4, GetIs
<1> QED
  BY <1>1, <1>2 DEF Held

(* Where a result is computed.                                                *)
LEMMA DestIs ==
  ASSUME Handed, Writes(instr) = {"d"}
  PROVE  /\ Dest \in Registers /\ "d" \in DOMAIN home
         /\ \/ InRegister("d") /\ Dest = home["d"] /\ ~InSlot("d")
            \/ InSlot("d") /\ ~InRegister("d") /\ (~ParksDest => Dest \in Unused)
<1>1. "d" \in DOMAIN home /\ home["d"] \in Registers \cup {Slot("d")}
  BY DEF Handed, IsHome
<1>2. Slot("d") \in Slots
  BY DEF Slots
<1>3. CASE InRegister("d")
  BY <1>1, <1>3, PlacesDiffer DEF Dest, InRegister, InSlot
<1>4. CASE ~InRegister("d")
  <2>1. InSlot("d") /\ Dest = FreeOr({}, "rax")
    BY <1>1, <1>2, <1>4 DEF InRegister, InSlot, Dest
  <2>2. CASE Free({}) = {}
    <3>1. Dest = "rax" /\ ParksDest
      BY <2>1, <2>2, FreeOrIs DEF ParksDest
    <3> QED
      BY <1>1, <1>4, <2>1, <3>1, PlacesDiffer
  <2>3. CASE Free({}) # {}
    <3>1. Dest \in Free({})
      BY <2>1, <2>3, FreeOrIs
    <3>2. Dest \in Unused
      BY <3>1 DEF Unused
    <3> QED
      BY <1>1, <1>4, <2>1, <3>2, HomesAre
  <2> QED
    BY <2>2, <2>3
<1> QED
  BY <1>3, <1>4

(* A borrowed register is parked, and everything is still ready.              *)
LEMMA OpenedIs ==
  ASSUME Handed, Writes(instr) = {"d"}, NEW m, Given(m)
  PROVE  /\ Spares(m, Opened(m), {"park0"}) /\ Given(Opened(m))
         /\ ParksDest => Opened(m)["park0"] = m[Dest]
<1>1. "park0" \in Places /\ "park0" \notin Registers /\ "park0" \notin Slots /\ Dest \in Places /\ IsContents(m)
  BY DestIs, PlacesDiffer DEF Given
<1>2. Spares(m, Opened(m), {"park0"}) /\ (ParksDest => Opened(m)["park0"] = m[Dest])
  <2>1. CASE ParksDest
    <3>1. Opened(m) = Mov(m, "park0", Dest, 8)
      BY <2>1 DEF Opened
    <3> QED
      BY <1>1, <3>1, MovesAll
  <2>2. CASE ~ParksDest
    BY <1>1, <2>2 DEF Opened, Spares
  <2> QED
    BY <2>1, <2>2
<1>3. \A o \in Reads(instr) : ~Constant(o) => Has(Opened(m), home[o], Value(o), WidthOf(instr, o))
  <2>1. SUFFICES ASSUME NEW o \in Reads(instr), ~Constant(o)
                 PROVE  Has(Opened(m), home[o], Value(o), WidthOf(instr, o))
    OBVIOUS
  <2>2. home[o] \in Registers \cup Slots
    BY <2>1, HomesAre
  <2>3. Has(m, home[o], Value(o), WidthOf(instr, o)) /\ home[o] # "park0"
    BY <1>1, <2>1, <2>2 DEF Given
  <2> QED
    BY <1>2, <2>3, HasStill
<1>4. \A r \in live : Opened(m)[r] = Cell(Value(r), 8)
  <2>1. \A r \in live : r \in Places /\ r # "park0"
    BY <1>1, HomesAre, PlacesDiffer
  <2> QED
    BY <1>2, <2>1 DEF Given, Spares
<1> QED
  BY <1>2, <1>3, <1>4 DEF Given, Spares

(* A computed result comes home, what was borrowed is given back.             *)
LEMMA ClosedIs ==
  ASSUME Handed, Writes(instr) = {"d"}, NEW m, Given(m), NEW w \in 0..8, NEW v,
         NEW n, Computed(Opened(m), n, Dest, v, w)
  PROVE  Get(Closed(n, w), home["d"], w) = v /\ Held(Closed(n, w))
<1> DEFINE o == Opened(m)
           d == home["d"]
           n1 == IF InSlot("d") THEN Mov(n, d, Dest, w) ELSE n
           n2 == IF ParksDest THEN Mov(n1, Dest, "park0", 8) ELSE n1
<1>1. Closed(n, w) = n2
  BY DEF Closed
<1>2. /\ InSlot("d") => n1 = Mov(n, d, Dest, w)
      /\ ~InSlot("d") => n1 = n
  OBVIOUS
<1>3. /\ ParksDest => n2 = Mov(n1, Dest, "park0", 8)
      /\ ~ParksDest => n2 = n1
  OBVIOUS
<1>4. /\ Spares(m, o, {"park0"}) /\ (ParksDest => o["park0"] = m[Dest])
      /\ Has(n, Dest, v, w) /\ Spares(o, n, {Dest} \cup Unused \cup Scratch)
  BY OpenedIs DEF Computed
<1>5. d = home["d"]
  OBVIOUS
<1> HIDE DEF o, d, n1, n2
<1>6. /\ Dest \in Registers /\ Dest \in Places /\ "park0" \in Places /\ "park0" # Dest
      /\ "park0" \notin Unused /\ "park0" \notin Scratch
      /\ "d" \in DOMAIN home /\ d \in Places /\ "park0" # d
      /\ \/ d = Dest /\ ~InSlot("d")
         \/ InSlot("d") /\ d # Dest /\ (~ParksDest => Dest \in Unused)
  <2>1. \/ d = Dest /\ ~InSlot("d") /\ d \in Registers
        \/ InSlot("d") /\ d \in Slots /\ d # Dest /\ (~ParksDest => Dest \in Unused)
    BY <1>5, DestIs DEF InSlot, InRegister
  <2>2. "park0" \notin Scratch
    BY DEF Scratch
  <2>3. "park0" \notin Unused /\ Dest \in Registers /\ "d" \in DOMAIN home
    BY DestIs, HomesAre, PlacesDiffer
  <2> QED
    BY <2>1, <2>2, <2>3, PlacesDiffer
<1>7. IsContents(n) /\ IsContents(o)
  BY <1>4 DEF Spares
<1>8. Spares(n, n1, {d} \ {Dest}) /\ Has(n1, d, v, w)
  <2>1. CASE InSlot("d")
    <3>1. n1 = Mov(n, d, Dest, w)
      BY <1>2, <2>1
    <3>2. w \in 0..w /\ {d} \ {Dest} = {d}
      BY <1>6, <2>1
    <3>3. Spares(n, Mov(n, d, Dest, w), {d})
      BY <1>6, <1>7, MovIs
    <3>4. Has(Mov(n, d, Dest, w), d, v, w)
      BY <1>4, <1>6, <1>7, <3>2, MovBrings
    <3> QED
      BY <3>1, <3>2, <3>3, <3>4
  <2>2. CASE ~InSlot("d")
    <3>1. n1 = n /\ d = Dest
      BY <1>2, <1>6, <2>2
    <3> QED
      BY <1>4, <1>7, <3>1 DEF Spares
  <2> QED
    BY <2>1, <2>2
<1>9. /\ Spares(n1, n2, IF ParksDest THEN {Dest} ELSE {}) /\ (ParksDest => n2[Dest] = n1["park0"])
  <2>1. IsContents(n1)
    BY <1>8 DEF Spares
  <2>2. CASE ParksDest
    <3>1. n2 = Mov(n1, Dest, "park0", 8)
      BY <1>3, <2>2
    <3>2. Spares(n1, n2, {Dest}) /\ n2[Dest] = n1["park0"]
      BY <1>6, <2>1, <3>1, MovesAll
    <3> QED
      BY <2>2, <3>2
  <2>3. CASE ~ParksDest
    BY <1>3, <2>1, <2>3 DEF Spares
  <2> QED
    BY <2>2, <2>3
<1>10. ParksDest => InSlot("d")
  BY DEF ParksDest
<1>11. Has(n2, d, v, w)
  <2>1. d \notin (IF ParksDest THEN {Dest} ELSE {})
    BY <1>6, <1>10
  <2> QED
    BY <1>8, <1>9, <2>1, HasStill
<1>12. Spares(m, n2, Unused \cup Parks \cup {d})
  <2>1. IsContents(n2)
    BY <1>9 DEF Spares
  <2>2. ASSUME NEW p \in Places \ (Unused \cup Parks \cup {d})
        PROVE  n2[p] = m[p]
    <3>1. p \notin Scratch /\ p # "park0" /\ p # d /\ p \notin Unused
      BY <2>2 DEF Parks, Scratch
    <3>2. CASE p = Dest
      <4>1. ParksDest
        BY <1>6, <3>1, <3>2
      <4>2. n2[p] = n1["park0"] /\ n1["park0"] = n["park0"]
        BY <1>6, <1>8, <1>9, <3>2, <4>1 DEF Spares
      <4>3. n["park0"] = o["park0"] /\ o["park0"] = m[p]
        BY <1>4, <1>6, <3>2, <4>1 DEF Spares
      <4> QED
        BY <4>2, <4>3
    <3>3. CASE p # Dest
      <4>1. n2[p] = n1[p] /\ n1[p] = n[p]
        BY <2>2, <3>1, <3>3, <1>8, <1>9 DEF Spares
      <4>2. n[p] = o[p] /\ o[p] = m[p]
        BY <2>2, <3>1, <3>3, <1>4 DEF Spares
      <4> QED
        BY <4>1, <4>2
    <3> QED
      BY <3>2, <3>3
  <2> QED
    BY <2>1, <2>2 DEF Spares
<1>13. Held(n2)
  <2>1. {d} \subseteq {home["d"]}
    BY <1>5
  <2> QED
    BY <1>6, <1>12, <2>1, KeptIs
<1>14. Get(n2, d, w) = v
  BY <1>11, GetIs
<1> QED
  BY <1>1, <1>5, <1>13, <1>14

-----------------------------------------------------------------------------
(* The invariant                                                              *)

\* Before, the operands are where they should be; afterwards, the result is.
EmitInv == /\ phase \in {"emit", "done"} /\ Handed
           /\ phase = "emit" => Given(contents)
           /\ ExactUnlessCrowded

(* Every instruction is of a kind that has a step.                            *)
LEMMA KindsAre ==
  ASSUME Handed
  PROVE  /\ instr.kind \in {"bin", "un", "cast", "select", "load", "store"}
         /\ \A o \in Reads(instr) : WidthOf(instr, o) \in 0..8
         /\ "d" \notin Reads(instr)
<1>1. instr.kind \in {"bin", "un", "cast", "select", "load", "store"}
  BY DEF Handed, Instr, Bins, Uns, Casts, SelectInstrs, Loads, Stores
<1> QED
  BY <1>1, BinIs, OneIs, SelectIs, StoreIs

(* The operands are where the allocator put them.                             *)
LEMMA InitReady ==
  ASSUME EmitInit
  PROVE  Handed /\ Given(contents)
<1> DEFINE At(p) == \E o \in Reads(instr) : home[o] = p
           Who(p) == CHOOSE x \in Reads(instr) : home[x] = p
           c(p) == IF At(p) THEN Cell(Value(Who(p)), WidthOf(instr, Who(p)))
                   ELSE Cell(IF p \in live THEN Value(p) ELSE Junk, 8)
<1>1. Handed
  BY DEF EmitInit, Handed
<1>2. contents = [p \in Places |-> c(p)]
  BY Zenon DEF EmitInit
<1>3. \A p : At(p) => Who(p) \in Reads(instr) /\ home[Who(p)] = p
  OBVIOUS
<1>4. \A p : At(p) => c(p) = Cell(Value(Who(p)), WidthOf(instr, Who(p)))
  OBVIOUS
<1>5. \A p : ~At(p) => c(p) = Cell(IF p \in live THEN Value(p) ELSE Junk, 8)
  OBVIOUS
<1>6. \A p : ~At(p) /\ p \in live => c(p) = Cell(Value(p), 8)
  OBVIOUS
<1> HIDE DEF c, Who
<1>7. \A v, n : Cell(v, n).v = v /\ Cell(v, n).n = n
  BY DEF Cell
<1>8. \A p \in Places : IsCell(c(p))
  <2>1. SUFFICES ASSUME NEW p \in Places
                 PROVE  IsCell(c(p))
    OBVIOUS
  <2>2. CASE At(p)
    <3>1. WidthOf(instr, Who(p)) \in 0..8
      BY <1>1, <1>3, <2>2, KindsAre
    <3> QED
      BY <1>4, <1>7, <2>2, <3>1 DEF IsCell
  <2>3. CASE ~At(p)
    BY <1>5, <1>7, <2>3 DEF IsCell
  <2> QED
    BY <2>2, <2>3
<1>9. IsContents(contents)
  BY <1>2, <1>8 DEF IsContents
<1>10. ASSUME NEW o \in Reads(instr), ~Constant(o)
       PROVE  Has(contents, home[o], Value(o), WidthOf(instr, o))
  <2>1. home[o] \in Places
    BY <1>1, <1>10, HomesAre, PlacesDiffer
  <2>2. Who(home[o]) = o
    <3>1. Who(home[o]) \in Reads(instr) /\ home[Who(home[o])] = home[o]
      BY <1>3
    <3>2. Who(home[o]) \in DOMAIN home /\ o \in DOMAIN home
      BY <1>1, <3>1 DEF Handed
    <3>3. SUFFICES ASSUME Who(home[o]) # o
                   PROVE  FALSE
      OBVIOUS
    <3>4. home[o] \in Shapes \/ {o, Who(home[o])} = {"a", "d"}
      BY <1>1, <3>1, <3>2, <3>3 DEF Handed, IsHome
    <3> QED
      BY <1>1, <1>10, <3>1, <3>4, KindsAre DEF Constant
  <2>3. contents[home[o]] = Cell(Value(o), WidthOf(instr, o))
    BY <1>2, <1>4, <2>1, <2>2
  <2>4. WidthOf(instr, o) \in 0..8
    BY <1>1, KindsAre
  <2> QED
    BY <1>7, <2>1, <2>3, <2>4 DEF Has
<1>11. ASSUME NEW r \in live
       PROVE  contents[r] = Cell(Value(r), 8)
  <2>1. r \in Places
    BY <1>1, HomesAre, PlacesDiffer
  <2>2. ~At(r)
    BY <1>1, HomesAre
  <2> QED
    BY <1>2, <1>6, <2>1, <2>2
<1> QED
  BY <1>1, <1>9, <1>10, <1>11 DEF Given

(* What a step leaves alone decides what the instruction means and where      *)
(* registers run out.                                                         *)
LEMMA SameStill ==
  ASSUME UNCHANGED <<instr, home, live>>
  PROVE  Handed' = Handed /\ Meaning' = Meaning /\ Crowded' = Crowded
<1>1. Handed' = Handed
  BY DEF Handed
<1>2. Meaning' = Meaning
  BY DEF Meaning
<1>3. \A x : Free(x)' = Free(x)
  BY DEF Free, Busy
<1>4. \A x, y : FreeOr(x, y)' = FreeOr(x, y)
  BY <1>3 DEF FreeOr
<1>5. Dest' = Dest
  BY <1>4 DEF Dest, InRegister
<1>6. SelectIsCrowded' = SelectIsCrowded
  BY <1>3, <1>4, <1>5 DEF SelectIsCrowded, InRegister
<1>7. StoreIsCrowded' = StoreIsCrowded
  BY DEF StoreIsCrowded, InSlot, StoresWide, Busy
<1>8. ScratchIsTaken' = ScratchIsTaken
  BY <1>3, <1>5 DEF ScratchIsTaken, InRegister, Encodes, ConstantFirst, AvoidFor
<1> QED
  BY <1>1, <1>2, <1>6, <1>7, <1>8 DEF Crowded

\* What a finished instruction has done.
Exact(m, mem) == /\ "d" \in DOMAIN home => Get(m, home["d"], ResultWidth(instr.op, instr.w)) = Meaning
                 /\ instr.kind = "store" => mem = <<Value("a"), Value("b")>>
                 /\ Held(m)

(* A step that does what is promised keeps the invariant.                     *)
LEMMA StepKeeps ==
  ASSUME EmitInv, UNCHANGED <<instr, home, live>>, phase' = "done", Crowded \/ Exact(contents', memory')
  PROVE  EmitInv'
<1>1. Handed' /\ Meaning' = Meaning /\ Crowded' = Crowded
  BY SameStill DEF EmitInv
<1>2. Exact(contents', memory') => (ResultArrives /\ StoreLands /\ NothingElseChanges)'
  <2>1. SUFFICES ASSUME Exact(contents', memory')
                 PROVE  (ResultArrives /\ StoreLands /\ NothingElseChanges)'
    OBVIOUS
  <2>2. ResultArrives'
    BY <1>1, <2>1 DEF Exact, ResultArrives
  <2>3. StoreLands'
    BY <2>1 DEF Exact, StoreLands
  <2>4. NothingElseChanges'
    BY <2>1 DEF Exact, Held, NothingElseChanges, Constant
  <2> QED
    BY <2>2, <2>3, <2>4
<1>3. ExactUnlessCrowded'
  BY <1>1, <1>2 DEF ExactUnlessCrowded
<1> QED
  BY <1>1, <1>3 DEF EmitInv

(* A computed result is exact when it has come home.                          *)
LEMMA ComputedIsExact ==
  ASSUME Handed, Given(contents), instr.kind \in {"bin", "un", "cast", "select", "load"},
         NEW n, NEW w, w = ResultWidth(instr.op, instr.w),
         Computed(Opened(contents), n, Dest, Meaning, w), NEW mem
  PROVE  Exact(Closed(n, w), mem)
<1>1. Writes(instr) = {"d"}
  BY DEF Writes
<1>2. w \in 0..8
  BY BinIs, OneIs, SelectIs DEF ResultWidth
<1> QED
  BY <1>1, <1>2, ClosedIs DEF Exact

(* Results have the width of the instruction, but for comparisons.            *)
LEMMA WidthStays ==
  ASSUME Handed, instr.kind \in {"un", "cast", "select", "load"}
  PROVE  ResultWidth(instr.op, instr.w) = instr.w
<1>1. instr.op # "ult"
  BY DEF Handed, Instr, Bins, Uns, Casts, SelectInstrs, Loads, Stores
<1> QED
  BY <1>1 DEF ResultWidth

(* The invariant holds before the instruction.                                *)
LEMMA EmitInitially ==
  EmitInit => EmitInv
<1> SUFFICES ASSUME EmitInit
             PROVE  EmitInv
  OBVIOUS
<1>1. phase = "emit"
  BY DEF EmitInit
<1>2. ExactUnlessCrowded
  BY <1>1 DEF ExactUnlessCrowded, ResultArrives, StoreLands, NothingElseChanges
<1> QED
  BY <1>1, <1>2, InitReady DEF EmitInv

(* Every instruction keeps it.                                                *)
LEMMA EmitKeeps ==
  EmitInv /\ [EmitNext]_emitVars => EmitInv'
<1> SUFFICES ASSUME EmitInv, [EmitNext]_emitVars
             PROVE  EmitInv'
  OBVIOUS
<1>0. Handed /\ (phase = "emit" => Given(contents))
  BY DEF EmitInv
<1>1. ASSUME NEW kind, Emitted(kind), kind \in {"bin", "un", "cast", "select", "load"}
      PROVE  /\ instr.kind = kind /\ Given(contents) /\ Given(Opened(contents)) /\ Dest \in Registers
             /\ UNCHANGED <<instr, home, live>> /\ phase' = "done"
  <2>1. instr.kind = kind /\ Given(contents) /\ UNCHANGED <<instr, home, live>> /\ phase' = "done"
    BY <1>0, <1>1 DEF Emitted
  <2>2. Writes(instr) = {"d"}
    BY <1>1, <2>1 DEF Writes
  <2> QED
    BY <1>0, <2>1, <2>2, OpenedIs, DestIs
<1>2. CASE Bin
  <2>1. Emitted("bin")
    BY <1>2 DEF Bin
  <2>2. CASE Crowded
    BY <1>1, <2>1, <2>2, StepKeeps
  <2>3. CASE ~Crowded
    <3> DEFINE w == ResultWidth(instr.op, instr.w)
               n == BinInto(Opened(contents), Dest, instr.reads[1], instr.reads[2], instr.op, instr.w)
    <3>1. Computed(Opened(contents), n, Dest, Meaning, w)
      BY <1>0, <1>1, <2>1, <2>3, BinComputes DEF Crowded
    <3>2. contents' = Closed(n, w) /\ w = ResultWidth(instr.op, instr.w)
      BY <1>2 DEF Bin
    <3> HIDE DEF n, w
    <3>3. Exact(contents', memory')
      BY <1>0, <1>1, <2>1, <3>1, <3>2, ComputedIsExact
    <3> QED
      BY <1>1, <2>1, <3>3, StepKeeps
  <2> QED
    BY <2>2, <2>3
<1>3. CASE Un
  <2>1. Emitted("un")
    BY <1>3 DEF Un
  <2> DEFINE n == UnInto(Opened(contents), Dest)
  <2>2. Computed(Opened(contents), n, Dest, Meaning, instr.w)
    BY <1>0, <1>1, <2>1, UnComputes
  <2>3. contents' = Closed(n, instr.w)
    BY <1>3 DEF Un
  <2> HIDE DEF n
  <2>4. Exact(contents', memory')
    BY <1>0, <1>1, <2>1, <2>2, <2>3, WidthStays, ComputedIsExact
  <2> QED
    BY <1>1, <2>1, <2>4, StepKeeps
<1>4. CASE Cast
  <2>1. Emitted("cast")
    BY <1>4 DEF Cast
  <2> DEFINE n == CastInto(Opened(contents), Dest)
  <2>2. Computed(Opened(contents), n, Dest, Meaning, instr.w)
    BY <1>0, <1>1, <2>1, CastComputes
  <2>3. contents' = Closed(n, instr.w)
    BY <1>4 DEF Cast
  <2> HIDE DEF n
  <2>4. Exact(contents', memory')
    BY <1>0, <1>1, <2>1, <2>2, <2>3, WidthStays, ComputedIsExact
  <2> QED
    BY <1>1, <2>1, <2>4, StepKeeps
<1>5. CASE Select
  <2>1. Emitted("select")
    BY <1>5 DEF Select
  <2>2. CASE Crowded
    BY <1>1, <2>1, <2>2, StepKeeps
  <2>3. CASE ~Crowded
    <3> DEFINE n == SelectInto(Opened(contents), Dest)
    <3>1. Computed(Opened(contents), n, Dest, Meaning, instr.w)
      BY <1>0, <1>1, <2>1, <2>3, SelectComputes DEF Crowded
    <3>2. contents' = Closed(n, instr.w)
      BY <1>5 DEF Select
    <3> HIDE DEF n
    <3>3. Exact(contents', memory')
      BY <1>0, <1>1, <2>1, <3>1, <3>2, WidthStays, ComputedIsExact
    <3> QED
      BY <1>1, <2>1, <3>3, StepKeeps
  <2> QED
    BY <2>2, <2>3
<1>6. CASE Load
  <2>1. Emitted("load")
    BY <1>6 DEF Load
  <2> DEFINE n == LoadInto(Opened(contents), Dest)
  <2>2. Computed(Opened(contents), n, Dest, Meaning, instr.w)
    BY <1>0, <1>1, <2>1, LoadComputes
  <2>3. contents' = Closed(n, instr.w)
    BY <1>6 DEF Load
  <2> HIDE DEF n
  <2>4. Exact(contents', memory')
    BY <1>0, <1>1, <2>1, <2>2, <2>3, WidthStays, ComputedIsExact
  <2> QED
    BY <1>1, <2>1, <2>4, StepKeeps
<1>7. CASE Store
  <2>1. instr.kind = "store" /\ Given(contents) /\ UNCHANGED <<instr, home, live>> /\ phase' = "done"
    BY <1>0, <1>7 DEF Store, Emitted
  <2>2. CASE Crowded
    BY <2>1, <2>2, StepKeeps
  <2>3. CASE ~Crowded
    <3>1. /\ Stored(contents).memory = <<Value("a"), Value("b")>>
          /\ Spares(contents, Stored(contents).contents, Unused \cup Scratch)
      BY <1>0, <2>1, <2>3, StoreComputes DEF Crowded
    <3>2. Held(Stored(contents).contents)
      <4>1. Spares(contents, Stored(contents).contents, Unused \cup Parks \cup {})
        BY <3>1 DEF Spares, Scratch, Parks
      <4>2. "d" \notin DOMAIN home
        BY <1>0, <2>1, StoreIs DEF Handed
      <4> QED
        BY <1>0, <2>1, <4>1, <4>2, KeptIs
    <3>3. Exact(contents', memory')
      <4>1. contents' = Stored(contents).contents /\ memory' = Stored(contents).memory
        BY <1>7 DEF Store
      <4>2. "d" \notin DOMAIN home
        BY <1>0, <2>1, StoreIs DEF Handed
      <4> QED
        BY <3>1, <3>2, <4>1, <4>2 DEF Exact
    <3> QED
      BY <2>1, <3>3, StepKeeps
  <2> QED
    BY <2>2, <2>3
<1>8. CASE Done \/ UNCHANGED emitVars
  <2>1. UNCHANGED emitVars
    BY <1>8 DEF Done
  <2>2. UNCHANGED <<instr, home, live, contents, memory, phase>>
    BY <2>1 DEF emitVars
  <2>3. Handed' /\ Meaning' = Meaning /\ Crowded' = Crowded
    BY <1>0, <2>2, SameStill
  <2>4. ExactUnlessCrowded'
    <3>1. (ResultArrives' = ResultArrives) /\ (StoreLands' = StoreLands) /\ (NothingElseChanges' = NothingElseChanges)
      BY <2>2, <2>3 DEF ResultArrives, StoreLands, NothingElseChanges, Constant
    <3> QED
      BY <2>3, <3>1 DEF EmitInv, ExactUnlessCrowded
  <2>5. Given(contents)' = Given(contents)
    BY <2>2 DEF Given, Constant
  <2> QED
    BY <2>2, <2>3, <2>4, <2>5 DEF EmitInv
<1> QED
  BY <1>2, <1>3, <1>4, <1>5, <1>6, <1>7, <1>8 DEF EmitNext

(* Unless registers run out, an instruction's code brings its result home,    *)
(* stores what it should where it should, and leaves every other value that   *)
(* is needed where it was, in full.                                           *)
THEOREM InstructionsAreExact ==
  EmitSpec => []ExactUnlessCrowded
<1>1. EmitInv => ExactUnlessCrowded
  BY DEF EmitInv
<1> QED
  BY <1>1, EmitInitially, EmitKeeps, PTL DEF EmitSpec
=============================================================================
