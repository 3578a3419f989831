----------------------------- MODULE Reconcile ------------------------------
(***************************************************************************)
(* ir/regalloc.rs, `reconcile`: the sequence of moves and swaps that       *)
(* realizes the exits of one block.  `machine` is the machine the emitted  *)
(* moves run on, so every action both emits a move and executes it.        *)
(*                                                                         *)
(* A value is named by the place that held it at the end of the block,     *)
(* which makes every pair of places distinguishable and so covers every    *)
(* assignment of real values.                                              *)
(***************************************************************************)
EXTENDS Integers, FiniteSets, Sequences

CONSTANTS Reg,      \* guest registers, numbered as the `Reg` enum orders them
          Fixed,    \* spill slots, immediates and frame addresses: never written here
          NoLoc     \* no exit, or an exit value the allocation gave no location

ASSUME RegAssumption == Reg \subseteq Nat /\ IsFiniteSet(Reg)
ASSUME FixedAssumption == Fixed \cap Reg = {}
ASSUME NoLocAssumption == NoLoc \notin Reg \cup Fixed

VARIABLES exits,    \* the block's exits after `loc_at` has resolved the operands
          pending,  \* the moves still to sequence: destination -> source
          out,      \* the moves emitted so far
          machine   \* the contents of every place

vars == <<exits, pending, out, machine>>

Place == Reg \cup Fixed
Source == Place \cup {NoLoc}

-----------------------------------------------------------------------------
\* `Move::Set`, `Move::Imm` and `Move::Frame` differ only in where they read.
Move == [op : {"set"}, dst : Reg, src : Place] \cup [op : {"swap"}, dst : Reg, src : Reg]

\* Mutation: a swap emitted as a plain move.
ExecuteAsMove(m, mv) == [m EXCEPT ![mv.dst] = m[mv.src]]

\* What one machine instruction does to the contents of the places.
Execute(m, mv) ==
    IF mv.op = "set"
    THEN [m EXCEPT ![mv.dst] = m[mv.src]]
    ELSE [m EXCEPT ![mv.dst] = m[mv.src], ![mv.src] = m[mv.dst]]

\* Moves not already satisfied: a register holding what it needs needs no move.
Unsatisfied(f) == [r \in Reg |-> IF f[r] = r THEN NoLoc ELSE f[r]]

Todo == {d \in Reg : pending[d] # NoLoc}

\* Mutation: readers ignored.
ReadyAlways == Todo

\* A destination nobody else reads can be written immediately.
Ready == {d \in Todo : \A e \in Todo \ {d} : pending[e] # d}

\* `position` and `remove(0)`: the exits are in register order.
IsFirst(d, S) == d \in S /\ \A e \in S : d <= e

-----------------------------------------------------------------------------
Init == /\ exits \in [Reg -> Source]
        /\ pending = Unsatisfied(exits)
        /\ out = <<>>
        /\ machine = [p \in Place |-> p]

Emit(mv) == /\ out' = Append(out, mv)
            /\ machine' = Execute(machine, mv)
            /\ UNCHANGED exits

\* The `Some(i)` arm: emit the first ready move.
EmitReady(d) == /\ IsFirst(d, Ready)
                /\ pending' = [pending EXCEPT ![d] = NoLoc]
                /\ Emit([op |-> "set", dst |-> d, src |-> pending[d]])

\* Readers of `d` now find its value in `from`, and the other way round.
Redirect(s, d, from) == IF s = d THEN from ELSE IF s = from THEN d ELSE s

\* The `None` arm: everything left is on a cycle; break one with a swap.  The
\* arm's own escape for a source that is not a register has no action: it can
\* never be taken (CyclesAreRegisters), and if it could the run would deadlock.
BreakCycle(d) ==
    /\ Ready = {}
    /\ IsFirst(d, Todo)
    /\ pending[d] \in Reg
    /\ pending' = Unsatisfied([r \in Reg |->
                     IF r = d THEN NoLoc ELSE Redirect(pending[r], d, pending[d])])
    /\ Emit([op |-> "swap", dst |-> d, src |-> pending[d]])

Finished == Todo = {} /\ UNCHANGED vars

Next == (\E d \in Reg : EmitReady(d) \/ BreakCycle(d)) \/ Finished

\* The loop runs to its end: nothing else is scheduled.
Spec == Init /\ [][Next]_vars /\ WF_vars(Next)

-----------------------------------------------------------------------------
(* Type correctness. *)
TypeOK == /\ exits \in [Reg -> Source]
          /\ pending \in [Reg -> Source]
          /\ out \in Seq(Move)
          /\ machine \in [Place -> Place]

(* What every unfinished move will read is still intact: the place a pending  *)
(* move is to read from holds the value its destination must receive.         *)
(* Emitting a write before its last reader, or forgetting to redirect a       *)
(* reader after a swap, breaks this several steps before the wrong value      *)
(* reaches a register.                                                        *)
SourcesIntact == \A d \in Todo : machine[pending[d]] = exits[d]

(* A register whose move has been dealt with keeps what it was given: no      *)
(* later move or swap of the same boundary disturbs it, and a register that   *)
(* is no exit at all (the control operand may be one) is never touched.       *)
SettledStays == \A r \in Reg \ Todo :
                   machine[r] = IF exits[r] = NoLoc THEN r ELSE exits[r]

(* "Only a register source can be part of a cycle": when no move is ready,    *)
(* the moves left are a permutation of their own destinations, so the escape  *)
(* for a source that is no register is dead code.                             *)
CyclesAreRegisters ==
    (Ready = {}) => /\ \A d \in Todo : pending[d] \in Todo
                    /\ \A d, e \in Todo : pending[d] = pending[e] => d = e

(* A swap pays for itself: every instruction emitted finishes at least one    *)
(* exit, so a boundary never costs more instructions than it has exits.       *)
NoWastedMove ==
    Len(out) + Cardinality(Todo) <= Cardinality({r \in Reg : exits[r] \notin {r, NoLoc}})

(* The loop ends, whatever the shape of the assignment. *)
Terminates == <>(Todo = {})

(* The sequence implements the parallel assignment: seen as one step, it      *)
(* delivers every exit at once and changes nothing else.                      *)
Abstract == INSTANCE ParallelAssign WITH
               machine <- IF Todo = {} THEN machine ELSE [p \in Place |-> p]
Parallel == Abstract!Spec
=============================================================================
