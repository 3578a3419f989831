------------------------------ MODULE CopyLoop ------------------------------
(***************************************************************************)
(* codegen/emit.rs: the register-to-register parallel copy that            *)
(* `emit_call_args` (arguments, and the implicit reads of a boxed          *)
(* instruction) and `emit_boxed_defs` (its results) both run.  It differs  *)
(* from `reconcile` in two ways: after an xchg it redirects only the       *)
(* readers of the destination, and only one of the two callers drops the   *)
(* copies an xchg happened to satisfy.                                     *)
(*                                                                         *)
(* The order of the list is the order of the operands in the instruction,  *)
(* which is arbitrary, so any ready copy may come first and a cycle may be *)
(* opened anywhere.                                                        *)
(***************************************************************************)
EXTENDS Integers, FiniteSets

CONSTANTS Reg,            \* machine registers
          Mem,            \* spill slots
          Const,          \* immediates and frame addresses: no storage to clobber
          None            \* no copy

ASSUME RegAssumption == IsFiniteSet(Reg)
ASSUME PlaceAssumption == Reg \cap (Mem \cup Const) = {} /\ Mem \cap Const = {}
ASSUME NoneAssumption == None \notin Reg \cup Mem \cup Const

VARIABLES pending,   \* the copies still to emit: destination -> source register
          machine    \* contents of every place, named by what first held them

copyVars == <<pending, machine>>

Place == Reg \cup Mem \cup Const
Todo == {d \in Reg : pending[d] # None}

\* No pending copy reads `d`, not even its own.
Ready == {d \in Todo : \A e \in Todo : pending[e] # d}

-----------------------------------------------------------------------------
\* Copies from another register; one that is in place already needs none.
FromRegs(f) ==
    [r \in Reg |-> IF r \in DOMAIN f /\ f[r] \in Reg \ {r} THEN f[r] ELSE None]

\* The `Some(i)` arm: mov d, src.
Mov(d) == /\ d \in Ready
          /\ pending' = [pending EXCEPT ![d] = None]
          /\ machine' = [machine EXCEPT ![d] = machine[pending[d]]]

\* Mutation: the readers keep their source.
RedirectedNobody(d, src) == [pending EXCEPT ![d] = None]

\* The readers of `d` now find its value in `src`; nobody else is redirected.
Redirected(d, src) == [e \in Reg |-> IF e = d THEN None
                                     ELSE IF pending[e] = d THEN src ELSE pending[e]]

\* `retain(|(d, s)| d != s)`, where the caller has it.
Retained(f, drop) == IF drop THEN [e \in Reg |-> IF f[e] = e THEN None ELSE f[e]] ELSE f

\* The `None` arm: xchg d, src.
Xchg(d, drop) ==
    /\ Ready = {}
    /\ d \in Todo
    /\ LET src == pending[d]
       IN  /\ pending' = Retained(Redirected(d, src), drop)
           /\ machine' = [machine EXCEPT ![d] = machine[src], ![src] = machine[d]]

CopyStep(drop) == \E d \in Reg : Mov(d) \/ Xchg(d, drop)

-----------------------------------------------------------------------------
(* "Every remaining destination is also a source: a cycle."  The one-way      *)
(* redirection is right only because of it: were a source read twice, or were *)
(* it no destination, an xchg would move a value away from a reader that is   *)
(* not told, or destroy a register that holds something else.                 *)
StuckIsCycle ==
    (Ready = {}) => /\ \A d \in Todo : pending[d] \in Todo
                    /\ \A d, e \in Todo : pending[d] = pending[e] => d = e

=============================================================================
