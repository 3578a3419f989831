--------------------------- MODULE ParallelAssign ---------------------------
(***************************************************************************)
(* What a block boundary promises: the exits of a block are a parallel     *)
(* assignment, every destination takes its source's value as it was at the *)
(* end of the block, and no register that is not a destination changes.    *)
(* Reconcile.tla, which sequences the assignment into moves and swaps,     *)
(* implements this module.                                                 *)
(***************************************************************************)
CONSTANTS Reg,      \* guest registers
          Fixed,    \* sources no move writes: spill slots, immediates, frame addresses
          NoLoc     \* "this register takes no value at the boundary"

VARIABLES exits,    \* what each register must receive
          machine   \* what each place holds, named by the place that held it first

vars == <<exits, machine>>

Place == Reg \cup Fixed

\* The contents every place has at the end of the block.
AtBlockEnd == [p \in Place |-> p]

\* The contents the successors are entitled to.
Assigned == [p \in Place |-> IF p \in Reg /\ exits[p] # NoLoc THEN exits[p] ELSE p]

Init == /\ exits \in [Reg -> Place \cup {NoLoc}]
        /\ machine = AtBlockEnd

\* The whole assignment in one step.
Assign == /\ machine = AtBlockEnd
          /\ machine' = Assigned
          /\ UNCHANGED exits

Next == Assign

Spec == Init /\ [][Next]_vars
=============================================================================
