----------------------------- MODULE Terminators ------------------------------
(***************************************************************************)
(* codegen/control.rs, `emit_terminator`: how a block leaves.  Once        *)
(* `reconcile` has sequenced the boundary moves, the terminator decides    *)
(* which of them are emitted, and whether before or after the value it     *)
(* branches on is read.  `machine` (Reconcile.tla) runs all moves; `cpu`   *)
(* runs the code of the terminator from the end of the block.              *)
(*                                                                         *)
(* Values are named by the place that held them at the end of the block.   *)
(* Labels always exist and a jump to the next block falls through to it,   *)
(* so both are just arrival.  Rsp is never the source of a move: reads of  *)
(* it are frame addresses, which count among the Fixed places.             *)
(***************************************************************************)
EXTENDS Reconcile, SequencesExt

CONSTANTS Rax, Rdx,     \* the registers the ABI returns values in
          Rcx, R11, Rsp,
          Volatile,     \* the registers a call destroys
          CalleeSaved,  \* the registers the function must hand back unchanged
          Zero,         \* the fixed place of the immediate 0, which `cmp` takes directly
          NotCode,      \* an address outside the executable sections
          Arms          \* the tables of a switch: what each selector value leads to

ASSUME RetRegAssumption ==
    /\ {Rax, Rcx, Rdx, R11} \subseteq Volatile
    /\ Volatile \cup CalleeSaved \subseteq Reg \ {Rsp}
    /\ Volatile \cap CalleeSaved = {}
    /\ Rsp \in Reg /\ Zero \in Fixed
    /\ \A r \in Reg : Rax <= r
    /\ \A arms \in Arms : arms \in Seq(ToSet(arms))

VARIABLES term,     \* the terminator, once emitted
          cpu       \* registers, what the flags compare, and where control went

tvars == <<vars, term, cpu>>

NoFlags == <<>>
NoDest == "here"

TInit == /\ Init
         /\ \A r \in Reg \ {Rsp} : exits[r] # Rsp
         /\ exits[Rsp] \in Fixed \cup {Rsp}
         /\ term = [kind |-> "none"]
         /\ cpu = [regs |-> machine, flags |-> NoFlags, dest |-> NoDest]

-----------------------------------------------------------------------------
\* `move_writes` and `move_reads`: a swap does both to both its registers.
Halves(mv) == {mv.dst, mv.src}

\* Mutation: a swap writes its first half only.
WrittenFirst(moves) == {mv.dst : mv \in moves}

Written(moves) == UNION {IF mv.op = "swap" THEN Halves(mv) ELSE {mv.dst} : mv \in moves}

\* Mutation: only plain moves read.
ReadBySets(moves) == {mv.src : mv \in {x \in moves : x.op = "set"}} \cap Reg

ReadBy(moves) ==
    Reg \cap (UNION {IF mv.op = "swap" THEN Halves(mv) ELSE {mv.src} : mv \in moves})

\* Mutation: nothing is stripped.
StripNothing == ToSet(out)

\* `strip_rsp`: single moves to rsp go, swaps stay.
StripRsp == {mv \in ToSet(out) : mv.op = "swap" \/ mv.dst # Rsp}

\* The contents of the places after those of the sequence that are in `moves`.
Ran(regs, sequence, moves) ==
    LET after[n \in 0..Len(sequence)] ==
            IF n = 0 THEN regs
            ELSE IF sequence[n] \in moves THEN Execute(after[n - 1], sequence[n])
            ELSE after[n - 1]
    IN  after[Len(sequence)]

\* `emit_moves_opts`: a zero is made by `xor`, which destroys the flags, unless
\* they are to be kept.
RunMoves(c, moves, keepFlags) ==
    [c EXCEPT !.regs = Ran(@, out, moves),
              !.flags = IF ~keepFlags /\ \E mv \in moves : mv.op = "set" /\ mv.src = Zero
                        THEN NoFlags ELSE @]

-----------------------------------------------------------------------------
RetRegs == {Rax, Rdx}

\* Mutation: a swap is kept for its first half only.
KeepDestination(mv) == mv.dst \in RetRegs

\* At a return a set is kept for its destination, a swap for either half.
Keep(mv) == mv.dst \in RetRegs \/ (mv.op = "swap" /\ mv.src \in RetRegs)

Returned == {mv \in ToSet(out) : Keep(mv)}

\* Mutation: registers the boundary moves swap are not saved.
SavesBySets(dirty) ==
    {r \in CalleeSaved : r \in dirty \/ \E mv \in ToSet(out) : mv.op = "set" /\ mv.dst = r}

\* `saved_registers`: what the body or any boundary move writes.
Saves(dirty) == CalleeSaved \cap (dirty \cup Written(ToSet(out)))

\* What the caller left in a register: of one the body wrote, only the save slot
\* still has it.
CallerValue(r, dirty) == IF r \in dirty THEN NoLoc ELSE r

\* `emit_restores`: reload what the prologue stored.
Restore(c, dirty) ==
    [c EXCEPT !.regs = [p \in Place |-> IF p \in Saves(dirty) THEN CallerValue(p, dirty) ELSE @[p]]]

-----------------------------------------------------------------------------
LeastOr(S, default) == IF S = {} THEN default ELSE Min(S)

\* `cmp_scratch`: two volatile registers, in the order of the `Reg` enum.
ScratchA(avoid) == LeastOr(Volatile \ avoid, Rax)
ScratchB(avoid) == LeastOr(Volatile \ (avoid \cup {ScratchA(avoid)}), Rcx)

\* `ensure_reg`: an operand in no register is first brought into the scratch.
RegFor(o, scratch) == IF o \in Reg THEN o ELSE scratch
Ensure(c, o, scratch) ==
    IF o \in Reg THEN c ELSE [c EXCEPT !.regs[scratch] = c.regs[o]]

\* `emit_cmp`: the second operand may be an immediate of the instruction.
Compare(c, a, b, avoid) ==
    LET c1 == Ensure(c, a, ScratchA(avoid))
        c2 == IF b = Zero THEN c1 ELSE Ensure(c1, b, ScratchB(avoid))
    IN  [c2 EXCEPT !.flags =
           <<c2.regs[RegFor(a, ScratchA(avoid))],
             c2.regs[IF b = Zero THEN Zero ELSE RegFor(b, ScratchB(avoid))]>>]

\* The condition of a branch: two operands of a fused comparison, or a value
\* tested against itself.  A value in no register is not tested at all.
Test(c, cond, avoid) ==
    IF Len(cond) = 2 THEN Compare(c, cond[1], cond[2], avoid)
    ELSE IF cond[1] \in Reg THEN [c EXCEPT !.flags = <<c.regs[cond[1]]>>]
    ELSE c

\* `branch_reads`
BranchReads(cond) == ToSet(cond) \cap Reg

-----------------------------------------------------------------------------
Leave(t, c) == term' = t /\ cpu' = c /\ UNCHANGED vars

Return(dirty) ==
    Leave([kind |-> "return", dirty |-> dirty],
          Restore(RunMoves(cpu, Returned, FALSE), dirty))

\* A second pass that could not derive the value returned emits no moves.
AdoptedReturn(dirty) ==
    Leave([kind |-> "adopted_return", dirty |-> dirty], Restore(cpu, dirty))

TailCall(dirty) ==
    Leave([kind |-> "tail_call", dirty |-> dirty],
          Restore(RunMoves(cpu, StripRsp, FALSE), dirty))

\* `Jump` and `Backedge`
Jump == Leave([kind |-> "jump"], RunMoves(cpu, StripRsp, FALSE))

\* `Adopted` and `AdoptedSwitch`: lowering gives them no condition, so emission
\* bails out and the trampoline stays.
Refuse == Leave([kind |-> "refused"], cpu)

Overwritten(cond) == Written(StripRsp) \cap BranchReads(cond) # {}

BranchBeforeMoves(cond) ==
    /\ Overwritten(cond)
    /\ Leave([kind |-> "branch", cond |-> cond],
             RunMoves(Test(cpu, cond, ReadBy(StripRsp)), StripRsp, TRUE))

BranchAfterMoves(cond) ==
    /\ ~Overwritten(cond)
    /\ Leave([kind |-> "branch", cond |-> cond],
             Test(RunMoves(cpu, StripRsp, FALSE), cond, {}))

-----------------------------------------------------------------------------
\* `split_multiway`: arms outside the code are skipped, equal ones merged.
Targets(arms) ==
    FoldLeft(LAMBDA ts, t : IF t = NotCode \/ t \in ToSet(ts) THEN ts ELSE Append(ts, t), <<>>, arms)

\* Mutation: the comparisons count from one.
ChainFromOne(ts, v) == IF v \in 1..Len(ts) - 1 THEN ts[v] ELSE ts[Len(ts)]

\* The chain of comparisons: `cmp sel, i; je targets[i]` for all but the last.
Chain(ts, v) == IF v < Len(ts) - 1 THEN ts[v + 1] ELSE ts[Len(ts)]

\* A spilled selector is loaded into r11.
LoadSelector(c, sel) == Ensure(c, sel, R11)

\* The selector is compared after the moves.  A register that no longer holds it
\* sends control to no arm in particular.
Switch(arms, sel, v) ==
    LET c == LoadSelector(RunMoves(cpu, StripRsp, FALSE), sel)
    IN  /\ Len(Targets(arms)) >= 2
        /\ arms[v + 1] # NotCode
        /\ Leave([kind |-> "switch", arms |-> arms, sel |-> sel, value |-> v],
                 [c EXCEPT !.dest = IF c.regs[RegFor(sel, R11)] = sel
                                    THEN Chain(Targets(arms), v) ELSE NotCode])

-----------------------------------------------------------------------------
Operand == (Reg \ {Rsp}) \cup Fixed
Conditions == {<<a>> : a \in Operand} \cup
              {c \in Operand \X Operand : c[1] \in Reg \/ c[2] \in Reg}

Sequence == \E d \in Reg : (EmitReady(d) \/ BreakCycle(d)) /\ UNCHANGED <<term, cpu>>

AtTerminator == Todo = {} /\ term.kind = "none"

Terminate == /\ AtTerminator
             /\ \/ \E dirty \in SUBSET CalleeSaved :
                       Return(dirty) \/ AdoptedReturn(dirty) \/ TailCall(dirty)
                \/ Jump
                \/ Refuse
                \/ \E cond \in Conditions : BranchBeforeMoves(cond) \/ BranchAfterMoves(cond)
                \/ \E arms \in Arms : \E sel \in Operand \ {Zero}, v \in 0..Len(arms) - 1 :
                       Switch(arms, sel, v)

Left == term.kind # "none" /\ UNCHANGED tvars

TNext == Sequence \/ Terminate \/ Left

\* Emission is sequential: nothing else is scheduled while moves are sequenced.
TSpec == TInit /\ [][TNext]_tvars /\ WF_tvars(Sequence)

-----------------------------------------------------------------------------
Delivered(r) == exits[r] # NoLoc => cpu.regs[r] = exits[r]

(* The value returned in rax is right although the moves around it are        *)
(* dropped: rax is the lowest register, so a cycle through it is always       *)
(* opened at rax, before any swap it depends on could have been dropped.  So  *)
(* is rdx's, unless a dropped swap carried its value.                         *)
ReturnedUnlessSwapDropped ==
    (term.kind = "return") =>
        /\ Delivered(Rax)
        /\ (\A mv \in ToSet(out) : mv.op = "swap" => {mv.dst, mv.src} \cap RetRegs # {}) => Delivered(Rdx)

(* "Restricting to the return registers means a swap can no longer be part of *)
(* a cycle worth breaking": every value in a return register is delivered.    *)
ReturnRegsDelivered == (term.kind = "return") => \A r \in RetRegs : Delivered(r)

(* Operands the comparison can name without a scratch register.               *)
Direct(cond) == cond[1] \in Reg /\ (Len(cond) = 2 => cond[2] \in Reg \cup {Zero})

(* A branch decides on the values its operands had at the end of the block,   *)
(* whichever of moves and comparison came first and whatever the moves        *)
(* overwrite, and the moves leave the flags alone when it came first.         *)
BranchIsExact == (term.kind = "branch" /\ Direct(term.cond)) => cpu.flags = term.cond

Scratched == \/ term.kind = "branch" /\ ~Direct(term.cond)
             \/ term.kind = "switch" /\ term.sel \notin Reg

(* Every exit is in its register when control leaves for another block, and   *)
(* at a tail call in every register that is not handed back to the caller;    *)
(* rsp is where it was, and dropping its move breaks no cycle.                *)
ExitsArrive ==
    (term.kind \in {"branch", "jump", "switch", "tail_call"} /\ ~Scratched) =>
        /\ \A r \in Reg \ {Rsp} :
               Delivered(r) \/ (term.kind = "tail_call" /\ r \in Saves(term.dirty))
        /\ cpu.regs[Rsp] = Rsp

(* "Used to keep a reordered comparison's scratch register off a value the    *)
(* moves still have to read": with enough free registers, what the moves      *)
(* write is right even when the comparison before them needed a scratch.      *)
ScratchSparesMoves ==
    LET moves == StripRsp IN
    (term.kind = "branch" /\ Overwritten(term.cond)
        /\ Cardinality(Volatile \ ReadBy(moves)) >= 2) =>
        \A r \in Written(moves) : Delivered(r)

(* However the function is left, the caller finds its registers as they were, *)
(* those included that only a swap between boundary registers touched.        *)
CallerRegsRestored ==
    (term.kind \in {"return", "adopted_return", "tail_call"}) =>
        \A r \in CalleeSaved : cpu.regs[r] = CallerValue(r, term.dirty)

Selects(arms, v) == arms[v + 1]

(* "The selector is a 0-based index into `targets`": each selector value goes *)
(* to the arm recovered for it.                                               *)
SwitchTakesItsArm ==
    (term.kind = "switch") => cpu.dest = Selects(term.arms, term.value)

(* So it does when no arm was skipped or merged away and no move overwrites   *)
(* the selector.                                                              *)
SwitchTakesItsArmIfPlain ==
    (term.kind = "switch" /\ Targets(term.arms) = term.arms
        /\ term.sel \notin Written(StripRsp))
        => cpu.dest = Selects(term.arms, term.value)

(* "R11 is caller-saved and never holds a value the allocator cares about at  *)
(* a terminator": a scratch register of the terminator holds no exit.  The    *)
(* code does not satisfy this, neither for r11 nor for the pair of a          *)
(* comparison that is emitted after the moves.                                *)
ScratchIsFree ==
    (term.kind \in {"branch", "switch"}) => \A r \in Reg \ {Rsp} : Delivered(r)
=============================================================================
