----------------------------- MODULE FrameTraffic -----------------------------
(***************************************************************************)
(* codegen/function.rs, `optimize_frame_traffic_with`: the last pass over  *)
(* the emitted code removes pairs that restore a register and save it      *)
(* again, and stores to private slots that nothing reads.  `before` and    *)
(* `after` are the machines that run the code with and without what was    *)
(* removed, side by side.                                                  *)
(*                                                                         *)
(* The code is what the emitter makes of blocks under register pressure:   *)
(* rax and rcx hold values, every other volatile register is taken, rbx is *)
(* allocated and saved.  Bytes are moved in halves of a quadword.  Indirect *)
(* jumps and addresses of private slots, on which the pass gives up, are   *)
(* never emitted.                                                          *)
(***************************************************************************)
EXTENDS FrameLayout, FiniteSets, SequencesExt

CONSTANTS L,            \* what the frame holds: one spill slot and one save at least
          Entries, Bodies, Tails,  \* the units the three blocks may consist of
          Shapes        \* the terminators of the three blocks

VARIABLES code,     \* the emitted instructions
          dead,     \* those removed so far
          cut,      \* the saves removed with the restore before them
          rounds, mode,
          pc, lap,  \* the instruction run, and the parity of backward jumps taken
          before, after

fvars == <<code, dead, cut, rounds, mode, pc, lap, before, after>>

-----------------------------------------------------------------------------
Halves == {0, 4}
Spill == SpillDisp(L, 0)
Park == ScratchDisp(L, 0)       \* the slot of `with_spilled_dst`
Park1 == ScratchDisp(L, 1)
SavedSlot == SaveDisp(L, 0)

StoreTo(d, r, w) == [op |-> "store", reg |-> r, disp |-> d, width |-> w]
LoadFrom(r, d, w) == [op |-> "load", reg |-> r, disp |-> d, width |-> w]
Alu(r, S) == [op |-> "alu", reg |-> r, reads |-> S]

\* `with_spilled_dst` with no register free: rax is parked while it holds the
\* result.  The operand is a register, rax included, or the spill slot.
SpilledDef(operand, w) ==
    IF operand = "slot"
    THEN <<StoreTo(Park, "rax", 8), LoadFrom("rax", Spill, w), Alu("rax", {"rax"}),
           StoreTo(Spill, "rax", w), LoadFrom("rax", Park, 8)>>
    ELSE <<StoreTo(Park, "rax", 8), Alu("rax", {operand}),
           StoreTo(Spill, "rax", w), LoadFrom("rax", Park, 8)>>

\* The same with rcx free.
FreeDef(w) == <<Alu("rcx", {"rbx"}), StoreTo(Spill, "rcx", w)>>

\* A use of the spilled value, or of rax.
UseSlot(w) == <<LoadFrom("rcx", Spill, w), Alu("rbx", {"rbx", "rcx"})>>
UseRax == <<Alu("rbx", {"rbx", "rax"})>>

\* `emit_bin_into` when its second operand is where the result goes: it moves to
\* a register that is parked in the second scratch slot.
RelocatedUse ==
    <<StoreTo(Park1, "rax", 8), Alu("rax", {"rbx"}), LoadFrom("rbx", Spill, 8),
      Alu("rbx", {"rbx", "rax"}), LoadFrom("rax", Park1, 8)>>

Units == {SpilledDef(o, 8) : o \in {"rax", "rbx", "slot"}} \cup
         {SpilledDef("rbx", 4), FreeDef(8), FreeDef(4), UseSlot(8), UseSlot(4), UseRax, RelocatedUse}

BlockTerms == [op : {"fall", "ret"}] \cup [op : {"jmp", "jcc"}, to : 1..3]

\* What the constants stand for: a frame with a slot of either kind, blocks that are
\* sequences of units, and control that does not run off the end.
Given == /\ L \in Layout /\ L.spills > 0 /\ L.saves > 0
         /\ Entries \cup Bodies \cup Tails \subseteq Seq(Units)
         /\ Shapes \subseteq {t \in [1..3 -> BlockTerms] : t[3].op \in {"jmp", "ret"}}

\* A terminator: fall through, a jump to a block, or the epilogue.
Leaving(t) == CASE t.op = "fall" -> <<>>
                [] t.op = "ret" -> <<LoadFrom("rbx", SavedSlot, 8), t>>
                [] t.op \in {"jmp", "jcc"} -> <<t>>

\* The function: the prologue, then the blocks, with jumps to blocks resolved.
EmittedCode(blocks, terms) ==
    LET body(b) == FlattenSeq(blocks[b]) \o Leaving(terms[b])
        start == [b \in 1..3 |-> CASE b = 1 -> 2
                                   [] b = 2 -> 2 + Len(body(1))
                                   [] b = 3 -> 2 + Len(body(1)) + Len(body(2))]
        resolve(i) == IF i.op \in {"jmp", "jcc"} THEN [i EXCEPT !.to = start[@]] ELSE i
        all == <<StoreTo(SavedSlot, "rbx", 8)>> \o (body(1) \o (body(2) \o body(3)))
    IN  [i \in 1..Len(all) |-> resolve(all[i])]

-----------------------------------------------------------------------------
IsJump(i) == code[i].op \in {"jmp", "jcc"}

\* What is laid out behind an instruction, of those still there.
Following(removed, i) ==
    {j \in DOMAIN code \ removed : i < j /\ \A k \in i + 1..j - 1 : k \in removed}

\* Mutation: control is taken to enter only at the top.
NoTargets(removed) == {}

Targets(removed) == {code[i].to : i \in {j \in DOMAIN code : j \notin removed /\ IsJump(j)}}

\* A full register moved to or from a slot that is not at rsp itself.
Transfers(i, op) == code[i].op = op /\ code[i].width = 8 /\ code[i].disp # 0

\* `mark_scratch_roundtrips`: a restore directly followed by the same save, unless
\* control may enter between them.
Roundtrips(removed) ==
    {p \in UNION {{i} \X Following(removed, i) : i \in DOMAIN code \ removed} :
            /\ Transfers(p[1], "load") /\ Transfers(p[2], "store")
            /\ code[p[1]].reg = code[p[2]].reg /\ code[p[1]].disp = code[p[2]].disp
            /\ p[2] \notin Targets(removed)}

-----------------------------------------------------------------------------
\* `PrivateSlots`: bytes of the ranges, and accesses that stay within one.
Private(d) == \E r \in PrivateRanges(L) : r.lo <= d /\ d < r.hi
Within(d, w) == \E r \in PrivateRanges(L) : r.lo <= d /\ d + w <= r.hi

Halves4(i) == {code[i].disp + h : h \in {x \in Halves : x < code[i].width}}

Overwrites(i) ==
    IF code[i].op = "store" /\ Within(code[i].disp, code[i].width) THEN Halves4(i) ELSE {}
FrameReads(i) == IF code[i].op = "load" THEN {d \in Halves4(i) : Private(d)} ELSE {}

\* Where control goes from an instruction.  A jump to one that is gone counts as
\* leaving the function.
Succs(removed, i) ==
    (IF IsJump(i) THEN {code[i].to} \ removed ELSE {}) \cup
    (IF code[i].op \in {"jmp", "ret"} THEN {} ELSE Following(removed, i))

LiveOut(removed, live, i) == UNION {live[j] : j \in Succs(removed, i)}
LiveIn(removed, live, i) == (LiveOut(removed, live, i) \ Overwrites(i)) \cup FrameReads(i)

\* A sweep over the instructions, the last one first, in place.
Visited(removed, live, i) ==
    IF i \in removed THEN live ELSE [live EXCEPT ![i] = LiveIn(removed, live, i)]
Sweep(removed, old) ==
    LET swept[k \in 0..Len(code)] ==
            IF k = 0 THEN old ELSE Visited(removed, swept[k - 1], Len(code) + 1 - k)
    IN  swept[Len(code)]

\* Each sweep but the last adds some byte to what is live into some instruction.
AllBytes == {code[i].disp + h : i \in {j \in DOMAIN code : code[j].op = "load"}, h \in Halves}
MostSweeps == Cardinality((DOMAIN code) \X AllBytes)

\* What is live into each instruction: sweeps until one changes nothing.
Liveness(removed) ==
    LET live[k \in 0..MostSweeps + 1] ==
            IF k = 0 THEN [i \in DOMAIN code |-> {}] ELSE Sweep(removed, live[k - 1])
    IN  live[CHOOSE k \in 0..MostSweeps : live[k + 1] = live[k]]

\* `mark_dead_private_stores`
DeadStores(removed) ==
    LET live == Liveness(removed)
    IN  {i \in DOMAIN code \ removed :
            /\ Overwrites(i) # {}
            /\ Overwrites(i) \cap LiveOut(removed, live, i) = {}}

-----------------------------------------------------------------------------
Regs == {"rax", "rbx", "rcx"}
Places == (Regs \X Halves) \cup
          {<<"frame", d + h>> : d \in {Spill, Park, Park1, SavedSlot}, h \in Halves}

FInit == /\ \E first \in Entries, body \in Bodies, tail \in Tails, terms \in Shapes :
                code = EmittedCode(<<first, body, tail>>, terms)
         /\ dead = {} /\ cut = {}
         /\ rounds = 0 /\ mode = "optimize"
         /\ pc = 1 /\ lap = 0
         /\ before = [p \in Places |-> p] /\ after = before

\* A round of both passes.  What is a target stays; a round that removes nothing,
\* or the eighth, is the last.
Optimize ==
    LET pairs == Roundtrips(dead)
        gone == UNION {{p[1], p[2]} : p \in pairs}
        removed == (gone \cup DeadStores(dead \cup gone)) \ Targets(dead)
        last == removed = {} \/ rounds = 7
    IN  /\ mode = "optimize"
        /\ dead' = dead \cup removed
        /\ cut' = cut \cup {p[2] : p \in {q \in pairs : q[1] \in removed}}
        /\ rounds' = rounds + 1
        /\ mode' = IF last THEN "run" ELSE mode
        /\ UNCHANGED <<code, pc, lap, before, after>>

\* What an instruction does to a machine.
Half(i) == {h \in Halves : h < code[i].width}
Exec(m, i) ==
    LET c == code[i] IN
    [p \in Places |->
        CASE c.op = "store" /\ \E h \in Half(i) : p = <<"frame", c.disp + h>> ->
                m[<<c.reg, p[2] - c.disp>>]
          [] c.op = "load" /\ p[1] = c.reg ->
                IF p[2] \in Half(i) THEN m[<<"frame", c.disp + p[2]>>] ELSE <<>>
          [] c.op = "alu" /\ p[1] = c.reg -> <<i, lap, p[2]>>
          [] OTHER -> m[p]]

Step ==
    /\ mode = "run" /\ code[pc].op # "ret"
    /\ before' = Exec(before, pc)
    /\ after' = IF pc \in dead THEN after ELSE Exec(after, pc)
    /\ \/ pc' = pc + 1 /\ code[pc].op # "jmp" /\ lap' = lap
       \/ IsJump(pc) /\ pc' = code[pc].to /\ lap' = IF code[pc].to <= pc THEN 1 - lap ELSE lap
    /\ UNCHANGED <<code, dead, cut, rounds, mode>>

Returned == mode = "run" /\ code[pc].op = "ret" /\ UNCHANGED fvars

FNext == Optimize \/ Step \/ Returned

FSpec == FInit /\ [][FNext]_fvars

-----------------------------------------------------------------------------
\* What the instruction to be run reads, beside moves to and from the frame.
Operands == CASE code[pc].op = "alu" -> code[pc].reads
              [] code[pc].op = "ret" -> {"rax", "rbx"}
              [] OTHER -> {}

(* "Mark adjacent scratch restore/save pairs that cancel out", and stores     *)
(* "whose value is never read": nothing the function computes with differs    *)
(* for the removal, on any path through loops and joins.                      *)
ReadsAgree ==
    (mode = "run" /\ pc \notin dead) =>
        \A r \in Operands, h \in Halves : after[<<r, h>>] = before[<<r, h>>]

\* Behind a pair that was removed, the register is read before it is written.
Reread == \E i \in cut : LET c == code[i + 1] IN c.op = "alu" /\ code[i].reg \in c.reads

(* So it is unless the instruction that parks a register also computes with   *)
(* it: the pair had put its value back.                                       *)
ReadsAgreeUnlessReread == Reread \/ ReadsAgree

(* "A store there is live even when no instruction reads it": the unwinder    *)
(* finds the caller's register in its slot at every instruction of the body,  *)
(* also of a function that never returns.                                     *)
SaveAreaIntact ==
    (mode = "run" /\ pc > 1) => \A h \in Halves : after[<<"frame", SavedSlot + h>>] = <<"rbx", h>>
=============================================================================
