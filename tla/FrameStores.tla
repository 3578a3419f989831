----------------------------- MODULE FrameStores -----------------------------
(***************************************************************************)
(* ir/sched.rs: the passes of `schedule_counted` that remove or shorten    *)
(* stores to the frame.  `drop_write_only_frame_slots` works on the whole  *)
(* function with the results of `analyze_frame_escapes` and                *)
(* `analyze_frame_reads`; then, block by block,                            *)
(* `narrow_partially_dead_stores` and `eliminate_dead_with`.               *)
(*                                                                         *)
(* Of a function the passes see which bytes of the frame its instructions  *)
(* touch, and which frame addresses it lets out of its hands.  What an     *)
(* execution observes is kept beside them: two functions with the same     *)
(* observations are the same to their caller and callees.  Only accesses   *)
(* through `Operand::Frame` are looked at; stores through other addresses  *)
(* are left out, for they can only hide a difference.                      *)
(***************************************************************************)
EXTENDS Integers, Sequences, FiniteSets, SequencesExt

CONSTANTS Lo,         \* the lowest frame offset; 0 and above are the caller's
          Hi,         \* the highest
          Widths,     \* the widths of a store, in bytes
          BoxedSpan,  \* the widest memory operand of a boxed instruction
          Shape,      \* the length of each block
          Leaks       \* the sets of frame addresses that may be used as values

VARIABLES blocks,   \* the instructions of each block; one block runs after the other
          leaked,   \* frame addresses used as values
          source,   \* the blocks as they were scheduled
          escaped,  \* `FrameEscapes`
          phase     \* the next pass

vars == <<blocks, leaked, source, escaped, phase>>

Byte == Lo..Hi

\* Nothing straddles the end of the function's own frame.
Direct(op, widths) ==
    {i \in [op : {op}, at : Byte, n : widths] :
        i.at + i.n - 1 <= Hi /\ (i.at < 0 => i.at + i.n <= 0)}

\* A call, a load through an address the scheduler knows nothing about, and
\* a boxed instruction with a frame operand.
Instr == Direct("store", Widths) \cup Direct("load", Widths)
            \cup Direct("boxed", {1})
            \cup {[op |-> "call", at |-> 0, n |-> 0], [op |-> "peek", at |-> 0, n |-> 0]}

\* Where a store came from is its value.
Placed(i, s) == [op |-> i.op, at |-> i.at, n |-> i.n, id |-> s]

Span(i) == i.at..(i.at + i.n - 1)

-----------------------------------------------------------------------------
(* The analyses *)

Instrs(f) == UNION {ToSet(f[b]) : b \in DOMAIN f}

\* Bytes accessed directly; a boxed operand counts for the widest it could be.
Accessed(f) ==
    UNION {IF i.op = "boxed" THEN i.at..(i.at + BoxedSpan - 1) ELSE Span(i) : i \in Instrs(f)}

\* The run of accessed bytes an address points into, or the hole between runs.
Region(f, off) ==
    {k \in Byte : \A j \in Byte : (off <= j /\ j <= k) \/ (k <= j /\ j <= off)
                     => (j \in Accessed(f) <=> off \in Accessed(f))}

\* `analyze_frame_escapes`: what a callee may read.
Escapes(f) == (0..Hi) \cup UNION {Region(f, off) : off \in leaked}

\* `analyze_frame_reads`.
Read(f) == UNION {Span(i) : i \in {x \in Instrs(f) : x.op \in {"load", "boxed"}}}

-----------------------------------------------------------------------------
Slot == {<<b, p>> : b \in DOMAIN Shape, p \in 1..Max(ToSet(Shape))}

Init == /\ \E f \in [{s \in Slot : s[2] <= Shape[s[1]]} -> Instr] :
              blocks = [b \in DOMAIN Shape |->
                          [p \in 1..Shape[b] |-> Placed(f[<<b, p>>], <<b, p>>)]]
        /\ leaked \in Leaks
        /\ source = blocks
        /\ escaped = {}
        /\ phase = "drop"

\* `drop_write_only_frame_slots`: no block reads it and no callee can.
WriteOnly(i) == i.op = "store" /\ Span(i) \cap Read(blocks) = {} /\ i.at \notin Escapes(blocks)

DropWriteOnly ==
    /\ phase = "drop"
    /\ escaped' = Escapes(blocks)
    /\ blocks' = [b \in DOMAIN blocks |-> SelectSeq(blocks[b], LAMBDA i : ~WriteOnly(i))]
    /\ phase' = "narrow"
    /\ UNCHANGED <<leaked, source>>

Writes(block, j, k) == block[j].op = "store" /\ k \in Span(block[j])

\* Mutation: a block's end is no reader.
SeesUntilEnd(block, j, k) == /\ j <= Len(block)
                             /\ \/ block[j].op = "load" /\ k \in Span(block[j])
                                \/ block[j].op \in {"call", "peek", "boxed"}

\* A read of the byte, a barrier, or the end of the block.
Sees(block, j, k) == \/ j = Len(block) + 1
                     \/ block[j].op = "load" /\ k \in Span(block[j])
                     \/ block[j].op \in {"call", "peek", "boxed"}

\* The bytes of store p that somebody sees before they are written again.
Surviving(block, p) ==
    {k \in Span(block[p]) : \E j \in p+1..Len(block)+1 :
        Sees(block, j, k) /\ \A m \in p+1..j-1 : ~Writes(block, m, k)}

\* A store whose dead bytes are its last ones becomes a narrower store.
Narrowed(block, p) ==
    LET i    == block[p]
        keep == Cardinality(Surviving(block, p))
    IN  IF /\ i.op = "store" /\ keep \in Widths /\ keep < i.n
           /\ i.at..(i.at + keep - 1) \subseteq Surviving(block, p)
        THEN [i EXCEPT !.n = keep] ELSE i

Narrow == /\ phase = "narrow"
          /\ blocks' = [b \in DOMAIN blocks |->
                           [p \in DOMAIN blocks[b] |-> Narrowed(blocks[b], p)]]
          /\ phase' = "eliminate"
          /\ UNCHANGED <<leaked, source, escaped>>

\* What makes an earlier store to a slot live again: a load from that very
\* address, or a call or boxed instruction if the slot escapes.
Revives(i, key) == \/ i.op = "load" /\ i.at = key
                   \/ i.op \in {"call", "boxed"} /\ key \in escaped

\* A later store of the block has the same address, whatever its width.
Overwritten(block, p) ==
    /\ block[p].op = "store"
    /\ \E j \in p+1..Len(block) :
          /\ block[j].op = "store" /\ block[j].at = block[p].at
          /\ \A m \in p+1..j-1 : ~Revives(block[m], block[p].at)

\* `eliminate_dead_with`, as far as stores are concerned.
Eliminate ==
    /\ phase = "eliminate"
    /\ blocks' = [b \in DOMAIN blocks |->
          LET kept == {p \in DOMAIN blocks[b] : ~Overwritten(blocks[b], p)}
          IN  [p \in 1..Cardinality(kept) |-> blocks[b][SetToSortSeq(kept, <)[p]]]]
    /\ phase' = "done"
    /\ UNCHANGED <<leaked, source, escaped>>

Finished == phase = "done" /\ UNCHANGED vars

Next == DropWriteOnly \/ Narrow \/ Eliminate \/ Finished

Spec == Init /\ [][Next]_vars /\ WF_vars(Next)

-----------------------------------------------------------------------------
(* Executions *)

Nothing == <<<<0, 0>>, 0>>

\* One instruction: what it writes, and what it or somebody it calls sees.
Step(state, i) ==
    [mem |-> IF i.op = "store"
             THEN [k \in Byte |-> IF k \in Span(i) THEN <<i.id, k>> ELSE state.mem[k]]
             ELSE state.mem,
     seen |-> CASE i.op = "store" -> state.seen
                [] i.op \in {"load", "boxed"} ->
                     Append(state.seen, [k \in Span(i) |-> state.mem[k]])
                [] i.op \in {"call", "peek"} ->
                     Append(state.seen, [k \in Escapes(source) |-> state.mem[k]])]

\* Everything seen while a function runs, and the caller's frame after it.
Observed(f) ==
    LET final == FoldLeft(Step, [mem |-> [k \in Byte |-> Nothing], seen |-> <<>>], FlattenSeq(f))
    IN  <<final.seen, [k \in 0..Hi |-> final.mem[k]]>>

TypeOK == /\ \A i \in Instrs(blocks) : \E j \in Instrs(source) :
                i.id = j.id /\ i.op = j.op /\ i.at = j.at /\ i.n <= j.n
          /\ leaked \subseteq Byte /\ escaped \subseteq Byte
          /\ phase \in {"drop", "narrow", "eliminate", "done"}

(* Dropping the stores to slots that nobody reads is not noticed: a wide read *)
(* of a slot written narrowly, a read in another block, a callee given an     *)
(* address inside the object, and the caller all see what they saw before.    *)
DropIsUnseen == phase = "narrow" => Observed(blocks) = Observed(source)

(* Nor is narrowing the stores that are partly dead.                          *)
NarrowIsUnseen == phase = "eliminate" => Observed(blocks) = Observed(source)

\* Any two frame accesses are of the same bytes or of different ones, boxed
\* instructions do not touch the frame, and escaped bytes are left to callees.
Uniform == /\ \A i, j \in Instrs(source) : Span(i) = Span(j) \/ Span(i) \cap Span(j) = {}
           /\ \A i \in Instrs(source) : i.op \notin {"boxed", "peek"}

(* Nor is eliminating overwritten stores, in functions whose frame accesses   *)
(* are uniform: a slot is dead across a call only if its address never leaked.*)
EliminationIsUnseen == phase = "done" /\ Uniform => Observed(blocks) = Observed(source)

(* "A store to [base+k] that is followed only by another store to [base+k]    *)
(* before any read is dead": elimination is not noticed in any function.      *)
OnlyDeadEliminated == phase = "done" => Observed(blocks) = Observed(source)
=============================================================================
