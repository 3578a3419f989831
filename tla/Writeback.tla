------------------------------ MODULE Writeback -------------------------------
(***************************************************************************)
(* binary/writeback.rs, `write_devirt`: functions are recovered in         *)
(* parallel, laid out by emitting them once, emitted again at the places   *)
(* so found, described to the unwinder, and the trampolines that led into  *)
(* the virtual machine are patched to lead to them.                        *)
(*                                                                         *)
(* Calls and tail calls between recovered functions go straight to bodies. *)
(* The assembler encodes a jump in two bytes where its target is near, so  *)
(* how long a body is depends on where it and its callee are.  What is     *)
(* recovered, and whether it can be emitted, depends on the function only. *)
(* Headers, signature, checksum and file padding are left out.             *)
(***************************************************************************)
EXTENDS FiniteSets, Sequences, Integers

CONSTANTS Total,       \* trampolines found, in order
          Trampoline,  \* their addresses
          Base,        \* where the new code begins
          Reach,       \* the largest distance a patched jump can span
          Records,     \* the image's own function table
          UnwindSize,  \* of a function's unwind data, padded to four bytes
          Lengths,     \* of a body without its tail call
          Elsewhere    \* the address of a function that is not recovered

Fn == 1..Total

\* Discovery sorts the trampolines and drops duplicates; the new code is behind
\* the last section.
ASSUME ImageAssumption ==
    /\ Total \in Nat \ {0} /\ Base \in Nat \ {0}
    /\ Trampoline \in [Fn -> 1..Base-5] /\ \A f, g \in Fn : f < g => Trampoline[f] < Trampoline[g]
    /\ Lengths \subseteq Nat \ {0} /\ Reach \in Nat

\* What the format demands of a function table: its entries lie in the image and
\* do not overlap.  Unwind data has a header, so none is empty.
ASSUME TableAssumption ==
    /\ IsFiniteSet(Records)
    /\ \A r \in Records : r.begin \in Nat /\ r.end \in Nat /\ r.begin < r.end /\ r.end <= Base
    /\ \A r, s \in Records : r = s \/ r.end <= s.begin \/ s.end <= r.begin
    /\ UnwindSize \in [Fn -> Nat \ {0}]

Nowhere == 0

\* What recovery can make of a trampoline: every body calls the next function.
Program == [state : {"complete"}, len : Lengths,
            tail : {Nowhere, Elsewhere} \cup {Trampoline[f] : f \in Fn}]
           \cup [state : {"incomplete", "refused"}]
Callee(f) == Trampoline[(f % Total) + 1]

VARIABLES program,   \* what each trampoline leads to
          prepared,  \* the functions whose recovery ended
          step, next,
          redirect,  \* trampoline -> body, once probed
          cursor,
          bodies,    \* per function: the offset, length and destinations of its body
          report,
          table,     \* the new function table
          patches    \* where each patched trampoline jumps

imageVars == <<program, prepared, step, next, redirect, cursor, bodies, report, table, patches>>

-----------------------------------------------------------------------------
Complete(f) == program[f].state # "incomplete"
Emits(f) == program[f].state = "complete"

Padded(len) == 16 * ((len + 15) \div 16)

\* Mutation: the layout forgets the padding.
ExactRoom(len) == len

\* The same once more, for the layout.
Room(len) == Padded(len)

\* `CallRedirects::resolve`
Resolve(va) ==
    LET f == {g \in Fn : Trampoline[g] = va /\ redirect[g] # Nowhere}
    IN  IF f = {} THEN va ELSE redirect[CHOOSE g \in f : TRUE]

\* The encoder's choice for a jump at `va`.
IsShort(va, target) == target - (va + 2) \in -128..127

Body(f, offset) ==
    LET p == program[f]
        jump == Base + offset + p.len
        short == p.tail # Nowhere /\ IsShort(jump, Resolve(p.tail))
    IN  [offset |-> offset, short |-> short,
         len |-> p.len + (IF p.tail = Nowhere THEN 0 ELSE IF short THEN 2 ELSE 5),
         calls |-> Resolve(Callee(f)),
         tail |-> IF p.tail = Nowhere THEN Nowhere ELSE Resolve(p.tail)]

NoBody == [offset |-> -1]
Emitted == {f \in Fn : bodies[f] # NoBody}

-----------------------------------------------------------------------------
WriteInit == /\ program \in [Fn -> Program]
        /\ prepared = {} /\ step = "recover" /\ next = 1
        /\ redirect = [f \in Fn |-> Nowhere]
        /\ cursor = 0
        /\ bodies = [f \in Fn |-> NoBody]
        /\ report = [retargeted |-> 0, incomplete |-> {}, failed |-> {}]
        /\ table = <<>>
        /\ patches = [f \in Fn |-> Nowhere]

\* One of the pool's threads ends; results are collected in the order of entries.
Recover(f) ==
    /\ step = "recover" /\ f \notin prepared
    /\ prepared' = prepared \cup {f}
    /\ step' = IF prepared' = Fn THEN "probe" ELSE step
    /\ UNCHANGED <<program, next, redirect, cursor, bodies, report, table, patches>>

\* To the next function, and after the last to the next step.
Advance(then) == IF next < Total THEN next' = next + 1 /\ step' = step
                                 ELSE next' = 1 /\ step' = then

\* The layout: an emission that knows the bodies before it only.
Probe ==
    /\ step = "probe"
    /\ IF Complete(next) /\ Emits(next)
       THEN /\ redirect' = [redirect EXCEPT ![next] = Base + cursor]
            /\ cursor' = cursor + Room(Body(next, cursor).len)
       ELSE UNCHANGED <<redirect, cursor>>
    /\ Advance("reset")
    /\ UNCHANGED <<program, prepared, bodies, report, table, patches>>

\* Emission lays the bodies out anew.
Reset == /\ step = "reset" /\ step' = "emit" /\ cursor' = 0
         /\ UNCHANGED <<program, prepared, next, redirect, bodies, report, table, patches>>

Emit ==
    /\ step = "emit"
    /\ \/ /\ ~Complete(next)
          /\ report' = [report EXCEPT !.incomplete = @ \cup {next}]
          /\ UNCHANGED <<bodies, cursor>>
       \/ /\ Complete(next) /\ ~Emits(next)
          /\ report' = [report EXCEPT !.failed = @ \cup {next}]
          /\ UNCHANGED <<bodies, cursor>>
       \/ /\ Complete(next) /\ Emits(next)
          /\ bodies' = [bodies EXCEPT ![next] = Body(next, cursor)]
          /\ cursor' = cursor + Padded(bodies'[next].len)
          /\ report' = [report EXCEPT !.retargeted = @ + 1]
    /\ Advance("describe")
    /\ UNCHANGED <<program, prepared, redirect, table, patches>>

Start(f) == Base + bodies[f].offset
End(f) == Start(f) + bodies[f].len

\* `unwind_area`, after the unwind data of the first n functions.
unwindArea[n \in 0..Total] ==
    IF n = 0 THEN 0 ELSE unwindArea[n - 1] + (IF n \in Emitted THEN UnwindSize[n] ELSE 0)

\* Mutation: every function is taken to have the unwind data of the first.
UnwindAtFirst(f) == cursor

\* Where a function's unwind data goes: after the code, in order of emission.
UnwindAt(f) == cursor + unwindArea[f - 1]

OwnRecord(f) == [begin |-> Start(f), end |-> End(f), unwind |-> Base + UnwindAt(f)]

\* `sort_by_key`: the i-th has i - 1 records before it.
ByAddress(S) == [i \in 1..Cardinality(S) |->
                    CHOOSE r \in S : Cardinality({s \in S : s.begin < r.begin}) = i - 1]

\* The function table: the image's own entries and one per body.
Describe == /\ step = "describe"
            /\ table' = ByAddress(Records \cup {OwnRecord(f) : f \in Emitted})
            /\ step' = "patch"
            /\ UNCHANGED <<program, prepared, next, redirect, cursor, bodies, report, patches>>

\* Mutation: the distance is measured from the jump, not from behind it.
RelFromStart(f) == Start(f) - Trampoline[f]

Rel(f) == Start(f) - (Trampoline[f] + 5)

Patch ==
    /\ step = "patch"
    /\ patches' = IF next \in Emitted /\ Rel(next) <= Reach
                  THEN [patches EXCEPT ![next] = Trampoline[next] + 5 + Rel(next)] ELSE patches
    /\ Advance("done")
    /\ UNCHANGED <<program, prepared, redirect, cursor, bodies, report, table>>

AllPatched == step = "done" /\ UNCHANGED imageVars

WriteNext == (\E f \in Fn : Recover(f)) \/ Probe \/ Reset \/ Emit \/ Describe \/ Patch \/ AllPatched

WriteSpec == WriteInit /\ [][WriteNext]_imageVars

-----------------------------------------------------------------------------
(* "Layout probe and emit disagree on where [it] lands" must not happen: the  *)
(* body of a function is where the calls of the others expect it.             *)
LayoutsAgree == \A f \in Emitted : redirect[f] = Start(f)

(* They agree, and every call and tail call goes to the start of a body or to *)
(* an address that was not recovered, as long as no jump was close enough to  *)
(* be encoded shorter; functions that fail in between move nothing.           *)
CallsLandIfNoneIsShort ==
    (step \in {"describe", "patch", "done"} /\ \A f \in Emitted : ~bodies[f].short) =>
        /\ LayoutsAgree
        /\ \A f \in Emitted : \A va \in {bodies[f].calls, bodies[f].tail} \ {Nowhere, Elsewhere} :
              \/ \E g \in Emitted : va = Start(g)
              \/ \E g \in Fn \ Emitted : va = Trampoline[g]

(* Whatever the layout was, bodies do not overlap, the table is in order, has *)
(* exactly one entry for each body, and each leads to unwind data of its own  *)
(* behind the code.                                                           *)
TableDescribesBodies ==
    (table # <<>>) =>
        /\ \A i, j \in DOMAIN table : i < j => table[i].end <= table[j].begin
        /\ Len(table) = Cardinality(Records) + Cardinality(Emitted)
        /\ \A f \in Emitted : \E i \in DOMAIN table :
              /\ table[i].begin = Start(f) /\ table[i].end = End(f)
              /\ \A g \in Emitted : table[i].unwind >= End(g)
              /\ \A j \in DOMAIN table :
                    (j # i /\ table[j].begin >= Base) =>
                        \/ table[j].unwind >= table[i].unwind + UnwindSize[f]
                        \/ table[j].unwind < table[i].unwind

InReach(f) == Start(f) - (Trampoline[f] + 5) <= Reach

(* Every trampoline in reach of its body leads there and all others are as    *)
(* they were; a function without a body is reported, for one reason; and as   *)
(* long as every body is in reach, the count of retargeted functions is that  *)
(* of the trampolines that lead to one.                                       *)
PatchedOrReported ==
    (step = "done") =>
        /\ \A f \in Fn : patches[f] = IF f \in Emitted /\ InReach(f) THEN Start(f) ELSE Nowhere
        /\ report.incomplete \cup report.failed = Fn \ Emitted
        /\ report.incomplete \cap report.failed = {}
        /\ (\A f \in Emitted : InReach(f)) =>
              report.retargeted = Cardinality({f \in Fn : patches[f] # Nowhere})

(* "Functions whose code was written and whose trampoline now points at it".  *)
(* The code does not keep to this: a function out of reach is counted         *)
(* although its trampoline was skipped.                                       *)
RetargetedIsPatched ==
    (step = "done") => report.retargeted = Cardinality({f \in Fn : patches[f] # Nowhere})
=============================================================================
