----------------------------- MODULE LinearScan -----------------------------
(***************************************************************************)
(* ir/regalloc.rs, `allocate`: linear scan over the live ranges of one     *)
(* block, and then the block run with the locations it chose.              *)
(*                                                                         *)
(* A block is what the allocator sees of it: which positions define a      *)
(* value, which registers each position destroys, and where every value    *)
(* and every entry value is read last.  During the run a value is the item *)
(* it belongs to, so a register that holds the wrong value is seen at the  *)
(* first position at which that value is still needed.                     *)
(***************************************************************************)
EXTENDS Integers, FiniteSets, Sequences

CONSTANTS Allocatable,   \* allocatable registers, in the order of ALLOCATABLE
          CallDestroys,  \* the ones a call destroys
          N,             \* instructions in the block
          BoxedWrites,   \* the sets of registers a boxed instruction may write
          EntryLast      \* the last reads of entry values to consider; 0 is never read

ASSUME BlockAssumption == N \in Nat /\ EntryLast \subseteq 0..N+1
ASSUME AllocatableAssumption == IsFiniteSet(Allocatable) /\ Allocatable \subseteq Nat
ASSUME ClobberAssumption == CallDestroys \subseteq Allocatable /\ BoxedWrites \subseteq SUBSET Allocatable

Pos == 0..N-1

VARIABLES kind,      \* what the instruction at a position is
          last,      \* one past the last position that reads an item
          todo,      \* ranges without a location yet
          busy,      \* the range each register was last given to
          segs,      \* the segment of every item placed so far
          slots,     \* per spill slot, the end of its occupant's range
          claimed,   \* registers used up as exit hints
          stage,     \* scan, then copy and exec alternately
          pos,       \* the instruction being run
          copied,    \* entry values the split copies have saved so far
          regfile    \* contents of registers and slots during the run

block == <<kind, last>>
placing == <<todo, busy, segs, slots, claimed>>
scanVars == <<block, placing, stage, pos, copied, regfile>>

Val(p)   == <<"val", p>>      \* the value defined at p
Entry(r) == <<"entry", r>>    \* what register r held when the block was entered
Saved(r) == <<"saved", r>>    \* the same, once it has left r
Garbage  == <<"junk", 0>>

InReg(r)  == <<"reg", r>>
InSlot(i) == <<"slot", i>>

Item == {Val(p) : p \in Pos} \cup {Entry(r) : r \in Allocatable} \cup {Saved(r) : r \in Allocatable}

-----------------------------------------------------------------------------
(* Live ranges *)

Kind == {[op |-> "def"], [op |-> "use"], [op |-> "call"]}
          \cup {[op |-> "boxed", writes |-> W] : W \in BoxedWrites}

\* `clobber_points`: the registers the instruction at p destroys.
Clobbers(p) == CASE kind[p].op = "call"  -> CallDestroys
                 [] kind[p].op = "boxed" -> kind[p].writes
                 [] OTHER                -> {}

\* `spans_call`: a range read last by the instruction at c does not span it.
Spans(def, end, c) == def <= c /\ c + 1 < end

DestroyedBy(from, end, points) ==
    UNION {Clobbers(c) : c \in {p \in points : Spans(from, end, p)}}

LiveRange(item, def, end, avoid, fixed) ==
    [item |-> item, def |-> def, last |-> end, avoid |-> avoid, fixed |-> fixed]

Defined == {p \in Pos : kind[p].op = "def"}
Read    == {r \in Allocatable : last[Entry(r)] > 0}

\* A value defined by the instruction at p is not destroyed by it.
ValRange(p) == LiveRange(Val(p), p, last[Val(p)],
                     DestroyedBy(p, last[Val(p)], {c \in Pos : p < c}), FALSE)

\* Where the register of an entry value is destroyed while it is still needed.
Killers(r) == {c \in Pos : Spans(0, last[Entry(r)], c) /\ r \in Clobbers(c)}
Killer(r)  == CHOOSE c \in Killers(r) : \A k \in Killers(r) : c <= k

EntryRange(r) ==
    LiveRange(Entry(r), 0, IF Killers(r) = {} THEN last[Entry(r)] ELSE Killer(r), {}, TRUE)

SavedRange(r) ==
    LiveRange(Saved(r), Killer(r), last[Entry(r)],
          DestroyedBy(Killer(r), last[Entry(r)], Pos) \cup Clobbers(Killer(r)), FALSE)

SplitRegs == {r \in Read : Killers(r) # {}}

Segment(r, loc) == [start |-> r.def, end |-> r.last, loc |-> loc]

\* Sort order of the work list; only saved halves can tie on the first two.
Before(r, s) == \/ r.def < s.def
                \/ r.def = s.def /\ r.last < s.last
                \/ r.def = s.def /\ r.last = s.last /\ r.item[2] <= s.item[2]

\* A register nothing has been given to yet.
Unused(g) == LiveRange(Garbage, 0, 0, {}, TRUE)

LastOK(f) == /\ \A p \in Pos : f[Val(p)] \in
                    (IF kind[p].op = "def" THEN p+1..N+1 ELSE {0})
             /\ \A r \in Allocatable : f[Entry(r)] \in EntryLast

ScanInit ==
    /\ kind \in [Pos -> Kind]
    /\ \E vs \in [Pos -> 0..N+1], es \in [Allocatable -> EntryLast] :
          last = [i \in Item |-> IF i[1] = "val" THEN vs[i[2]]
                                 ELSE IF i[1] = "entry" THEN es[i[2]] ELSE 0]
    /\ LastOK(last)
    /\ todo = {ValRange(p) : p \in Defined} \cup {SavedRange(r) : r \in SplitRegs}
    /\ busy = [g \in Allocatable |-> IF g \in Read THEN EntryRange(g) ELSE Unused(g)]
    /\ segs = [i \in {Entry(r) : r \in Read} |-> Segment(EntryRange(i[2]), InReg(i[2]))]
    /\ slots = <<>>
    /\ claimed = {}
    /\ stage = "scan"
    /\ pos = 0
    /\ copied = {}
    /\ regfile = [l \in {InReg(g) : g \in Allocatable} |-> Entry(l[2])]

-----------------------------------------------------------------------------
(* The scan *)

Pool(r) == Allocatable \ r.avoid
\* Mutation: free by the end of the range instead of its beginning.
FreeByEnd(r) == {g \in Pool(r) : busy[g].last <= r.last}
Free(r) == {g \in Pool(r) : busy[g].last <= r.def}

\* `hint_src`: an operand that dies into r's definition leaves r its register.
SrcHints(r) == {q \in Defined : r.item[1] = "val" /\ q < r.def /\ last[Val(q)] > r.def}
FromSrc(r, q) ==
    {g \in Pool(r) : /\ last[Val(q)] <= r.def + 1
                     /\ segs[Val(q)].loc = InReg(g)
                     /\ busy[g].last <= r.def + 1}

\* `hint_exit`: the register r's value leaves the block in.
ExitHints(r) == IF r.item[1] = "val" /\ r.last = N + 1 THEN Allocatable \ claimed ELSE {}

\* `alloc.segments.push`.
Pushed(r, loc, to) == [i \in DOMAIN to \cup {r.item} |->
                          IF i = r.item THEN Segment(r, loc) ELSE to[i]]

Hold(r, g, to) == /\ busy' = [busy EXCEPT ![g] = r]
                  /\ segs' = Pushed(r, InReg(g), to)

\* `take_slot`: the first slot whose occupant is dead by the time r is defined.
SlotFor(r) == IF \E i \in 1..Len(slots) : slots[i] <= r.def
              THEN CHOOSE i \in 1..Len(slots) :
                     slots[i] <= r.def /\ \A j \in 1..i-1 : slots[j] > r.def
              ELSE Len(slots) + 1
TakeSlot(r) == slots' = IF SlotFor(r) <= Len(slots)
                        THEN [slots EXCEPT ![SlotFor(r)] = r.last]
                        ELSE Append(slots, r.last)

\* The occupant that lives longest; of equals, the last in pool order.
Evictable(r) == {g \in Pool(r) \ Free(r) : ~busy[g].fixed}
IsVictim(r, g) == /\ g \in Evictable(r)
                  /\ \A h \in Evictable(r) : \/ busy[h].last < busy[g].last
                                             \/ busy[h].last = busy[g].last /\ h <= g

FirstOf(S) == CHOOSE g \in S : \A h \in S : g <= h

GiveHinted(r, hinted) == hinted # {} /\ Hold(r, FirstOf(hinted), segs) /\ UNCHANGED slots

GiveFree(r) == Free(r) # {} /\ Hold(r, FirstOf(Free(r)), segs) /\ UNCHANGED slots

Evict(r) == /\ Free(r) = {}
            /\ \E g \in Allocatable :
                 /\ IsVictim(r, g)
                 /\ busy[g].last > r.last
                 /\ TakeSlot(busy[g])
                 /\ Hold(r, g, [segs EXCEPT ![busy[g].item].loc = InSlot(SlotFor(busy[g]))])

SpillSelf(r) == /\ Free(r) = {}
                /\ \A g \in Allocatable : IsVictim(r, g) => busy[g].last <= r.last
                /\ TakeSlot(r)
                /\ segs' = Pushed(r, InSlot(SlotFor(r)), segs)
                /\ UNCHANGED busy

\* What the hints offer r when it reads operand `src` first (if any) and leaves
\* in register `exit` (if any): the operand's register wins.
Offered(r, src, exit) ==
    LET bySrc == UNION {FromSrc(r, q) : q \in src}
    IN  IF bySrc # {} THEN bySrc ELSE exit \cap Free(r)

AtMostOne(S) == {{}} \cup {{x} : x \in S}

Allocate(r) ==
    /\ stage = "scan"
    /\ \A s \in todo : Before(r, s)
    /\ \E src \in AtMostOne(SrcHints(r)), exit \in AtMostOne(ExitHints(r)) :
         /\ claimed' = claimed \cup exit
         /\ LET hinted == Offered(r, src, exit)
            IN  \/ GiveHinted(r, hinted)
                \/ hinted = {} /\ (GiveFree(r) \/ Evict(r) \/ SpillSelf(r))
    /\ todo' = todo \ {r}
    /\ UNCHANGED <<block, stage, pos, copied, regfile>>

-----------------------------------------------------------------------------
(* The block, run with the allocation *)

StartRun ==
    /\ stage = "scan" /\ todo = {}
    /\ stage' = "copy"
    /\ regfile' = [l \in DOMAIN regfile \cup {InSlot(i) : i \in 1..Len(slots)} |->
                      IF l \in DOMAIN regfile THEN regfile[l] ELSE Garbage]
    /\ UNCHANGED <<block, placing, pos, copied>>

\* Saved halves that begin at p.
\* Mutation: the copy comes after the instruction that destroys the register.
CopiesAfter(p) == {r \in SplitRegs : Killer(r) + 1 = p}
CopiesAt(p) == {r \in SplitRegs : Killer(r) = p}
Uncopied == CopiesAt(pos) \ copied

\* The order `allocate` queued the copies in: end of the range, then register.
QueuedBefore(r, s) == \/ last[Entry(r)] < last[Entry(s)]
                      \/ last[Entry(r)] = last[Entry(s)] /\ r <= s

\* `emit_copy` for the next of them.
SplitCopy(r) ==
    /\ stage = "copy" /\ r \in Uncopied
    /\ \A s \in Uncopied : QueuedBefore(r, s)
    /\ regfile' = [regfile EXCEPT ![segs[Saved(r)].loc] = regfile[InReg(r)]]
    /\ copied' = copied \cup {r}
    /\ UNCHANGED <<block, placing, stage, pos>>

Copied == /\ stage = "copy" /\ Uncopied = {}
          /\ stage' = "exec"
          /\ UNCHANGED <<block, placing, pos, copied, regfile>>

\* The instruction itself: what it destroys, then what it defines.
Execute ==
    /\ stage = "exec" /\ pos < N
    /\ regfile' = [l \in DOMAIN regfile |->
          IF kind[pos].op = "def" /\ segs[Val(pos)].loc = l THEN Val(pos)
          ELSE IF l \in {InReg(g) : g \in Clobbers(pos)} THEN Garbage
          ELSE regfile[l]]
    /\ pos' = pos + 1
    /\ stage' = "copy"
    /\ UNCHANGED <<block, placing, copied>>

\* The terminator reads whatever is live to the end.
BlockEnd == stage = "exec" /\ pos = N /\ UNCHANGED scanVars

ScanNext == \/ \E r \in todo : Allocate(r)
            \/ StartRun
            \/ \E r \in Allocatable : SplitCopy(r)
            \/ Copied
            \/ Execute
            \/ BlockEnd

ScanSpec == ScanInit /\ [][ScanNext]_scanVars /\ WF_scanVars(ScanNext)

-----------------------------------------------------------------------------
Loc == {InReg(g) : g \in Allocatable} \cup {InSlot(i) : i \in 1..Len(slots)}

ScanTypeOK ==
    /\ kind \in [Pos -> Kind] /\ last \in [Item -> 0..N+1]
    /\ DOMAIN segs \subseteq Item
    /\ \A i \in DOMAIN segs : /\ segs[i].start \in 0..N /\ segs[i].end \in 0..N+1
                              /\ segs[i].loc \in Loc
    /\ slots \in Seq(1..N+1)
    /\ claimed \subseteq Allocatable
    /\ stage \in {"scan", "copy", "exec"} /\ pos \in 0..N /\ copied \subseteq SplitRegs
    /\ \A l \in DOMAIN regfile : regfile[l] \in Item \cup {Garbage}

\* i is an operand read last by the very instruction that defines j.
HandsOff(i, j) == i[1] = "val" /\ j[1] = "val" /\ segs[i].end = segs[j].start + 1

(* No two items live at the same time share a register or a spill slot.  The  *)
(* one overlap allowed is an operand giving its register to the value its     *)
(* last reader defines, and slots do not even have that.                      *)
NoConflict ==
    \A i, j \in DOMAIN segs :
        i # j /\ segs[i].loc = segs[j].loc =>
            \/ segs[i].end <= segs[j].start
            \/ segs[j].end <= segs[i].start
            \/ segs[i].loc[1] = "reg" /\ (HandsOff(i, j) \/ HandsOff(j, i))

(* A value is never in a register a call or boxed instruction destroys while  *)
(* the value is still needed, whether it was defined before it, arrived in    *)
(* that register, or was saved from an earlier one.                           *)
SurvivesClobbers ==
    \A i \in DOMAIN segs, p \in Pos :
        Spans(segs[i].start, segs[i].end, p) =>
            segs[i].loc \notin {InReg(g) : g \in Clobbers(p)}

(* The allocation is consistent: no two items share a location while both     *)
(* are needed, and none is in a register that an instruction it outlives      *)
(* destroys.                                                                  *)
AllocationConsistent == NoConflict /\ SurvivesClobbers

\* The items operands resolve to at p.
AliveAt(p) == {i \in DOMAIN segs : segs[i].start <= p /\ p < segs[i].end}

(* Every operand the code generator resolves finds exactly one location: no   *)
(* gap and no overlap where an entry value leaves its register.               *)
Covered ==
    stage \in {"copy", "exec"} =>
        /\ \A q \in Defined, p \in 0..N :
              q <= p /\ p < last[Val(q)] => Val(q) \in AliveAt(p)
        /\ \A r \in Read, p \in 0..N :
              p < last[Entry(r)] => Entry(r) \in AliveAt(p) <=> Saved(r) \notin AliveAt(p)

\* What an item's location must contain.
Belongs(i) == IF i[1] = "saved" THEN Entry(i[2]) ELSE i

(* Running the block, every value that is still to be read is where the       *)
(* allocation says it is when the instruction starts: no definition, no split *)
(* copy of another value and no clobber has overwritten it.                   *)
InPlace ==
    stage = "exec" =>
        \A i \in AliveAt(pos) \ {Val(pos)} : regfile[segs[i].loc] = Belongs(i)

(* Run with its allocation, a block finds every value that is still to be     *)
(* read in exactly one place, and there.                                      *)
LiveValuesInPlace == InPlace /\ Covered
=============================================================================
