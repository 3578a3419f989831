-------------------------- MODULE AllocationProofs ---------------------------
(***************************************************************************)
(* Theorems about where values are kept, for every register file.          *)
(*                                                                         *)
(* First `allocate`, for every block.  Then the parallel copies around an  *)
(* instruction that names fixed registers, for every placement of the      *)
(* operands and every order of the copies.  Like `reconcile`, the loop     *)
(* swaps only when what is left is a permutation of its own destinations;  *)
(* that alone makes it right to redirect only the readers of one of the    *)
(* two registers an xchg exchanges.  At the end, the frame such a site is  *)
(* in: it is laid out right for every count of spills, saves and outgoing  *)
(* arguments and every extent of the guest's own frame.                    *)
(***************************************************************************)
EXTENDS LinearScan, NativeSite, FrameLayout, TLAPS, FiniteSetTheorems, FunctionTheorems, NaturalsInduction, WellFoundedInduction

-----------------------------------------------------------------------------
(* Items and places *)

(* A set of natural numbers that is not empty has a least element.            *)
LEMMA LeastNumber ==
  ASSUME NEW S \in SUBSET Nat, S # {}
  PROVE  \E m \in S : \A k \in S : m <= k
<1> DEFINE R == {p \in Nat \X Nat : p[1] < p[2]}
<1>1. IsWellFoundedOn(OpToRel(<, Nat), Nat)
  BY NatLessThanWellFounded
<1>2. R = OpToRel(<, Nat)
  BY DEF OpToRel
<1>3. IsWellFoundedOn(R, Nat)
  BY <1>1, <1>2
<1>4. \A k, m \in Nat : <<k, m>> \in R <=> k < m
  OBVIOUS
<1> HIDE DEF R
<1>5. PICK m \in S : \A k \in S : ~ (<<k, m>> \in R)
  BY <1>3, WFMin
<1>6. \A k \in S : ~ (k < m)
  BY <1>4, <1>5
<1>7. \A k \in S : m <= k
  BY <1>6
<1> QED
  BY <1>7

(* Values, entry values, saved halves, registers and slots are told apart.    *)
LEMMA Distinguished ==
  /\ \A p, q : Val(p) = Val(q) <=> p = q
  /\ \A r, s : (Entry(r) = Entry(s) <=> r = s) /\ (Saved(r) = Saved(s) <=> r = s)
  /\ \A p, r : Val(p) # Entry(r) /\ Val(p) # Saved(r)
  /\ \A r, s : Entry(r) # Saved(s)
  /\ \A p : Val(p) # Garbage /\ Entry(p) # Garbage /\ Saved(p) # Garbage
  /\ \A p : Val(p)[1] = "val" /\ Val(p)[2] = p
  /\ \A r : Entry(r)[1] = "entry" /\ Entry(r)[2] = r
  /\ \A r : Saved(r)[1] = "saved" /\ Saved(r)[2] = r
  /\ Garbage[1] = "junk"
  /\ \A g, h : (InReg(g) = InReg(h) <=> g = h) /\ (InSlot(g) = InSlot(h) <=> g = h)
  /\ \A g, k : InReg(g) # InSlot(k)
  /\ \A g : InReg(g)[1] = "reg" /\ InReg(g)[2] = g /\ InSlot(g)[1] = "slot"
BY DEF Val, Entry, Saved, Garbage, InReg, InSlot

-----------------------------------------------------------------------------
(* Live ranges *)

\* The block is one the allocator can be given.
BlockOK == kind \in [Pos -> Kind] /\ last \in [Item -> 0..N+1] /\ LastOK(last)

\* The work list of the scan.
Work == {ValRange(p) : p \in Defined} \cup {SavedRange(r) : r \in SplitRegs}

(* The registers destroyed at a position are allocatable, and none where a    *)
(* value is defined.                                                          *)
LEMMA ClobbersAre ==
  ASSUME BlockOK
  PROVE  /\ \A c \in Pos : Clobbers(c) \subseteq Allocatable
         /\ \A p \in Defined : Clobbers(p) = {}
<1>1. \A c \in Pos : kind[c] \in Kind
  BY DEF BlockOK
<1>2. ASSUME NEW k \in Kind
      PROVE  \/ k.op = "def" \/ k.op = "use" \/ k.op = "call"
             \/ k.op = "boxed" /\ k.writes \in BoxedWrites
  BY DEF Kind
<1>3. ASSUME NEW c \in Pos
      PROVE  Clobbers(c) \subseteq Allocatable
  <2>1. CASE kind[c].op = "call"
    BY <2>1, ClobberAssumption DEF Clobbers
  <2>2. CASE kind[c].op = "boxed"
    BY <1>1, <1>2, <2>2, ClobberAssumption DEF Clobbers
  <2>3. CASE kind[c].op # "call" /\ kind[c].op # "boxed"
    BY <2>3 DEF Clobbers
  <2> QED
    BY <2>1, <2>2, <2>3
<1> QED
  BY <1>3 DEF Defined, Clobbers

(* A split comes at the first instruction that destroys the register while    *)
(* its entry value is still needed.                                           *)
LEMMA SplitsFirst ==
  ASSUME BlockOK, NEW r \in SplitRegs
  PROVE  /\ r \in Read /\ r \in Allocatable
         /\ Killer(r) \in Pos /\ Killer(r) + 1 < last[Entry(r)] /\ last[Entry(r)] \in 1..N+1
         /\ r \in Clobbers(Killer(r))
         /\ \A c \in Pos : c < Killer(r) => r \notin Clobbers(c)
<1>1. /\ r \in Read /\ r \in Allocatable /\ Killers(r) # {}
      /\ last[Entry(r)] \in 1..N+1
  BY DEF SplitRegs, Read, BlockOK, Item
<1>2. Killers(r) \in SUBSET Nat
  BY BlockAssumption DEF Killers, Pos
<1>3. \E m \in Killers(r) : \A k \in Killers(r) : m <= k
  BY <1>1, <1>2, LeastNumber
<1>4. Killer(r) \in Killers(r) /\ \A k \in Killers(r) : Killer(r) <= k
  BY <1>3 DEF Killer
<1>5. Killer(r) \in Pos /\ Killer(r) + 1 < last[Entry(r)] /\ r \in Clobbers(Killer(r))
  BY <1>4 DEF Killers, Spans
<1>6. ASSUME NEW c \in Pos, c < Killer(r), r \in Clobbers(c)
      PROVE  FALSE
  <2>1. c \in Killers(r)
    BY <1>1, <1>5, <1>6, BlockAssumption DEF Killers, Spans, Pos
  <2> QED
    BY <1>4, <1>5, <1>6, <2>1, BlockAssumption DEF Pos
<1> QED
  BY <1>1, <1>5, <1>6

(* An entry value that is not split survives every instruction before its     *)
(* last reader.                                                               *)
LEMMA UnsplitSurvives ==
  ASSUME BlockOK, NEW r \in Read \ SplitRegs
  PROVE  /\ r \in Allocatable /\ last[Entry(r)] \in 1..N+1
         /\ \A c \in Pos : Spans(0, last[Entry(r)], c) => r \notin Clobbers(c)
BY DEF SplitRegs, Killers, Read, BlockOK, Item

(* What every range on the work list is like: it is not empty, no other has   *)
(* its item, the place it may be given survives it, and nothing else begins   *)
(* where a value is defined.                                                  *)
LEMMA ValIs ==
  ASSUME BlockOK, NEW p \in Defined
  PROVE  /\ p \in Pos /\ Val(p) \in Item /\ last[Val(p)] \in p+1..N+1
         /\ ValRange(p) = LiveRange(Val(p), p, last[Val(p)], ValRange(p).avoid, FALSE)
         /\ ValRange(p).avoid \subseteq Allocatable
         /\ \A c \in Pos : Spans(p, last[Val(p)], c) => Clobbers(c) \subseteq ValRange(p).avoid
<1>1. p \in Pos /\ kind[p].op = "def" /\ Val(p) \in Item /\ last[Val(p)] \in p+1..N+1
  BY DEF Defined, BlockOK, LastOK, Item
<1>2. /\ ValRange(p) = LiveRange(Val(p), p, last[Val(p)], ValRange(p).avoid, FALSE)
      /\ ValRange(p).avoid = DestroyedBy(p, last[Val(p)], {c \in Pos : p < c})
  BY DEF ValRange, LiveRange
<1>3. ValRange(p).avoid \subseteq Allocatable
  BY <1>2, ClobbersAre DEF DestroyedBy
<1>4. ASSUME NEW c \in Pos, Spans(p, last[Val(p)], c)
      PROVE  Clobbers(c) \subseteq ValRange(p).avoid
  <2>1. CASE c = p
    BY <2>1, ClobbersAre
  <2>2. CASE c # p
    <3>1. p < c
      BY <1>1, <1>4, <2>2, BlockAssumption DEF Spans, Pos
    <3> QED
      BY <1>2, <1>4, <3>1 DEF DestroyedBy
  <2> QED
    BY <2>1, <2>2
<1> QED
  BY <1>1, <1>2, <1>3, <1>4

(* A saved half begins where its register is destroyed, and avoids that     *)
(* register.                                                                *)
LEMMA SavedIs ==
  ASSUME BlockOK, NEW r \in SplitRegs
  PROVE  /\ Saved(r) \in Item
         /\ SavedRange(r) = LiveRange(Saved(r), Killer(r), last[Entry(r)], SavedRange(r).avoid, FALSE)
         /\ SavedRange(r).avoid \subseteq Allocatable
         /\ \A c \in Pos : Spans(Killer(r), last[Entry(r)], c) => Clobbers(c) \subseteq SavedRange(r).avoid
         /\ Clobbers(Killer(r)) \subseteq SavedRange(r).avoid
<1>1. r \in Allocatable /\ Killer(r) \in Pos
  BY SplitsFirst
<1>2. /\ SavedRange(r) = LiveRange(Saved(r), Killer(r), last[Entry(r)], SavedRange(r).avoid, FALSE)
      /\ SavedRange(r).avoid = DestroyedBy(Killer(r), last[Entry(r)], Pos) \cup Clobbers(Killer(r))
  BY DEF SavedRange, LiveRange
<1> QED
  BY <1>1, <1>2, ClobbersAre DEF DestroyedBy, Item

(* The ranges on the work list: what they are, and that no two share an     *)
(* item.                                                                    *)
LEMMA WorkIs ==
  ASSUME BlockOK
  PROVE  /\ \A w \in Work :
              /\ w.item \in Item /\ w.def \in Pos /\ w.last \in w.def+1..N+1
              /\ w = LiveRange(w.item, w.def, w.last, w.avoid, FALSE)
              /\ w.avoid \subseteq Allocatable
              /\ \A c \in Pos : Spans(w.def, w.last, c) => Clobbers(c) \subseteq w.avoid
              /\ w.item # Garbage /\ \A r : w.item # Entry(r)
         /\ \A v, w \in Work : v.item = w.item => v = w
         /\ \A v, w \in Work : v.item[1] = "val" /\ v.def = w.def => v = w
<1>1. ASSUME NEW p \in Defined, NEW w, w = ValRange(p)
      PROVE  /\ w.item = Val(p) /\ w.def = p /\ w.last = last[Val(p)]
             /\ w = LiveRange(w.item, w.def, w.last, w.avoid, FALSE)
  BY <1>1 DEF ValRange, LiveRange
<1>2. ASSUME NEW r \in SplitRegs, NEW w, w = SavedRange(r)
      PROVE  /\ w.item = Saved(r) /\ w.def = Killer(r) /\ w.last = last[Entry(r)]
             /\ w = LiveRange(w.item, w.def, w.last, w.avoid, FALSE)
  BY <1>2 DEF SavedRange, LiveRange
<1>3. \A p \in Defined : \A r \in SplitRegs : p # Killer(r)
  BY ClobbersAre, SplitsFirst
<1>4. ASSUME NEW w \in Work
      PROVE  /\ w.item \in Item /\ w.def \in Pos /\ w.last \in w.def+1..N+1
             /\ w = LiveRange(w.item, w.def, w.last, w.avoid, FALSE)
             /\ w.avoid \subseteq Allocatable
             /\ \A c \in Pos : Spans(w.def, w.last, c) => Clobbers(c) \subseteq w.avoid
             /\ w.item # Garbage /\ \A r : w.item # Entry(r)
  <2>1. CASE \E p \in Defined : w = ValRange(p)
    <3>1. PICK p \in Defined : w = ValRange(p)
      BY <2>1
    <3>2. /\ w.item = Val(p) /\ w.def = p /\ w.last = last[Val(p)]
          /\ w = LiveRange(w.item, w.def, w.last, w.avoid, FALSE)
      BY <1>1, <3>1
    <3>3. w.item # Garbage /\ \A r : w.item # Entry(r)
      BY <3>2, Distinguished
    <3>4. /\ w.item \in Item /\ w.def \in Pos /\ w.last \in w.def+1..N+1
          /\ w.avoid \subseteq Allocatable
          /\ \A c \in Pos : Spans(w.def, w.last, c) => Clobbers(c) \subseteq w.avoid
      BY <3>1, <3>2, ValIs
    <3> QED
      BY <3>2, <3>3, <3>4
  <2>2. CASE \E r \in SplitRegs : w = SavedRange(r)
    <3>1. PICK r \in SplitRegs : w = SavedRange(r)
      BY <2>2
    <3>2. /\ w.item = Saved(r) /\ w.def = Killer(r) /\ w.last = last[Entry(r)]
          /\ w = LiveRange(w.item, w.def, w.last, w.avoid, FALSE)
      BY <1>2, <3>1
    <3>3. w.item # Garbage /\ \A s : w.item # Entry(s)
      BY <3>2, Distinguished
    <3>4. w.def \in Pos /\ w.last \in w.def+1..N+1
      <4>1. Killer(r) \in Pos /\ Killer(r) + 1 < last[Entry(r)] /\ last[Entry(r)] \in 1..N+1
        BY SplitsFirst
      <4> QED
        BY <3>2, <4>1, BlockAssumption DEF Pos
    <3>5. /\ w.item \in Item /\ w.avoid \subseteq Allocatable
          /\ \A c \in Pos : Spans(w.def, w.last, c) => Clobbers(c) \subseteq w.avoid
      BY <3>1, <3>2, SavedIs
    <3> QED
      BY <3>2, <3>3, <3>4, <3>5
  <2> QED
    BY <2>1, <2>2 DEF Work
<1>5. ASSUME NEW v \in Work, NEW w \in Work
      PROVE  /\ v.item = w.item => v = w
             /\ v.item[1] = "val" /\ v.def = w.def => v = w
  <2>1. ASSUME NEW u \in Work
        PROVE  \/ \E p \in Defined : u = ValRange(p) /\ u.item = Val(p) /\ u.def = p
               \/ \E r \in SplitRegs : u = SavedRange(r) /\ u.item = Saved(r) /\ u.def = Killer(r)
    <3>1. (\E p \in Defined : u = ValRange(p)) \/ (\E r \in SplitRegs : u = SavedRange(r))
      BY DEF Work
    <3>2. ASSUME NEW p \in Defined, u = ValRange(p)
          PROVE  u.item = Val(p) /\ u.def = p
      BY <1>1, <3>2
    <3>3. ASSUME NEW r \in SplitRegs, u = SavedRange(r)
          PROVE  u.item = Saved(r) /\ u.def = Killer(r)
      BY <1>2, <3>3
    <3> QED
      BY <3>1, <3>2, <3>3
  <2>2. ASSUME NEW p \in Defined, v = ValRange(p), v.item = Val(p), v.def = p
        PROVE  (v.item = w.item => v = w) /\ (v.def = w.def => v = w)
    <3>1. CASE \E q \in Defined : w = ValRange(q) /\ w.item = Val(q) /\ w.def = q
      BY <2>2, <3>1, Distinguished
    <3>2. CASE \E s \in SplitRegs : w = SavedRange(s) /\ w.item = Saved(s) /\ w.def = Killer(s)
      BY <1>3, <2>2, <3>2, Distinguished
    <3> QED
      BY <2>1, <3>1, <3>2
  <2>3. ASSUME NEW r \in SplitRegs, v = SavedRange(r), v.item = Saved(r), v.def = Killer(r)
        PROVE  (v.item = w.item => v = w) /\ v.item[1] # "val"
    <3>1. v.item[1] # "val"
      BY <2>3, Distinguished
    <3>2. CASE \E q \in Defined : w = ValRange(q) /\ w.item = Val(q) /\ w.def = q
      BY <2>3, <3>1, <3>2, Distinguished
    <3>3. CASE \E s \in SplitRegs : w = SavedRange(s) /\ w.item = Saved(s) /\ w.def = Killer(s)
      BY <2>3, <3>1, <3>3, Distinguished
    <3> QED
      BY <2>1, <3>1, <3>2, <3>3
  <2> QED
    BY <2>1, <2>2, <2>3
<1> QED
  BY <1>4, <1>5

(* An entry value stays in its register up to the split, or to its end, and   *)
(* nothing it spans destroys the register.                                    *)
LEMMA EntryIs ==
  ASSUME BlockOK, NEW r \in Read
  PROVE  /\ r \in Allocatable /\ Entry(r) \in Item
         /\ EntryRange(r) = LiveRange(Entry(r), 0, EntryRange(r).last, {}, TRUE)
         /\ EntryRange(r).last \in 0..N+1
         /\ r \in SplitRegs => EntryRange(r).last = Killer(r)
         /\ r \notin SplitRegs => EntryRange(r).last = last[Entry(r)]
         /\ \A c \in Pos : Spans(0, EntryRange(r).last, c) => r \notin Clobbers(c)
<1>1. /\ EntryRange(r) = LiveRange(Entry(r), 0, EntryRange(r).last, {}, TRUE)
      /\ r \in SplitRegs => EntryRange(r).last = Killer(r)
      /\ r \notin SplitRegs => EntryRange(r).last = last[Entry(r)]
  BY DEF EntryRange, LiveRange, SplitRegs
<1>2. r \in Allocatable /\ Entry(r) \in Item
  BY DEF Read, Item
<1>3. CASE r \in SplitRegs
  <2>1. EntryRange(r).last \in 0..N+1
    BY <1>1, <1>3, SplitsFirst, BlockAssumption DEF Pos
  <2>2. \A c \in Pos : Spans(0, EntryRange(r).last, c) => r \notin Clobbers(c)
    BY <1>1, <1>3, SplitsFirst, BlockAssumption DEF Pos, Spans
  <2> QED
    BY <1>1, <1>2, <1>3, <2>1, <2>2
<1>4. CASE r \notin SplitRegs
  <2>1. /\ EntryRange(r).last = last[Entry(r)] /\ last[Entry(r)] \in 0..N+1
        /\ \A c \in Pos : Spans(0, EntryRange(r).last, c) => r \notin Clobbers(c)
    BY <1>1, <1>4, UnsplitSurvives, BlockAssumption
  <2> QED
    BY <1>1, <1>2, <1>4, <2>1
<1> QED
  BY <1>3, <1>4

-----------------------------------------------------------------------------
(* The allocation while it is being made *)

Register == {InReg(g) : g \in Allocatable}
ScanPlace == Register \cup {InSlot(k) : k \in Nat \ {0}}

\* i is over before j begins, or is the operand j takes its register from.
Follows(sg, i, j) == \/ sg[i].end <= sg[j].start
                     \/ /\ sg[i].loc[1] = "reg" /\ i[1] = "val" /\ j[1] = "val"
                        /\ sg[i].end = sg[j].start + 1

Apart(sg) == \A i, j \in DOMAIN sg :
                i # j /\ sg[i].loc = sg[j].loc => Follows(sg, i, j) \/ Follows(sg, j, i)

\* Segments sg of everything but the ranges of T.
SegsOK(sg, T) ==
    /\ sg \in [{Entry(r) : r \in Read} \cup {w.item : w \in Work \ T} ->
                  [start : 0..N, end : 0..N+1, loc : ScanPlace]]
    /\ \A r \in Read : sg[Entry(r)] = Segment(EntryRange(r), InReg(r))
    /\ \A w \in Work \ T : /\ sg[w.item].start = w.def /\ sg[w.item].end = w.last
                           /\ \A g \in w.avoid : sg[w.item].loc # InReg(g)
    /\ Apart(sg)

\* Nothing in a slot outlives the end noted for the slot.
Stored(sg, sl) ==
    /\ sl \in Seq(1..N+1)
    /\ \A i \in DOMAIN sg, k \in Nat : sg[i].loc = InSlot(k) => k \in 1..Len(sl) /\ sg[i].end <= sl[k]

\* The range noted for a register is in it.
GivenAt(b, sg, T, g) == \/ b[g] = Unused(g)
                        \/ g \in Read /\ b[g] = EntryRange(g)
                        \/ b[g] \in Work \ T /\ sg[b[g].item].loc = InReg(g)

\* Whatever else is in the register came before it.
LatestAt(b, sg, g) ==
    \A i \in DOMAIN sg : sg[i].loc = InReg(g) =>
        \/ i = b[g].item
        \/ sg[i].end <= b[g].def
        \/ i[1] = "val" /\ b[g].item[1] = "val" /\ sg[i].end = b[g].def + 1

Booked(b, sg, T, G) == \A g \in G : GivenAt(b, sg, T, g) /\ LatestAt(b, sg, g)

(* A segment that follows everything in its place keeps the allocation        *)
(* consistent, whether it is new or moved.                                    *)
LEMMA ApartWith ==
  ASSUME NEW sg, NEW sg2, NEW i, Apart(sg),
         DOMAIN sg2 = DOMAIN sg \cup {i},
         \A j \in DOMAIN sg \ {i} : sg2[j] = sg[j],
         \A j \in DOMAIN sg \ {i} : sg[j].loc = sg2[i].loc =>
             \/ sg[j].end <= sg2[i].start
             \/ /\ sg2[i].loc[1] = "reg" /\ j[1] = "val" /\ i[1] = "val"
                /\ sg[j].end = sg2[i].start + 1
  PROVE  Apart(sg2)
<1>2. \A j \in DOMAIN sg \ {i} : sg2[j].loc = sg2[i].loc => Follows(sg2, j, i)
  BY DEF Follows
<1>3. \A j, k \in DOMAIN sg \ {i} : j # k /\ sg2[j].loc = sg2[k].loc =>
                                        Follows(sg2, j, k) \/ Follows(sg2, k, j)
  BY DEF Apart, Follows
<1>4. ASSUME NEW j \in DOMAIN sg2, NEW k \in DOMAIN sg2, j # k, sg2[j].loc = sg2[k].loc
      PROVE  Follows(sg2, j, k) \/ Follows(sg2, k, j)
  <2>1. CASE k = i
    BY <1>2, <1>4, <2>1
  <2>2. CASE j = i
    BY <1>2, <1>4, <2>2
  <2>3. CASE j # i /\ k # i
    BY <1>3, <1>4, <2>3
  <2> QED
    BY <2>1, <2>2, <2>3
<1> QED
  BY <1>4 DEF Apart

\* r may be given place loc: it survives there, and everything in it is over, or dies into r.
Fits(sg, r, loc) ==
    /\ \A g \in r.avoid : loc # InReg(g)
    /\ \A i \in DOMAIN sg : sg[i].loc = loc =>
          \/ sg[i].end <= r.def
          \/ loc \in Register /\ i[1] = "val" /\ r.item[1] = "val" /\ sg[i].end = r.def + 1

(* A range on the work list has no segment yet.                               *)
LEMMA NewItem ==
  ASSUME BlockOK, NEW sg, NEW T \in SUBSET Work, NEW r \in T, SegsOK(sg, T)
  PROVE  r.item \notin DOMAIN sg
<1>1. DOMAIN sg = {Entry(s) : s \in Read} \cup {w.item : w \in Work \ T}
  BY DEF SegsOK
<1>2. \A s : r.item # Entry(s)
  BY WorkIs
<1>3. \A w \in Work : w.item = r.item => w = r
  BY WorkIs
<1> QED
  BY <1>1, <1>2, <1>3

(* One more range, in a place where it follows everything, is as good.        *)
LEMMA PushKeeps ==
  ASSUME BlockOK, NEW sg, NEW T \in SUBSET Work, NEW r \in T, SegsOK(sg, T), NEW loc \in ScanPlace,
         Fits(sg, r, loc)
  PROVE  SegsOK(Pushed(r, loc, sg), T \ {r})
<1> DEFINE sg2 == Pushed(r, loc, sg)
<1>0. r \in Work /\ r.def \in 0..N /\ r.last \in 0..N+1
  <2>1. r \in Work
    OBVIOUS
  <2>2. r.def \in Pos /\ r.last \in r.def+1..N+1
    BY <2>1, WorkIs
  <2> QED
    BY <2>1, <2>2, BlockAssumption DEF Pos
<1>1. DOMAIN sg = {Entry(s) : s \in Read} \cup {w.item : w \in Work \ T}
  BY DEF SegsOK
<1>2. r.item \notin DOMAIN sg
  BY NewItem
<1>3. sg2 = [i \in DOMAIN sg \cup {r.item} |-> IF i = r.item THEN Segment(r, loc) ELSE sg[i]]
  BY DEF Pushed
<1>4. /\ DOMAIN sg2 = DOMAIN sg \cup {r.item} /\ sg2[r.item] = Segment(r, loc)
      /\ \A i \in DOMAIN sg : sg2[i] = sg[i]
  BY <1>2, <1>3
<1>5. DOMAIN sg2 = {Entry(s) : s \in Read} \cup {w.item : w \in Work \ (T \ {r})}
  <2>1. Work \ (T \ {r}) = (Work \ T) \cup {r}
    BY <1>0
  <2> QED
    BY <1>1, <1>4, <2>1
<1>6. Segment(r, loc) \in [start : 0..N, end : 0..N+1, loc : ScanPlace]
  BY <1>0 DEF Segment
<1>7. \A i \in DOMAIN sg : sg[i] \in [start : 0..N, end : 0..N+1, loc : ScanPlace]
  BY DEF SegsOK
<1>8. sg2 \in [DOMAIN sg2 -> [start : 0..N, end : 0..N+1, loc : ScanPlace]]
  BY <1>2, <1>3, <1>6, <1>7
<1>9. \A s \in Read : sg2[Entry(s)] = Segment(EntryRange(s), InReg(s))
  BY <1>1, <1>4 DEF SegsOK
<1>10. ASSUME NEW w \in Work \ (T \ {r})
       PROVE  /\ sg2[w.item].start = w.def /\ sg2[w.item].end = w.last
              /\ \A g \in w.avoid : sg2[w.item].loc # InReg(g)
  <2>1. CASE w = r
    BY <1>4, <2>1 DEF Segment, Fits
  <2>2. CASE w # r
    BY <1>1, <1>4, <2>2 DEF SegsOK
  <2> QED
    BY <2>1, <2>2
<1>11. Apart(sg2)
  <2>1. sg2[r.item].loc = loc /\ sg2[r.item].start = r.def
    BY <1>4 DEF Segment
  <2>2. Apart(sg)
    BY DEF SegsOK
  <2> HIDE DEF sg2
  <2>3. \A j \in DOMAIN sg \ {r.item} : sg[j].loc = sg2[r.item].loc =>
            \/ sg[j].end <= sg2[r.item].start
            \/ /\ sg2[r.item].loc[1] = "reg" /\ j[1] = "val" /\ r.item[1] = "val"
               /\ sg[j].end = sg2[r.item].start + 1
    <3>1. loc \in Register => loc[1] = "reg"
      BY Distinguished DEF Register
    <3> QED
      BY <2>1, <3>1 DEF Fits
  <2>4. \A j \in DOMAIN sg \ {r.item} : sg2[j] = sg[j]
    BY <1>4
  <2>5. DOMAIN sg2 = DOMAIN sg \cup {r.item}
    BY <1>4
  <2> QED
    BY <2>2, <2>3, <2>4, <2>5, ApartWith
<1> QED
  BY <1>5, <1>8, <1>9, <1>10, <1>11 DEF SegsOK

\* Segments sg with that of item i moved to loc.
Moved(sg, i, loc) == [sg EXCEPT ![i].loc = loc]

(* Moving a placed range to a slot where everything else is over.             *)
LEMMA EvictKeeps ==
  ASSUME BlockOK, NEW sg, NEW T \in SUBSET Work, SegsOK(sg, T), NEW v \in Work \ T, NEW k \in Nat \ {0},
         \A i \in DOMAIN sg : sg[i].loc = InSlot(k) => sg[i].end <= v.def,
         NEW sg2, sg2 = Moved(sg, v.item, InSlot(k))
  PROVE  /\ SegsOK(sg2, T) /\ DOMAIN sg2 = DOMAIN sg /\ v.item \in DOMAIN sg
         /\ \A i \in DOMAIN sg : sg2[i].start = sg[i].start /\ sg2[i].end = sg[i].end
         /\ \A i \in DOMAIN sg : sg2[i].loc = IF i = v.item THEN InSlot(k) ELSE sg[i].loc
<1>1. /\ DOMAIN sg = {Entry(s) : s \in Read} \cup {w.item : w \in Work \ T}
      /\ \A i \in DOMAIN sg : sg[i] \in [start : 0..N, end : 0..N+1, loc : ScanPlace]
      /\ sg[v.item].start = v.def
  BY DEF SegsOK
<1>2. v.item \in DOMAIN sg
  BY <1>1
<1>3. /\ DOMAIN sg2 = DOMAIN sg
      /\ sg2[v.item] = [sg[v.item] EXCEPT !.loc = InSlot(k)]
      /\ \A i \in DOMAIN sg : i # v.item => sg2[i] = sg[i]
  BY <1>2 DEF Moved
<1>4. /\ sg2[v.item].start = sg[v.item].start /\ sg2[v.item].end = sg[v.item].end
      /\ sg2[v.item].loc = InSlot(k)
      /\ sg2[v.item] \in [start : 0..N, end : 0..N+1, loc : ScanPlace]
  BY <1>1, <1>2, <1>3 DEF ScanPlace
<1>5. sg2 \in [DOMAIN sg2 -> [start : 0..N, end : 0..N+1, loc : ScanPlace]]
  <2>1. \A i \in DOMAIN sg2 : sg2[i] \in [start : 0..N, end : 0..N+1, loc : ScanPlace]
    BY <1>1, <1>3, <1>4
  <2>2. sg2 = [i \in DOMAIN sg2 |-> sg2[i]]
    BY DEF Moved
  <2> QED
    BY <2>1, <2>2
<1>6. \A s \in Read : sg2[Entry(s)] = Segment(EntryRange(s), InReg(s))
  <2>1. \A s \in Read : Entry(s) # v.item
    BY WorkIs
  <2> QED
    BY <1>1, <1>3, <2>1 DEF SegsOK
<1>7. ASSUME NEW w \in Work \ T
      PROVE  /\ sg2[w.item].start = w.def /\ sg2[w.item].end = w.last
             /\ \A g \in w.avoid : sg2[w.item].loc # InReg(g)
  <2>1. w.item \in DOMAIN sg /\ sg[w.item].start = w.def /\ sg[w.item].end = w.last
    BY <1>1 DEF SegsOK
  <2>2. CASE w.item = v.item
    BY <1>4, <2>1, <2>2, Distinguished
  <2>3. CASE w.item # v.item
    BY <1>3, <2>1, <2>3 DEF SegsOK
  <2> QED
    BY <2>2, <2>3
<1>8. Apart(sg2)
  <2>1. Apart(sg)
    BY DEF SegsOK
  <2>2. PICK i \in DOMAIN sg : i = v.item
    BY <1>2
  <2>3. DOMAIN sg2 = DOMAIN sg \cup {i}
    BY <1>3
  <2>4. \A j \in DOMAIN sg \ {i} : sg2[j] = sg[j]
    BY <1>3, <2>2
  <2>5. \A j \in DOMAIN sg \ {i} : sg[j].loc = sg2[i].loc =>
            \/ sg[j].end <= sg2[i].start
            \/ /\ sg2[i].loc[1] = "reg" /\ j[1] = "val" /\ i[1] = "val"
               /\ sg[j].end = sg2[i].start + 1
    BY <1>1, <1>4, <2>2
  <2> QED
    BY <2>1, <2>3, <2>4, <2>5, ApartWith
<1>9. SegsOK(sg2, T)
  BY <1>1, <1>3, <1>5, <1>6, <1>7, <1>8 DEF SegsOK
<1> QED
  BY <1>2, <1>3, <1>4, <1>9

(* The slot taken is one whose occupants are over, or a new one, and no slot  *)
(* forgets an occupant that lives longer.                                     *)
LEMMA TakeSlotIs ==
  ASSUME BlockOK, slots \in Seq(1..N+1), NEW v \in Work, TakeSlot(v)
  PROVE  /\ slots' \in Seq(1..N+1) /\ Len(slots) <= Len(slots')
         /\ SlotFor(v) \in 1..Len(slots') /\ slots'[SlotFor(v)] = v.last
         /\ SlotFor(v) <= Len(slots) => slots[SlotFor(v)] <= v.def
         /\ \A k \in 1..Len(slots) : slots[k] <= slots'[k]
<1>1. v.def \in Nat /\ v.last \in 1..N+1 /\ v.def < v.last
  <2>1. v.def \in Pos /\ v.last \in v.def+1..N+1
    BY WorkIs
  <2> QED
    BY <2>1, BlockAssumption DEF Pos
<1> DEFINE k == SlotFor(v)
<1>2. CASE \E i \in 1..Len(slots) : slots[i] <= v.def
  <2> DEFINE S == {i \in 1..Len(slots) : slots[i] <= v.def}
  <2>1. \E m \in S : \A i \in S : m <= i
    <3>1. S \in SUBSET Nat /\ S # {}
      BY <1>2
    <3> HIDE DEF S
    <3> QED
      BY <3>1, LeastNumber
  <2>2. PICK m \in 1..Len(slots) : slots[m] <= v.def /\ \A i \in S : m <= i
    BY <2>1
  <2>3. \A j \in 1..m-1 : slots[j] > v.def
    <3>1. ASSUME NEW j \in 1..m-1
          PROVE  slots[j] > v.def
      <4>1. j \in 1..Len(slots) /\ ~ (m <= j)
        BY <2>2
      <4>2. slots[j] \in 1..N+1
        BY <4>1, BlockAssumption
      <4>3. ~ (slots[j] <= v.def)
        BY <2>2, <4>1
      <4> QED
        BY <1>1, <4>2, <4>3, BlockAssumption
    <3> QED
      BY <3>1
  <2>4. k \in 1..Len(slots) /\ slots[k] <= v.def
    BY <1>2, <2>2, <2>3 DEF SlotFor
  <2>5. slots' = [slots EXCEPT ![k] = v.last]
    BY <2>4 DEF TakeSlot
  <2> HIDE DEF k
  <2>6. slots' \in Seq(1..N+1) /\ Len(slots') = Len(slots)
    BY <1>1, <2>4, <2>5
  <2>7. slots'[k] = v.last /\ \A i \in 1..Len(slots) : slots[i] <= slots'[i]
    BY <1>1, <2>4, <2>5, BlockAssumption
  <2> QED
    BY <2>4, <2>6, <2>7 DEF k
<1>3. CASE ~ \E i \in 1..Len(slots) : slots[i] <= v.def
  <2>1. k = Len(slots) + 1
    BY <1>3 DEF SlotFor
  <2>2. slots' = Append(slots, v.last)
    BY <2>1 DEF TakeSlot
  <2>3. /\ slots' \in Seq(1..N+1) /\ Len(slots') = Len(slots) + 1 /\ slots'[k] = v.last
        /\ \A i \in 1..Len(slots) : slots'[i] = slots[i]
    BY <1>1, <2>1, <2>2
  <2> QED
    BY <2>1, <2>3, BlockAssumption
<1> QED
  BY <1>2, <1>3

(* The slot bookkeeping is right after a range has been put in the slot.      *)
LEMMA StoredWith ==
  ASSUME BlockOK, NEW T \in SUBSET Work, SegsOK(segs, T), Stored(segs, slots), NEW v \in Work, TakeSlot(v),
         NEW sg2,
         \A i \in DOMAIN sg2 :
            \/ i \in DOMAIN segs /\ sg2[i].loc = segs[i].loc /\ sg2[i].end = segs[i].end
            \/ sg2[i].loc = InSlot(SlotFor(v)) /\ sg2[i].end = v.last
  PROVE  /\ Stored(sg2, slots')
         /\ SlotFor(v) \in Nat \ {0}
         /\ \A i \in DOMAIN segs : segs[i].loc = InSlot(SlotFor(v)) => segs[i].end <= v.def
<1>1. /\ slots' \in Seq(1..N+1) /\ Len(slots) <= Len(slots') /\ slots \in Seq(1..N+1)
      /\ SlotFor(v) \in 1..Len(slots') /\ slots'[SlotFor(v)] = v.last
      /\ SlotFor(v) <= Len(slots) => slots[SlotFor(v)] <= v.def
      /\ \A k \in 1..Len(slots) : slots[k] <= slots'[k]
  BY TakeSlotIs DEF Stored
<1>2. /\ v.def \in Nat /\ v.last \in Nat
      /\ \A i \in DOMAIN segs : segs[i].end \in Nat
      /\ \A k \in 1..Len(slots) : slots[k] \in Nat
      /\ \A k \in 1..Len(slots') : slots'[k] \in Nat
  <2>1. v.def \in Pos /\ v.last \in v.def+1..N+1
    BY WorkIs
  <2>2. \A i \in DOMAIN segs : segs[i].end \in 0..N+1
    BY DEF SegsOK
  <2>3. \A k \in 1..Len(slots) : slots[k] \in 1..N+1
    BY <1>1, BlockAssumption
  <2>4. \A k \in 1..Len(slots') : slots'[k] \in 1..N+1
    BY <1>1, BlockAssumption
  <2> QED
    BY <2>1, <2>2, <2>3, <2>4, BlockAssumption DEF Pos
<1>3. SlotFor(v) \in Nat \ {0}
  BY <1>1
<1>4. ASSUME NEW i \in DOMAIN segs, segs[i].loc = InSlot(SlotFor(v))
      PROVE  segs[i].end <= v.def
  <2>1. SlotFor(v) \in 1..Len(slots) /\ segs[i].end <= slots[SlotFor(v)]
    BY <1>3, <1>4 DEF Stored
  <2>2. slots[SlotFor(v)] <= v.def
    BY <1>1, <2>1
  <2> QED
    BY <1>2, <2>1, <2>2
<1>5. ASSUME NEW i \in DOMAIN sg2, NEW k \in Nat, sg2[i].loc = InSlot(k)
      PROVE  k \in 1..Len(slots') /\ sg2[i].end <= slots'[k]
  <2>1. CASE i \in DOMAIN segs /\ sg2[i].loc = segs[i].loc /\ sg2[i].end = segs[i].end
    <3>1. k \in 1..Len(slots) /\ segs[i].end <= slots[k]
      BY <1>5, <2>1 DEF Stored
    <3>2. k \in 1..Len(slots') /\ slots[k] <= slots'[k]
      BY <1>1, <3>1
    <3> QED
      BY <1>2, <2>1, <3>1, <3>2
  <2>2. CASE sg2[i].loc = InSlot(SlotFor(v)) /\ sg2[i].end = v.last
    <3>1. InSlot(k) = InSlot(SlotFor(v))
      BY <1>5, <2>2
    <3>2. k = SlotFor(v)
      BY <3>1, Distinguished
    <3> QED
      BY <1>1, <1>2, <2>2, <3>2
  <2> QED
    BY <2>1, <2>2
<1> QED
  BY <1>1, <1>3, <1>4, <1>5 DEF Stored

\* What the scan keeps true: `todo` is placed in order, and the bookkeeping of
\* registers and slots describes the segments.
Allocated ==
    /\ BlockOK /\ claimed \subseteq Allocatable
    /\ todo \subseteq Work
    /\ \A w \in Work \ todo, t \in todo : w.def <= t.def
    /\ SegsOK(segs, todo) /\ Stored(segs, slots)
    /\ DOMAIN busy = Allocatable
    /\ Booked(busy, segs, todo, Allocatable)

(* The range noted for a register: it began before the ones to come.          *)
LEMMA BusyIs ==
  ASSUME Allocated, NEW g \in Allocatable
  PROVE  /\ busy[g].def \in Nat /\ busy[g].last \in Nat
         /\ \A t \in todo : busy[g].def <= t.def
         /\ \A i \in DOMAIN segs : i = busy[g].item => segs[i].end = busy[g].last
         /\ busy[g].item[1] = "val" \/ ~ busy[g].fixed =>
              busy[g] \in Work \ todo /\ busy[g].def < busy[g].last
<1>1. \A t \in todo : t.def \in Nat
  <2>1. \A t \in todo : t.def \in Pos
    BY WorkIs DEF Allocated
  <2> QED
    BY <2>1, BlockAssumption DEF Pos
<1>2. DOMAIN segs = {Entry(s) : s \in Read} \cup {w.item : w \in Work \ todo} /\ BlockOK
  BY DEF Allocated, SegsOK
<1>3. CASE busy[g] = Unused(g)
  <2>1. /\ busy[g].def = 0 /\ busy[g].last = 0 /\ busy[g].fixed = TRUE /\ busy[g].item = Garbage
    BY <1>3 DEF Unused, LiveRange
  <2>2. Garbage \notin DOMAIN segs
    <3>1. \A w \in Work : w.item # Garbage
      BY <1>2, WorkIs
    <3> QED
      BY <1>2, <3>1, Distinguished
  <2>3. Garbage[1] # "val"
    BY Distinguished
  <2> QED
    BY <1>1, <2>1, <2>2, <2>3
<1>4. CASE g \in Read /\ busy[g] = EntryRange(g)
  <2>1. /\ busy[g].def = 0 /\ busy[g].fixed = TRUE /\ busy[g].item = Entry(g)
        /\ busy[g].last = EntryRange(g).last
    BY <1>2, <1>4 DEF EntryRange, LiveRange
  <2>2. EntryRange(g).last \in 0..N+1
    BY <1>2, <1>4, EntryIs
  <2>3. segs[Entry(g)].end = EntryRange(g).last
    <3>1. segs[Entry(g)] = Segment(EntryRange(g), InReg(g))
      BY <1>4 DEF Allocated, SegsOK
    <3> QED
      BY <3>1 DEF Segment
  <2>4. Entry(g)[1] # "val"
    BY Distinguished
  <2> QED
    BY <1>1, <2>1, <2>2, <2>3, <2>4, BlockAssumption
<1>5. CASE busy[g] \in Work \ todo
  <2>1. busy[g].def \in Pos /\ busy[g].last \in busy[g].def+1..N+1
    BY <1>2, <1>5, WorkIs
  <2>2. busy[g].def \in Nat /\ busy[g].last \in Nat /\ busy[g].def < busy[g].last
    BY <2>1, BlockAssumption DEF Pos
  <2>3. \A t \in todo : busy[g].def <= t.def
    BY <1>5 DEF Allocated
  <2>4. segs[busy[g].item].end = busy[g].last
    BY <1>5 DEF Allocated, SegsOK
  <2> QED
    BY <1>5, <2>2, <2>3, <2>4
<1> QED
  BY <1>3, <1>4, <1>5 DEF Allocated, Booked, GivenAt

(* What is free, or hinted, takes r: everything in it is over by the time r   *)
(* is defined, or is the operand that dies into r.                            *)
LEMMA OfferedFits ==
  ASSUME Allocated, NEW r \in todo, \A s \in todo : r.def <= s.def,
         NEW src \in AtMostOne(SrcHints(r)), NEW exit \in AtMostOne(ExitHints(r)),
         NEW g \in Offered(r, src, exit) \cup Free(r)
  PROVE  g \in Pool(r) /\ Fits(segs, r, InReg(g))
<1>1. g \in Free(r) \/ \E q \in SrcHints(r) : g \in FromSrc(r, q)
  BY DEF Offered, AtMostOne
<1>2. g \in Pool(r) /\ g \in Allocatable
  BY <1>1 DEF Free, FromSrc, Pool
<1>3. /\ busy[g].def \in Nat /\ busy[g].last \in Nat /\ busy[g].def <= r.def
      /\ \A i \in DOMAIN segs : i = busy[g].item => segs[i].end = busy[g].last
      /\ busy[g].item[1] = "val" => busy[g] \in Work \ todo /\ busy[g].def < busy[g].last
  BY <1>2, BusyIs
<1>4. BlockOK /\ r \in Work /\ LatestAt(busy, segs, g)
  BY <1>2 DEF Allocated, Booked
<1>5. r.def \in Nat
  <2>1. r.def \in Pos
    BY <1>4, WorkIs
  <2> QED
    BY <2>1, BlockAssumption DEF Pos
<1>6. \A i \in DOMAIN segs : segs[i].end \in Nat
  <2>1. \A i \in DOMAIN segs : segs[i].end \in 0..N+1
    BY DEF Allocated, SegsOK
  <2> QED
    BY <2>1, BlockAssumption
<1>7. ASSUME g \in Free(r)
      PROVE  \A i \in DOMAIN segs : segs[i].loc = InReg(g) => segs[i].end <= r.def
  <2>1. busy[g].last <= r.def
    BY <1>7 DEF Free
  <2>2. ASSUME NEW i \in DOMAIN segs, segs[i].loc = InReg(g)
        PROVE  segs[i].end <= r.def
    BY <1>3, <1>4, <1>5, <1>6, <2>1, <2>2 DEF LatestAt
  <2> QED
    BY <2>2
<1>8. ASSUME NEW q \in SrcHints(r), g \in FromSrc(r, q)
      PROVE  \A i \in DOMAIN segs : segs[i].loc = InReg(g) =>
              \/ segs[i].end <= r.def
              \/ i[1] = "val" /\ r.item[1] = "val" /\ segs[i].end = r.def + 1
  <2>1. /\ q \in Defined /\ r.item[1] = "val" /\ q < r.def
        /\ last[Val(q)] > r.def /\ last[Val(q)] <= r.def + 1
        /\ segs[Val(q)].loc = InReg(g) /\ busy[g].last <= r.def + 1
    BY <1>8 DEF SrcHints, FromSrc
  <2>2. q \in Nat /\ last[Val(q)] \in Nat
    <3>1. q \in Pos /\ last[Val(q)] \in q+1..N+1
      BY <1>4, <2>1, ValIs
    <3> QED
      BY <3>1, BlockAssumption DEF Pos
  <2>3. last[Val(q)] = r.def + 1
    BY <1>5, <2>1, <2>2
  <2>4. /\ ValRange(q) \in Work /\ ValRange(q).item = Val(q) /\ ValRange(q).def = q
        /\ ValRange(q).last = last[Val(q)]
    BY <2>1 DEF Work, ValRange, LiveRange
  <2>5. ValRange(q) \in Work \ todo
    BY <1>5, <2>1, <2>2, <2>4
  <2>6. Val(q) \in DOMAIN segs /\ segs[Val(q)].end = r.def + 1
    BY <2>3, <2>4, <2>5 DEF Allocated, SegsOK
  <2>7. busy[g].def # r.def \/ busy[g].item[1] # "val"
    <3>1. ASSUME busy[g].def = r.def, busy[g].item[1] = "val"
          PROVE  FALSE
      <4>1. busy[g] \in Work \ todo
        BY <1>3, <3>1
      <4>2. busy[g] = r
        BY <1>4, <3>1, <4>1, WorkIs
      <4> QED
        BY <4>1, <4>2
    <3> QED
      BY <3>1
  <2>8. busy[g].item = Val(q)
    BY <1>3, <1>4, <1>5, <2>1, <2>6, <2>7 DEF LatestAt
  <2>9. busy[g] = ValRange(q)
    <3>1. busy[g].item[1] = "val"
      BY <2>8, Distinguished
    <3>2. busy[g] \in Work
      BY <1>3, <3>1
    <3> QED
      BY <1>4, <2>4, <2>8, <3>2, WorkIs
  <2>10. Val(q)[1] = "val" /\ busy[g].def = q
    BY <2>4, <2>9, Distinguished
  <2> QED
    BY <1>4, <1>5, <1>6, <2>1, <2>2, <2>6, <2>8, <2>10 DEF LatestAt
<1>9. Fits(segs, r, InReg(g))
  <2>1. \A h \in r.avoid : InReg(g) # InReg(h)
    BY <1>2, Distinguished DEF Pool
  <2>2. InReg(g) \in Register
    BY <1>2 DEF Register
  <2> QED
    BY <1>1, <1>7, <1>8, <2>1, <2>2 DEF Fits
<1> QED
  BY <1>2, <1>9

(* The block does not change, so neither do its ranges.                       *)
LEMMA BlockSame ==
  ASSUME UNCHANGED block
  PROVE  /\ \A c : Clobbers(c)' = Clobbers(c)
         /\ Defined' = Defined /\ Read' = Read /\ SplitRegs' = SplitRegs /\ Work' = Work
         /\ \A r : Killer(r)' = Killer(r) /\ EntryRange(r)' = EntryRange(r)
         /\ BlockOK => BlockOK'
<1>1. kind' = kind /\ last' = last
  BY DEF block
<1>2. \A c : Clobbers(c)' = Clobbers(c)
  BY <1>1 DEF Clobbers
<1>3. Defined' = Defined /\ Read' = Read
  BY <1>1 DEF Defined, Read
<1>4. \A r : Killers(r)' = Killers(r)
  BY <1>1, <1>2 DEF Killers
<1>5. ASSUME NEW r
      PROVE  Killer(r)' = Killer(r)
  BY <1>4 DEF Killer
<1>6. SplitRegs' = SplitRegs
  BY <1>3, <1>4 DEF SplitRegs
<1>7. \A from, end, points : DestroyedBy(from, end, points)' = DestroyedBy(from, end, points)
  BY <1>2 DEF DestroyedBy
<1>8. ASSUME NEW r
      PROVE  EntryRange(r)' = EntryRange(r)
  BY <1>1, <1>4, <1>5 DEF EntryRange
<1>9. ASSUME NEW p
      PROVE  ValRange(p)' = ValRange(p) /\ SavedRange(p)' = SavedRange(p)
  BY <1>1, <1>2, <1>5, <1>7 DEF ValRange, SavedRange
<1>10. Work' = Work
  BY <1>3, <1>6, <1>9 DEF Work
<1>11. BlockOK => BlockOK'
  BY <1>1 DEF BlockOK, LastOK
<1> QED
  BY <1>2, <1>3, <1>5, <1>6, <1>8, <1>10, <1>11

(* What a step of the scan has to establish.                                  *)
LEMMA AllocatedNext ==
  ASSUME Allocated, UNCHANGED block, claimed' \subseteq Allocatable, NEW r \in todo,
         todo' = todo \ {r}, \A s \in todo : r.def <= s.def,
         SegsOK(segs', todo'), Stored(segs', slots'), DOMAIN busy' = Allocatable,
         Booked(busy', segs', todo', Allocatable)
  PROVE  Allocated'
<1>1. /\ Read' = Read /\ Work' = Work /\ BlockOK' /\ \A s : EntryRange(s)' = EntryRange(s)
  BY BlockSame DEF Allocated
<1>2. SegsOK(segs, todo)'
  BY <1>1 DEF SegsOK
<1>3. Stored(segs, slots)'
  BY DEF Stored
<1>4. Booked(busy, segs, todo, Allocatable)'
  <2>1. ASSUME NEW g \in Allocatable
        PROVE  GivenAt(busy, segs, todo, g)' /\ LatestAt(busy, segs, g)'
    BY <1>1 DEF Booked, GivenAt, LatestAt, Unused
  <2> QED
    BY <2>1 DEF Booked
<1>5. \A w \in Work' \ todo', t \in todo' : w.def <= t.def
  BY <1>1 DEF Allocated
<1> QED
  BY <1>1, <1>2, <1>3, <1>4, <1>5 DEF Allocated

(* Eviction: the victim goes to a slot that is over by the time it began, and *)
(* what it leaves behind in the register is over by the time r begins.        *)
LEMMA EvictionFits ==
  ASSUME Allocated, NEW r \in todo, \A s \in todo : r.def <= s.def, NEW g \in Evictable(r),
         TakeSlot(busy[g]), NEW sg, sg = Moved(segs, busy[g].item, InSlot(SlotFor(busy[g])))
  PROVE  /\ g \in Pool(r) /\ Fits(sg, r, InReg(g))
         /\ SegsOK(sg, todo) /\ Stored(sg, slots')
         /\ Booked(busy, sg, todo, Allocatable \ {g})
<1> DEFINE v == busy[g]
           k == SlotFor(v)
<1>1. g \in Pool(r) /\ g \in Allocatable /\ ~ v.fixed
  BY DEF Evictable, Pool
<1>2. v \in Work /\ v \notin todo /\ v.def \in Nat /\ v.def <= r.def
  BY <1>1, BusyIs
<1>3. /\ BlockOK /\ todo \in SUBSET Work /\ SegsOK(segs, todo) /\ Stored(segs, slots)
      /\ r \in Work /\ LatestAt(busy, segs, g)
  BY <1>1 DEF Allocated, Booked
<1>4. segs[v.item].loc = InReg(g)
  <2>1. v # Unused(g) /\ v # EntryRange(g)
    BY <1>1 DEF Unused, EntryRange, LiveRange
  <2> QED
    BY <1>1, <2>1 DEF Allocated, Booked, GivenAt
<1> HIDE DEF v
<1>5. k \in Nat \ {0} /\ \A i \in DOMAIN segs : segs[i].loc = InSlot(k) => segs[i].end <= v.def
  <2>1. TakeSlot(v)
    BY DEF v
  <2> QED
    BY <1>2, <1>3, <2>1, StoredWith
<1>6. sg = Moved(segs, v.item, InSlot(k))
  BY DEF v
<1>7. /\ SegsOK(sg, todo) /\ DOMAIN sg = DOMAIN segs /\ v.item \in DOMAIN segs
      /\ \A i \in DOMAIN segs : sg[i].start = segs[i].start /\ sg[i].end = segs[i].end
      /\ \A i \in DOMAIN segs : sg[i].loc = IF i = v.item THEN InSlot(k) ELSE segs[i].loc
  BY <1>2, <1>3, <1>5, <1>6, EvictKeeps
<1>8. Stored(sg, slots')
  <2>1. TakeSlot(v)
    BY DEF v
  <2>2. segs[v.item].end = v.last
    BY <1>2, <1>3 DEF SegsOK
  <2>3. \A i \in DOMAIN sg :
            \/ i \in DOMAIN segs /\ sg[i].loc = segs[i].loc /\ sg[i].end = segs[i].end
            \/ sg[i].loc = InSlot(SlotFor(v)) /\ sg[i].end = v.last
    BY <1>7, <2>2
  <2> QED
    BY <1>2, <1>3, <2>1, <2>3, StoredWith
<1>9. ASSUME NEW h \in Allocatable \ {g}
      PROVE  GivenAt(busy, sg, todo, h) /\ LatestAt(busy, sg, h)
  <2>1. GivenAt(busy, segs, todo, h) /\ LatestAt(busy, segs, h)
    BY DEF Allocated, Booked
  <2>2. GivenAt(busy, sg, todo, h)
    <3>1. CASE busy[h] \in Work \ todo /\ segs[busy[h].item].loc = InReg(h)
      <4>1. busy[h].item \in DOMAIN segs
        BY <1>3, <3>1 DEF SegsOK
      <4>2. busy[h].item # v.item
        BY <1>4, <3>1, Distinguished
      <4> QED
        BY <1>7, <3>1, <4>1, <4>2 DEF GivenAt
    <3> QED
      BY <2>1, <3>1 DEF GivenAt
  <2>3. LatestAt(busy, sg, h)
    <3>1. InSlot(k) # InReg(h)
      BY Distinguished
    <3>2. \A i \in DOMAIN sg : sg[i].loc = InReg(h) => segs[i].loc = InReg(h)
      BY <1>7, <3>1
    <3> QED
      BY <1>7, <2>1, <3>2 DEF LatestAt
  <2> QED
    BY <2>2, <2>3
<1>10. ASSUME NEW i \in DOMAIN sg, sg[i].loc = InReg(g)
       PROVE  sg[i].end <= r.def
  <2>1. i \in DOMAIN segs /\ i # v.item /\ segs[i].loc = InReg(g) /\ sg[i].end = segs[i].end
    BY <1>7, <1>10, Distinguished
  <2>2. segs[i].end \in Nat /\ r.def \in Nat
    <3>1. segs[i].end \in 0..N+1
      BY <1>3, <2>1 DEF SegsOK
    <3>2. r.def \in Pos
      BY <1>3, WorkIs
    <3> QED
      BY <3>1, <3>2, BlockAssumption DEF Pos
  <2>3. v.item[1] = "val" => v.def # r.def
    BY <1>2, <1>3, WorkIs
  <2>4. segs[i].end <= v.def \/ (v.item[1] = "val" /\ segs[i].end = v.def + 1)
    BY <1>3, <2>1 DEF LatestAt, v
  <2> QED
    BY <1>2, <2>1, <2>2, <2>3, <2>4
<1>11. Fits(sg, r, InReg(g))
  BY <1>1, <1>10, Distinguished DEF Fits, Pool
<1>12. Booked(busy, sg, todo, Allocatable \ {g})
  BY <1>9 DEF Booked
<1> QED
  BY <1>1, <1>7, <1>8, <1>11, <1>12

(* A register is given to r, of which everything in it makes room.            *)
LEMMA HoldKeeps ==
  ASSUME Allocated, UNCHANGED block, claimed' \subseteq Allocatable, NEW r \in todo,
         todo' = todo \ {r}, \A s \in todo : r.def <= s.def,
         NEW g \in Pool(r), NEW sg, SegsOK(sg, todo), Stored(sg, slots'), Fits(sg, r, InReg(g)),
         Booked(busy, sg, todo, Allocatable \ {g}), Hold(r, g, sg)
  PROVE  Allocated'
<1>0. /\ BlockOK /\ todo \in SUBSET Work /\ r \in Work /\ g \in Allocatable /\ InReg(g) \in ScanPlace
      /\ DOMAIN busy = Allocatable
  BY DEF Allocated, Pool, ScanPlace, Register
<1>1. segs' = Pushed(r, InReg(g), sg) /\ busy' = [busy EXCEPT ![g] = r]
  BY DEF Hold
<1>2. SegsOK(segs', todo \ {r})
  BY <1>0, <1>1, PushKeeps
<1>3. r.item \notin DOMAIN sg
  BY <1>0, NewItem
<1>4. /\ DOMAIN segs' = DOMAIN sg \cup {r.item} /\ segs'[r.item].loc = InReg(g)
      /\ \A i \in DOMAIN sg : segs'[i] = sg[i]
  BY <1>1, <1>3 DEF Pushed, Segment
<1>5. DOMAIN busy' = Allocatable /\ busy'[g] = r /\ \A h \in Allocatable \ {g} : busy'[h] = busy[h]
  BY <1>0, <1>1
<1>6. Stored(segs', slots')
  BY <1>4, Distinguished DEF Stored
<1>7. GivenAt(busy', segs', todo', g)
  BY <1>0, <1>4, <1>5 DEF GivenAt
<1>8. LatestAt(busy', segs', g)
  BY <1>4, <1>5 DEF LatestAt, Fits
<1>9. ASSUME NEW h \in Allocatable \ {g}
      PROVE  GivenAt(busy', segs', todo', h) /\ LatestAt(busy', segs', h)
  <2>1. busy'[h] = busy[h] /\ GivenAt(busy, sg, todo, h) /\ LatestAt(busy, sg, h)
    BY <1>5 DEF Booked
  <2>2. GivenAt(busy', segs', todo', h)
    <3>1. busy[h] \in Work \ todo => busy[h].item \in DOMAIN sg
      BY DEF SegsOK
    <3> QED
      BY <1>4, <2>1, <3>1 DEF GivenAt, Unused
  <2>3. LatestAt(busy', segs', h)
    <3>1. segs'[r.item].loc # InReg(h)
      BY <1>4, Distinguished
    <3> QED
      BY <1>4, <2>1, <3>1 DEF LatestAt
  <2> QED
    BY <2>2, <2>3
<1>10. Booked(busy', segs', todo', Allocatable)
  BY <1>7, <1>8, <1>9 DEF Booked
<1> QED
  BY <1>2, <1>4, <1>5, <1>6, <1>10, AllocatedNext

(* One range is placed.                                                       *)
LEMMA AllocateKeeps ==
  ASSUME Allocated, NEW r \in todo, Allocate(r)
  PROVE  Allocated'
<1>1. PICK src \in AtMostOne(SrcHints(r)), exit \in AtMostOne(ExitHints(r)) :
         /\ claimed' = claimed \cup exit
         /\ LET hinted == Offered(r, src, exit)
            IN  \/ GiveHinted(r, hinted)
                \/ hinted = {} /\ (GiveFree(r) \/ Evict(r) \/ SpillSelf(r))
  BY DEF Allocate
<1>2. UNCHANGED block /\ todo' = todo \ {r} /\ claimed' \subseteq Allocatable
  BY <1>1 DEF Allocate, Allocated, AtMostOne, ExitHints
<1>3. \A t \in todo : t.def \in Nat
  <2>1. \A t \in todo : t.def \in Pos
    BY WorkIs DEF Allocated
  <2> QED
    BY <2>1, BlockAssumption DEF Pos
<1>4. \A s \in todo : r.def <= s.def
  BY <1>3 DEF Allocate, Before
<1>5. /\ BlockOK /\ todo \in SUBSET Work /\ r \in Work /\ SegsOK(segs, todo) /\ Stored(segs, slots)
      /\ DOMAIN busy = Allocatable /\ Booked(busy, segs, todo, Allocatable)
  BY DEF Allocated
<1>6. ASSUME NEW g \in Offered(r, src, exit) \cup Free(r), Hold(r, g, segs), UNCHANGED slots
      PROVE  Allocated'
  <2>1. g \in Pool(r) /\ Fits(segs, r, InReg(g))
    BY <1>4, OfferedFits
  <2>2. Stored(segs, slots')
    BY <1>5, <1>6
  <2>3. Booked(busy, segs, todo, Allocatable \ {g})
    BY <1>5 DEF Booked
  <2> QED
    BY <1>2, <1>4, <1>5, <1>6, <2>1, <2>2, <2>3, HoldKeeps
<1>7. CASE GiveHinted(r, Offered(r, src, exit))
  <2>1. PICK g \in Offered(r, src, exit) : Hold(r, g, segs) /\ UNCHANGED slots
    <3>1. \A h \in Offered(r, src, exit) : h \in Nat
      BY <1>4, OfferedFits, AllocatableAssumption DEF Pool
    <3>2. FirstOf(Offered(r, src, exit)) \in Offered(r, src, exit)
      BY <1>7, <3>1, LeastNumber DEF GiveHinted, FirstOf
    <3> QED
      BY <1>7, <3>2 DEF GiveHinted
  <2> QED
    BY <1>6, <2>1
<1>8. CASE GiveFree(r)
  <2>1. Free(r) \in SUBSET Nat /\ Free(r) # {}
    BY <1>8, AllocatableAssumption DEF Free, Pool, GiveFree
  <2>2. FirstOf(Free(r)) \in Free(r)
    BY <2>1, LeastNumber DEF FirstOf
  <2> QED
    BY <1>6, <1>8, <2>2 DEF GiveFree
<1>9. CASE Evict(r)
  <2>1. PICK g \in Allocatable :
           /\ g \in Evictable(r) /\ TakeSlot(busy[g])
           /\ Hold(r, g, [segs EXCEPT ![busy[g].item].loc = InSlot(SlotFor(busy[g]))])
    BY <1>9 DEF Evict, IsVictim
  <2>2. PICK sg : sg = Moved(segs, busy[g].item, InSlot(SlotFor(busy[g])))
    OBVIOUS
  <2>3. Hold(r, g, sg)
    BY <2>1, <2>2 DEF Moved
  <2>4. /\ g \in Pool(r) /\ Fits(sg, r, InReg(g)) /\ SegsOK(sg, todo) /\ Stored(sg, slots')
        /\ Booked(busy, sg, todo, Allocatable \ {g})
    BY <1>4, <2>1, <2>2, EvictionFits
  <2> QED
    BY <1>2, <1>4, <2>3, <2>4, HoldKeeps
<1>10. CASE SpillSelf(r)
  <2>1. TakeSlot(r) /\ segs' = Pushed(r, InSlot(SlotFor(r)), segs) /\ busy' = busy
    BY <1>10 DEF SpillSelf
  <2>2. r.item \notin DOMAIN segs
    BY <1>5, NewItem
  <2>3. /\ DOMAIN segs' = DOMAIN segs \cup {r.item} /\ segs'[r.item] = Segment(r, InSlot(SlotFor(r)))
        /\ \A i \in DOMAIN segs : segs'[i] = segs[i]
    BY <2>1, <2>2 DEF Pushed
  <2>4. /\ Stored(segs', slots') /\ SlotFor(r) \in Nat \ {0}
        /\ \A i \in DOMAIN segs : segs[i].loc = InSlot(SlotFor(r)) => segs[i].end <= r.def
    <3>1. segs'[r.item].loc = InSlot(SlotFor(r)) /\ segs'[r.item].end = r.last
      BY <2>3 DEF Segment
    <3>2. \A i \in DOMAIN segs' :
            \/ i \in DOMAIN segs /\ segs'[i].loc = segs[i].loc /\ segs'[i].end = segs[i].end
            \/ segs'[i].loc = InSlot(SlotFor(r)) /\ segs'[i].end = r.last
      BY <2>3, <3>1
    <3> QED
      BY <1>5, <2>1, <3>2, StoredWith
  <2>5. SegsOK(segs', todo \ {r})
    <3>1. InSlot(SlotFor(r)) \in ScanPlace
      BY <2>4 DEF ScanPlace
    <3>2. Fits(segs, r, InSlot(SlotFor(r)))
      BY <2>4, Distinguished DEF Fits
    <3> QED
      BY <1>5, <2>1, <3>1, <3>2, PushKeeps
  <2>6. ASSUME NEW g \in Allocatable
        PROVE  GivenAt(busy', segs', todo', g) /\ LatestAt(busy', segs', g)
    <3>1. GivenAt(busy, segs, todo, g) /\ LatestAt(busy, segs, g)
      BY <1>5 DEF Booked
    <3>2. segs'[r.item].loc # InReg(g)
      BY <2>3, Distinguished DEF Segment
    <3>3. GivenAt(busy', segs', todo', g)
      <4>1. busy[g] \in Work \ todo => busy[g].item \in DOMAIN segs
        BY <1>5 DEF SegsOK
      <4> QED
        BY <1>2, <2>1, <2>3, <3>1, <4>1 DEF GivenAt, Unused
    <3>4. LatestAt(busy', segs', g)
      BY <2>1, <2>3, <3>1, <3>2 DEF LatestAt
    <3> QED
      BY <3>3, <3>4
  <2>7. Booked(busy', segs', todo', Allocatable)
    BY <2>6 DEF Booked
  <2>8. DOMAIN busy' = Allocatable /\ SegsOK(segs', todo')
    BY <1>2, <1>5, <2>1, <2>5
  <2> QED
    BY <1>2, <1>4, <2>4, <2>7, <2>8, AllocatedNext
<1> QED
  BY <1>1, <1>7, <1>8, <1>9, <1>10

-----------------------------------------------------------------------------
(* What an allocation promises *)

(* A segment is that of an entry value, in its own register, or of a range of *)
(* the work list, in a place that survives it.                                *)
LEMMA SegIs ==
  ASSUME Allocated, NEW i \in DOMAIN segs
  PROVE  /\ segs[i] \in [start : 0..N, end : 0..N+1, loc : ScanPlace] /\ i \in Item
         /\ \/ \E r \in Read : i = Entry(r) /\ segs[i] = Segment(EntryRange(r), InReg(r))
            \/ \E p \in Defined : /\ i = Val(p) /\ segs[i].start = p /\ segs[i].end = last[Val(p)]
                                  /\ \A g \in ValRange(p).avoid : segs[i].loc # InReg(g)
            \/ \E r \in SplitRegs : /\ i = Saved(r)
                                    /\ segs[i].start = Killer(r) /\ segs[i].end = last[Entry(r)]
                                    /\ \A g \in SavedRange(r).avoid : segs[i].loc # InReg(g)
<1>1. /\ DOMAIN segs = {Entry(s) : s \in Read} \cup {w.item : w \in Work \ todo}
      /\ segs[i] \in [start : 0..N, end : 0..N+1, loc : ScanPlace] /\ BlockOK
  BY DEF Allocated, SegsOK
<1>2. CASE \E r \in Read : i = Entry(r)
  <2>1. PICK r \in Read : i = Entry(r)
    BY <1>2
  <2>2. segs[i] = Segment(EntryRange(r), InReg(r))
    BY <2>1 DEF Allocated, SegsOK
  <2>3. i \in Item
    BY <1>1, <2>1, EntryIs
  <2> QED
    BY <1>1, <2>1, <2>2, <2>3
<1>3. CASE \E w \in Work \ todo : i = w.item
  <2>1. PICK w \in Work \ todo : i = w.item
    BY <1>3
  <2>2. /\ segs[i].start = w.def /\ segs[i].end = w.last
        /\ \A g \in w.avoid : segs[i].loc # InReg(g)
    BY <2>1 DEF Allocated, SegsOK
  <2>3. i \in Item
    BY <1>1, <2>1, WorkIs
  <2>4. CASE \E p \in Defined : w = ValRange(p)
    <3>1. PICK p \in Defined : w = ValRange(p)
      BY <2>4
    <3>2. w.item = Val(p) /\ w.def = p /\ w.last = last[Val(p)]
      BY <3>1 DEF ValRange, LiveRange
    <3> QED
      BY <1>1, <2>1, <2>2, <2>3, <3>1, <3>2
  <2>5. CASE \E r \in SplitRegs : w = SavedRange(r)
    <3>1. PICK r \in SplitRegs : w = SavedRange(r)
      BY <2>5
    <3>2. w.item = Saved(r) /\ w.def = Killer(r) /\ w.last = last[Entry(r)]
      BY <3>1 DEF SavedRange, LiveRange
    <3> QED
      BY <1>1, <2>1, <2>2, <2>3, <3>1, <3>2
  <2> QED
    BY <2>4, <2>5 DEF Work
<1> QED
  BY <1>1, <1>2, <1>3

(* No two items share a place while both are needed.                          *)
LEMMA NoneShared == Allocated => NoConflict
BY DEF Allocated, SegsOK, Apart, Follows, NoConflict, HandsOff

(* No item is in a register an instruction it outlives destroys.              *)
LEMMA NoneClobbered == Allocated => SurvivesClobbers
<1> SUFFICES ASSUME Allocated, NEW i \in DOMAIN segs, NEW p \in Pos,
                    Spans(segs[i].start, segs[i].end, p), NEW g \in Clobbers(p)
             PROVE  segs[i].loc # InReg(g)
  BY DEF SurvivesClobbers
<1>1. BlockOK
  BY DEF Allocated
<1>2. CASE \E r \in Read : i = Entry(r) /\ segs[i] = Segment(EntryRange(r), InReg(r))
  <2>1. PICK r \in Read : segs[i] = Segment(EntryRange(r), InReg(r))
    BY <1>2
  <2>2. EntryRange(r).def = 0
    BY DEF EntryRange, LiveRange
  <2>3. segs[i].start = 0 /\ segs[i].end = EntryRange(r).last /\ segs[i].loc = InReg(r)
    BY <2>1, <2>2 DEF Segment
  <2>4. r \notin Clobbers(p)
    BY <1>1, <2>3, EntryIs
  <2> QED
    BY <2>3, <2>4, Distinguished
<1>3. CASE \E q \in Defined : /\ i = Val(q) /\ segs[i].start = q /\ segs[i].end = last[Val(q)]
                              /\ \A h \in ValRange(q).avoid : segs[i].loc # InReg(h)
  BY <1>1, <1>3, ValIs
<1>4. CASE \E r \in SplitRegs : /\ i = Saved(r)
                                /\ segs[i].start = Killer(r) /\ segs[i].end = last[Entry(r)]
                                /\ \A h \in SavedRange(r).avoid : segs[i].loc # InReg(h)
  BY <1>1, <1>4, SavedIs
<1> QED
  BY <1>2, <1>3, <1>4, SegIs

(* Operands find their value in exactly one place.                            *)
LEMMA EachOnce ==
  ASSUME Allocated, todo = {}
  PROVE  /\ \A q \in Defined, p \in 0..N :
               q <= p /\ p < last[Val(q)] => Val(q) \in AliveAt(p)
         /\ \A r \in Read, p \in 0..N :
               p < last[Entry(r)] => (Entry(r) \in AliveAt(p) <=> Saved(r) \notin AliveAt(p))
<1>1. DOMAIN segs = {Entry(s) : s \in Read} \cup {w.item : w \in Work} /\ BlockOK
  BY DEF Allocated, SegsOK
<1>2. ASSUME NEW q \in Defined, NEW p \in 0..N, q <= p, p < last[Val(q)]
      PROVE  Val(q) \in AliveAt(p)
  <2>1. ValRange(q) \in Work /\ ValRange(q).item = Val(q)
    BY DEF Work, ValRange, LiveRange
  <2>2. segs[Val(q)].start = q /\ segs[Val(q)].end = last[Val(q)]
    <3>1. ValRange(q).def = q /\ ValRange(q).last = last[Val(q)]
      BY DEF ValRange, LiveRange
    <3> QED
      BY <2>1, <3>1 DEF Allocated, SegsOK
  <2> QED
    BY <1>1, <1>2, <2>1, <2>2 DEF AliveAt
<1>3. ASSUME NEW r \in Read, NEW p \in 0..N, p < last[Entry(r)]
      PROVE  Entry(r) \in AliveAt(p) <=> Saved(r) \notin AliveAt(p)
  <2>1. /\ Entry(r) \in DOMAIN segs /\ segs[Entry(r)].start = 0
        /\ segs[Entry(r)].end = EntryRange(r).last
    <3>1. segs[Entry(r)] = Segment(EntryRange(r), InReg(r))
      BY DEF Allocated, SegsOK
    <3>2. EntryRange(r).def = 0
      BY DEF EntryRange, LiveRange
    <3> QED
      BY <1>1, <3>1, <3>2 DEF Segment
  <2>2. Entry(r) \in AliveAt(p) <=> p < EntryRange(r).last
    BY <2>1, BlockAssumption DEF AliveAt
  <2>3. CASE r \in SplitRegs
    <3>1. /\ SavedRange(r) \in Work /\ SavedRange(r).item = Saved(r)
          /\ SavedRange(r).def = Killer(r) /\ SavedRange(r).last = last[Entry(r)]
      BY <2>3 DEF Work, SavedRange, LiveRange
    <3>2. /\ Saved(r) \in DOMAIN segs /\ segs[Saved(r)].start = Killer(r)
          /\ segs[Saved(r)].end = last[Entry(r)]
      BY <1>1, <3>1 DEF Allocated, SegsOK
    <3>3. EntryRange(r).last = Killer(r) /\ Killer(r) \in Pos
      BY <1>1, <2>3, EntryIs, SplitsFirst
    <3> QED
      BY <1>3, <2>2, <3>2, <3>3, BlockAssumption DEF AliveAt, Pos
  <2>4. CASE r \notin SplitRegs
    <3>1. Saved(r) \notin DOMAIN segs
      <4>1. \A s \in Read : Saved(r) # Entry(s)
        BY Distinguished
      <4>2. \A q \in Defined : Saved(r) # Val(q)
        BY Distinguished
      <4>3. \A s \in SplitRegs : Saved(r) # Saved(s)
        BY <2>4, Distinguished
      <4> QED
        BY <4>1, <4>2, <4>3, SegIs
    <3>2. EntryRange(r).last = last[Entry(r)]
      BY <1>1, <2>4, EntryIs
    <3> QED
      BY <1>3, <2>2, <3>1, <3>2 DEF AliveAt
  <2> QED
    BY <2>3, <2>4
<1> QED
  BY <1>2, <1>3

-----------------------------------------------------------------------------
(* The block, run with the allocation *)

(* Of two items both needed at a position, only one can be the value defined  *)
(* there; any others are in different places.                                 *)
LEMMA AliveApart ==
  ASSUME Allocated, NEW p \in 0..N, NEW i \in AliveAt(p), NEW j \in AliveAt(p),
         i # j, i # Val(p), j # Val(p)
  PROVE  segs[i].loc # segs[j].loc
<1>1. /\ i \in DOMAIN segs /\ j \in DOMAIN segs
      /\ segs[i].start <= p /\ p < segs[i].end /\ segs[j].start <= p /\ p < segs[j].end
  BY DEF AliveAt
<1>2. \A k \in DOMAIN segs : segs[k].start \in Nat /\ segs[k].end \in Nat
  <2>1. \A k \in DOMAIN segs : segs[k].start \in 0..N /\ segs[k].end \in 0..N+1
    BY SegIs
  <2> QED
    BY <2>1, BlockAssumption
<1>3. ASSUME NEW k \in DOMAIN segs, NEW l \in DOMAIN segs, Follows(segs, k, l),
             l # Val(p), segs[l].start <= p, p < segs[k].end
      PROVE  FALSE
  <2>1. ~ (segs[k].end <= segs[l].start)
    BY <1>2, <1>3
  <2>2. l[1] = "val" /\ segs[l].start = p
    BY <1>2, <1>3, <2>1 DEF Follows
  <2>3. PICK q \in Defined : l = Val(q) /\ segs[l].start = q
    BY <2>2, SegIs, Distinguished
  <2> QED
    BY <1>3, <2>2, <2>3
<1>4. ~ Follows(segs, i, j) /\ ~ Follows(segs, j, i)
  BY <1>1, <1>3
<1> QED
  BY <1>1, <1>4 DEF Allocated, SegsOK, Apart

\* While the block runs: what is still to be read is where its segment says, or
\* an entry value whose copy is about to be made, and that is in its register.
InItsPlace(i) == \/ regfile[segs[i].loc] = Belongs(i)
                 \/ \E r \in Uncopied : i = Saved(r)

Running == /\ todo = {} /\ DOMAIN regfile = Loc
           /\ \A i \in AliveAt(pos) \ {Val(pos)} : InItsPlace(i)
           /\ \A r \in Uncopied : regfile[InReg(r)] = Entry(r)

IInv == /\ Allocated
        /\ pos \in 0..N
        /\ copied \subseteq SplitRegs /\ \A r \in copied : Killer(r) <= pos
        /\ \A l \in DOMAIN regfile : regfile[l] \in Item \cup {Garbage}
        /\ \/ /\ stage = "scan" /\ pos = 0 /\ copied = {}
              /\ regfile = [l \in {InReg(g) : g \in Allocatable} |-> Entry(l[2])]
           \/ stage = "copy" /\ Running
           \/ stage = "exec" /\ Running /\ Uncopied = {}

(* Every segment is in a register or in a slot there is.                      *)
LEMMA SegsAreThere ==
  ASSUME Allocated, NEW i \in DOMAIN segs
  PROVE  segs[i].loc \in Loc
<1>1. segs[i].loc \in ScanPlace
  BY SegIs
<1>2. ASSUME NEW k \in Nat \ {0}, segs[i].loc = InSlot(k)
      PROVE  k \in 1..Len(slots)
  BY <1>2 DEF Allocated, Stored
<1> QED
  BY <1>1, <1>2 DEF ScanPlace, Register, Loc

(* A saved half that is to be copied is needed from here on.                  *)
LEMMA UncopiedIs ==
  ASSUME Allocated, todo = {}, pos \in 0..N, NEW r \in Uncopied
  PROVE  /\ r \in Allocatable /\ r \in SplitRegs /\ Killer(r) = pos /\ pos \in Pos
         /\ Saved(r) \in AliveAt(pos) /\ Saved(r) \in DOMAIN segs
         /\ \A s \in Uncopied : segs[Saved(r)].loc # InReg(s)
<1>1. r \in SplitRegs /\ Killer(r) = pos /\ BlockOK /\ r \notin copied
  BY DEF Uncopied, CopiesAt, Allocated
<1>2. /\ SavedRange(r) \in Work /\ SavedRange(r).item = Saved(r)
      /\ SavedRange(r).def = pos /\ SavedRange(r).last = last[Entry(r)]
  BY <1>1 DEF Work, SavedRange, LiveRange
<1>3. /\ Saved(r) \in DOMAIN segs /\ segs[Saved(r)].start = pos /\ segs[Saved(r)].end = last[Entry(r)]
      /\ \A g \in SavedRange(r).avoid : segs[Saved(r)].loc # InReg(g)
  BY <1>2 DEF Allocated, SegsOK
<1>4. r \in Allocatable /\ pos \in Pos /\ pos + 1 < last[Entry(r)] /\ last[Entry(r)] \in 1..N+1
  BY <1>1, SplitsFirst
<1>5. Saved(r) \in AliveAt(pos)
  BY <1>3, <1>4, BlockAssumption DEF AliveAt, Pos
<1>6. ASSUME NEW s \in Uncopied
      PROVE  segs[Saved(r)].loc # InReg(s)
  <2>1. s \in SplitRegs /\ Killer(s) = pos
    BY DEF Uncopied, CopiesAt
  <2>2. s \in Clobbers(pos)
    BY <1>1, <2>1, SplitsFirst
  <2>3. s \in SavedRange(r).avoid
    BY <1>1, <2>2, SavedIs
  <2> QED
    BY <1>3, <2>3
<1> QED
  BY <1>1, <1>3, <1>4, <1>5, <1>6

(* At the beginning everything is on the work list, and registers hold their  *)
(* entry values.                                                              *)
LEMMA Begins == ScanInit => IInv
<1> SUFFICES ASSUME ScanInit
             PROVE  IInv
  OBVIOUS
<1>1. BlockOK
  <2>1. kind \in [Pos -> Kind] /\ LastOK(last)
    BY DEF ScanInit
  <2>2. last \in [Item -> 0..N+1]
    <3>1. PICK vs \in [Pos -> 0..N+1], es \in [Allocatable -> EntryLast] :
             last = [i \in Item |-> IF i[1] = "val" THEN vs[i[2]]
                                    ELSE IF i[1] = "entry" THEN es[i[2]] ELSE 0]
      BY DEF ScanInit
    <3>2. \A p \in Pos : Val(p)[1] = "val" /\ Val(p)[2] = p
      BY Distinguished
    <3>3. \A r \in Allocatable : /\ Entry(r)[1] = "entry" /\ Entry(r)[2] = r
                                 /\ Saved(r)[1] = "saved"
      BY Distinguished
    <3>4. ASSUME NEW i \in Item
          PROVE  last[i] \in 0..N+1
      <4>1. CASE \E p \in Pos : i = Val(p)
        BY <3>1, <3>2, <4>1
      <4>2. CASE \E r \in Allocatable : i = Entry(r)
        <5>1. PICK r \in Allocatable : i = Entry(r)
          BY <4>2
        <5>2. i[1] = "entry" /\ i[2] = r
          BY <3>3, <5>1
        <5>3. last[i] = es[r]
          BY <3>1, <5>2
        <5> QED
          BY <5>3, BlockAssumption
      <4>3. CASE \E r \in Allocatable : i = Saved(r)
        BY <3>1, <3>3, <4>3, BlockAssumption
      <4> QED
        BY <4>1, <4>2, <4>3 DEF Item
    <3> QED
      BY <3>1, <3>4
  <2> QED
    BY <2>1, <2>2 DEF BlockOK
<1>2. todo = Work
  BY DEF ScanInit, Work
<1>3. segs = [i \in {Entry(r) : r \in Read} |-> Segment(EntryRange(i[2]), InReg(i[2]))]
  BY DEF ScanInit
<1>4. \A r \in Read : segs[Entry(r)] = Segment(EntryRange(r), InReg(r))
  BY <1>3, Distinguished
<1>5. ASSUME NEW r \in Read
      PROVE  segs[Entry(r)].loc = InReg(r)
  <2>1. segs[Entry(r)] = Segment(EntryRange(r), InReg(r))
    BY <1>4
  <2> QED
    BY <2>1 DEF Segment
<1>6. SegsOK(segs, todo)
  <2>1. {Entry(r) : r \in Read} \cup {w.item : w \in Work \ todo} = {Entry(r) : r \in Read}
    BY <1>2
  <2>2. ASSUME NEW r \in Read
        PROVE  segs[Entry(r)] \in [start : 0..N, end : 0..N+1, loc : ScanPlace]
    <3>1. EntryRange(r).def = 0 /\ EntryRange(r).last \in 0..N+1 /\ r \in Allocatable
      BY <1>1, EntryIs DEF LiveRange, EntryRange
    <3>2. InReg(r) \in ScanPlace
      BY <3>1 DEF ScanPlace, Register
    <3>3. Segment(EntryRange(r), InReg(r)) \in [start : 0..N, end : 0..N+1, loc : ScanPlace]
      BY <3>1, <3>2, BlockAssumption DEF Segment
    <3> QED
      BY <1>4, <3>3
  <2>3. segs \in [{Entry(r) : r \in Read} -> [start : 0..N, end : 0..N+1, loc : ScanPlace]]
    BY <1>3, <2>2
  <2>4. Apart(segs)
    <3>1. \A r, s \in Read : segs[Entry(r)].loc = segs[Entry(s)].loc => r = s
      BY <1>5, Distinguished
    <3> QED
      BY <1>3, <3>1 DEF Apart
  <2> QED
    BY <1>2, <1>4, <2>1, <2>3, <2>4 DEF SegsOK
<1>7. Stored(segs, slots)
  <2>1. slots = <<>>
    BY DEF ScanInit
  <2>2. ASSUME NEW i \in DOMAIN segs, NEW k \in Nat
        PROVE  segs[i].loc # InSlot(k)
    <3>1. PICK r \in Read : i = Entry(r)
      BY <1>3
    <3> QED
      BY <1>5, <3>1, Distinguished
  <2> QED
    BY <2>1, <2>2 DEF Stored
<1>8. busy = [g \in Allocatable |-> IF g \in Read THEN EntryRange(g) ELSE Unused(g)]
  BY DEF ScanInit
<1>9. ASSUME NEW g \in Allocatable
      PROVE  GivenAt(busy, segs, todo, g) /\ LatestAt(busy, segs, g)
  <2>1. GivenAt(busy, segs, todo, g)
    BY <1>8 DEF GivenAt
  <2>2. ASSUME NEW i \in DOMAIN segs, segs[i].loc = InReg(g)
        PROVE  i = busy[g].item
    <3>1. PICK r \in Read : i = Entry(r)
      BY <1>3
    <3>2. InReg(r) = InReg(g)
      BY <1>5, <2>2, <3>1
    <3>3. r = g
      BY <3>2, Distinguished
    <3>4. busy[g] = EntryRange(g)
      BY <1>8, <3>3
    <3> QED
      BY <3>1, <3>3, <3>4 DEF EntryRange, LiveRange
  <2> QED
    BY <2>1, <2>2 DEF LatestAt
<1>10. Allocated
  BY <1>1, <1>2, <1>6, <1>7, <1>8, <1>9 DEF Allocated, Booked, ScanInit
<1>11. /\ stage = "scan" /\ pos = 0 /\ copied = {}
       /\ regfile = [l \in {InReg(g) : g \in Allocatable} |-> Entry(l[2])]
  BY DEF ScanInit
<1>12. \A l \in DOMAIN regfile : regfile[l] \in Item
  BY <1>11, Distinguished DEF Item
<1> QED
  BY <1>10, <1>11, <1>12, BlockAssumption DEF IInv

(* While the block runs the allocation does not change.                       *)
LEMMA PlacingSame ==
  ASSUME Allocated, UNCHANGED <<block, placing>>
  PROVE  /\ Allocated'
         /\ \A i : Belongs(i)' = Belongs(i)
         /\ \A p : AliveAt(p)' = AliveAt(p) /\ CopiesAt(p)' = CopiesAt(p)
         /\ Loc' = Loc
<1>1. /\ Read' = Read /\ Work' = Work /\ BlockOK' /\ SplitRegs' = SplitRegs
      /\ \A s : EntryRange(s)' = EntryRange(s) /\ Killer(s)' = Killer(s)
  BY BlockSame DEF Allocated
<1>2. /\ todo' = todo /\ busy' = busy /\ segs' = segs /\ slots' = slots /\ claimed' = claimed
  BY DEF placing
<1>3. SegsOK(segs, todo)' /\ Stored(segs, slots)'
  BY <1>1, <1>2 DEF SegsOK, Stored, Allocated
<1>4. Booked(busy, segs, todo, Allocatable)'
  BY <1>1, <1>2 DEF Booked, GivenAt, LatestAt, Unused, Allocated
<1>5. Allocated'
  BY <1>1, <1>2, <1>3, <1>4 DEF Allocated
<1> QED
  BY <1>1, <1>2, <1>5 DEF Belongs, AliveAt, CopiesAt, Loc

(* The run starts: only entry values are there to be read.                    *)
LEMMA StartKeeps ==
  ASSUME IInv, StartRun
  PROVE  IInv'
<1>1. /\ stage = "scan" /\ todo = {} /\ stage' = "copy" /\ UNCHANGED <<block, placing, pos, copied>>
      /\ pos = 0 /\ copied = {} /\ Allocated
      /\ regfile = [l \in {InReg(g) : g \in Allocatable} |-> Entry(l[2])]
      /\ regfile' = [l \in DOMAIN regfile \cup {InSlot(i) : i \in 1..Len(slots)} |->
                        IF l \in DOMAIN regfile THEN regfile[l] ELSE Garbage]
  BY DEF IInv, StartRun
<1>2. /\ Allocated' /\ \A i : Belongs(i)' = Belongs(i)
      /\ \A p : AliveAt(p)' = AliveAt(p) /\ CopiesAt(p)' = CopiesAt(p)
      /\ Loc' = Loc
  BY <1>1, PlacingSame
<1>3. DOMAIN regfile' = Loc
  BY <1>1 DEF Loc
<1>4. \A g \in Allocatable : regfile'[InReg(g)] = Entry(g) /\ Entry(g) \in Item
  BY <1>1, Distinguished DEF Item
<1>5. ASSUME NEW i \in AliveAt(0) \ {Val(0)}
      PROVE  regfile'[segs[i].loc] = Belongs(i) \/ \E r \in Uncopied : i = Saved(r)
  <2>1. i \in DOMAIN segs /\ segs[i].start <= 0
    BY DEF AliveAt
  <2>2. CASE \E r \in Read : i = Entry(r) /\ segs[i] = Segment(EntryRange(r), InReg(r))
    <3>1. PICK r \in Read : i = Entry(r) /\ segs[i].loc = InReg(r)
      BY <2>2 DEF Segment
    <3>2. Belongs(i) = Entry(r) /\ r \in Allocatable
      BY <3>1, Distinguished DEF Belongs, Read
    <3> QED
      BY <1>4, <3>1, <3>2
  <2>3. CASE \E p \in Defined : i = Val(p) /\ segs[i].start = p
    <3>1. PICK p \in Defined : i = Val(p) /\ segs[i].start = p
      BY <2>3
    <3>2. p = 0
      BY <2>1, <3>1, BlockAssumption DEF Defined, Pos
    <3> QED
      BY <3>1, <3>2
  <2>4. CASE \E r \in SplitRegs : i = Saved(r) /\ segs[i].start = Killer(r)
    <3>1. PICK r \in SplitRegs : i = Saved(r) /\ segs[i].start = Killer(r)
      BY <2>4
    <3>2. Killer(r) \in Pos
      BY <1>1, SplitsFirst DEF Allocated
    <3>3. Killer(r) = 0
      BY <2>1, <3>1, <3>2, BlockAssumption DEF Pos
    <3> QED
      BY <1>1, <3>1, <3>3 DEF Uncopied, CopiesAt
  <2>5. \/ \E r \in Read : i = Entry(r) /\ segs[i] = Segment(EntryRange(r), InReg(r))
        \/ \E p \in Defined : i = Val(p) /\ segs[i].start = p
        \/ \E r \in SplitRegs : i = Saved(r) /\ segs[i].start = Killer(r)
    <3>1. Allocated
      BY <1>1
    <3> QED
      BY <2>1, <3>1, SegIs
  <2> QED
    BY <2>2, <2>3, <2>4, <2>5
<1>6. Uncopied' = Uncopied /\ \A r \in Uncopied : r \in Allocatable
  <2>1. Uncopied' = Uncopied
    BY <1>1, <1>2 DEF Uncopied
  <2>2. \A r \in Uncopied : r \in Allocatable
    BY DEF Uncopied, CopiesAt, SplitRegs, Read
  <2> QED
    BY <2>1, <2>2
<1>7. Running'
  <2>1. AliveAt(pos)' = AliveAt(0) /\ Val(pos)' = Val(0)
    BY <1>1, <1>2 DEF AliveAt, Val, placing
  <2>2. \A i \in AliveAt(0) \ {Val(0)} : InItsPlace(i)'
    BY <1>1, <1>2, <1>5, <1>6 DEF InItsPlace, placing
  <2>3. \A r \in Uncopied' : regfile'[InReg(r)] = Entry(r)
    BY <1>4, <1>6
  <2>4. todo' = {} /\ (DOMAIN regfile)' = Loc'
    BY <1>1, <1>2, <1>3 DEF placing
  <2> QED
    BY <2>1, <2>2, <2>3, <2>4 DEF Running
<1>8. \A l \in DOMAIN regfile' : regfile'[l] \in Item \cup {Garbage}
  BY <1>1 DEF IInv
<1>9. copied' \subseteq SplitRegs' /\ pos' \in 0..N /\ \A r \in copied' : Killer(r)' <= pos'
  BY <1>1, BlockAssumption
<1> QED
  BY <1>1, <1>2, <1>7, <1>8, <1>9 DEF IInv

(* A split copy fills the place of a saved half, which nothing else is in.    *)
LEMMA CopyKeeps ==
  ASSUME IInv, NEW r \in Allocatable, SplitCopy(r)
  PROVE  IInv'
<1>1. /\ stage = "copy" /\ r \in Uncopied /\ copied' = copied \cup {r}
      /\ regfile' = [regfile EXCEPT ![segs[Saved(r)].loc] = regfile[InReg(r)]]
      /\ UNCHANGED <<block, placing, stage, pos>>
      /\ Allocated /\ Running /\ pos \in 0..N /\ todo = {} /\ DOMAIN regfile = Loc
  BY DEF IInv, SplitCopy, Running
<1>2. /\ Allocated' /\ \A i : Belongs(i)' = Belongs(i)
      /\ \A p : AliveAt(p)' = AliveAt(p) /\ CopiesAt(p)' = CopiesAt(p)
      /\ Loc' = Loc
  BY <1>1, PlacingSame
<1>3. SplitRegs' = SplitRegs /\ \A s : Killer(s)' = Killer(s)
  BY <1>1, BlockSame
<1>4. /\ r \in SplitRegs /\ Killer(r) = pos /\ pos \in Pos
      /\ Saved(r) \in AliveAt(pos) /\ Saved(r) \in DOMAIN segs
      /\ \A s \in Uncopied : segs[Saved(r)].loc # InReg(s)
  BY <1>1, UncopiedIs
<1> DEFINE to == segs[Saved(r)].loc
<1>5. to \in Loc /\ InReg(r) \in Loc
  BY <1>1, <1>4, SegsAreThere DEF Loc
<1>6. /\ DOMAIN regfile' = Loc /\ regfile'[to] = Entry(r)
      /\ \A l \in Loc : l # to => regfile'[l] = regfile[l]
  <2>1. regfile[InReg(r)] = Entry(r)
    BY <1>1 DEF Running
  <2> QED
    BY <1>1, <1>5, <2>1
<1>7. Uncopied' = Uncopied \ {r}
  BY <1>1, <1>2 DEF Uncopied, CopiesAt
<1>8. segs' = segs /\ pos' = pos /\ todo' = todo
  BY <1>1 DEF placing
<1> HIDE DEF to
<1>9. ASSUME NEW i \in AliveAt(pos) \ {Val(pos)}
      PROVE  regfile'[segs[i].loc] = Belongs(i) \/ \E s \in Uncopied \ {r} : i = Saved(s)
  <2>1. CASE i = Saved(r)
    BY <1>6, <2>1, Distinguished DEF Belongs, to
  <2>2. CASE i # Saved(r)
    <3>1. i \in DOMAIN segs /\ segs[i].loc \in Loc
      BY <1>1, SegsAreThere DEF AliveAt
    <3>2. segs[i].loc # to
      <4>1. Saved(r) # Val(pos)
        BY Distinguished
      <4> QED
        BY <1>1, <1>4, <2>2, <4>1, AliveApart DEF to
    <3>3. regfile'[segs[i].loc] = regfile[segs[i].loc]
      BY <1>6, <3>1, <3>2
    <3>4. InItsPlace(i)
      BY <1>1 DEF Running
    <3> QED
      BY <2>2, <3>3, <3>4 DEF InItsPlace
  <2> QED
    BY <2>1, <2>2
<1>10. ASSUME NEW s \in Uncopied \ {r}
       PROVE  regfile'[InReg(s)] = Entry(s)
  <2>1. s \in Allocatable /\ InReg(s) # to
    BY <1>1, <1>4, UncopiedIs DEF to
  <2>2. InReg(s) \in Loc
    BY <2>1 DEF Loc
  <2>3. regfile[InReg(s)] = Entry(s)
    BY <1>1 DEF Running
  <2> QED
    BY <1>6, <2>1, <2>2, <2>3
<1>11. Running'
  <2>1. AliveAt(pos)' = AliveAt(pos) /\ Val(pos)' = Val(pos)
    BY <1>2, <1>8 DEF AliveAt, Val
  <2>2. \A i \in AliveAt(pos) \ {Val(pos)} : InItsPlace(i)'
    BY <1>2, <1>7, <1>8, <1>9 DEF InItsPlace
  <2>3. \A s \in Uncopied' : regfile'[InReg(s)] = Entry(s)
    BY <1>7, <1>10
  <2>4. todo' = {} /\ (DOMAIN regfile)' = Loc'
    BY <1>1, <1>2, <1>6, <1>8
  <2> QED
    BY <2>1, <2>2, <2>3, <2>4 DEF Running
<1>12. \A l \in DOMAIN regfile' : regfile'[l] \in Item \cup {Garbage}
  <2>1. Entry(r) \in Item
    BY DEF Item
  <2> QED
    BY <1>1, <1>6, <2>1 DEF IInv
<1>13. copied' \subseteq SplitRegs' /\ \A s \in copied' : Killer(s)' <= pos'
  BY <1>1, <1>3, <1>4, <1>8, BlockAssumption DEF IInv, Pos
<1> QED
  BY <1>1, <1>2, <1>8, <1>11, <1>12, <1>13 DEF IInv

(* The copies of a position are made.                                         *)
LEMMA CopiedKeeps ==
  ASSUME IInv, Copied
  PROVE  IInv'
<1>1. /\ stage = "copy" /\ Uncopied = {} /\ stage' = "exec"
      /\ UNCHANGED <<block, placing, pos, copied, regfile>> /\ Allocated /\ Running
  BY DEF IInv, Copied
<1>2. /\ Allocated' /\ \A i : Belongs(i)' = Belongs(i)
      /\ \A p : AliveAt(p)' = AliveAt(p) /\ CopiesAt(p)' = CopiesAt(p)
      /\ Loc' = Loc
  BY <1>1, PlacingSame
<1>3. SplitRegs' = SplitRegs /\ \A s : Killer(s)' = Killer(s)
  BY <1>1, BlockSame
<1>4. Uncopied' = Uncopied
  BY <1>1, <1>2 DEF Uncopied, CopiesAt
<1>5. segs' = segs /\ pos' = pos /\ todo' = todo /\ regfile' = regfile /\ copied' = copied
  BY <1>1 DEF placing
<1>6. Running'
  <2>1. AliveAt(pos)' = AliveAt(pos) /\ Val(pos)' = Val(pos)
    BY <1>2, <1>5 DEF AliveAt, Val
  <2>2. \A i \in AliveAt(pos) \ {Val(pos)} : InItsPlace(i)'
    BY <1>1, <1>2, <1>4, <1>5 DEF InItsPlace, Running
  <2> QED
    BY <1>1, <1>2, <1>4, <1>5, <2>1, <2>2 DEF Running
<1>7. \A l \in DOMAIN regfile' : regfile'[l] \in Item \cup {Garbage}
  BY <1>5 DEF IInv
<1>8. copied' \subseteq SplitRegs' /\ \A s \in copied' : Killer(s)' <= pos'
  BY <1>3, <1>5 DEF IInv
<1> QED
  BY <1>1, <1>2, <1>4, <1>5, <1>6, <1>7, <1>8 DEF IInv

(* An instruction destroys nothing that outlives it, and what it defines      *)
(* takes a place nothing else needs.                                          *)
LEMMA ExecuteKeeps ==
  ASSUME IInv, Execute
  PROVE  IInv'
<1>1. /\ stage = "exec" /\ pos < N /\ pos' = pos + 1 /\ stage' = "copy"
      /\ UNCHANGED <<block, placing, copied>>
      /\ regfile' = [l \in DOMAIN regfile |->
            IF kind[pos].op = "def" /\ segs[Val(pos)].loc = l THEN Val(pos)
            ELSE IF l \in {InReg(g) : g \in Clobbers(pos)} THEN Garbage
            ELSE regfile[l]]
      /\ Allocated /\ Running /\ Uncopied = {} /\ pos \in 0..N /\ todo = {} /\ DOMAIN regfile = Loc
  BY DEF IInv, Execute, Running
<1>2. /\ Allocated' /\ \A i : Belongs(i)' = Belongs(i)
      /\ \A p : AliveAt(p)' = AliveAt(p) /\ CopiesAt(p)' = CopiesAt(p)
      /\ Loc' = Loc
  BY <1>1, PlacingSame
<1>3. SplitRegs' = SplitRegs /\ \A s : Killer(s)' = Killer(s)
  BY <1>1, BlockSame
<1>4. pos \in Pos /\ pos \in Nat /\ pos + 1 \in 0..N /\ BlockOK
  BY <1>1, BlockAssumption DEF Pos, Allocated
<1>5. segs' = segs /\ todo' = todo /\ copied' = copied
  BY <1>1 DEF placing
<1>6. \A s \in copied : s \in SplitRegs /\ Killer(s) <= pos
  BY DEF IInv
<1>7. \A s \in SplitRegs : Killer(s) = pos + 1 => s \notin copied
  BY <1>4, <1>6
<1>8. Uncopied' = {s \in SplitRegs : Killer(s) = pos + 1}
  <2>1. CopiesAt(pos)' = {s \in SplitRegs : Killer(s) = pos + 1}
    BY <1>1, <1>3 DEF CopiesAt
  <2> QED
    BY <1>5, <1>7, <2>1 DEF Uncopied
<1>9. DOMAIN regfile' = Loc
  BY <1>1
<1>10. ASSUME NEW i \in DOMAIN segs, i # Val(pos), segs[i].start <= pos, pos < segs[i].end,
              segs[i].loc \notin {InReg(g) : g \in Clobbers(pos)},
              i[1] = "val" => pos + 1 < segs[i].end
       PROVE  regfile'[segs[i].loc] = Belongs(i)
  <2>1. segs[i].loc \in Loc
    BY <1>1, SegsAreThere
  <2>2. regfile[segs[i].loc] = Belongs(i)
    <3>1. i \in AliveAt(pos) \ {Val(pos)}
      BY <1>10 DEF AliveAt
    <3> QED
      BY <1>1, <3>1 DEF Running, InItsPlace
  <2>3. kind[pos].op = "def" => segs[Val(pos)].loc # segs[i].loc
    <3>1. ASSUME kind[pos].op = "def", segs[Val(pos)].loc = segs[i].loc
          PROVE  FALSE
      <4>1. pos \in Defined /\ ValRange(pos) \in Work /\ ValRange(pos).item = Val(pos)
        BY <1>4, <3>1 DEF Defined, Work, ValRange, LiveRange
      <4>2. /\ Val(pos) \in DOMAIN segs /\ segs[Val(pos)].start = pos
            /\ segs[Val(pos)].end = last[Val(pos)] /\ last[Val(pos)] \in pos+1..N+1
        <5>1. ValRange(pos).def = pos /\ ValRange(pos).last = last[Val(pos)]
          BY DEF ValRange, LiveRange
        <5> QED
          BY <1>1, <1>4, <4>1, <5>1, ValIs DEF Allocated, SegsOK
      <4>3. segs[i].start \in Nat /\ segs[i].end \in Nat
        <5>1. segs[i].start \in 0..N /\ segs[i].end \in 0..N+1
          BY <1>1, SegIs
        <5> QED
          BY <5>1, BlockAssumption
      <4>4. Follows(segs, i, Val(pos)) \/ Follows(segs, Val(pos), i)
        BY <1>1, <1>10, <3>1, <4>2 DEF Allocated, SegsOK, Apart
      <4>5. ~ Follows(segs, i, Val(pos))
        BY <1>4, <1>10, <4>2, <4>3 DEF Follows
      <4>6. i[1] = "val" /\ segs[i].start = pos
        BY <1>4, <1>10, <4>2, <4>3, <4>4, <4>5, BlockAssumption DEF Follows
      <4>7. PICK q \in Defined : i = Val(q) /\ segs[i].start = q
        BY <1>1, <4>6, SegIs, Distinguished
      <4> QED
        BY <1>10, <4>6, <4>7
    <3> QED
      BY <3>1
  <2> QED
    BY <1>1, <1>10, <2>1, <2>2, <2>3
<1>11. ASSUME NEW s \in Uncopied'
       PROVE  regfile'[InReg(s)] = Entry(s)
  <2>1. s \in SplitRegs /\ Killer(s) = pos + 1
    BY <1>8
  <2>2. s \in Read /\ s \in Allocatable /\ s \notin Clobbers(pos)
    BY <1>4, <2>1, SplitsFirst
  <2>3. EntryRange(s).last = pos + 1 /\ EntryRange(s).def = 0
    BY <1>4, <2>1, <2>2, EntryIs DEF LiveRange, EntryRange
  <2>4. segs[Entry(s)] = Segment(EntryRange(s), InReg(s)) /\ Entry(s) \in DOMAIN segs
    BY <1>1, <2>2 DEF Allocated, SegsOK
  <2>5. segs[Entry(s)].start = 0 /\ segs[Entry(s)].end = pos + 1 /\ segs[Entry(s)].loc = InReg(s)
    BY <2>3, <2>4 DEF Segment
  <2>6. Entry(s) # Val(pos) /\ Entry(s)[1] # "val" /\ Belongs(Entry(s)) = Entry(s)
    BY Distinguished DEF Belongs
  <2>7. InReg(s) \notin {InReg(g) : g \in Clobbers(pos)}
    BY <2>2, Distinguished
  <2> QED
    BY <1>4, <1>10, <2>4, <2>5, <2>6, <2>7
<1>12. ASSUME NEW i \in AliveAt(pos + 1) \ {Val(pos + 1)}
       PROVE  regfile'[segs[i].loc] = Belongs(i) \/ \E s \in Uncopied' : i = Saved(s)
  <2>1. /\ i \in DOMAIN segs /\ segs[i].start <= pos + 1 /\ pos + 1 < segs[i].end
        /\ segs[i].start \in Nat /\ segs[i].end \in Nat
    <3>1. i \in DOMAIN segs /\ segs[i].start <= pos + 1 /\ pos + 1 < segs[i].end
      BY DEF AliveAt
    <3>2. segs[i].start \in 0..N /\ segs[i].end \in 0..N+1
      BY <1>1, <3>1, SegIs
    <3> QED
      BY <3>1, <3>2, BlockAssumption
  <2>2. CASE segs[i].start <= pos /\ i # Val(pos)
    <3>1. segs[i].loc \notin {InReg(g) : g \in Clobbers(pos)}
      BY <1>1, <1>4, <2>1, <2>2, NoneClobbered DEF SurvivesClobbers, Spans
    <3> QED
      BY <1>4, <1>10, <2>1, <2>2, <3>1
  <2>3. CASE i = Val(pos)
    <3>1. kind[pos].op = "def"
      <4>1. PICK q \in Defined : i = Val(q)
        BY <1>1, <2>1, <2>3, SegIs, Distinguished
      <4>2. Val(q) = Val(pos)
        BY <2>3, <4>1
      <4>3. q = pos
        BY <4>2, Distinguished
      <4> QED
        BY <4>1, <4>3 DEF Defined
    <3>2. segs[i].loc \in Loc
      BY <1>1, <2>1, SegsAreThere
    <3>3. Belongs(i) = Val(pos)
      BY <2>3, Distinguished DEF Belongs
    <3> QED
      BY <1>1, <2>3, <3>1, <3>2, <3>3
  <2>4. CASE ~ (segs[i].start <= pos)
    <3>1. segs[i].start = pos + 1
      BY <1>4, <2>1, <2>4
    <3>2. CASE \E r \in Read : i = Entry(r) /\ segs[i] = Segment(EntryRange(r), InReg(r))
      <4>1. PICK r \in Read : segs[i] = Segment(EntryRange(r), InReg(r))
        BY <3>2
      <4>2. segs[i].start = 0
        BY <4>1 DEF Segment, EntryRange, LiveRange
      <4> QED
        BY <1>4, <3>1, <4>2
    <3>3. CASE \E q \in Defined : i = Val(q) /\ segs[i].start = q
      BY <3>1, <3>3
    <3>4. CASE \E r \in SplitRegs : i = Saved(r) /\ segs[i].start = Killer(r)
      BY <1>8, <3>1, <3>4
    <3> QED
      BY <1>1, <2>1, <3>2, <3>3, <3>4, SegIs
  <2> QED
    BY <2>2, <2>3, <2>4
<1>13. Running'
  <2>1. AliveAt(pos)' = AliveAt(pos + 1) /\ Val(pos)' = Val(pos + 1)
    BY <1>1, <1>2, <1>5 DEF AliveAt, Val
  <2>2. \A i \in AliveAt(pos + 1) \ {Val(pos + 1)} : InItsPlace(i)'
    BY <1>2, <1>5, <1>12 DEF InItsPlace
  <2>3. todo' = {} /\ (DOMAIN regfile)' = Loc'
    BY <1>1, <1>2, <1>5, <1>9
  <2> QED
    BY <1>11, <2>1, <2>2, <2>3 DEF Running
<1>14. \A l \in DOMAIN regfile' : regfile'[l] \in Item \cup {Garbage}
  <2>1. Val(pos) \in Item
    BY <1>4 DEF Item
  <2> QED
    BY <1>1, <2>1 DEF IInv
<1>15. copied' \subseteq SplitRegs' /\ \A s \in copied' : Killer(s)' <= pos'
  <2>1. \A s \in SplitRegs : Killer(s) \in Nat
    <3>1. \A s \in SplitRegs : Killer(s) \in Pos
      BY <1>4, SplitsFirst
    <3> QED
      BY <3>1, BlockAssumption DEF Pos
  <2> QED
    BY <1>1, <1>3, <1>4, <1>5, <1>6, <2>1
<1> QED
  BY <1>1, <1>2, <1>4, <1>13, <1>14, <1>15 DEF IInv


(* Placing one range leaves the run not yet begun.                            *)
LEMMA PlacesOne ==
  ASSUME IInv, NEW r \in todo, Allocate(r)
  PROVE  IInv'
<1>1. stage = "scan" /\ UNCHANGED <<block, stage, pos, copied, regfile>> /\ Allocated
  BY DEF Allocate, IInv
<1>2. Allocated'
  BY <1>1, AllocateKeeps
<1>3. SplitRegs' = SplitRegs /\ \A s : Killer(s)' = Killer(s)
  BY <1>1, BlockSame
<1>4. pos' = pos /\ stage' = stage /\ copied' = copied /\ regfile' = regfile
  BY <1>1
<1>5. copied' \subseteq SplitRegs' /\ \A s \in copied' : Killer(s)' <= pos'
  BY <1>3, <1>4 DEF IInv
<1> QED
  BY <1>1, <1>2, <1>4, <1>5 DEF IInv

(* At the end of the block nothing changes any more.                          *)
LEMMA StaysPut ==
  ASSUME IInv, UNCHANGED scanVars
  PROVE  IInv'
<1>1. UNCHANGED <<block, placing>> /\ UNCHANGED <<stage, pos, copied, regfile>> /\ Allocated
  BY DEF scanVars, IInv
<1>2. /\ Allocated' /\ \A i : Belongs(i)' = Belongs(i)
      /\ \A p : AliveAt(p)' = AliveAt(p) /\ CopiesAt(p)' = CopiesAt(p)
      /\ Loc' = Loc
  BY <1>1, PlacingSame
<1>3. SplitRegs' = SplitRegs /\ \A s : Killer(s)' = Killer(s)
  BY <1>1, BlockSame
<1>4. /\ segs' = segs /\ todo' = todo
      /\ stage' = stage /\ pos' = pos /\ regfile' = regfile /\ copied' = copied
  BY <1>1 DEF placing
<1>5. Uncopied' = Uncopied
  BY <1>2, <1>4 DEF Uncopied, CopiesAt
<1>6. ASSUME Running
      PROVE  Running'
  <2>1. AliveAt(pos)' = AliveAt(pos) /\ Val(pos)' = Val(pos)
    BY <1>2, <1>4 DEF AliveAt, Val
  <2>2. \A i \in AliveAt(pos) \ {Val(pos)} : InItsPlace(i)'
    BY <1>2, <1>4, <1>5, <1>6 DEF InItsPlace, Running
  <2> QED
    BY <1>2, <1>4, <1>5, <1>6, <2>1, <2>2 DEF Running
<1>7. copied' \subseteq SplitRegs' /\ \A s \in copied' : Killer(s)' <= pos'
  BY <1>3, <1>4 DEF IInv
<1> QED
  BY <1>2, <1>4, <1>5, <1>6, <1>7 DEF IInv

-----------------------------------------------------------------------------
(* The theorems *)

(* What `allocate` and the block run with its result keep true.  The          *)
(* properties below are not inductive: that a range fits a register rests on  *)
(* the books the scan keeps, and that a value is where it is said to be on    *)
(* which split copies have been made.                                         *)
THEOREM ScanInvariant == ScanSpec => []IInv
<1>1. ASSUME IInv, [ScanNext]_scanVars
      PROVE  IInv'
  <2>1. CASE \E r \in todo : Allocate(r)
    BY <1>1, <2>1, PlacesOne
  <2>2. CASE StartRun
    BY <1>1, <2>2, StartKeeps
  <2>3. CASE \E r \in Allocatable : SplitCopy(r)
    BY <1>1, <2>3, CopyKeeps
  <2>4. CASE Copied
    BY <1>1, <2>4, CopiedKeeps
  <2>5. CASE Execute
    BY <1>1, <2>5, ExecuteKeeps
  <2>6. CASE UNCHANGED scanVars
    BY <1>1, <2>6, StaysPut
  <2>7. CASE BlockEnd
    BY <1>1, <2>7, StaysPut DEF BlockEnd
  <2> QED
    BY <1>1, <2>1, <2>2, <2>3, <2>4, <2>5, <2>6, <2>7 DEF ScanNext
<1> QED
  BY Begins, <1>1, PTL DEF ScanSpec

(* Everything the allocator and the run hold is of its kind: segments lie in  *)
(* the block and in a register or slot there is.                              *)
THEOREM ScanTypes == ScanSpec => []ScanTypeOK
<1>1. ASSUME IInv
      PROVE  ScanTypeOK
  <2>1. Allocated /\ BlockOK /\ claimed \subseteq Allocatable /\ Stored(segs, slots)
    BY <1>1 DEF IInv, Allocated
  <2>2. \A i \in DOMAIN segs : i \in Item /\ segs[i].loc \in Loc
    BY <2>1, SegIs, SegsAreThere
  <2>3. ASSUME NEW i \in DOMAIN segs
        PROVE  segs[i].start \in 0..N /\ segs[i].end \in 0..N+1
    <3>1. segs[i] \in [start : 0..N, end : 0..N+1, loc : ScanPlace]
      BY <2>1, SegIs
    <3> QED
      BY <3>1
  <2>4. slots \in Seq(1..N+1)
    BY <2>1 DEF Stored
  <2>5. /\ stage \in {"scan", "copy", "exec"} /\ pos \in 0..N /\ copied \subseteq SplitRegs
        /\ \A l \in DOMAIN regfile : regfile[l] \in Item \cup {Garbage}
    BY <1>1 DEF IInv
  <2> QED
    BY <2>1, <2>2, <2>3, <2>4, <2>5 DEF ScanTypeOK, BlockOK
<1> QED
  BY <1>1, ScanInvariant, PTL

(* The allocation is consistent, after the scan as well as half way through   *)
(* it: no two items share a register or a slot while both are needed, except  *)
(* an operand and the value its last reader defines, and none is in a         *)
(* register an instruction it outlives destroys.                              *)
THEOREM AllocationIsConsistent == ScanSpec => []AllocationConsistent
<1>1. ASSUME IInv
      PROVE  AllocationConsistent
  BY <1>1, NoneShared, NoneClobbered DEF AllocationConsistent, IInv
<1> QED
  BY <1>1, ScanInvariant, PTL

(* Run with its allocation, a block of any length finds every value that is   *)
(* still to be read in exactly one place, and there.                          *)
THEOREM LiveValuesStay == ScanSpec => []LiveValuesInPlace
<1>1. ASSUME IInv
      PROVE  LiveValuesInPlace
  <2>1. InPlace
    <3> SUFFICES ASSUME stage = "exec", NEW i \in AliveAt(pos) \ {Val(pos)}
                 PROVE  regfile[segs[i].loc] = Belongs(i)
      BY DEF InPlace
    <3>1. Running /\ Uncopied = {}
      BY <1>1 DEF IInv
    <3> QED
      BY <3>1 DEF Running, InItsPlace
  <2>2. Covered
    <3> SUFFICES ASSUME stage \in {"copy", "exec"}
                 PROVE  /\ \A q \in Defined, p \in 0..N :
                              q <= p /\ p < last[Val(q)] => Val(q) \in AliveAt(p)
                        /\ \A r \in Read, p \in 0..N :
                              p < last[Entry(r)] =>
                                (Entry(r) \in AliveAt(p) <=> Saved(r) \notin AliveAt(p))
      BY DEF Covered
    <3>1. Allocated /\ todo = {}
      BY <1>1 DEF IInv, Running
    <3> QED
      BY <3>1, EachOnce
  <2> QED
    BY <2>1, <2>2 DEF LiveValuesInPlace
<1> QED
  BY <1>1, ScanInvariant, PTL

-----------------------------------------------------------------------------
(* The copy loop *)

(* Copies of which every destination is read by another are a permutation.    *)
LEMMA Pigeonhole ==
  ASSUME NEW D, IsFiniteSet(D), NEW f,
         \A d \in D : \E e \in D : f[e] = d
  PROVE  /\ \A e \in D : f[e] \in D
         /\ \A e1, e2 \in D : f[e1] = f[e2] => e1 = e2
<1> DEFINE g == [d \in D |-> CHOOSE e \in D : f[e] = d]
<1>1. \A d \in D : g[d] \in D /\ f[g[d]] = d
  OBVIOUS
<1>2. g \in Injection(D, D)
  BY <1>1 DEF Injection, IsInjective
<1>3. g \in Surjection(D, D)
  BY <1>2, FS_Injection
<1>4. \A e \in D : \E d \in D : g[d] = e
  BY <1>3 DEF Surjection
<1> HIDE DEF g
<1>5. \A e \in D : f[e] \in D /\ g[f[e]] = e
  BY <1>1, <1>4
<1> QED
  BY <1>5

(* "Every remaining destination is also a source: a cycle."                   *)
LEMMA Cycles == StuckIsCycle
<1> SUFFICES ASSUME Ready = {}
             PROVE  /\ \A d \in Todo : pending[d] \in Todo
                    /\ \A d, e \in Todo : pending[d] = pending[e] => d = e
  BY DEF StuckIsCycle
<1>1. \A d \in Todo : \E e \in Todo : pending[e] = d
  BY DEF Ready
<1>2. IsFiniteSet(Todo)
  BY RegAssumption, FS_Subset DEF Todo
<1> HIDE DEF Todo
<1> QED
  BY <1>1, <1>2, Pigeonhole

(* One copy or exchange: every copy still to make will read what it would     *)
(* have read, every copy that is no longer there has been made, and nothing   *)
(* but destinations changes.                                                  *)
LEMMA CopyStepKeeps ==
  ASSUME NEW C, pending \in [Reg -> Reg \cup {None}], machine \in [Place -> C],
         NEW drop, CopyStep(drop)
  PROVE  /\ pending' \in [Reg -> Reg \cup {None}] /\ machine' \in [Place -> C]
         /\ Todo' \subseteq Todo
         /\ \A d \in Todo' : machine'[pending'[d]] = machine[pending[d]]
         /\ \A d \in Todo \ Todo' : machine'[d] = machine[pending[d]]
         /\ \A p \in Place \ Todo : machine'[p] = machine[p]
<1>0. Reg \subseteq Place /\ Todo \subseteq Reg /\ \A d \in Todo : pending[d] \in Reg
  BY DEF Place, Todo
<1>1. PICK d \in Reg : Mov(d) \/ Xchg(d, drop)
  BY DEF CopyStep
<1>2. CASE Mov(d)
  <2>1. /\ d \in Todo /\ \A e \in Todo : pending[e] # d
        /\ pending' = [pending EXCEPT ![d] = None]
        /\ machine' = [machine EXCEPT ![d] = machine[pending[d]]]
    BY <1>2 DEF Mov, Ready
  <2>2. Todo' = Todo \ {d}
    BY <2>1 DEF Todo
  <2>3. /\ pending' \in [Reg -> Reg \cup {None}]
        /\ \A e \in Todo' : pending'[e] = pending[e]
    BY <1>0, <2>1, <2>2
  <2>4. /\ machine' \in [Place -> C]
        /\ \A p \in Place : machine'[p] = IF p = d THEN machine[pending[d]] ELSE machine[p]
    BY <1>0, <2>1
  <2> QED
    BY <1>0, <2>1, <2>2, <2>3, <2>4
<1>3. CASE Xchg(d, drop)
  <2> DEFINE src == pending[d]
             kept == Redirected(d, src)
  <2>1. /\ Ready = {} /\ d \in Todo
        /\ pending' = Retained(kept, drop)
        /\ machine' = [machine EXCEPT ![d] = machine[src], ![src] = machine[d]]
    BY <1>3 DEF Xchg
  <2>2. /\ \A e \in Todo : pending[e] \in Todo
        /\ \A e, f \in Todo : pending[e] = pending[f] => e = f
    BY <2>1, Cycles DEF StuckIsCycle
  <2>3. d \in Reg /\ src \in Todo /\ src \in Reg
    BY <1>0, <2>1, <2>2
  <2>4. /\ machine' \in [Place -> C]
        /\ \A p \in Place : machine'[p] = IF p = src THEN machine[d]
                                          ELSE IF p = d THEN machine[src] ELSE machine[p]
    BY <1>0, <2>1, <2>3
  <2>5. \A e \in Reg : kept[e] = IF e = d THEN None ELSE IF pending[e] = d THEN src ELSE pending[e]
    BY DEF Redirected
  <2>6. kept \in [Reg -> Reg \cup {None}]
    BY <2>3 DEF Redirected
  <2>7. \A e \in Reg : /\ pending'[e] \in {kept[e], None}
                       /\ pending'[e] # kept[e] => kept[e] = e
    BY <2>1 DEF Retained
  <2>8. pending' \in [Reg -> Reg \cup {None}]
    BY <2>1, <2>6 DEF Retained
  <2>9. Todo' \subseteq Todo \ {d} /\ \A e \in Todo' : pending'[e] = kept[e]
    BY <2>3, <2>5, <2>7, NoneAssumption DEF Todo
  \* What is read after the exchange, through the redirected copy.
  <2>10. \A e \in Todo \ {d} : kept[e] \in Place /\ machine'[kept[e]] = machine[pending[e]]
    BY <1>0, <2>1, <2>2, <2>3, <2>4, <2>5
  <2>11. \A e \in Todo' : machine'[pending'[e]] = machine[pending[e]]
    BY <2>9, <2>10
  <2>12. \A e \in Todo \ Todo' : machine'[e] = machine[pending[e]]
    <3> SUFFICES ASSUME NEW e \in Todo \ Todo'
                 PROVE  machine'[e] = machine[pending[e]]
      OBVIOUS
    <3>1. CASE e = d
      BY <1>0, <2>3, <2>4, <3>1
    <3>2. CASE e # d
      <4>1. pending'[e] = None
        BY <1>0 DEF Todo
      <4>2. kept[e] # None
        BY <1>0, <2>3, <2>5, <3>2, NoneAssumption
      <4>3. kept[e] = e
        BY <1>0, <2>7, <4>1, <4>2
      <4> QED
        BY <2>10, <3>2, <4>3
    <3> QED
      BY <3>1, <3>2
  <2>13. \A p \in Place \ Todo : machine'[p] = machine[p]
    BY <2>1, <2>3, <2>4
  <2> QED
    BY <2>4, <2>8, <2>9, <2>11, <2>12, <2>13
<1> QED
  BY <1>1, <1>2, <1>3

-----------------------------------------------------------------------------
(* The inductive invariant *)

\* What the allocator gives and nothing changes.
SiteAllocated ==
    /\ site \in DOMAIN InputReg
    /\ pointer \in PointerAt(site)
    /\ live \subseteq Reg \ Destroyed(site, inputs)
    /\ homes \in Homes(site, live)

\* While the inputs are being collected: a copy still to make will read what
\* its register is to receive, a register dealt with has it, and whatever is no
\* input is as it was.
AtInputs == phase = "inputs" =>
    /\ Todo \subseteq Used(inputs) /\ direct \subseteq {r \in Used(inputs) : inputs[r] \notin Reg}
    /\ \A d \in Todo : machine[pending[d]] = inputs[d]
    /\ \A r \in Used(inputs) \ (Todo \cup direct) : machine[r] = inputs[r]
    /\ \A p \in Place \ Used(inputs) : machine[p] = p
    /\ read = <<>> /\ parked = Junk /\ base = None

\* The base is in nobody's way, or is rax with its value parked.
AtAddress == phase = "addressed" =>
    /\ site = "memory" /\ base \in Reg /\ read = <<>>
    /\ \A r \in Used(inputs) \ {base} : machine[r] = inputs[r]
    /\ \A r \in live \ {base} : machine[r] = r
    /\ parked = Junk => base \notin live
    /\ parked # Junk => base = Rax /\ (Rax \in live => parked = Rax)

\* A result is where a copy or a store will take it from, or at home.
AtResults == phase = "results" =>
    /\ site = "results"
    /\ \A d \in Todo : \E r \in ResultReg : homes[r] = d /\ machine[pending[d]] = Result(r)
    /\ \A r \in unstored : homes[r] \in Mem /\ machine[r] = Result(r)
    /\ \A r \in ResultReg : homes[r] \notin Todo /\ r \notin unstored => machine[homes[r]] = Result(r)
    /\ \A r \in live : machine[r] = r

AtDone == phase = "done" => /\ \A r \in live : machine[r] = r
                            /\ \A r \in DOMAIN homes : machine[homes[r]] = Result(r)

SiteIInv ==
    /\ TypeOK /\ SiteAllocated
    /\ AtInputs /\ AtAddress /\ AtResults /\ AtDone
    /\ InputsDelivered

-----------------------------------------------------------------------------
(* Nothing live is where an input goes: an argument register is volatile, and *)
(* what a boxed instruction reads counts as destroyed.                        *)
LEMMA LiveIsNoInput ==
  ASSUME TypeOK, SiteAllocated
  PROVE  /\ live \cap Used(inputs) = {} /\ live \subseteq Reg
         /\ Used(inputs) \subseteq Reg /\ Used(inputs) \subseteq Input
         /\ site = "call" => live \cap Volatile = {}
         /\ site = "results" => live \cap ResultReg = {}
<1>1. inputs \in [InputReg[site] -> Place \cup {None}] /\ site \in {"call", "memory", "results"}
  BY SiteAssumption DEF TypeOK, SiteAllocated
<1>2. /\ Used(inputs) \subseteq InputReg[site] /\ InputReg[site] \subseteq Reg
      /\ Used(inputs) \subseteq Input
  BY <1>1, SiteAssumption DEF Used, Input
<1>3. CASE site = "call"
  <2>1. Destroyed(site, inputs) = Volatile
    BY <1>3 DEF Destroyed
  <2>2. Used(inputs) \subseteq Volatile
    BY <1>2, <1>3, ArgumentAssumption
  <2> QED
    BY <1>2, <1>3, <2>1, <2>2 DEF SiteAllocated
<1>4. CASE site = "memory"
  <2>1. Destroyed(site, inputs) = Used(inputs)
    BY <1>4 DEF Destroyed
  <2> QED
    BY <1>2, <1>4, <2>1 DEF SiteAllocated
<1>5. CASE site = "results"
  <2>1. Destroyed(site, inputs) = Used(inputs) \cup ResultReg
    BY <1>5 DEF Destroyed
  <2> QED
    BY <1>2, <1>5, <2>1 DEF SiteAllocated
<1> QED
  BY <1>1, <1>3, <1>4, <1>5

(* The homes of the results differ, and no live value is in one.              *)
LEMMA HomesDiffer ==
  ASSUME SiteAllocated
  PROVE  /\ site = "results" => /\ DOMAIN homes = ResultReg
                                /\ \A r \in ResultReg : homes[r] \in (Reg \ live) \cup Mem
                                /\ \A r, s \in ResultReg : homes[r] = homes[s] => r = s
         /\ site # "results" => DOMAIN homes = {}
BY DEF SiteAllocated, Homes

(* Copying into place keeps what was settled.                                 *)
LEMMA FromRegsType ==
  ASSUME NEW f
  PROVE  /\ FromRegs(f) \in [Reg -> Reg \cup {None}]
         /\ \A r \in Reg : FromRegs(f)[r] # None => r \in DOMAIN f /\ FromRegs(f)[r] = f[r]
         /\ \A r \in Reg : FromRegs(f)[r] = None <=> ~ (r \in DOMAIN f /\ f[r] \in Reg \ {r})
BY NoneAssumption DEF FromRegs

(* Before the first move every source holds what the problem says.          *)
LEMMA InitKeeps ==
  ASSUME Init
  PROVE  SiteIInv
<1>1. TypeOK
  <2>1. pending \in [Reg -> Reg \cup {None}]
    BY FromRegsType DEF Init
  <2>2. machine \in [Place -> Content] /\ Junk \in Content
    BY DEF Init, Content
  <2>3. DOMAIN read = {}
    BY DEF Init
  <2>4. direct \subseteq Input
    BY DEF Init, Used, Input
  <2> QED
    BY <2>1, <2>2, <2>3, <2>4 DEF Init, TypeOK
<1>2. SiteAllocated
  BY DEF Init, SiteAllocated
<1>3. AtInputs
  <2>1. \A d \in Todo : d \in Used(inputs) /\ pending[d] = inputs[d] /\ inputs[d] \in Place
    BY FromRegsType DEF Todo, Init, Used, Place
  <2>2. \A r \in Used(inputs) \ (Todo \cup direct) : inputs[r] = r
    BY <1>1, <1>2, FromRegsType, LiveIsNoInput DEF Todo, Init, Used
  <2>3. Used(inputs) \subseteq Place
    BY <1>1, <1>2, LiveIsNoInput DEF Place
  <2> QED
    BY <2>1, <2>2, <2>3 DEF AtInputs, Init
<1>4. AtAddress /\ AtResults /\ AtDone /\ InputsDelivered
  BY DEF Init, AtAddress, AtResults, AtDone, InputsDelivered
<1> QED
  BY <1>1, <1>2, <1>3, <1>4 DEF SiteIInv

(* A move of the inputs is emitted.                                         *)
LEMMA KeepCopy ==
  ASSUME SiteIInv, Copy
  PROVE  SiteIInv'
<1>0. /\ TypeOK /\ SiteAllocated /\ AtInputs /\ phase = "inputs" /\ CopyStep(FALSE)
      /\ UNCHANGED <<problem, direct, unstored, base, parked, read, reached, phase>>
  BY DEF SiteIInv, Copy
<1>1. /\ pending' \in [Reg -> Reg \cup {None}] /\ machine' \in [Place -> Content]
      /\ Todo' \subseteq Todo
      /\ \A d \in Todo' : machine'[pending'[d]] = machine[pending[d]]
      /\ \A d \in Todo \ Todo' : machine'[d] = machine[pending[d]]
      /\ \A p \in Place \ Todo : machine'[p] = machine[p]
  BY <1>0, CopyStepKeeps DEF TypeOK
<1>2. TypeOK' /\ SiteAllocated'
  BY <1>0, <1>1 DEF TypeOK, SiteAllocated, problem, Input
<1>3. AtInputs'
  <2>1. \A r \in Used(inputs) \ (Todo' \cup direct) : machine'[r] = inputs[r]
    BY <1>0, <1>1, LiveIsNoInput DEF AtInputs, Place
  <2>2. \A p \in Place \ Used(inputs) : machine'[p] = p
    BY <1>0, <1>1 DEF AtInputs
  <2> QED
    BY <1>0, <1>1, <2>1, <2>2 DEF AtInputs, problem
<1>4. AtAddress' /\ AtResults' /\ AtDone'
  BY <1>0 DEF AtAddress, AtResults, AtDone
<1>5. InputsDelivered'
  BY <1>0 DEF SiteIInv, InputsDelivered, problem
<1> QED
  BY <1>2, <1>3, <1>4, <1>5 DEF SiteIInv

(* A register input is loaded from the slot its value is spilled in.        *)
LEMMA KeepLoad ==
  ASSUME SiteIInv, NEW r \in direct, Load(r)
  PROVE  SiteIInv'
<1>0. /\ TypeOK /\ SiteAllocated /\ AtInputs /\ phase = "inputs" /\ Todo = {}
      /\ direct' = direct \ {r}
      /\ machine' = [machine EXCEPT ![r] = machine[inputs[r]]]
      /\ UNCHANGED <<problem, pending, unstored, base, parked, read, reached, phase>>
  BY DEF SiteIInv, Load
<1>1. /\ Used(inputs) \subseteq Reg /\ r \in Used(inputs) /\ r \in Reg
      /\ inputs[r] \in Place \ Reg /\ inputs[r] \notin Used(inputs)
  <2>1. inputs[r] \in Place \cup {None} /\ inputs[r] # None /\ inputs[r] \notin Reg
    BY <1>0, LiveIsNoInput DEF AtInputs, TypeOK, Used, Input
  <2> QED
    BY <1>0, <2>1, LiveIsNoInput DEF AtInputs
<1>2. /\ machine' \in [Place -> Content]
      /\ machine'[r] = inputs[r]
      /\ \A p \in Place \ {r} : machine'[p] = machine[p]
  BY <1>0, <1>1 DEF AtInputs, TypeOK, Place
<1>3. Todo' = {}
  BY <1>0 DEF Todo
<1>4. TypeOK' /\ SiteAllocated'
  BY <1>0, <1>2 DEF TypeOK, SiteAllocated, problem, Input
<1>5. AtInputs'
  <2>1. \A x \in Used(inputs) \ direct' : machine'[x] = inputs[x]
    BY <1>0, <1>1, <1>2 DEF AtInputs, Place
  <2>2. \A p \in Place \ Used(inputs) : machine'[p] = p
    BY <1>0, <1>1, <1>2 DEF AtInputs
  <2> QED
    BY <1>0, <1>3, <2>1, <2>2 DEF AtInputs, problem
<1>6. AtAddress' /\ AtResults' /\ AtDone'
  BY <1>0 DEF AtAddress, AtResults, AtDone
<1>7. InputsDelivered'
  BY <1>0 DEF SiteIInv, InputsDelivered, problem
<1> QED
  BY <1>4, <1>5, <1>6, <1>7 DEF SiteIInv

(* With no copy and no load left every input is in its register.              *)
LEMMA InputsInPlace ==
  ASSUME SiteIInv, InputsReady
  PROVE  /\ \A r \in Used(inputs) : machine[r] = inputs[r]
         /\ \A p \in Place \ Used(inputs) : machine[p] = p
         /\ \A r \in live : machine[r] = r
         /\ base = None /\ parked = Junk /\ read = <<>>
<1>1. /\ \A r \in Used(inputs) : machine[r] = inputs[r]
      /\ \A p \in Place \ Used(inputs) : machine[p] = p
      /\ base = None /\ parked = Junk /\ read = <<>>
  BY DEF SiteIInv, InputsReady, AtInputs
<1>2. \A r \in live : machine[r] = r
  BY <1>1, LiveIsNoInput DEF SiteIInv, Place
<1> QED
  BY <1>1, <1>2

(* The address of a memory operand is moved to its scratch register.        *)
LEMMA KeepAddress ==
  ASSUME SiteIInv, Address
  PROVE  SiteIInv'
<1>0. /\ TypeOK /\ SiteAllocated /\ InputsReady /\ site = "memory"
      /\ base' \in IF FreeVolatile = {} THEN {Rax} ELSE FreeVolatile
      /\ parked' = IF FreeVolatile = {} THEN machine[Rax] ELSE parked
      /\ machine' = [machine EXCEPT ![base'] = machine[pointer]]
      /\ phase' = "addressed"
      /\ UNCHANGED <<problem, pending, direct, unstored, read, reached>>
  BY DEF SiteIInv, Address
<1>1. /\ \A r \in Used(inputs) : machine[r] = inputs[r]
      /\ \A r \in live : machine[r] = r
      /\ parked = Junk /\ read = <<>>
  BY <1>0, InputsInPlace
<1>2. base' \in Reg /\ Rax \in Reg /\ Reg \subseteq Place /\ pointer \in Place
  BY <1>0, SiteAssumption DEF FreeVolatile, Place, SiteAllocated, PointerAt
<1>3. /\ machine' \in [Place -> Content]
      /\ \A p \in Place \ {base'} : machine'[p] = machine[p]
      /\ parked' \in Content
  BY <1>0, <1>1, <1>2 DEF TypeOK
<1>4. TypeOK' /\ SiteAllocated'
  BY <1>0, <1>2, <1>3 DEF TypeOK, SiteAllocated, problem, Input
<1>5. AtAddress'
  <2>1. parked' = Junk => base' \notin live
    <3>1. CASE FreeVolatile = {}
      <4>1. Rax \in live => parked' = Rax
        BY <1>0, <1>1, <3>1
      <4> QED
        BY <1>0, <1>2, <3>1, <4>1, JunkAssumption
    <3>2. CASE FreeVolatile # {}
      BY <1>0, <3>2 DEF FreeVolatile
    <3> QED
      BY <3>1, <3>2
  <2>2. parked' # Junk => base' = Rax /\ (Rax \in live => parked' = Rax)
    BY <1>0, <1>1
  <2>3. /\ \A r \in Used(inputs) \ {base'} : machine'[r] = inputs[r]
        /\ \A r \in live \ {base'} : machine'[r] = r
    BY <1>0, <1>1, <1>2, <1>3, LiveIsNoInput
  <2> QED
    BY <1>0, <1>1, <1>2, <2>1, <2>2, <2>3 DEF AtAddress, problem
<1>6. AtInputs' /\ AtResults' /\ AtDone'
  BY <1>0 DEF AtInputs, AtResults, AtDone
<1>7. InputsDelivered'
  BY <1>0, <1>1 DEF InputsDelivered
<1> QED
  BY <1>4, <1>5, <1>6, <1>7 DEF SiteIInv

(* The call reads its inputs and destroys what a call may destroy.          *)
LEMMA KeepCall ==
  ASSUME SiteIInv, Call
  PROVE  SiteIInv'
<1>0. /\ TypeOK /\ SiteAllocated /\ InputsReady /\ site = "call"
      /\ read' = [r \in Used(inputs) |-> machine[r]]
      /\ reached' = machine[pointer]
      /\ machine' = [p \in Place |-> IF p \in Volatile THEN Junk ELSE machine[p]]
      /\ phase' = "done"
      /\ UNCHANGED <<problem, pending, direct, unstored, base, parked>>
  BY DEF SiteIInv, Call, Reads
<1>1. /\ \A r \in Used(inputs) : machine[r] = inputs[r]
      /\ \A r \in live : machine[r] = r
  BY <1>0, InputsInPlace
<1>2. machine' \in [Place -> Content]
  BY <1>0 DEF TypeOK, Content
<1>3. pointer \in Place /\ Used(inputs) \subseteq Place
  BY <1>0, LiveIsNoInput DEF SiteAllocated, PointerAt, Place
<1>4. TypeOK' /\ SiteAllocated'
  BY <1>0, <1>2, <1>3 DEF TypeOK, SiteAllocated, problem, Input
<1>5. AtDone'
  BY <1>0, <1>1, LiveIsNoInput, HomesDiffer DEF AtDone, problem, Place
<1>6. AtInputs' /\ AtAddress' /\ AtResults'
  BY <1>0 DEF AtInputs, AtAddress, AtResults
<1>7. InputsDelivered'
  BY <1>0, <1>1 DEF InputsDelivered, problem
<1> QED
  BY <1>4, <1>5, <1>6, <1>7 DEF SiteIInv

(* The memory instruction reads its inputs and its address.                 *)
LEMMA KeepAccess ==
  ASSUME SiteIInv, Access
  PROVE  SiteIInv'
<1>0. /\ TypeOK /\ SiteAllocated /\ AtAddress /\ phase = "addressed"
      /\ read' = [r \in Used(inputs) |-> machine[r]]
      /\ reached' = machine[base]
      /\ machine' = IF parked = Junk THEN machine ELSE [machine EXCEPT ![Rax] = parked]
      /\ phase' = "done"
      /\ UNCHANGED <<problem, pending, direct, unstored, base, parked>>
  BY DEF SiteIInv, Access, Reads, Restored
<1>1. site = "memory" /\ base \in Reg /\ Rax \in Reg /\ Reg \subseteq Place
  BY <1>0, SiteAssumption DEF AtAddress, Place
<1>2. machine' \in [Place -> Content]
  BY <1>0, <1>1 DEF TypeOK
<1>3. Used(inputs) \subseteq Place /\ live \subseteq Place
  BY <1>0, LiveIsNoInput DEF Place
<1>4. TypeOK' /\ SiteAllocated'
  BY <1>0, <1>1, <1>2, <1>3 DEF TypeOK, SiteAllocated, problem, Input
<1>5. \A r \in live : machine'[r] = r
  <2>1. CASE parked = Junk
    BY <1>0, <2>1 DEF AtAddress
  <2>2. CASE parked # Junk
    BY <1>0, <1>1, <1>3, <2>2 DEF AtAddress, TypeOK
  <2> QED
    BY <2>1, <2>2
<1>6. AtDone'
  BY <1>0, <1>1, <1>5, HomesDiffer DEF AtDone, problem
<1>7. AtInputs' /\ AtAddress' /\ AtResults'
  BY <1>0 DEF AtInputs, AtAddress, AtResults
<1>8. InputsDelivered'
  BY <1>0 DEF InputsDelivered, AtAddress, problem
<1> QED
  BY <1>4, <1>6, <1>7, <1>8 DEF SiteIInv

(* What `AntiFunction(homes)` says of a register: the result it is home to.   *)
LEMMA HomeOf ==
  ASSUME SiteAllocated, site = "results"
  PROVE  /\ DOMAIN AntiFunction(homes) = {homes[r] : r \in ResultReg}
         /\ \A r \in ResultReg : AntiFunction(homes)[homes[r]] = r
<1>1. /\ DOMAIN homes = ResultReg
      /\ \A r, s \in ResultReg : homes[r] = homes[s] => r = s
  BY HomesDiffer
<1>2. AntiFunction(homes) = [h \in Range(homes) |-> CHOOSE r \in ResultReg : h \in Range(homes) => homes[r] = h]
  BY <1>1 DEF AntiFunction, Inverse
<1>3. Range(homes) = {homes[r] : r \in ResultReg}
  BY <1>1 DEF Range
<1> QED
  BY <1>1, <1>2, <1>3

(* The boxed instruction reads its inputs and leaves its results.           *)
LEMMA KeepProduce ==
  ASSUME SiteIInv, Produce
  PROVE  SiteIInv'
<1>0. /\ TypeOK /\ SiteAllocated /\ InputsReady /\ site = "results"
      /\ read' = [r \in Used(inputs) |-> machine[r]]
      /\ machine' = [p \in Place |-> IF p \in ResultReg THEN Result(p) ELSE machine[p]]
      /\ unstored' = {r \in ResultReg : homes[r] \in Mem}
      /\ pending' = FromRegs(AntiFunction(homes))
      /\ phase' = "results"
      /\ UNCHANGED <<problem, direct, base, parked, reached>>
  BY DEF SiteIInv, Produce, Reads
<1>1. /\ \A r \in Used(inputs) : machine[r] = inputs[r]
      /\ \A r \in live : machine[r] = r
  BY <1>0, InputsInPlace
<1>2. ResultReg \subseteq Reg /\ Reg \subseteq Place /\ live \subseteq Reg
  BY <1>0, SiteAssumption, LiveIsNoInput DEF Place
<1>3. machine' \in [Place -> Content] /\ pending' \in [Reg -> Reg \cup {None}]
  BY <1>0, FromRegsType DEF TypeOK, Content
<1>4. TypeOK' /\ SiteAllocated'
  <2>1. Used(inputs) \subseteq Place
    BY <1>0, LiveIsNoInput DEF Place
  <2> QED
    BY <1>0, <1>3, <2>1 DEF TypeOK, SiteAllocated, problem, Input
<1>5. AtResults'
  <2> DEFINE from == AntiFunction(homes)
  <2>1. DOMAIN from = {homes[r] : r \in ResultReg} /\ \A r \in ResultReg : from[homes[r]] = r
    BY <1>0, HomeOf
  <2> HIDE DEF from
  <2>2. \A r \in ResultReg : machine'[r] = Result(r)
    BY <1>0, <1>2
  <2>3. ASSUME NEW d \in Reg, pending'[d] # None
        PROVE  \E r \in ResultReg : homes[r] = d /\ machine'[pending'[d]] = Result(r)
    <3>1. d \in DOMAIN from /\ pending'[d] = from[d]
      BY <1>0, <2>3, FromRegsType DEF from
    <3> QED
      BY <2>1, <2>2, <3>1
  <2>4. ASSUME NEW r \in ResultReg, homes[r] \notin Mem, ~ (homes[r] \in Reg /\ pending'[homes[r]] # None)
        PROVE  machine'[homes[r]] = Result(r)
    <3>1. homes[r] \in Reg /\ pending'[homes[r]] = None
      BY <1>0, <2>4, HomesDiffer
    <3>2. homes[r] \in DOMAIN from /\ from[homes[r]] = r
      BY <2>1
    <3>3. ~ (from[homes[r]] \in Reg \ {homes[r]})
      BY <1>0, <3>1, <3>2, FromRegsType DEF from
    <3>4. homes[r] = r
      BY <1>2, <3>2, <3>3
    <3> QED
      BY <2>2, <3>4
  <2>5. \A r \in live : machine'[r] = r
    BY <1>0, <1>1, <1>2, LiveIsNoInput
  <2> QED
    BY <1>0, <1>2, <2>2, <2>3, <2>4, <2>5 DEF AtResults, problem, Todo
<1>6. AtInputs' /\ AtAddress' /\ AtDone'
  BY <1>0 DEF AtInputs, AtAddress, AtDone
<1>7. InputsDelivered'
  BY <1>0, <1>1 DEF InputsDelivered, problem
<1> QED
  BY <1>4, <1>5, <1>6, <1>7 DEF SiteIInv

(* A result whose value is spilled is stored.                               *)
LEMMA KeepStore ==
  ASSUME SiteIInv, NEW r \in unstored, Store(r)
  PROVE  SiteIInv'
<1>0. /\ TypeOK /\ SiteAllocated /\ AtResults /\ phase = "results" /\ site = "results"
      /\ unstored' = unstored \ {r}
      /\ machine' = [machine EXCEPT ![homes[r]] = machine[r]]
      /\ UNCHANGED <<problem, pending, direct, base, parked, read, reached, phase>>
  BY DEF SiteIInv, Store, AtResults
<1>1. /\ r \in ResultReg /\ homes[r] \in Mem /\ homes[r] \in Place /\ homes[r] \notin Reg
      /\ machine[r] = Result(r) /\ Result(r) \in Content
  BY <1>0, PlaceAssumption DEF AtResults, TypeOK, Place, Content
<1>2. /\ machine' \in [Place -> Content]
      /\ machine'[homes[r]] = Result(r)
      /\ \A p \in Place \ {homes[r]} : machine'[p] = machine[p]
      /\ \A p \in Reg : machine'[p] = machine[p]
  BY <1>0, <1>1 DEF TypeOK, Place
<1>3. TypeOK' /\ SiteAllocated'
  BY <1>0, <1>2 DEF TypeOK, SiteAllocated, problem, Input
<1>4. AtResults'
  <2>1. Todo' = Todo /\ \A d \in Todo : pending[d] \in Reg
    BY <1>0 DEF Todo, TypeOK
  <2>2. \A x \in unstored' : homes[x] \in Mem /\ machine'[x] = Result(x)
    BY <1>0, <1>2, SiteAssumption DEF AtResults, TypeOK
  <2>3. ASSUME NEW x \in ResultReg, homes[x] \notin Todo, x \notin unstored'
        PROVE  machine'[homes[x]] = Result(x)
    <3>1. CASE x = r
      BY <1>2, <3>1
    <3>2. CASE x # r
      <4>1. homes[x] # homes[r] /\ homes[x] \in Place
        BY <1>0, <1>1, <3>2, HomesDiffer DEF Place
      <4> QED
        BY <1>0, <1>2, <2>3, <3>2, <4>1 DEF AtResults
    <3> QED
      BY <3>1, <3>2
  <2>4. \A x \in live : machine'[x] = x
    BY <1>0, <1>2, LiveIsNoInput DEF AtResults
  <2> QED
    BY <1>0, <1>2, <2>1, <2>2, <2>3, <2>4 DEF AtResults, problem
<1>5. AtInputs' /\ AtAddress' /\ AtDone'
  BY <1>0 DEF AtInputs, AtAddress, AtDone
<1>6. InputsDelivered'
  BY <1>0 DEF SiteIInv, InputsDelivered, problem
<1> QED
  BY <1>3, <1>4, <1>5, <1>6 DEF SiteIInv

(* A move of the results is emitted.                                        *)
LEMMA KeepSettle ==
  ASSUME SiteIInv, Settle
  PROVE  SiteIInv'
<1>0. /\ TypeOK /\ SiteAllocated /\ AtResults /\ phase = "results" /\ site = "results"
      /\ unstored = {} /\ CopyStep(TRUE)
      /\ UNCHANGED <<problem, direct, unstored, base, parked, read, reached, phase>>
  BY DEF SiteIInv, Settle, AtResults
<1>1. /\ pending' \in [Reg -> Reg \cup {None}] /\ machine' \in [Place -> Content]
      /\ Todo' \subseteq Todo
      /\ \A d \in Todo' : machine'[pending'[d]] = machine[pending[d]]
      /\ \A d \in Todo \ Todo' : machine'[d] = machine[pending[d]]
      /\ \A p \in Place \ Todo : machine'[p] = machine[p]
  BY <1>0, CopyStepKeeps DEF TypeOK
<1>2. TypeOK' /\ SiteAllocated'
  BY <1>0, <1>1 DEF TypeOK, SiteAllocated, problem, Input
<1>3. AtResults'
  <2>1. \A d \in Todo' : \E r \in ResultReg : homes[r] = d /\ machine'[pending'[d]] = Result(r)
    BY <1>0, <1>1 DEF AtResults
  <2>2. ASSUME NEW r \in ResultReg, homes[r] \notin Todo'
        PROVE  machine'[homes[r]] = Result(r)
    <3>1. CASE homes[r] \in Todo
      <4>1. PICK s \in ResultReg : homes[s] = homes[r] /\ machine[pending[homes[r]]] = Result(s)
        BY <1>0, <3>1 DEF AtResults
      <4>2. s = r
        BY <1>0, <4>1, HomesDiffer
      <4> QED
        BY <1>1, <2>2, <3>1, <4>1, <4>2
    <3>2. CASE homes[r] \notin Todo
      <4>1. homes[r] \in Place
        BY <1>0, HomesDiffer DEF Place
      <4> QED
        BY <1>0, <1>1, <3>2, <4>1 DEF AtResults
    <3> QED
      BY <3>1, <3>2
  <2>3. ASSUME NEW r \in live
        PROVE  machine'[r] = r
    <3>1. r \in Place /\ r \in Reg
      BY <1>0, LiveIsNoInput DEF Place
    <3>2. r \notin Todo
      BY <1>0, <3>1, PlaceAssumption, HomesDiffer DEF AtResults
    <3> QED
      BY <1>0, <1>1, <3>1, <3>2 DEF AtResults
  <2> QED
    BY <1>0, <2>1, <2>2, <2>3 DEF AtResults, problem
<1>4. AtInputs' /\ AtAddress' /\ AtDone'
  BY <1>0 DEF AtInputs, AtAddress, AtDone
<1>5. InputsDelivered'
  BY <1>0 DEF SiteIInv, InputsDelivered, problem
<1> QED
  BY <1>2, <1>3, <1>4, <1>5 DEF SiteIInv

(* The last result has been moved.                                          *)
LEMMA KeepSettled ==
  ASSUME SiteIInv, Settled
  PROVE  SiteIInv'
<1>0. /\ TypeOK /\ SiteAllocated /\ AtResults /\ InputsDelivered
      /\ phase = "results" /\ site = "results" /\ unstored = {} /\ Todo = {} /\ phase' = "done"
      /\ UNCHANGED <<pending, machine, problem, direct, unstored, base, parked, read, reached>>
  BY DEF SiteIInv, Settled, AtResults, copyVars
<1>1. TypeOK' /\ SiteAllocated' /\ InputsDelivered'
  BY <1>0 DEF TypeOK, SiteAllocated, problem, Input, InputsDelivered
<1>2. AtDone'
  BY <1>0, HomesDiffer DEF AtDone, AtResults, problem
<1>3. AtInputs' /\ AtAddress' /\ AtResults'
  BY <1>0 DEF AtInputs, AtAddress, AtResults
<1> QED
  BY <1>1, <1>2, <1>3 DEF SiteIInv

(* Nothing changes once the site is over.                                   *)
LEMMA KeepStuttering ==
  ASSUME SiteIInv, UNCHANGED vars
  PROVE  SiteIInv'
<1>0. UNCHANGED <<pending, machine, problem, direct, unstored, base, parked, read, reached, phase>>
  BY DEF vars, copyVars
<1>1. Todo' = Todo
  BY <1>0 DEF Todo
<1>2. TypeOK' /\ SiteAllocated' /\ InputsDelivered'
  BY <1>0 DEF SiteIInv, TypeOK, SiteAllocated, problem, Input, InputsDelivered
<1>3. AtInputs' /\ AtAddress' /\ AtResults' /\ AtDone'
  BY <1>0, <1>1 DEF SiteIInv, AtInputs, AtAddress, AtResults, AtDone, problem
<1> QED
  BY <1>2, <1>3 DEF SiteIInv

-----------------------------------------------------------------------------
(* Theorems *)

(* Every step around a site, in every order the copies may be made in, keeps  *)
(* the values that are still to be moved where they will be read.             *)
THEOREM SiteInvariant == Spec => []SiteIInv
<1>1. Init => SiteIInv
  BY InitKeeps
<1>2. SiteIInv /\ [Next]_vars => SiteIInv'
  <2> SUFFICES ASSUME SiteIInv, [Next]_vars
               PROVE  SiteIInv'
    OBVIOUS
  <2>1. CASE Copy
    BY <2>1, KeepCopy
  <2>2. ASSUME NEW r \in direct, Load(r)
        PROVE  SiteIInv'
    BY <2>2, KeepLoad
  <2>3. CASE Address
    BY <2>3, KeepAddress
  <2>4. CASE Call
    BY <2>4, KeepCall
  <2>5. CASE Access
    BY <2>5, KeepAccess
  <2>6. CASE Produce
    BY <2>6, KeepProduce
  <2>7. ASSUME NEW r \in unstored, Store(r)
        PROVE  SiteIInv'
    BY <2>7, KeepStore
  <2>8. CASE Settle
    BY <2>8, KeepSettle
  <2>9. CASE Settled
    BY <2>9, KeepSettled
  <2>10. CASE UNCHANGED vars
    BY <2>10, KeepStuttering
  <2> QED
    BY <2>1, <2>2, <2>3, <2>4, <2>5, <2>6, <2>7, <2>8, <2>9, <2>10 DEF Next, Done
<1> QED
  BY <1>1, <1>2, PTL DEF Spec

(* Type correctness of the site.                                              *)
THEOREM SiteTypes == Spec => []TypeOK
<1>1. SiteIInv => TypeOK
  BY DEF SiteIInv
<1> QED
  BY <1>1, SiteInvariant, PTL

(* The instruction finds every implicit input in its register, but for the    *)
(* register its address was put in.                                           *)
THEOREM InputsArrive == Spec => []InputsDelivered
<1>1. SiteIInv => InputsDelivered
  BY DEF SiteIInv
<1> QED
  BY <1>1, SiteInvariant, PTL

(* No register a later instruction reads is disturbed.                        *)
THEOREM LiveUntouched == Spec => []OthersKept
<1>1. SiteIInv => OthersKept
  BY DEF SiteIInv, AtDone, OthersKept
<1> QED
  BY <1>1, SiteInvariant, PTL

(* Every result is home in the end.                                           *)
THEOREM ResultsArrive == Spec => []ResultsHome
<1>1. SiteIInv => ResultsHome
  BY DEF SiteIInv, AtDone, ResultsHome
<1> QED
  BY <1>1, SiteInvariant, PTL

-----------------------------------------------------------------------------
(* The frame *)

\* The sizes are numbers, and rounding up loses nothing.
LEMMA Sizes ==
    ASSUME NEW L \in Layout
    PROVE  /\ Shadow(L) \in Nat /\ Locals(L) \in Nat
           /\ Raw(L) \in Nat /\ FrameSize(L) \in Nat
           /\ Raw(L) <= FrameSize(L)
           /\ FrameSize(L) % 16 = 8
<1>1. Shadow(L) \in Nat /\ Locals(L) \in Nat
  BY DEF Layout, Shadow, Locals, SHADOW
<1>2. Raw(L) \in Nat
  BY <1>1 DEF Layout, Raw, SCRATCH_SLOTS
<1>3. PICK q \in Nat : q = (Raw(L) + 15) \div 16
  BY <1>2
<1>4. 16 * q <= Raw(L) + 15 /\ Raw(L) + 15 < 16 * q + 16
  BY <1>2, <1>3
<1>5. Aligned(L) = 16 * q
  BY <1>3 DEF Aligned
<1>6. (16 * q) % 16 = 0 /\ (16 * q + 8) % 16 = 8
  BY <1>3
<1>7. FrameSize(L) = 16 * q + 8
  BY <1>5, <1>6 DEF FrameSize
<1> QED
  BY <1>1, <1>2, <1>3, <1>4, <1>6, <1>7

\* After the prologue rsp is a multiple of 16 again, whatever the frame holds: it
\* was 8 beyond one at entry, and `sub rsp, frame_size` takes 8 modulo 16 away.
THEOREM RspIsAligned ==
    ASSUME NEW L \in Layout, NEW rsp \in Int, rsp % 16 = 8
    PROVE  (rsp - FrameSize(L)) % 16 = 0
<1>1. FrameSize(L) \in Nat /\ FrameSize(L) % 16 = 8
  BY Sizes
<1> QED
  BY <1>1

\* The areas follow each other, and the padding ends below the locals.
LEMMA Adjacent ==
    ASSUME NEW L \in Layout
    PROVE  LET a == Area(L) IN
           /\ a["outgoing"].lo = 0
           /\ a["outgoing"].hi = a["spills"].lo /\ a["spills"].hi = a["saves"].lo
           /\ a["saves"].hi = a["scratch"].lo /\ a["scratch"].hi <= a["locals"].lo
           /\ a["locals"].hi = FrameSize(L)
           /\ \A n \in AreaName : a[n].lo \in Int /\ a[n].hi \in Int /\ a[n].lo <= a[n].hi
<1>1. /\ Shadow(L) \in Nat /\ Locals(L) \in Nat /\ FrameSize(L) \in Nat
      /\ Raw(L) <= FrameSize(L)
      /\ L.spills \in Nat /\ L.saves \in Nat /\ L.args \in Nat
  BY Sizes DEF Layout
<1> DEFINE a == Area(L)
<1>2. a["outgoing"] = [lo |-> 0, hi |-> Shadow(L) + 8 * L.args]
  BY DEF Area, AreaName, OutgoingEnd
<1>3. a["spills"] = [lo |-> Shadow(L) + 8 * L.args,
                     hi |-> Shadow(L) + 8 * L.args + 8 * L.spills]
  BY <1>1 DEF Area, AreaName, OutgoingEnd, SpillDisp, Range8
<1>4. a["saves"] = [lo |-> Shadow(L) + 8 * L.args + 8 * L.spills,
                    hi |-> Shadow(L) + 8 * L.args + 8 * L.spills + 8 * L.saves]
  BY <1>1 DEF Area, AreaName, OutgoingEnd, SaveDisp, Range8
<1>5. a["scratch"] = [lo |-> Shadow(L) + 8 * L.args + 8 * L.spills + 8 * L.saves,
                      hi |-> Shadow(L) + 8 * L.args + 8 * L.spills + 8 * L.saves + 32]
  BY <1>1 DEF Area, AreaName, OutgoingEnd, ScratchDisp, Range8, SCRATCH_SLOTS
<1>6. a["locals"] = [lo |-> FrameSize(L) - Locals(L), hi |-> FrameSize(L)]
  BY <1>1 DEF Area, AreaName, FrameDisp
<1>7. Raw(L) = Shadow(L) + 8 * L.args + 8 * L.spills + 32 + 8 * L.saves + Locals(L)
  BY <1>1 DEF Raw, SCRATCH_SLOTS
<1>8. a["scratch"].hi <= a["locals"].lo
  BY <1>1, <1>5, <1>6, <1>7
<1>9. \A n \in AreaName : a[n].lo \in Int /\ a[n].hi \in Int /\ a[n].lo <= a[n].hi
  BY <1>1, <1>2, <1>3, <1>4, <1>5, <1>6 DEF AreaName
<1> QED
  BY <1>2, <1>3, <1>4, <1>5, <1>6, <1>8, <1>9

\* No byte of the frame belongs to two areas: no spill is in the shadow space a
\* callee may write, no scratch slot in the save area the unwinder reads, no
\* local of the guest under any of them.
THEOREM AreasAreDisjoint ==
    ASSUME NEW L \in Layout, NEW m \in AreaName, NEW n \in AreaName, m # n
    PROVE  Bytes(Area(L)[m]) \cap Bytes(Area(L)[n]) = {}
<1> DEFINE a == Area(L)
<1> HIDE DEF a
<1>1. /\ a["outgoing"].hi = a["spills"].lo /\ a["spills"].hi = a["saves"].lo
      /\ a["saves"].hi = a["scratch"].lo /\ a["scratch"].hi <= a["locals"].lo
      /\ \A k \in AreaName : a[k].lo \in Int /\ a[k].hi \in Int /\ a[k].lo <= a[k].hi
  BY Adjacent DEF a
<1>2. a[m].hi <= a[n].lo \/ a[n].hi <= a[m].lo
  BY <1>1 DEF AreaName
<1>3. Bytes(a[m]) \cap Bytes(a[n]) = {}
  BY <1>1, <1>2 DEF Bytes
<1> QED
  BY <1>3 DEF a

\* What dead-store elimination may treat as unobservable meets neither the save
\* area, nor what a callee addresses, nor a local whose address may be taken.
THEOREM PrivateIsPrivate ==
    ASSUME NEW L \in Layout, NEW r \in PrivateRanges(L),
           NEW n \in {"outgoing", "saves", "locals"}
    PROVE  Bytes(r) \cap Bytes(Area(L)[n]) = {}
<1>1. r = Area(L)["spills"] \/ r = Area(L)["scratch"]
  BY DEF PrivateRanges, Area, AreaName
<1>2. n \in AreaName /\ n # "spills" /\ n # "scratch" /\ {"spills", "scratch"} \subseteq AreaName
  BY DEF AreaName
<1> QED
  BY <1>1, <1>2, AreasAreDisjoint
=============================================================================
