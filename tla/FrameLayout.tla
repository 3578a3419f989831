----------------------------- MODULE FrameLayout ------------------------------
(***************************************************************************)
(* codegen/layout.rs: where things live in the frame a recovered function  *)
(* runs on.  Displacements are bytes above rsp, which stays put throughout *)
(* the body.  From the bottom: shadow space and outgoing arguments, spill  *)
(* slots, saved registers, scratch slots, padding, and the guest's locals  *)
(* up to the return address.  Rip-relative forms are left out.             *)
(***************************************************************************)
EXTENDS Integers

\* What the functions of a frame ask for: `lo` is the lowest frame offset used.
Layout == [spills : Nat, saves : Nat, args : Nat, calls : BOOLEAN, lo : Int]

SCRATCH_SLOTS == 4
SHADOW == 32

Shadow(L) == IF L.calls THEN SHADOW ELSE 0
Locals(L) == IF L.lo < 0 THEN -L.lo ELSE 0
Raw(L) == Shadow(L) + 8 * L.args + 8 * L.spills + 8 * SCRATCH_SLOTS + 8 * L.saves + Locals(L)

\* Rounded up to a multiple of 16, and 8 more to make up for the return address.
Aligned(L) == 16 * ((Raw(L) + 15) \div 16)
FrameSize(L) == IF Aligned(L) % 16 = 8 THEN Aligned(L) ELSE Aligned(L) + 8

OutgoingEnd(L) == Shadow(L) + 8 * L.args
SpillDisp(L, i) == OutgoingEnd(L) + 8 * i
SaveDisp(L, i) == OutgoingEnd(L) + 8 * L.spills + 8 * i
ScratchDisp(L, i) == OutgoingEnd(L) + 8 * L.spills + 8 * L.saves + 8 * i
FrameDisp(L, o) == FrameSize(L) + o

Range8(lo, n) == [lo |-> lo, hi |-> lo + 8 * n]

\* Mutation: one range from the first spill slot to the last scratch slot.
PrivateSpan(L) == {[lo |-> SpillDisp(L, 0), hi |-> ScratchDisp(L, SCRATCH_SLOTS)]}

\* `private_ranges`: what only the emitter's own instructions touch.
PrivateRanges(L) == {Range8(SpillDisp(L, 0), L.spills), Range8(ScratchDisp(L, 0), SCRATCH_SLOTS)}

-----------------------------------------------------------------------------
AreaName == {"outgoing", "spills", "saves", "scratch", "locals"}

Area(L) == [outgoing |-> [lo |-> 0, hi |-> OutgoingEnd(L)],
            spills   |-> Range8(SpillDisp(L, 0), L.spills),
            saves    |-> Range8(SaveDisp(L, 0), L.saves),
            scratch  |-> Range8(ScratchDisp(L, 0), SCRATCH_SLOTS),
            locals   |-> [lo |-> FrameDisp(L, -Locals(L)), hi |-> FrameDisp(L, 0)]]

Bytes(r) == {d \in Int : r.lo <= d /\ d < r.hi}
=============================================================================
