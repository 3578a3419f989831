----------------------------- MODULE MCWriteback --------------------------
(* Three functions whose bodies may be a few bytes below a multiple of 16,   *)
(* so that a shorter jump changes their padded length, or longer than a      *)
(* short jump spans.  The trampolines are far from the new code, the first   *)
(* out of reach.                                                             *)
EXTENDS Writeback

MCTrampoline == <<1000, 2000, 3000>>
MCRecords == {[begin |-> 900, end |-> 950, unwind |-> 5000],
              [begin |-> 2000, end |-> 2005, unwind |-> 5008]}
MCUnwindSize == <<8, 12, 16>>
=============================================================================
