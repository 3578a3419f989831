-------------------------------- MODULE MCTerms --------------------------------
(***************************************************************************)
(* What the evaluator makes of integer instructions, and what the arena    *)
(* makes of the terms: MCAlu and MCFolding, in behaviours of their own,    *)
(* each with its widths.                                                   *)
(***************************************************************************)
EXTENDS MCAlu

VARIABLES part,   \* which of the two runs
          family, inArena, acc, tmp, means, built

folding == <<family, inArena, acc, tmp, means, built>>

Shapes == INSTANCE MCFolding WITH Byte <- 2, Long <- 3, Word <- 4, Leaves <- {"x", "y"}, Values <- {}, Families <- {},
                                  steps <- built

Fold == INSTANCE Folding WITH Byte <- 2, Long <- 3, Word <- 4, Leaves <- {"x", "y"}, Values <- Shapes!SomeValues,
                              Families <- Shapes!Sound, steps <- built

\* No instruction runs while terms are built.
Idle == [code |-> {}, depth |-> 0]

PartInit ==
    /\ part \in {"alu", "folding"}
    /\ Init
    /\ IF part = "alu" THEN family = 0 /\ inArena = 0 /\ acc = 0 /\ tmp = 0 /\ means = 0 /\ built = 0
       ELSE program = Idle /\ lifted.regs = Start(5, 3, 0) /\ Fold!Init

PartNext ==
    \/ part = "alu" /\ Next /\ UNCHANGED <<part, folding>>
    \/ part = "folding" /\ Fold!Next /\ UNCHANGED <<part, vars>>

PartSpec == PartInit /\ [][PartNext]_<<part, vars, folding>>

Programmed == Every \cup {Idle}

(* A term means, for every value of its leaves, what the operations that   *)
(* built it mean, whichever rules rewrote it on the way; and a rewritten   *)
(* copy means what the term does where the leaves have the new values.     *)
RulesKeepMeaning == part = "folding" => Fold!FoldKeepsValue /\ Fold!ReplacedIsSubstituted

(* A bit known to be zero or one is that, for every value of the leaves.   *)
KnownBitsHold == part = "folding" => Fold!KnownBitsHold
===============================================================================
