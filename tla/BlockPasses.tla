----------------------------- MODULE BlockPasses ------------------------------
(***************************************************************************)
(* ir/sched.rs: the last three passes over the blocks of a function.       *)
(* Returns with the same text are merged, edges are led around blocks that *)
(* do nothing, and what the entry no longer reaches is dropped.  The next  *)
(* stage emits the first block first and finds every other by its label.   *)
(*                                                                         *)
(* `content` stands for a block's instructions and exits: two blocks with  *)
(* the same content have the same text, and NoWork is the content of a     *)
(* block without instructions whose exits are where they should be.  Then  *)
(* a walk through the function as recovered and one through the function   *)
(* as left by the passes are taken side by side.                           *)
(***************************************************************************)
EXTENDS Integers, SequencesExt

CONSTANTS N,          \* the number of blocks
          NoWork,
          Contents,   \* of a block, NoWork among them
          Terms       \* terminators: [kind, to], a sequence of the blocks control can go to

ASSUME PassAssumption ==
    /\ N \in Nat \ {0}
    /\ Terms \subseteq [kind : STRING, to : Seq(1..N)]
    /\ \A t \in Terms : t.kind = "jump" => t.to # <<>>

VARIABLES recovered,  \* the blocks given to the passes, the entry first
          blocks,     \* the blocks as they are now
          stage,
          place,      \* where the walk through `recovered` is
          walk        \* where the walk through `blocks` is

passVars == <<recovered, blocks, stage, place, walk>>

-----------------------------------------------------------------------------
\* Lead every edge of a block elsewhere.
Retarget(b, where) == [b EXCEPT !.term.to = [n \in DOMAIN @ |-> where[@[n]]]]
RetargetAll(bs, where) == [i \in DOMAIN bs |-> Retarget(bs[i], where)]

Ids(bs) == {bs[i].id : i \in DOMAIN bs}

-----------------------------------------------------------------------------
Mergeable(bs) == {i \in DOMAIN bs : i # 1 /\ bs[i].term.kind = "return"}

\* Mutation: blocks are compared by their terminators.
SameTerm(a, b) == a.term = b.term

SameText(a, b) == a.content = b.content /\ a.term = b.term

\* The first block with the text of b, for a return; b itself otherwise.
Canonical(bs) ==
    [b \in Ids(bs) |->
        LET i == CHOOSE j \in DOMAIN bs : bs[j].id = b
            same == {j \in Mergeable(bs) : SameText(bs[i], bs[j])}
        IN  IF i \in Mergeable(bs) THEN bs[Min(same)].id ELSE b]

MergeIdenticalReturns ==
    /\ stage = "merge"
    /\ blocks' = RetargetAll(blocks, Canonical(blocks))
    /\ stage' = "thread"
    /\ UNCHANGED <<recovered, place, walk>>

-----------------------------------------------------------------------------
\* A block that does nothing and then jumps.  A back edge is not followed.
Forwards(b) == b.content = NoWork /\ b.term.kind = "jump"

ForwardersOf(bs) == {b \in ToSet(bs) : Forwards(b)}

ChainBound(bs) == Cardinality(ForwardersOf(bs))

\* Where an edge to each block ends after n steps along blocks that forward.
Resolved(bs) ==
    LET next(b) == LET f == {g \in ForwardersOf(bs) : g.id = b}
                   IN  IF f = {} THEN b ELSE (CHOOSE g \in f : TRUE).term.to[1]
        resolve(b) == LET after[n \in 0..ChainBound(bs)] ==
                              IF n = 0 THEN b ELSE LET id == after[n - 1] IN next(id)
                      IN  after[ChainBound(bs)]
    IN  [b \in Ids(bs) |-> resolve(b)]

ThreadEmptyJumps ==
    /\ stage = "thread"
    /\ blocks' = RetargetAll(blocks, Resolved(blocks))
    /\ stage' = "drop"
    /\ UNCHANGED <<recovered, place, walk>>

-----------------------------------------------------------------------------
\* Mutation: the second arm of a branch is forgotten.
FirstTarget(b) == IF b.term.to = <<>> THEN {} ELSE {b.term.to[1]}

Successors(b) == ToSet(b.term.to)

Reached(bs) ==
    LET grow[n \in 0..Len(bs)] ==
            IF n = 0 THEN {bs[1].id}
            ELSE LET seen == grow[n - 1]
                 IN  seen \cup UNION {Successors(b) : b \in {c \in ToSet(bs) : c.id \in seen}}
    IN  grow[Len(bs)]

\* The blocks that are reached, in their order.
Kept(bs) ==
    LET reached == Reached(bs)
        keep[n \in 0..Len(bs)] ==
            IF n = 0 THEN <<>>
            ELSE IF bs[n].id \in reached THEN Append(keep[n - 1], bs[n])
            ELSE keep[n - 1]
    IN  keep[Len(bs)]

DropUnreachable ==
    /\ stage = "drop"
    /\ blocks' = Kept(blocks)
    /\ stage' = "run"
    /\ UNCHANGED <<recovered, place, walk>>

-----------------------------------------------------------------------------
\* One label per block; a label that is not placed leaves control to fall through.
Labels(bs, id) == {b \in ToSet(bs) : b.id = id}
Here(bs, id) == CHOOSE b \in Labels(bs, id) : TRUE

\* The walk comes to rest at the first block that does something or decides.
Spinning == 0
Lands(bs, id) ==
    LET passes(i) == Labels(bs, i) # {} /\ Forwards(Here(bs, i))
        go[n \in 0..N] ==
            IF n = 0 THEN id
            ELSE LET i == go[n - 1] IN IF passes(i) THEN Here(bs, i).term.to[1] ELSE i
        rest == go[N]
    IN  IF passes(rest) THEN Spinning ELSE rest

Start == /\ stage = "run"
         /\ place' = Lands(recovered, recovered[1].id)
         /\ walk' = Lands(blocks, blocks[1].id)
         /\ stage' = "walk"
         /\ UNCHANGED <<recovered, blocks>>

\* Both take the n-th way out of where they are.
Walk == /\ stage = "walk" /\ place # Spinning /\ walk # Spinning
        /\ Labels(blocks, walk) # {}
        /\ \E n \in DOMAIN Here(recovered, place).term.to \cap DOMAIN Here(blocks, walk).term.to :
              /\ place' = Lands(recovered, Here(recovered, place).term.to[n])
              /\ walk' = Lands(blocks, Here(blocks, walk).term.to[n])
        /\ UNCHANGED <<recovered, blocks, stage>>

Left == stage = "walk" /\ UNCHANGED passVars

PassInit ==
    /\ \E content \in [1..N -> Contents], term \in [1..N -> Terms] :
          recovered = [i \in 1..N |-> [id |-> i, content |-> content[i], term |-> term[i]]]
    /\ blocks = recovered
    /\ stage = "merge"
    /\ place = Spinning /\ walk = Spinning

PassNext == MergeIdenticalReturns \/ ThreadEmptyJumps \/ DropUnreachable \/ Start \/ Walk \/ Left

PassSpec == PassInit /\ [][PassNext]_passVars

-----------------------------------------------------------------------------
(* The passes change no walk: what the function does, block by block, and the *)
(* choice it has after each, are those of the function as recovered; it goes  *)
(* around doing nothing for ever only where that did.                         *)
SameWork ==
    (stage = "walk") =>
        \/ place = Spinning /\ walk = Spinning
        \/ /\ place # Spinning /\ walk # Spinning /\ Labels(blocks, walk) # {}
           /\ LET b == Here(recovered, place) w == Here(blocks, walk)
              IN  /\ w.content = b.content /\ w.term.kind = b.term.kind
                  /\ Len(w.term.to) = Len(b.term.to)

(* Code generation makes a label for each block that is left, jumps nowhere   *)
(* when a label is missing, and takes the first block for the entry.          *)
EveryTargetIsEmitted ==
    (stage \in {"run", "walk"}) =>
        /\ blocks # <<>> /\ blocks[1].id = recovered[1].id
        /\ \A b \in ToSet(blocks) : ToSet(b.term.to) \subseteq Ids(blocks)

=============================================================================
