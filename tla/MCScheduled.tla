----------------------------- MODULE MCScheduled --------------------------
(***************************************************************************)
(* What scheduling does across the instructions and blocks of a function,  *)
(* each part in behaviours of its own:                                     *)
(*                                                                         *)
(* values: MCLowering.                                                     *)
(*                                                                         *)
(* stores: the passes over frame stores, on three bytes of the function's  *)
(* own frame and one of the caller's, accessed by the byte and by pairs of *)
(* bytes that overlap, every block of three instructions followed by every *)
(* block of one, with and without an address that leaks.                   *)
(*                                                                         *)
(* graph: the passes over the graph, on four blocks that work or do        *)
(* nothing.  Their jumps make chains and circles of blocks that do         *)
(* nothing, through the entry and around it; the others are forks over     *)
(* such chains, a back edge, and returns, two of which can be alike.       *)
(***************************************************************************)
EXTENDS MCLowering, BlockPasses

VARIABLES part,   \* which of them
          lists, leaked, source, escaped, pass

frame == <<lists, leaked, source, escaped, pass>>

Frame == INSTANCE FrameStores WITH Lo <- -3, Hi <- 0, Widths <- {1, 2}, BoxedSpan <- 2, Shape <- <<3, 1>>,
                                   Leaks <- {{}, {-2}}, blocks <- lists, phase <- pass

MCContents == {"nothing", "work"}
MCForks == {[kind |-> "jump", to |-> <<b>>] : b \in 1..4} \cup
           {[kind |-> "backedge", to |-> <<2>>]} \cup
           {[kind |-> "branch", to |-> t] : t \in {<<2, 3>>, <<4, 2>>}} \cup
           {[kind |-> "switch", to |-> <<2, 4, 3>>], [kind |-> "return", to |-> <<>>]}

\* Blocks without instructions or edges.
ValuesRest ==
    /\ succ = [b \in Block |-> {}] /\ code = [b \in Block |-> [op |-> "nop"]]
    /\ guest = [r \in Reg |-> Expr(InitReg(r), 0)] /\ machine = guest
    /\ exits = [b \in Block |-> guest] /\ event = [b \in Block |-> NoEvent]
    /\ params = {} /\ live = [b \in Block |-> {}] /\ at = Entry /\ phase = "rest"
FrameRests == lists = <<>> /\ source = <<>> /\ leaked = {} /\ escaped = {} /\ pass = "rest"
GraphRests == recovered = <<>> /\ blocks = <<>> /\ stage = "rest" /\ place = 0 /\ walk = 0

PartInit ==
    \/ part = "values" /\ Init /\ FrameRests /\ GraphRests
    \/ part = "stores" /\ Frame!Init /\ ValuesRest /\ GraphRests
    \/ part = "graph" /\ PassInit /\ ValuesRest /\ FrameRests

PartNext ==
    \/ part = "values" /\ Next /\ UNCHANGED <<part, frame, passVars>>
    \/ part = "stores" /\ Frame!Next /\ UNCHANGED <<part, vars, passVars>>
    \/ part = "graph" /\ PassNext /\ UNCHANGED <<part, vars, frame>>

PartSpec == PartInit /\ [][PartNext]_<<part, vars, frame, passVars>>

(* The passes over frame stores are not noticed, each by itself.             *)
StorePassesUnseen ==
    part = "stores" => Frame!DropIsUnseen /\ Frame!NarrowIsUnseen /\ Frame!EliminationIsUnseen
===========================================================================
