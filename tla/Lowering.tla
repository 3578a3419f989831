------------------------------ MODULE Lowering ------------------------------
(***************************************************************************)
(* From the recovered graph to the code that is emitted for it, seen at    *)
(* block boundaries: `simplify_phis` and `remove_dead_params` (ir/ir.rs),  *)
(* the reading of SSA leaves as registers, `rename_entry_reads` and        *)
(* `prune_dead_exits` (ir/sched.rs).  The emitted code then runs beside    *)
(* the guest code it was recovered from.                                   *)
(*                                                                         *)
(* Every block holds one guest instruction.  Recovery has expressed each   *)
(* register a block leaves behind in terms of what held when its values    *)
(* were last cut: the parameters of the nearest join above it, or the      *)
(* registers at the function's entry.  Within a block the allocator is     *)
(* taken at its word (LinearScan.tla, Reconcile.tla): the exits are        *)
(* evaluated on the registers at block entry and assigned in parallel.     *)
(***************************************************************************)
EXTENDS Integers, FiniteSets, Sequences

CONSTANTS Reg,        \* guest registers, in the order of the `Reg` enum
          Restored,   \* the ones the epilogue restores: not VOLATILE
          Block,      \* blocks, numbered
          Entry,
          Graphs,     \* the successor functions to consider
          Size        \* arithmetic is modulo Size

ASSUME RegAssumption == Reg \subseteq Nat /\ IsFiniteSet(Reg) /\ Restored \subseteq Reg
ASSUME BlockAssumption == IsFiniteSet(Block) /\ Entry \in Block /\ Size \in Nat \ {0}
\* Recovery keeps only blocks it reaches from the entry (Explore!OnlyReachable);
\* functions whose entry is itself a loop head are left out.
ASSUME GraphAssumption == \A g \in Graphs :
    /\ g \in [Block -> SUBSET Block]
    /\ \A b \in Block : Entry \notin g[b]
    /\ \A S \in SUBSET Block : Entry \in S /\ (\A b \in S : g[b] \subseteq S) => S = Block

VARIABLES succ,     \* the successors of each block
          code,     \* the guest instruction of each block
          exits,    \* `exit_regs`: the expression of each register leaving a block
          event,    \* the expression a block stores, if it does
          params,   \* the parameters the blocks still declare
          live,     \* `live_in`
          phase,    \* simplify, prune, run
          at,       \* the block being run
          guest,    \* registers of the guest program on entry to it
          machine   \* registers of the emitted program

program == <<succ, code>>
cfg == <<exits, event, params>>
vars == <<program, cfg, live, phase, at, guest, machine>>

-----------------------------------------------------------------------------
(* Guest instructions and expressions *)

Instr == {[op |-> "nop"]}
           \cup [op : {"mov"}, dst : Reg, src : Reg]
           \cup [op : {"set", "inc", "store"}, dst : Reg]

InitReg(q)  == <<"init", Entry, q>>
Param(b, q) == <<"param", b, q>>
Const(b)    == <<"const", b, 0>>

\* An expression is a leaf and how often it has been incremented.
Expr(leaf, n) == [leaf |-> leaf, n |-> n % Size]
Plus(e, n) == Expr(e.leaf, e.n + n)

\* The registers after block b, given those before it.
After(b, regs) ==
    LET i == code[b]
    IN  CASE i.op = "mov" -> [regs EXCEPT ![i.dst] = regs[i.src]]
          [] i.op = "set" -> [regs EXCEPT ![i.dst] = Expr(Const(b), 0)]
          [] i.op = "inc" -> [regs EXCEPT ![i.dst] = Plus(regs[i.dst], 1)]
          [] OTHER        -> regs

Preds(b) == {p \in Block : b \in succ[p]}
IsJoin(b) == Cardinality(Preds(b)) > 1

\* The symbolic registers a block starts from: its own parameters at a join,
\* and otherwise whatever its only predecessor left.
arriving[b \in Block] ==
    CASE b = Entry -> [r \in Reg |-> Expr(InitReg(r), 0)]
      [] IsJoin(b) -> [r \in Reg |-> Expr(Param(b, r), 0)]
      [] OTHER     -> LET p == CHOOSE x \in Block : x \in Preds(b)
                      IN  After(p, arriving[p])

Stores(b) == code[b].op = "store"
NoEvent == Expr(Const(Entry), 0)

Init == /\ succ \in Graphs
        /\ code \in [Block -> Instr]
        /\ exits = [b \in Block |-> After(b, arriving[b])]
        /\ event = [b \in Block |-> IF Stores(b) THEN arriving[b][code[b].dst] ELSE NoEvent]
        /\ params = {Param(b, r) : b \in {c \in Block : IsJoin(c)}, r \in Reg}
        /\ live = [b \in Block |-> {}]
        /\ phase = "simplify"
        /\ at = Entry
        /\ guest = [r \in Reg |-> Expr(InitReg(r), 0)]
        /\ machine = guest

-----------------------------------------------------------------------------
(* ir/ir.rs *)

\* Mutation: only the first edge is looked at.
IncomingFirst(p) == {exits[q][p[3]] : q \in {CHOOSE x \in Preds(p[2]) : TRUE}} \ {Expr(p, 0)}

\* The values a parameter takes along its edges, the parameter itself aside.
Incoming(p) == {exits[q][p[3]] : q \in Preds(p[2])} \ {Expr(p, 0)}
Trivial == {p \in params : Cardinality(Incoming(p)) = 1}

\* `Arena::rewrite`: a replaced leaf is a boundary, its value is not rewritten again.
Rewritten(e) == IF e.leaf \in Trivial
                THEN Plus(CHOOSE v \in Incoming(e.leaf) : TRUE, e.n) ELSE e

\* One round of `simplify_phis` with its `apply_rewrite`.
Simplify == /\ phase = "simplify"
            /\ Trivial # {}
            /\ exits' = [b \in Block |-> [r \in Reg |-> Rewritten(exits[b][r])]]
            /\ event' = [b \in Block |-> Rewritten(event[b])]
            /\ params' = params \ Trivial
            /\ UNCHANGED <<program, live, phase, at, guest, machine>>

Mentioned(b) == {exits[b][r].leaf : r \in Reg} \cup {event[b].leaf}

RemoveDeadParams == /\ phase = "simplify"
                    /\ Trivial = {}
                    /\ params' = {p \in params : p \in Mentioned(p[2])}
                    /\ phase' = "prune"
                    /\ UNCHANGED <<program, exits, event, live, at, guest, machine>>

-----------------------------------------------------------------------------
(* ir/sched.rs *)

FirstOf(S) == CHOOSE r \in S : \A s \in S : r <= s

\* `home_in`: the register p leaves the function-entry value of q in, if any.
HomesIn(p, q) == {r \in Reg : exits[p][r] = Expr(InitReg(q), 0)}
HomeIn(p, q) == IF q \in HomesIn(p, q) THEN q ELSE FirstOf(HomesIn(p, q))
\* Mutation: predecessors need not agree on the home.
HasAnyHome(b, q) == Preds(b) # {} /\ \A p \in Preds(b) : HomesIn(p, q) # {}

HasHome(b, q) == /\ Preds(b) # {}
                 /\ \A p \in Preds(b) : HomesIn(p, q) # {}
                 /\ \A p, o \in Preds(b) : HomeIn(p, q) = HomeIn(o, q)

\* The register b reads where an operand names q.  Operand::Entry and
\* Operand::Param are renamed alike.
ReadOf(b, q) == IF HasHome(b, q) THEN HomeIn(CHOOSE p \in Preds(b) : TRUE, q) ELSE q

\* Registers read by an expression once it is scheduled in b.
Reads(b, e) == IF e.leaf[1] = "const" THEN {} ELSE {ReadOf(b, e.leaf[3])}

Returns(b) == succ[b] = {}
LiveOut(b) == IF Returns(b) THEN Reg ELSE UNION {live[s] : s \in succ[b]}

\* What the epilogue puts back needs no reader.
RestoredAnyway(b, r) ==
    /\ Returns(b) /\ r \in Restored
    /\ exits[b][r].leaf[1] # "const" /\ exits[b][r].n = 0
    /\ Reads(b, exits[b][r]) = {r}

\* Registers read by the block's instructions, whatever becomes of the exits.
BodyReads(b) == (IF Stores(b) THEN Reads(b, event[b]) ELSE {})
                  \cup UNION {Reads(b, exits[b][r]) : r \in {x \in Reg : exits[b][x].n # 0}}

LiveIn(b) == BodyReads(b)
               \cup {p[3] : p \in {x \in params : x[2] = b}}
               \cup UNION {Reads(b, exits[b][r]) : r \in {x \in LiveOut(b) : ~RestoredAnyway(b, x)}}

\* Mutation: the loop stops after a round.
PruneOnce == /\ phase = "prune"
             /\ live' = [b \in Block |-> LiveIn(b)]
             /\ phase' = "run"
             /\ UNCHANGED <<program, cfg, at, guest, machine>>

\* One round of the liveness loop of `prune_dead_exits`.
PruneRound == /\ phase = "prune"
              /\ live' = [b \in Block |-> LiveIn(b)]
              /\ phase' = IF live' = live THEN "run" ELSE "prune"
              /\ UNCHANGED <<program, cfg, at, guest, machine>>

-----------------------------------------------------------------------------
(* The two programs *)

Junk == Expr(<<"junk", Entry, 0>>, 0)

\* What emitted block b computes for an expression.
Value(b, e) == IF e.leaf[1] = "const" THEN e
               ELSE Plus(machine[ReadOf(b, e.leaf[3])], e.n)

\* A register whose exit was dropped is the allocator's to use.
Run(s) == /\ phase = "run"
          /\ s \in succ[at]
          /\ guest' = After(at, guest)
          /\ machine' = [r \in Reg |-> IF r \in LiveOut(at) THEN Value(at, exits[at][r]) ELSE Junk]
          /\ at' = s
          /\ UNCHANGED <<program, cfg, live, phase>>

Returned == phase = "run" /\ Returns(at) /\ UNCHANGED vars

Next == Simplify \/ RemoveDeadParams \/ PruneRound \/ (\E s \in Block : Run(s)) \/ Returned

\* The passes run to their end; how long the function runs is up to the guest.
Spec == Init /\ [][Next]_vars /\ WF_vars(Simplify \/ RemoveDeadParams \/ PruneRound)

-----------------------------------------------------------------------------
Exprs == [leaf : {"init", "param", "const", "junk"} \X Block \X (Reg \cup {0}), n : 0..Size-1]

TypeOK == /\ succ \in Graphs /\ code \in [Block -> Instr]
          /\ exits \in [Block -> [Reg -> Exprs]] /\ event \in [Block -> Exprs]
          /\ params \subseteq {Param(b, r) : b \in Block, r \in Reg}
          /\ live \in [Block -> SUBSET Reg]
          /\ phase \in {"simplify", "prune", "run"} /\ at \in Block
          /\ {guest, machine} \subseteq [Reg -> Exprs]

\* A leaf that block b finds in the register it reads: its own parameter under
\* its own name, or a value every predecessor leaves there unchanged.
Available(b, leaf) ==
    CASE leaf[1] = "const" -> TRUE
      [] leaf[1] = "init"  -> b = Entry \/ HasHome(b, leaf[3])
      [] OTHER -> /\ ReadOf(b, leaf[3]) = leaf[3]
                  /\ \/ leaf[2] = b
                     \/ \A p \in Preds(b) : exits[p][leaf[3]] = Expr(leaf, 0)

\* Every leaf of the graph is available where it is read.
Placed == \A b \in Block : \A leaf \in Mentioned(b) : Available(b, leaf)

\* What the outside sees of block b: the value it stores, and the volatile
\* registers it returns with.
SameOutput(b) ==
    /\ Stores(b) => Value(b, event[b]) = guest[code[b].dst]
    /\ Returns(b) => \A r \in Reg \ Restored : Value(b, exits[b][r]) = After(b, guest)[r]

(* Where recovered values are available, the emitted program stores and       *)
(* returns exactly what the guest does: no exit that some later block reads   *)
(* is pruned, however many loops and joins lie between, and an entry value is *)
(* read from a home that all paths agree on.                                  *)
EmittedAgrees == phase = "run" /\ Placed => SameOutput(at)

(* A register a block reads is kept by all of its predecessors, on every      *)
(* path the program takes: nothing read is left to the allocator.             *)
NothingReadIsJunk ==
    phase = "run" =>
        /\ Stores(at) => Value(at, event[at]).leaf # Junk.leaf
        /\ \A r \in LiveOut(at) :
              ~RestoredAnyway(at, r) => Value(at, exits[at][r]).leaf # Junk.leaf

\* b lies on every path from the entry to c.
Dominates(b, c) ==
    b = c \/ \E S \in SUBSET (Block \ {b}) :
                 Entry \in S /\ (\A x \in S : succ[x] \ {b} \subseteq S) /\ c \notin S

(* Simplifying a phi never invents a value: a block mentions a parameter only *)
(* of a block that every path to it passes, so there is always an arrival     *)
(* whose register the parameter names.                                        *)
LeavesDominate ==
    \A b \in Block : \A leaf \in Mentioned(b) : leaf[1] = "param" => Dominates(leaf[2], b)

-----------------------------------------------------------------------------
(* "scheduling a foreign block's parameter; SSA scoping is violated": a block *)
(* mentions no other block's parameter when it is scheduled.                  *)
ParamsAreOwn ==
    phase = "run" => \A b \in Block : \A leaf \in Mentioned(b) :
                        leaf[1] = "param" => leaf[2] = b

\* Leaves of the values block b really computes.
Used(b) == (IF Stores(b) THEN {event[b].leaf} ELSE {})
             \cup {exits[b][r].leaf : r \in {x \in LiveOut(b) : ~RestoredAnyway(b, x)}}

(* Operand::Param, "a guest register as it was on entry to this block": what  *)
(* a block reads for its own parameter is that register.                      *)
ParamIsArrival ==
    phase = "run" => \A q \in Reg :
        Param(at, q) \in Used(at) \cap params => machine[ReadOf(at, q)] = machine[q]

(* Operand::Entry, "a guest register on entry to the whole function": what a  *)
(* block reads for it is the value the register had when the function began.  *)
EntryIsFunctionEntry ==
    phase = "run" => \A q \in Reg :
        InitReg(q) \in Used(at) => machine[ReadOf(at, q)] = Expr(InitReg(q), 0)

(* "Eliminate trivial phis": when the loop is done, no block mentions a       *)
(* parameter it eliminated.                                                   *)
EliminatedIsGone ==
    phase = "simplify" /\ Trivial = {} =>
        \A b \in Block : \A leaf \in Mentioned(b) : leaf[1] = "param" => leaf \in params
=============================================================================
