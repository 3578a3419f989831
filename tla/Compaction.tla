----------------------------- MODULE Compaction --------------------------------
(***************************************************************************)
(* The arena of ir/expr.rs as the evaluator of ir/lift.rs keeps it: nodes  *)
(* made once each, the references to them in the machine state, the events,*)
(* the pins and the entry parameters, the caches keyed by reference, and   *)
(* the compaction that moves every node when there are too many.           *)
(*                                                                         *)
(* What the rules of `bin` rewrite is Folding's: here an operator is a     *)
(* commutative sum, folded when both sides are constants, or a load.  No   *)
(* address is of the image, so a split of an address (`Tried`) is tried    *)
(* and given up.                                                           *)
(***************************************************************************)
EXTENDS Integers, SequencesExt

CONSTANTS Regs,        \* the references of the machine state, numbered from 1
          Code,        \* instructions: [op, to, from], registers and a sequence of registers
          NodeLimit,   \* more nodes than that are compacted
          DepthLimit,  \* MAX_SAFE_LIVE_DAG_DEPTH
          Depth        \* instructions run

ASSUME RegsAssumption == IsFiniteSet(Regs) /\ Regs = 1..Cardinality(Regs)
ASSUME CodeAssumption == \A i \in Code : /\ i.to \in Regs /\ i.from \in Seq(Regs)
                                         /\ i.op = "add" => Len(i.from) = 2
                                         /\ i.op \in {"load", "store"} => Len(i.from) = 1

VARIABLES nodes,       \* the arena: [op, of, kids], kids before parents
          opaques, gen, blocks,
          refs,        \* who refers to which node
          pinned,      \* the value of each pin, in order
          memo, dep,   \* what substitution gave, and whether it found a pin
          watermark,   \* the number of pins they are for
          known,       \* facts about nodes kept for them: here all of what they mean
          meant,       \* what each reference meant when it was made
          last,        \* what the substitutions of the last step should have given, and gave
          stopped, steps

vars == <<nodes, opaques, gen, blocks, refs, pinned, memo, dep, watermark, known, meant, last, stopped, steps>>

Reg(r) == <<"reg", r>>
Event(n) == <<"event", n>>
Pin(n) == <<"pin", n>>
Retained(r) == <<"retained", r>>
Of(kind) == {h \in DOMAIN refs : h[1] = kind}

\* One function over another, and a function of one element.
Over(f, g) == [x \in DOMAIN f \cup DOMAIN g |-> IF x \in DOMAIN f THEN f[x] ELSE g[x]]
At(x, y) == [k \in {x} |-> y]
None == [i \in {} |-> 0]

Node(op, of, kids) == [op |-> op, of |-> of, kids |-> kids]
Const(n) == Node("const", n, <<>>)

-----------------------------------------------------------------------------
(* What a node means: a tree, in which the order of a sum is not seen. *)
Added(t, u) == IF t[1] = "const" /\ u[1] = "const" THEN <<"const", t[2] + u[2], <<>>>> ELSE <<"add", 0, {t, u}>>

Tree(n, kids) == IF n.op = "add" THEN Added(kids[1], kids[2]) ELSE <<n.op, n.of, kids>>

\* The value of a pin on a node, of the first if there are two.
PinOf(pins, i) == pins[Min({n \in DOMAIN pins : pins[n].node = i})].value
IsPinned(pins, i) == \E n \in DOMAIN pins : pins[n].node = i

\* What each node means where the pinned ones have their values.
Pinning(ns, pins) ==
    LET m[i \in DOMAIN ns] == IF IsPinned(pins, i) THEN Tree(Const(PinOf(pins, i)), <<>>)
                              ELSE Tree(ns[i], [k \in DOMAIN ns[i].kids |-> m[ns[i].kids[k]]])
    IN  m

Meanings(ns) == Pinning(ns, <<>>)

\* Nodes reached from each node, through those that are open.
Reach(ns, open) ==
    LET r[i \in DOMAIN ns] == {i} \cup IF i \in open THEN UNION {r[k] : k \in ToSet(ns[i].kids)} ELSE {}
    IN  r

-----------------------------------------------------------------------------
(* Construction. *)
Intern(ns, n) ==
    IF \E i \in DOMAIN ns : ns[i] = n THEN [nodes |-> ns, ref |-> CHOOSE i \in DOMAIN ns : ns[i] = n]
    ELSE [nodes |-> Append(ns, n), ref |-> Len(ns) + 1]

IsConst(ns, a) == ns[a].op = "const"

\* Constants on the right, otherwise by reference.
Ordered(ns, a, b) == IF (IsConst(ns, a) /\ ~IsConst(ns, b)) \/ (~IsConst(ns, b) /\ a > b) THEN <<b, a>> ELSE <<a, b>>

Bin(ns, a, b) ==
    IF IsConst(ns, a) /\ IsConst(ns, b) THEN Intern(ns, Const(ns[a].of + ns[b].of))
    ELSE Intern(ns, Node("add", 0, Ordered(ns, a, b)))

Rebuilt(ns, n, kids) == IF n.op = "add" THEN Bin(ns, kids[1], kids[2]) ELSE Intern(ns, Node(n.op, n.of, kids))

-----------------------------------------------------------------------------
(* Substitution of the pins, with its memo. *)
Pins == [n \in DOMAIN pinned |-> [node |-> refs[Pin(n)], value |-> pinned[n]]]

Depends(ns, pins, deps) ==
    LET d[i \in DOMAIN ns] == IF i \in DOMAIN deps THEN deps[i] ELSE IsPinned(pins, i) \/ \E k \in ToSet(ns[i].kids) : d[k]
    IN  d

Caches(ns, m, d) == [nodes |-> ns, memo |-> m, dep |-> d]

\* One node: c is the caches so far.
SubstNode(c, i, pins, depends) ==
    LET n == c.nodes[i]
        kids == [k \in DOMAIN n.kids |-> c.memo[n.kids[k]]]
        made == IF ~depends[i] \/ (~IsPinned(pins, i) /\ kids = n.kids) THEN [nodes |-> c.nodes, ref |-> i]
                ELSE IF IsPinned(pins, i) THEN Intern(c.nodes, Const(PinOf(pins, i)))
                ELSE Rebuilt(c.nodes, n, kids)
    IN  IF i \in DOMAIN c.memo THEN c
        ELSE Caches(made.nodes, Over(c.memo, At(i, made.ref)), Over(At(i, depends[i]), c.dep))

\* The nodes it comes to.
Visited(c, r, pins, depends) ==
    Reach(c.nodes, {i \in DOMAIN c.nodes : depends[i] /\ i \notin DOMAIN c.memo /\ ~IsPinned(pins, i)})[r]

\* Kids first.
Substituted(c, r, pins) ==
    LET d == Depends(c.nodes, pins, c.dep)
        visited == Visited(c, r, pins, d)
        upTo[i \in 0..r] == IF i = 0 THEN c ELSE IF i \in visited THEN SubstNode(upTo[i - 1], i, pins, d)
                            ELSE upTo[i - 1]
    IN  upTo[r]

\* Mutation: the memo outlives the pins it was made for.
CurrentAlways == Caches(nodes, memo, dep)

Current == IF watermark = Len(pinned) THEN Caches(nodes, memo, dep) ELSE Caches(nodes, None, None)

\* substitute: nothing to do without pins, or for a constant.
Substitute(r) ==
    LET idle == pinned = <<>> \/ IsConst(nodes, r)
        c == IF idle THEN Caches(nodes, memo, dep) ELSE Substituted(Current, r, Pins)
    IN  [nodes |-> c.nodes, memo |-> c.memo, dep |-> c.dep,
         ref |-> IF idle THEN r ELSE c.memo[r], mark |-> IF idle THEN watermark ELSE Len(pinned)]

Right(r, s, pins) == <<Pinning(nodes, pins)[r], Meanings(s.nodes)[s.ref]>>

\* A split of an address on a node in it, both ways; each starts and ends without a memo.
With(cand, v) == Append(Pins, [node |-> cand, value |-> v])

Tried(c, addr, cand) ==
    LET one == Substituted(Caches(c.nodes, None, None), addr, With(cand, 0))
        two == Substituted(Caches(one.nodes, None, None), addr, With(cand, 1))
        m == Meanings(two.nodes)
    IN  [nodes |-> two.nodes, memo |-> None, dep |-> None,
         seen |-> {<<Pinning(c.nodes, With(cand, 0))[addr], m[one.memo[addr]]>>,
                   <<Pinning(c.nodes, With(cand, 1))[addr], m[two.memo[addr]]>>}]

-----------------------------------------------------------------------------
Init ==
    /\ nodes = [r \in 1..Cardinality(Regs) |-> Node("init", r, <<>>)]
    /\ refs = [h \in {Reg(r) : r \in Regs} |-> h[2]]
    /\ meant = [h \in DOMAIN refs |-> Meanings(nodes)[refs[h]]]
    /\ opaques = 0 /\ gen = 0 /\ blocks = 0 /\ pinned = <<>>
    /\ memo = None /\ dep = None /\ known = None /\ watermark = 0
    /\ last = {} /\ stopped = FALSE /\ steps = 0

Running == ~stopped /\ steps < Depth /\ Len(nodes) <= NodeLimit

\* References made or changed by a step.
Refer(new) ==
    /\ refs' = Over(new, refs)
    /\ meant' = LET m == Meanings(nodes') IN Over([h \in DOMAIN new |-> m[new[h]]], meant)

NextEvent == Cardinality(Of("event")) + 1

\* A result that is not known, of an instruction boxed or called.
Opaque(r) ==
    /\ Running
    /\ LET made == Intern(nodes, Node("opaque", opaques + 1, <<>>)) IN nodes' = made.nodes /\ Refer(At(Reg(r), made.ref))
    /\ opaques' = opaques + 1
    /\ last' = {} /\ steps' = steps + 1
    /\ UNCHANGED <<gen, blocks, pinned, memo, dep, watermark, known, stopped>>

Add(r, a, b) ==
    /\ Running
    /\ LET made == Bin(nodes, refs[Reg(a)], refs[Reg(b)]) IN nodes' = made.nodes /\ Refer(At(Reg(r), made.ref))
    /\ last' = {} /\ steps' = steps + 1
    /\ UNCHANGED <<opaques, gen, blocks, pinned, memo, dep, watermark, known, stopped>>

\* The events of a load or a store.
Events(addr, value) == Over(At(Event(NextEvent), addr), At(Event(NextEvent + 1), value))

\* The load at addr, with the caches c.
Loaded(r, addr, c) ==
    LET made == Intern(c.nodes, Node("load", gen, <<addr>>))
    IN  /\ nodes' = made.nodes /\ memo' = c.memo /\ dep' = c.dep
        /\ Refer(Over(At(Reg(r), made.ref), Events(addr, made.ref)))

\* A load: the address with the pins in it, and at most one attempt to split it.
LoadReg(r, a) ==
    /\ Running
    /\ LET s == Substitute(refs[Reg(a)])
           under == Reach(s.nodes, DOMAIN s.nodes)[s.ref]
           right == Right(refs[Reg(a)], s, Pins)
       IN  /\ \/ Loaded(r, s.ref, s) /\ last' = {right}
              \/ \E cand \in {i \in under : ~IsConst(s.nodes, i) /\ ~IsPinned(Pins, i)} :
                    LET t == Tried(s, s.ref, cand)
                    IN  Loaded(r, s.ref, t) /\ last' = {right} \cup t.seen
           /\ watermark' = s.mark
           /\ known' = LET m == Meanings(s.nodes) IN Over([i \in under |-> m[i]], known)
    /\ steps' = steps + 1
    /\ UNCHANGED <<opaques, gen, blocks, pinned, stopped>>

StoreReg(a, b) ==
    /\ Running
    /\ nodes' = nodes
    /\ Refer(Events(refs[Reg(a)], refs[Reg(b)]))
    /\ gen' = gen + 1
    /\ last' = {} /\ steps' = steps + 1
    /\ UNCHANGED <<opaques, blocks, pinned, memo, dep, watermark, known, stopped>>

\* A branch that cannot be decided: the block's events are taken, a copy of the evaluator goes on with the
\* predicate pinned, at a join with parameters in the registers.
Fork(a, v, join) ==
    /\ Running
    /\ LET s == Substitute(refs[Reg(a)])
           \* Regs are numbered from 1.
           params == [r \in 1..Cardinality(Regs) |-> Node("param", blocks * Cardinality(Regs) + r, <<>>)]
           \* Only the parameters that replace the block's own.
           kept == {h \in DOMAIN refs : h[1] \in {"reg", "pin"}}
           seeds == IF join THEN {Reg(r) : r \in Regs} \cup {Retained(r) : r \in Regs} ELSE {}
           new == Over(At(Pin(Len(pinned) + 1), s.ref), [h \in seeds |-> Len(s.nodes) + h[2]])
       IN  /\ ~IsConst(s.nodes, s.ref)
           /\ nodes' = IF join THEN s.nodes \o params ELSE s.nodes
           /\ refs' = [h \in DOMAIN new \cup kept |-> Over(new, refs)[h]]
           /\ meant' = LET m == Meanings(nodes') IN [h \in DOMAIN new \cup kept |-> IF h \in DOMAIN new THEN m[new[h]] ELSE meant[h]]
           /\ memo' = s.memo /\ dep' = s.dep /\ watermark' = s.mark
           /\ last' = {Right(refs[Reg(a)], s, Pins)}
    /\ pinned' = Append(pinned, v)
    /\ known' = None
    /\ blocks' = blocks + 1
    /\ steps' = steps + 1
    /\ UNCHANGED <<opaques, gen, stopped>>

-----------------------------------------------------------------------------
(* Compaction. *)
Roots == {refs[h] : h \in DOMAIN refs}
Live == LET reach == Reach(nodes, DOMAIN nodes) IN UNION {reach[i] : i \in Roots}

\* How deep the term of each node is.
Depths(ns) == LET d[i \in DOMAIN ns] == 1 + Max({0} \cup {d[k] : k \in ToSet(ns[i].kids)}) IN d

\* Mutation: kids first, but otherwise in the order a traversal finds them.
BeforeFound(i, j, d) == d[i] < d[j] \/ (d[i] = d[j] /\ i > j)

\* In the order they were made, which has kids first.
Before(i, j, d) == i < j

Remap ==
    LET d == Depths(nodes)
        live == Live
    IN  [i \in live |-> 1 + Cardinality({j \in live : Before(j, i, d)})]

\* Mutation: the pins still name the nodes of before.
MovedButPins(h, remap) == IF h[1] = "pin" THEN refs[h] ELSE remap[refs[h]]

Moved(h, remap) == remap[refs[h]]

Facts == None

Compact ==
    /\ ~stopped /\ Len(nodes) > NodeLimit
    /\ LET remap == Remap
       IN  /\ nodes' = [n \in 1..Cardinality(DOMAIN remap) |->
                            LET o == nodes[CHOOSE i \in DOMAIN remap : remap[i] = n] IN Node(o.op, o.of, [k \in DOMAIN o.kids |-> remap[o.kids[k]]])]
           /\ refs' = [h \in DOMAIN refs |-> Moved(h, remap)]
    /\ memo' = None /\ dep' = None /\ watermark' = Len(pinned)
    /\ known' = Facts
    /\ last' = {}
    /\ stopped' = (Len(nodes') > NodeLimit \/ Max(ToSet(Depths(nodes'))) > DepthLimit)
    /\ UNCHANGED <<opaques, gen, blocks, pinned, meant, steps>>

Instr(i) ==
    \/ i.op = "opaque" /\ Opaque(i.to)
    \/ i.op = "add" /\ Add(i.to, i.from[1], i.from[2])
    \/ i.op = "load" /\ LoadReg(i.to, i.from[1])
    \/ i.op = "store" /\ StoreReg(i.to, i.from[1])
    \/ i.op = "fork" /\ \E v \in {0, 1}, join \in BOOLEAN : Fork(i.to, v, join)

Next == (\E i \in Code : Instr(i)) \/ Compact

Spec == Init /\ [][Next]_vars

-----------------------------------------------------------------------------
(* Every reference kept across a compaction, in a register, an event, a    *)
(* pin or an entry parameter, means what it meant when it was made.        *)
HoldersKeepMeaning ==
    LET m == Meanings(nodes) IN \A h \in DOMAIN refs : refs[h] \in DOMAIN nodes /\ m[refs[h]] = meant[h]

(* "structural equality is pointer equality", on which pins, predicates    *)
(* and cancellation rest: one thing is never two nodes, also when it is    *)
(* built again after a compaction.                                         *)
OneNodeEach == LET m == Meanings(nodes) IN Cardinality({m[i] : i \in DOMAIN nodes}) = Len(nodes)

(* Nothing kept by reference is stale: a substitution with its memo gives  *)
(* what one without would, and a fact is about the node it is kept for.    *)
CachesAreTrue ==
    /\ \A p \in last : p[1] = p[2]
    /\ LET m == Meanings(nodes) IN \A i \in DOMAIN known : i \in DOMAIN nodes /\ known[i] = m[i]
===============================================================================
