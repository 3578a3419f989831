------------------------------ MODULE Explore -------------------------------
(***************************************************************************)
(* vm/explore.rs, `recover` and `recover_pass_with`: the worklist that     *)
(* discovers a function's blocks, the budgets that cut it short, the       *)
(* predecessor lists it leaves behind, and the second pass that re-runs it *)
(* knowing the joins of the first.                                         *)
(*                                                                         *)
(* What evaluating a block does is the evaluator's business (ir/lift.rs):  *)
(* here a block stops in any way the evaluator can report.  Expressions,   *)
(* events and register images are left out; block identities, edges and    *)
(* the order of the work are kept.                                         *)
(***************************************************************************)
EXTENDS Integers, Sequences, FiniteSets, SequencesExt

CONSTANTS Id,           \* block identities, ordered as `BlockId` is: by handler first
          Entry,        \* the identity of the block at the VM entry
          NoId,         \* `from` of the first task
          NativeForks,  \* <<taken, not taken>> a native jcc may have
          SymbolicForks,\* <<bit set, bit clear>> a pinned flag may fold to
          Tables,       \* the arms a narrow index may enumerate, in order
          BlockBudgets, \* the limits on the number of blocks to consider
          OnlyLoses     \* whether a cut "can only lose folding power, never gain it"

ASSUME IdAssumption == Id \subseteq Nat /\ IsFiniteSet(Id) /\ Entry \in Id /\ NoId \notin Id
ASSUME ForkAssumption == NativeForks \cup SymbolicForks \subseteq Id \X Id
ASSUME TableAssumption == Tables \subseteq Seq(Id) /\ \A t \in Tables : Len(t) >= 2
ASSUME BudgetAssumption == BlockBudgets \subseteq Nat \ {0} /\ OnlyLoses \in BOOLEAN

VARIABLES blockBudget,
          pass,       \* 1 discovers the shape, 2 cuts at its joins
          queue,      \* tasks to evaluate; the last one is next
          visited,    \* identities a task was popped for
          blocks,     \* the blocks so far: identity and terminator
          edges,      \* what predecessor lists are made of
          backEdges,
          timedOut,
          cutShort,   \* a budget ended the pass with work still queued
          cut,        \* where this pass cuts parameters
          known,      \* terminators the first pass found, by identity
          knownShort, \* the first pass was cut short, and
          knownLate,  \* ran out of time; `recover` drops both with that graph
          done        \* `recover` has returned

graph == <<visited, blocks, edges, backEdges>>
given == <<blockBudget, cut, known, knownShort, knownLate>>
vars == <<pass, queue, graph, timedOut, cutShort, given, done>>

-----------------------------------------------------------------------------
(* Stops, terminators and tasks *)

Stop(kind, arms) == [kind |-> kind, arms |-> arms]

\* Every way `run_retaining` can stop.  Only an ancestor is reported as a back edge.
Stops(ancestors) ==
    {Stop("return", <<>>), Stop("unsupported", <<>>), Stop("deadline", <<>>), Stop("opaque", <<>>)}
      \cup {Stop("backedge", <<a>>) : a \in ancestors}
      \cup {Stop("native", f) : f \in NativeForks}
      \cup {Stop("twoway", f) : f \in SymbolicForks}
      \cup {Stop("multiway", t) : t \in Tables}

Unresolved == [kind |-> "unresolved", to |-> <<>>]
Term(kind, to) == [kind |-> kind, to |-> to]

\* `if !targets.contains(&id) { targets.push(id) }`: each target once, in the
\* order in which they first appear.
FirstAt(arms) == {i \in DOMAIN arms : \A j \in 1..i-1 : arms[j] # arms[i]}
Distinct(arms) ==
    [n \in 1..Cardinality(FirstAt(arms)) |->
        arms[CHOOSE i \in FirstAt(arms) : Cardinality({j \in FirstAt(arms) : j <= i}) = n]]

\* The terminator a stop becomes when nothing has to be adopted.
Terminator(stop) ==
    LET targets == Distinct(stop.arms)
    IN  CASE stop.kind = "return"   -> Term("return", <<>>)
          [] stop.kind = "backedge" -> Term("backedge", stop.arms)
          [] stop.kind = "native"   -> Term("branch", stop.arms)
          [] stop.kind = "twoway"   -> IF Len(targets) = 1 THEN Term("jump", targets)
                                       ELSE Term("branch", stop.arms)
          [] stop.kind = "multiway" -> IF Len(targets) = 1 THEN Term("jump", targets)
                                       ELSE Term("switch", targets)
          [] OTHER                  -> Unresolved

\* What the stop itself queues, in order: `split_two_way` continues one side
\* only when both are the same block.
Forked(stop) == CASE stop.kind = "twoway" -> Distinct(stop.arms)
                  [] stop.kind \in {"native", "multiway"} -> stop.arms
                  [] OTHER -> <<>>

\* Mutation: half of an adopted branch forgotten.
AdoptedHalf(id) == IF known[id].kind = "branch" THEN Term("adopted", <<known[id].to[1]>>)
                   ELSE known[id]

\* `adopt_known`: the first pass's terminator in place of a lost one.
Adopted(id) ==
    LET prev == known[id]
    IN  CASE prev.kind = "branch" -> Term("adopted", prev.to)
          [] prev.kind = "switch" -> Term("adoptedswitch", prev.to)
          [] prev.kind = "return" -> Term("adoptedreturn", <<>>)
          [] OTHER                -> prev
Requeued(id) == IF known[id].kind = "backedge" THEN <<>> ELSE known[id].to

Task(id, from, ancestors) == [id |-> id, from |-> from, ancestors |-> ancestors]

\* A task for each target, and another for a jump's: the continuation.
Children(task, targets, term) ==
    [i \in 1..Len(targets) + (IF term.kind = "jump" THEN 1 ELSE 0) |->
        Task(IF i <= Len(targets) THEN targets[i] ELSE term.to[1],
             task.id, task.ancestors \cup {task.id})]

Block(id, term) == [id |-> id, term |-> term]

-----------------------------------------------------------------------------
StartPass == /\ queue = <<Task(Entry, NoId, {})>>
             /\ visited = {} /\ blocks = <<>> /\ edges = {} /\ backEdges = {}
             /\ timedOut = FALSE /\ cutShort = FALSE

Init == /\ blockBudget \in BlockBudgets
        /\ pass = 1 /\ cut = {} /\ known = <<>> /\ done = FALSE
        /\ knownShort = FALSE /\ knownLate = FALSE
        /\ StartPass

Top == Last(queue)
Pop == queue # <<>> /\ ~cutShort

\* Once the timer has run out it stays so: the next task is the last.
InTime == Pop /\ ~timedOut

\* Mutations: no edge for a block already there; the edge the wrong way round.
ArriveOnce(task) == edges' = IF task.from = NoId \/ task.id \in visited THEN edges
                             ELSE edges \cup {<<task.from, task.id>>}
ArriveReversed(task) == edges' = IF task.from = NoId THEN edges
                                 ELSE edges \cup {<<task.id, task.from>>}

\* The edge is recorded when the task is taken up, not when it is queued.
Arrive(task) == edges' = IF task.from = NoId THEN edges ELSE edges \cup {<<task.from, task.id>>}

\* The work budget or the timer: a placeholder for this task, and the rest of
\* the queue is abandoned.  Work is charged per evaluated block.
Expire == /\ Pop
          /\ \E late \in BOOLEAN : /\ ~late => visited # {}
                                   /\ timedOut' = (timedOut \/ late)
          /\ blocks' = Append(blocks, Block(Top.id, Unresolved))
          /\ cutShort' = TRUE
          /\ UNCHANGED <<pass, queue, visited, edges, backEdges, given, done>>

\* Mutation: the task stays on the queue.
RevisitForever == /\ InTime
                  /\ Top.id \in visited
                  /\ Arrive(Top)
                  /\ UNCHANGED <<pass, queue, visited, blocks, backEdges, timedOut,
                                 cutShort, given, done>>

Revisit == /\ InTime
           /\ Top.id \in visited
           /\ Arrive(Top)
           /\ backEdges' = IF Top.from = NoId THEN backEdges
                           ELSE backEdges \cup {<<Top.from, Top.id>>}
           /\ queue' = Front(queue)
           /\ UNCHANGED <<pass, visited, blocks, timedOut, cutShort, given, done>>

OverBudget == /\ InTime
              /\ Top.id \notin visited
              /\ Len(blocks) >= blockBudget
              /\ Arrive(Top)
              /\ visited' = visited \cup {Top.id}
              /\ blocks' = Append(blocks, Block(Top.id, Unresolved))
              /\ queue' = Front(queue)
              /\ UNCHANGED <<pass, backEdges, timedOut, cutShort, given, done>>

Adoptable(id) == id \in DOMAIN known /\ known[id] # Unresolved

\* A block the first pass resolved, and that is not downstream of a cut, runs
\* as it did there unless the timer stops it.  Below a cut it may stop sooner, at
\* a branch that no longer folds; whether it may do anything else is what
\* OnlyLoses decides.
Stopping(task) ==
    LET asBefore == {s \in Stops(task.ancestors) :
                        Adoptable(task.id) /\ Terminator(s) = known[task.id]}
        unfolded == {s \in Stops(task.ancestors) :
                        s.kind \in {"native", "twoway", "multiway", "opaque", "deadline"}}
    IN  IF asBefore = {} THEN Stops(task.ancestors)
        ELSE IF (task.ancestors \cup {task.id}) \cap cut = {}
             THEN asBefore \cup {Stop("deadline", <<>>)}
        ELSE IF OnlyLoses THEN asBefore \cup unfolded
        ELSE Stops(task.ancestors)

\* One block evaluated.  `covered`: this pass interpreted at least as many
\* steps of it as the first did, without which nothing is adopted.
Evaluate(stop, covered) ==
    LET task    == Top
        adopt   == pass = 2 /\ stop.kind = "opaque" /\ Adoptable(task.id) /\ covered
        term    == IF adopt THEN Adopted(task.id) ELSE Terminator(stop)
        targets == IF adopt THEN Requeued(task.id) ELSE Forked(stop)
        closing == IF stop.kind = "backedge" THEN {<<task.id, stop.arms[1]>>} ELSE {}
        arrived == IF task.from = NoId THEN {} ELSE {<<task.from, task.id>>}
    IN  /\ visited' = visited \cup {task.id}
        /\ edges' = edges \cup arrived \cup closing
        /\ backEdges' = backEdges \cup closing
        /\ timedOut' = (timedOut \/ stop.kind = "deadline")
        /\ blocks' = Append(blocks, Block(task.id, term))
        /\ queue' = Front(queue) \o Children(task, targets, term)
        /\ UNCHANGED <<pass, cutShort, given, done>>

\* Mutation: `visited` is not consulted.
EvaluateAgain == /\ InTime
                 /\ Len(blocks) < blockBudget
                 /\ \E stop \in Stopping(Top) : Evaluate(stop, TRUE)

EvaluateTop == /\ InTime
               /\ Top.id \notin visited
               /\ Len(blocks) < blockBudget
               /\ \E stop \in Stopping(Top), covered \in BOOLEAN : Evaluate(stop, covered)

-----------------------------------------------------------------------------
PassOver == queue = <<>> \/ cutShort

Ids == {blocks[i].id : i \in DOMAIN blocks}
Preds(id) == {p \in Id : <<p, id>> \in edges}

\* `Cfg::block`: the first of the blocks with that identity, as sorted.
Found(id) == LET i == CHOOSE i \in DOMAIN blocks :
                        blocks[i].id = id /\ \A j \in 1..i-1 : blocks[j].id # id
             IN  blocks[i].term

\* Mutation: off by one.
WideJoins == {id \in Ids : Cardinality(Preds(id)) > 2}

Joins == {id \in Ids : Cardinality(Preds(id)) > 1}

\* Without a join the first pass is the answer; otherwise cut there and run again.
EndFirst == /\ PassOver /\ pass = 1 /\ ~done
            /\ IF Joins = {}
               THEN done' = TRUE /\ UNCHANGED <<pass, queue, graph, timedOut, cutShort, given>>
               ELSE /\ pass' = 2
                    /\ cut' = Joins
                    /\ known' = [id \in Ids |-> Found(id)]
                    /\ knownShort' = cutShort /\ knownLate' = timedOut
                    /\ queue' = <<Task(Entry, NoId, {})>>
                    /\ visited' = {} /\ blocks' = <<>> /\ edges' = {} /\ backEdges' = {}
                    /\ timedOut' = FALSE /\ cutShort' = FALSE
                    /\ UNCHANGED <<blockBudget, done>>

EndSecond == /\ PassOver /\ pass = 2 /\ ~done
             /\ done' = TRUE
             /\ UNCHANGED <<pass, queue, graph, timedOut, cutShort, given>>

Returned == done /\ UNCHANGED vars

Work == Revisit \/ OverBudget \/ EvaluateTop \/ EndFirst \/ EndSecond
Next == Work \/ Expire \/ Returned

\* `recover` is one call and runs on, whether or not a budget ever runs out;
\* that it expires is certain only after the evaluator has seen the timer run out.
Spec == Init /\ [][Next]_vars /\ WF_vars(Work \/ (timedOut /\ Expire))

-----------------------------------------------------------------------------
Terminators == [kind : {"return", "backedge", "branch", "jump", "switch", "unresolved",
                        "adopted", "adoptedswitch", "adoptedreturn"}, to : Seq(Id)]

TypeOK == /\ blockBudget \in BlockBudgets /\ pass \in {1, 2}
          /\ queue \in Seq([id : Id, from : Id \cup {NoId}, ancestors : SUBSET Id])
          /\ visited \subseteq Id
          /\ blocks \in Seq([id : Id, term : Terminators])
          /\ edges \subseteq Id \X Id /\ backEdges \subseteq edges
          /\ {timedOut, cutShort, knownShort, knownLate, done} \subseteq BOOLEAN
          /\ cut \subseteq Id /\ DOMAIN known \subseteq Id

\* `Cfg::successors` of the block (or blocks) with an identity.
Succ(id) == UNION {ToSet(blocks[i].term.to) : i \in {j \in DOMAIN blocks : blocks[j].id = id}}

\* b can be reached from a along recovered edges (or is a).
Reaches(a, b) ==
    \A S \in SUBSET Id : a \in S /\ (\A x \in S : Succ(x) \subseteq S) => b \in S

\* What `why_incomplete` accepts before it looks at the shape of the graph.
Complete == done /\ ~timedOut /\ \A i \in DOMAIN blocks : blocks[i].term # Unresolved

\* Several edges meet in b.
Meeting(b) == \E p, q \in Preds(b) : p # q

(* A block is what its identity says: however many paths, forks, requeued     *)
(* jump targets and adopted edges lead to it, it is evaluated once per pass.  *)
(* Only the placeholder of a budget that ran out may stand for a block that   *)
(* is there already; it comes last and, being unresolved, keeps the graph     *)
(* from being taken for a complete one.                                       *)
OneBlockPerId ==
    \A i, j \in DOMAIN blocks : (i < j /\ blocks[i].id = blocks[j].id) =>
        cutShort /\ j = Len(blocks) /\ blocks[j].term = Unresolved

(* No block is recovered that control cannot reach, and everything queued is  *)
(* a successor of the block that queued it, at every moment of either pass.   *)
OnlyReachable ==
    /\ \A b \in Ids : Reaches(Entry, b)
    /\ \A i \in DOMAIN queue : queue[i].from # NoId => queue[i].id \in Succ(queue[i].from)

(* A predecessor list names only blocks that do lead here.                    *)
PredsAreSound == \A e \in edges : e[2] \in Succ(e[1])

(* When the first pass drains its queue, every edge of its graph is a         *)
(* predecessor, so every join is known, and no edge leaves the graph.         *)
FirstPassIsClosed ==
    pass = 1 /\ queue = <<>> /\ ~cutShort =>
        \A b \in Ids : \A t \in Succ(b) : t \in Ids /\ <<b, t>> \in edges

(* If the first pass ran to its end and the second sees the shape it saw,     *)
(* every join is cut: no block is evaluated with the register values of one   *)
(* of several paths.                                                          *)
JoinsCutIfSameShape ==
    done /\ pass = 2 /\ ~knownShort
         /\ (\A id \in Ids : id \in DOMAIN known /\ Succ(id) = ToSet(known[id].to))
        => \A b \in Ids : Meeting(b) => b \in cut

(* Both passes end, even if no budget ever runs out: revisits cost a task     *)
(* each and queue nothing.                                                    *)
Terminates == <>done

-----------------------------------------------------------------------------
(* "The first pass discovers the graph shape; the second re-runs it knowing   *)
(* which blocks are joins, and cuts SSA parameters only there": in a graph    *)
(* accepted as complete, a block with several predecessors has parameters,    *)
(* at least if the first pass was not cut short.                              *)
JoinsAreCut == Complete /\ pass = 2 /\ ~knownShort => \A b \in Ids : Meeting(b) => b \in cut

(* "Set when the wall-clock timer rather than the work budget ended           *)
(* exploration.  The result then depends on machine load": a graph that was   *)
(* cut at the joins of a pass the timer ended says so.                        *)
TimerIsReported == done /\ knownLate => timedOut

(* "Recording the edge ... keeps it visible rather than silently narrowing    *)
(* the PHI": in a graph accepted as complete, a block is a predecessor of     *)
(* each of its successors.                                                    *)
PredsAreComplete == Complete => \A b \in Ids : \A t \in Succ(b) : b \in Preds(t)

(* "Edges that close a loop": the target of a back edge leads to its source.  *)
BackEdgesCloseLoops == done => \A e \in backEdges : Reaches(e[2], e[1])

(* "Distinct blocks that share a handler and a VIP, which should be           *)
(* impossible given that the pair is the block identity."                     *)
IdsAreUnique == done => Len(blocks) = Cardinality(Ids)

(* "index 0 is the function's entry and codegen emits the prologue on it":    *)
(* the blocks are sorted by identity, and the entry comes out first.          *)
EntryIsFirst == Complete => \A b \in Ids : Entry <= b
=============================================================================
