# Verification of tvm-devirt

tvm-devirt reads a protected x86-64 executable, recovers the control flow of a
function from the bytecode a virtual machine interprets, lowers what it
recovered back to native code and writes the result into the file. These
modules model the parts of that pipeline in which an order of steps, a stale
location or a forgotten path produces wrong code without any test noticing.
The models follow a function from the interpretation of its first instruction to
the patched file. TLC checks them on small instances. The arena of terms, recovery,
phis and exits, the block passes, register allocation, block boundaries,
terminators, calls and boxed instructions, the frame layout and the writing of the
image also have proofs, checked by TLAPS, for every number of nodes, blocks,
registers, instructions and functions.

## 1. Inventory

The program runs each function through a pipeline on one thread. Functions are
recovered in a pool of threads that share only the image, which they read, and
nothing is persisted between runs, so what is hard is neither
locking nor recovery. It is sequencing: parallel assignments turned into moves,
worklists that two budgets can end at any task, facts computed in one pass and
used in another, locations that are valid at one instruction and read at the
next, references into an arena whose nodes move; and arithmetic at the edges of
widths, where a rewriting rule or a flag is right for almost every value.

```
discover --> recover (pass 1, pass 2) --> simplify phis --> schedule
   |             ^   evaluator, arena         ir.rs            |
   pe            |   machine state                             v
                 +-- stops                       allocate --> emit --> write back
                                                 regalloc    codegen    writeback
```

| Component (source under `src/src/`) | State it keeps | Operations | What is hard | What makes it correct |
| --- | --- | --- | --- | --- |
| Entry discovery, `vm/discover.rs` | none | scan a section for jumps to VM entries | bytes in the middle of an instruction | only real entries are listed |
| Machine state, `vm/state.rs` | registers, flags, xmm halves, bytes of memory as parts of values | concrete loads and stores, forget, remap of references | overlapping stores of several widths, partial loads | a load returns the bytes last stored |
| Expression arena, `ir/expr.rs` | hash-consed nodes, block leaves | build and fold, substitute, rewrite, graft, compact, known bits | rewriting through a map, references that outlive a compaction | folding keeps values; a reference means one value |
| Evaluator, `ir/lift.rs` | the state, events, step counters, deadline | interpret one instruction, box it, report a stop | deciding when to give up; reads before effects | events in order, stops at real forks |
| Recovery, `vm/explore.rs` | queue, visited, blocks, edges, back edges, two budgets; joins and terminators of pass 1 | pop, revisit, evaluate, split, adopt, finish | edges recorded late, a queue abandoned at any task, results of one pass used by another | each block once, predecessors complete, joins cut, termination |
| Graph and phis, `ir/ir.rs` | blocks, exits, events, parameters | `phis`, `simplify_phis`, `remove_dead_params`, `apply_rewrite` | a round's map applied once; loops | values unchanged, leaves available |
| Scheduler, `ir/sched.rs` | instructions, exits, terminator of each block | schedule a block, rename entry reads, prune exits, drop / narrow / eliminate stores, merge returns, thread jumps, drop orphans, fold addresses | each pass assumes the shape of the one before; whole-function facts used per block | outputs of the function unchanged |
| Register allocation, `ir/regalloc.rs` | ranges, busy registers, slots, segments, split copies | `intervals`, `ranges`, `allocate`, `loc_at`, `reconcile` | half-open ends, hints that reuse a busy register, splits, eviction | no two live values share a place, none is destroyed |
| Instruction emission, `codegen/emit.rs` | the assembler | emit one instruction, load arguments, box, borrow scratch registers | fixed registers, borrowing when none is free | operands read what they should, nothing live is lost |
| Terminators, `codegen/control.rs` | | boundary moves, compare, branch, switch, return, tail call | moves before or after the comparison; moves left out | successors find their registers |
| Function emission, `codegen/function.rs`, `operands.rs` | save set, marks on emitted instructions | prologue, blocks, split copies, frame-traffic peepholes | scanning emitted code for dead stores | as before the peepholes |
| Frame layout, `codegen/layout.rs` | offsets | compute the frame, map slots to displacements | areas of several sizes, alignment | areas disjoint, rsp aligned |
| Unwind data, `codegen/unwind.rs` | | measure a prologue, encode it | slot counts by size | the encoding describes the prologue |
| Writeback, `binary/writeback.rs` | image bytes, redirects, report, function table | recover all, probe, emit, patch trampolines, append, checksum | a second emission at addresses of the first, partial failure | addresses, trampolines and unwind entries agree |
| PE, disassembly, `binary/pe*.rs`, `disasm.rs` | image bytes | parse, read and write | file format | |
| Command line, `main.rs`, `cli/*.rs` | | parse arguments, print | | |

Components interact by calls and by the data they leave behind:

- the evaluator builds terms through the arena's constructors, keeps references
  to them in registers, flags, bytes, events and pins, and compacts the arena
  between instructions, which renumbers all of those; loads consult the arena's
  record of stores, so that two loads of one address are one node only if nothing
  was stored between them;
- recovery hands the evaluator the set of a block's ancestors and receives a
  stop; its second pass takes the joins and terminators of the first;
- phi simplification reads the predecessor lists that recovery recorded;
- the scheduler reads expressions whose leaves name registers as of an earlier
  point (block entry, function entry) and chooses which register to read *now*;
- the allocator gives every operand a location valid at a position; emission
  resolves operands at that position but emits several instructions for it;
- terminators take `reconcile`'s list and may leave moves out;
- emission takes clobber facts from the allocator and chooses scratch registers
  from what the allocator says is free.

## 2. Modules

| Module | Models | State and actions against the code |
| --- | --- | --- |
| `Expr` | the terms of `ir/expr.rs`: interning, `fold_bin`, `known_zero`, `known_one` | pure operators; a node is a record with the known bits remembered for it, and a value the set of its one bits |
| `Folding` | every constructor of the arena with its identities (`simplify_bin` and its helpers, `not`, `un`, `select`, `zext`, `sext`, `trunc`) and `rewrite` | `acc` is a term being built; `Binary`, `Unary`, `Resize`, `Choice` are calls of a constructor, `Save` keeps a term as an operand; `means` is what the operations mean |
| `Processor` | external: what an x86 processor does on the integer instructions | pure operators on numbers: the reference of `Alu` |
| `Alu` | the arithmetic arms of `Emulator::step`, flags, partial registers, stack words (`lift.rs`), packed flags (`state.rs`) | `lifted` and `machine` run one instruction side by side in every `Step` |
| `Evaluator` | loads and stores, substitution, predicate splits, SSE moves, boxed instructions, calls (`lift.rs`); tracked bytes (`state.rs`); load generations (`expr.rs`); sections as `pe.rs` reports them | `held` is the evaluator, `machine` the guest's machine, one instruction per `Step`; `said` is what its events recorded |
| `EvaluatorProofs` | | theorems about `Evaluator` |
| `Compaction` | interning, compaction and renumbering (`expr.rs`, `lift.rs`, `state.rs`); `subst_rec` with its caches, forks (`explore.rs`) | `nodes` is the arena and `refs` every holder of a reference; an action per instruction that makes, keeps or replaces nodes, and `Compact` |
| `CompactionProofs` | | theorems about `Compaction` |
| `ParallelAssign` | what a block boundary promises | one action: all exits at once |
| `Reconcile` | `reconcile` (regalloc.rs) and the meaning of `emit_moves_opts` | `pending` is the list, keyed by destination; `EmitReady` and `BreakCycle` are the two arms of the loop, and each executes what it emits on `machine`. Refines `ParallelAssign`. |
| `Terminators` | `emit_terminator` with `strip_rsp`, `move_reads`, `move_writes`, `branch_reads`, `cmp_scratch`, `emit_restores`; `saved_registers`; the list of targets `split_multiway` makes | extends `Reconcile`: when the moves are sequenced (`Sequence`), one action per arm of the terminator (`Return`, `AdoptedReturn`, `TailCall`, `Jump`, `BranchBeforeMoves`, `BranchAfterMoves`, `Switch`, `Refuse`) runs what that arm emits on `cpu` |
| `Emission` | `emit_instr` for computing instructions: `with_spilled_dst`, `ensure_reg`, `emit_bin_into`, `emit_rdx_rax_op`, `emit_shift_by_reg`, `emit_un_into`, `emit_cast`, `emit_select_into`, `emit_load`, `emit_store` | one action per kind of instruction; each runs on `contents`, in order, the moves, exchanges and operations that are emitted for it |
| `CodegenProofs` | | theorems about `Reconcile`, `Terminators` and `Emission` |
| `CopyLoop` | the copy loop shared by `emit_call_args` and `emit_boxed_defs` | `pending`, `machine`; `Mov` and `Xchg` are the two arms; the parameter `drop` says whether the caller has the final `retain` |
| `NativeSite` | `Instr::Call` and `Instr::Boxed` in `emit_instr` | extends `CopyLoop`: `Copy`, `Load` = `emit_call_args`; `Call` = `emit_call`; `Address`, `Access` = `emit_boxed` with a memory operand; `Produce`, `Store`, `Settle`, `Settled` = `emit_boxed_defs` |
| `LinearScan` | `intervals`, `ranges`, `allocate`, split copies | `Allocate` takes one range off the work list: `GiveHinted`, `GiveFree`, `Evict` or `SpillSelf`; then `SplitCopy`, `Copied` and `Execute` run the block with the result |
| `AllocationProofs` | | theorems about `LinearScan`, about `NativeSite`, and about `FrameLayout`, the frame the sites are in |
| `Explore` | `recover`, `recover_pass_with` | `Revisit`, `OverBudget`, `EvaluateTop`, `Expire` are the ways one task can go; `EndFirst` and `EndSecond` end a pass |
| `ExploreProofs` | | theorems about `Explore` |
| `Lowering` | `simplify_phis`, `remove_dead_params`, `rename_entry_reads`, `prune_dead_exits`, and the leaves `Scheduler::value` reads | `Simplify`, `RemoveDeadParams`, `PruneRound` are the rounds; `Run` executes guest code and emitted code side by side |
| `LoweringProofs` | | theorems about `Lowering` |
| `FrameLayout` | the sizes and offsets of `FrameLayout::full` and `private_ranges` | pure operators over `Layout` |
| `FrameTraffic` | `optimize_frame_traffic_with`: `mark_scratch_roundtrips`, `PrivateSlots`, `mark_dead_private_stores` | `code` is a function as the emitter lays it out; each `Optimize` is a round of both passes and marks instructions `dead`; `Step` runs the code with and without them side by side (`before`, `after`) |
| `FrameStores` | `analyze_frame_escapes`, `analyze_frame_reads`, `drop_write_only_frame_slots`, `narrow_partially_dead_stores`, `eliminate_dead_with` | `DropWriteOnly`, `Narrow`, `Eliminate`, one pass each |
| `BlockPasses` | `merge_identical_returns`, `thread_empty_jumps`, `drop_unreachable` | `blocks` is the list of blocks; one action per pass, in the order `schedule_counted` calls them; then `Walk` follows control through `recovered` and `blocks` side by side |
| `PassesProofs` | | theorems about `BlockPasses` and about `FrameTraffic` |
| `Writeback` | `write_devirt` and `CallRedirects` | `Recover` is one task of the pool; `Probe` and `Emit` are one turn each of the two emission loops, `Describe` builds the function table, `Patch` is one turn of the loop over trampolines |
| `WritebackProofs` | | theorems about `Writeback` |

Composition: `Terminators` extends `Reconcile`, which implements
`ParallelAssign`; `FrameTraffic` extends `FrameLayout`, `NativeSite` extends
`CopyLoop`, `Folding` extends `Expr`, and `Alu` computes with `Processor` beside
it. `NativeSite` and `Emission` take from `LinearScan` what the latter checks
(live values are in no register the site destroys, and homes are distinct but
for the operand a result may take over); `Lowering` takes from both that a block
computes its exits from the registers at its entry.

`MCX` modules give the constants their values. `MCTerms`, `MCEvaluator`,
`MCEmitted`, `MCScheduled` and `MCBackend` each put several parts of one stage
into one run, every part in behaviours of its own: these parts exchange nothing
while they run, so nothing is lost, and a stage is checked by one run.

What the models abstract:

- A value is named by where it came from (the register at block entry, the
  instruction that defines it, the store that wrote it). Two different sources
  are then always told apart, so a model that never confuses them is right for
  all contents.
- Widths matter in few places and are small there: 2, 3 and 4 bits stand for 8,
  32 and 64 in `Expr` and `Folding` (constants and shift
  counts then fall on every side of every edge); 2, 4, 8 and 16 bits for the four
  widths in `Alu`, so that one is half the next and a byte has a low and a high
  half; bytes in `Evaluator`, `FrameStores` and `FrameTraffic`; the number of
  valid bytes of a register in `Emission`; `Size` in `Lowering`. 16 bits are left
  out of `Folding` and `Emission`, where they mostly take the arms of 32. Addresses in
  `Writeback` are plain integers far below the width of the code's.
- In `Folding` a node is equal to another when it is the same record, which is
  what interning ensures (`NothingTwice` of `CompactionProofs`), and the order of two operands
  that are not constants is that of CHOOSE instead of their numbers: every rule is
  tried on both orders, as in the code.
- In `Alu` a term is the value it has for the registers the program started
  with; what the arena makes of terms is `Folding`'s. In `Evaluator` a term is
  the sequence of its bytes, and arithmetic is left out; an address is known,
  unknown or one of two. In `Compaction` the only operator is a sum.
- In `Emission` a value is named by its operand and an operation builds a term
  over names, valid in so many low bytes; six registers are all that the code can
  tell apart, since it names five. Operands that die in the instruction count as
  live unless the result takes their place, which only asks more. Operations with
  the same emission are one: `mul` stands for `and`, `or`, `xor`, `shl` for all
  shifts and rotates, `ult` for comparisons, `div` and `rem` for what is done in
  rdx:rax.
- What an instruction computes is left out of the allocator: it defines, reads
  and destroys. What a block's evaluation does is left out of recovery: it stops
  in any way the evaluator can report, given the ancestors it was told.
- In `NativeSite` and `CopyLoop`, the order of the operand list is arbitrary, so
  any ready copy may be first; `Reconcile` keeps register order because which
  register opens a cycle matters to `Terminators`.
- `NativeSite` lets `free_volatile_at` return any free register rather than the
  first of `VOLATILE`: names of registers mean nothing else there.
- In `Terminators` labels always exist, and a jump to the block laid out next is
  arrival there; rsp is never the source of a move, since reads of it are frame
  addresses.
- In `FrameTraffic` the function is made of the shapes the emitter produces under
  register pressure (definitions of a spilled value with rax parked or with a
  free register, reads of a slot, the relocated operand of `emit_bin_into`).
  Blocks are sequences of such units; the run enumerates short ones, the theorems
  hold for all (`Given`, which TLC evaluates for the run's constants).
  Removed instructions stay in `code` and are marked, so jumps keep their
  targets; re-encoding is left out, and so are the indirect jumps and addresses
  of private slots on which the pass gives up.
- In `BlockPasses` a block is its content and its terminator: which of the two
  ways a branch goes is the same wherever the same content led there. Empty
  blocks are not steps of a walk.
- In `Writeback` a body is a length, one call and at most one tail call; only a
  tail call's length depends on where it is and where it leads. Addresses grow
  from the image to the new code, so only one bound of rel32 can be crossed.
- In `Lowering` liveness rounds use the previous round's sets for all blocks;
  the code updates in place and reaches the same least fixpoint.

## 3. Runs

Six runs pass, one per stage of the pipeline.

| Run | Question | Instance | Distinct states |
| --- | --- | --- | --- |
| `terms` | Are the terms the evaluator builds for integer instructions, and what the arena makes of terms, what processor and operations mean? | `Alu`: every form of every instruction, alone and in pairs, from six starting states, and chains of four that set, keep, push, pop and read flags. `Folding`: six families of operations, up to five deep, over two leaves with four values each, with constants, rewritten afterwards | 93 415 |
| `evaluator` | Are registers, memory and SSE halves those of the machine, and do references survive compaction? | `Evaluator`: eight sets of instructions, up to four in a row, over ten cells of stack, data, read-only data, bss and import table. `Compaction`: three registers, an arena compacted at five nodes, five instructions | 306 342 |
| `explore` | Does each pass recover a sound graph, and does recovery end? | 3 identities, forks, one-target forks, a table with a repeated arm, budgets of 2 and 3 blocks | 865 989 |
| `scheduled` | Do guest code and scheduled code agree across blocks; does anybody notice the stores, blocks and edges that were removed? | `Lowering`: 4 blocks in a diamond with a side loop and in a loop, 2 registers, arithmetic mod 4. `FrameStores`: blocks of 3 and 1 instructions, 3 own bytes and 1 of the caller, widths 1 and 2, with and without a leaked address. `BlockPasses`: 4 blocks, every jump, 2 forks, a table, a back edge, returns; each block working or empty | 1 884 728 |
| `boundary` | Do the emitted moves realize the parallel assignment, does every terminator leave with what its successor, the caller or its own decision needs, and does each instruction compute what it says and spare the rest? | `Terminators`: 5 registers, 2 immovable sources and 0, or no location, for every register; every comparison of two operands, tables of 2 and 3 arms. `Emission`: 6 registers, every instruction, every choice of places for its operands and of live registers | 967 295 |
| `backend` | Do fixed registers get their inputs and results get home; is the allocation consistent, and does the block compute with it; does anybody notice the moves that were removed; do calls, unwind entries, trampolines and report agree with where bodies are? | `NativeSite`: 5 registers, 2 slots, 1 immediate; 3 arguments, 2 implicit inputs, 3 results. `LinearScan`: 3 registers (2 volatile), 3 instructions of every kind, values read until every position, entry ranges that end nowhere, at the first or the last instruction or at the exit. `FrameTraffic`: three blocks of up to two shapes, straight, skipped, with an inner, an outer and an endless loop. `Writeback`: 3 functions of 3 lengths, each complete, incomplete or refused, with any tail call; the first trampoline out of reach of far bodies | 1 458 207 |

Why the bounds are enough. Cycles of length 2 to 4 and pairs of 2-cycles, with
trees hanging off them, are all the shapes on which sequencing an assignment can
go wrong, and five registers have them all. Where there are theorems (section 5)
the instances only have to be large enough to show that a property says
something; the theorems cover the rest. Five are
also what a terminator tells apart: the two return registers, a volatile one
before and between them, one the function must preserve, and rsp. An instruction
that is emitted names rax, rcx, rdx, r10 and r11, and a sixth register is the one
it does not name. With three instructions a value can be defined before, survive
and be read after a clobber, and three registers are few enough to evict and to
spill. Three identities make loops, self-loops, diamonds and joins entered from a
loop. Two accesses can overlap in part with two bytes, and three bytes let an
access lie beside both; a store, its reader and a second store need three
instructions, and the second block is the reader that the per-block passes do
not see. For the block passes four blocks make a chain of two empty ones with
something before and behind it, circles of empty blocks with and without the
entry, and two equal returns. Lengths a few bytes below a multiple of 16 are
those at which a shorter jump changes what follows; one longer than a short jump
spans is out of its reach, and three functions have one between, so that a gap
shifts indices. For the frame-traffic pass two definitions in a row that park
rax, a read of part of a store, and a loop around either are what its two marks
depend on; the fixpoint needs two sweeps for one loop.

A rule of the arena looks at a term at most three operators deep and at one or
two others beside it, so terms of up to five operations reach every rule and feed
its result to another; two leaves with the values 0, 3, 5 and 14 take every
combination in every pair of bits. A flag is set by one instruction and read by
another, with one that keeps it and a trip over the stack between: four. Loads
are joined from at most the runs of three stores, hence three or four memory
instructions on cells of eight bytes, with accesses of 2, 4 and 8 that straddle
them. Five nodes are few enough to compact after almost every instruction and
several times in a behaviour.

Bounds: `BlockBudgets` are values of the code's block limit; in `LinearScan` `N`
is the length of the block; `Total` the number of functions of `Writeback`; `Size` the width of arithmetic; `Shape` the lengths of
blocks; `lap` tells consecutive turns of a loop apart; `depth` in the programs of
`Alu` and `Evaluator` and the families of `Folding`, and `Depth` of `Compaction`,
are how many steps a behaviour has; `NodeLimit` and `DepthLimit` are the code's
limits on the arena. The eight rounds of `Optimize` are the code's own limit.

Deadlock is checked in `explore`, `scheduled`, `boundary` and `backend`: their
specifications end in an explicit stuttering step, so a loop that gets stuck is
reported. In particular the arm of `reconcile` for a source that is no register
has no action, and the absence of deadlock shows that it is never taken. In
`terms` and `evaluator`, and in the two findings of those parts, it is not:
programs and terms end where their depth does.

### What the properties say

- *Terms.* `RegistersAgree`: registers, their parts and pushed words are those of
  the processor. `FlagsAgree`: so is every flag that is not opaque, and every
  condition. `RulesKeepMeaning`: a term has, for every value of its leaves, the
  value of the operations that built it, whichever rules fired, and so has its
  rewritten copy. `KnownBitsHold`: bits known of a term are right.
- *Evaluator.* `StateIsTrue`: registers, tracked bytes and SSE halves have the
  values of the machine's; two loads that became one node had better read the
  same. `EventsAreTrue`: what an event records was so when it happened.
- *Arena.* `HoldersKeepMeaning`: every reference means after a compaction what it
  meant. `OneNodeEach`: one thing is never two nodes. `CachesAreTrue`: a
  substitution with its caches gives what one without would.
- *Recovery.* `OneBlockPerId`: no identity is recovered twice, and what a budget
  leaves in place of a block that is there already is last and unresolved, so such
  a graph is never taken for a complete one. `OnlyReachable`, `PredsAreSound`,
  `FirstPassIsClosed`, `JoinsCutIfSameShape`, `Terminates`.
- *Lowering.* `EmittedAgrees`, `NothingReadIsJunk`, `LeavesDominate`.
  `EmittedAgrees` is stated where the leaves are available (`Placed`): see the
  divergences below for what happens elsewhere.
- *Frame stores.* `StorePassesUnseen`: dropping and narrowing stores is unseen in
  every function, eliminating them where frame accesses do not overlap in part.
- *Block passes.* `SameWork`: the walk through the function as left does what the
  walk through the function as recovered does and has the same choices.
  `EveryTargetIsEmitted`: every jump has a label, and the entry stays first.
- *Boundary.* `SourcesIntact`: every pending move still finds its value.
  `Parallel`: refinement of `ParallelAssign`.
- *Terminators.* `ReturnedUnlessSwapDropped`: what the filter at a return keeps.
  `BranchIsExact`: a branch decides on the values at the end of the block,
  whether it is compared before or after the moves. `ScratchSparesMoves`: scratch
  registers of the early comparison are not read by the moves. `ExitsArrive`,
  which also shows that leaving out the moves of rsp is harmless.
  `CallerRegsRestored`: the save set has what only a swap writes, and restores
  come late enough. `SwitchTakesItsArmIfPlain`.
- *Instructions.* `ExactUnlessCrowded`: the result arrives in its home, a store
  writes its value at its address, and every other value stays in full width,
  unless registers run out (`Crowded`, see the divergences).
- *Native sites.* `InputsDelivered`, `OthersKept`, `ResultsHome`.
- *Allocation.* `AllocationConsistent`: no two live items share a place and none
  is in a register an instruction destroys. `LiveValuesInPlace`: run, the block
  finds every value in the one place it is said to be, which also covers the
  order of split copies due together.
- *Frame traffic.* `ReadsAgreeUnlessReread`: whatever an instruction computes
  with is the same with and without the removed moves, unless it reads the
  register a removed pair had restored. `SaveAreaIntact`: the unwinder finds the
  caller's registers in their slots, also in a function that never returns.
- *Writeback.* `CallsLandIfNoneIsShort`: probe and emission agree as long as no
  jump is encoded short, whatever failed in between. `TableDescribesBodies`: the
  function table is sorted and has one entry, with unwind data of its own, per
  body. `PatchedOrReported`: trampolines in reach lead to their bodies, others
  are untouched, a function without a body is reported for one reason, and where
  every body is in reach the count of retargeted functions is that of the
  trampolines that lead to one. Where one is not, the count is wrong: see
  `RetargetedIsPatched` below.

`TypeOK` of the modules, `Reconcile!SettledStays` and `CyclesAreRegisters`,
`Reconcile!Terminates` and `NativeSite!SiteEnds` hold on the same instances and
are in no configuration: type correctness and the safety properties of `Reconcile`
are theorems, and the others add little to the properties listed and to the check
for deadlock.

### Fairness

Within a function the program is sequential and its loops run to their end, so
a specification has weak fairness on its own next step: `Reconcile`,
`NativeSite` and `FrameStores` on `Next`, `LinearScan` on `ScanNext`, `Terminators` on
sequencing the moves, `Lowering` on the passes only (how
long the recovered function runs is the guest's business), in `Explore` on the
work of a pass. `Expire` is not fair by itself, since a budget need not run out;
it must happen only once the evaluator has reported the deadline, as the test at
the head of the loop then always fires. `Terminates` of the run `explore` rests on
this; the other runs check safety and a refinement, and their specifications need
no fairness.

## 4. Divergences

Six runs end in a counterexample, each to what a comment or an assertion of the
code says.

| Run | Property | What the run shows |
| --- | --- | --- |
| `folding_finding` | `FoldKeepsValue` | a constant or-ed in and then flipped is merged into one flip, `(A \| c1) ^ c2 -> A ^ (c1 ^ c2)`, which is right only where A has no bit of c1 (expr.rs:1661) |
| `evaluator_finding` | `RegistersAreTrue` | a boxed instruction makes opaque its first operand and the registers of a few mnemonics; a register any other one writes implicitly keeps its old value (lift.rs:2439) |
| `switch_finding` | `SwitchTakesItsArm` | arms outside the code, or equal to an earlier one, are left out of the list of targets, whose positions the selector is compared with; and a boundary move may overwrite the selector first |
| `emission_finding` | `AddressIsSpared` | a store puts a wide constant into r11 and an address out of reach into r10 "so that neither can clobber the register already holding the address"; the allocator may have put the address into r11, and then the constant replaces it (emit.rs:1554) |
| `native_site_finding` | `PointerIntact` | an indirect target (or the address of a memory operand) in a register that an argument goes to is read after it was overwritten |
| `writeback_finding` | `LayoutsAgree` | the probe knows the bodies laid out before a function, emission knows all: a tail call to the function itself, or to a near body behind it, becomes a short jump at emission, the bodies that follow move up, and calls to them, already redirected, land elsewhere; the assertion against it exists in debug builds only |

Further statements that the code does not satisfy are definitions of the
modules; naming one as an INVARIANT in the configuration shows its
counterexample:

- `Lowering!ParamIsArrival`: renaming takes a block's own parameter for an entry
  value, so it is read from a register that holds something else (sched.rs:907;
  sched.rs:49 calls it "a guest register as it was on entry to this block").
- `FrameStores!OnlyDeadEliminated`: a store is eliminated for a later one that
  overwrites only part of it, or in spite of a read of its other bytes, through
  a pointer, or by a boxed operand (sched.rs:1995). `EliminationIsUnseen` is
  what remains true.
- `FrameTraffic!ReadsAgree`: of two definitions in a row that park rax, the
  restore of the first and the save of the second are removed although the
  second also reads rax: it computes with the first's result (function.rs:104;
  function.rs:63 speaks of pairs "that cancel out"). `ReadsAgreeUnlessReread` is
  what remains true.
- `Writeback!RetargetedIsPatched`: a function whose trampoline is out of reach
  is counted as retargeted ("whose trampoline now points at it") although the
  trampoline was skipped (writeback.rs:391).
- `Terminators!ReturnRegsDelivered`: at a return, a swap of two other registers
  is dropped although rdx is set from one of them afterwards (control.rs:192).
- `Terminators!ScratchIsFree`: a spilled selector is loaded into r11, and a
  comparison after the moves loads operands into rax and rcx, any of which may
  hold an exit.
- `Explore!PredsAreComplete`: adopting a back edge queues nothing and records
  nothing, so the loop header loses a predecessor (explore.rs:620). With
  `OnlyLoses` true and `FourIds`, `Onward`, `OnwardSymbolic`, `NoTables` of
  `MCExplore` the counterexample needs nothing that recovery would refuse.
- `Lowering!EntryIsFunctionEntry`: an entry value without a common home is read
  from a register that was overwritten.
- `Explore!JoinsAreCut`: a join found only by the second pass is not cut.
- `Explore!TimerIsReported`: the first pass's timeout is forgotten.
- `Explore!BackEdgesCloseLoops`: the second arrival at a diamond's join is
  listed as a back edge.
- `Explore!IdsAreUnique`: a budget placeholder repeats an identity.
- `Explore!EntryIsFirst`: sorting puts a block with a lower handler address
  before the entry.
- `Lowering!ParamsAreOwn`: a block below a join mentions the join's parameter,
  which a debug assertion of the scheduler forbids.
- `Lowering!EliminatedIsGone`: of two parameters removed in one round, one the
  value of the other, the removed one remains mentioned.
- `NativeSite!BaseSparesInputs`: the register chosen for an address may be one
  the instruction reads without naming it.

`Alu` and `Evaluator` name what the evaluator approximates and leave those cases
out (`Approximated`, a set of reasons; the constant `Allowed` lets behaviours meet
some of them, and then the properties fail):

- *Integer instructions* (`Alu`). "carry": flags of adc and sbb when a carry comes
  in and the low half-byte of the operand is all ones (lift.rs:1281). "byte
  product": mul and one-operand imul of bytes leave ah as it was. "byte dividend":
  div and idiv of bytes divide al, not ax. "signed divisor": idiv of 16 and 32
  bits takes a negative divisor unsigned. "word dividend": a 64-bit idiv joins the
  halves of its dividend by or. "far bit": bt of 16 bits with an index beyond the
  width. "kept half": a 32-bit cmpxchg that finds equality clears the upper half
  of rax. Flags after shifts by zero and rotates are `loose`.
- *Memory and state* (`Evaluator`). "torn source": `load_concrete` cuts a symbolic
  source to the width of the load before it shifts the wanted bytes down, and
  masks the shift count by 31 below 64 bits, so a load of the upper part of a
  wider store may read zero (state.rs:312). "mixed source": whether a section is
  writable is asked of the first byte of a load only (lift.rs:980), so one that
  begins in bytes that are tracked or read-only and ends in a written section takes
  the file's content of its end. "unseen write": stores to unknown
  addresses leave tracked bytes, and calls leave tracked bytes, volatile xmm
  registers and the load generations as they were, though expr.rs:669 says such a
  store "may alias anything, so it invalidates every load"; `sym_stores` is written
  and never read, though lift.rs:1124 says it is "what a later load consults";
  forgotten bytes of bss read as zero. "half move": movsd between registers and
  movlps zero the upper half. "late resolve": re-substituting a term resolves an
  old load against the memory of now (the reasons above apply to such a load too).
  "implicit result": the finding above.

The disjuncts of `Emission!Crowded`; naming `ResultArrives`, `StoreLands` or
`NothingElseChanges` as an INVARIANT shows each:

- `ScratchIsTaken`: a second operand in a slot, or a constant that cannot be
  encoded, is loaded into rax or rcx without parking what is there when no
  volatile register is free (emit.rs:1084);
- `SelectIsCrowded`: the same for the second value and the condition of a select
  (emit.rs:598), and a result computed in parked rax overwrites either if it lives
  there;
- `StoreIsCrowded`: a spilled address goes to rcx, a far one to r10 and a wide
  constant to r11, whatever these hold.

Read in passing: a `Branch` whose plain condition is in a spill slot jumps to the
taken side whatever its value (control.rs); `rewrite_event` and
`remove_dead_params` (ir.rs) skip the operands of boxed events;
`drop_unreachable` and `merge_identical_returns` take the first block for the
entry, which recovery does not ensure (`Explore!EntryIsFirst`); `known_zero` and
`known_one` mask shift counts by 63 at every width where `fold_bin` masks by 31
below 64; `(x & 1)` of a narrower operand may become a node of 64 bits; two rules
of `simplify_bin` that would be wrong ("B - (((A&B)&B) ^ B)", "(((c|A) ^ c) | A)")
cannot match, since earlier ones rewrite their operands; 16-bit pushes and pops
move rsp by 8, and pushf leaves out the interrupt flag.

## 5. Proofs

Every `...Proofs` module extends the modules it is about. All safety theorems have
one form: an inductive invariant `IInv` (`TInv` of `Terminators`, `EmitInv` of
`Emission`, `PassInv` of `BlockPasses`), proved to hold
initially and to survive every action, one lemma or step per action and under it
one per conjunct; each stated property then follows from it. TLC checked every
such invariant on the instances of section 3 before it was proved, but for a part of
the one of `Lowering`, which quantifies over sets of configurations. Nothing is
assumed beyond the named assumptions on constants, which TLC evaluates on every
run, one hypothesis of `CallsLand` and one of the theorems about `Evaluator`, stated
in the theorems.

| Module | Theorem | States | For every |
| --- | --- | --- | --- |
| `CodegenProofs` | `Inductive`, `TypeCorrect` | the invariant, types | finite set of registers and set of immovable sources |
| | `SourcesAreIntact` | `SourcesIntact` | |
| | `SettledRegistersStay`, `OnlyRegistersCycle`, `NoMoveIsWasted` | `SettledStays`, `CyclesAreRegisters`, `NoWastedMove` | |
| | `ImplementsParallelAssign` | the refinement `Parallel` | |
| | `TerminatorInvariant` | the invariant | the same, and any volatile and preserved registers that do not overlap |
| | `ReturnsArrive`, `CallersAreRestored` | `ReturnedUnlessSwapDropped`, `CallerRegsRestored` | |
| | `BranchesAreExact`, `ScratchIsHarmless` | `BranchIsExact`, `ScratchSparesMoves` | |
| | `ExitsAllArrive`, `SwitchesArrive` | `ExitsArrive`, `SwitchTakesItsArmIfPlain` | |
| | `InstructionsAreExact` | `ExactUnlessCrowded` | registers, instruction, placement of operands and result, live values |
| `AllocationProofs` | `ScanInvariant`, `ScanTypes` | the invariant, types | length of the block, instructions, hints, registers |
| | `AllocationIsConsistent`, `LiveValuesStay` | `AllocationConsistent`, `LiveValuesInPlace` | |
| | `SiteInvariant`, `SiteTypes` | the invariant, types | registers, fixed inputs and results, placement of operands |
| | `InputsArrive`, `LiveUntouched`, `ResultsArrive` | `InputsDelivered`, `OthersKept`, `ResultsHome` | |
| | `RspIsAligned`, `AreasAreDisjoint`, `PrivateIsPrivate` | see "Frame layout" below | number of slots, saves, arguments, locals |
| `ExploreProofs` | `ExploreInvariant`, `ExploreTypes` | the invariant, types | finite set of identities, forks, tables, budgets |
| | `BlocksAreDistinct`, `NothingUnreachable`, `PredecessorsAreSound` | `OneBlockPerId`, `OnlyReachable`, `PredsAreSound` | |
| | `DrainedPassIsClosed`, `JoinsCutInSameShape` | `FirstPassIsClosed`, `JoinsCutIfSameShape` | |
| `LoweringProofs` | `LoweringInvariant`, `LoweringTypes` | the invariant, types | graph whose blocks are all reached, registers, program, word size |
| | `ParamsAreInScope` | `LeavesDominate` | |
| | `EmittedProgramAgrees`, `PruningSparesReads` | `EmittedAgrees`, `NothingReadIsJunk` | |
| `PassesProofs` | `PassInvariant` | the invariant | number of blocks, contents, terminators |
| | `PassesKeepTheWork`, `PassesKeepTheTargets` | `SameWork`, `EveryTargetIsEmitted` | |
| | `TrafficInvariant` | the invariant | frame with a spill and a save, sequences of units in three blocks, terminators |
| | `TrafficUnseen`, `SavesStay` | `ReadsAgreeUnlessReread`, `SaveAreaIntact` | |
| `WritebackProofs` | `ImageInvariant` | the invariant | number of functions, trampolines, lengths |
| | `CallsLand`, `TrampolinesLead`, `NoBodyOverwritten` | `CallsLandIfNoneIsShort`, `PatchedOrReported`, `BodiesApart` | |
| | `TableIsTrue` | `TableDescribesBodies` | and any function table and unwind data |
| `CompactionProofs` | `ArenaInvariant` | the invariant | registers, instructions, limits of the arena |
| | `ReferencesSurvive`, `NothingTwice`, `CachesHold` | `HoldersKeepMeaning`, `OneNodeEach`, `CachesAreTrue` | |
| `EvaluatorProofs` | `EvaluatorInvariant` | the invariant | layout of the image, width of a cell, registers, programs and where their pointers lead |
| | `StateStaysTrue`, `EventsStayTrue` | `StateIsTrue`, `EventsAreTrue` | |

The assumptions, beside those that only give constants their kinds: argument
registers are volatile (`ArgumentAssumption`: rcx, rdx, r8 and r9 are); the value
`Junk` is the contents of no place (`JunkAssumption`); what calls and boxed
instructions destroy is allocatable, and ranges of entry values end inside the
block or at its exit (`ClobberAssumption`, `BlockAssumption`); volatile and
preserved registers are disjoint and rax is the lowest of all (`RetRegAssumption`,
the order of the `Reg` enum); rax, rcx, rdx, r10 and r11 are among the volatile
registers, `VOLATILE` lists registers, and no register is a frame slot or a constant
(`RegisterAssumption`); every block of the graph is reached from the entry,
which no edge leads back to (`GraphAssumption`, the former is what `OnlyReachable`
says of recovery); a jump has a target, and every edge of the blocks
handed to the passes leads to one of them (`PassAssumption`, which is what
`FirstPassIsClosed` says of recovery); trampolines are apart, lie in order and end below
the new code, and no body is empty (`ImageAssumption`); the entries of the image's own
function table lie in the image and do not overlap, as the format demands
(`TableAssumption`; the code does not check it, and a table that breaks it overlaps
itself whatever is added). For the arena, the registers are numbered from 1
(`RegsAssumption`) and instructions name registers, as many as they read
(`CodeAssumption`). For the evaluator, there are finitely many registers, and programs
are made of accesses of up to a cell at any address, of two cells at one that is
known, and boxed instructions that write the first operand if it is a register
(`GivenAssumption`); what regions there are and where they begin and end is
not restricted.

### Boundaries

`SourcesIntact` alone is not inductive: after a swap it holds only
if every register that is not a destination still has its own value, which is
`SettledStays`; and `SettledStays` survives a swap only if the other half of
the swap is itself pending, which is `CyclesAreRegisters`. That one is no
invariant of bookkeeping but a fact of counting: when nothing is ready, each
pending destination is the source of another, so the pending moves map onto the
set of their destinations; a finite set mapped onto itself is mapped one to one
(the lemma `Pigeonhole`, by cardinalities from FiniteSetTheorems), so no source
is read twice and all are pending destinations. For refinement, every step but
the last leaves the mapped machine alone, and the last delivers all exits, since
nothing is pending and `SettledStays` holds.

### Terminators

A terminator runs a part of the moves that `reconcile` sequenced, so what it does
is compared with `machine`, which runs all of them. `BInv` follows, while the
sequence grows, the contents after the moves without those of rsp (`StripAgrees`:
equal to `machine` but for rsp) and after those kept at a return (`Kept`).
`StripAgrees` needs that rsp is on no cycle and in no swap (`RspApart`).
What a return keeps agrees with `machine` only outside the registers that left-out
moves would have set (`KeptAgrees`), and for that nobody may read these later:
a register set by a plain move is neither read nor written again (`SetForGood`).
That rax is right *although* swaps are left out (`RaxArrives`) is a matter of
order: rax is the lowest register, so a cycle through it is opened at rax, before
any other swap (`SetsFirst`).

What a terminator does with a whole sequence (`Ran`, a recursive function over its
length) is proved by induction on positions. The prover cannot instantiate the
library's induction theorems, so `Climb` derives the principle by counting: a
subset of `0..n` with 0, closed under successor below n, but without n would be
mapped one to one into itself by successor without reaching 0, which no finite set
allows. With it, a place that no kept move writes keeps its contents
(`Untouched`), and contents that agree wherever the moves read give the same
results wherever they write (`ReadersAgree`). The latter is why a scratch register
that the moves do not read does no harm.

### Instruction emission

`Exact` says that the result is home, what is to be stored was stored, and every
other value that is needed is where it was. It is reached by following the code
of an instruction move by move: each machine instruction brings a value to one place
(`Has`) and leaves all others alone (`Spares`), and what two sequences spare, both
together spare. The code that computes a result may overwrite its register,
registers nobody needs (`Unused`) and those it parks first and brings back
(`Computed`); that none of these is the place of an operand *still to be read* is
what each lemma on one form of instruction decides (`ShiftIs`, `AluIs`,
`DivideIs`, `SelectComputes`, ...). Where the code borrows a register without asking
whether it is needed, `Crowded` names the condition, and the lemma assumes that it
does not hold. A result without a register is wrapped in what parks one and brings it
back (`OpenedIs`, `ClosedIs`). `EmitInv` adds to the property that
before the code runs all operands are in place (`Given`): two of them share a place
only if the result takes over the first operand's (`IsHome`, what
`AllocationConsistent` says of the allocator).

### Native sites

The copy loop redirects only the readers of one of the two registers an xchg
exchanges; it is right because, as above, what is stuck is a permutation
(`Pigeonhole`). `SiteIInv` says phase by phase what has arrived where: `AtInputs`
(a pending copy will read what its register is to receive, a settled register has
it, whatever is no input is as it was), `AtAddress` (the borrowed base is in
nobody's way or is rax, parked), `AtResults`, `AtDone`. That copying inputs harms
nothing live rests on what the allocator takes for destroyed (`LiveIsNoInput`):
argument registers at a call, the fixed inputs at a boxed access.

### Allocation

`Allocated` relates the books of the scan to the segments placed: the range noted
for a register (`Booked`) and the position noted for a slot (`Stored`) bound
every segment there; segments in one place either do not meet, or one value is
read last by the instruction that defines the other (`SegsOK`); no segment lies
across an instruction that destroys its register; and ranges come in the order of
their definitions, without which reusing what a register was *last* given to would
say nothing about the segments before. `Evict` also needs that a range that began before the
one at hand and is still there can move to a slot as a whole. For the run of the
block, everything alive is in its place or is an entry value whose copy is about
to be made and still in its register (`InItsPlace`, `Running`); copies that
are due together do not disturb each other because what they save to is no
register destroyed there.

### Recovery

`PredsAreSound` is inductive, the other four properties are not. Queued tasks name
successors of the block that queued them (`QueueSound`), so whatever is
evaluated is reachable (`EntryReaches`). As long as a pass was not cut short, the
visited identities are those of the blocks (`VisitedOnce`), so that a task taken
up for a new one repeats nobody; the placeholder of a budget that runs out may
repeat one, but nothing follows it. In the first pass every edge is recorded or on
the queue (`NothingForgotten`), so an empty queue means a closed graph. What the
second pass cuts at is what the first pass found to be joins (`CutAtFirstJoins`).

### Phis and exits

`EmittedAgrees` compares two runs and says nothing of the graph they come from, so it
is far from inductive. The proof rests on what the graph says of the guest, at any
round of the simplification. A configuration is a block, the guest's registers
on entry to it, and what each parameter stands for: the value its register had when
its join was last entered. `Reach` is the least set of configurations that holds the
first and follows every edge, and `GraphTells` says that in each of them the exits of
the block, and what it stores, evaluate to the registers the guest leaves.

That a round keeps this needs dominance, which is stated without paths: `Around(c)`
is what is reached around `c`, and all else `c` dominates. A parameter is mentioned
only where its join dominates (`LeavesDominate`). What replaces it belongs to a
join that strictly dominates its own (`ReplacementAbove`), so two parameters never
replace each other (`Antisymmetry`); and wherever the replaced one's join has been
passed, the two stand for the same value (`ReplacementTells`), in loops too, where
some edges bring the parameter itself. At the start `GraphTells` is about
`arriving`, a recursive function over blocks. That such a function exists is proved by
settling one more block at a time (`SettleOneMore`, `SettleAll`), which gets to all of
them since every block is reached.

While the code runs, liveness is settled (`Fixpoint`), no register that is live was
left to the allocator (`Kept`), and guest and emitted code are side by side in a
configuration the guest can reach, with every live register equal and every leaf in
the register it is read from (`Beside`). `EmittedAgrees` and `NothingReadIsJunk`
follow from these and `GraphTells`.

### Block passes

Where an edge comes to rest is counted in the model, as it is in the code: so many
steps as there are blocks that forward. The proof says it without counting: `x`
ends at `p` if every set that holds `p`, and each forwarder whose target it holds,
holds `x` (`EndsAt`); `x` spins if a set of forwarders that holds it is closed
(`Spins`). Both are sets to reason about, and induction along a chain is choosing
one. The tables are compared with them once: a table that still forwards at its
end has passed a block twice (`FollowedInACircle`, by the pigeonhole principle),
so `resolve` finds the end of every chain and a circle only where there is one. A
pass then has one lemma each: merging moves an end to the block that stands for it
and leaves circles alone, since no forwarder is merged (`MergingKeepsEnds`);
threading makes every edge one step long or leaves it in its circle
(`ThreadingKeepsEnds`); what is kept is closed, because a step that reached more
would have added a block (`GrowingEnds`), so on it the shorter list forwards as
the whole one does (`KeptAgrees`). `SameWork` is not inductive: that the walks are
at blocks with the same content says nothing of where they go next. `Together`
says which block the second walk is at, the canonical one of the first's.

### Frame traffic

The passes run up to eight rounds, and each computes liveness for the code it finds.
What was removed in earlier rounds was judged by labels that no longer exist, so the
invariant keeps one labelling for all rounds (`Describe`): bytes live into every
instruction, removed or not, closed under the flow of control; no byte a removed
store wrote is live behind it; and what is live behind a removed pair is live before it.
Each round intersects it with its own liveness, after adding to the save of
each new pair what is live behind it (`RoundKeeps`). The round's liveness is a
fixpoint because the sweeps only grow and there are finitely many bytes
(`SweepGrows`, `LivenessIs`); the invariant needs a fixpoint, not the least one.

Beside it the machines agree (`MachinesAgree`) on every byte of the frame except
private ones that are not live, and on every register except rax from the save of a
removed pair to the instruction behind it. That this is enough rests on what the
emitter makes (`Proper`, shown of every sequence of units by `CodeIs`): a
restore of a parked register is followed by the start of a unit, and a save of one by
an instruction that sets rax. So pairs never overlap, no jump enters one, and the
only instruction that can see rax between is the one `Reread` names.

A saved register is safe because its slot is in no private range (`SlotsAre`):
its store never counts as overwriting anything, so it is never removed, and no other
instruction stores there.

### Writeback

The probe and the emission compute the same layout from different knowledge. The
invariant remembers at each function which body it follows and how long that body
was *when it was probed* (`Follows`, `LenThen`). A tail call that
was short when probed led to a body before it (its target being no trampoline,
`TrampolinesAreFar`), leads there still and is short again when emitted. So if
emission makes no jump short, the probe made none; no length has changed, and by
induction over the functions no position has. `TrampolinesAreFar`
is a hypothesis of `CallsLand` and no assumption, since the code does not check
it: the new section begins at the next alignment boundary behind the last one, and
a trampoline within 126 bytes of it is possible in principle. `TrampolinesLead`
and `NoBodyOverwritten` need no hypothesis: they also hold where the layouts differ.

So does `TableIsTrue`. That sorting by address gives a table with each record once is
counting: how many records lie below one maps the records one to one into as many
places, and therefore onto them (`ByAddressSorts`). `unwindArea` is a recursive
function, which exists because it can be continued by one function at a time
(`UnwindAreaIs`, by `Climb` as above), and grows from each body to the next
(`UnwindAreaGrows`), so that nobody's unwind data reaches into another's.

### The arena

A node means a tree in which the order of a sum is not seen, so two nodes that mean
the same might still differ. They do not if each is as construction leaves it (`Made`):
kids before parents, no record twice, a sum never of two constants, with a constant
on the right and references otherwise in order. From this and induction along the
arena follows that meanings differ (`MeaningsDiffer`). Then each way to build keeps `Made`
and gives the node that means what was asked for (`InternIs`, `BinIs`, `RebuiltIs`).

`CachesAreTrue` says that what a step asked for was right and is not inductive. What
is (`CachesRight`) speaks of every entry of the caches: a node in the memo has the
meaning its key has under the pins, and a node said not to depend on the pins means
the same with them and without. One node of a substitution keeps that
(`SubstNodeIs`), and so does all of it, by induction on the numbers of the
nodes it comes to (`SubstitutedIs`). The caches
may be for fewer pins than there are, and then nothing is said of them: that is why
`Current` compares the watermark. A pin refers to no constant (`PinsOK`), or
`substitute`, which returns constants unseen, would miss it. That the parameters of a
join are no nodes yet is counting of blocks (`ArenaOK`, `ParamsFollow`).

`Compact` numbers what is live by how many live nodes lie below, which is one to one
and onto by counting (`RanksAre`) and keeps the order. So kids stay before parents
*and sums stay in order*: under another order that has kids first, a sum could be
the wrong way round, and built again it would be a second node. What is live is
closed under kids (`LiveClosed`), so each moved node means what it did (`MovedIs`).

The recursive functions of the model (`Pinning`, `Reach`, `Depends`, the loop of
`Substituted`) are shown to exist, and to satisfy their equations, by continuing them
one node at a time (`PinningIs`, `ReachIs`, `DependsIs`, `UpToIs`); induction is
`Climb` and `Ascend`, derived by counting as above.

### The evaluator

The hypothesis `Allowed = {}` confines the theorems to behaviours that meet none of
the approximations of section 4, each of which does break the properties.

A byte of a term is told by what it is, or is a byte of what a load found when it was
made (`Tells`, `Describes`). `StateIsTrue` says so of every register, tracked byte
and SSE half, and is not inductive for two reasons.

- A load that does not resolve may be a node that exists, and then stands for what
  was read *then*. So `LoadsTrue` says of every load ever made: if it would be the same
  node now, it would read the same now, unless what it reads changed unseen. A
  store keeps this by its dates. With a known address it dates every cell it touches,
  so each load it may have changed would be another node (`ConcreteDates`); without
  one it dates all of them (`SymbolicDates`).
- A load that resolves may take bytes from the image, and the machine may have
  written there while the evaluator has forgotten the byte or never tracked it.
  `MemTrue` therefore also says that a byte of the image that is not tracked was
  not written, or is among those that changed unseen (`loose`).

Terms stay true as further loads are made, since those made before keep what they
read (`DescribesMore`). A load that resolves is put together from runs of stored terms,
and each byte of it is the byte that is tracked there if no source is torn
(`LoadConcreteIs`); with the three other ways to load this is `LoadIs`. `StoreKeeps`
and `ForgetKeeps` are the two ways to write. Every instruction is composed of these
(`LoadDone`, `SseStoreDone`, `BoxDone`, ...: one lemma per instruction, joined in
`EffectIs`), and what its events say is read off before its effects are seen, which
is where `BoxedUses` and the arguments of calls matter. That a load opened long ago
may be resolved again at a jump is `AgainDescribes`.

### Frame layout

Without assumptions, for every `L \in Layout`: the prologue leaves rsp on a multiple
of 16 (`RspIsAligned`); no byte of the frame is in two of its areas
(`AreasAreDisjoint`); the ranges in which dead stores are removed meet neither
outgoing arguments and shadow space, nor saves, nor locals (`PrivateIsPrivate`).
The lemma `Sizes` does the arithmetic of rounding, `Adjacent` lays the areas end
to end, and the theorems compare their bounds. `SaveAreaIntact` rests on the
last of them.

### Only model-checked

- Liveness: `Terminates` of recovery, and the absence of deadlock, which the
  prover cannot express.
- `Folding` and what uses it: it is written with RECURSIVE operators, and what its
  constructors do to terms of every depth would need induction over terms. They are
  checked on bounded ones.
- `Alu` and `Processor`: arithmetic on bits.
- `FrameStores`: folds, for which the library has operators and no theorems.
  `Climb` is a way to them.

## 6. Plan

Done: the boundary, terminators, instructions, native sites, allocation, recovery, phis and
exits, the block passes, the frame layout, writeback, the arena with its
substitutions and compaction, memory, SSE and boxed effects of the evaluator, and
the frame-traffic passes, all with proofs; frame stores; terms and
their rules and integer instructions. To come, in this order:

1. The classification of jumps, calls and returns into stops, which `Explore` takes
   as a choice; grafting of terms into another arena.
2. Unwind encoding and entry discovery as pure functions.

### Not modelled

- Entry discovery and unwind data: pure functions over bytes with tests of their
  own; nothing else reads their state.
- Of the evaluator, the search for VIP slots and guest contexts, stops (see the
  plan), bswap and lea; of the arena, grafting, structural hashing and rendering;
  of the machine state, region tags.
- Of the scheduler, `retarget_stack_args`, `reanchor_small_addrs_on_call_ret`,
  `fold_addressing` and `rewrite_masked_sign_tests`, which rewrite single
  instructions, and the selection of instructions for terms.
- Of emission, encodings, which are iced-x86's, and rip-relative forms, which only
  choose a cheaper one.
- PE parsing beyond what the evaluator asks of a section, signatures, checksums,
  disassembly listings and the command line: formats and wording, no state that
  the rest depends on.
