------------------------------ MODULE MCEvaluator -------------------------------
(***************************************************************************)
(* Evaluator with cells of 8 bytes: three cells of stack, two of data, two *)
(* of read-only data, one of bss, two of the import table.  Accesses of    *)
(* 16 bytes are at known addresses only.  Beside it, in behaviours of its  *)
(* own, the arena compacted at five nodes.                                 *)
(***************************************************************************)
EXTENDS Evaluator, Compaction, TLC

VARIABLE part   \* which of the two runs

Regions ==
    [a \in 0..79 |-> CASE a < 24 -> "stack" [] a \in 24..39 -> "data" [] a \in 40..55 -> "ro"
                       [] a \in 56..63 -> "bss" [] OTHER -> "bound"]

Ld(r, at, w) == [op |-> "load", r |-> r, at |-> at, w |-> w]
St(at, r, w) == [op |-> "store", r |-> r, at |-> at, w |-> w]
Loads(S, W) == {Ld("c", a, w) : a \in S, w \in W}
Stores(S, R, W) == {St(a, r, w) : a \in S, r \in R, w \in W}
Set(n) == [op |-> "const", r |-> "a", n |-> n]
Stack == {[op |-> "push", r |-> "b"], [op |-> "pop", r |-> "c"]}
Pinned == [op |-> "pin"]
Jump == [op |-> "jump", r |-> "c"]

\* Pointer into the stack, data or bss; both addresses read-only, on the stack, or one of them writable.
World(p, c, at) == [pointer |-> p, cond |-> c, at |-> at]
Constant == {World(4, TRUE, <<40, 44>>), World(58, TRUE, <<40, 24>>)}
OnStack == {World(28, FALSE, <<0, 8>>), World(24, TRUE, <<0, 8>>)}
Both == Constant \cup OnStack
One == {World(28, FALSE, <<0, 8>>)}

Run(code, depth, worlds) == [code |-> code, depth |-> depth, sp |-> 24, worlds |-> worlds]

\* Overlapping stores and loads of every width, a register restored from the stack.
Overlaps == Run(Loads({0, 1, 4}, {8, 4, 2, 1}) \cup Stores({0, 4, 6}, {"a", "c"}, {8, 4, 2}) \cup {Set(1)}, 3, One)
Frames == Run(Loads({8, 12}, {8, 4}) \cup Stores({8, 12}, {"a", "c"}, {4, 1}) \cup Stack \cup {Set(1)}, 4, One)

\* Loads that stay open, between stores that may have changed them.
OpenLoads == Run(Loads({Pointer, 24, 28, 32}, {8, 4}) \cup Stores({Pointer, 24, 28, 30, 0}, {"a", "c"}, {8, 4}), 3, Both)
Kept == Run({Ld("a", 24, 8), Ld("b", 28, 4), Ld("c", 26, 8)} \cup Stores({Pointer, 20, 30, 36}, {"a"}, {8, 2}), 4, Both)

\* Reads of the image, where the loader writes, and through one of two addresses.
Images == Run(Loads({40, 54, 58, 66, Either}, {8}) \cup Loads({Either}, {4}) \cup Stores({56, 60, Pointer}, {"a"}, {8, 2}) \cup {Pinned, Jump}, 4, Constant)
Splitting == Run(Loads({Either, 0, 8}, {8, 4}) \cup Stores({0, 8, Either}, {"a"}, {8, 4}) \cup {Pinned, Jump}, 4, OnStack)

Sse(op, x, at, w, form) == [op |-> op, x |-> x, at |-> at, w |-> w, form |-> form]
Move(x, y, w, form) == [op |-> "ssemove", x |-> x, y |-> y, w |-> w, form |-> form]
Scalar ==
    {Sse("sseload", "x", a, w, "whole") : a \in {0, 4, 40}, w \in {8, 16}}
    \cup {Sse("ssestore", x, a, w, "whole") : x \in {"x", "y"}, a \in {0, 8}, w \in {8, 16}}
    \cup {Move(p[1], p[2], w, "whole") : p \in {<<"x", "y">>, <<"y", "x">>}, w \in {8, 16}}
    \cup {[op |-> "ssezero", x |-> "x"], Ld("c", 4, 8), St(0, "a", 8)}
Halves == {Sse("sseload", "x", 0, 8, "half"), Move("x", "y", 8, "half")}

Nowhere == [reg |-> {}, at |-> 0, bytes |-> 0]
Box(reads, writes, listed, dest) == [op |-> "box", reads |-> reads, writes |-> writes, listed |-> listed, dest |-> dest]
Cpuid == Box({"a", "b"}, {"a", "b"}, {"a", "b"}, Nowhere)
Generic == Box({"b"}, {"c"}, {}, [Nowhere EXCEPT !.reg = {"c"}])
Implicit == Box({"a"}, {"a"}, {}, Nowhere)
Arithmetic == Box({}, {}, {}, [Nowhere EXCEPT !.reg = {"x"}])
Into(at, n) == Box({"a"}, {}, {}, [Nowhere EXCEPT !.at = at, !.bytes = n])
Called(bytes, gone) == [op |-> "call", changes |-> bytes, gone |-> gone]

Boxing ==
    {Cpuid, Generic, Arithmetic, Into(0, 16), Into(4, 4), Into(Pointer, 8), Called({}, {}), Called(24..31, {"x"}), Set(1),
     Sse("sseload", "x", 0, 16, "whole"), Sse("ssestore", "x", 8, 16, "whole")}
    \cup Loads({0, 24}, {8}) \cup Stores({0, 24}, {"a", "b"}, {8})

Every == {Overlaps, Frames, OpenLoads, Kept, Images, Splitting, Run(Scalar, 3, One), Run(Boxing, 4, One), Run({}, 0, One)}

\* What the evaluator does not follow.
Implicits == {Run({Implicit, Generic, Cpuid} \cup Loads({0}, {8}) \cup Stores({0}, {"a", "b"}, {8}), 4, One)}
Moves == {Run(Halves \cup Scalar, 3, One)}

-----------------------------------------------------------------------------
(* The arena. *)
Doing(op, to, from) == [op |-> op, to |-> to, from |-> from]
Instructions ==
    {Doing("opaque", 3, <<>>), Doing("add", 3, <<1, 2>>), Doing("add", 1, <<3, 2>>), Doing("load", 2, <<3>>),
     Doing("load", 3, <<1>>), Doing("store", 1, <<3>>), Doing("fork", 3, <<>>)}

\* Nothing runs in the evaluator while the arena does.
Idle == Run({}, 0, One)

PartInit ==
    /\ part \in {"machine", "arena"}
    /\ LiftInit
    /\ part = "arena" => program = Idle
    /\ Init

PartNext ==
    \/ part = "machine" /\ LiftNext /\ UNCHANGED <<part, vars>>
    \/ part = "arena" /\ Next /\ UNCHANGED <<part, liftVars>>

PartSpec == PartInit /\ [][PartNext]_<<part, vars, liftVars>>
=================================================================================
