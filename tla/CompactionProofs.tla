--------------------------- MODULE CompactionProofs ----------------------------
(***************************************************************************)
(* What holds of the arena whatever is made, kept, pinned and compacted:   *)
(* references keep their meaning, no thing is two nodes, and the caches    *)
(* are true.                                                               *)
(***************************************************************************)
EXTENDS Compaction, FiniteSetTheorems, TLAPS

Ops == {"init", "const", "opaque", "param", "load", "add"}
NodeSet == [op : Ops, of : Int, kids : Seq(Nat)]

\* A sum as `bin` leaves it: not of two constants, and in order.
Sum(ns, n) == /\ n.of = 0 /\ Len(n.kids) = 2 /\ ~IsConst(ns, n.kids[1])
              /\ IsConst(ns, n.kids[2]) \/ n.kids[1] <= n.kids[2]

\* A node that may stand behind the first ones.
Fits(ns, n, first) == /\ n \in NodeSet
                      /\ \A k \in DOMAIN n.kids : n.kids[k] \in 1..first
                      /\ n.op = "add" => Sum(ns, n)
                      /\ n.op \notin {"add", "load"} => n.kids = <<>>

\* An arena as construction leaves it: kids before parents, and no node twice.
Made(ns) == /\ ns \in Seq(NodeSet)
            /\ \A i \in DOMAIN ns : Fits(ns, ns[i], i - 1)
            /\ \A i, j \in DOMAIN ns : ns[i] = ns[j] => i = j

\* More nodes; and those, none of them a parameter.
Longer(ns, ms) == Made(ms) /\ Len(ns) <= Len(ms) /\ \A i \in DOMAIN ns : ms[i] = ns[i]
Grown(ns, ms) == /\ Made(ms) /\ Len(ns) <= Len(ms)
                 /\ \A i \in DOMAIN ns : ms[i] = ns[i]
                 /\ \A i \in DOMAIN ms \ DOMAIN ns : ms[i].op # "param"

-----------------------------------------------------------------------------
(* The recursive functions                                                    *)

(* A set of numbers that is closed under successor below n holds n if it      *)
(* holds 0: counting it would otherwise map it one to one into itself, and    *)
(* miss 0.                                                                    *)
LEMMA Climb ==
  ASSUME NEW n \in Nat, NEW S \in SUBSET (0..n), 0 \in S,
         \A k \in S : k < n => k + 1 \in S
  PROVE  n \in S
<1> SUFFICES ASSUME n \notin S PROVE FALSE
  OBVIOUS
<1> DEFINE up == [k \in S |-> k + 1]
<1>1. IsFiniteSet(S)
  <2>1. IsFiniteSet(0..n)
    BY FS_Interval
  <2> QED
    BY <2>1, FS_Subset
<1>2. up \in Injection(S, S)
  BY DEF Injection, IsInjective
<1>3. up \in Surjection(S, S)
  BY <1>1, <1>2, FS_Injection
<1>4. PICK k \in S : up[k] = 0
  BY <1>3 DEF Surjection
<1> QED
  BY <1>4

\* What node i means where f says what its kids mean.
KidsBy(ns, f, i) == [k \in DOMAIN ns[i].kids |-> f[ns[i].kids[k]]]
MeansBy(ns, pins, f, i) == IF IsPinned(pins, i) THEN Tree(Const(PinOf(pins, i)), <<>>)
                           ELSE Tree(ns[i], KidsBy(ns, f, i))

(* The length of an arena, and where the kids of its nodes are.               *)
LEMMA MadeIs ==
  ASSUME NEW ns, Made(ns)
  PROVE  /\ Len(ns) \in Nat /\ DOMAIN ns = 1..Len(ns)
         /\ \A i \in DOMAIN ns : /\ i \in Nat /\ ns[i] \in NodeSet
                                 /\ ns[i].kids \in Seq(Nat)
                                 /\ \A k \in DOMAIN ns[i].kids : ns[i].kids[k] \in 1..(i - 1) /\ ns[i].kids[k] \in DOMAIN ns
<1>1. ns \in Seq(NodeSet)
  BY DEF Made
<1>2. Len(ns) \in Nat /\ DOMAIN ns = 1..Len(ns)
  BY <1>1
<1>3. ASSUME NEW i \in DOMAIN ns
      PROVE  /\ i \in Nat /\ ns[i] \in NodeSet /\ ns[i].kids \in Seq(Nat)
             /\ \A k \in DOMAIN ns[i].kids : ns[i].kids[k] \in 1..(i - 1) /\ ns[i].kids[k] \in DOMAIN ns
  <2>1. Fits(ns, ns[i], i - 1)
    BY DEF Made
  <2>2. i \in Nat /\ i <= Len(ns) /\ 1 <= i
    BY <1>2
  <2>3. \A k \in DOMAIN ns[i].kids : ns[i].kids[k] \in 1..(i - 1)
    BY <2>1 DEF Fits
  <2>4. 1..(i - 1) \subseteq DOMAIN ns
    BY <1>2, <2>2
  <2> QED
    BY <2>1, <2>2, <2>3, <2>4 DEF Fits, NodeSet
<1> QED
  BY <1>2, <1>3

(* The equations that define the meanings have a solution, from the first     *)
(* node up.                                                                   *)
LEMMA PinningIs ==
  ASSUME NEW ns, Made(ns), NEW pins
  PROVE  /\ DOMAIN Pinning(ns, pins) = DOMAIN ns
         /\ \A i \in DOMAIN ns : Pinning(ns, pins)[i] = MeansBy(ns, pins, Pinning(ns, pins), i)
<1> DEFINE n == Len(ns)
           Solves(f, k) == f = [i \in 1..k |-> MeansBy(ns, pins, f, i)]
           T == {k \in 0..n : \E f : Solves(f, k)}
<1>1. n \in Nat /\ DOMAIN ns = 1..n
  BY MadeIs
<1>2. 0 \in T
  <2>1. Solves([i \in 1..0 |-> 0], 0)
    OBVIOUS
  <2>2. \E f : Solves(f, 0)
    BY <2>1
  <2> HIDE DEF Solves
  <2> QED
    BY <1>1, <2>2
<1>3. ASSUME NEW k \in T, k < n PROVE k + 1 \in T
  <2>1. PICK f : Solves(f, k)
    OBVIOUS
  <2> DEFINE g == [i \in 1..(k + 1) |-> MeansBy(ns, pins, f, i)]
  <2>2. k \in Nat /\ k + 1 \in 0..n /\ 1..(k + 1) \subseteq DOMAIN ns
    BY <1>1, <1>3
  <2>3. \A i \in 1..k : g[i] = f[i]
    BY <2>1, <2>2
  <2>4. ASSUME NEW i \in 1..(k + 1) PROVE MeansBy(ns, pins, g, i) = MeansBy(ns, pins, f, i)
    <3>1. ASSUME NEW d \in DOMAIN ns[i].kids PROVE g[ns[i].kids[d]] = f[ns[i].kids[d]]
      <4>1. ns[i].kids[d] \in 1..(i - 1)
        BY <2>2, MadeIs
      <4>2. ns[i].kids[d] \in 1..k
        BY <2>2, <4>1
      <4> QED
        BY <2>3, <4>2
    <3>2. KidsBy(ns, g, i) = KidsBy(ns, f, i)
      <4> HIDE DEF g
      <4> QED
        BY <3>1 DEF KidsBy
    <3> QED
      BY <3>2 DEF MeansBy
  <2>5. Solves(g, k + 1)
    BY <2>4
  <2> QED
    BY <2>2, <2>5
<1>4. n \in T
  <2> HIDE DEF T
  <2>1. T \in SUBSET (0..n)
    BY DEF T
  <2> QED
    BY <1>1, <1>2, <1>3, <2>1, Climb
<1>5. \E f : f = [i \in DOMAIN ns |-> MeansBy(ns, pins, f, i)]
  BY <1>1, <1>4
<1>6. Pinning(ns, pins) = [i \in DOMAIN ns |-> MeansBy(ns, pins, Pinning(ns, pins), i)]
  BY <1>5 DEF Pinning, MeansBy, KidsBy
<1> QED
  BY <1>6

(* What holds of each number when it holds of those before it holds of all.   *)
LEMMA Ascend ==
  ASSUME NEW n \in Nat, NEW G, \A i \in 1..n : 1..(i - 1) \subseteq G => i \in G
  PROVE  1..n \subseteq G
<1> DEFINE S == {k \in 0..n : 1..k \subseteq G}
<1>1. 0 \in S
  OBVIOUS
<1>2. ASSUME NEW k \in S, k < n PROVE k + 1 \in S
  <2>1. k \in Nat /\ k + 1 \in 1..n /\ k + 1 \in 0..n /\ (k + 1) - 1 = k
    BY <1>2
  <2>2. k + 1 \in G
    BY <2>1
  <2>3. 1..(k + 1) \subseteq 1..k \cup {k + 1}
    BY <2>1
  <2> QED
    BY <2>1, <2>2, <2>3
<1>3. n \in S
  <2>1. S \in SUBSET (0..n)
    OBVIOUS
  <2> HIDE DEF S
  <2> QED
    BY <1>1, <1>2, <2>1, Climb
<1> QED
  BY <1>3

(* What the nodes mean: the tree of each over what its kids mean.             *)
LEMMA MeaningsAre ==
  ASSUME NEW ns, Made(ns)
  PROVE  /\ DOMAIN Meanings(ns) = DOMAIN ns
         /\ \A i \in DOMAIN ns : Meanings(ns)[i] = Tree(ns[i], KidsBy(ns, Meanings(ns), i))
<1>1. \A i : ~IsPinned(<<>>, i)
  BY DEF IsPinned
<1> QED
  BY <1>1, PinningIs DEF Meanings, MeansBy

(* More nodes do not change what those before them mean.                      *)
LEMMA PrefixPins ==
  ASSUME NEW ns, NEW ms, Made(ns), Longer(ns, ms), NEW pins
  PROVE  \A i \in DOMAIN ns : Pinning(ms, pins)[i] = Pinning(ns, pins)[i]
<1> DEFINE P == Pinning(ns, pins)
           Q == Pinning(ms, pins)
           G == {i \in DOMAIN ns : Q[i] = P[i]}
<1>1. /\ Made(ms) /\ Len(ns) \in Nat /\ DOMAIN ns = 1..Len(ns) /\ DOMAIN ns \subseteq DOMAIN ms
      /\ \A i \in DOMAIN ns : ms[i] = ns[i]
  BY MadeIs DEF Longer
<1>2. ASSUME NEW i \in 1..Len(ns), 1..(i - 1) \subseteq G PROVE i \in G
  <2>1. i \in DOMAIN ns /\ i \in DOMAIN ms /\ ms[i] = ns[i]
    BY <1>1
  <2>2. P[i] = MeansBy(ns, pins, P, i) /\ Q[i] = MeansBy(ms, pins, Q, i)
    BY <1>1, <2>1, PinningIs
  <2>3. \A k \in DOMAIN ns[i].kids : ns[i].kids[k] \in 1..(i - 1)
    BY <2>1, MadeIs
  <2>4. \A k \in DOMAIN ns[i].kids : Q[ns[i].kids[k]] = P[ns[i].kids[k]]
    BY <1>2, <2>3
  <2> HIDE DEF P, Q
  <2>5. KidsBy(ms, Q, i) = KidsBy(ns, P, i)
    BY <2>1, <2>4 DEF KidsBy
  <2>6. Q[i] = P[i]
    BY <2>1, <2>2, <2>5 DEF MeansBy
  <2> QED
    BY <2>1, <2>6
<1>3. 1..Len(ns) \subseteq G
  <2> HIDE DEF G
  <2> QED
    BY <1>1, <1>2, Ascend
<1> QED
  BY <1>1, <1>3

(* More nodes do not change what those before them mean.                      *)
LEMMA PrefixMeans ==
  ASSUME NEW ns, NEW ms, Made(ns), Longer(ns, ms)
  PROVE  \A i \in DOMAIN ns : i \in DOMAIN ms /\ Meanings(ms)[i] = Meanings(ns)[i]
<1>1. \A i \in DOMAIN ns : i \in DOMAIN ms
  BY MadeIs DEF Longer
<1> QED
  BY <1>1, PrefixPins DEF Meanings

(* The same of an arena grown.                                                *)
LEMMA PinningStays ==
  ASSUME NEW ns, NEW ms, Made(ns), Grown(ns, ms), NEW pins
  PROVE  \A i \in DOMAIN ns : Pinning(ms, pins)[i] = Pinning(ns, pins)[i]
BY PrefixPins DEF Grown, Longer

(* The same of an arena grown.                                                *)
LEMMA MeaningsStay ==
  ASSUME NEW ns, NEW ms, Made(ns), Grown(ns, ms)
  PROVE  \A i \in DOMAIN ns : i \in DOMAIN ms /\ Meanings(ms)[i] = Meanings(ns)[i]
BY PrefixMeans DEF Grown, Longer

(* An arena is grown from itself, and growth is transitive.                   *)
LEMMA GrownIs ==
  /\ \A ns : Made(ns) => Grown(ns, ns)
  /\ \A ns, ms, ls : Made(ns) /\ Grown(ns, ms) /\ Grown(ms, ls) => Grown(ns, ls)
<1>1. ASSUME NEW ns, Made(ns) PROVE Grown(ns, ns)
  BY <1>1, MadeIs DEF Grown
<1>2. ASSUME NEW ns, NEW ms, NEW ls, Made(ns), Grown(ns, ms), Grown(ms, ls) PROVE Grown(ns, ls)
  <2>1. Made(ms) /\ Made(ls)
    BY <1>2 DEF Grown
  <2>2. /\ Len(ns) \in Nat /\ Len(ms) \in Nat /\ Len(ls) \in Nat
        /\ DOMAIN ns = 1..Len(ns) /\ DOMAIN ms = 1..Len(ms) /\ DOMAIN ls = 1..Len(ls)
    BY <1>2, <2>1, MadeIs
  <2>3. Len(ns) <= Len(ms) /\ Len(ms) <= Len(ls)
    BY <1>2 DEF Grown
  <2>4. \A i \in DOMAIN ns : i \in DOMAIN ms
    BY <2>2, <2>3
  <2>5. \A i \in DOMAIN ns : ls[i] = ns[i]
    BY <1>2, <2>4 DEF Grown
  <2>6. \A i \in DOMAIN ls \ DOMAIN ns : ls[i].op # "param"
    BY <1>2, <2>4 DEF Grown
  <2> QED
    BY <2>1, <2>2, <2>3, <2>5, <2>6 DEF Grown
<1> QED
  BY <1>1, <1>2

(* What a node means says what it is.                                         *)
LEMMA MeaningOp ==
  ASSUME NEW ns, Made(ns)
  PROVE  \A i \in DOMAIN ns : Meanings(ns)[i][1] = ns[i].op
<1> DEFINE m == Meanings(ns)
           G == {i \in DOMAIN ns : m[i][1] = ns[i].op}
<1>1. Len(ns) \in Nat /\ DOMAIN ns = 1..Len(ns)
  BY MadeIs
<1>2. ASSUME NEW i \in 1..Len(ns), 1..(i - 1) \subseteq G PROVE i \in G
  <2>1. i \in DOMAIN ns /\ Fits(ns, ns[i], i - 1) /\ ns[i].kids \in Seq(Nat)
    BY <1>1, MadeIs DEF Made
  <2>2. m[i] = Tree(ns[i], KidsBy(ns, m, i))
    BY <2>1, MeaningsAre
  <2> HIDE DEF m
  <2>3. CASE ns[i].op # "add"
    BY <2>1, <2>2, <2>3 DEF Tree
  <2>4. CASE ns[i].op = "add"
    <3>1. Len(ns[i].kids) = 2 /\ ~IsConst(ns, ns[i].kids[1])
      BY <2>1, <2>4 DEF Fits, Sum
    <3>2. 1 \in DOMAIN ns[i].kids
      BY <2>1, <3>1
    <3>3. ns[i].kids[1] \in G
      BY <1>2, <2>1, <3>2 DEF Fits
    <3>4. m[ns[i].kids[1]][1] # "const"
      BY <3>1, <3>3 DEF IsConst
    <3>5. KidsBy(ns, m, i)[1] = m[ns[i].kids[1]]
      BY <3>2 DEF KidsBy
    <3> QED
      BY <2>1, <2>2, <2>4, <3>4, <3>5 DEF Tree, Added
  <2> QED
    BY <2>3, <2>4
<1>3. 1..Len(ns) \subseteq G
  <2> HIDE DEF G
  <2> QED
    BY <1>1, <1>2, Ascend
<1> QED
  BY <1>1, <1>3

(* Nodes are told apart by their parts, trees and sequences too.              *)
LEMMA Parts ==
  /\ \A n, p \in NodeSet : n.op = p.op /\ n.of = p.of /\ n.kids = p.kids => n = p
  /\ \A a, b, c, x, y, z : <<a, b, c>> = <<x, y, z>> => a = x /\ b = y /\ c = z
  /\ \A a, b \in Seq(Nat) : DOMAIN a = DOMAIN b /\ (\A k \in DOMAIN a : a[k] = b[k]) => a = b
<1>1. ASSUME NEW n \in NodeSet, NEW p \in NodeSet, n.op = p.op, n.of = p.of, n.kids = p.kids PROVE n = p
  <2>1. n = Node(n.op, n.of, n.kids) /\ p = Node(p.op, p.of, p.kids)
    BY DEF Node, NodeSet
  <2> QED
    BY <1>1, <2>1
<1>2. ASSUME NEW a, NEW b, NEW c, NEW x, NEW y, NEW z, <<a, b, c>> = <<x, y, z>> PROVE a = x /\ b = y /\ c = z
  <2>1. <<a, b, c>>[1] = <<x, y, z>>[1] /\ <<a, b, c>>[2] = <<x, y, z>>[2] /\ <<a, b, c>>[3] = <<x, y, z>>[3]
    BY <1>2
  <2> QED
    BY <2>1
<1>3. ASSUME NEW a \in Seq(Nat), NEW b \in Seq(Nat), DOMAIN a = DOMAIN b, \A k \in DOMAIN a : a[k] = b[k]
      PROVE  a = b
  BY <1>3
<1> QED
  BY <1>1, <1>2, <1>3

(* No two nodes mean the same: a sum, which does not show the order of its    *)
(* operands, has them in the one order `bin` leaves.                          *)
LEMMA MeaningsDiffer ==
  ASSUME NEW ns, Made(ns)
  PROVE  \A i, j \in DOMAIN ns : Meanings(ns)[i] = Meanings(ns)[j] => i = j
<1> DEFINE m == Meanings(ns)
           G == {i \in DOMAIN ns : \A j \in 1..i : m[i] = m[j] => i = j}
<1>1. Len(ns) \in Nat /\ DOMAIN ns = 1..Len(ns)
  BY MadeIs
<1>2. ASSUME NEW i \in 1..Len(ns), 1..(i - 1) \subseteq G PROVE i \in G
  <2>1. SUFFICES ASSUME NEW j \in 1..i, m[i] = m[j] PROVE i = j
    BY <1>1
  <2>2. i \in DOMAIN ns /\ j \in DOMAIN ns /\ i \in Nat /\ j \in Nat /\ j <= i
    BY <1>1
  <2>3. ASSUME NEW a \in 1..(i - 1), NEW b \in 1..(i - 1), m[a] = m[b] PROVE a = b
    <3>1. a \in G /\ b \in G
      BY <1>2
    <3>2. a \in 1..b \/ b \in 1..a
      BY <2>2
    <3> HIDE DEF m
    <3> QED
      BY <2>3, <3>1, <3>2
  <2>4. /\ ns[i] \in NodeSet /\ ns[j] \in NodeSet /\ ns[i].kids \in Seq(Nat) /\ ns[j].kids \in Seq(Nat)
        /\ \A k \in DOMAIN ns[i].kids : ns[i].kids[k] \in 1..(i - 1)
        /\ \A k \in DOMAIN ns[j].kids : ns[j].kids[k] \in 1..(i - 1)
    <3>1. \A k \in DOMAIN ns[j].kids : ns[j].kids[k] \in 1..(j - 1)
      BY <2>2, MadeIs
    <3>2. 1..(j - 1) \subseteq 1..(i - 1)
      BY <2>2
    <3> QED
      BY <2>2, <3>1, <3>2, MadeIs
  <2>5. m[i] = Tree(ns[i], KidsBy(ns, m, i)) /\ m[j] = Tree(ns[j], KidsBy(ns, m, j))
    BY <2>2, MeaningsAre
  <2>6. ns[i].op = ns[j].op
    BY <2>1, <2>2, MeaningOp
  <2>7. Fits(ns, ns[i], i - 1) /\ Fits(ns, ns[j], j - 1)
    BY <2>2 DEF Made
  <2>8. ns[i].of = ns[j].of /\ ns[i].kids = ns[j].kids => i = j
    <3>1. ns[i].of = ns[j].of /\ ns[i].kids = ns[j].kids => ns[i] = ns[j]
      BY <2>4, <2>6, Parts
    <3> QED
      BY <2>2, <3>1 DEF Made
  <2> HIDE DEF m
  <2>9. CASE ns[i].op # "add"
    <3>1. ns[i].of = ns[j].of /\ KidsBy(ns, m, i) = KidsBy(ns, m, j)
      <4>1. <<ns[i].op, ns[i].of, KidsBy(ns, m, i)>> = <<ns[j].op, ns[j].of, KidsBy(ns, m, j)>>
        BY <2>1, <2>5, <2>6, <2>9 DEF Tree
      <4> QED
        BY <4>1, Parts
    <3>2. DOMAIN ns[i].kids = DOMAIN ns[j].kids
      BY <3>1 DEF KidsBy
    <3>3. \A k \in DOMAIN ns[i].kids : m[ns[i].kids[k]] = m[ns[j].kids[k]]
      <4>1. ASSUME NEW k \in DOMAIN ns[i].kids PROVE m[ns[i].kids[k]] = m[ns[j].kids[k]]
        <5>1. KidsBy(ns, m, i)[k] = KidsBy(ns, m, j)[k]
          BY <3>1
        <5> QED
          BY <3>2, <5>1 DEF KidsBy
      <4> QED
        BY <4>1
    <3>4. \A k \in DOMAIN ns[i].kids : ns[i].kids[k] = ns[j].kids[k]
      BY <2>3, <2>4, <3>2, <3>3
    <3>5. ns[i].kids = ns[j].kids
      BY <2>4, <3>2, <3>4
    <3> QED
      BY <2>8, <3>1, <3>5
  <2>10. CASE ns[i].op = "add"
    <3> DEFINE a == ns[i].kids
               b == ns[j].kids
    <3>1. Sum(ns, ns[i]) /\ Sum(ns, ns[j])
      BY <2>6, <2>7, <2>10 DEF Fits
    <3>2. Len(a) = 2 /\ Len(b) = 2 /\ DOMAIN a = 1..2 /\ DOMAIN b = 1..2 /\ ns[i].of = ns[j].of
      <4>1. Len(a) = 2 /\ Len(b) = 2 /\ ns[i].of = ns[j].of
        BY <3>1 DEF Sum
      <4>2. a \in Seq(Nat) /\ b \in Seq(Nat)
        BY <2>4
      <4> QED
        BY <4>1, <4>2
    <3>3. a[1] \in 1..(i - 1) /\ a[2] \in 1..(i - 1) /\ b[1] \in 1..(i - 1) /\ b[2] \in 1..(i - 1)
      BY <2>4, <3>2
    <3>4. m[a[1]][1] # "const" /\ m[b[1]][1] # "const"
      <4>1. a[1] \in DOMAIN ns /\ b[1] \in DOMAIN ns
        BY <1>1, <2>2, <3>3
      <4>2. ~IsConst(ns, a[1]) /\ ~IsConst(ns, b[1])
        BY <3>1 DEF Sum
      <4> QED
        BY <4>1, <4>2, MeaningOp DEF m, IsConst
    <3>5. m[i] = <<"add", 0, {m[a[1]], m[a[2]]}>> /\ m[j] = <<"add", 0, {m[b[1]], m[b[2]]}>>
      <4>1. KidsBy(ns, m, i)[1] = m[a[1]] /\ KidsBy(ns, m, i)[2] = m[a[2]]
        BY <3>2 DEF KidsBy
      <4>2. KidsBy(ns, m, j)[1] = m[b[1]] /\ KidsBy(ns, m, j)[2] = m[b[2]]
        BY <3>2 DEF KidsBy
      <4> HIDE DEF a, b
      <4>3. m[i] = Added(m[a[1]], m[a[2]]) /\ m[j] = Added(m[b[1]], m[b[2]])
        BY <2>5, <2>6, <2>10, <4>1, <4>2 DEF Tree
      <4> QED
        BY <3>4, <4>3 DEF Added
    <3>6. {m[a[1]], m[a[2]]} = {m[b[1]], m[b[2]]}
      <4> HIDE DEF a, b
      <4>1. <<"add", 0, {m[a[1]], m[a[2]]}>> = <<"add", 0, {m[b[1]], m[b[2]]}>>
        BY <2>1, <3>5
      <4> QED
        BY <4>1, Parts
    <3>7. \/ m[a[1]] = m[b[1]] /\ m[a[2]] = m[b[2]]
          \/ m[a[1]] = m[b[2]] /\ m[a[2]] = m[b[1]]
      <4> HIDE DEF a, b
      <4> QED
        BY <3>6
    <3>8. \/ a[1] = b[1] /\ a[2] = b[2]
          \/ a[1] = b[2] /\ a[2] = b[1]
      <4> HIDE DEF a, b
      <4> QED
        BY <2>3, <3>3, <3>7
    <3>9. a[1] = b[1] /\ a[2] = b[2]
      <4>1. /\ ~IsConst(ns, a[1]) /\ (IsConst(ns, a[2]) \/ a[1] <= a[2])
            /\ ~IsConst(ns, b[1]) /\ (IsConst(ns, b[2]) \/ b[1] <= b[2])
        BY <3>1 DEF Sum
      <4> HIDE DEF a, b
      <4>2. a[1] \in Nat /\ a[2] \in Nat /\ b[1] \in Nat /\ b[2] \in Nat
        BY <2>2, <3>3
      <4> QED
        BY <3>8, <4>1, <4>2
    <3>10. a = b
      <4>1. a \in Seq(Nat) /\ b \in Seq(Nat)
        BY <2>4
      <4> HIDE DEF a, b
      <4>2. \A k \in DOMAIN a : a[k] = b[k]
        BY <3>2, <3>9
      <4> QED
        BY <3>2, <4>1, <4>2, Parts
    <3> QED
      BY <2>8, <3>2, <3>10
  <2> QED
    BY <2>9, <2>10
<1>3. 1..Len(ns) \subseteq G
  <2> HIDE DEF G
  <2> QED
    BY <1>1, <1>2, Ascend
<1>4. ASSUME NEW i \in DOMAIN ns, NEW j \in DOMAIN ns, m[i] = m[j] PROVE i = j
  <2>1. i \in G /\ j \in G
    BY <1>1, <1>3
  <2>2. j \in 1..i \/ i \in 1..j
    BY <1>1
  <2> HIDE DEF m
  <2> QED
    BY <1>4, <2>1, <2>2
<1> QED
  BY <1>4

-----------------------------------------------------------------------------
(* Construction                                                               *)

(* A node that fits an arena fits a longer one.                               *)
LEMMA FitsStays ==
  ASSUME NEW ns, NEW ms, Made(ns), \A i \in DOMAIN ns : ms[i] = ns[i],
         NEW n, NEW first \in Nat, first <= Len(ns), Fits(ns, n, first)
  PROVE  Fits(ms, n, first)
<1>1. Len(ns) \in Nat /\ DOMAIN ns = 1..Len(ns)
  BY MadeIs
<1>2. \A k \in DOMAIN n.kids : n.kids[k] \in 1..first
  BY DEF Fits
<1>3. 1..first \subseteq DOMAIN ns
  BY <1>1
<1>4. \A k \in DOMAIN n.kids : ms[n.kids[k]] = ns[n.kids[k]]
  BY <1>2, <1>3
<1>5. n.kids \in Seq(Nat)
  BY DEF Fits, NodeSet
<1>6. ASSUME Sum(ns, n) PROVE Sum(ms, n)
  <2>1. 1 \in DOMAIN n.kids /\ 2 \in DOMAIN n.kids
    BY <1>5, <1>6 DEF Sum
  <2> QED
    BY <1>4, <1>6, <2>1 DEF Sum, IsConst
<1> QED
  BY <1>6 DEF Fits

(* Making a node that fits: the arena has it, and it means what it says.      *)
LEMMA InternIs ==
  ASSUME NEW ns, Made(ns), NEW n, Fits(ns, n, Len(ns)), n.op # "param"
  PROVE  /\ Grown(ns, Intern(ns, n).nodes)
         /\ Intern(ns, n).ref \in DOMAIN Intern(ns, n).nodes
         /\ Intern(ns, n).nodes[Intern(ns, n).ref] = n
         /\ Meanings(Intern(ns, n).nodes)[Intern(ns, n).ref]
              = Tree(n, [k \in DOMAIN n.kids |-> Meanings(ns)[n.kids[k]]])
<1> DEFINE s == Intern(ns, n)
           ms == Append(ns, n)
<1>1. Len(ns) \in Nat /\ DOMAIN ns = 1..Len(ns) /\ ns \in Seq(NodeSet) /\ n \in NodeSet
  BY MadeIs DEF Fits, Made
<1>2. ASSUME \E i \in DOMAIN ns : ns[i] = n
      PROVE  Grown(ns, s.nodes) /\ s.ref \in DOMAIN s.nodes /\ s.nodes[s.ref] = n
  <2>1. s.nodes = ns /\ s.ref \in DOMAIN ns /\ ns[s.ref] = n
    BY <1>2 DEF Intern
  <2> QED
    BY <2>1, GrownIs
<1>3. ASSUME ~\E i \in DOMAIN ns : ns[i] = n
      PROVE  Grown(ns, s.nodes) /\ s.ref \in DOMAIN s.nodes /\ s.nodes[s.ref] = n
  <2>1. s.nodes = ms /\ s.ref = Len(ns) + 1
    BY <1>3 DEF Intern
  <2>2. /\ ms \in Seq(NodeSet) /\ Len(ms) = Len(ns) + 1 /\ DOMAIN ms = 1..(Len(ns) + 1)
        /\ ms[Len(ns) + 1] = n
        /\ \A i \in DOMAIN ns : ms[i] = ns[i]
    BY <1>1
  <2>3. \A i \in DOMAIN ms : i = Len(ns) + 1 \/ i \in DOMAIN ns
    BY <1>1, <2>2
  <2> HIDE DEF ms
  <2>4. ASSUME NEW i \in DOMAIN ms PROVE Fits(ms, ms[i], i - 1)
    <3>1. CASE i = Len(ns) + 1
      <4>1. i - 1 = Len(ns) /\ ms[i] = n
        BY <1>1, <2>2, <3>1
      <4> QED
        BY <1>1, <2>2, <4>1, FitsStays
    <3>2. CASE i \in DOMAIN ns
      <4>1. Fits(ns, ns[i], i - 1) /\ i - 1 \in Nat /\ i - 1 <= Len(ns) /\ ms[i] = ns[i]
        BY <1>1, <2>2, <3>2 DEF Made
      <4> QED
        BY <2>2, <4>1, FitsStays
    <3> QED
      BY <2>3, <3>1, <3>2
  <2>5. \A i, j \in DOMAIN ms : ms[i] = ms[j] => i = j
    BY <1>3, <2>2, <2>3 DEF Made
  <2>6. Made(ms)
    BY <2>2, <2>4, <2>5 DEF Made
  <2>7. Grown(ns, ms)
    BY <1>1, <2>2, <2>3, <2>6 DEF Grown
  <2> QED
    BY <1>1, <2>1, <2>2, <2>7
<1>4. Grown(ns, s.nodes) /\ s.ref \in DOMAIN s.nodes /\ s.nodes[s.ref] = n
  BY <1>2, <1>3
<1> HIDE DEF s
<1>5. Made(s.nodes)
  BY <1>4 DEF Grown
<1>6. Meanings(s.nodes)[s.ref] = Tree(n, KidsBy(s.nodes, Meanings(s.nodes), s.ref))
  BY <1>4, <1>5, MeaningsAre
<1>7. \A k \in DOMAIN n.kids : n.kids[k] \in DOMAIN ns
  BY <1>1 DEF Fits
<1>8. KidsBy(s.nodes, Meanings(s.nodes), s.ref) = [k \in DOMAIN n.kids |-> Meanings(ns)[n.kids[k]]]
  BY <1>4, <1>7, MeaningsStay DEF KidsBy
<1> QED
  BY <1>4, <1>6, <1>8 DEF s

(* A node is made of its parts.                                               *)
LEMMA NodeIs ==
  ASSUME NEW op \in Ops, NEW of \in Int, NEW kids \in Seq(Nat)
  PROVE  Node(op, of, kids) \in NodeSet /\ Node(op, of, kids).op = op /\ Node(op, of, kids).of = of /\ Node(op, of, kids).kids = kids
BY DEF Node, NodeSet

(* Making a constant.                                                         *)
LEMMA ConstIs ==
  ASSUME NEW ns, Made(ns), NEW v \in Int
  PROVE  /\ Grown(ns, Intern(ns, Const(v)).nodes)
         /\ Intern(ns, Const(v)).ref \in DOMAIN Intern(ns, Const(v)).nodes
         /\ Meanings(Intern(ns, Const(v)).nodes)[Intern(ns, Const(v)).ref] = <<"const", v, <<>>>>
<1> DEFINE n == Const(v)
<1>1. n \in NodeSet /\ n.kids = <<>> /\ n.op = "const" /\ n.of = v
  <2>1. "const" \in Ops /\ <<>> \in Seq(Nat)
    BY DEF Ops
  <2>2. n = Node("const", v, <<>>)
    BY DEF Const
  <2> HIDE DEF n
  <2> QED
    BY <2>1, <2>2 DEF Node, NodeSet
<1>2. DOMAIN n.kids = {}
  BY <1>1
<1> HIDE DEF n
<1>3. Fits(ns, n, Len(ns))
  BY <1>1, <1>2 DEF Fits
<1>4. [k \in DOMAIN n.kids |-> Meanings(ns)[n.kids[k]]] = <<>>
  BY <1>2
<1>5. Tree(n, <<>>) = <<"const", v, <<>>>>
  BY <1>1 DEF Tree
<1>6. n.op # "param"
  BY <1>1
<1>7. Meanings(Intern(ns, n).nodes)[Intern(ns, n).ref] = Tree(n, [k \in DOMAIN n.kids |-> Meanings(ns)[n.kids[k]]])
  BY <1>3, <1>6, InternIs
<1>8. Meanings(Intern(ns, n).nodes)[Intern(ns, n).ref] = <<"const", v, <<>>>>
  BY <1>4, <1>5, <1>7
<1>9. Grown(ns, Intern(ns, n).nodes) /\ Intern(ns, n).ref \in DOMAIN Intern(ns, n).nodes
  BY <1>3, <1>6, InternIs
<1> QED
  BY <1>8, <1>9 DEF n

(* A sum means the sum of what its operands mean.                             *)
LEMMA BinIs ==
  ASSUME NEW ns, Made(ns), NEW a \in DOMAIN ns, NEW b \in DOMAIN ns
  PROVE  /\ Grown(ns, Bin(ns, a, b).nodes)
         /\ Bin(ns, a, b).ref \in DOMAIN Bin(ns, a, b).nodes
         /\ Meanings(Bin(ns, a, b).nodes)[Bin(ns, a, b).ref] = Added(Meanings(ns)[a], Meanings(ns)[b])
<1> DEFINE m == Meanings(ns)
<1>1. /\ ns[a] \in NodeSet /\ ns[b] \in NodeSet /\ a \in Nat /\ b \in Nat
      /\ m[a] = Tree(ns[a], KidsBy(ns, m, a)) /\ m[b] = Tree(ns[b], KidsBy(ns, m, b))
      /\ m[a][1] = ns[a].op /\ m[b][1] = ns[b].op
  BY MadeIs, MeaningsAre, MeaningOp
<1>2. Len(ns) \in Nat /\ DOMAIN ns = 1..Len(ns)
  BY MadeIs
<1> HIDE DEF m
<1>3. CASE IsConst(ns, a) /\ IsConst(ns, b)
  <2> DEFINE v == ns[a].of + ns[b].of
  <2>1. v \in Int
    BY <1>1 DEF NodeSet
  <2>2. ns[a].op = "const" /\ ns[b].op = "const"
    BY <1>3 DEF IsConst
  <2>3. m[a] = <<"const", ns[a].of, KidsBy(ns, m, a)>> /\ m[b] = <<"const", ns[b].of, KidsBy(ns, m, b)>>
    BY <1>1, <2>2 DEF Tree
  <2>4. Added(m[a], m[b]) = <<"const", v, <<>>>>
    BY <2>3 DEF Added
  <2>5. Bin(ns, a, b) = Intern(ns, Const(v))
    BY <1>3 DEF Bin
  <2> HIDE DEF v
  <2> QED
    BY <2>1, <2>4, <2>5, ConstIs DEF m
<1>4. CASE ~(IsConst(ns, a) /\ IsConst(ns, b))
  <2> DEFINE o == Ordered(ns, a, b)
             n == Node("add", 0, o)
             K == [k \in DOMAIN n.kids |-> m[n.kids[k]]]
  <2>1. o = <<a, b>> \/ o = <<b, a>>
    BY DEF Ordered
  <2>2. o \in Seq(Nat) /\ Len(o) = 2 /\ DOMAIN o = 1..2 /\ o[1] \in {a, b} /\ o[2] \in {a, b}
    <3>1. /\ <<a, b>> \in Seq(Nat) /\ Len(<<a, b>>) = 2 /\ DOMAIN <<a, b>> = 1..2 /\ <<a, b>>[1] = a /\ <<a, b>>[2] = b
          /\ <<b, a>> \in Seq(Nat) /\ Len(<<b, a>>) = 2 /\ DOMAIN <<b, a>> = 1..2 /\ <<b, a>>[1] = b /\ <<b, a>>[2] = a
      BY <1>1
    <3> HIDE DEF o
    <3> QED
      BY <2>1, <3>1
  <2>3. ~IsConst(ns, o[1]) /\ (IsConst(ns, o[2]) \/ o[1] <= o[2])
    BY <1>1, <1>4 DEF Ordered
  <2> HIDE DEF o
  <2>4. n \in NodeSet /\ n.op = "add" /\ n.of = 0 /\ n.kids = o
    <3>1. "add" \in Ops /\ 0 \in Int
      BY DEF Ops
    <3> QED
      BY <2>2, <3>1, NodeIs
  <2> HIDE DEF n
  <2>5. Fits(ns, n, Len(ns))
    <3>1. \A k \in DOMAIN n.kids : n.kids[k] \in 1..Len(ns)
      BY <1>2, <2>2, <2>4
    <3>2. Sum(ns, n)
      BY <2>2, <2>3, <2>4 DEF Sum
    <3> QED
      BY <2>4, <3>1, <3>2 DEF Fits
  <2>6. K[1] = m[o[1]] /\ K[2] = m[o[2]]
    BY <2>2, <2>4
  <2>7. Tree(n, K) = Added(m[o[1]], m[o[2]])
    <3> HIDE DEF K
    <3> QED
      BY <2>4, <2>6 DEF Tree
  <2>8. Added(m[o[1]], m[o[2]]) = Added(m[a], m[b])
    <3>1. m[a][1] # "const" \/ m[b][1] # "const"
      BY <1>1, <1>4 DEF IsConst
    <3>2. {m[a], m[b]} = {m[b], m[a]}
      OBVIOUS
    <3>3. Added(m[a], m[b]) = Added(m[b], m[a])
      BY <3>1, <3>2 DEF Added
    <3> QED
      BY <2>1, <3>3
  <2>9. Bin(ns, a, b) = Intern(ns, n)
    BY <1>4 DEF Bin, o, n
  <2> HIDE DEF K
  <2>10. n.op # "param"
    BY <2>4
  <2>11. Meanings(Intern(ns, n).nodes)[Intern(ns, n).ref] = Tree(n, K)
    BY <2>5, <2>10, InternIs DEF K, m
  <2> QED
    BY <2>5, <2>7, <2>8, <2>9, <2>10, <2>11, InternIs DEF m
<1> QED
  BY <1>3, <1>4 DEF m

(* A node built again over other kids means what it says of them.             *)
LEMMA RebuiltIs ==
  ASSUME NEW ns, Made(ns), NEW n \in NodeSet, n.op # "param",
         NEW kids, DOMAIN kids = DOMAIN n.kids, kids = [k \in DOMAIN kids |-> kids[k]],
         \A k \in DOMAIN kids : kids[k] \in DOMAIN ns,
         n.op = "add" => Len(n.kids) = 2, n.op \notin {"add", "load"} => n.kids = <<>>
  PROVE  /\ Grown(ns, Rebuilt(ns, n, kids).nodes)
         /\ Rebuilt(ns, n, kids).ref \in DOMAIN Rebuilt(ns, n, kids).nodes
         /\ Meanings(Rebuilt(ns, n, kids).nodes)[Rebuilt(ns, n, kids).ref]
              = Tree(n, [k \in DOMAIN n.kids |-> Meanings(ns)[kids[k]]])
<1> DEFINE m == Meanings(ns)
           K == [k \in DOMAIN n.kids |-> m[kids[k]]]
<1>1. n.kids \in Seq(Nat) /\ n.of \in Int /\ n.op \in Ops
  BY DEF NodeSet
<1>2. CASE n.op = "add"
  <2>1. DOMAIN n.kids = 1..2
    BY <1>1, <1>2
  <2>2. kids[1] \in DOMAIN ns /\ kids[2] \in DOMAIN ns
    BY <2>1
  <2>3. K[1] = m[kids[1]] /\ K[2] = m[kids[2]]
    BY <2>1
  <2>4. Tree(n, K) = Added(m[kids[1]], m[kids[2]])
    <3> HIDE DEF K, m
    <3> QED
      BY <1>2, <2>3 DEF Tree
  <2>5. Rebuilt(ns, n, kids) = Bin(ns, kids[1], kids[2])
    BY <1>2 DEF Rebuilt
  <2> QED
    BY <2>2, <2>4, <2>5, BinIs
<1>3. CASE n.op # "add"
  <2> DEFINE p == Node(n.op, n.of, kids)
  <2>1. Len(n.kids) \in Nat /\ DOMAIN kids = 1..Len(n.kids)
    BY <1>1
  <2>2. \A k \in DOMAIN kids : kids[k] \in 1..Len(ns) /\ kids[k] \in Nat
    BY MadeIs
  <2>3. kids \in Seq(Nat)
    BY <2>1, <2>2
  <2>4. p \in NodeSet /\ p.op = n.op /\ p.of = n.of /\ p.kids = kids
    BY <1>1, <2>3 DEF Node, NodeSet
  <2>5. n.op \notin {"add", "load"} => kids = <<>>
    <3>1. ASSUME n.op \notin {"add", "load"} PROVE kids = <<>>
      <4>1. DOMAIN kids = {}
        BY <3>1
      <4> QED
        BY <4>1
    <3> QED
      BY <3>1
  <2> HIDE DEF p
  <2>6. Fits(ns, p, Len(ns))
    BY <1>3, <2>2, <2>4, <2>5 DEF Fits
  <2>7. p.op # "param"
    BY <2>4
  <2>8. Meanings(Intern(ns, p).nodes)[Intern(ns, p).ref] = Tree(p, [k \in DOMAIN p.kids |-> m[p.kids[k]]])
    BY <2>6, <2>7, InternIs
  <2>9. [k \in DOMAIN p.kids |-> m[p.kids[k]]] = K
    BY <2>4
  <2> HIDE DEF K, m
  <2>10. Tree(p, K) = Tree(n, K)
    BY <2>4 DEF Tree
  <2>11. Rebuilt(ns, n, kids) = Intern(ns, p)
    BY <1>3 DEF Rebuilt, p
  <2> QED
    BY <2>6, <2>7, <2>8, <2>9, <2>10, <2>11, InternIs DEF K, m
<1> QED
  BY <1>2, <1>3

-----------------------------------------------------------------------------
(* Reaching, and depending on the pins                                        *)

\* What is reached from node i where r says what is reached from its kids.
ReachBy(ns, open, r, i) == {i} \cup IF i \in open THEN UNION {r[k] : k \in ToSet(ns[i].kids)} ELSE {}

(* The kids of a node come before it.                                         *)
LEMMA KidsBefore ==
  ASSUME NEW ns, Made(ns), NEW i \in DOMAIN ns
  PROVE  \A k \in ToSet(ns[i].kids) : k \in 1..(i - 1) /\ k \in DOMAIN ns
BY MadeIs DEF ToSet

(* The equations for what is reached have a solution.                         *)
LEMMA ReachIs ==
  ASSUME NEW ns, Made(ns), NEW open
  PROVE  /\ DOMAIN Reach(ns, open) = DOMAIN ns
         /\ \A i \in DOMAIN ns : Reach(ns, open)[i] = ReachBy(ns, open, Reach(ns, open), i)
<1> DEFINE n == Len(ns)
           Solves(f, k) == f = [i \in 1..k |-> ReachBy(ns, open, f, i)]
           T == {k \in 0..n : \E f : Solves(f, k)}
<1>1. n \in Nat /\ DOMAIN ns = 1..n
  BY MadeIs
<1>2. 0 \in T
  <2>1. Solves([i \in 1..0 |-> 0], 0)
    OBVIOUS
  <2>2. \E f : Solves(f, 0)
    BY <2>1
  <2> HIDE DEF Solves
  <2> QED
    BY <1>1, <2>2
<1>3. ASSUME NEW k \in T, k < n PROVE k + 1 \in T
  <2>1. PICK f : Solves(f, k)
    OBVIOUS
  <2> DEFINE g == [i \in 1..(k + 1) |-> ReachBy(ns, open, f, i)]
  <2>2. k \in Nat /\ k + 1 \in 0..n /\ 1..(k + 1) \subseteq DOMAIN ns
    BY <1>1, <1>3
  <2>3. \A i \in 1..k : g[i] = f[i]
    BY <2>1, <2>2
  <2>4. ASSUME NEW i \in 1..(k + 1) PROVE ReachBy(ns, open, g, i) = ReachBy(ns, open, f, i)
    <3>1. ASSUME NEW d \in ToSet(ns[i].kids) PROVE g[d] = f[d]
      <4>1. d \in 1..(i - 1)
        BY <2>2, KidsBefore
      <4>2. d \in 1..k
        BY <2>2, <4>1
      <4> QED
        BY <2>3, <4>2
    <3>2. {g[d] : d \in ToSet(ns[i].kids)} = {f[d] : d \in ToSet(ns[i].kids)}
      <4> HIDE DEF g
      <4> QED
        BY <3>1
    <3> HIDE DEF g
    <3> QED
      BY <3>2 DEF ReachBy
  <2>5. Solves(g, k + 1)
    BY <2>4
  <2> QED
    BY <2>2, <2>5
<1>4. n \in T
  <2> HIDE DEF T
  <2>1. T \in SUBSET (0..n)
    BY DEF T
  <2> QED
    BY <1>1, <1>2, <1>3, <2>1, Climb
<1>5. \E f : f = [i \in DOMAIN ns |-> ReachBy(ns, open, f, i)]
  BY <1>1, <1>4
<1>6. Reach(ns, open) = [i \in DOMAIN ns |-> ReachBy(ns, open, Reach(ns, open), i)]
  BY <1>5 DEF Reach, ReachBy
<1> QED
  BY <1>6

(* A node reaches itself and nodes before it, and with an open one its kids.  *)
LEMMA Reached ==
  ASSUME NEW ns, Made(ns), NEW open
  PROVE  \A i \in DOMAIN ns : /\ i \in Reach(ns, open)[i] /\ Reach(ns, open)[i] \subseteq 1..i
                              /\ \A j \in Reach(ns, open)[i] : j \in open => ToSet(ns[j].kids) \subseteq Reach(ns, open)[i]
<1> DEFINE R == Reach(ns, open)
           Good(i) == /\ i \in R[i] /\ R[i] \subseteq 1..i
                      /\ \A j \in R[i] : j \in open => ToSet(ns[j].kids) \subseteq R[i]
           G == {i \in DOMAIN ns : Good(i)}
<1>1. Len(ns) \in Nat /\ DOMAIN ns = 1..Len(ns)
  BY MadeIs
<1>2. ASSUME NEW i \in 1..Len(ns), 1..(i - 1) \subseteq G PROVE i \in G
  <2> DEFINE K == ToSet(ns[i].kids)
  <2>1. i \in DOMAIN ns /\ i \in Nat
    BY <1>1
  <2>2. R[i] = ReachBy(ns, open, R, i)
    BY <2>1, ReachIs
  <2>3. \A k \in K : k \in 1..(i - 1)
    BY <2>1, KidsBefore
  <2> HIDE DEF R, K
  <2>4. ASSUME NEW k \in K PROVE Good(k) /\ R[k] \subseteq 1..i
    <3>1. k \in G
      BY <1>2, <2>3
    <3>2. 1..k \subseteq 1..i
      BY <2>1, <2>3
    <3> QED
      BY <3>1, <3>2
  <2>5. CASE i \in open
    <3>1. R[i] = {i} \cup UNION {R[k] : k \in K}
      BY <2>2, <2>5 DEF ReachBy, K
    <3>2. \A k \in K : k \in R[i] /\ R[k] \subseteq R[i]
      BY <2>4, <3>1
    <3>3. R[i] \subseteq 1..i
      BY <2>1, <2>4, <3>1
    <3>4. ASSUME NEW j \in R[i], j \in open PROVE ToSet(ns[j].kids) \subseteq R[i]
      <4>1. CASE j = i
        BY <3>2, <4>1 DEF K
      <4>2. CASE j # i
        <5>1. PICK k \in K : j \in R[k]
          BY <3>1, <4>2
        <5>2. ToSet(ns[j].kids) \subseteq R[k]
          BY <2>4, <3>4, <5>1
        <5> QED
          BY <3>2, <5>2
      <4> QED
        BY <4>1, <4>2
    <3> QED
      BY <2>1, <3>1, <3>3, <3>4
  <2>6. CASE i \notin open
    <3>1. R[i] = {i}
      BY <2>2, <2>6 DEF ReachBy
    <3> QED
      BY <2>1, <2>6, <3>1
  <2> QED
    BY <2>5, <2>6
<1>3. 1..Len(ns) \subseteq G
  <2> HIDE DEF G
  <2> QED
    BY <1>1, <1>2, Ascend
<1> QED
  BY <1>1, <1>3

\* Whether node i depends on a pin where d says it of its kids.
DependsBy(ns, pins, deps, d, i) ==
    IF i \in DOMAIN deps THEN deps[i] ELSE IsPinned(pins, i) \/ \E k \in ToSet(ns[i].kids) : d[k]

(* The equations for what depends on the pins have a solution.                *)
LEMMA DependsIs ==
  ASSUME NEW ns, Made(ns), NEW pins, NEW deps
  PROVE  /\ DOMAIN Depends(ns, pins, deps) = DOMAIN ns
         /\ \A i \in DOMAIN ns : Depends(ns, pins, deps)[i] = DependsBy(ns, pins, deps, Depends(ns, pins, deps), i)
<1> DEFINE n == Len(ns)
           Solves(f, k) == f = [i \in 1..k |-> DependsBy(ns, pins, deps, f, i)]
           T == {k \in 0..n : \E f : Solves(f, k)}
<1>1. n \in Nat /\ DOMAIN ns = 1..n
  BY MadeIs
<1>2. 0 \in T
  <2>1. Solves([i \in 1..0 |-> 0], 0)
    OBVIOUS
  <2>2. \E f : Solves(f, 0)
    BY <2>1
  <2> HIDE DEF Solves
  <2> QED
    BY <1>1, <2>2
<1>3. ASSUME NEW k \in T, k < n PROVE k + 1 \in T
  <2>1. PICK f : Solves(f, k)
    OBVIOUS
  <2> DEFINE g == [i \in 1..(k + 1) |-> DependsBy(ns, pins, deps, f, i)]
  <2>2. k \in Nat /\ k + 1 \in 0..n /\ 1..(k + 1) \subseteq DOMAIN ns
    BY <1>1, <1>3
  <2>3. \A i \in 1..k : g[i] = f[i]
    BY <2>1, <2>2
  <2>4. ASSUME NEW i \in 1..(k + 1) PROVE DependsBy(ns, pins, deps, g, i) = DependsBy(ns, pins, deps, f, i)
    <3>1. ASSUME NEW d \in ToSet(ns[i].kids) PROVE g[d] = f[d]
      <4>1. d \in 1..(i - 1)
        BY <2>2, KidsBefore
      <4>2. d \in 1..k
        BY <2>2, <4>1
      <4> QED
        BY <2>3, <4>2
    <3>2. (\E d \in ToSet(ns[i].kids) : g[d]) = (\E d \in ToSet(ns[i].kids) : f[d])
      <4> HIDE DEF g
      <4> QED
        BY <3>1
    <3> HIDE DEF g
    <3> QED
      BY <3>2 DEF DependsBy
  <2>5. Solves(g, k + 1)
    BY <2>4
  <2> QED
    BY <2>2, <2>5
<1>4. n \in T
  <2> HIDE DEF T
  <2>1. T \in SUBSET (0..n)
    BY DEF T
  <2> QED
    BY <1>1, <1>2, <1>3, <2>1, Climb
<1>5. \E f : f = [i \in DOMAIN ns |-> DependsBy(ns, pins, deps, f, i)]
  BY <1>1, <1>4
<1>6. Depends(ns, pins, deps) = [i \in DOMAIN ns |-> DependsBy(ns, pins, deps, Depends(ns, pins, deps), i)]
  BY <1>5 DEF Depends, DependsBy
<1> QED
  BY <1>6

(* What depends on no pin means with them what it means without, if the       *)
(* answers kept from before are right.                                        *)
LEMMA Independent ==
  ASSUME NEW ns, Made(ns), NEW pins, NEW deps,
         \A j \in DOMAIN deps : j \in DOMAIN ns /\ (~deps[j] => Pinning(ns, pins)[j] = Meanings(ns)[j])
  PROVE  \A i \in DOMAIN ns : ~Depends(ns, pins, deps)[i] => Pinning(ns, pins)[i] = Meanings(ns)[i]
<1> DEFINE P == Pinning(ns, pins)
           m == Meanings(ns)
           D == Depends(ns, pins, deps)
           G == {i \in DOMAIN ns : ~D[i] => P[i] = m[i]}
<1>1. Len(ns) \in Nat /\ DOMAIN ns = 1..Len(ns)
  BY MadeIs
<1>2. ASSUME NEW i \in 1..Len(ns), 1..(i - 1) \subseteq G PROVE i \in G
  <2>1. i \in DOMAIN ns
    BY <1>1
  <2>2. SUFFICES ASSUME ~D[i] PROVE P[i] = m[i]
    BY <2>1
  <2>3. D[i] = DependsBy(ns, pins, deps, D, i)
    BY <2>1, DependsIs
  <2>4. CASE i \in DOMAIN deps
    <3>1. D[i] = deps[i]
      BY <2>3, <2>4 DEF DependsBy
    <3> QED
      BY <2>2, <2>4, <3>1
  <2>5. CASE i \notin DOMAIN deps
    <3> HIDE DEF D
    <3>1. ~IsPinned(pins, i) /\ \A k \in ToSet(ns[i].kids) : ~D[k]
      BY <2>2, <2>3, <2>5 DEF DependsBy
    <3>2. \A k \in DOMAIN ns[i].kids : ns[i].kids[k] \in 1..(i - 1) /\ ns[i].kids[k] \in ToSet(ns[i].kids)
      BY <2>1, MadeIs DEF ToSet
    <3>3. \A k \in DOMAIN ns[i].kids : P[ns[i].kids[k]] = m[ns[i].kids[k]]
      BY <1>2, <3>1, <3>2
    <3>4. P[i] = MeansBy(ns, pins, P, i) /\ m[i] = Tree(ns[i], KidsBy(ns, m, i))
      BY <2>1, PinningIs, MeaningsAre
    <3> HIDE DEF P, m
    <3>5. KidsBy(ns, P, i) = KidsBy(ns, m, i)
      BY <3>3 DEF KidsBy
    <3> QED
      BY <3>1, <3>4, <3>5 DEF MeansBy
  <2> QED
    BY <2>4, <2>5
<1>3. 1..Len(ns) \subseteq G
  <2> HIDE DEF G
  <2> QED
    BY <1>1, <1>2, Ascend
<1> QED
  BY <1>1, <1>3

(* The value of a pinned node is that of one of its pins.                     *)
LEMMA PinOfIs ==
  ASSUME NEW pins, NEW p \in Nat, DOMAIN pins = 1..p, NEW i, IsPinned(pins, i)
  PROVE  \E n \in DOMAIN pins : pins[n].node = i /\ PinOf(pins, i) = pins[n].value
<1> DEFINE S == {n \in DOMAIN pins : pins[n].node = i}
           G == {n \in 1..p : n \in S => \E x \in S : \A y \in S : x <= y}
<1>1. PICK a \in 1..p : a \in S
  BY DEF IsPinned
<1>2. ASSUME NEW n \in 1..p, 1..(n - 1) \subseteq G PROVE n \in G
  <2>1. SUFFICES ASSUME n \in S PROVE \E x \in S : \A y \in S : x <= y
    OBVIOUS
  <2>2. CASE \E b \in S : b < n
    <3>1. PICK b \in S : b < n
      BY <2>2
    <3>2. b \in 1..(n - 1)
      BY <3>1
    <3> HIDE DEF S
    <3> QED
      BY <1>2, <3>2
  <2>3. CASE \A b \in S : ~(b < n)
    <3>1. \A y \in S : n <= y
      BY <2>3
    <3> QED
      BY <2>1, <3>1
  <2> QED
    BY <2>2, <2>3
<1>3. 1..p \subseteq G
  <2> HIDE DEF G
  <2> QED
    BY <1>2, Ascend
<1>4. \E x \in S : \A y \in S : x <= y
  <2> HIDE DEF S
  <2> QED
    BY <1>1, <1>3
<1>5. Min(S) \in S
  <2> HIDE DEF S
  <2> QED
    BY <1>4 DEF Min
<1>6. PinOf(pins, i) = pins[Min(S)].value
  BY DEF PinOf
<1> QED
  BY <1>5, <1>6

-----------------------------------------------------------------------------
(* Substitution                                                               *)

\* The caches c, of an arena grown from ns, are right for the pins.
CachesRight(ns, c, pins) ==
    /\ Grown(ns, c.nodes)
    /\ \A j \in DOMAIN c.memo : /\ j \in DOMAIN ns /\ c.memo[j] \in DOMAIN c.nodes
                                /\ Meanings(c.nodes)[c.memo[j]] = Pinning(ns, pins)[j]
    /\ \A j \in DOMAIN c.dep : j \in DOMAIN ns /\ (~c.dep[j] => Pinning(ns, pins)[j] = Meanings(ns)[j])

\* Pins with numbers for values.
Numbers(pins) == \E p \in Nat : DOMAIN pins = 1..p /\ \A n \in DOMAIN pins : pins[n].value \in Int

(* Caches that are right for an arena are right for one grown from it.        *)
LEMMA RightStays ==
  ASSUME NEW ns, NEW ms, NEW mm, NEW dd, NEW pins, Made(ns), Grown(ns, ms),
         CachesRight(ns, Caches(ms, mm, dd), pins)
  PROVE  CachesRight(ms, Caches(ms, mm, dd), pins)
<1>1. Made(ms) /\ Grown(ms, ms)
  BY GrownIs DEF Grown
<1>2. \A j \in DOMAIN ns : j \in DOMAIN ms /\ Pinning(ms, pins)[j] = Pinning(ns, pins)[j] /\ Meanings(ms)[j] = Meanings(ns)[j]
  BY MeaningsStay, PinningStays
<1> QED
  BY <1>1, <1>2 DEF CachesRight, Caches

(* Caches that are right stay right when the arena grows.                     *)
LEMMA RightGrows ==
  ASSUME NEW ns, NEW ms, NEW mm, NEW dd, NEW pins, Made(ns), Grown(ns, ms),
         CachesRight(ns, Caches(ns, mm, dd), pins)
  PROVE  CachesRight(ms, Caches(ms, mm, dd), pins)
<1>1. \A j \in DOMAIN ns : j \in DOMAIN ms /\ Meanings(ms)[j] = Meanings(ns)[j]
  BY MeaningsStay
<1>2. CachesRight(ns, Caches(ms, mm, dd), pins)
  BY <1>1 DEF CachesRight, Caches
<1> QED
  BY <1>2, RightStays

(* Substituting in one node, whose kids are done if it needs them.            *)
LEMMA SubstNodeIs ==
  ASSUME NEW ns, Made(ns), NEW pins, Numbers(pins), NEW e, CachesRight(ns, e, pins), NEW d,
         NEW i \in DOMAIN ns, i \notin DOMAIN e.memo,
         ~d[i] => Pinning(ns, pins)[i] = Meanings(ns)[i],
         d[i] /\ ~IsPinned(pins, i) => ToSet(ns[i].kids) \subseteq DOMAIN e.memo
  PROVE  /\ CachesRight(ns, SubstNode(e, i, pins, d), pins)
         /\ DOMAIN SubstNode(e, i, pins, d).memo = DOMAIN e.memo \cup {i}
<1> DEFINE P == Pinning(ns, pins)
           n == e.nodes[i]
           kids == [k \in DOMAIN n.kids |-> e.memo[n.kids[k]]]
           made == IF ~d[i] \/ (~IsPinned(pins, i) /\ kids = n.kids) THEN [nodes |-> e.nodes, ref |-> i]
                   ELSE IF IsPinned(pins, i) THEN Intern(e.nodes, Const(PinOf(pins, i)))
                   ELSE Rebuilt(e.nodes, n, kids)
<1>1. Grown(ns, e.nodes) /\ Made(e.nodes) /\ Grown(e.nodes, e.nodes)
  BY GrownIs DEF CachesRight, Grown
<1>2. i \in DOMAIN e.nodes /\ Meanings(e.nodes)[i] = Meanings(ns)[i] /\ n = ns[i]
  <2>1. n = ns[i]
    BY <1>1 DEF Grown
  <2> HIDE DEF n, kids, made
  <2> QED
    BY <1>1, <2>1, MeaningsStay
<1>3. P[i] = MeansBy(ns, pins, P, i)
  BY PinningIs
<1>4. /\ ns[i] \in NodeSet /\ ns[i].kids \in Seq(Nat) /\ Fits(ns, ns[i], i - 1)
      /\ \A k \in DOMAIN ns[i].kids : ns[i].kids[k] \in ToSet(ns[i].kids)
  BY MadeIs DEF ToSet, Made
<1>5. /\ Grown(e.nodes, made.nodes) /\ made.ref \in DOMAIN made.nodes
      /\ Meanings(made.nodes)[made.ref] = P[i]
  <2>1. CASE ~d[i]
    <3>1. made = [nodes |-> e.nodes, ref |-> i]
      BY <2>1
    <3> HIDE DEF made
    <3> QED
      BY <1>1, <1>2, <2>1, <3>1
  <2>2. CASE d[i] /\ IsPinned(pins, i)
    <3> DEFINE v == PinOf(pins, i)
    <3>1. made = Intern(e.nodes, Const(v))
      BY <2>2
    <3>2. v \in Int
      BY <2>2, PinOfIs DEF Numbers
    <3>3. P[i] = Tree(Const(v), <<>>)
      BY <1>3, <2>2 DEF MeansBy
    <3>4. Tree(Const(v), <<>>) = <<"const", v, <<>>>>
      BY DEF Tree, Const, Node
    <3> HIDE DEF made, v
    <3> QED
      BY <1>1, <3>1, <3>2, <3>3, <3>4, ConstIs
  <2>3. CASE d[i] /\ ~IsPinned(pins, i)
    <3>1. \A k \in DOMAIN n.kids : n.kids[k] \in DOMAIN e.memo
      BY <1>2, <1>4, <2>3
    <3>2. \A k \in DOMAIN n.kids : /\ kids[k] \in DOMAIN e.nodes
                                   /\ Meanings(e.nodes)[kids[k]] = P[n.kids[k]]
      BY <3>1 DEF CachesRight
    <3>3. P[i] = Tree(n, [k \in DOMAIN n.kids |-> Meanings(e.nodes)[kids[k]]])
      <4>1. KidsBy(ns, P, i) = [k \in DOMAIN n.kids |-> Meanings(e.nodes)[kids[k]]]
        <5> HIDE DEF kids, P
        <5> QED
          BY <1>2, <3>2 DEF KidsBy
      <4> QED
        BY <1>2, <1>3, <2>3, <4>1 DEF MeansBy
    <3>4. CASE kids = n.kids
      <4>1. made = [nodes |-> e.nodes, ref |-> i]
        BY <2>3, <3>4
      <4>2. Meanings(e.nodes)[i] = Tree(n, KidsBy(e.nodes, Meanings(e.nodes), i))
        BY <1>1, <1>2, MeaningsAre
      <4>3. [k \in DOMAIN n.kids |-> Meanings(e.nodes)[kids[k]]] = KidsBy(e.nodes, Meanings(e.nodes), i)
        BY <3>4 DEF KidsBy
      <4> HIDE DEF made
      <4> QED
        BY <1>1, <1>2, <3>3, <4>1, <4>2, <4>3
    <3>5. CASE kids # n.kids
      <4>1. made = Rebuilt(e.nodes, n, kids)
        BY <2>3, <3>5
      <4>2. n \in NodeSet /\ (n.op = "add" => Len(n.kids) = 2) /\ (n.op \notin {"add", "load"} => n.kids = <<>>)
        BY <1>2, <1>4 DEF Fits, Sum
      <4>3. n.op \in {"add", "load"}
        <5>1. ASSUME n.kids = <<>> PROVE kids = n.kids
          <6>1. DOMAIN n.kids = {}
            BY <5>1
          <6> QED
            BY <5>1, <6>1
        <5> QED
          BY <3>5, <4>2, <5>1
      <4>4. DOMAIN kids = DOMAIN n.kids /\ kids = [k \in DOMAIN kids |-> kids[k]]
        OBVIOUS
      <4> HIDE DEF made, kids, n
      <4>5. n.op # "param"
        BY <4>3
      <4>6. \A k \in DOMAIN kids : kids[k] \in DOMAIN e.nodes
        BY <3>2, <4>4
      <4> QED
        BY <1>1, <3>3, <4>1, <4>2, <4>4, <4>5, <4>6, RebuiltIs
    <3> QED
      BY <3>4, <3>5
  <2> QED
    BY <2>1, <2>2, <2>3
<1> DEFINE s == SubstNode(e, i, pins, d)
<1>6. s = Caches(made.nodes, Over(e.memo, At(i, made.ref)), Over(At(i, d[i]), e.dep))
  BY DEF SubstNode
<1> HIDE DEF made, s, P, n, kids
<1>7. s.nodes = made.nodes /\ s.memo = Over(e.memo, At(i, made.ref)) /\ s.dep = Over(At(i, d[i]), e.dep)
  BY <1>6 DEF Caches
<1>8. Grown(ns, s.nodes)
  BY <1>1, <1>5, <1>7, GrownIs
<1>9. DOMAIN s.memo = DOMAIN e.memo \cup {i} /\ DOMAIN s.dep = DOMAIN e.dep \cup {i}
  BY <1>7 DEF Over, At
<1>10. ASSUME NEW j \in DOMAIN s.memo
       PROVE  j \in DOMAIN ns /\ s.memo[j] \in DOMAIN s.nodes /\ Meanings(s.nodes)[s.memo[j]] = P[j]
  <2>1. CASE j = i
    <3>1. s.memo[i] = made.ref
      BY <1>7 DEF Over, At
    <3> QED
      BY <1>5, <1>7, <2>1, <3>1
  <2>2. CASE j # i
    <3>1. j \in DOMAIN e.memo /\ s.memo[j] = e.memo[j]
      BY <1>7, <1>9, <2>2 DEF Over, At
    <3>2. j \in DOMAIN ns /\ e.memo[j] \in DOMAIN e.nodes /\ Meanings(e.nodes)[e.memo[j]] = P[j]
      BY <3>1 DEF CachesRight, P
    <3> QED
      BY <1>1, <1>5, <1>7, <3>1, <3>2, MeaningsStay
  <2> QED
    BY <2>1, <2>2
<1>11. ASSUME NEW j \in DOMAIN s.dep, ~s.dep[j]
       PROVE  j \in DOMAIN ns /\ P[j] = Meanings(ns)[j]
  <2>1. CASE j = i
    <3>1. s.dep[i] = d[i]
      BY <1>7 DEF Over, At
    <3> QED
      BY <1>11, <2>1, <3>1 DEF P
  <2>2. CASE j # i
    <3>1. j \in DOMAIN e.dep /\ s.dep[j] = e.dep[j]
      BY <1>7, <1>9, <2>2 DEF Over, At
    <3> QED
      BY <1>11, <3>1 DEF CachesRight, P
  <2> QED
    BY <2>1, <2>2
<1>12. \A j \in DOMAIN s.dep : j \in DOMAIN ns
  BY <1>9 DEF CachesRight
<1> QED
  BY <1>8, <1>9, <1>10, <1>11, <1>12 DEF CachesRight, P, s

\* The caches after node i where f has those after the nodes before it.
UpBy(c, visited, pins, d, f, i) ==
    IF i = 0 THEN c ELSE IF i \in visited THEN SubstNode(f[i - 1], i, pins, d) ELSE f[i - 1]

UpTo(c, visited, pins, d, r, f) == f = [i \in 0..r |-> UpBy(c, visited, pins, d, f, i)]

(* The equations for the caches after each node have a solution.              *)
LEMMA UpToIs ==
  ASSUME NEW r \in Nat, NEW c, NEW visited, NEW pins, NEW d
  PROVE  \E f : UpTo(c, visited, pins, d, r, f)
<1> DEFINE Solves(f, k) == f = [i \in 0..k |-> UpBy(c, visited, pins, d, f, i)]
           T == {k \in 0..r : \E f : Solves(f, k)}
<1>1. 0 \in T
  <2>1. \A i \in 0..0 : i = 0
    OBVIOUS
  <2>2. Solves([i \in 0..0 |-> c], 0)
    BY <2>1 DEF UpBy
  <2>3. \E f : Solves(f, 0)
    BY <2>2
  <2> HIDE DEF Solves
  <2> QED
    BY <2>3
<1>2. ASSUME NEW k \in T, k < r PROVE k + 1 \in T
  <2>1. PICK f : Solves(f, k)
    OBVIOUS
  <2> DEFINE g == [i \in 0..(k + 1) |-> UpBy(c, visited, pins, d, f, i)]
  <2>2. k \in Nat /\ k + 1 \in 0..r
    BY <1>2
  <2>3. \A i \in 0..k : g[i] = f[i]
    BY <2>1, <2>2
  <2>4. ASSUME NEW i \in 0..(k + 1) PROVE UpBy(c, visited, pins, d, g, i) = UpBy(c, visited, pins, d, f, i)
    <3>1. i = 0 \/ i - 1 \in 0..k
      BY <2>2
    <3>2. i = 0 \/ g[i - 1] = f[i - 1]
      BY <2>3, <3>1
    <3> HIDE DEF g
    <3> QED
      BY <3>2 DEF UpBy
  <2>5. Solves(g, k + 1)
    BY <2>4
  <2> QED
    BY <2>2, <2>5
<1>3. r \in T
  <2> HIDE DEF T
  <2>1. T \in SUBSET (0..r)
    BY DEF T
  <2> QED
    BY <1>1, <1>2, <2>1, Climb
<1> QED
  BY <1>3 DEF UpTo

(* Substitution keeps the caches right, and has an answer for its node.       *)
LEMMA SubstitutedIs ==
  ASSUME NEW c, NEW pins, Numbers(pins), CachesRight(c.nodes, c, pins), NEW r \in DOMAIN c.nodes
  PROVE  CachesRight(c.nodes, Substituted(c, r, pins), pins) /\ r \in DOMAIN Substituted(c, r, pins).memo
<1> DEFINE ns == c.nodes
           d == Depends(ns, pins, c.dep)
           open == {i \in DOMAIN ns : d[i] /\ i \notin DOMAIN c.memo /\ ~IsPinned(pins, i)}
           visited == Reach(ns, open)[r]
<1>1. Made(ns)
  BY DEF CachesRight, Grown
<1>2. r \in Nat /\ 1 <= r /\ DOMAIN ns = 1..Len(ns) /\ Len(ns) \in Nat
  BY <1>1, MadeIs
<1>3. \A i \in DOMAIN ns : ~d[i] => Pinning(ns, pins)[i] = Meanings(ns)[i]
  BY <1>1, Independent DEF CachesRight
<1> HIDE DEF d
<1>4. /\ r \in visited /\ visited \subseteq 1..r
      /\ \A j \in visited : j \in open => ToSet(ns[j].kids) \subseteq visited
  BY <1>1, Reached
<1>5. visited \subseteq DOMAIN ns
  BY <1>2, <1>4
<1> DEFINE f == CHOOSE f : f = [i \in 0..r |-> UpBy(c, visited, pins, d, f, i)]
<1>6. f = [i \in 0..r |-> UpBy(c, visited, pins, d, f, i)]
  <2>1. \E g : UpTo(c, visited, pins, d, r, g)
    BY <1>2, UpToIs
  <2> HIDE DEF visited
  <2> QED
    BY <2>1 DEF UpTo
<1>7. Substituted(c, r, pins) = f[r]
  BY DEF Substituted, Visited, UpBy, d
<1> HIDE DEF f, visited, open
<1>8. \A i \in 0..r : f[i] = UpBy(c, visited, pins, d, f, i)
  BY <1>6
<1> DEFINE Good(i) == CachesRight(ns, f[i], pins) /\ DOMAIN f[i].memo = DOMAIN c.memo \cup {v \in visited : v <= i}
           T == {i \in 0..r : Good(i)}
<1>9. 0 \in T
  <2>1. f[0] = c
    BY <1>2, <1>8 DEF UpBy
  <2>2. {v \in visited : v <= 0} = {}
    BY <1>2, <1>4
  <2> QED
    BY <1>2, <2>1, <2>2
<1>10. ASSUME NEW k \in T, k < r PROVE k + 1 \in T
  <2> DEFINE i == k + 1
             e == f[k]
  <2>1. i \in 0..r /\ i # 0 /\ i - 1 = k /\ k \in Nat /\ i \in Nat
    BY <1>2, <1>10
  <2>2. CachesRight(ns, e, pins) /\ DOMAIN e.memo = DOMAIN c.memo \cup {v \in visited : v <= k}
    OBVIOUS
  <2>3. \A v \in visited : v \in Nat /\ (v <= i <=> v <= k \/ v = i)
    BY <1>2, <1>4, <2>1
  <2>4. f[i] = IF i \in visited THEN SubstNode(e, i, pins, d) ELSE e
    BY <1>8, <2>1 DEF UpBy
  <2> HIDE DEF i, e
  <2>5. CASE i \notin visited
    <3>1. {v \in visited : v <= i} = {v \in visited : v <= k}
      BY <2>3, <2>5
    <3>2. Good(i)
      BY <2>2, <2>4, <2>5, <3>1
    <3> QED
      BY <2>1, <3>2 DEF i
  <2>6. CASE i \in visited /\ i \in DOMAIN e.memo
    <3>1. f[i] = e
      BY <2>4, <2>6 DEF SubstNode
    <3>2. DOMAIN e.memo = DOMAIN c.memo \cup {v \in visited : v <= i}
      BY <2>2, <2>3, <2>6
    <3>3. Good(i)
      BY <2>2, <3>1, <3>2
    <3> QED
      BY <2>1, <3>3 DEF i
  <2>7. CASE i \in visited /\ i \notin DOMAIN e.memo
    <3>1. i \in DOMAIN ns /\ i \notin DOMAIN c.memo
      BY <1>5, <2>2, <2>7
    <3>2. ASSUME d[i], ~IsPinned(pins, i) PROVE ToSet(ns[i].kids) \subseteq DOMAIN e.memo
      <4>1. i \in open
        BY <3>1, <3>2 DEF open
      <4>2. ToSet(ns[i].kids) \subseteq visited
        BY <1>4, <2>7, <4>1
      <4>3. \A v \in ToSet(ns[i].kids) : v \in 1..(i - 1)
        BY <1>1, <3>1, KidsBefore
      <4>4. \A v \in ToSet(ns[i].kids) : v <= k
        BY <2>1, <4>3 DEF i
      <4> QED
        BY <2>2, <4>2, <4>4
    <3>3. f[i] = SubstNode(e, i, pins, d)
      BY <2>4, <2>7
    <3>4. CachesRight(ns, f[i], pins) /\ DOMAIN f[i].memo = DOMAIN e.memo \cup {i}
      BY <1>1, <1>3, <2>2, <2>7, <3>1, <3>2, <3>3, SubstNodeIs
    <3>5. DOMAIN f[i].memo = DOMAIN c.memo \cup {v \in visited : v <= i}
      BY <2>2, <2>3, <2>7, <3>4
    <3>6. Good(i)
      BY <3>4, <3>5
    <3> QED
      BY <2>1, <3>6 DEF i
  <2> QED
    BY <2>5, <2>6, <2>7
<1>11. r \in T
  <2> HIDE DEF T
  <2>1. T \in SUBSET (0..r)
    BY DEF T
  <2> QED
    BY <1>2, <1>9, <1>10, <2>1, Climb
<1>12. r <= r
  BY <1>2
<1> QED
  BY <1>4, <1>7, <1>11, <1>12

-----------------------------------------------------------------------------
(* The invariant                                                              *)

\* The arena is as construction leaves it, and the parameters to come are not in it.
ArenaOK == /\ Made(nodes)
           /\ \A i \in DOMAIN nodes : nodes[i].op = "param" => nodes[i].of <= blocks * Cardinality(Regs)

CountsOK == gen \in Nat /\ opaques \in Nat /\ blocks \in Nat /\ pinned \in Seq(Int)

\* Who refers to a node, and what is meant by it.
HoldersOK == /\ DOMAIN meant = DOMAIN refs
             /\ \A h \in DOMAIN refs : refs[h] \in DOMAIN nodes /\ Meanings(nodes)[refs[h]] = meant[h]
             /\ \A r \in Regs : Reg(r) \in DOMAIN refs

\* Each pin refers to a node, and to none that is a constant.
PinsOK == \A n \in DOMAIN pinned : Pin(n) \in DOMAIN refs /\ ~IsConst(nodes, refs[Pin(n)])

\* The caches are for some of the pins, and right if they are for all of them.
CachesOK == /\ watermark \in Nat /\ watermark <= Len(pinned)
            /\ watermark = Len(pinned) => CachesRight(nodes, Caches(nodes, memo, dep), Pins)

FactsOK == \A i \in DOMAIN known : i \in DOMAIN nodes /\ known[i] = Meanings(nodes)[i]

AnswersOK == \A p \in last : p[1] = p[2]

IInv == ArenaOK /\ CountsOK /\ HoldersOK /\ PinsOK /\ CachesOK /\ FactsOK /\ AnswersOK

(* The pins have numbers for values.                                          *)
LEMMA PinsAre ==
  ASSUME CountsOK
  PROVE  /\ Numbers(Pins) /\ Len(pinned) \in Nat /\ DOMAIN pinned = 1..Len(pinned)
         /\ DOMAIN Pins = DOMAIN pinned /\ \A n \in DOMAIN pinned : Pins[n].node = refs[Pin(n)]
<1>1. Len(pinned) \in Nat /\ DOMAIN pinned = 1..Len(pinned) /\ \A n \in DOMAIN pinned : pinned[n] \in Int
  BY DEF CountsOK
<1>2. /\ DOMAIN Pins = DOMAIN pinned
      /\ \A n \in DOMAIN pinned : Pins[n].value = pinned[n] /\ Pins[n].node = refs[Pin(n)]
  BY DEF Pins
<1> QED
  BY <1>1, <1>2 DEF Numbers

(* No caches are right for any pins.                                          *)
LEMMA NoneRight == \A ns, pins : Made(ns) => CachesRight(ns, Caches(ns, None, None), pins)
BY GrownIs DEF CachesRight, Caches, None

(* What a node means where the pins have their values is what `substitute`    *)
(* gives for it, and it leaves caches that are right.                         *)
LEMMA SubstituteIs ==
  ASSUME IInv, NEW r \in DOMAIN nodes
  PROVE  /\ Grown(nodes, Substitute(r).nodes)
         /\ Substitute(r).ref \in DOMAIN Substitute(r).nodes
         /\ Meanings(Substitute(r).nodes)[Substitute(r).ref] = Pinning(nodes, Pins)[r]
         /\ Substitute(r).mark \in Nat /\ Substitute(r).mark <= Len(pinned)
         /\ Substitute(r).mark = Len(pinned)
              => CachesRight(Substitute(r).nodes, Caches(Substitute(r).nodes, Substitute(r).memo, Substitute(r).dep), Pins)
<1>1. /\ Made(nodes) /\ Grown(nodes, nodes) /\ Numbers(Pins) /\ Len(pinned) \in Nat /\ DOMAIN pinned = 1..Len(pinned)
      /\ DOMAIN Pins = DOMAIN pinned /\ \A n \in DOMAIN pinned : Pins[n].node = refs[Pin(n)]
  BY GrownIs, PinsAre DEF IInv, ArenaOK
<1>2. CASE pinned = <<>> \/ IsConst(nodes, r)
  <2> DEFINE s == Substitute(r)
  <2>1. s = [nodes |-> nodes, memo |-> memo, dep |-> dep, ref |-> r, mark |-> watermark]
    BY <1>2 DEF Substitute, Caches
  <2>2. s.nodes = nodes /\ s.memo = memo /\ s.dep = dep /\ s.ref = r /\ s.mark = watermark
    BY <2>1
  <2>3. ~IsPinned(Pins, r)
    <3>1. CASE pinned = <<>>
      BY <1>1, <3>1 DEF IsPinned
    <3>2. CASE IsConst(nodes, r)
      BY <1>1, <3>2 DEF IsPinned, IInv, PinsOK
    <3> QED
      BY <1>2, <3>1, <3>2
  <2>4. Pinning(nodes, Pins)[r] = Tree(nodes[r], KidsBy(nodes, Pinning(nodes, Pins), r))
    BY <1>1, <2>3, PinningIs DEF MeansBy
  <2>5. Meanings(nodes)[r] = Tree(nodes[r], KidsBy(nodes, Meanings(nodes), r))
    BY <1>1, MeaningsAre
  <2>6. KidsBy(nodes, Pinning(nodes, Pins), r) = KidsBy(nodes, Meanings(nodes), r)
    <3>1. CASE pinned = <<>>
      <4>1. Pins = <<>>
        BY <3>1 DEF Pins
      <4> QED
        BY <4>1 DEF Meanings
    <3>2. CASE IsConst(nodes, r)
      <4>1. Fits(nodes, nodes[r], r - 1)
        BY <1>1 DEF Made
      <4>2. nodes[r].kids = <<>>
        BY <3>2, <4>1 DEF Fits, IsConst
      <4>3. DOMAIN nodes[r].kids = {}
        BY <4>2
      <4> QED
        BY <4>3 DEF KidsBy
    <3> QED
      BY <1>2, <3>1, <3>2
  <2> HIDE DEF s
  <2> QED
    BY <1>1, <2>2, <2>4, <2>5, <2>6 DEF s, IInv, CachesOK
<1>3. CASE ~(pinned = <<>> \/ IsConst(nodes, r))
  <2> DEFINE s == Substitute(r)
             c == Substituted(Current, r, Pins)
  <2>1. s = [nodes |-> c.nodes, memo |-> c.memo, dep |-> c.dep, ref |-> c.memo[r], mark |-> Len(pinned)]
    BY <1>3 DEF Substitute
  <2> HIDE DEF c
  <2>2. s.nodes = c.nodes /\ s.memo = c.memo /\ s.dep = c.dep /\ s.ref = c.memo[r] /\ s.mark = Len(pinned)
    BY <2>1
  <2>3. Current.nodes = nodes
    BY DEF Current, Caches
  <2>4. CachesRight(nodes, Current, Pins)
    <3>1. CASE watermark = Len(pinned)
      BY <3>1 DEF Current, IInv, CachesOK
    <3>2. CASE watermark # Len(pinned)
      BY <1>1, <3>2, NoneRight DEF Current
    <3> QED
      BY <3>1, <3>2
  <2>5. CachesRight(nodes, c, Pins) /\ r \in DOMAIN c.memo
    BY <1>1, <2>3, <2>4, SubstitutedIs DEF c
  <2>6. /\ Grown(nodes, c.nodes) /\ c.memo[r] \in DOMAIN c.nodes
        /\ Meanings(c.nodes)[c.memo[r]] = Pinning(nodes, Pins)[r]
    BY <2>5 DEF CachesRight
  <2>7. CachesRight(nodes, Caches(c.nodes, c.memo, c.dep), Pins)
    BY <2>5 DEF CachesRight, Caches
  <2>8. CachesRight(c.nodes, Caches(c.nodes, c.memo, c.dep), Pins)
    BY <1>1, <2>6, <2>7, RightStays
  <2>9. Len(pinned) <= Len(pinned)
    BY <1>1
  <2> HIDE DEF s
  <2> QED
    BY <1>1, <2>2, <2>6, <2>8, <2>9 DEF s
<1> QED
  BY <1>2, <1>3

(* A split gives both values right, and no caches.                            *)
LEMMA TriedIs ==
  ASSUME CountsOK, NEW c, Made(c.nodes), NEW addr \in DOMAIN c.nodes, NEW cand
  PROVE  /\ Grown(c.nodes, Tried(c, addr, cand).nodes)
         /\ Tried(c, addr, cand).memo = None /\ Tried(c, addr, cand).dep = None
         /\ \A p \in Tried(c, addr, cand).seen : p[1] = p[2]
<1> DEFINE one == Substituted(Caches(c.nodes, None, None), addr, With(cand, 0))
           two == Substituted(Caches(one.nodes, None, None), addr, With(cand, 1))
           m == Meanings(two.nodes)
           t == Tried(c, addr, cand)
<1>1. ASSUME NEW v \in {0, 1} PROVE Numbers(With(cand, v))
  <2>1. Pins \in Seq({Pins[n] : n \in DOMAIN pinned})
    <3> DEFINE S == {Pins[n] : n \in DOMAIN pinned}
    <3>1. \A n \in DOMAIN pinned : Pins[n] \in S
      OBVIOUS
    <3> HIDE DEF S
    <3>2. Pins \in [1..Len(pinned) -> S]
      BY <3>1, PinsAre DEF Pins
    <3>3. Len(pinned) \in Nat
      BY PinsAre
    <3>4. Pins \in Seq(S)
      BY <3>2, <3>3
    <3> QED
      BY <3>4 DEF S
  <2>2. Len(Pins) = Len(pinned) /\ Len(pinned) \in Nat /\ \A n \in DOMAIN Pins : Pins[n].value \in Int
    BY PinsAre, <2>1 DEF Pins, CountsOK
  <2>3. /\ DOMAIN With(cand, v) = 1..(Len(pinned) + 1)
        /\ \A n \in 1..(Len(pinned) + 1) : With(cand, v)[n] = IF n = Len(pinned) + 1 THEN [node |-> cand, value |-> v] ELSE Pins[n]
    BY <2>1, <2>2 DEF With
  <2>4. \A n \in 1..(Len(pinned) + 1) : n = Len(pinned) + 1 \/ n \in DOMAIN Pins
    BY <2>2, PinsAre
  <2>5. \A n \in 1..(Len(pinned) + 1) : With(cand, v)[n].value \in Int
    BY <2>2, <2>3, <2>4
  <2>6. Len(pinned) + 1 \in Nat
    BY <2>2
  <2> QED
    BY <2>3, <2>5, <2>6 DEF Numbers
<1>2. \A ns : Caches(ns, None, None).nodes = ns
  BY DEF Caches
<1>3. CachesRight(c.nodes, one, With(cand, 0)) /\ addr \in DOMAIN one.memo
  BY <1>1, <1>2, NoneRight, SubstitutedIs
<1> HIDE DEF one
<1>4. Grown(c.nodes, one.nodes) /\ Made(one.nodes)
  BY <1>3 DEF CachesRight, Grown
<1>5. addr \in DOMAIN one.nodes
  BY <1>4, MeaningsStay
<1>6. CachesRight(one.nodes, two, With(cand, 1)) /\ addr \in DOMAIN two.memo
  BY <1>1, <1>2, <1>4, <1>5, NoneRight, SubstitutedIs
<1> HIDE DEF two
<1>7. Grown(one.nodes, two.nodes) /\ Grown(c.nodes, two.nodes)
  BY <1>4, <1>6, GrownIs DEF CachesRight
<1>8. Pinning(c.nodes, With(cand, 0))[addr] = m[one.memo[addr]]
  <2>1. one.memo[addr] \in DOMAIN one.nodes /\ Meanings(one.nodes)[one.memo[addr]] = Pinning(c.nodes, With(cand, 0))[addr]
    BY <1>3 DEF CachesRight
  <2> QED
    BY <1>4, <1>7, <2>1, MeaningsStay
<1>9. Pinning(c.nodes, With(cand, 1))[addr] = m[two.memo[addr]]
  <2>1. Meanings(two.nodes)[two.memo[addr]] = Pinning(one.nodes, With(cand, 1))[addr]
    BY <1>6 DEF CachesRight
  <2> QED
    BY <1>4, <2>1, PinningStays
<1>10. /\ t.nodes = two.nodes /\ t.memo = None /\ t.dep = None
       /\ t.seen = {<<Pinning(c.nodes, With(cand, 0))[addr], m[one.memo[addr]]>>,
                    <<Pinning(c.nodes, With(cand, 1))[addr], m[two.memo[addr]]>>}
  BY DEF Tried, one, two
<1> HIDE DEF m, t
<1> QED
  BY <1>7, <1>8, <1>9, <1>10 DEF t

(* The registers at the start refer to a node each.                           *)
LEMMA Begins == Init => IInv
<1> SUFFICES ASSUME Init PROVE IInv
  OBVIOUS
<1> DEFINE C == Cardinality(Regs)
<1>1. C \in Nat /\ Regs = 1..C
  BY RegsAssumption, FS_CardinalityType
<1>2. nodes = [r \in 1..C |-> Node("init", r, <<>>)]
  BY DEF Init
<1>3. \A r \in 1..C : nodes[r] \in NodeSet /\ nodes[r].op = "init" /\ nodes[r].of = r /\ nodes[r].kids = <<>>
  <2>1. "init" \in Ops /\ <<>> \in Seq(Nat)
    BY DEF Ops
  <2> QED
    BY <1>1, <1>2, <2>1 DEF Node, NodeSet
<1>4. nodes \in Seq(NodeSet) /\ Len(nodes) = C /\ DOMAIN nodes = 1..C
  <2>1. nodes \in [1..C -> NodeSet]
    BY <1>2, <1>3
  <2>2. nodes \in Seq(NodeSet)
    BY <1>1, <2>1
  <2>3. DOMAIN nodes = 1..C
    BY <1>2
  <2> QED
    BY <1>1, <2>2, <2>3
<1>5. ArenaOK
  <2>1. \A i \in DOMAIN nodes : DOMAIN nodes[i].kids = {}
    BY <1>3, <1>4
  <2>2. \A i \in DOMAIN nodes : Fits(nodes, nodes[i], i - 1)
    BY <1>3, <1>4, <2>1 DEF Fits
  <2>3. \A i, j \in DOMAIN nodes : nodes[i] = nodes[j] => i = j
    BY <1>3, <1>4
  <2>4. Made(nodes)
    BY <1>4, <2>2, <2>3 DEF Made
  <2> QED
    BY <1>3, <1>4, <2>4 DEF ArenaOK
<1>6. CountsOK
  BY DEF Init, CountsOK
<1>7. HoldersOK
  <2>1. DOMAIN refs = {Reg(r) : r \in Regs} /\ \A r \in Regs : refs[Reg(r)] = r
    BY DEF Init, Reg
  <2>2. DOMAIN meant = DOMAIN refs /\ \A h \in DOMAIN refs : meant[h] = Meanings(nodes)[refs[h]]
    BY DEF Init
  <2> QED
    BY <1>1, <1>4, <2>1, <2>2 DEF HoldersOK
<1>8. pinned = <<>> /\ memo = None /\ dep = None /\ known = None /\ watermark = 0 /\ last = {}
  BY DEF Init
<1>9. DOMAIN pinned = {} /\ DOMAIN known = {} /\ Len(pinned) = 0
  BY <1>8 DEF None
<1>10. CachesOK
  BY <1>5, <1>8, <1>9, NoneRight DEF CachesOK, ArenaOK
<1>11. PinsOK /\ FactsOK /\ AnswersOK
  BY <1>8, <1>9 DEF PinsOK, FactsOK, AnswersOK
<1> QED
  BY <1>5, <1>6, <1>7, <1>10, <1>11 DEF IInv

\* New references, to nodes that are there, and none of a pin.
Fresh(new) == \A h \in DOMAIN new : new[h] \in DOMAIN nodes' /\ h[1] # "pin"

(* Growing the arena and referring to its nodes keeps what the holders mean.  *)
LEMMA ReferKeeps ==
  ASSUME IInv, NEW new, Grown(nodes, nodes'), Refer(new), Fresh(new),
         pinned' = pinned, blocks' = blocks, gen' \in Nat, opaques' \in Nat
  PROVE  ArenaOK' /\ CountsOK' /\ HoldersOK' /\ PinsOK' /\ Pins' = Pins
<1> DEFINE C == Cardinality(Regs)
           m == Meanings(nodes')
<1>1. Made(nodes) /\ Made(nodes') /\ ArenaOK /\ CountsOK /\ HoldersOK /\ PinsOK
  BY DEF IInv, ArenaOK, Grown
<1>2. ArenaOK'
  <2>1. ASSUME NEW i \in DOMAIN nodes', nodes'[i].op = "param" PROVE nodes'[i].of <= blocks' * C
    <3>1. i \in DOMAIN nodes /\ nodes'[i] = nodes[i]
      BY <2>1 DEF Grown
    <3> QED
      BY <1>1, <2>1, <3>1 DEF ArenaOK
  <2> QED
    BY <1>1, <2>1 DEF ArenaOK
<1>3. CountsOK'
  BY <1>1 DEF CountsOK
<1>4. refs' = Over(new, refs) /\ meant' = Over([h \in DOMAIN new |-> m[new[h]]], meant)
  BY DEF Refer
<1> HIDE DEF m
<1>5. /\ DOMAIN refs' = DOMAIN new \cup DOMAIN refs
      /\ \A h \in DOMAIN new : refs'[h] = new[h]
      /\ \A h \in DOMAIN refs : h \notin DOMAIN new => refs'[h] = refs[h]
  BY <1>4 DEF Over
<1>6. /\ DOMAIN meant' = DOMAIN new \cup DOMAIN meant
      /\ \A h \in DOMAIN new : meant'[h] = m[new[h]]
      /\ \A h \in DOMAIN meant : h \notin DOMAIN new => meant'[h] = meant[h]
  BY <1>4 DEF Over
<1>7. HoldersOK'
  <2>1. ASSUME NEW h \in DOMAIN refs' PROVE refs'[h] \in DOMAIN nodes' /\ m[refs'[h]] = meant'[h]
    <3>1. CASE h \in DOMAIN new
      BY <1>5, <1>6, <3>1 DEF Fresh
    <3>2. CASE h \notin DOMAIN new
      <4>1. h \in DOMAIN refs /\ refs'[h] = refs[h] /\ meant'[h] = meant[h]
        BY <1>1, <1>5, <1>6, <3>2 DEF HoldersOK
      <4>2. refs[h] \in DOMAIN nodes /\ Meanings(nodes)[refs[h]] = meant[h]
        BY <1>1, <4>1 DEF HoldersOK
      <4> QED
        BY <1>1, <4>1, <4>2, MeaningsStay DEF m
    <3> QED
      BY <3>1, <3>2
  <2>2. DOMAIN meant' = DOMAIN refs' /\ \A r \in Regs : Reg(r) \in DOMAIN refs'
    BY <1>1, <1>5, <1>6 DEF HoldersOK
  <2> QED
    BY <2>1, <2>2 DEF HoldersOK, m
<1>8. ASSUME NEW n \in DOMAIN pinned PROVE /\ Pin(n) \in DOMAIN refs' /\ refs'[Pin(n)] = refs[Pin(n)]
                                           /\ ~IsConst(nodes', refs[Pin(n)])
  <2>1. Pin(n) \in DOMAIN refs /\ ~IsConst(nodes, refs[Pin(n)])
    BY <1>1 DEF PinsOK
  <2>2. Pin(n) \notin DOMAIN new
    BY DEF Fresh, Pin
  <2>3. refs[Pin(n)] \in DOMAIN nodes
    BY <1>1, <2>1 DEF HoldersOK
  <2>4. nodes'[refs[Pin(n)]] = nodes[refs[Pin(n)]]
    BY <2>3 DEF Grown
  <2> QED
    BY <1>5, <2>1, <2>2, <2>4 DEF IsConst
<1>9. PinsOK'
  BY <1>8 DEF PinsOK
<1>10. Pins' = Pins
  BY <1>8 DEF Pins
<1> QED
  BY <1>2, <1>3, <1>7, <1>9, <1>10

(* A step that leaves the caches and the facts alone.                         *)
LEMMA PlainKeeps ==
  ASSUME IInv, NEW new, Grown(nodes, nodes'), Refer(new), Fresh(new),
         pinned' = pinned, blocks' = blocks, gen' \in Nat, opaques' \in Nat,
         memo' = memo, dep' = dep, watermark' = watermark, known' = known, last' = {}
  PROVE  IInv'
<1>1. ArenaOK' /\ CountsOK' /\ HoldersOK' /\ PinsOK' /\ Pins' = Pins
  BY ReferKeeps
<1>2. Made(nodes) /\ CachesOK /\ FactsOK
  BY DEF IInv, ArenaOK
<1>3. CachesOK'
  <2>1. watermark' \in Nat /\ watermark' <= Len(pinned')
    BY <1>2 DEF CachesOK
  <2>2. ASSUME watermark' = Len(pinned') PROVE CachesRight(nodes', Caches(nodes', memo', dep'), Pins')
    <3>1. CachesRight(nodes, Caches(nodes, memo, dep), Pins)
      BY <1>2, <2>2 DEF CachesOK
    <3>2. CachesRight(nodes', Caches(nodes', memo, dep), Pins)
      BY <1>2, <3>1, RightGrows
    <3> QED
      BY <1>1, <3>2
  <2> QED
    BY <2>1, <2>2 DEF CachesOK
<1>4. FactsOK'
  BY <1>2, MeaningsStay DEF FactsOK
<1>5. AnswersOK'
  BY DEF AnswersOK
<1> QED
  BY <1>1, <1>3, <1>4, <1>5 DEF IInv

(* A leaf fits any arena.                                                     *)
LEMMA LeafFits ==
  ASSUME NEW ns, Made(ns), NEW op \in {"init", "const", "opaque", "param"}, NEW of \in Int
  PROVE  Fits(ns, Node(op, of, <<>>), Len(ns)) /\ Node(op, of, <<>>).op = op /\ Node(op, of, <<>>).of = of
<1> DEFINE n == Node(op, of, <<>>)
<1>1. n \in NodeSet /\ n.op = op /\ n.of = of /\ n.kids = <<>>
  <2>1. op \in Ops /\ <<>> \in Seq(Nat)
    BY DEF Ops
  <2> QED
    BY <2>1 DEF Node, NodeSet
<1> HIDE DEF n
<1>2. DOMAIN n.kids = {}
  BY <1>1
<1>3. n.op # "add"
  BY <1>1
<1>4. Fits(ns, n, Len(ns))
  BY <1>1, <1>2, <1>3 DEF Fits
<1> QED
  BY <1>1, <1>4 DEF n

(* An opaque result keeps the invariant.                                      *)
LEMMA OpaqueKeeps == ASSUME IInv, NEW r \in Regs, Opaque(r) PROVE IInv'
<1> DEFINE n == Node("opaque", opaques + 1, <<>>)
           made == Intern(nodes, n)
<1>1. Made(nodes) /\ CountsOK
  BY DEF IInv, ArenaOK
<1>2. opaques + 1 \in Int /\ opaques + 1 \in Nat
  BY <1>1 DEF CountsOK
<1>3. Fits(nodes, n, Len(nodes)) /\ n.op # "param"
  BY <1>1, <1>2, LeafFits
<1>4. /\ nodes' = made.nodes /\ Refer(At(Reg(r), made.ref)) /\ opaques' = opaques + 1 /\ last' = {}
      /\ UNCHANGED <<gen, blocks, pinned, memo, dep, watermark, known>>
  BY DEF Opaque
<1> HIDE DEF n
<1>5. Grown(nodes, made.nodes) /\ made.ref \in DOMAIN made.nodes
  BY <1>1, <1>3, InternIs
<1> HIDE DEF made
<1>6. Fresh(At(Reg(r), made.ref))
  BY <1>4, <1>5 DEF Fresh, At, Reg
<1> QED
  BY <1>1, <1>2, <1>4, <1>5, <1>6, PlainKeeps DEF CountsOK

(* A sum keeps the invariant.                                                 *)
LEMMA AddKeeps == ASSUME IInv, NEW r \in Regs, NEW a \in Regs, NEW b \in Regs, Add(r, a, b) PROVE IInv'
<1> DEFINE made == Bin(nodes, refs[Reg(a)], refs[Reg(b)])
<1>1. Made(nodes) /\ CountsOK
  BY DEF IInv, ArenaOK
<1>2. refs[Reg(a)] \in DOMAIN nodes /\ refs[Reg(b)] \in DOMAIN nodes
  BY DEF IInv, HoldersOK
<1>3. /\ nodes' = made.nodes /\ Refer(At(Reg(r), made.ref)) /\ last' = {}
      /\ UNCHANGED <<opaques, gen, blocks, pinned, memo, dep, watermark, known>>
  BY DEF Add
<1>4. Grown(nodes, made.nodes) /\ made.ref \in DOMAIN made.nodes
  BY <1>1, <1>2, BinIs
<1> HIDE DEF made
<1>5. Fresh(At(Reg(r), made.ref))
  BY <1>3, <1>4 DEF Fresh, At, Reg
<1> QED
  BY <1>1, <1>3, <1>4, <1>5, PlainKeeps DEF CountsOK

(* A store keeps the invariant.                                               *)
LEMMA StoreKeeps == ASSUME IInv, NEW a \in Regs, NEW b \in Regs, StoreReg(a, b) PROVE IInv'
<1> DEFINE new == Events(refs[Reg(a)], refs[Reg(b)])
<1>1. Made(nodes) /\ CountsOK /\ Grown(nodes, nodes)
  BY GrownIs DEF IInv, ArenaOK
<1>2. refs[Reg(a)] \in DOMAIN nodes /\ refs[Reg(b)] \in DOMAIN nodes
  BY DEF IInv, HoldersOK
<1>3. /\ nodes' = nodes /\ Refer(new) /\ last' = {} /\ gen' = gen + 1
      /\ UNCHANGED <<opaques, blocks, pinned, memo, dep, watermark, known>>
  BY DEF StoreReg
<1>4. Fresh(new)
  BY <1>2, <1>3 DEF Fresh, Events, Over, At, Event
<1> HIDE DEF new
<1>5. gen' \in Nat /\ opaques' \in Nat
  BY <1>1, <1>3 DEF CountsOK
<1> QED
  BY <1>1, <1>3, <1>4, <1>5, PlainKeeps

(* A load at an address of the arena fits it.                                 *)
LEMMA LoadFits ==
  ASSUME NEW ns, Made(ns), NEW addr \in DOMAIN ns, NEW of \in Int
  PROVE  /\ Fits(ns, Node("load", of, <<addr>>), Len(ns)) /\ Node("load", of, <<addr>>).op # "param"
<1> DEFINE n == Node("load", of, <<addr>>)
<1>1. addr \in Nat /\ addr \in 1..Len(ns)
  BY MadeIs
<1>2. n \in NodeSet /\ n.op = "load" /\ n.kids = <<addr>>
  <2>1. "load" \in Ops /\ <<addr>> \in Seq(Nat)
    BY <1>1 DEF Ops
  <2> QED
    BY <2>1 DEF Node, NodeSet
<1> HIDE DEF n
<1>3. \A k \in DOMAIN n.kids : n.kids[k] \in 1..Len(ns)
  BY <1>1, <1>2
<1>4. Fits(ns, n, Len(ns))
  BY <1>2, <1>3 DEF Fits
<1> QED
  BY <1>2, <1>4 DEF n

(* A load keeps the invariant, whether or not its address is split.           *)
LEMMA LoadKeeps == ASSUME IInv, NEW r \in Regs, NEW a \in Regs, LoadReg(r, a) PROVE IInv'
<1> DEFINE x == refs[Reg(a)]
           s == Substitute(x)
           under == Reach(s.nodes, DOMAIN s.nodes)[s.ref]
           right == Right(x, s, Pins)
           m == Meanings(s.nodes)
<1>1. Made(nodes) /\ CountsOK
  BY DEF IInv, ArenaOK
<1>2. x \in DOMAIN nodes
  BY DEF IInv, HoldersOK
<1>3. /\ Grown(nodes, s.nodes) /\ s.ref \in DOMAIN s.nodes
      /\ Meanings(s.nodes)[s.ref] = Pinning(nodes, Pins)[x]
      /\ s.mark \in Nat /\ s.mark <= Len(pinned)
      /\ s.mark = Len(pinned) => CachesRight(s.nodes, Caches(s.nodes, s.memo, s.dep), Pins)
  BY <1>2, SubstituteIs
<1>4. /\ watermark' = s.mark
      /\ known' = Over([i \in under |-> m[i]], known)
      /\ UNCHANGED <<opaques, gen, blocks, pinned>>
      /\ \/ Loaded(r, s.ref, s) /\ last' = {right}
         \/ \E cand : LET t == Tried(s, s.ref, cand) IN Loaded(r, s.ref, t) /\ last' = {right} \cup t.seen
  BY DEF LoadReg
<1>5. right[1] = right[2]
  BY <1>3 DEF Right
<1> HIDE DEF s, right, x, under, m
<1>6. Made(s.nodes)
  BY <1>3 DEF Grown
<1>7. PICK c : /\ Loaded(r, s.ref, c) /\ \A p \in last' : p[1] = p[2]
               /\ Grown(s.nodes, c.nodes)
               /\ s.mark = Len(pinned) => CachesRight(c.nodes, Caches(c.nodes, c.memo, c.dep), Pins)
  <2>1. CASE Loaded(r, s.ref, s) /\ last' = {right}
    BY <1>3, <1>5, <1>6, <2>1, GrownIs
  <2>2. CASE \E cand : LET t == Tried(s, s.ref, cand) IN Loaded(r, s.ref, t) /\ last' = {right} \cup t.seen
    <3>1. PICK cand : Loaded(r, s.ref, Tried(s, s.ref, cand)) /\ last' = {right} \cup Tried(s, s.ref, cand).seen
      BY <2>2
    <3> DEFINE t == Tried(s, s.ref, cand)
    <3>2. Grown(s.nodes, t.nodes) /\ t.memo = None /\ t.dep = None /\ \A p \in t.seen : p[1] = p[2]
      BY <1>1, <1>3, <1>6, TriedIs
    <3>3. Loaded(r, s.ref, t) /\ last' = {right} \cup t.seen
      BY <3>1
    <3> HIDE DEF t
    <3>4. Made(t.nodes)
      BY <3>2 DEF Grown
    <3>5. CachesRight(t.nodes, Caches(t.nodes, t.memo, t.dep), Pins)
      BY <3>2, <3>4, NoneRight
    <3>6. \A p \in last' : p[1] = p[2]
      BY <1>5, <3>2, <3>3
    <3> QED
      BY <3>2, <3>3, <3>5, <3>6
  <2> QED
    BY <1>4, <2>1, <2>2
<1>8. Made(c.nodes) /\ s.ref \in DOMAIN c.nodes
  BY <1>3, <1>6, <1>7, MeaningsStay DEF Grown
<1> DEFINE n == Node("load", gen, <<s.ref>>)
           made == Intern(c.nodes, n)
           new == Over(At(Reg(r), made.ref), Events(s.ref, made.ref))
<1>9. nodes' = made.nodes /\ memo' = c.memo /\ dep' = c.dep /\ Refer(new)
  BY <1>7 DEF Loaded
<1>10. gen \in Int /\ gen \in Nat /\ opaques \in Nat
  BY <1>1 DEF CountsOK
<1>11. Grown(c.nodes, made.nodes) /\ made.ref \in DOMAIN made.nodes
  <2>1. Fits(c.nodes, n, Len(c.nodes)) /\ n.op # "param"
    BY <1>8, <1>10, LoadFits
  <2> HIDE DEF n
  <2> QED
    BY <1>8, <2>1, InternIs
<1> HIDE DEF made
<1>12. Grown(s.nodes, nodes') /\ Grown(nodes, nodes') /\ Grown(c.nodes, nodes')
  BY <1>1, <1>3, <1>6, <1>7, <1>9, <1>11, GrownIs
<1>13. Fresh(new)
  <2>1. s.ref \in DOMAIN nodes' /\ made.ref \in DOMAIN nodes'
    BY <1>8, <1>9, <1>11, <1>12, MeaningsStay
  <2> QED
    BY <2>1 DEF Fresh, Events, Over, At, Event, Reg
<1> HIDE DEF new
<1>14. ArenaOK' /\ CountsOK' /\ HoldersOK' /\ PinsOK' /\ Pins' = Pins
  BY <1>4, <1>9, <1>10, <1>12, <1>13, ReferKeeps
<1>15. CachesOK'
  <2>1. watermark' \in Nat /\ watermark' <= Len(pinned')
    BY <1>3, <1>4
  <2>2. ASSUME watermark' = Len(pinned') PROVE CachesRight(nodes', Caches(nodes', memo', dep'), Pins')
    <3>1. CachesRight(c.nodes, Caches(c.nodes, c.memo, c.dep), Pins)
      BY <1>4, <1>7, <2>2
    <3>2. CachesRight(nodes', Caches(nodes', c.memo, c.dep), Pins)
      BY <1>8, <1>12, <3>1, RightGrows
    <3> QED
      BY <1>9, <1>14, <3>2
  <2> QED
    BY <2>1, <2>2 DEF CachesOK
<1>16. FactsOK'
  <2>1. \A i \in under : i \in DOMAIN s.nodes
    <3>1. under \subseteq 1..s.ref
      BY <1>3, <1>6, Reached DEF under
    <3>2. 1..s.ref \subseteq DOMAIN s.nodes
      BY <1>3, <1>6, MadeIs
    <3> QED
      BY <3>1, <3>2
  <2>2. ASSUME NEW i \in DOMAIN known' PROVE i \in DOMAIN nodes' /\ known'[i] = Meanings(nodes')[i]
    <3>1. CASE i \in under
      <4>1. known'[i] = m[i]
        BY <1>4, <3>1 DEF Over
      <4> QED
        BY <1>6, <1>12, <2>1, <3>1, <4>1, MeaningsStay DEF m
    <3>2. CASE i \notin under
      <4>1. i \in DOMAIN known /\ known'[i] = known[i]
        BY <1>4, <2>2, <3>2 DEF Over
      <4>2. i \in DOMAIN nodes /\ known[i] = Meanings(nodes)[i]
        BY <4>1 DEF IInv, FactsOK
      <4> QED
        BY <1>1, <1>12, <4>1, <4>2, MeaningsStay
    <3> QED
      BY <3>1, <3>2
  <2> QED
    BY <2>2 DEF FactsOK
<1>17. AnswersOK'
  BY <1>7 DEF AnswersOK
<1> QED
  BY <1>14, <1>15, <1>16, <1>17 DEF IInv

\* The C parameters of a block.
Params(C, base) == [r \in 1..C |-> Node("param", base + r, <<>>)]

(* Parameters that are not in the arena yet go behind it.                     *)
LEMMA ParamsFollow ==
  ASSUME NEW ns, Made(ns), NEW C \in Nat, NEW base \in Nat,
         \A i \in DOMAIN ns : ns[i].op = "param" => ns[i].of <= base
  PROVE  /\ Longer(ns, ns \o Params(C, base)) /\ Len(ns \o Params(C, base)) = Len(ns) + C
         /\ \A i \in DOMAIN (ns \o Params(C, base)) :
                (ns \o Params(C, base))[i].op = "param" => (ns \o Params(C, base))[i].of <= base + C
<1> DEFINE params == [r \in 1..C |-> Node("param", base + r, <<>>)]
           ms == ns \o params
           L == Len(ns)
<1>1. ns \in Seq(NodeSet) /\ L \in Nat /\ DOMAIN ns = 1..L
  BY MadeIs DEF Made
<1>2. \A r \in 1..C : /\ params[r] \in NodeSet /\ params[r].op = "param"
                      /\ params[r].of = base + r /\ params[r].kids = <<>>
  <2>1. "param" \in Ops /\ <<>> \in Seq(Nat)
    BY DEF Ops
  <2> QED
    BY <2>1 DEF Node, NodeSet
<1>3. params \in Seq(NodeSet) /\ Len(params) = C
  <2>1. DOMAIN params = 1..C
    OBVIOUS
  <2>2. params \in [1..C -> NodeSet]
    BY <1>2
  <2> HIDE DEF params
  <2>3. params \in Seq(NodeSet)
    BY <2>2
  <2> QED
    BY <2>1, <2>3
<1> HIDE DEF params
<1>4. /\ ms \in Seq(NodeSet) /\ Len(ms) = L + C /\ DOMAIN ms = 1..(L + C)
      /\ \A i \in 1..(L + C) : ms[i] = IF i <= L THEN ns[i] ELSE params[i - L]
  <2>1. ms \in Seq(NodeSet)
    BY <1>1, <1>3
  <2>2. Len(ms) = L + C
    BY <1>1, <1>3
  <2>3. ASSUME NEW i \in 1..(L + C) PROVE ms[i] = IF i <= L THEN ns[i] ELSE params[i - L]
    BY <1>1, <1>3
  <2> HIDE DEF ms, L
  <2> QED
    BY <2>1, <2>2, <2>3
<1> HIDE DEF ms
<1>5. \A i \in 1..(L + C) : i \in DOMAIN ns \/ (i > L /\ i - L \in 1..C)
  BY <1>1
<1>6. \A i \in DOMAIN ns : i \in DOMAIN ms /\ ms[i] = ns[i]
  BY <1>1, <1>4
<1>7. \A i \in DOMAIN ms : i > L => /\ ms[i] \in NodeSet /\ ms[i].op = "param"
                                    /\ ms[i].of = base + (i - L) /\ ms[i].kids = <<>>
  <2>1. ASSUME NEW i \in DOMAIN ms, i > L
        PROVE  ms[i] \in NodeSet /\ ms[i].op = "param" /\ ms[i].of = base + (i - L) /\ ms[i].kids = <<>>
    <3>1. i - L \in 1..C /\ ms[i] = params[i - L]
      BY <1>1, <1>4, <2>1
    <3> QED
      BY <1>2, <3>1
  <2> QED
    BY <2>1
<1>8. ASSUME NEW i \in DOMAIN ms PROVE Fits(ms, ms[i], i - 1)
  <2>1. CASE i \in DOMAIN ns
    <3>1. Fits(ns, ns[i], i - 1) /\ i - 1 \in Nat /\ i - 1 <= Len(ns) /\ ms[i] = ns[i]
      BY <1>1, <1>6, <2>1 DEF Made
    <3> QED
      BY <1>6, <3>1, FitsStays
  <2>2. CASE i > L
    <3>1. ms[i] \in NodeSet /\ ms[i].op = "param" /\ ms[i].kids = <<>>
      BY <1>7, <2>2
    <3>2. DOMAIN ms[i].kids = {}
      BY <3>1
    <3> QED
      BY <3>1, <3>2 DEF Fits
  <2> QED
    BY <1>4, <1>5, <2>1, <2>2
<1>9. ASSUME NEW i \in DOMAIN ms, NEW j \in DOMAIN ms, i > L, j \in DOMAIN ns PROVE ms[i] # ms[j]
  <2>1. ms[i].op = "param" /\ ms[i].of = base + (i - L) /\ i \in Nat
    BY <1>4, <1>7, <1>9
  <2>2. ms[j] = ns[j] /\ ns[j] \in NodeSet
    BY <1>6, <1>9, MadeIs
  <2>3. ns[j].op = "param" => ns[j].of <= base /\ ns[j].of \in Int
    BY <1>9, <2>2 DEF NodeSet
  <2>4. base + (i - L) > base
    BY <1>1, <1>9, <2>1
  <2>5. SUFFICES ASSUME ms[i] = ms[j] PROVE FALSE
    OBVIOUS
  <2>6. ns[j].of = base + (i - L) /\ ns[j].op = "param"
    BY <2>1, <2>2, <2>5
  <2> QED
    BY <1>1, <2>1, <2>3, <2>4, <2>6
<1>10. ASSUME NEW i \in DOMAIN ms, NEW j \in DOMAIN ms, ms[i] = ms[j] PROVE i = j
  <2>1. CASE i \in DOMAIN ns /\ j \in DOMAIN ns
    BY <1>6, <1>10, <2>1 DEF Made
  <2>2. CASE i > L /\ j > L
    <3>1. i \in Nat /\ j \in Nat
      BY <1>1, <1>4
    <3>2. ms[i].of = base + (i - L) /\ ms[j].of = base + (j - L)
      BY <1>7, <2>2
    <3>3. base + (i - L) = base + (j - L)
      BY <1>10, <3>2
    <3> QED
      BY <1>1, <3>1, <3>3
  <2>3. (i \in DOMAIN ns \/ i > L) /\ (j \in DOMAIN ns \/ j > L)
    BY <1>4, <1>5
  <2> QED
    BY <1>9, <1>10, <2>1, <2>2, <2>3
<1>11. Made(ms)
  BY <1>4, <1>8, <1>10 DEF Made
<1>12. Longer(ns, ms)
  BY <1>1, <1>4, <1>6, <1>11 DEF Longer
<1>13. ASSUME NEW i \in DOMAIN ms, ms[i].op = "param" PROVE ms[i].of <= base + C
  <2>1. CASE i \in DOMAIN ns
    <3>1. ms[i] = ns[i] /\ ns[i].of \in Int
      BY <1>6, <2>1, MadeIs DEF NodeSet
    <3>2. ns[i].of <= base
      BY <1>13, <2>1, <3>1
    <3> QED
      BY <3>1, <3>2
  <2>2. CASE i > L
    <3>1. ms[i].of = base + (i - L) /\ i \in Nat /\ i <= L + C
      BY <1>1, <1>4, <1>7, <2>2
    <3> QED
      BY <1>1, <3>1
  <2> QED
    BY <1>4, <1>5, <2>1, <2>2
<1> QED
  <2>1. ms = ns \o Params(C, base)
    BY DEF ms, params, Params
  <2> QED
    BY <1>4, <1>12, <1>13, <2>1

(* A fork keeps the invariant: the parameters are new, the registers refer to *)
(* them, and the caches are for fewer pins than there are.                    *)
LEMMA ForkKeeps == ASSUME IInv, NEW a \in Regs, NEW v \in {0, 1}, NEW join \in BOOLEAN, Fork(a, v, join) PROVE IInv'
<1> DEFINE x == refs[Reg(a)]
           s == Substitute(x)
           C == Cardinality(Regs)
           base == blocks * C
           p == Len(pinned)
           L == Len(s.nodes)
           params == [r \in 1..C |-> Node("param", base + r, <<>>)]
           kept == {h \in DOMAIN refs : h[1] \in {"reg", "pin"}}
           seeds == IF join THEN {Reg(r) : r \in Regs} \cup {Retained(r) : r \in Regs} ELSE {}
           new == Over(At(Pin(p + 1), s.ref), [h \in seeds |-> L + h[2]])
           m == Meanings(nodes')
<1>1. Made(nodes) /\ CountsOK /\ p \in Nat /\ DOMAIN pinned = 1..p
  BY PinsAre DEF IInv, ArenaOK
<1>2. C \in Nat /\ Regs = 1..C /\ blocks \in Nat
  BY <1>1, RegsAssumption, FS_CardinalityType DEF CountsOK
<1>3. base \in Nat /\ (blocks + 1) * C = base + C
  BY <1>2
<1>4. x \in DOMAIN nodes
  BY DEF IInv, HoldersOK
<1>5. /\ Grown(nodes, s.nodes) /\ s.ref \in DOMAIN s.nodes
      /\ Meanings(s.nodes)[s.ref] = Pinning(nodes, Pins)[x]
      /\ s.mark \in Nat /\ s.mark <= p
  BY <1>4, SubstituteIs
<1>6. /\ ~IsConst(s.nodes, s.ref)
      /\ nodes' = IF join THEN s.nodes \o params ELSE s.nodes
      /\ refs' = [h \in DOMAIN new \cup kept |-> Over(new, refs)[h]]
      /\ meant' = [h \in DOMAIN new \cup kept |-> IF h \in DOMAIN new THEN m[new[h]] ELSE meant[h]]
      /\ watermark' = s.mark /\ last' = {Right(x, s, Pins)}
      /\ pinned' = Append(pinned, v) /\ known' = None /\ blocks' = blocks + 1 /\ UNCHANGED <<opaques, gen>>
  BY DEF Fork
<1>7. \A q \in last' : q[1] = q[2]
  <2>1. last' = {Right(x, s, Pins)}
    BY <1>6
  <2> HIDE DEF s, x
  <2>2. Right(x, s, Pins) = <<Pinning(nodes, Pins)[x], Meanings(s.nodes)[s.ref]>>
    BY DEF Right
  <2>3. Right(x, s, Pins)[1] = Right(x, s, Pins)[2]
    BY <1>5, <2>2
  <2> QED
    BY <2>1, <2>3
<1> HIDE DEF s, base, x, m
<1>8. Made(s.nodes) /\ L \in Nat /\ DOMAIN s.nodes = 1..L
  BY <1>5, MadeIs DEF Grown
<1>9. \A i \in DOMAIN s.nodes : s.nodes[i].op = "param" => s.nodes[i].of <= base
  <2>1. ASSUME NEW i \in DOMAIN s.nodes, s.nodes[i].op = "param" PROVE s.nodes[i].of <= base
    <3>1. i \in DOMAIN nodes /\ s.nodes[i] = nodes[i]
      BY <1>5, <2>1 DEF Grown
    <3> QED
      BY <2>1, <3>1 DEF IInv, ArenaOK, base
  <2> QED
    BY <2>1
<1>10. /\ Longer(s.nodes, nodes') /\ Len(nodes') = IF join THEN L + C ELSE L
       /\ \A i \in DOMAIN nodes' : nodes'[i].op = "param" => nodes'[i].of <= base + C
  <2>1. CASE join
    <3>1. nodes' = s.nodes \o Params(C, base)
      BY <1>6, <2>1 DEF Params
    <3> HIDE DEF C, params
    <3> QED
      BY <1>2, <1>3, <1>8, <1>9, <2>1, <3>1, ParamsFollow
  <2>2. CASE ~join
    <3>1. nodes' = s.nodes
      BY <1>6, <2>2
    <3>2. Longer(s.nodes, s.nodes)
      BY <1>8, GrownIs DEF Grown, Longer
    <3>3. ASSUME NEW i \in DOMAIN s.nodes, s.nodes[i].op = "param" PROVE s.nodes[i].of <= base + C
      <4>1. s.nodes[i].of \in Int /\ s.nodes[i].of <= base
        BY <1>8, <1>9, <3>3, MadeIs DEF NodeSet
      <4> QED
        BY <1>2, <1>3, <4>1
    <3> QED
      BY <2>2, <3>1, <3>2, <3>3
  <2> QED
    BY <2>1, <2>2
<1> HIDE DEF params, L
<1>11. Longer(nodes, nodes') /\ Made(nodes')
  <2>1. Longer(nodes, s.nodes) /\ DOMAIN nodes \subseteq DOMAIN s.nodes
    BY <1>1, <1>5, MeaningsStay DEF Grown, Longer
  <2>2. Len(nodes) \in Nat /\ Len(s.nodes) \in Nat /\ Len(nodes') \in Nat
    BY <1>1, <1>8, <1>10, MadeIs DEF Longer
  <2> QED
    BY <1>10, <2>1, <2>2 DEF Longer
<1>12. L \in Nat /\ DOMAIN nodes' = 1..Len(nodes') /\ s.ref \in DOMAIN nodes'
  BY <1>5, <1>8, <1>10, <1>11, MadeIs, PrefixMeans
<1>13. ArenaOK'
  BY <1>3, <1>6, <1>10, <1>11 DEF ArenaOK
<1>14. /\ pinned' \in Seq(Int) /\ Len(pinned') = p + 1 /\ DOMAIN pinned' = 1..(p + 1)
  BY <1>1, <1>6 DEF CountsOK
<1>15. CountsOK'
  BY <1>1, <1>2, <1>6, <1>14 DEF CountsOK
<1>16. /\ DOMAIN new = {Pin(p + 1)} \cup seeds /\ new[Pin(p + 1)] = s.ref
       /\ \A h \in seeds : new[h] = L + h[2]
  <2>1. \A h \in seeds : h # Pin(p + 1)
    BY DEF Pin, Reg, Retained
  <2> HIDE DEF seeds
  <2> QED
    BY <2>1 DEF Over, At
<1>17. \A h \in DOMAIN new : new[h] \in DOMAIN nodes'
  <2>1. ASSUME NEW h \in seeds PROVE L + h[2] \in DOMAIN nodes'
    <3>1. join /\ h[2] \in 1..C
      BY <1>2 DEF Reg, Retained
    <3> QED
      BY <1>2, <1>10, <1>12, <3>1
  <2> HIDE DEF seeds, new
  <2> QED
    BY <1>12, <1>16, <2>1
<1>18. \A n \in 1..p : Pin(n) \notin DOMAIN new
  <2>1. \A n \in 1..p : Pin(n) # Pin(p + 1) /\ Pin(n) \notin seeds
    BY <1>1 DEF Pin, Reg, Retained
  <2> HIDE DEF seeds, new
  <2> QED
    BY <1>16, <2>1
<1> HIDE DEF new, seeds
<1>19. /\ DOMAIN refs' = DOMAIN new \cup kept /\ DOMAIN meant' = DOMAIN new \cup kept
       /\ \A h \in DOMAIN new : refs'[h] = new[h] /\ meant'[h] = m[new[h]]
       /\ \A h \in kept : h \notin DOMAIN new => refs'[h] = refs[h] /\ meant'[h] = meant[h]
  BY <1>6 DEF Over
<1>20. HoldersOK'
  <2>1. ASSUME NEW h \in DOMAIN refs' PROVE refs'[h] \in DOMAIN nodes' /\ m[refs'[h]] = meant'[h]
    <3>1. CASE h \in DOMAIN new
      BY <1>17, <1>19, <3>1
    <3>2. CASE h \notin DOMAIN new
      <4>1. h \in DOMAIN refs /\ refs'[h] = refs[h] /\ meant'[h] = meant[h]
        BY <1>19, <3>2
      <4>2. refs[h] \in DOMAIN nodes /\ Meanings(nodes)[refs[h]] = meant[h]
        BY <4>1 DEF IInv, HoldersOK
      <4> QED
        BY <1>1, <1>11, <4>1, <4>2, PrefixMeans DEF m
    <3> QED
      BY <3>1, <3>2
  <2>2. ASSUME NEW r \in Regs PROVE Reg(r) \in DOMAIN refs'
    <3>1. Reg(r) \in DOMAIN refs /\ Reg(r)[1] = "reg"
      BY DEF IInv, HoldersOK, Reg
    <3> QED
      BY <1>19, <3>1
  <2> HIDE DEF kept
  <2> QED
    BY <1>19, <2>1, <2>2 DEF HoldersOK, m
<1>21. PinsOK'
  <2>1. ASSUME NEW n \in 1..(p + 1) PROVE Pin(n) \in DOMAIN refs' /\ ~IsConst(nodes', refs'[Pin(n)])
    <3>1. CASE n = p + 1
      <4>1. Pin(n) \in DOMAIN refs' /\ refs'[Pin(n)] = s.ref
        BY <1>16, <1>19, <3>1
      <4>2. nodes'[s.ref] = s.nodes[s.ref]
        BY <1>5, <1>10 DEF Longer
      <4> QED
        BY <1>6, <4>1, <4>2 DEF IsConst
    <3>2. CASE n # p + 1
      <4>1. n \in DOMAIN pinned /\ n \in 1..p
        BY <1>1, <3>2
      <4>2. Pin(n) \in DOMAIN refs /\ ~IsConst(nodes, refs[Pin(n)]) /\ Pin(n)[1] = "pin"
        BY <4>1 DEF IInv, PinsOK, Pin
      <4>3. Pin(n) \in kept /\ Pin(n) \notin DOMAIN new
        BY <1>18, <4>1, <4>2
      <4>4. Pin(n) \in DOMAIN refs' /\ refs'[Pin(n)] = refs[Pin(n)]
        BY <1>19, <4>3
      <4>5. refs[Pin(n)] \in DOMAIN nodes
        BY <4>2 DEF IInv, HoldersOK
      <4>6. nodes'[refs[Pin(n)]] = nodes[refs[Pin(n)]]
        BY <1>11, <4>5 DEF Longer
      <4> QED
        BY <4>2, <4>4, <4>6 DEF IsConst
    <3> QED
      BY <3>1, <3>2
  <2> QED
    BY <1>14, <2>1 DEF PinsOK
<1>22. CachesOK'
  <2>1. watermark' \in Nat /\ watermark' <= Len(pinned') /\ watermark' # Len(pinned')
    BY <1>1, <1>5, <1>6, <1>14
  <2> QED
    BY <2>1 DEF CachesOK
<1>23. FactsOK'
  <2>1. DOMAIN known' = {}
    BY <1>6 DEF None
  <2> QED
    BY <2>1 DEF FactsOK
<1>24. AnswersOK'
  BY <1>7 DEF AnswersOK
<1> QED
  BY <1>13, <1>15, <1>20, <1>21, <1>22, <1>23, <1>24 DEF IInv

-----------------------------------------------------------------------------
(* Compaction                                                                 *)

\* The number of each in order, and the arena of the nodes of L at their numbers.
Ranks(S) == [i \in S |-> 1 + Cardinality({j \in S : j < i})]
Moving(o, rho) == Node(o.op, o.of, [k \in DOMAIN o.kids |-> rho[o.kids[k]]])
Packed(ns, rho) == [n \in 1..Cardinality(DOMAIN rho) |-> Moving(ns[CHOOSE i \in DOMAIN rho : rho[i] = n], rho)]

(* The numbers are those from 1 on, each once and in order.                   *)
LEMMA RanksAre ==
  ASSUME NEW S, IsFiniteSet(S), S \subseteq Nat
  PROVE  /\ Cardinality(S) \in Nat /\ DOMAIN Ranks(S) = S
         /\ \A i \in S : Ranks(S)[i] \in 1..Cardinality(S)
         /\ \A i, j \in S : i < j => Ranks(S)[i] < Ranks(S)[j]
         /\ \A i, j \in S : Ranks(S)[i] = Ranks(S)[j] => i = j
         /\ \A n \in 1..Cardinality(S) : \E i \in S : Ranks(S)[i] = n
<1> DEFINE c == Cardinality(S)
           below(i) == {j \in S : j < i}
           rho == Ranks(S)
<1>1. c \in Nat
  BY FS_CardinalityType
<1>2. ASSUME NEW i \in S PROVE IsFiniteSet(below(i)) /\ Cardinality(below(i)) \in Nat
  BY FS_Subset, FS_CardinalityType
<1>3. DOMAIN rho = S /\ \A i \in S : rho[i] = 1 + Cardinality(below(i))
  BY DEF Ranks
<1>4. ASSUME NEW i \in S PROVE rho[i] \in 1..c
  <2>1. i \notin below(i) /\ below(i) \cup {i} \subseteq S
    BY DEF below
  <2>2. Cardinality(below(i) \cup {i}) = Cardinality(below(i)) + 1
    BY <1>2, <2>1, FS_AddElement
  <2>3. Cardinality(below(i) \cup {i}) <= c
    BY <2>1, FS_Subset
  <2> HIDE DEF below
  <2> QED
    BY <1>1, <1>2, <1>3, <2>2, <2>3
<1>5. ASSUME NEW i \in S, NEW j \in S, i < j PROVE rho[i] < rho[j]
  <2>1. i \in Nat /\ j \in Nat
    OBVIOUS
  <2>2. i \notin below(i) /\ below(i) \cup {i} \subseteq below(j)
    <3>1. \A k \in S : k < i => k < j
      BY <1>5, <2>1
    <3>2. ~(i < i)
      BY <2>1
    <3> QED
      BY <1>5, <3>1, <3>2
  <2>3. Cardinality(below(i) \cup {i}) = Cardinality(below(i)) + 1
    BY <1>2, <2>2, FS_AddElement
  <2>4. Cardinality(below(i) \cup {i}) <= Cardinality(below(j))
    BY <1>2, <2>2, FS_Subset
  <2> HIDE DEF below
  <2> QED
    BY <1>2, <1>3, <2>3, <2>4
<1> HIDE DEF below, rho
<1>6. \A i, j \in S : rho[i] = rho[j] => i = j
  <2>1. SUFFICES ASSUME NEW i \in S, NEW j \in S, rho[i] = rho[j], i # j PROVE FALSE
    OBVIOUS
  <2>2. i < j \/ j < i
    BY <2>1
  <2>3. rho[i] \in Nat /\ rho[j] \in Nat
    BY <1>1, <1>4
  <2> QED
    BY <1>5, <2>1, <2>2, <2>3
<1>7. rho \in Surjection(S, 1..c)
  <2>1. rho \in [S -> 1..c]
    <3>1. rho = [i \in S |-> rho[i]]
      BY DEF rho, Ranks
    <3> QED
      BY <1>4, <3>1
  <2>2. rho \in Injection(S, 1..c)
    BY <1>6, <2>1 DEF Injection, IsInjective
  <2>3. IsFiniteSet(1..c) /\ Cardinality(1..c) = c
    BY <1>1, FS_Interval
  <2> QED
    BY <2>2, <2>3, FS_Injection
<1>8. \A n \in 1..c : \E i \in S : rho[i] = n
  BY <1>7 DEF Surjection
<1> QED
  BY <1>1, <1>3, <1>4, <1>5, <1>6, <1>8 DEF rho

(* Nodes moved together with all they refer to are an arena again, in which   *)
(* each means what it did.                                                    *)
LEMMA MovedIs ==
  ASSUME NEW ns, Made(ns), NEW S \in SUBSET DOMAIN ns,
         \A i \in S : ToSet(ns[i].kids) \subseteq S
  PROVE  /\ Made(Packed(ns, Ranks(S)))
         /\ DOMAIN Packed(ns, Ranks(S)) = 1..Cardinality(S)
         /\ \A n \in DOMAIN Packed(ns, Ranks(S)) : \E i \in S : /\ Packed(ns, Ranks(S))[n].op = ns[i].op
                                                                /\ Packed(ns, Ranks(S))[n].of = ns[i].of
         /\ \A i \in S : /\ Ranks(S)[i] \in DOMAIN Packed(ns, Ranks(S))
                         /\ Packed(ns, Ranks(S))[Ranks(S)[i]].op = ns[i].op
                         /\ Meanings(Packed(ns, Ranks(S)))[Ranks(S)[i]] = Meanings(ns)[i]
<1> DEFINE c == Cardinality(S)
           rho == Ranks(S)
           ms == Packed(ns, rho)
           m == Meanings(ns)
           M == Meanings(ms)
<1>1. Len(ns) \in Nat /\ DOMAIN ns = 1..Len(ns) /\ IsFiniteSet(S) /\ S \subseteq Nat
  <2>1. Len(ns) \in Nat /\ DOMAIN ns = 1..Len(ns)
    BY MadeIs
  <2>2. IsFiniteSet(1..Len(ns))
    BY <2>1, FS_Interval
  <2> QED
    BY <2>1, <2>2, FS_Subset
<1>2. /\ c \in Nat /\ DOMAIN rho = S
      /\ \A i \in S : rho[i] \in 1..c
      /\ \A i, j \in S : i < j => rho[i] < rho[j]
      /\ \A i, j \in S : rho[i] = rho[j] => i = j
      /\ \A n \in 1..c : \E i \in S : rho[i] = n
  BY <1>1, RanksAre
<1> HIDE DEF rho
<1>3. DOMAIN ms = 1..c /\ \A i \in S : ms[rho[i]] = Moving(ns[i], rho)
  <2>1. DOMAIN ms = 1..c /\ \A n \in 1..c : ms[n] = Moving(ns[CHOOSE i \in S : rho[i] = n], rho)
    BY <1>2 DEF Packed
  <2>2. ASSUME NEW i \in S PROVE (CHOOSE j \in S : rho[j] = rho[i]) = i
    BY <1>2
  <2> HIDE DEF ms
  <2> QED
    BY <1>2, <2>1, <2>2
<1> HIDE DEF ms
<1>4. ASSUME NEW i \in S
      PROVE  /\ i \in DOMAIN ns /\ ns[i] \in NodeSet /\ ns[i].kids \in Seq(Nat) /\ DOMAIN ms[rho[i]].kids = DOMAIN ns[i].kids
             /\ Len(ms[rho[i]].kids) = Len(ns[i].kids) /\ ms[rho[i]] \in NodeSet
             /\ ms[rho[i]].op = ns[i].op /\ ms[rho[i]].of = ns[i].of
             /\ \A k \in DOMAIN ns[i].kids : /\ ns[i].kids[k] \in S /\ ns[i].kids[k] < i
                                             /\ ms[rho[i]].kids[k] = rho[ns[i].kids[k]]
  <2>1. i \in DOMAIN ns /\ i \in Nat /\ ns[i] \in NodeSet /\ ns[i].kids \in Seq(Nat)
        /\ \A k \in DOMAIN ns[i].kids : ns[i].kids[k] \in 1..(i - 1)
    BY MadeIs
  <2>2. \A k \in DOMAIN ns[i].kids : ns[i].kids[k] \in S
    BY DEF ToSet
  <2> DEFINE kids == [k \in DOMAIN ns[i].kids |-> rho[ns[i].kids[k]]]
  <2>3. ms[rho[i]] = [op |-> ns[i].op, of |-> ns[i].of, kids |-> kids]
    BY <1>3 DEF Moving, Node
  <2>4. DOMAIN ns[i].kids = 1..Len(ns[i].kids) /\ Len(ns[i].kids) \in Nat
    BY <2>1
  <2>5. kids \in [1..Len(ns[i].kids) -> Nat]
    BY <1>2, <2>2, <2>4
  <2>6. DOMAIN kids = DOMAIN ns[i].kids
    OBVIOUS
  <2>7. \A k \in DOMAIN ns[i].kids : kids[k] = rho[ns[i].kids[k]]
    OBVIOUS
  <2> HIDE DEF kids
  <2>8. kids \in Seq(Nat) /\ Len(kids) = Len(ns[i].kids)
    BY <2>4, <2>5, <2>6
  <2>9. ms[rho[i]] \in NodeSet
    BY <2>1, <2>3, <2>8 DEF NodeSet
  <2>10. ms[rho[i]].op = ns[i].op /\ ms[rho[i]].of = ns[i].of /\ ms[rho[i]].kids = kids
    BY <2>3
  <2>11. \A k \in DOMAIN ns[i].kids : ns[i].kids[k] < i
    BY <2>1
  <2> QED
    BY <2>1, <2>2, <2>6, <2>7, <2>8, <2>9, <2>10, <2>11
<1>5. ms \in Seq(NodeSet) /\ Len(ms) = c
  <2>1. \A n \in 1..c : ms[n] \in NodeSet
    BY <1>2, <1>4
  <2>2. ms \in [1..c -> NodeSet]
    <3>1. ms = [n \in 1..c |-> ms[n]]
      BY <1>2 DEF ms, Packed
    <3> QED
      BY <2>1, <3>1
  <2> QED
    BY <1>2, <1>3, <2>2
<1>6. ASSUME NEW i \in S PROVE Fits(ms, ms[rho[i]], rho[i] - 1)
  <2> DEFINE kids == ns[i].kids
             moved == ms[rho[i]].kids
  <2>1. \A k \in DOMAIN kids : kids[k] \in S /\ kids[k] < i /\ moved[k] = rho[kids[k]]
    BY <1>4
  <2>2. DOMAIN moved = DOMAIN kids /\ Len(moved) = Len(kids) /\ kids \in Seq(Nat)
    BY <1>4
  <2>3. \A k \in DOMAIN moved : moved[k] \in 1..(rho[i] - 1)
    <3>1. ASSUME NEW k \in DOMAIN moved PROVE moved[k] \in 1..(rho[i] - 1)
      <4>1. moved[k] = rho[kids[k]] /\ rho[kids[k]] \in 1..c /\ rho[i] \in 1..c /\ rho[kids[k]] < rho[i]
        BY <1>2, <2>1, <2>2
      <4> HIDE DEF moved
      <4> QED
        BY <1>2, <4>1
    <3> QED
      BY <3>1
  <2>4. Fits(ns, ns[i], i - 1)
    BY <1>4 DEF Made
  <2>5. ms[rho[i]].op = ns[i].op /\ ms[rho[i]].of = ns[i].of /\ ms[rho[i]] \in NodeSet
    BY <1>4
  <2>6. \A k \in DOMAIN kids : IsConst(ms, moved[k]) <=> IsConst(ns, kids[k])
    BY <1>4, <2>1 DEF IsConst
  <2>7. ASSUME ns[i].op = "add" PROVE Sum(ms, ms[rho[i]])
    <3>1. Sum(ns, ns[i])
      BY <2>4, <2>7 DEF Fits
    <3>2. ns[i].of = 0 /\ Len(kids) = 2 /\ ~IsConst(ns, kids[1]) /\ (IsConst(ns, kids[2]) \/ kids[1] <= kids[2])
      BY <3>1 DEF Sum
    <3>3. 1 \in DOMAIN kids /\ 2 \in DOMAIN kids
      BY <2>2, <3>2
    <3>4. ~IsConst(ms, moved[1]) /\ (IsConst(ns, kids[2]) => IsConst(ms, moved[2]))
      BY <2>6, <3>2, <3>3
    <3>5. ASSUME kids[1] <= kids[2] PROVE moved[1] <= moved[2]
      <4>1. kids[1] \in S /\ kids[2] \in S /\ kids[1] \in Nat /\ kids[2] \in Nat
            /\ moved[1] = rho[kids[1]] /\ moved[2] = rho[kids[2]]
        BY <1>1, <2>1, <3>3
      <4>2. kids[1] < kids[2] \/ kids[1] = kids[2]
        BY <3>5, <4>1
      <4>3. rho[kids[1]] \in Nat /\ rho[kids[2]] \in Nat
        BY <1>2, <4>1
      <4>4. rho[kids[1]] < rho[kids[2]] \/ rho[kids[1]] = rho[kids[2]]
        BY <1>2, <4>1, <4>2
      <4> HIDE DEF moved, kids
      <4> QED
        BY <4>1, <4>3, <4>4
    <3> QED
      BY <2>2, <2>5, <3>2, <3>4, <3>5 DEF Sum
  <2>8. ASSUME ns[i].op \notin {"add", "load"} PROVE moved = <<>>
    <3>1. kids = <<>>
      BY <2>4, <2>8 DEF Fits
    <3>2. moved \in Seq(Nat) /\ Len(moved) = 0
      BY <2>2, <2>5, <3>1 DEF NodeSet
    <3> HIDE DEF moved
    <3> QED
      BY <3>2
  <2> QED
    BY <2>3, <2>5, <2>7, <2>8 DEF Fits
<1>7. ASSUME NEW i \in S, NEW j \in S, ms[rho[i]] = ms[rho[j]] PROVE i = j
  <2>1. ns[i].op = ns[j].op /\ ns[i].of = ns[j].of /\ DOMAIN ns[i].kids = DOMAIN ns[j].kids
    BY <1>4, <1>7
  <2>2. \A k \in DOMAIN ns[i].kids : ns[i].kids[k] = ns[j].kids[k]
    <3>1. ASSUME NEW k \in DOMAIN ns[i].kids PROVE ns[i].kids[k] = ns[j].kids[k]
      <4>1. ns[i].kids[k] \in S /\ ns[j].kids[k] \in S
            /\ ms[rho[i]].kids[k] = rho[ns[i].kids[k]] /\ ms[rho[j]].kids[k] = rho[ns[j].kids[k]]
        BY <1>4, <2>1
      <4>2. rho[ns[i].kids[k]] = rho[ns[j].kids[k]]
        BY <1>7, <4>1
      <4> QED
        BY <1>2, <4>1, <4>2
    <3> QED
      BY <3>1
  <2>3. ns[i].kids \in Seq(Nat) /\ ns[j].kids \in Seq(Nat) /\ ns[i] \in NodeSet /\ ns[j] \in NodeSet
    BY <1>4
  <2>4. ns[i].kids = ns[j].kids
    <3>1. Len(ns[i].kids) = Len(ns[j].kids)
      BY <2>1, <2>3
    <3> QED
      BY <2>2, <2>3, <3>1
  <2>5. ns[i] = ns[j]
    BY <2>1, <2>3, <2>4 DEF NodeSet
  <2> QED
    BY <1>4, <2>5 DEF Made
<1>8. Made(ms)
  <2>1. ASSUME NEW n \in DOMAIN ms PROVE Fits(ms, ms[n], n - 1)
    <3>1. PICK i \in S : rho[i] = n
      BY <1>2, <1>3
    <3> QED
      BY <1>6, <3>1
  <2>2. ASSUME NEW n \in DOMAIN ms, NEW l \in DOMAIN ms, ms[n] = ms[l] PROVE n = l
    <3>1. PICK i \in S : rho[i] = n
      BY <1>2, <1>3
    <3>2. PICK j \in S : rho[j] = l
      BY <1>2, <1>3
    <3> QED
      BY <1>7, <2>2, <3>1, <3>2
  <2> QED
    BY <1>5, <2>1, <2>2 DEF Made
<1>9. \A i \in S : M[rho[i]] = m[i]
  <2> DEFINE G == {i \in DOMAIN ns : i \in S => M[rho[i]] = m[i]}
  <2>1. ASSUME NEW i \in 1..Len(ns), 1..(i - 1) \subseteq G PROVE i \in G
    <3>1. ASSUME i \in S PROVE M[rho[i]] = m[i]
      <4>1. rho[i] \in DOMAIN ms
        BY <1>2, <1>3, <3>1
      <4>2. M[rho[i]] = Tree(ms[rho[i]], KidsBy(ms, M, rho[i]))
        BY <1>8, <4>1, MeaningsAre
      <4>3. m[i] = Tree(ns[i], KidsBy(ns, m, i))
        BY <1>1, MeaningsAre
      <4>4. ASSUME NEW k \in DOMAIN ns[i].kids PROVE M[ms[rho[i]].kids[k]] = m[ns[i].kids[k]]
        <5>1. ns[i].kids[k] \in S /\ ms[rho[i]].kids[k] = rho[ns[i].kids[k]]
          BY <1>4, <3>1
        <5>2. ns[i].kids[k] \in 1..(i - 1)
          BY <1>1, MadeIs
        <5>3. ns[i].kids[k] \in G
          BY <2>1, <5>2
        <5> QED
          BY <5>1, <5>3
      <4>5. KidsBy(ms, M, rho[i]) = KidsBy(ns, m, i)
        <5>1. DOMAIN ms[rho[i]].kids = DOMAIN ns[i].kids
          BY <1>4, <3>1
        <5> HIDE DEF M, m
        <5> QED
          BY <4>4, <5>1 DEF KidsBy
      <4>6. ms[rho[i]].op = ns[i].op /\ ms[rho[i]].of = ns[i].of
        BY <1>4, <3>1
      <4> HIDE DEF M, m
      <4> QED
        BY <4>2, <4>3, <4>5, <4>6 DEF Tree
    <3> QED
      BY <1>1, <3>1
  <2> HIDE DEF G
  <2>2. 1..Len(ns) \subseteq G
    BY <1>1, <2>1, Ascend
  <2> QED
    BY <1>1, <2>2 DEF G
<1>10. \A n \in DOMAIN ms : \E i \in S : ms[n].op = ns[i].op /\ ms[n].of = ns[i].of
  <2>1. ASSUME NEW n \in DOMAIN ms PROVE \E i \in S : ms[n].op = ns[i].op /\ ms[n].of = ns[i].of
    <3>1. PICK i \in S : rho[i] = n
      BY <1>2, <1>3
    <3> QED
      BY <1>4, <3>1
  <2> QED
    BY <2>1
<1>11. \A i \in S : rho[i] \in DOMAIN ms /\ ms[rho[i]].op = ns[i].op
  BY <1>2, <1>3, <1>4
<1> QED
  BY <1>3, <1>8, <1>9, <1>10, <1>11 DEF ms, rho

(* What is reached from the references holds all it refers to.                *)
LEMMA LiveClosed ==
  ASSUME IInv
  PROVE  /\ Live \subseteq DOMAIN nodes /\ \A h \in DOMAIN refs : refs[h] \in Live
         /\ \A i \in Live : ToSet(nodes[i].kids) \subseteq Live
<1> DEFINE R == Reach(nodes, DOMAIN nodes)
<1>1. Made(nodes) /\ Len(nodes) \in Nat /\ DOMAIN nodes = 1..Len(nodes)
  BY MadeIs DEF IInv, ArenaOK
<1>2. \A i \in DOMAIN nodes : /\ i \in R[i] /\ R[i] \subseteq 1..i
                              /\ \A j \in R[i] : j \in DOMAIN nodes => ToSet(nodes[j].kids) \subseteq R[i]
  BY <1>1, Reached
<1> HIDE DEF R
<1>3. Live = UNION {R[i] : i \in Roots}
  BY DEF Live, R
<1>4. \A h \in DOMAIN refs : refs[h] \in DOMAIN nodes /\ refs[h] \in Roots
  BY DEF IInv, HoldersOK, Roots
<1>5. Roots \subseteq DOMAIN nodes
  BY <1>4 DEF Roots
<1>6. \A i \in DOMAIN nodes : 1..i \subseteq DOMAIN nodes
  BY <1>1
<1>7. Live \subseteq DOMAIN nodes
  BY <1>2, <1>3, <1>5, <1>6
<1>8. \A h \in DOMAIN refs : refs[h] \in Live
  BY <1>2, <1>3, <1>4
<1>9. ASSUME NEW i \in Live PROVE ToSet(nodes[i].kids) \subseteq Live
  <2>1. PICK r \in Roots : i \in R[r]
    BY <1>3
  <2> QED
    BY <1>2, <1>3, <1>5, <1>7, <2>1
<1> QED
  BY <1>7, <1>8, <1>9

(* A compaction keeps the invariant: what is referred to is moved with its    *)
(* meaning, and nothing else is kept.                                         *)
LEMMA CompactKeeps == ASSUME IInv, Compact PROVE IInv'
<1> DEFINE rho == Ranks(Live)
           ms == Packed(nodes, rho)
<1>1. Made(nodes) /\ CountsOK /\ Len(pinned) \in Nat /\ DOMAIN pinned = 1..Len(pinned)
  BY PinsAre DEF IInv, ArenaOK
<1>2. Remap = rho
  BY DEF Remap, Before, Ranks
<1>3. /\ Live \subseteq DOMAIN nodes /\ \A h \in DOMAIN refs : refs[h] \in Live
      /\ \A i \in Live : ToSet(nodes[i].kids) \subseteq Live
  BY LiveClosed
<1>4. /\ nodes' = ms
      /\ refs' = [h \in DOMAIN refs |-> rho[refs[h]]]
      /\ memo' = None /\ dep' = None /\ watermark' = Len(pinned) /\ known' = None /\ last' = {}
      /\ UNCHANGED <<opaques, gen, blocks, pinned, meant>>
  <2>1. nodes' = [n \in 1..Cardinality(DOMAIN rho) |->
                     LET o == nodes[CHOOSE i \in DOMAIN rho : rho[i] = n]
                     IN  Node(o.op, o.of, [k \in DOMAIN o.kids |-> rho[o.kids[k]]])]
    BY <1>2 DEF Compact
  <2> HIDE DEF rho
  <2>2. nodes' = ms
    BY <2>1 DEF Packed, Moving
  <2> QED
    BY <1>2, <2>2 DEF Compact, Moved, Facts
<1>5. /\ Made(nodes')
      /\ \A n \in DOMAIN nodes' : \E i \in Live : nodes'[n].op = nodes[i].op /\ nodes'[n].of = nodes[i].of
      /\ \A i \in Live : /\ rho[i] \in DOMAIN nodes' /\ nodes'[rho[i]].op = nodes[i].op
                         /\ Meanings(nodes')[rho[i]] = Meanings(nodes)[i]
  BY <1>1, <1>3, <1>4, MovedIs
<1> HIDE DEF rho, ms
<1>6. ArenaOK'
  <2>1. \A n \in DOMAIN nodes' : nodes'[n].op = "param" => nodes'[n].of <= blocks * Cardinality(Regs)
    BY <1>3, <1>5 DEF IInv, ArenaOK
  <2> QED
    BY <1>4, <1>5, <2>1 DEF ArenaOK
<1>7. CountsOK'
  BY <1>1, <1>4 DEF CountsOK
<1>8. HoldersOK'
  <2>1. DOMAIN refs' = DOMAIN refs /\ \A h \in DOMAIN refs : refs'[h] = rho[refs[h]]
    BY <1>4
  <2>2. \A h \in DOMAIN refs : Meanings(nodes)[refs[h]] = meant[h]
    BY DEF IInv, HoldersOK
  <2>3. \A h \in DOMAIN refs' : refs'[h] \in DOMAIN nodes' /\ Meanings(nodes')[refs'[h]] = meant'[h]
    BY <1>3, <1>4, <1>5, <2>1, <2>2
  <2>4. DOMAIN meant' = DOMAIN refs' /\ \A r \in Regs : Reg(r) \in DOMAIN refs'
    BY <1>4, <2>1 DEF IInv, HoldersOK
  <2> QED
    BY <2>3, <2>4 DEF HoldersOK
<1>9. PinsOK'
  <2>1. ASSUME NEW n \in DOMAIN pinned PROVE Pin(n) \in DOMAIN refs' /\ ~IsConst(nodes', refs'[Pin(n)])
    <3>1. Pin(n) \in DOMAIN refs /\ ~IsConst(nodes, refs[Pin(n)])
      BY DEF IInv, PinsOK
    <3>2. Pin(n) \in DOMAIN refs' /\ refs'[Pin(n)] = rho[refs[Pin(n)]] /\ refs[Pin(n)] \in Live
      BY <1>3, <1>4, <3>1
    <3> QED
      BY <1>5, <3>1, <3>2 DEF IsConst
  <2> QED
    BY <1>4, <2>1 DEF PinsOK
<1>10. CachesOK'
  <2>1. CachesRight(nodes', Caches(nodes', None, None), Pins')
    BY <1>5, NoneRight
  <2>2. watermark' \in Nat /\ watermark' <= Len(pinned')
    BY <1>1, <1>4
  <2> QED
    BY <1>4, <2>1, <2>2 DEF CachesOK
<1>11. FactsOK'
  <2>1. DOMAIN known' = {}
    BY <1>4 DEF None
  <2> QED
    BY <2>1 DEF FactsOK
<1>12. AnswersOK'
  BY <1>4 DEF AnswersOK
<1> QED
  BY <1>6, <1>7, <1>8, <1>9, <1>10, <1>11, <1>12 DEF IInv

-----------------------------------------------------------------------------
(* The theorems                                                               *)

(* Every step keeps the invariant.                                            *)
LEMMA NextKeeps == IInv /\ [Next]_vars => IInv'
<1> SUFFICES ASSUME IInv, [Next]_vars PROVE IInv'
  OBVIOUS
<1>1. ASSUME NEW i \in Code, Instr(i) PROVE IInv'
  <2>1. /\ i.to \in Regs /\ i.from \in Seq(Regs)
        /\ i.op = "add" => Len(i.from) = 2
        /\ i.op \in {"load", "store"} => Len(i.from) = 1
    BY CodeAssumption
  <2>2. CASE i.op = "opaque" /\ Opaque(i.to)
    BY <2>1, <2>2, OpaqueKeeps
  <2>3. CASE i.op = "add" /\ Add(i.to, i.from[1], i.from[2])
    <3>1. i.from[1] \in Regs /\ i.from[2] \in Regs
      BY <2>1, <2>3
    <3> QED
      BY <2>1, <2>3, <3>1, AddKeeps
  <2>4. CASE i.op = "load" /\ LoadReg(i.to, i.from[1])
    <3>1. i.from[1] \in Regs
      BY <2>1, <2>4
    <3> QED
      BY <2>1, <2>4, <3>1, LoadKeeps
  <2>5. CASE i.op = "store" /\ StoreReg(i.to, i.from[1])
    <3>1. i.from[1] \in Regs
      BY <2>1, <2>5
    <3> QED
      BY <2>1, <2>5, <3>1, StoreKeeps
  <2>6. CASE i.op = "fork" /\ \E v \in {0, 1}, join \in BOOLEAN : Fork(i.to, v, join)
    BY <2>1, <2>6, ForkKeeps
  <2> QED
    BY <1>1, <2>2, <2>3, <2>4, <2>5, <2>6 DEF Instr
<1>2. ASSUME UNCHANGED vars PROVE IInv'
  <2>1. /\ nodes' = nodes /\ opaques' = opaques /\ gen' = gen /\ blocks' = blocks /\ refs' = refs
        /\ pinned' = pinned /\ memo' = memo /\ dep' = dep /\ watermark' = watermark /\ known' = known
        /\ meant' = meant /\ last' = last
    BY <1>2 DEF vars
  <2>2. Pins' = Pins
    BY <2>1 DEF Pins
  <2> QED
    BY <2>1, <2>2 DEF IInv, ArenaOK, CountsOK, HoldersOK, PinsOK, CachesOK, FactsOK, AnswersOK
<1> QED
  BY <1>1, <1>2, CompactKeeps DEF Next

(* Whatever is lifted, pinned and compacted, in any order, the arena is as    *)
(* construction leaves it, the references mean what they did and the caches   *)
(* of the current pins give what substitution would.                          *)
THEOREM ArenaInvariant == Spec => []IInv
<1>1. Init => IInv
  BY Begins
<1>2. IInv /\ [Next]_vars => IInv'
  BY NextKeeps
<1> QED
  BY <1>1, <1>2, PTL DEF Spec

(* A reference kept in a register, an event, a pin or an entry parameter      *)
(* means for ever what it meant when it was made, across every compaction     *)
(* that moves its node (ir/lift.rs `compact_lift_state`).                     *)
THEOREM ReferencesSurvive == Spec => []HoldersKeepMeaning
<1>1. IInv => HoldersKeepMeaning
  BY DEF IInv, HoldersOK, HoldersKeepMeaning
<1> QED
  BY <1>1, ArenaInvariant, PTL

(* No two nodes ever mean the same, however they were made: by a rule, by a   *)
(* substitution, after a compaction (ir/expr.rs `intern`).                    *)
THEOREM NothingTwice == Spec => []OneNodeEach
<1>1. ASSUME IInv PROVE OneNodeEach
  <2> DEFINE m == Meanings(nodes)
             T == {m[i] : i \in DOMAIN nodes}
             f == [i \in DOMAIN nodes |-> m[i]]
  <2>1. Made(nodes) /\ Len(nodes) \in Nat /\ DOMAIN nodes = 1..Len(nodes)
    BY <1>1, MadeIs DEF IInv, ArenaOK
  <2>2. \A i, j \in DOMAIN nodes : m[i] = m[j] => i = j
    BY <2>1, MeaningsDiffer
  <2> HIDE DEF m
  <2>3. f \in [DOMAIN nodes -> T] /\ \A i \in DOMAIN nodes : f[i] = m[i]
    OBVIOUS
  <2>4. \A t \in T : \E i \in DOMAIN nodes : f[i] = t
    OBVIOUS
  <2> HIDE DEF f, T
  <2>5. f \in Surjection(DOMAIN nodes, T)
    BY <2>3, <2>4 DEF Surjection
  <2>6. f \in Injection(DOMAIN nodes, T)
    BY <2>2, <2>3 DEF Injection, IsInjective
  <2>7. IsFiniteSet(DOMAIN nodes) /\ Cardinality(DOMAIN nodes) = Len(nodes)
    <3> DEFINE n == Len(nodes)
    <3>1. n \in Nat /\ DOMAIN nodes = 1..n
      BY <2>1
    <3> HIDE DEF n
    <3>2. IsFiniteSet(1..n) /\ Cardinality(1..n) = n
      BY <3>1, FS_Interval
    <3> QED
      BY <3>1, <3>2 DEF n
  <2>8. Cardinality(T) = Cardinality(DOMAIN nodes)
    <3> DEFINE D == DOMAIN nodes
    <3>1. IsFiniteSet(D) /\ f \in Surjection(D, T) /\ f \in Injection(D, T)
      BY <2>5, <2>6, <2>7
    <3> HIDE DEF D
    <3>2. Cardinality(T) = Cardinality(D)
      BY <3>1, FS_Surjection
    <3> QED
      BY <3>2 DEF D
  <2> QED
    BY <2>7, <2>8 DEF OneNodeEach, T, m
<1>2. IInv => OneNodeEach
  BY <1>1
<1> QED
  BY <1>2, ArenaInvariant, PTL

(* A substitution that finds answers of earlier ones gives what it would give *)
(* without, and what is kept about a node is about that node, whatever was    *)
(* pinned, split and compacted in between (ir/lift.rs `Substitution`).        *)
THEOREM CachesHold == Spec => []CachesAreTrue
<1>1. IInv => CachesAreTrue
  BY DEF IInv, AnswersOK, FactsOK, CachesAreTrue
<1> QED
  BY <1>1, ArenaInvariant, PTL
=============================================================================
