----------------------------- MODULE PassesProofs -----------------------------
(***************************************************************************)
(* Theorems about the passes that run over what is there already: over the *)
(* blocks of a function, and over its emitted code.                        *)
(*                                                                         *)
(* The passes over the blocks change no walk through a function, for every *)
(* number of blocks and every terminator.  Where an edge comes to rest is  *)
(* said without counting steps: x ends at p when every set that holds p    *)
(* and, with a block's target, each block that forwards to it, holds x;    *)
(* and x spins when a set of forwarders that holds x is closed under       *)
(* forwarding.  The tables of the model, which count to a bound, are       *)
(* compared with these once, by the pigeonhole principle; what each pass   *)
(* does to the graph is then shown for both.                               *)
(*                                                                         *)
(* The frame-traffic passes change nothing the emitted code reads, on any  *)
(* path, for every frame and every function of the emitter's units.  What  *)
(* was removed over all rounds is described by one labelling: bytes live   *)
(* into each instruction, those removed included.  It is closed under the  *)
(* flow of control, and no byte a removed store wrote is live behind it.   *)
(* Each round's own liveness is intersected with it.  The machines then    *)
(* agree wherever a byte is live, and on every register except rax on and  *)
(* right behind the save of a removed pair.                                *)
(***************************************************************************)
EXTENDS BlockPasses, FrameTraffic, FiniteSetTheorems, TLAPS

BlockType == [id : 1..N, content : Contents, term : [kind : STRING, to : Seq(1..N)]]

\* The list of all the blocks, in the order of their identities.
Full(bs) ==
    /\ bs \in [1..N -> BlockType]
    /\ \A i \in 1..N : bs[i].id = i /\ (bs[i].term.kind = "jump" => bs[i].term.to # <<>>)

Forwarding(bs) == {i \in 1..N : Forwards(bs[i])}
Onward(bs) == [i \in Forwarding(bs) |-> bs[i].term.to[1]]

\* A function from S to 1..N is followed from x as long as there is a way.
EndsAt(g, x, p) ==
    /\ x \in 1..N /\ p \in (1..N) \ DOMAIN g
    /\ \A S \in SUBSET (1..N) : p \in S /\ (\A y \in DOMAIN g : g[y] \in S => y \in S) => x \in S

Circles(g, C) == C \subseteq DOMAIN g /\ \A y \in C : g[y] \in C
Spins(g, x) == \E C : x \in C /\ Circles(g, C)

OnBlocks(g) == DOMAIN g \subseteq 1..N /\ \A y \in DOMAIN g : g[y] \in 1..N

-----------------------------------------------------------------------------
(* Counting                                                                   *)

(* Induction up to a bound, by counting: a set of numbers that is closed      *)
(* under successor below n would otherwise be mapped into itself one to one   *)
(* without reaching 0, which no finite set allows.                            *)
LEMMA Climb ==
  ASSUME NEW n \in Nat, NEW S \in SUBSET (0..n), 0 \in S,
         \A k \in S : k < n => k + 1 \in S
  PROVE  n \in S
<1> SUFFICES ASSUME n \notin S PROVE FALSE
  OBVIOUS
<1> DEFINE up == [k \in S |-> k + 1]
<1>1. IsFiniteSet(S)
  <2>1. IsFiniteSet(0..n)
    BY FS_Interval
  <2> QED
    BY <2>1, FS_Subset
<1>2. up \in Injection(S, S)
  BY DEF Injection, IsInjective
<1>3. up \in Surjection(S, S)
  BY <1>1, <1>2, FS_Injection
<1>4. PICK k \in S : up[k] = 0
  BY <1>3 DEF Surjection
<1> QED
  BY <1>4

(* A set of numbers that is not empty has a least one. *)
LEMMA Least ==
  ASSUME NEW T \in SUBSET Nat, T # {}
  PROVE  \E n \in T : \A m \in T : n <= m
<1> SUFFICES ASSUME ~ \E n \in T : \A m \in T : n <= m PROVE FALSE
  OBVIOUS
<1>1. PICK t \in T : TRUE
  OBVIOUS
<1> DEFINE S == {k \in 0..t : \A m \in T : k <= m}
<1>2. 0 \in S
  OBVIOUS
<1>3. \A k \in S : k < t => k + 1 \in S
  OBVIOUS
<1>4. t \in S
  <2>1. S \in SUBSET (0..t)
    OBVIOUS
  <2> HIDE DEF S
  <2> QED
    BY <1>2, <1>3, <2>1, Climb
<1> QED
  BY <1>4

-----------------------------------------------------------------------------
(* Where the way ends                                                         *)

(* The way from a block that does not forward ends there, and only there.     *)
LEMMA RestsWhereItIs ==
  ASSUME NEW g, OnBlocks(g), NEW x \in (1..N) \ DOMAIN g
  PROVE  /\ EndsAt(g, x, x)
         /\ \A p : EndsAt(g, x, p) => p = x
<1>1. EndsAt(g, x, x)
  BY DEF EndsAt
<1>2. ASSUME NEW p, EndsAt(g, x, p), p # x PROVE FALSE
  <2> DEFINE S == (1..N) \ {x}
  <2>1. p \in S /\ \A y \in DOMAIN g : g[y] \in S => y \in S
    BY <1>2 DEF EndsAt, OnBlocks
  <2>2. x \in S
    <3>1. S \in SUBSET (1..N)
      OBVIOUS
    <3> HIDE DEF S
    <3> QED
      BY <1>2, <2>1, <3>1 DEF EndsAt
  <2> QED
    BY <2>2
<1> QED
  BY <1>1, <1>2

(* From a block that forwards it ends where it ends from the next.            *)
LEMMA EndsWithTheNext ==
  ASSUME NEW g, OnBlocks(g), NEW x \in DOMAIN g, NEW p
  PROVE  EndsAt(g, x, p) <=> EndsAt(g, g[x], p)
<1>1. ASSUME EndsAt(g, g[x], p) PROVE EndsAt(g, x, p)
  BY <1>1 DEF EndsAt, OnBlocks
<1>2. ASSUME EndsAt(g, x, p) PROVE EndsAt(g, g[x], p)
  <2> DEFINE S == {z \in 1..N : z = p \/ (z \in DOMAIN g /\ EndsAt(g, g[z], p))}
  <2>1. p \in S
    BY <1>2 DEF EndsAt
  <2>2. ASSUME NEW y \in DOMAIN g, g[y] \in S PROVE y \in S
    <3>1. EndsAt(g, g[y], p)
      <4>1. CASE g[y] = p
        <5>1. p \in (1..N) \ DOMAIN g
          BY <1>2 DEF EndsAt
        <5> QED
          BY <4>1, <5>1, RestsWhereItIs
      <4>2. CASE g[y] \in DOMAIN g /\ EndsAt(g, g[g[y]], p)
        BY <4>2 DEF EndsAt, OnBlocks
      <4> QED
        BY <2>2, <4>1, <4>2
    <3> QED
      BY <3>1 DEF OnBlocks
  <2>3. x \in S
    <3>1. S \in SUBSET (1..N)
      OBVIOUS
    <3> HIDE DEF S
    <3> QED
      BY <1>2, <2>1, <2>2, <3>1 DEF EndsAt
  <2>4. x # p
    BY <1>2 DEF EndsAt
  <2> QED
    BY <2>3, <2>4
<1> QED
  BY <1>1, <1>2

(* It ends in one place only.                                                 *)
LEMMA OneEnd ==
  ASSUME NEW g, OnBlocks(g), NEW x, NEW p, NEW q, EndsAt(g, x, p), EndsAt(g, x, q)
  PROVE  p = q
<1> DEFINE S == {y \in 1..N : EndsAt(g, y, q) => p = q}
<1>1. p \in (1..N) \ DOMAIN g
  BY DEF EndsAt
<1>2. p \in S
  BY <1>1, RestsWhereItIs
<1>3. ASSUME NEW y \in DOMAIN g, g[y] \in S PROVE y \in S
  BY <1>3, EndsWithTheNext DEF OnBlocks
<1>4. x \in S
  <2>1. S \in SUBSET (1..N)
    OBVIOUS
  <2> HIDE DEF S
  <2> QED
    BY <1>2, <1>3, <2>1 DEF EndsAt
<1> QED
  BY <1>4

(* Nothing that spins ends anywhere.                                          *)
LEMMA NoEndInACircle ==
  ASSUME NEW g, OnBlocks(g), NEW x, NEW p, Spins(g, x)
  PROVE  ~ EndsAt(g, x, p)
<1> SUFFICES ASSUME EndsAt(g, x, p) PROVE FALSE
  OBVIOUS
<1>1. PICK C : x \in C /\ Circles(g, C)
  BY DEF Spins
<1> DEFINE S == (1..N) \ C
<1>2. p \in S
  BY <1>1 DEF EndsAt, Circles
<1>3. ASSUME NEW y \in DOMAIN g, g[y] \in S PROVE y \in S
  BY <1>1, <1>3 DEF Circles, OnBlocks
<1>4. x \in S
  <2>1. S \in SUBSET (1..N)
    OBVIOUS
  <2> HIDE DEF S
  <2> QED
    BY <1>2, <1>3, <2>1 DEF EndsAt
<1> QED
  BY <1>1, <1>4

-----------------------------------------------------------------------------
(* Following it by counting                                                   *)

\* The blocks the way from x passes, up to m steps.
Follows(h, m, g, x) ==
    h = [n \in 0..m |-> IF n = 0 THEN x ELSE IF h[n - 1] \in DOMAIN g THEN g[h[n - 1]] ELSE h[n - 1]]

(* There is one for every length.                                             *)
LEMMA FollowingExists ==
  ASSUME NEW g, NEW x, NEW m \in Nat
  PROVE  \E h : Follows(h, m, g, x)
<1> DEFINE S == {k \in 0..m : \E h : Follows(h, k, g, x)}
<1>1. 0 \in S
  <2>1. Follows([n \in 0..0 |-> x], 0, g, x)
    BY DEF Follows
  <2> QED
    BY <2>1
<1>2. ASSUME NEW k \in S, k < m PROVE k + 1 \in S
  <2>1. PICK h : Follows(h, k, g, x)
    OBVIOUS
  <2> DEFINE next(b) == IF b \in DOMAIN g THEN g[b] ELSE b
             h2 == [n \in 0..(k + 1) |-> IF n = k + 1 THEN next(h[k]) ELSE h[n]]
  <2>2. \A n \in 0..k : h[n] = IF n = 0 THEN x ELSE IF h[n - 1] \in DOMAIN g THEN g[h[n - 1]] ELSE h[n - 1]
    BY <2>1 DEF Follows
  <2>3. Follows(h2, k + 1, g, x)
    <3> HIDE DEF next
    <3>1. \A n \in 0..(k + 1) : h2[n] = IF n = 0 THEN x ELSE next(h2[n - 1])
      BY <2>2 DEF next
    <3>2. h2 = [n \in 0..(k + 1) |-> IF n = 0 THEN x ELSE next(h2[n - 1])]
      BY <3>1
    <3> HIDE DEF h2
    <3> QED
      BY <3>2 DEF Follows, next
  <2> QED
    BY <1>2, <2>3
<1>3. m \in S
  <2>1. S \in SUBSET (0..m)
    OBVIOUS
  <2> HIDE DEF S
  <2> QED
    BY <1>1, <1>2, <2>1, Climb
<1> QED
  BY <1>3

(* It begins at x.                                                            *)
LEMMA FollowingStarts ==
  ASSUME NEW g, NEW x, NEW m \in Nat, NEW h, Follows(h, m, g, x)
  PROVE  h[0] = x
BY DEF Follows

(* Each entry but the first is had from the one before.                       *)
LEMMA FollowingSteps ==
  ASSUME NEW g, NEW x, NEW m \in Nat, NEW h, Follows(h, m, g, x)
  PROVE  \A n \in 0..(m - 1) : h[n + 1] = IF h[n] \in DOMAIN g THEN g[h[n]] ELSE h[n]
<1>1. \A n \in 0..m : h[n] = IF n = 0 THEN x ELSE IF h[n - 1] \in DOMAIN g THEN g[h[n - 1]] ELSE h[n - 1]
  BY DEF Follows
<1>2. ASSUME NEW n \in 0..(m - 1)
      PROVE  h[n + 1] = IF h[n] \in DOMAIN g THEN g[h[n]] ELSE h[n]
  <2>1. n + 1 \in 0..m /\ n + 1 # 0 /\ (n + 1) - 1 = n
    OBVIOUS
  <2> QED
    BY <1>1, <2>1
<1> QED
  BY <1>2

(* It stays in a set it begins in and that the steps do not leave.            *)
LEMMA FollowingStays ==
  ASSUME NEW g, NEW x, NEW m \in Nat, NEW h, Follows(h, m, g, x),
         NEW D, x \in D, \A y \in D : y \in DOMAIN g => g[y] \in D
  PROVE  h \in [0..m -> D]
<1> DEFINE S == {k \in 0..m : \A n \in 0..k : h[n] \in D}
<1>1. 0 \in S
  BY FollowingStarts
<1>2. ASSUME NEW k \in S, k < m PROVE k + 1 \in S
  <2>1. k \in 0..(m - 1) /\ h[k] \in D
    BY <1>2
  <2>2. h[k + 1] = IF h[k] \in DOMAIN g THEN g[h[k]] ELSE h[k]
    BY <2>1, FollowingSteps
  <2>3. h[k + 1] \in D
    BY <2>1, <2>2
  <2> QED
    BY <1>2, <2>3
<1>3. m \in S
  <2>1. S \in SUBSET (0..m)
    OBVIOUS
  <2> HIDE DEF S
  <2> QED
    BY <1>1, <1>2, <2>1, Climb
<1>4. DOMAIN h = 0..m
  BY DEF Follows
<1>5. h = [n \in 0..m |-> h[n]]
  BY DEF Follows
<1> QED
  BY <1>3, <1>4, <1>5

(* If the last entry does not forward, the way ends there.                    *)
LEMMA FollowedToTheEnd ==
  ASSUME NEW g, OnBlocks(g), NEW x \in 1..N, NEW m \in Nat, NEW h, Follows(h, m, g, x),
         h[m] \notin DOMAIN g
  PROVE  EndsAt(g, x, h[m])
<1>1. h \in [0..m -> 1..N]
  BY FollowingStays DEF OnBlocks
<1> DEFINE S == {k \in 0..m : EndsAt(g, h[m - k], h[m])}
<1>2. 0 \in S
  <2>1. h[m] \in (1..N) \ DOMAIN g
    BY <1>1
  <2> QED
    BY <2>1, RestsWhereItIs
<1>3. ASSUME NEW k \in S, k < m PROVE k + 1 \in S
  <2> DEFINE n == m - (k + 1)
  <2>1. n \in 0..(m - 1) /\ n + 1 = m - k /\ n \in 0..m
    BY <1>3
  <2>2. h[n + 1] = IF h[n] \in DOMAIN g THEN g[h[n]] ELSE h[n]
    BY <2>1, FollowingSteps
  <2>3. EndsAt(g, h[n + 1], h[m])
    BY <2>1
  <2>4. EndsAt(g, h[n], h[m])
    <3> HIDE DEF n
    <3> QED
      BY <2>2, <2>3, EndsWithTheNext
  <2> QED
    BY <1>3, <2>4
<1>4. m \in S
  <2>1. S \in SUBSET (0..m)
    OBVIOUS
  <2> HIDE DEF S
  <2> QED
    BY <1>2, <1>3, <2>1, Climb
<1>5. EndsAt(g, h[0], h[m])
  <2>1. m - m = 0
    OBVIOUS
  <2> QED
    BY <1>4, <2>1
<1>6. h[0] = x
  BY FollowingStarts
<1> QED
  BY <1>5, <1>6

(* Once it has come to rest it stays.                                         *)
LEMMA FollowingRests ==
  ASSUME NEW g, NEW x, NEW m \in Nat, NEW h, Follows(h, m, g, x),
         NEW n \in 0..m, h[n] \notin DOMAIN g
  PROVE  h[m] = h[n]
<1> DEFINE S == {k \in 0..(m - n) : h[n + k] = h[n]}
<1>1. 0 \in S
  OBVIOUS
<1>2. ASSUME NEW k \in S, k < m - n PROVE k + 1 \in S
  <2>1. PICK j \in 0..(m - 1) : j = n + k
    BY <1>2
  <2>2. h[j + 1] = IF h[j] \in DOMAIN g THEN g[h[j]] ELSE h[j]
    BY FollowingSteps
  <2>3. h[j] = h[n]
    BY <2>1
  <2>4. h[j + 1] = h[n]
    BY <2>2, <2>3
  <2>5. j + 1 = n + (k + 1) /\ k + 1 \in 0..(m - n)
    BY <1>2, <2>1
  <2> QED
    BY <2>4, <2>5
<1>3. m - n \in S
  <2>1. S \in SUBSET (0..(m - n)) /\ m - n \in Nat
    OBVIOUS
  <2> HIDE DEF S
  <2> QED
    BY <1>1, <1>2, <2>1, Climb
<1> QED
  BY <1>3

(* If the last entry still forwards after as many steps as there are blocks   *)
(* that do, one was passed twice, and the way from x goes round.              *)
LEMMA FollowedInACircle ==
  ASSUME NEW g, OnBlocks(g), NEW x \in 1..N, NEW m \in Nat, NEW h, Follows(h, m, g, x),
         h[m] \in DOMAIN g, Cardinality(DOMAIN g) <= m
  PROVE  Spins(g, x)
<1>1. \A n \in 0..m : h[n] \in DOMAIN g
  BY FollowingRests
<1>2. h \in [0..m -> DOMAIN g]
  <2>1. h = [n \in 0..m |-> h[n]]
    BY DEF Follows
  <2> QED
    BY <1>1, <2>1
<1>3. \E i, j \in 0..m : i # j /\ h[i] = h[j]
  <2>1. IsFiniteSet(0..m) /\ Cardinality(0..m) = m + 1
    BY FS_Interval
  <2>2. IsFiniteSet(DOMAIN g)
    <3>1. IsFiniteSet(1..N)
      BY PassAssumption, FS_Interval
    <3> QED
      BY <3>1, FS_Subset DEF OnBlocks
  <2>3. Cardinality(DOMAIN g) \in Nat
    BY <2>2, FS_CardinalityType
  <2>4. Cardinality(DOMAIN g) < Cardinality(0..m)
    BY <2>1, <2>3
  <2> QED
    BY <1>2, <2>1, <2>2, <2>4, FS_PigeonHole
<1>4. \E i, j \in 0..m : i < j /\ h[i] = h[j]
  BY <1>3
<1>5. PICK a \in 0..m, b \in 0..m : a < b /\ h[a] = h[b]
  BY <1>4
<1> DEFINE C == {h[n] : n \in 0..(b - 1)}
<1>6. C \subseteq DOMAIN g
  BY <1>1, <1>5
<1>7. ASSUME NEW n \in 0..(b - 1) PROVE g[h[n]] \in C
  <2>1. n \in 0..(m - 1) /\ n \in 0..m
    BY <1>5
  <2>2. h[n + 1] = g[h[n]]
    BY <1>1, <2>1, FollowingSteps
  <2>3. CASE n + 1 = b
    BY <1>5, <2>2, <2>3
  <2>4. CASE n + 1 # b
    <3>1. n + 1 \in 0..(b - 1)
      BY <1>5, <2>4
    <3> QED
      BY <2>2, <3>1
  <2> QED
    BY <2>3, <2>4
<1>8. x \in C
  <2>1. 0 \in 0..(b - 1)
    BY <1>5
  <2>2. h[0] = x
    BY FollowingStarts
  <2> QED
    BY <2>1, <2>2
<1>9. Circles(g, C)
  BY <1>6, <1>7 DEF Circles
<1> QED
  BY <1>8, <1>9 DEF Spins

(* So after that many steps the table has the end, or is still in the circle. *)
LEMMA FollowedFarEnough ==
  ASSUME NEW g, OnBlocks(g), NEW x \in 1..N, NEW m \in Nat, NEW h, Follows(h, m, g, x),
         Cardinality(DOMAIN g) <= m
  PROVE  /\ \A p : EndsAt(g, x, p) => h[m] = p /\ p \notin DOMAIN g
         /\ Spins(g, x) => h[m] \in DOMAIN g
         /\ \A C : x \in C /\ Circles(g, C) => h[m] \in C
         /\ Spins(g, x) \/ \E p \in (1..N) \ DOMAIN g : EndsAt(g, x, p)
<1>1. h \in [0..m -> 1..N]
  BY FollowingStays DEF OnBlocks
<1>2. ASSUME h[m] \in DOMAIN g PROVE Spins(g, x)
  BY <1>2, FollowedInACircle
<1>3. ASSUME h[m] \notin DOMAIN g PROVE EndsAt(g, x, h[m])
  BY <1>3, FollowedToTheEnd
<1>4. ASSUME NEW p, EndsAt(g, x, p) PROVE h[m] = p /\ p \notin DOMAIN g
  <2>1. ~ Spins(g, x)
    BY <1>4, NoEndInACircle
  <2>2. EndsAt(g, x, h[m])
    BY <2>1, <1>2, <1>3
  <2>3. h[m] = p
    BY <2>2, <1>4, OneEnd
  <2> QED
    BY <2>1, <2>3, <1>2
<1>5. ASSUME Spins(g, x) PROVE h[m] \in DOMAIN g
  BY <1>3, <1>5, NoEndInACircle
<1>6. ASSUME NEW C, x \in C, Circles(g, C) PROVE h[m] \in C
  <2>1. \A y \in C : y \in DOMAIN g => g[y] \in C
    BY <1>6 DEF Circles
  <2>2. h \in [0..m -> C]
    BY <1>6, <2>1, FollowingStays
  <2> QED
    BY <2>2
<1>7. Spins(g, x) \/ \E p \in (1..N) \ DOMAIN g : EndsAt(g, x, p)
  <2>1. m \in 0..m
    OBVIOUS
  <2> QED
    BY <1>1, <1>2, <1>3, <2>1
<1> QED
  BY <1>4, <1>5, <1>6, <1>7

-----------------------------------------------------------------------------
(* The lists of blocks                                                        *)

(* The elements of a sequence over S are in S.                                *)
LEMMA Elements ==
  ASSUME NEW S, NEW s \in Seq(S)
  PROVE  \A n \in DOMAIN s : s[n] \in S
OBVIOUS

(* Every edge of a full list leads to a block of it.                          *)
LEMMA FullEdges ==
  ASSUME NEW bs, Full(bs), NEW i \in 1..N
  PROVE  /\ bs[i] \in BlockType /\ bs[i].id = i
         /\ bs[i].term.to \in Seq(1..N)
         /\ \A n \in DOMAIN bs[i].term.to : bs[i].term.to[n] \in 1..N
         /\ Forwards(bs[i]) => 1 \in DOMAIN bs[i].term.to
<1>1. bs[i] \in BlockType
  BY DEF Full
<1>2. bs[i].term \in [kind : STRING, to : Seq(1..N)]
  BY <1>1 DEF BlockType
<1>3. bs[i].term.to \in Seq(1..N)
  BY <1>2
<1>4. ASSUME Forwards(bs[i]) PROVE 1 \in DOMAIN bs[i].term.to
  <2>1. bs[i].term.to # <<>>
    BY <1>4 DEF Full, Forwards
  <2> QED
    BY <1>3, <2>1
<1>5. \A n \in DOMAIN bs[i].term.to : bs[i].term.to[n] \in 1..N
  BY <1>3, Elements
<1> QED
  BY <1>1, <1>3, <1>4, <1>5 DEF Full

(* What is on a full list is found there by its identity.                     *)
LEMMA FullLists ==
  ASSUME NEW bs, Full(bs)
  PROVE  /\ DOMAIN bs = 1..N /\ Len(bs) = N
         /\ Ids(bs) = 1..N
         /\ ToSet(bs) = {bs[i] : i \in 1..N}
         /\ \A i \in 1..N : Labels(bs, i) = {bs[i]} /\ Here(bs, i) = bs[i]
<1>1. DOMAIN bs = 1..N
  BY DEF Full
<1>2. bs \in Seq(BlockType)
  BY PassAssumption DEF Full
<1>3. Len(bs) = N
  BY <1>1, <1>2, PassAssumption
<1>4. Ids(bs) = 1..N
  <2>1. \A i \in 1..N : bs[i].id = i
    BY FullEdges
  <2> QED
    BY <1>1, <2>1 DEF Ids
<1>5. ToSet(bs) = {bs[i] : i \in 1..N}
  BY <1>1 DEF ToSet
<1>6. ASSUME NEW i \in 1..N PROVE Labels(bs, i) = {bs[i]} /\ Here(bs, i) = bs[i]
  <2>1. Labels(bs, i) = {bs[i]}
    BY <1>5, FullEdges DEF Labels
  <2> QED
    BY <2>1 DEF Here
<1> QED
  BY <1>1, <1>3, <1>4, <1>5, <1>6

(* The graph of the blocks that forward.                                      *)
LEMMA OnwardOnBlocks ==
  ASSUME NEW bs, Full(bs)
  PROVE  /\ OnBlocks(Onward(bs))
         /\ DOMAIN Onward(bs) = Forwarding(bs)
         /\ \A i \in Forwarding(bs) : Onward(bs)[i] = bs[i].term.to[1]
         /\ ForwardersOf(bs) = {bs[i] : i \in Forwarding(bs)}
         /\ Cardinality(Forwarding(bs)) <= N
         /\ Cardinality(Forwarding(bs)) <= ChainBound(bs)
         /\ ChainBound(bs) \in Nat
<1>1. OnBlocks(Onward(bs))
  BY FullEdges DEF OnBlocks, Onward, Forwarding
<1>2. IsFiniteSet(1..N) /\ Cardinality(1..N) = N
  BY PassAssumption, FS_Interval
<1>3. IsFiniteSet(Forwarding(bs)) /\ Cardinality(Forwarding(bs)) <= N
  BY <1>2, FS_Subset DEF Forwarding
<1>4. ForwardersOf(bs) = {bs[i] : i \in Forwarding(bs)}
  BY FullLists DEF ForwardersOf, Forwarding
<1> DEFINE f == [i \in Forwarding(bs) |-> bs[i]]
<1>5. f \in Injection(Forwarding(bs), ForwardersOf(bs)) /\ f \in Surjection(Forwarding(bs), ForwardersOf(bs))
  <2>1. \A i \in Forwarding(bs) : bs[i].id = i
    BY FullEdges DEF Forwarding
  <2> QED
    BY <1>4, <2>1 DEF Injection, IsInjective, Surjection
<1>6. IsFiniteSet(ForwardersOf(bs))
  BY <1>3, <1>5, FS_Surjection
<1>7. Cardinality(Forwarding(bs)) <= Cardinality(ForwardersOf(bs))
  BY <1>5, <1>6, FS_Injection
<1>8. Cardinality(ForwardersOf(bs)) \in Nat
  BY <1>6, FS_CardinalityType
<1> QED
  BY <1>1, <1>3, <1>4, <1>7, <1>8 DEF Onward, ChainBound

-----------------------------------------------------------------------------
(* Where the tables of the model end                                          *)

Passes(bs, i) == Labels(bs, i) # {} /\ Forwards(Here(bs, i))

\* On the blocks of S, closed under it, the list forwards as the graph does.
Agrees(bs, g, S) ==
    /\ S \subseteq 1..N
    /\ \A i \in S : /\ Passes(bs, i) <=> i \in DOMAIN g
                    /\ i \in DOMAIN g => Here(bs, i).term.to[1] = g[i] /\ g[i] \in S

(* A walk lands where the way along the blocks that forward ends.             *)
LEMMA LandsAtTheEnd ==
  ASSUME NEW bs, NEW g, OnBlocks(g), Cardinality(DOMAIN g) <= N,
         NEW S, Agrees(bs, g, S), NEW x \in S
  PROVE  /\ \A p : EndsAt(g, x, p) => Lands(bs, x) = p
         /\ Spins(g, x) => Lands(bs, x) = Spinning
<1> DEFINE Go(h) == h = [n \in 0..N |-> IF n = 0 THEN x
                           ELSE IF Passes(bs, h[n - 1]) THEN Here(bs, h[n - 1]).term.to[1] ELSE h[n - 1]]
<1>0. N \in Nat /\ x \in 1..N
  BY PassAssumption DEF Agrees
<1>1. ASSUME NEW h, Follows(h, N, g, x) PROVE Go(h)
  <2>1. \A n \in 0..N : h[n] = IF n = 0 THEN x ELSE IF h[n - 1] \in DOMAIN g THEN g[h[n - 1]] ELSE h[n - 1]
    BY <1>1 DEF Follows
  <2>2. h \in [0..N -> S]
    BY <1>0, <1>1, FollowingStays DEF Agrees
  <2>3. \A n \in 0..N : n # 0 => n - 1 \in 0..N
    BY <1>0
  <2>4. \A n \in 0..N : h[n] = IF n = 0 THEN x
                           ELSE IF Passes(bs, h[n - 1]) THEN Here(bs, h[n - 1]).term.to[1] ELSE h[n - 1]
    BY <2>1, <2>2, <2>3 DEF Agrees
  <2> QED
    BY <2>2, <2>4
<1>2. ASSUME NEW h, Go(h) PROVE Follows(h, N, g, x)
  <2>1. \A n \in 0..N : h[n] = IF n = 0 THEN x
                           ELSE IF Passes(bs, h[n - 1]) THEN Here(bs, h[n - 1]).term.to[1] ELSE h[n - 1]
    BY <1>2
  <2> DEFINE K == {k \in 0..N : \A n \in 0..k : h[n] \in S}
  <2>2. 0 \in K
    BY <1>0, <2>1
  <2>3. ASSUME NEW k \in K, k < N PROVE k + 1 \in K
    <3>1. k + 1 \in 0..N /\ k + 1 # 0 /\ (k + 1) - 1 = k /\ h[k] \in S
      BY <1>0, <2>3
    <3>2. h[k + 1] = IF Passes(bs, h[k]) THEN Here(bs, h[k]).term.to[1] ELSE h[k]
      BY <2>1, <3>1
    <3>3. h[k + 1] \in S
      BY <3>1, <3>2 DEF Agrees
    <3> QED
      BY <2>3, <3>1, <3>3
  <2>4. N \in K
    <3>1. K \in SUBSET (0..N)
      OBVIOUS
    <3> HIDE DEF K
    <3> QED
      BY <1>0, <2>2, <2>3, <3>1, Climb
  <2>5. \A n \in 0..N : n # 0 => n - 1 \in 0..N /\ h[n - 1] \in S
    BY <1>0, <2>4
  <2>6. \A n \in 0..N : h[n] = IF n = 0 THEN x ELSE IF h[n - 1] \in DOMAIN g THEN g[h[n - 1]] ELSE h[n - 1]
    BY <2>1, <2>5 DEF Agrees
  <2>7. h = [n \in 0..N |-> h[n]]
    BY <1>2
  <2> QED
    BY <2>6, <2>7 DEF Follows
<1> DEFINE go == CHOOSE h : Go(h)
<1>3. Follows(go, N, g, x)
  <2>1. \E h : Go(h)
    BY <1>0, <1>1, FollowingExists
  <2>2. Go(go)
    <3> HIDE DEF Go
    <3> QED
      BY <2>1
  <2> QED
    BY <2>2, <1>2
<1>4. Lands(bs, x) = IF Passes(bs, go[N]) THEN Spinning ELSE go[N]
  BY DEF Lands, Passes
<1> HIDE DEF go
<1>5. go[N] \in S
  <2>1. go \in [0..N -> S]
    BY <1>0, <1>3, FollowingStays DEF Agrees
  <2> QED
    BY <1>0, <2>1
<1>6. Lands(bs, x) = IF go[N] \in DOMAIN g THEN Spinning ELSE go[N]
  BY <1>4, <1>5 DEF Agrees
<1>7. /\ \A p : EndsAt(g, x, p) => go[N] = p /\ p \notin DOMAIN g
      /\ Spins(g, x) => go[N] \in DOMAIN g
  BY <1>0, <1>3, FollowedFarEnough
<1> QED
  BY <1>6, <1>7

(* An edge is led to where the way ends; in a circle it stays in the circle.  *)
LEMMA ResolvedAtTheEnd ==
  ASSUME NEW bs, Full(bs), NEW x \in 1..N
  PROVE  /\ Resolved(bs)[x] \in 1..N
         /\ \A p : EndsAt(Onward(bs), x, p) => Resolved(bs)[x] = p
         /\ \A C : x \in C /\ Circles(Onward(bs), C) => Resolved(bs)[x] \in C
<1> DEFINE g == Onward(bs)
           m == ChainBound(bs)
           F(b) == {f \in ForwardersOf(bs) : f.id = b}
           Next(b) == IF F(b) = {} THEN b ELSE (CHOOSE f \in F(b) : TRUE).term.to[1]
           After(h) == h = [n \in 0..m |-> IF n = 0 THEN x ELSE LET id == h[n - 1] IN Next(id)]
<1>0. OnBlocks(g) /\ m \in Nat /\ Cardinality(DOMAIN g) <= m
  BY OnwardOnBlocks
<1>1. ASSUME NEW b \in 1..N PROVE Next(b) = IF b \in DOMAIN g THEN g[b] ELSE b
  <2>1. F(b) = IF b \in Forwarding(bs) THEN {bs[b]} ELSE {}
    <3>1. ForwardersOf(bs) = {bs[i] : i \in Forwarding(bs)}
      BY OnwardOnBlocks
    <3>2. \A i \in Forwarding(bs) : bs[i].id = i
      BY FullEdges DEF Forwarding
    <3> QED
      BY <3>1, <3>2
  <2>2. DOMAIN g = Forwarding(bs) /\ (b \in Forwarding(bs) => g[b] = bs[b].term.to[1])
    BY OnwardOnBlocks
  <2> HIDE DEF g, F
  <2> QED
    BY <2>1, <2>2
<1> HIDE DEF g, Next, m
<1>2. ASSUME NEW h, Follows(h, m, g, x) PROVE After(h)
  <2>1. \A n \in 0..m : h[n] = IF n = 0 THEN x ELSE IF h[n - 1] \in DOMAIN g THEN g[h[n - 1]] ELSE h[n - 1]
    BY <1>2 DEF Follows
  <2>2. h \in [0..m -> 1..N]
    BY <1>0, <1>2, FollowingStays DEF OnBlocks
  <2>3. \A n \in 0..m : n # 0 => n - 1 \in 0..m
    BY <1>0
  <2>4. \A n \in 0..m : h[n] = IF n = 0 THEN x ELSE Next(h[n - 1])
    BY <1>1, <2>1, <2>2, <2>3
  <2> QED
    BY <2>2, <2>4
<1>3. ASSUME NEW h, After(h) PROVE Follows(h, m, g, x)
  <2>1. \A n \in 0..m : h[n] = IF n = 0 THEN x ELSE Next(h[n - 1])
    BY <1>3
  <2> DEFINE K == {k \in 0..m : \A n \in 0..k : h[n] \in 1..N}
  <2>2. 0 \in K
    BY <1>0, <2>1
  <2>3. ASSUME NEW k \in K, k < m PROVE k + 1 \in K
    <3>1. k + 1 \in 0..m /\ k + 1 # 0 /\ (k + 1) - 1 = k /\ h[k] \in 1..N
      BY <1>0, <2>3
    <3>2. h[k + 1] = Next(h[k])
      BY <2>1, <3>1
    <3>3. h[k + 1] \in 1..N
      BY <1>0, <1>1, <3>1, <3>2 DEF OnBlocks
    <3> QED
      BY <1>0, <2>3, <3>1, <3>3
  <2>4. m \in K
    <3>1. K \in SUBSET (0..m)
      OBVIOUS
    <3> HIDE DEF K
    <3> QED
      BY <1>0, <2>2, <2>3, <3>1, Climb
  <2>5. \A n \in 0..m : n # 0 => n - 1 \in 0..m /\ h[n - 1] \in 1..N
    BY <1>0, <2>4
  <2>6. \A n \in 0..m : h[n] = IF n = 0 THEN x ELSE IF h[n - 1] \in DOMAIN g THEN g[h[n - 1]] ELSE h[n - 1]
    BY <1>1, <2>1, <2>5
  <2>7. h = [n \in 0..m |-> h[n]]
    BY <1>3
  <2> QED
    BY <2>6, <2>7 DEF Follows
<1> DEFINE ends == CHOOSE h : After(h)
<1>4. Follows(ends, m, g, x)
  <2>1. \E h : After(h)
    BY <1>0, <1>2, FollowingExists
  <2>2. After(ends)
    <3> HIDE DEF After
    <3> QED
      BY <2>1
  <2> QED
    BY <2>2, <1>3
<1>5. Resolved(bs)[x] = ends[m]
  BY FullLists DEF Resolved, Next, m
<1> HIDE DEF ends
<1>6. ends \in [0..m -> 1..N]
  BY <1>0, <1>4, FollowingStays DEF OnBlocks
<1>7. /\ \A p : EndsAt(g, x, p) => ends[m] = p /\ p \notin DOMAIN g
      /\ \A C : x \in C /\ Circles(g, C) => ends[m] \in C
  BY <1>0, <1>4, FollowedFarEnough
<1> QED
  BY <1>0, <1>5, <1>6, <1>7 DEF g

(* Each way ends somewhere or goes round.                                     *)
LEMMA EndsOrSpins ==
  ASSUME NEW g, OnBlocks(g), Cardinality(DOMAIN g) <= N, NEW x \in 1..N
  PROVE  Spins(g, x) \/ \E p \in (1..N) \ DOMAIN g : EndsAt(g, x, p)
<1>1. N \in Nat
  BY PassAssumption
<1>2. PICK h : Follows(h, N, g, x)
  BY <1>1, FollowingExists
<1> QED
  BY <1>1, <1>2, FollowedFarEnough

-----------------------------------------------------------------------------
(* What the passes do to the graph                                            *)

\* The blocks of rs are those of bs, with their edges led elsewhere by w.
Redirected(rs, bs, w) ==
    \A i \in 1..N :
        /\ rs[i].content = bs[i].content
        /\ rs[i].term.kind = bs[i].term.kind
        /\ Len(rs[i].term.to) = Len(bs[i].term.to)
        /\ DOMAIN rs[i].term.to = DOMAIN bs[i].term.to
        /\ \A n \in DOMAIN bs[i].term.to : rs[i].term.to[n] = w[bs[i].term.to[n]]

(* Leading edges elsewhere changes nothing else about the blocks.             *)
LEMMA Retargeting ==
  ASSUME NEW bs, Full(bs), NEW w \in [1..N -> 1..N]
  PROVE  Full(RetargetAll(bs, w)) /\ Redirected(RetargetAll(bs, w), bs, w)
<1> DEFINE rs == RetargetAll(bs, w)
<1>1. DOMAIN bs = 1..N
  BY FullLists
<1>2. DOMAIN rs = 1..N /\ \A i \in 1..N : rs[i] = Retarget(bs[i], w)
  BY <1>1 DEF RetargetAll
<1>3. ASSUME NEW i \in 1..N
      PROVE  /\ rs[i] \in BlockType /\ rs[i].id = i
             /\ rs[i].content = bs[i].content
             /\ rs[i].term.kind = bs[i].term.kind
             /\ Len(rs[i].term.to) = Len(bs[i].term.to)
             /\ DOMAIN rs[i].term.to = DOMAIN bs[i].term.to
             /\ \A n \in DOMAIN bs[i].term.to : rs[i].term.to[n] = w[bs[i].term.to[n]]
             /\ bs[i].term.to # <<>> => rs[i].term.to # <<>>
  <2> DEFINE to == bs[i].term.to
             led == [n \in DOMAIN to |-> w[to[n]]]
  <2>1. bs[i] \in BlockType /\ bs[i].id = i /\ to \in Seq(1..N) /\ \A n \in DOMAIN to : to[n] \in 1..N
    BY FullEdges
  <2>2. led \in Seq(1..N) /\ Len(led) = Len(to) /\ DOMAIN led = DOMAIN to
    <3> HIDE DEF to
    <3>1. Len(to) \in Nat /\ DOMAIN to = 1..Len(to)
      BY <2>1
    <3>2. led \in [1..Len(to) -> 1..N]
      BY <2>1, <3>1
    <3>3. led \in Seq(1..N)
      BY <3>1, <3>2
    <3> QED
      BY <3>1, <3>2, <3>3
  <2>3. rs[i] = [bs[i] EXCEPT !.term.to = led]
    BY <1>2 DEF Retarget
  <2> HIDE DEF led, rs
  <2>4. bs[i] \in [id : 1..N, content : Contents, term : [kind : STRING, to : Seq(1..N)]]
    BY <2>1 DEF BlockType
  <2>5. /\ rs[i].id = bs[i].id /\ rs[i].content = bs[i].content
        /\ rs[i].term.kind = bs[i].term.kind /\ rs[i].term.to = led
        /\ rs[i] \in [id : 1..N, content : Contents, term : [kind : STRING, to : Seq(1..N)]]
    BY <2>2, <2>3, <2>4
  <2>6. \A n \in DOMAIN to : led[n] = w[to[n]]
    BY DEF led
  <2>7. to # <<>> => led # <<>>
    BY <2>1, <2>2
  <2> QED
    BY <2>1, <2>2, <2>5, <2>6, <2>7 DEF BlockType
<1>4. rs \in [1..N -> BlockType]
  <2>1. rs = [i \in 1..N |-> rs[i]]
    BY <1>1 DEF RetargetAll
  <2> HIDE DEF rs
  <2> QED
    BY <1>3, <2>1
<1>5. Full(rs)
  <2> HIDE DEF rs
  <2> QED
    BY <1>3, <1>4 DEF Full
<1>6. Redirected(rs, bs, w)
  <2> HIDE DEF rs
  <2> QED
    BY <1>3 DEF Redirected
<1> QED
  BY <1>5, <1>6

(* The same blocks forward, and to where their edges were led.                *)
LEMMA RetargetedGraph ==
  ASSUME NEW bs, Full(bs), NEW w \in [1..N -> 1..N]
  PROVE  /\ DOMAIN Onward(RetargetAll(bs, w)) = DOMAIN Onward(bs)
         /\ \A i \in DOMAIN Onward(bs) : Onward(RetargetAll(bs, w))[i] = w[Onward(bs)[i]]
<1> DEFINE rs == RetargetAll(bs, w)
<1>1. Full(rs)
  BY Retargeting
<1>2. Redirected(rs, bs, w)
  BY Retargeting
<1> HIDE DEF rs
<1>3. Forwarding(rs) = Forwarding(bs)
  BY <1>2 DEF Redirected, Forwarding, Forwards
<1>4. ASSUME NEW i \in Forwarding(bs) PROVE rs[i].term.to[1] = w[bs[i].term.to[1]]
  BY <1>2, FullEdges DEF Redirected, Forwarding
<1> QED
  BY <1>3, <1>4 DEF Onward, rs

(* A block stands for those with its text, and only where it returns.         *)
LEMMA CanonicalBlocks ==
  ASSUME NEW bs, Full(bs)
  PROVE  /\ Canonical(bs) \in [1..N -> 1..N]
         /\ Canonical(bs)[1] = 1
         /\ \A b \in 1..N :
               /\ bs[Canonical(bs)[b]].content = bs[b].content
               /\ bs[Canonical(bs)[b]].term = bs[b].term
               /\ bs[b].term.kind # "return" => Canonical(bs)[b] = b
<1>1. DOMAIN bs = 1..N /\ Ids(bs) = 1..N
  BY FullLists
<1> DEFINE Same(b) == {j \in Mergeable(bs) : SameText(bs[b], bs[j])}
<1>2. ASSUME NEW b \in 1..N
      PROVE  Canonical(bs)[b] = IF b \in Mergeable(bs) THEN bs[Min(Same(b))].id ELSE b
  <2> DEFINE At == CHOOSE j \in DOMAIN bs : bs[j].id = b
  <2>1. At = b
    <3>1. \A j \in 1..N : bs[j].id = j
      BY FullEdges
    <3> QED
      BY <1>1, <3>1
  <2>2. Canonical(bs)[b] = IF At \in Mergeable(bs)
                             THEN bs[Min({j \in Mergeable(bs) : SameText(bs[At], bs[j])})].id ELSE b
    BY <1>1 DEF Canonical
  <2> HIDE DEF At
  <2> QED
    BY <2>1, <2>2
<1>3. ASSUME NEW b \in Mergeable(bs)
      PROVE  Min(Same(b)) \in Same(b) /\ bs[Min(Same(b))].id = Min(Same(b)) /\ Min(Same(b)) \in 1..N
  <2>1. b \in Same(b) /\ Same(b) \subseteq 1..N
    BY <1>1 DEF SameText, Mergeable
  <2>2. Same(b) \in SUBSET Nat /\ Same(b) # {}
    BY <2>1
  <2> DEFINE T == Same(b)
  <2>3. \E n \in T : \A k \in T : n <= k
    <3> HIDE DEF T
    <3>1. T \in SUBSET Nat /\ T # {}
      BY <2>2 DEF T
    <3> QED
      BY <3>1, Least
  <2>4. Min(T) \in T
    <3> HIDE DEF T
    <3> QED
      BY <2>3 DEF Min
  <2> QED
    BY <2>1, <2>4, FullEdges
<1> HIDE DEF Same
<1>4. ASSUME NEW b \in 1..N
      PROVE  /\ Canonical(bs)[b] \in 1..N
             /\ bs[Canonical(bs)[b]].content = bs[b].content
             /\ bs[Canonical(bs)[b]].term = bs[b].term
  <2>1. CASE b \in Mergeable(bs)
    <3>1. Canonical(bs)[b] = Min(Same(b)) /\ Min(Same(b)) \in Same(b) /\ Min(Same(b)) \in 1..N
      BY <1>2, <1>3, <2>1
    <3> QED
      BY <3>1 DEF Same, SameText
  <2>2. CASE b \notin Mergeable(bs)
    BY <1>2, <2>2
  <2> QED
    BY <2>1, <2>2
<1>5. \A b \in 1..N : b = 1 \/ bs[b].term.kind # "return" => Canonical(bs)[b] = b
  BY <1>2 DEF Mergeable
<1>6. Canonical(bs) \in [1..N -> 1..N]
  <2>1. Canonical(bs) = [b \in 1..N |-> Canonical(bs)[b]]
    BY <1>1 DEF Canonical
  <2> QED
    BY <1>4, <2>1
<1>7. 1 \in 1..N
  BY PassAssumption
<1> QED
  BY <1>4, <1>5, <1>6, <1>7

Merged(bs) == RetargetAll(bs, Canonical(bs))
Threaded(bs) == RetargetAll(Merged(bs), Resolved(Merged(bs)))

(* Merging returns moves the ends of ways to the blocks that stand for them.  *)
LEMMA MergingKeepsEnds ==
  ASSUME NEW bs, Full(bs), NEW x \in 1..N
  PROVE  /\ \A p : EndsAt(Onward(bs), x, p) =>
                      EndsAt(Onward(Merged(bs)), Canonical(bs)[x], Canonical(bs)[p])
         /\ \A C : x \in C /\ Circles(Onward(bs), C) =>
                      Canonical(bs)[x] \in C /\ Circles(Onward(Merged(bs)), C)
<1> DEFINE g == Onward(bs)
           g1 == Onward(Merged(bs))
           c == Canonical(bs)
<1>1. c \in [1..N -> 1..N]
  BY CanonicalBlocks
<1>2. OnBlocks(g) /\ DOMAIN g = Forwarding(bs)
  BY OnwardOnBlocks
<1>3. OnBlocks(g1)
  BY <1>1, Retargeting, OnwardOnBlocks DEF Merged
<1>4. DOMAIN g1 = DOMAIN g /\ \A i \in DOMAIN g : g1[i] = c[g[i]]
  BY <1>1, RetargetedGraph DEF Merged
<1>5. ASSUME NEW i \in DOMAIN g PROVE c[i] = i
  BY <1>2, CanonicalBlocks DEF Forwarding, Forwards
<1>6. ASSUME NEW p \in (1..N) \ DOMAIN g PROVE c[p] \in (1..N) \ DOMAIN g
  <2>1. c[p] \in 1..N /\ bs[c[p]].content = bs[p].content /\ bs[c[p]].term = bs[p].term
    BY <1>1, CanonicalBlocks
  <2> HIDE DEF c
  <2> QED
    BY <1>2, <2>1 DEF Forwarding, Forwards
<1> HIDE DEF g, g1, c
<1>7. ASSUME NEW p, EndsAt(g, x, p) PROVE EndsAt(g1, c[x], c[p])
  <2> DEFINE S == {y \in 1..N : EndsAt(g1, c[y], c[p])}
  <2>1. p \in (1..N) \ DOMAIN g
    BY <1>7 DEF EndsAt
  <2>2. p \in S
    BY <1>3, <1>4, <1>6, <2>1, RestsWhereItIs
  <2>3. ASSUME NEW y \in DOMAIN g, g[y] \in S PROVE y \in S
    <3>1. EndsAt(g1, g1[y], c[p])
      BY <1>4, <2>3
    <3>2. EndsAt(g1, y, c[p])
      BY <1>3, <1>4, <3>1, EndsWithTheNext
    <3> QED
      BY <1>2, <1>5, <3>2 DEF OnBlocks
  <2>4. x \in S
    <3>1. S \in SUBSET (1..N)
      OBVIOUS
    <3> HIDE DEF S
    <3> QED
      BY <1>7, <2>2, <2>3, <3>1 DEF EndsAt
  <2> QED
    BY <2>4
<1>8. ASSUME NEW C, x \in C, Circles(g, C) PROVE c[x] \in C /\ Circles(g1, C)
  BY <1>4, <1>5, <1>8 DEF Circles
<1> QED
  BY <1>7, <1>8 DEF g, g1, c

(* Threading leads each edge to the end of its way, or around the same circle. *)
LEMMA ThreadingKeepsEnds ==
  ASSUME NEW bs, Full(bs), NEW x \in 1..N
  PROVE  /\ \A p : EndsAt(Onward(bs), x, p) =>
                      /\ Resolved(bs)[x] = p
                      /\ EndsAt(Onward(RetargetAll(bs, Resolved(bs))), x, p)
                      /\ EndsAt(Onward(RetargetAll(bs, Resolved(bs))), p, p)
         /\ \A C : x \in C /\ Circles(Onward(bs), C) =>
                      Resolved(bs)[x] \in C /\ Circles(Onward(RetargetAll(bs, Resolved(bs))), C)
<1> DEFINE g == Onward(bs)
           r == Resolved(bs)
           g2 == Onward(RetargetAll(bs, r))
<1>1. r \in [1..N -> 1..N]
  <2>1. r = [b \in 1..N |-> r[b]]
    BY FullLists DEF Resolved
  <2>2. \A b \in 1..N : r[b] \in 1..N
    BY ResolvedAtTheEnd
  <2> QED
    BY <2>1, <2>2
<1>2. OnBlocks(g)
  BY OnwardOnBlocks
<1>3. OnBlocks(g2)
  BY <1>1, Retargeting, OnwardOnBlocks
<1>4. DOMAIN g2 = DOMAIN g /\ \A i \in DOMAIN g : g2[i] = r[g[i]]
  BY <1>1, RetargetedGraph
<1>5. \A y \in 1..N : \A p : EndsAt(g, y, p) => r[y] = p
  BY ResolvedAtTheEnd
<1>6. \A y \in 1..N : \A C : y \in C /\ Circles(g, C) => r[y] \in C
  BY ResolvedAtTheEnd
<1> HIDE DEF g, g2, r
<1>7. ASSUME NEW p, EndsAt(g, x, p) PROVE r[x] = p /\ EndsAt(g2, x, p) /\ EndsAt(g2, p, p)
  <2>1. r[x] = p
    BY <1>5, <1>7
  <2>2. p \in (1..N) \ DOMAIN g2
    BY <1>4, <1>7 DEF EndsAt
  <2>3. EndsAt(g2, p, p)
    BY <1>3, <2>2, RestsWhereItIs
  <2>4. CASE x \in DOMAIN g
    <3>1. EndsAt(g, g[x], p) /\ g[x] \in 1..N
      BY <1>2, <1>7, <2>4, EndsWithTheNext DEF OnBlocks
    <3>2. g2[x] = p
      BY <1>4, <1>5, <2>4, <3>1
    <3>3. EndsAt(g2, x, p)
      BY <1>3, <1>4, <2>3, <2>4, <3>2, EndsWithTheNext
    <3> QED
      BY <2>1, <2>3, <3>3
  <2>5. CASE x \notin DOMAIN g
    BY <1>2, <1>7, <2>1, <2>3, <2>5, RestsWhereItIs
  <2> QED
    BY <2>4, <2>5
<1>8. ASSUME NEW C, x \in C, Circles(g, C) PROVE r[x] \in C /\ Circles(g2, C)
  <2>1. \A y \in C : y \in 1..N /\ g[y] \in 1..N /\ g[y] \in C /\ y \in DOMAIN g
    BY <1>2, <1>8 DEF Circles, OnBlocks
  <2>2. \A y \in C : r[g[y]] \in C
    BY <1>6, <1>8, <2>1
  <2> QED
    BY <1>4, <1>6, <1>8, <2>1, <2>2 DEF Circles
<1> QED
  BY <1>7, <1>8 DEF g, g2, r

-----------------------------------------------------------------------------
(* The two passes together                                                    *)

\* Where the passes lead an edge to x.
Led(bs) == [x \in 1..N |-> Resolved(Merged(bs))[Canonical(bs)[x]]]

(* Both lists are full, the blocks do what they did, and have as many ways    *)
(* out, each of which is led elsewhere.                                       *)
LEMMA PassedBlocks ==
  ASSUME NEW bs, Full(bs)
  PROVE  /\ Full(Merged(bs)) /\ Full(Threaded(bs))
         /\ Led(bs) \in [1..N -> 1..N]
         /\ Redirected(Threaded(bs), bs, Led(bs))
<1> DEFINE c == Canonical(bs)
           m == Merged(bs)
           r == Resolved(m)
           t == Threaded(bs)
<1>1. c \in [1..N -> 1..N]
  BY CanonicalBlocks
<1>2. Full(m)
  BY <1>1, Retargeting DEF Merged
<1>3. r \in [1..N -> 1..N]
  <2>1. r = [b \in 1..N |-> r[b]]
    BY <1>2, FullLists DEF Resolved
  <2>2. \A b \in 1..N : r[b] \in 1..N
    BY <1>2, ResolvedAtTheEnd
  <2> QED
    BY <2>1, <2>2
<1>4. Full(t)
  BY <1>2, <1>3, Retargeting DEF Threaded
<1>5. Redirected(m, bs, c)
  BY <1>1, Retargeting DEF Merged
<1>6. Redirected(t, m, r)
  BY <1>2, <1>3, Retargeting DEF Threaded
<1>7. \A x \in 1..N : Led(bs)[x] = r[c[x]]
  BY DEF Led
<1>8. Led(bs) \in [1..N -> 1..N]
  <2> HIDE DEF c, r
  <2>1. \A x \in 1..N : r[c[x]] \in 1..N
    BY <1>1, <1>3
  <2> QED
    BY <2>1 DEF Led, c, r
<1> HIDE DEF c, r, m, t
<1>9. ASSUME NEW i \in 1..N, NEW n \in DOMAIN bs[i].term.to
      PROVE  t[i].term.to[n] = Led(bs)[bs[i].term.to[n]]
  <2>1. bs[i].term.to[n] \in 1..N
    BY FullEdges
  <2>2. DOMAIN m[i].term.to = DOMAIN bs[i].term.to /\ m[i].term.to[n] = c[bs[i].term.to[n]]
    BY <1>5 DEF Redirected
  <2>3. t[i].term.to[n] = r[m[i].term.to[n]]
    BY <1>6, <2>2 DEF Redirected
  <2> QED
    BY <1>7, <2>1, <2>2, <2>3
<1>10. Redirected(t, bs, Led(bs))
  BY <1>5, <1>6, <1>9 DEF Redirected
<1> QED
  BY <1>2, <1>4, <1>8, <1>10 DEF m, t

(* Where x ended, what x is led to ends at the block that stands for it; and  *)
(* where x went round, so does what it is led to.                             *)
LEMMA LedToTheSameEnd ==
  ASSUME NEW bs, Full(bs), NEW x \in 1..N
  PROVE  /\ \A p : EndsAt(Onward(bs), x, p) =>
                      /\ EndsAt(Onward(Threaded(bs)), Led(bs)[x], Canonical(bs)[p])
                      /\ EndsAt(Onward(Threaded(bs)), Canonical(bs)[x], Canonical(bs)[p])
         /\ Spins(Onward(bs), x) =>
                      /\ Spins(Onward(Threaded(bs)), Led(bs)[x])
                      /\ Spins(Onward(Threaded(bs)), Canonical(bs)[x])
<1> DEFINE c == Canonical(bs)
           m == Merged(bs)
           r == Resolved(m)
           g == Onward(bs)
           g1 == Onward(m)
           g2 == Onward(Threaded(bs))
<1>1. Full(m) /\ c[x] \in 1..N
  BY PassedBlocks, CanonicalBlocks
<1>2. Led(bs)[x] = r[c[x]]
  BY DEF Led
<1>3. g2 = Onward(RetargetAll(m, r))
  BY DEF Threaded
<1>4. /\ \A p : EndsAt(g, x, p) => EndsAt(g1, c[x], c[p])
      /\ \A C : x \in C /\ Circles(g, C) => c[x] \in C /\ Circles(g1, C)
  BY MergingKeepsEnds
<1>5. /\ \A p : EndsAt(g1, c[x], p) =>
                   /\ r[c[x]] = p
                   /\ EndsAt(g2, c[x], p)
                   /\ EndsAt(g2, p, p)
      /\ \A C : c[x] \in C /\ Circles(g1, C) => r[c[x]] \in C /\ Circles(g2, C)
  BY <1>1, <1>3, ThreadingKeepsEnds
<1> HIDE DEF c, m, r, g, g1, g2
<1>6. ASSUME NEW p, EndsAt(g, x, p) PROVE EndsAt(g2, r[c[x]], c[p]) /\ EndsAt(g2, c[x], c[p])
  <2>1. EndsAt(g1, c[x], c[p])
    BY <1>4, <1>6
  <2>2. r[c[x]] = c[p] /\ EndsAt(g2, c[x], c[p]) /\ EndsAt(g2, c[p], c[p])
    BY <1>5, <2>1
  <2> QED
    BY <2>2
<1>7. ASSUME Spins(g, x) PROVE Spins(g2, r[c[x]]) /\ Spins(g2, c[x])
  <2>1. PICK C : x \in C /\ Circles(g, C)
    BY <1>7 DEF Spins
  <2>2. c[x] \in C /\ Circles(g1, C)
    BY <1>4, <2>1
  <2>3. r[c[x]] \in C /\ Circles(g2, C)
    BY <1>5, <2>2
  <2> QED
    BY <2>2, <2>3 DEF Spins
<1> QED
  BY <1>2, <1>6, <1>7 DEF c, g, g2

-----------------------------------------------------------------------------
(* What the entry reaches                                                     *)

\* The blocks reached in n steps.
Grows(f, bs) ==
    f = [n \in 0..Len(bs) |->
            IF n = 0 THEN {bs[1].id}
            ELSE LET seen == f[n - 1]
                 IN  seen \cup UNION {Successors(b) : b \in {c \in ToSet(bs) : c.id \in seen}}]

\* One step, on a full list.
OneMore(bs, seen) == seen \cup {y \in 1..N : \E i \in seen : y \in Successors(bs[i])}

GrowsTo(f, bs, m) == f = [n \in 0..m |-> IF n = 0 THEN {1} ELSE OneMore(bs, f[n - 1])]

(* The table exists for every length.                                         *)
LEMMA GrowingExists ==
  ASSUME NEW bs, NEW m \in Nat
  PROVE  \E f : GrowsTo(f, bs, m)
<1> DEFINE S == {k \in 0..m : \E f : GrowsTo(f, bs, k)}
<1>1. 0 \in S
  <2>1. GrowsTo([n \in 0..0 |-> {1}], bs, 0)
    BY DEF GrowsTo
  <2> QED
    BY <2>1
<1>2. ASSUME NEW k \in S, k < m PROVE k + 1 \in S
  <2>1. PICK f : GrowsTo(f, bs, k)
    OBVIOUS
  <2> DEFINE f2 == [n \in 0..(k + 1) |-> IF n = k + 1 THEN OneMore(bs, f[k]) ELSE f[n]]
  <2>2. \A n \in 0..k : f[n] = IF n = 0 THEN {1} ELSE OneMore(bs, f[n - 1])
    BY <2>1 DEF GrowsTo
  <2>3. \A n \in 0..(k + 1) : f2[n] = IF n = 0 THEN {1} ELSE OneMore(bs, f2[n - 1])
    BY <2>2
  <2>4. GrowsTo(f2, bs, k + 1)
    <3>1. f2 = [n \in 0..(k + 1) |-> IF n = 0 THEN {1} ELSE OneMore(bs, f2[n - 1])]
      BY <2>3
    <3> HIDE DEF f2
    <3> QED
      BY <3>1 DEF GrowsTo
  <2> QED
    BY <1>2, <2>4
<1>3. m \in S
  <2>1. S \in SUBSET (0..m)
    OBVIOUS
  <2> HIDE DEF S
  <2> QED
    BY <1>1, <1>2, <2>1, Climb
<1> QED
  BY <1>3

(* Its entries are sets of blocks; each holds the entry, the one before, and  *)
(* what that leads to.                                                        *)
LEMMA GrowingSteps ==
  ASSUME NEW bs, NEW f, GrowsTo(f, bs, N)
  PROVE  /\ f[0] = {1}
         /\ \A n \in 0..(N - 1) : f[n + 1] = OneMore(bs, f[n])
         /\ \A n \in 0..N : f[n] \in SUBSET (1..N) /\ 1 \in f[n]
<1>0. N \in Nat /\ 1 \in 1..N
  BY PassAssumption
<1>1. \A n \in 0..N : f[n] = IF n = 0 THEN {1} ELSE OneMore(bs, f[n - 1])
  BY DEF GrowsTo
<1>2. ASSUME NEW n \in 0..(N - 1) PROVE f[n + 1] = OneMore(bs, f[n])
  <2>1. n + 1 \in 0..N /\ n + 1 # 0 /\ (n + 1) - 1 = n
    BY <1>0
  <2> QED
    BY <1>1, <2>1
<1>3. f[0] = {1}
  BY <1>0, <1>1
<1> DEFINE S == {k \in 0..N : \A n \in 0..k : f[n] \in SUBSET (1..N) /\ 1 \in f[n]}
<1>4. 0 \in S
  BY <1>0, <1>3
<1>5. ASSUME NEW k \in S, k < N PROVE k + 1 \in S
  <2>1. k \in 0..(N - 1) /\ f[k] \in SUBSET (1..N) /\ 1 \in f[k]
    BY <1>0, <1>5
  <2>2. f[k + 1] \in SUBSET (1..N) /\ 1 \in f[k + 1]
    BY <1>2, <2>1 DEF OneMore
  <2> QED
    BY <1>0, <1>5, <2>2
<1>6. N \in S
  <2>1. S \in SUBSET (0..N)
    OBVIOUS
  <2> HIDE DEF S
  <2> QED
    BY <1>0, <1>4, <1>5, <2>1, Climb
<1> QED
  BY <1>0, <1>2, <1>3, <1>6

(* After as many steps as there are blocks nothing more is reached: each step *)
(* that reached more would have added a block.                                *)
LEMMA GrowingEnds ==
  ASSUME NEW bs, NEW f, GrowsTo(f, bs, N)
  PROVE  OneMore(bs, f[N]) = f[N]
<1>0. N \in Nat
  BY PassAssumption
<1>1. /\ f[0] = {1}
      /\ \A n \in 0..(N - 1) : f[n + 1] = OneMore(bs, f[n])
      /\ \A n \in 0..N : f[n] \in SUBSET (1..N) /\ 1 \in f[n]
  BY GrowingSteps
<1>2. IsFiniteSet(1..N) /\ Cardinality(1..N) = N
  BY <1>0, FS_Interval
<1>3. \A n \in 0..N : IsFiniteSet(f[n]) /\ Cardinality(f[n]) <= N /\ Cardinality(f[n]) \in Nat
  BY <1>1, <1>2, FS_Subset, FS_CardinalityType
<1>4. \E k \in 0..(N - 1) : OneMore(bs, f[k]) = f[k]
  <2> SUFFICES ASSUME \A k \in 0..(N - 1) : OneMore(bs, f[k]) # f[k] PROVE FALSE
    OBVIOUS
  <2> DEFINE S == {k \in 0..N : Cardinality(f[k]) >= k + 1}
  <2>1. 0 \in S
    <3>1. Cardinality({1}) = 1
      BY FS_Singleton
    <3>2. Cardinality(f[0]) >= 0 + 1
      BY <1>1, <3>1
    <3> QED
      BY <1>0, <3>2
  <2>2. ASSUME NEW k \in S, k < N PROVE k + 1 \in S
    <3>1. k \in 0..(N - 1) /\ k \in 0..N /\ k + 1 \in 0..N
      BY <1>0, <2>2
    <3>2. f[k] # f[k + 1] /\ f[k] \subseteq f[k + 1]
      BY <1>1, <3>1 DEF OneMore
    <3>3. Cardinality(f[k]) <= Cardinality(f[k + 1]) /\ Cardinality(f[k]) # Cardinality(f[k + 1])
      BY <1>3, <3>1, <3>2, FS_Subset
    <3>4. Cardinality(f[k]) \in Nat /\ Cardinality(f[k + 1]) \in Nat
      BY <1>3, <3>1
    <3>5. Cardinality(f[k]) >= k + 1
      OBVIOUS
    <3>6. Cardinality(f[k + 1]) >= (k + 1) + 1
      BY <3>1, <3>3, <3>4, <3>5
    <3> QED
      BY <3>1, <3>6
  <2>3. N \in S
    <3>1. S \in SUBSET (0..N)
      OBVIOUS
    <3> HIDE DEF S
    <3> QED
      BY <1>0, <2>1, <2>2, <3>1, Climb
  <2> QED
    BY <1>0, <1>3, <2>3
<1>5. PICK k \in 0..(N - 1) : OneMore(bs, f[k]) = f[k]
  BY <1>4
<1> DEFINE T == {j \in 0..(N - k) : f[k + j] = f[k]}
<1>6. 0 \in T
  BY <1>0
<1>7. ASSUME NEW j \in T, j < N - k PROVE j + 1 \in T
  <2>1. k + j \in 0..(N - 1) /\ (k + j) + 1 = k + (j + 1) /\ f[k + j] = f[k] /\ j + 1 \in 0..(N - k)
    BY <1>0, <1>7
  <2>2. f[(k + j) + 1] = OneMore(bs, f[k + j])
    BY <1>1, <2>1
  <2> QED
    BY <1>5, <2>1, <2>2
<1>8. N - k \in T
  <2>1. T \in SUBSET (0..(N - k)) /\ N - k \in Nat
    BY <1>0
  <2> HIDE DEF T
  <2> QED
    BY <1>6, <1>7, <2>1, Climb
<1>9. f[N] = f[k]
  <2>1. k + (N - k) = N
    BY <1>0
  <2> QED
    BY <1>8, <2>1
<1> QED
  BY <1>5, <1>9

(* The entry is reached, and so is every successor of what is reached.        *)
LEMMA ReachedIsClosed ==
  ASSUME NEW bs, Full(bs)
  PROVE  /\ Reached(bs) \in SUBSET (1..N) /\ 1 \in Reached(bs)
         /\ \A i \in Reached(bs) : \A n \in DOMAIN bs[i].term.to : bs[i].term.to[n] \in Reached(bs)
<1>0. N \in Nat /\ 1 \in 1..N /\ Len(bs) = N /\ bs[1].id = 1
  BY PassAssumption, FullLists, FullEdges
<1> DEFINE Hop(seen) == seen \cup UNION {Successors(b) : b \in {c \in ToSet(bs) : c.id \in seen}}
<1>1. ASSUME NEW seen \in SUBSET (1..N) PROVE Hop(seen) = OneMore(bs, seen)
  <2>1. {c \in ToSet(bs) : c.id \in seen} = {bs[i] : i \in seen}
    <3>1. ToSet(bs) = {bs[i] : i \in 1..N}
      BY FullLists
    <3>2. \A i \in 1..N : bs[i].id = i
      BY FullEdges
    <3> QED
      BY <3>1, <3>2
  <2>2. Hop(seen) = seen \cup UNION {Successors(bs[i]) : i \in seen}
    BY <2>1
  <2>3. ASSUME NEW i \in seen PROVE Successors(bs[i]) \subseteq 1..N
    BY FullEdges DEF Successors, ToSet
  <2> HIDE DEF Hop
  <2> QED
    BY <2>2, <2>3 DEF OneMore
<1>2. ASSUME NEW f, GrowsTo(f, bs, N) PROVE Grows(f, bs)
  <2>1. \A n \in 0..N : f[n] = IF n = 0 THEN {1} ELSE OneMore(bs, f[n - 1])
    BY <1>2 DEF GrowsTo
  <2>2. \A n \in 0..N : f[n] \in SUBSET (1..N)
    BY <1>2, GrowingSteps
  <2>3. \A n \in 0..N : n # 0 => n - 1 \in 0..N
    BY <1>0
  <2>4. \A n \in 0..N : f[n] = IF n = 0 THEN {bs[1].id} ELSE Hop(f[n - 1])
    <3> HIDE DEF Hop
    <3> QED
      BY <1>0, <1>1, <2>1, <2>2, <2>3
  <2>5. f = [n \in 0..N |-> f[n]]
    BY <1>2 DEF GrowsTo
  <2> QED
    BY <1>0, <2>4, <2>5 DEF Grows
<1>3. ASSUME NEW f, Grows(f, bs) PROVE GrowsTo(f, bs, N)
  <2>1. \A n \in 0..N : f[n] = IF n = 0 THEN {1} ELSE Hop(f[n - 1])
    BY <1>0, <1>3 DEF Grows
  <2> DEFINE S == {k \in 0..N : \A n \in 0..k : f[n] \in SUBSET (1..N)}
  <2> HIDE DEF Hop
  <2>2. 0 \in S
    BY <1>0, <2>1
  <2>3. ASSUME NEW k \in S, k < N PROVE k + 1 \in S
    <3>1. k + 1 \in 0..N /\ k + 1 # 0 /\ (k + 1) - 1 = k /\ f[k] \in SUBSET (1..N)
      BY <1>0, <2>3
    <3>2. f[k + 1] = OneMore(bs, f[k])
      BY <1>1, <2>1, <3>1
    <3>3. f[k + 1] \in SUBSET (1..N)
      BY <3>1, <3>2 DEF OneMore
    <3> QED
      BY <1>0, <2>3, <3>1, <3>3
  <2>4. N \in S
    <3>1. S \in SUBSET (0..N)
      OBVIOUS
    <3> HIDE DEF S
    <3> QED
      BY <1>0, <2>2, <2>3, <3>1, Climb
  <2>5. \A n \in 0..N : n # 0 => n - 1 \in 0..N /\ f[n - 1] \in SUBSET (1..N)
    BY <1>0, <2>4
  <2>6. \A n \in 0..N : f[n] = IF n = 0 THEN {1} ELSE OneMore(bs, f[n - 1])
    BY <1>1, <2>1, <2>5
  <2>7. f = [n \in 0..N |-> f[n]]
    BY <1>0, <1>3 DEF Grows
  <2> QED
    BY <2>6, <2>7 DEF GrowsTo
<1> DEFINE grow == CHOOSE f : Grows(f, bs)
<1>4. GrowsTo(grow, bs, N)
  <2>1. \E f : Grows(f, bs)
    BY <1>0, <1>2, GrowingExists
  <2> QED
    BY <2>1, <1>3
<1>5. Reached(bs) = grow[N]
  BY <1>0 DEF Reached, Grows
<1> HIDE DEF grow
<1>6. grow[N] \in SUBSET (1..N) /\ 1 \in grow[N]
  BY <1>0, <1>4, GrowingSteps
<1>7. OneMore(bs, grow[N]) = grow[N]
  BY <1>4, GrowingEnds
<1>8. ASSUME NEW i \in grow[N], NEW n \in DOMAIN bs[i].term.to PROVE bs[i].term.to[n] \in grow[N]
  <2>1. bs[i].term.to[n] \in 1..N /\ bs[i].term.to[n] \in Successors(bs[i])
    BY <1>6, FullEdges DEF Successors, ToSet
  <2>2. bs[i].term.to[n] \in OneMore(bs, grow[N])
    BY <2>1 DEF OneMore
  <2> QED
    BY <1>7, <2>2
<1> QED
  BY <1>5, <1>6, <1>8

-----------------------------------------------------------------------------
(* What is kept                                                               *)

\* The blocks among the first m that are reached.
Keeps(h, bs, m) ==
    h = [n \in 0..m |-> IF n = 0 THEN <<>>
                        ELSE IF bs[n].id \in Reached(bs) THEN Append(h[n - 1], bs[n])
                        ELSE h[n - 1]]

(* The table exists for every length.                                         *)
LEMMA KeepingExists ==
  ASSUME NEW bs, NEW m \in Nat
  PROVE  \E h : Keeps(h, bs, m)
<1> DEFINE S == {k \in 0..m : \E h : Keeps(h, bs, k)}
<1>1. 0 \in S
  <2>1. Keeps([n \in 0..0 |-> <<>>], bs, 0)
    BY DEF Keeps
  <2> QED
    BY <2>1
<1>2. ASSUME NEW k \in S, k < m PROVE k + 1 \in S
  <2>1. PICK h : Keeps(h, bs, k)
    OBVIOUS
  <2> DEFINE Next(n, s) == IF bs[n].id \in Reached(bs) THEN Append(s, bs[n]) ELSE s
             h2 == [n \in 0..(k + 1) |-> IF n = k + 1 THEN Next(n, h[k]) ELSE h[n]]
  <2>2. \A n \in 0..k : h[n] = IF n = 0 THEN <<>> ELSE Next(n, h[n - 1])
    BY <2>1 DEF Keeps
  <2>3. Keeps(h2, bs, k + 1)
    <3> HIDE DEF Next
    <3>1. \A n \in 0..(k + 1) : h2[n] = IF n = 0 THEN <<>> ELSE Next(n, h2[n - 1])
      BY <2>2
    <3>2. h2 = [n \in 0..(k + 1) |-> IF n = 0 THEN <<>> ELSE Next(n, h2[n - 1])]
      BY <3>1
    <3> HIDE DEF h2
    <3> QED
      BY <3>2 DEF Keeps, Next
  <2> QED
    BY <1>2, <2>3
<1>3. m \in S
  <2>1. S \in SUBSET (0..m)
    OBVIOUS
  <2> HIDE DEF S
  <2> QED
    BY <1>1, <1>2, <2>1, Climb
<1> QED
  BY <1>3

(* An element appended to a sequence joins its elements, after its first.     *)
LEMMA Appending ==
  ASSUME NEW S, NEW s \in Seq(S), NEW e \in S
  PROVE  /\ Append(s, e) \in Seq(S)
         /\ ToSet(Append(s, e)) = ToSet(s) \cup {e}
         /\ Append(s, e) # <<>>
         /\ Append(s, e)[1] = IF s = <<>> THEN e ELSE s[1]
<1>1. /\ Append(s, e) \in Seq(S) /\ Len(Append(s, e)) = Len(s) + 1 /\ Len(s) \in Nat
      /\ \A n \in 1..Len(s) : Append(s, e)[n] = s[n]
      /\ Append(s, e)[Len(s) + 1] = e
  OBVIOUS
<1>2. DOMAIN s = 1..Len(s) /\ DOMAIN Append(s, e) = 1..(Len(s) + 1)
  BY <1>1
<1>3. ToSet(Append(s, e)) = ToSet(s) \cup {e}
  <2> DEFINE t == Append(s, e)
  <2>1. 1..(Len(s) + 1) = (1..Len(s)) \cup {Len(s) + 1}
    BY <1>1
  <2> HIDE DEF t
  <2> QED
    BY <1>1, <1>2, <2>1 DEF ToSet, t
<1>4. s = <<>> <=> Len(s) = 0
  OBVIOUS
<1>5. Append(s, e) # <<>>
  BY <1>1
<1>6. Append(s, e)[1] = IF s = <<>> THEN e ELSE s[1]
  <2>1. CASE s = <<>>
    BY <1>1, <1>4, <2>1
  <2>2. CASE s # <<>>
    <3>1. 1 \in 1..Len(s)
      BY <1>1, <1>4, <2>2
    <3> QED
      BY <1>1, <2>2, <3>1
  <2> QED
    BY <2>1, <2>2
<1> QED
  BY <1>1, <1>3, <1>5, <1>6

(* The blocks that are kept are those that are reached, the entry first.      *)
LEMMA KeptBlocks ==
  ASSUME NEW bs, Full(bs)
  PROVE  /\ ToSet(Kept(bs)) = {bs[i] : i \in Reached(bs)}
         /\ Kept(bs) # <<>> /\ Kept(bs)[1] = bs[1]
<1>0. N \in Nat /\ N >= 1 /\ Len(bs) = N /\ \A n \in 1..N : bs[n].id = n /\ bs[n] \in BlockType
  BY PassAssumption, FullLists, FullEdges
<1>1. Reached(bs) \subseteq 1..N /\ 1 \in Reached(bs)
  BY ReachedIsClosed
<1> DEFINE keep == CHOOSE h : Keeps(h, bs, N)
<1>2. Kept(bs) = keep[N]
  BY <1>0 DEF Kept, Keeps
<1>3. Keeps(keep, bs, N)
  BY <1>0, KeepingExists
<1> HIDE DEF keep
<1>4. \A n \in 0..N : keep[n] = IF n = 0 THEN <<>>
                                ELSE IF n \in Reached(bs) THEN Append(keep[n - 1], bs[n])
                                ELSE keep[n - 1]
  <2>1. \A n \in 0..N : keep[n] = IF n = 0 THEN <<>>
                                  ELSE IF bs[n].id \in Reached(bs) THEN Append(keep[n - 1], bs[n])
                                  ELSE keep[n - 1]
    BY <1>3 DEF Keeps
  <2>2. \A n \in 0..N : n = 0 \/ bs[n].id = n
    BY <1>0
  <2> QED
    BY <2>1, <2>2
<1> DEFINE Good(n) == /\ keep[n] \in Seq(BlockType)
                      /\ ToSet(keep[n]) = {bs[i] : i \in Reached(bs) \cap (1..n)}
                      /\ n = 0 => keep[n] = <<>>
                      /\ n # 0 => keep[n] # <<>> /\ keep[n][1] = bs[1]
           S == {n \in 0..N : Good(n)}
<1>5. 0 \in S
  <2>1. keep[0] = <<>>
    BY <1>0, <1>4
  <2>2. ToSet(<<>>) = {}
    BY DEF ToSet
  <2>3. {bs[i] : i \in Reached(bs) \cap (1..0)} = {}
    OBVIOUS
  <2>4. keep[0] \in Seq(BlockType)
    BY <2>1
  <2>5. Good(0)
    BY <2>1, <2>2, <2>3, <2>4
  <2> QED
    BY <1>0, <2>5
<1>6. ASSUME NEW k \in S, k < N PROVE k + 1 \in S
  <2> DEFINE n == k + 1
  <2>1. n \in 1..N /\ n \in 0..N /\ n # 0 /\ n - 1 = k /\ Good(k)
    <3>1. k \in 0..N /\ Good(k)
      OBVIOUS
    <3> HIDE DEF Good, S
    <3>2. n \in 1..N /\ n \in 0..N /\ n # 0 /\ n - 1 = k
      BY <1>0, <1>6, <3>1
    <3> QED
      BY <3>1, <3>2
  <2>2. keep[n] = IF n \in Reached(bs) THEN Append(keep[k], bs[n]) ELSE keep[k]
    BY <1>4, <2>1
  <2>3. 1..n = (1..k) \cup {n}
    BY <1>0
  <2>4. CASE n \in Reached(bs)
    <3>1. bs[n] \in BlockType
      BY <1>0, <2>1
    <3>2. /\ Append(keep[k], bs[n]) \in Seq(BlockType)
          /\ ToSet(Append(keep[k], bs[n])) = ToSet(keep[k]) \cup {bs[n]}
          /\ Append(keep[k], bs[n]) # <<>>
          /\ Append(keep[k], bs[n])[1] = IF keep[k] = <<>> THEN bs[n] ELSE keep[k][1]
      BY <2>1, <3>1, Appending
    <3>3. Reached(bs) \cap (1..n) = (Reached(bs) \cap (1..k)) \cup {n}
      BY <2>3, <2>4
    <3>4. ToSet(keep[n]) = {bs[i] : i \in Reached(bs) \cap (1..n)}
      BY <2>1, <2>2, <2>4, <3>2, <3>3
    <3>5. keep[n] # <<>> /\ keep[n][1] = bs[1]
      BY <2>1, <2>2, <2>4, <3>2
    <3> QED
      BY <2>1, <2>2, <2>4, <3>2, <3>4, <3>5
  <2>5. CASE n \notin Reached(bs)
    <3>1. Reached(bs) \cap (1..n) = Reached(bs) \cap (1..k)
      BY <2>3, <2>5
    <3>2. n # 1 /\ k # 0
      BY <1>1, <2>5
    <3> QED
      BY <2>1, <2>2, <2>5, <3>1, <3>2
  <2> QED
    BY <2>4, <2>5
<1>7. N \in S
  <2>1. S \in SUBSET (0..N)
    OBVIOUS
  <2> HIDE DEF S
  <2> QED
    BY <1>0, <1>5, <1>6, <2>1, Climb
<1>8. Reached(bs) \cap (1..N) = Reached(bs) /\ N # 0
  BY <1>0, <1>1
<1> QED
  BY <1>2, <1>7, <1>8

(* On what is reached, the kept list forwards as the full one does.           *)
LEMMA KeptAgrees ==
  ASSUME NEW bs, Full(bs)
  PROVE  /\ \A i \in Reached(bs) : Labels(Kept(bs), i) = {bs[i]} /\ Here(Kept(bs), i) = bs[i]
         /\ Agrees(Kept(bs), Onward(bs), Reached(bs))
         /\ Agrees(bs, Onward(bs), 1..N)
<1>1. /\ Reached(bs) \subseteq 1..N
      /\ \A i \in Reached(bs) : \A n \in DOMAIN bs[i].term.to : bs[i].term.to[n] \in Reached(bs)
  BY ReachedIsClosed
<1>2. ASSUME NEW i \in Reached(bs) PROVE Labels(Kept(bs), i) = {bs[i]} /\ Here(Kept(bs), i) = bs[i]
  <2>1. ToSet(Kept(bs)) = {bs[j] : j \in Reached(bs)}
    BY KeptBlocks
  <2>2. \A j \in Reached(bs) : bs[j].id = j
    BY <1>1, FullEdges
  <2>3. Labels(Kept(bs), i) = {bs[i]}
    BY <2>1, <2>2 DEF Labels
  <2> QED
    BY <2>3 DEF Here
<1>3. /\ DOMAIN Onward(bs) = Forwarding(bs)
      /\ \A i \in Forwarding(bs) : Onward(bs)[i] = bs[i].term.to[1]
  BY OnwardOnBlocks
<1>4. \A i \in Forwarding(bs) : 1 \in DOMAIN bs[i].term.to /\ bs[i].term.to[1] \in 1..N
  BY FullEdges DEF Forwarding
<1>5. Agrees(Kept(bs), Onward(bs), Reached(bs))
  BY <1>1, <1>2, <1>3, <1>4 DEF Agrees, Passes, Forwarding
<1>6. \A i \in 1..N : Labels(bs, i) = {bs[i]} /\ Here(bs, i) = bs[i]
  BY FullLists
<1>7. Agrees(bs, Onward(bs), 1..N)
  BY <1>3, <1>4, <1>6 DEF Agrees, Passes, Forwarding
<1> QED
  BY <1>2, <1>5, <1>7

-----------------------------------------------------------------------------
(* The walks                                                                  *)

\* The second walk is at the block that stands for where the first one is.
Together(bs, p, q) ==
    \/ p = Spinning /\ q = Spinning
    \/ /\ p \in (1..N) \ Forwarding(bs)
       /\ q = Canonical(bs)[p] /\ q \in Reached(Threaded(bs))

(* From x, and from what x is led to or the block that stands for it, two     *)
(* walks land together.                                                       *)
LEMMA LandingTogether ==
  ASSUME NEW bs, Full(bs), NEW x \in 1..N, NEW y \in Reached(Threaded(bs)),
         y = Led(bs)[x] \/ y = Canonical(bs)[x]
  PROVE  Together(bs, Lands(bs, x), Lands(Kept(Threaded(bs)), y))
<1> DEFINE t == Threaded(bs)
           g == Onward(bs)
           g2 == Onward(t)
           c == Canonical(bs)
<1>1. Full(t)
  BY PassedBlocks
<1>2. /\ OnBlocks(g) /\ DOMAIN g = Forwarding(bs) /\ Cardinality(DOMAIN g) <= N
      /\ OnBlocks(g2) /\ Cardinality(DOMAIN g2) <= N
  BY <1>1, OnwardOnBlocks
<1>3. Agrees(bs, g, 1..N) /\ Agrees(Kept(t), g2, Reached(t))
  BY <1>1, KeptAgrees
<1>4. /\ \A p : EndsAt(g, x, p) => EndsAt(g2, y, c[p])
      /\ Spins(g, x) => Spins(g2, y)
  BY LedToTheSameEnd
<1>5. /\ \A p : EndsAt(g, x, p) => Lands(bs, x) = p
      /\ Spins(g, x) => Lands(bs, x) = Spinning
  BY <1>2, <1>3, LandsAtTheEnd
<1>6. /\ \A p : EndsAt(g2, y, p) => Lands(Kept(t), y) = p
      /\ Spins(g2, y) => Lands(Kept(t), y) = Spinning
  BY <1>2, <1>3, LandsAtTheEnd
<1>7. Spins(g, x) \/ \E p \in (1..N) \ DOMAIN g : EndsAt(g, x, p)
  BY <1>2, EndsOrSpins
<1>8. ASSUME NEW q, EndsAt(g2, y, q) PROVE q \in Reached(t)
  <2> DEFINE S == {z \in 1..N : z \in Reached(t) => q \in Reached(t)}
  <2>1. q \in S
    BY <1>8 DEF EndsAt
  <2>2. ASSUME NEW z \in DOMAIN g2, g2[z] \in S PROVE z \in S
    BY <1>2, <1>3, <2>2 DEF Agrees, OnBlocks
  <2>3. y \in S
    <3>1. S \in SUBSET (1..N)
      OBVIOUS
    <3> HIDE DEF S
    <3> QED
      BY <1>8, <2>1, <2>2, <3>1 DEF EndsAt
  <2> QED
    BY <2>3
<1> HIDE DEF t, g, g2, c
<1>9. CASE Spins(g, x)
  BY <1>4, <1>5, <1>6, <1>9 DEF Together, t
<1>10. CASE \E p \in (1..N) \ DOMAIN g : EndsAt(g, x, p)
  <2>1. PICK p \in (1..N) \ DOMAIN g : EndsAt(g, x, p)
    BY <1>10
  <2>2. EndsAt(g2, y, c[p])
    BY <1>4, <2>1
  <2>3. Lands(bs, x) = p /\ Lands(Kept(t), y) = c[p] /\ c[p] \in Reached(t)
    BY <1>5, <1>6, <1>8, <2>1, <2>2
  <2> QED
    BY <1>2, <2>1, <2>3 DEF Together, t, c
<1> QED
  BY <1>7, <1>9, <1>10

(* Where the walks are together they find the same work and the same choice,  *)
(* and each way out leads the second where it leads the edge of the first.    *)
LEMMA TogetherAtWork ==
  ASSUME NEW bs, Full(bs), NEW p \in (1..N) \ Forwarding(bs),
         NEW q \in Reached(Threaded(bs)), q = Canonical(bs)[p]
  PROVE  /\ Labels(Kept(Threaded(bs)), q) # {}
         /\ Here(bs, p) = bs[p]
         /\ Here(Kept(Threaded(bs)), q).content = bs[p].content
         /\ Here(Kept(Threaded(bs)), q).term.kind = bs[p].term.kind
         /\ Len(Here(Kept(Threaded(bs)), q).term.to) = Len(bs[p].term.to)
         /\ \A n \in DOMAIN bs[p].term.to :
               /\ bs[p].term.to[n] \in 1..N
               /\ Here(Kept(Threaded(bs)), q).term.to[n] = Led(bs)[bs[p].term.to[n]]
               /\ Led(bs)[bs[p].term.to[n]] \in Reached(Threaded(bs))
<1> DEFINE t == Threaded(bs)
<1>1. Full(t) /\ Redirected(t, bs, Led(bs))
  BY PassedBlocks
<1>2. Labels(Kept(t), q) = {t[q]} /\ Here(Kept(t), q) = t[q]
  BY <1>1, KeptAgrees
<1>3. Here(bs, p) = bs[p] /\ \A n \in DOMAIN bs[p].term.to : bs[p].term.to[n] \in 1..N
  BY FullLists, FullEdges
<1>4. q \in 1..N /\ bs[q].content = bs[p].content /\ bs[q].term = bs[p].term
  BY CanonicalBlocks
<1>5. \A n \in DOMAIN t[q].term.to : t[q].term.to[n] \in Reached(t)
  BY <1>1, ReachedIsClosed
<1> HIDE DEF t
<1>6. /\ t[q].content = bs[q].content /\ t[q].term.kind = bs[q].term.kind
      /\ Len(t[q].term.to) = Len(bs[q].term.to) /\ DOMAIN t[q].term.to = DOMAIN bs[q].term.to
      /\ \A n \in DOMAIN bs[q].term.to : t[q].term.to[n] = Led(bs)[bs[q].term.to[n]]
  BY <1>1, <1>4 DEF Redirected
<1>7. ASSUME NEW n \in DOMAIN bs[p].term.to
      PROVE  /\ t[q].term.to[n] = Led(bs)[bs[p].term.to[n]]
             /\ Led(bs)[bs[p].term.to[n]] \in Reached(t)
  BY <1>4, <1>5, <1>6
<1> QED
  BY <1>2, <1>3, <1>4, <1>6, <1>7 DEF t

-----------------------------------------------------------------------------
(* The passes in a row                                                        *)

StageInv == /\ stage \in {"merge", "thread", "drop", "run", "walk"}
            /\ Full(recovered)

\* What each pass has left.
BlocksInv ==
    /\ stage = "merge" => blocks = recovered
    /\ stage = "thread" => blocks = Merged(recovered)
    /\ stage = "drop" => blocks = Threaded(recovered)
    /\ stage \in {"run", "walk"} => blocks = Kept(Threaded(recovered))

WalkInv == stage = "walk" => Together(recovered, place, walk)

PassInv == StageInv /\ BlocksInv /\ WalkInv

(* Recovered blocks are listed in the order of their identities.              *)
LEMMA PassInitInv == PassInit => PassInv
<1> SUFFICES ASSUME PassInit PROVE PassInv
  OBVIOUS
<1>1. PICK content \in [1..N -> Contents], term \in [1..N -> Terms] :
         recovered = [i \in 1..N |-> [id |-> i, content |-> content[i], term |-> term[i]]]
  BY DEF PassInit
<1>2. ASSUME NEW i \in 1..N
      PROVE  /\ recovered[i] \in BlockType /\ recovered[i].id = i
             /\ recovered[i].term.kind = "jump" => recovered[i].term.to # <<>>
  <2>1. term[i] \in Terms /\ term[i] \in [kind : STRING, to : Seq(1..N)] /\ content[i] \in Contents
    BY PassAssumption
  <2>2. recovered[i] = [id |-> i, content |-> content[i], term |-> term[i]]
    BY <1>1
  <2>3. recovered[i] \in BlockType /\ recovered[i].id = i
    BY <2>1, <2>2 DEF BlockType
  <2>4. recovered[i].term = term[i]
    BY <2>2
  <2>5. term[i].kind = "jump" => term[i].to # <<>>
    BY <2>1, PassAssumption
  <2> QED
    BY <2>3, <2>4, <2>5
<1>3. recovered \in [1..N -> BlockType]
  BY <1>1, <1>2
<1>4. Full(recovered)
  BY <1>2, <1>3 DEF Full
<1> QED
  BY <1>4 DEF PassInit, PassInv, StageInv, BlocksInv, WalkInv

(* Every step leaves it so.                                                   *)
LEMMA PassNextInv == PassInv /\ [PassNext]_passVars => PassInv'
<1> SUFFICES ASSUME PassInv, [PassNext]_passVars PROVE PassInv'
  OBVIOUS
<1> DEFINE bs == recovered
           t == Threaded(recovered)
<1>0. Full(bs) /\ Full(t)
  BY PassedBlocks DEF PassInv, StageInv
<1>1. CASE MergeIdenticalReturns
  BY <1>1 DEF MergeIdenticalReturns, PassInv, StageInv, BlocksInv, WalkInv, Merged
<1>2. CASE ThreadEmptyJumps
  BY <1>2 DEF ThreadEmptyJumps, PassInv, StageInv, BlocksInv, WalkInv, Threaded
<1>3. CASE DropUnreachable
  BY <1>3 DEF DropUnreachable, PassInv, StageInv, BlocksInv, WalkInv
<1>4. CASE Start
  <2>1. blocks = Kept(t) /\ stage' = "walk" /\ recovered' = recovered /\ blocks' = blocks
    BY <1>4 DEF Start, PassInv, BlocksInv
  <2>2. recovered[1].id = 1 /\ 1 \in 1..N /\ Canonical(bs)[1] = 1 /\ 1 \in Reached(t)
    BY <1>0, PassAssumption, FullEdges, CanonicalBlocks, ReachedIsClosed
  <2>3. blocks[1].id = 1
    <3>1. Kept(t)[1] = t[1] /\ t[1].id = 1
      BY <1>0, <2>2, KeptBlocks, FullEdges
    <3> QED
      BY <2>1, <3>1
  <2>4. Together(bs, Lands(bs, 1), Lands(Kept(t), 1))
    BY <1>0, <2>2, LandingTogether
  <2>5. place' = Lands(bs, 1) /\ walk' = Lands(Kept(t), 1)
    BY <1>4, <2>1, <2>2, <2>3 DEF Start
  <2>6. Together(bs, place', walk')
    BY <2>4, <2>5
  <2> QED
    BY <2>1, <2>6 DEF PassInv, StageInv, BlocksInv, WalkInv
<1>5. CASE Walk
  <2>1. blocks = Kept(t) /\ stage = "walk" /\ stage' = "walk" /\ recovered' = recovered /\ blocks' = blocks
    BY <1>5 DEF Walk, PassInv, BlocksInv
  <2>2. place \in (1..N) \ Forwarding(bs) /\ walk = Canonical(bs)[place] /\ walk \in Reached(t)
    BY <1>5, <2>1 DEF Walk, PassInv, WalkInv, Together
  <2>3. PICK n \in DOMAIN Here(recovered, place).term.to :
           /\ place' = Lands(recovered, Here(recovered, place).term.to[n])
           /\ walk' = Lands(blocks, Here(blocks, walk).term.to[n])
    BY <1>5 DEF Walk
  <2>4. /\ Here(bs, place) = bs[place]
        /\ \A m \in DOMAIN bs[place].term.to :
              /\ bs[place].term.to[m] \in 1..N
              /\ Here(Kept(t), walk).term.to[m] = Led(bs)[bs[place].term.to[m]]
              /\ Led(bs)[bs[place].term.to[m]] \in Reached(t)
    BY <1>0, <2>2, TogetherAtWork
  <2> DEFINE x == bs[place].term.to[n]
             y == Led(bs)[x]
  <2>5. x \in 1..N /\ y \in Reached(t) /\ place' = Lands(bs, x) /\ walk' = Lands(Kept(t), y)
    BY <2>1, <2>3, <2>4
  <2>6. Together(bs, Lands(bs, x), Lands(Kept(t), y))
    BY <1>0, <2>5, LandingTogether
  <2>7. Together(bs, place', walk')
    BY <2>5, <2>6
  <2> QED
    BY <2>1, <2>7 DEF PassInv, StageInv, BlocksInv, WalkInv
<1>6. CASE Left \/ UNCHANGED passVars
  BY <1>6 DEF Left, passVars, PassInv, StageInv, BlocksInv, WalkInv
<1> QED
  BY <1>1, <1>2, <1>3, <1>4, <1>5, <1>6 DEF PassNext

(* The lists are always what the passes make of the function as recovered,    *)
(* and the walk through what schedule_counted returns is at the block that    *)
(* stands for where the walk through the recovered function is.               *)
THEOREM PassInvariant == PassSpec => []PassInv
BY PassInitInv, PassNextInv, PTL DEF PassSpec

(* merge_identical_returns, thread_empty_jumps and drop_unreachable, one      *)
(* after the other, change no walk through a function of any size.            *)
THEOREM PassesKeepTheWork == PassSpec => []SameWork
<1>1. PassInv => SameWork
  <2> SUFFICES ASSUME PassInv, stage = "walk",
                      ~ (place = Spinning /\ walk = Spinning)
               PROVE  /\ place # Spinning /\ walk # Spinning /\ Labels(blocks, walk) # {}
                      /\ Here(blocks, walk).content = Here(recovered, place).content
                      /\ Here(blocks, walk).term.kind = Here(recovered, place).term.kind
                      /\ Len(Here(blocks, walk).term.to) = Len(Here(recovered, place).term.to)
    BY DEF SameWork
  <2>1. Full(recovered) /\ blocks = Kept(Threaded(recovered))
    BY DEF PassInv, StageInv, BlocksInv
  <2>2. /\ place \in (1..N) \ Forwarding(recovered)
        /\ walk = Canonical(recovered)[place] /\ walk \in Reached(Threaded(recovered))
    BY DEF PassInv, WalkInv, Together
  <2>3. place # Spinning /\ walk # Spinning
    <3>1. walk \in 1..N
      BY <2>1, <2>2, PassedBlocks, ReachedIsClosed
    <3> QED
      BY <2>2, <3>1, PassAssumption DEF Spinning
  <2>4. /\ Labels(Kept(Threaded(recovered)), walk) # {}
        /\ Here(recovered, place) = recovered[place]
        /\ Here(Kept(Threaded(recovered)), walk).content = recovered[place].content
        /\ Here(Kept(Threaded(recovered)), walk).term.kind = recovered[place].term.kind
        /\ Len(Here(Kept(Threaded(recovered)), walk).term.to) = Len(recovered[place].term.to)
    BY <2>1, <2>2, TogetherAtWork
  <2> QED
    BY <2>1, <2>3, <2>4
<1> QED
  BY <1>1, PassInvariant, PTL

(* Whatever is left leads only to what is left, and the entry is first.       *)
THEOREM PassesKeepTheTargets == PassSpec => []EveryTargetIsEmitted
<1>1. PassInv => EveryTargetIsEmitted
  <2> SUFFICES ASSUME PassInv, stage \in {"run", "walk"}
               PROVE  /\ blocks # <<>> /\ blocks[1].id = recovered[1].id
                      /\ \A b \in ToSet(blocks) : ToSet(b.term.to) \subseteq Ids(blocks)
    BY DEF EveryTargetIsEmitted
  <2> DEFINE t == Threaded(recovered)
  <2>1. Full(recovered) /\ Full(t) /\ blocks = Kept(t)
    BY PassedBlocks DEF PassInv, StageInv, BlocksInv
  <2>2. /\ ToSet(Kept(t)) = {t[i] : i \in Reached(t)}
        /\ Kept(t) # <<>> /\ Kept(t)[1] = t[1]
    BY <2>1, KeptBlocks
  <2>3. t[1].id = 1 /\ recovered[1].id = 1
    BY <2>1, PassAssumption, FullEdges
  <2>4. /\ Reached(t) \subseteq 1..N
        /\ \A i \in Reached(t) : \A n \in DOMAIN t[i].term.to : t[i].term.to[n] \in Reached(t)
    BY <2>1, ReachedIsClosed
  <2>5. \A i \in Reached(t) : t[i].id = i
    BY <2>1, <2>4, FullEdges
  <2> HIDE DEF t
  <2>6. Reached(t) \subseteq Ids(Kept(t))
    <3> SUFFICES ASSUME NEW i \in Reached(t) PROVE i \in Ids(Kept(t))
      OBVIOUS
    <3>1. t[i] \in ToSet(Kept(t)) /\ t[i].id = i
      BY <2>2, <2>5
    <3> QED
      BY <3>1 DEF Ids, ToSet
  <2>7. \A i \in Reached(t) : ToSet(t[i].term.to) \subseteq Reached(t)
    BY <2>4 DEF ToSet
  <2>8. \A b \in ToSet(Kept(t)) : ToSet(b.term.to) \subseteq Ids(Kept(t))
    BY <2>2, <2>6, <2>7
  <2> QED
    BY <2>1, <2>2, <2>3, <2>8
<1> QED
  BY <1>1, PassInvariant, PTL

-----------------------------------------------------------------------------
(* The emitted code                                                           *)

Parked == {Park, Park1}
ParkLoad(x) == x.op = "load" /\ x.disp \in Parked
HomeLoad(x) == x.op = "load" /\ x.disp \notin Parked
ParkStore(x) == x.op = "store" /\ x.disp \in Parked
SetsRax(x) == x.op \in {"alu", "load"} /\ x.reg = "rax" /\ ~ParkLoad(x)
\* What a unit begins with.
Opening(x) == ~ParkLoad(x) /\ (x.op = "store" => ParkStore(x))

Kinds == {StoreTo(Spill, r, w) : r \in Regs, w \in {4, 8}} \cup {StoreTo(d, "rax", 8) : d \in Parked} \cup
         {LoadFrom(r, Spill, w) : r \in Regs, w \in {4, 8}} \cup {LoadFrom("rax", d, 8) : d \in Parked} \cup
         {LoadFrom("rbx", SavedSlot, 8)} \cup {Alu(r, S) : r \in Regs, S \in SUBSET Regs} \cup
         [op : {"jmp", "jcc"}, to : Int] \cup [op : {"ret"}]

\* What the passes rely on.
Proper ==
    /\ Len(code) \in Nat /\ DOMAIN code = 1..Len(code) /\ 1 \in DOMAIN code
    /\ code[1] = StoreTo(SavedSlot, "rbx", 8)
    /\ \A i \in 2..Len(code) :
          /\ code[i] \in Kinds
          /\ HomeLoad(code[i]) => i < Len(code) /\ code[i + 1].op \in {"alu", "ret"}
          /\ ParkStore(code[i]) => i < Len(code) /\ SetsRax(code[i + 1])
          /\ ParkLoad(code[i]) => i < Len(code) /\ Opening(code[i + 1])
          /\ IsJump(i) => code[i].to \in 2..Len(code) /\ Opening(code[code[i].to])
    /\ \A i \in DOMAIN code : code[i].op \notin {"jmp", "ret"} => i < Len(code)

Slots == {Spill, SavedSlot, Park, Park1}

\* The slots lie where they do in any frame with a spill and a save.
LEMMA SlotsAre ==
  ASSUME L \in Layout, L.spills > 0, L.saves > 0
  PROVE  /\ Spill \in Int /\ SavedSlot \in Int /\ Park \in Int /\ Park1 \in Int
         /\ Spill + 8 <= SavedSlot /\ SavedSlot + 8 <= Park /\ Park1 = Park + 8
         /\ Spill \notin Parked /\ SavedSlot \notin Parked /\ ~Within(SavedSlot, 8)
<1>1. L.spills \in Nat /\ L.saves \in Nat /\ L.args \in Nat
  BY DEF Layout
<1>2. OutgoingEnd(L) \in Nat
  BY <1>1 DEF OutgoingEnd, Shadow, SHADOW
<1>3. PICK o \in Nat, s \in Nat, v \in Nat : o = OutgoingEnd(L) /\ s = L.spills /\ v = L.saves
  BY <1>1, <1>2
<1>4. /\ Spill = o /\ SavedSlot = o + 8 * s /\ Park = o + 8 * s + 8 * v /\ Park1 = Park + 8
  BY <1>3 DEF Spill, SavedSlot, Park, Park1, SpillDisp, SaveDisp, ScratchDisp
<1>5. s > 0 /\ v > 0
  BY <1>3
<1>6. PrivateRanges(L) = {[lo |-> o, hi |-> o + 8 * s], [lo |-> Park, hi |-> Park + 32]}
  BY <1>3, <1>4 DEF PrivateRanges, Range8, SpillDisp, ScratchDisp, SCRATCH_SLOTS
<1>7. ~Within(SavedSlot, 8)
  BY <1>4, <1>5, <1>6 DEF Within
<1> QED
  BY <1>4, <1>5, <1>7 DEF Parked

LEMMA KindsAre ==
  ASSUME NEW x \in Kinds
  PROVE  /\ x.op \in {"store", "load", "alu", "jmp", "jcc", "ret"}
         /\ x.op = "store" => x.reg \in Regs /\ x.disp \in {Spill} \cup Parked /\ x.width \in {4, 8}
         /\ x.op = "load" => x.reg \in Regs /\ x.disp \in Slots /\ x.width \in {4, 8}
         /\ ParkLoad(x) /\ Spill \notin Parked /\ SavedSlot \notin Parked => x.reg = "rax" /\ x.width = 8
         /\ ParkStore(x) /\ Spill \notin Parked => x.reg = "rax" /\ x.width = 8
         /\ x.op = "alu" => x.reg \in Regs /\ x.reads \in SUBSET Regs
<1>1. CASE \E r \in Regs, w \in {4, 8} : x = StoreTo(Spill, r, w)
  BY <1>1 DEF StoreTo, ParkLoad, ParkStore
<1>2. CASE \E d \in Parked : x = StoreTo(d, "rax", 8)
  BY <1>2 DEF StoreTo, ParkLoad, ParkStore, Regs
<1>3. CASE \E r \in Regs, w \in {4, 8} : x = LoadFrom(r, Spill, w)
  BY <1>3 DEF LoadFrom, ParkLoad, ParkStore, Slots
<1>4. CASE \E d \in Parked : x = LoadFrom("rax", d, 8)
  BY <1>4 DEF LoadFrom, ParkLoad, ParkStore, Slots, Parked, Regs
<1>5. CASE x = LoadFrom("rbx", SavedSlot, 8)
  BY <1>5 DEF LoadFrom, ParkLoad, ParkStore, Slots, Regs
<1>6. CASE \E r \in Regs, S \in SUBSET Regs : x = Alu(r, S)
  BY <1>6 DEF Alu, ParkLoad, ParkStore
<1>7. CASE x \in [op : {"jmp", "jcc"}, to : Int] \cup [op : {"ret"}]
  BY <1>7 DEF ParkLoad, ParkStore
<1> QED
  BY <1>1, <1>2, <1>3, <1>4, <1>5, <1>6, <1>7 DEF Kinds

-----------------------------------------------------------------------------
(* Sweeps                                                                     *)

ByteLabels == [DOMAIN code -> SUBSET AllBytes]
Below(live, other) == \A i \in DOMAIN code : live[i] \subseteq other[i]

Iterates(st, z, T, f, n) == f \in [0..n -> T] /\ f[0] = z /\ \A k \in 1..n : f[k] = st[k][f[k - 1]]

(* A function on numbers may be defined from its value one below.             *)
LEMMA Recursion ==
  ASSUME NEW n \in Nat, NEW T, NEW z \in T, NEW st \in [1..n -> [T -> T]]
  PROVE  \E f : Iterates(st, z, T, f, n)
<1> DEFINE So(f, m) == f \in [0..n -> T] /\ f[0] = z /\ \A k \in 1..m : f[k] = st[k][f[k - 1]]
           S == {m \in 0..n : \E f : So(f, m)}
<1>1. 0 \in S
  <2>1. So([k \in 0..n |-> z], 0)
    OBVIOUS
  <2>2. 0 \in 0..n
    OBVIOUS
  <2> HIDE DEF So
  <2> QED
    BY <2>1, <2>2
<1>2. ASSUME NEW m \in S, m < n PROVE m + 1 \in S
  <2>1. PICK f : So(f, m)
    OBVIOUS
  <2> DEFINE g == [f EXCEPT ![m + 1] = st[m + 1][f[m]]]
  <2>2. m \in 0..n /\ m + 1 \in 1..n /\ m + 1 \in 0..n
    BY <1>2
  <2>3. f[m] \in T /\ st[m + 1] \in [T -> T]
    BY <2>1, <2>2
  <2>4. st[m + 1][f[m]] \in T
    BY <2>3
  <2>5. g \in [0..n -> T] /\ g[m + 1] = st[m + 1][f[m]] /\ \A k \in 0..m : g[k] = f[k]
    BY <2>1, <2>2, <2>4
  <2>6. ASSUME NEW k \in 1..m + 1 PROVE g[k] = st[k][g[k - 1]]
    <3>1. CASE k = m + 1
      <4>1. g[k - 1] = f[m]
        BY <2>2, <2>5, <3>1
      <4> QED
        BY <2>5, <3>1, <4>1
    <3>2. CASE k # m + 1
      <4>1. k \in 1..m /\ k \in 0..m /\ k - 1 \in 0..m
        BY <2>2, <2>6, <3>2
      <4> QED
        BY <2>1, <2>5, <4>1
    <3> QED
      BY <3>1, <3>2
  <2>7. g[0] = z
    BY <2>1, <2>2, <2>5
  <2>8. So(g, m + 1)
    <3> HIDE DEF g
    <3> QED
      BY <2>5, <2>6, <2>7
  <2> QED
    BY <2>2, <2>8
<1>3. n \in S
  <2>1. S \in SUBSET (0..n)
    OBVIOUS
  <2> HIDE DEF S
  <2> QED
    BY <1>1, <1>2, <2>1, Climb
<1>4. PICK f : So(f, n)
  BY <1>3
<1> QED
  BY <1>4 DEF Iterates

(* The operations of a sweep stay among the bytes that are loaded.            *)
LEMMA LiveInIs ==
  ASSUME Proper, NEW removed, NEW live \in ByteLabels, NEW i \in DOMAIN code
  PROVE  /\ Succs(removed, i) \subseteq DOMAIN code
         /\ LiveIn(removed, live, i) \in SUBSET AllBytes
         /\ Visited(removed, live, i) \in ByteLabels
<1>1. Succs(removed, i) \subseteq DOMAIN code
  <2>1. IsJump(i) => code[i].to \in DOMAIN code
    <3>1. i = 1 => ~IsJump(i)
      BY DEF Proper, IsJump, StoreTo
    <3> QED
      BY <3>1 DEF Proper
  <2> QED
    BY <2>1 DEF Succs, Following
<1>2. FrameReads(i) \subseteq AllBytes
  BY DEF FrameReads, AllBytes, Halves4
<1>3. LiveIn(removed, live, i) \in SUBSET AllBytes
  BY <1>1, <1>2 DEF LiveIn, LiveOut, ByteLabels
<1> QED
  BY <1>1, <1>3 DEF Visited, ByteLabels

(* More live below, more live above.                                          *)
LEMMA VisitedGrows ==
  ASSUME Proper, NEW removed, NEW live \in ByteLabels, NEW more \in ByteLabels, NEW i \in DOMAIN code,
         Below(live, more)
  PROVE  Below(Visited(removed, live, i), Visited(removed, more, i))
<1>1. LiveIn(removed, live, i) \subseteq LiveIn(removed, more, i)
  BY LiveInIs DEF LiveIn, LiveOut, Below
<1> QED
  BY <1>1, LiveInIs DEF Visited, Below, ByteLabels

Swept(removed, old, f) ==
    /\ f \in [0..Len(code) -> ByteLabels] /\ f[0] = old
    /\ \A k \in 1..Len(code) : f[k] = Visited(removed, f[k - 1], Len(code) + 1 - k)

LEMMA SweepIs ==
  ASSUME Proper, NEW removed, NEW old \in ByteLabels
  PROVE  \E f : Swept(removed, old, f) /\ Sweep(removed, old) = f[Len(code)]
<1> DEFINE n == Len(code)
           st == [k \in 1..n |-> [live \in ByteLabels |-> Visited(removed, live, n + 1 - k)]]
           Rhs(h) == [k \in 0..n |-> IF k = 0 THEN old ELSE Visited(removed, h[k - 1], n + 1 - k)]
<1>1. n \in Nat /\ DOMAIN code = 1..n /\ \A k \in 1..n : n + 1 - k \in DOMAIN code
  BY DEF Proper
<1>2. st \in [1..n -> [ByteLabels -> ByteLabels]]
  BY <1>1, LiveInIs
<1>3. PICK f : Iterates(st, old, ByteLabels, f, n)
  <2>1. n \in Nat /\ old \in ByteLabels
    BY <1>1
  <2> HIDE DEF st, n, Rhs
  <2> QED
    BY <1>2, <2>1, Recursion
<1>4. \A k \in 1..n : k - 1 \in 0..n /\ k \in 0..n /\ k # 0
  BY <1>1
<1>5. \A k \in 1..n : f[k] = Visited(removed, f[k - 1], n + 1 - k)
  BY <1>3, <1>4 DEF Iterates
<1>6. f = Rhs(f)
  <2>1. \A k \in 0..n : f[k] = Rhs(f)[k]
    <3>1. \A k \in 0..n : k = 0 \/ k \in 1..n
      BY <1>1
    <3> QED
      BY <1>3, <1>4, <1>5, <3>1 DEF Iterates
  <2>2. f = [k \in 0..n |-> f[k]] /\ Rhs(f) = [k \in 0..n |-> Rhs(f)[k]]
    BY <1>3 DEF Iterates
  <2> HIDE DEF Rhs
  <2> QED
    BY <2>1, <2>2
<1> DEFINE g == CHOOSE h : h = Rhs(h)
<1>7. g = Rhs(g)
  <2> HIDE DEF Rhs
  <2> QED
    BY <1>6
<1>8. Sweep(removed, old) = g[n]
  BY DEF Sweep
<1>9. g[0] = old /\ \A k \in 1..n : g[k] = Visited(removed, g[k - 1], n + 1 - k)
  <2>1. \A k \in 0..n : g[k] = Rhs(g)[k]
    BY <1>7
  <2>2. 0 \in 0..n
    BY <1>1
  <2> HIDE DEF g
  <2> QED
    BY <1>4, <2>1, <2>2
<1>10. DOMAIN g = 0..n
  <2> HIDE DEF g
  <2> QED
    BY <1>7
<1> HIDE DEF g
<1>11. ASSUME NEW m \in 0..n PROVE g[m] \in ByteLabels
  <2> DEFINE S == {k \in 0..m : g[k] \in ByteLabels}
  <2>1. 0 \in S
    BY <1>9, <1>1
  <2>2. ASSUME NEW k \in S, k < m PROVE k + 1 \in S
    <3>1. k + 1 \in 1..n /\ (k + 1) - 1 = k /\ k + 1 \in 0..m
      BY <1>1, <1>11, <2>2
    <3>2. g[k + 1] = Visited(removed, g[k], n + 1 - (k + 1)) /\ n + 1 - (k + 1) \in DOMAIN code
      <4>1. PICK j \in 1..n : j = k + 1
        BY <3>1
      <4>2. g[j] = Visited(removed, g[j - 1], n + 1 - j)
        BY <1>9
      <4> QED
        BY <1>1, <3>1, <4>1, <4>2
    <3> QED
      BY <3>1, <3>2, LiveInIs
  <2>3. S \in SUBSET (0..m) /\ m \in Nat
    BY <1>1
  <2> HIDE DEF S
  <2>4. m \in S
    BY <2>1, <2>2, <2>3, Climb
  <2> QED
    BY <2>4 DEF S
<1>12. g \in [0..n -> ByteLabels]
  <2>1. g = [k \in 0..n |-> g[k]]
    BY <1>7, <1>10
  <2> QED
    BY <1>11, <2>1
<1> QED
  BY <1>8, <1>9, <1>12 DEF Swept

(* What a sweep makes of labels, it makes of more labels at least.            *)
LEMMA SweepGrows ==
  ASSUME Proper, NEW removed, NEW old \in ByteLabels, NEW more \in ByteLabels, Below(old, more)
  PROVE  Below(Sweep(removed, old), Sweep(removed, more))
<1> DEFINE n == Len(code)
<1>1. n \in Nat /\ DOMAIN code = 1..n
  BY DEF Proper
<1>2. PICK f : Swept(removed, old, f) /\ Sweep(removed, old) = f[n]
  BY SweepIs
<1>3. PICK g : Swept(removed, more, g) /\ Sweep(removed, more) = g[n]
  BY SweepIs
<1> DEFINE S == {k \in 0..n : Below(f[k], g[k])}
<1>4. 0 \in S
  BY <1>1, <1>2, <1>3 DEF Swept
<1>5. ASSUME NEW k \in S, k < n PROVE k + 1 \in S
  <2>1. k \in 0..n /\ k + 1 \in 1..n /\ (k + 1) - 1 = k /\ k + 1 \in 0..n
    BY <1>1, <1>5
  <2>2. PICK j \in 1..n : j = k + 1
    BY <2>1
  <2>3. j - 1 = k /\ n + 1 - j \in DOMAIN code
    BY <1>1, <2>1, <2>2
  <2>4. f[j] = Visited(removed, f[k], n + 1 - j) /\ g[j] = Visited(removed, g[k], n + 1 - j)
    BY <1>2, <1>3, <2>3 DEF Swept
  <2>5. f[k] \in ByteLabels /\ g[k] \in ByteLabels
    BY <1>2, <1>3, <2>1 DEF Swept
  <2>6. Below(f[j], g[j])
    BY <2>3, <2>4, <2>5, VisitedGrows
  <2> QED
    BY <2>1, <2>2, <2>6
<1>6. n \in S
  <2>1. S \in SUBSET (0..n)
    OBVIOUS
  <2> HIDE DEF S, n
  <2> QED
    BY <1>1, <1>4, <1>5, <2>1, Climb
<1> QED
  BY <1>2, <1>3, <1>6

LEMMA SweepType ==
  ASSUME Proper, NEW removed, NEW old \in ByteLabels
  PROVE  Sweep(removed, old) \in ByteLabels
<1>1. Len(code) \in 0..Len(code)
  BY DEF Proper
<1> QED
  BY <1>1, SweepIs DEF Swept

(* Where a sweep changes nothing, live is what the instruction makes of it.   *)
LEMMA SweepSettles ==
  ASSUME Proper, NEW removed, NEW old \in ByteLabels, Sweep(removed, old) = old
  PROVE  \A i \in DOMAIN code \ removed : old[i] = LiveIn(removed, old, i)
<1> DEFINE n == Len(code)
<1>1. n \in Nat /\ DOMAIN code = 1..n
  BY DEF Proper
<1>2. PICK f : Swept(removed, old, f) /\ Sweep(removed, old) = f[n]
  BY SweepIs
<1>3. f[n] = old /\ f[0] = old /\ \A k \in 0..n : f[k] \in ByteLabels
  BY <1>2 DEF Swept
<1>4. ASSUME NEW k \in 0..n, k < n
      PROVE  k + 1 \in 0..n /\ n - k \in DOMAIN code /\ f[k + 1] = Visited(removed, f[k], n - k)
  <2>1. k \in 0..n /\ k + 1 \in 1..n /\ (k + 1) - 1 = k /\ k + 1 \in 0..n
    BY <1>1, <1>4
  <2>2. PICK j \in 1..n : j = k + 1
    BY <2>1
  <2>3. j - 1 = k /\ n + 1 - j = n - k /\ n - k \in DOMAIN code
    <3>1. n \in Int /\ k \in Int /\ j \in Int /\ 0 <= k /\ k < n /\ j = k + 1
      BY <1>1, <1>4, <2>2
    <3>2. n - k \in 1..n
      BY <3>1
    <3> HIDE DEF n
    <3> QED
      BY <1>1, <3>1, <3>2
  <2> QED
    BY <1>2, <2>1, <2>2, <2>3 DEF Swept
(* What was visited stays.                                                    *)
<1>5. ASSUME NEW k \in 0..n, k < n PROVE f[k + 1][n - k] = old[n - k]
  <2> DEFINE S == {m \in 0..n - (k + 1) : f[k + 1 + m][n - k] = f[k + 1][n - k]}
  <2>1. 0 \in S
    BY <1>1, <1>5
  <2>2. ASSUME NEW m \in S, m < n - (k + 1) PROVE m + 1 \in S
    <3>1. PICK j \in 0..n : j = k + 1 + m
      BY <1>1, <1>5, <2>2
    <3>2. j < n /\ k + 1 + (m + 1) = j + 1 /\ n - j # n - k /\ m + 1 \in 0..n - (k + 1)
      <4>1. n \in Int /\ k \in Int /\ j \in Int /\ m \in Int /\ 0 <= k /\ k < n /\ j = k + 1 + m /\ 0 <= m /\ m < n - (k + 1)
        BY <1>1, <1>5, <2>2, <3>1
      <4> HIDE DEF n
      <4> QED
        BY <4>1
    <3>3. f[j + 1] = Visited(removed, f[j], n - j) /\ f[j] \in ByteLabels /\ n - j \in DOMAIN code /\ n - k \in DOMAIN code
      BY <1>3, <1>4, <1>5, <3>2
    <3>4. f[j + 1][n - k] = f[j][n - k]
      BY <3>2, <3>3 DEF Visited, ByteLabels
    <3>5. f[j][n - k] = f[k + 1][n - k]
      BY <3>1
    <3> QED
      BY <3>2, <3>4, <3>5
  <2>3. S \in SUBSET (0..n - (k + 1)) /\ n - (k + 1) \in Nat /\ k + 1 + (n - (k + 1)) = n
    BY <1>1, <1>5
  <2>4. n - (k + 1) \in S
    <3> HIDE DEF S, n
    <3> QED
      BY <2>1, <2>2, <2>3, Climb
  <2> QED
    BY <1>3, <2>3, <2>4
<1>6. ASSUME NEW m \in 0..n PROVE f[m] = old
  <2> DEFINE S == {k \in 0..m : f[k] = old}
  <2>1. 0 \in S
    BY <1>1, <1>3, <1>6
  <2>2. ASSUME NEW k \in S, k < m PROVE k + 1 \in S
    <3>1. k \in 0..n /\ k < n /\ k + 1 \in 0..m
      BY <1>1, <1>6, <2>2
    <3>2. f[k + 1] = Visited(removed, old, n - k) /\ n - k \in DOMAIN code /\ f[k + 1][n - k] = old[n - k]
      BY <1>4, <1>5, <3>1
    <3>3. f[k + 1] = old
      <4>1. \A i \in DOMAIN code : f[k + 1][i] = old[i]
        BY <3>2 DEF Visited, ByteLabels
      <4>2. f[k + 1] \in ByteLabels
        BY <1>3, <1>4, <3>1
      <4> QED
        BY <4>1, <4>2 DEF ByteLabels
    <3> QED
      BY <3>1, <3>3
  <2>3. S \in SUBSET (0..m) /\ m \in Nat
    BY <1>1, <1>6
  <2>4. m \in S
    <3> HIDE DEF S, n
    <3> QED
      BY <2>1, <2>2, <2>3, Climb
  <2> QED
    BY <2>4
<1>7. ASSUME NEW i \in DOMAIN code \ removed PROVE old[i] = LiveIn(removed, old, i)
  <2>1. PICK k \in 0..n : k = n - i /\ k < n /\ n - k = i
    BY <1>1
  <2>2. k + 1 \in 0..n /\ f[k + 1] = Visited(removed, old, i)
    BY <1>4, <1>6, <2>1
  <2>3. old = Visited(removed, old, i)
    BY <1>6, <2>2
  <2>4. old = [old EXCEPT ![i] = LiveIn(removed, old, i)] /\ i \in DOMAIN old
    BY <1>7, <2>3 DEF Visited, ByteLabels
  <2> QED
    BY <2>4
<1> QED
  BY <1>7

LEMMA BytesAreFinite ==
  ASSUME Proper
  PROVE  IsFiniteSet((DOMAIN code) \X AllBytes) /\ MostSweeps \in Nat
<1>1. IsFiniteSet(DOMAIN code)
  BY FS_Interval DEF Proper
<1> DEFINE loads == {j \in DOMAIN code : code[j].op = "load"}
           pairs == loads \X Halves
           to == [p \in pairs |-> code[p[1]].disp + p[2]]
<1>2. IsFiniteSet(loads)
  <2>1. loads \in SUBSET (DOMAIN code)
    OBVIOUS
  <2> QED
    BY <1>1, <2>1, FS_Subset
<1>3. IsFiniteSet(Halves)
  <2>1. PICK b \in Int : b = 4
    OBVIOUS
  <2>2. Halves \in SUBSET (0..b)
    BY <2>1 DEF Halves
  <2>3. IsFiniteSet(0..b)
    BY FS_Interval
  <2> QED
    BY <2>2, <2>3, FS_Subset
<1>4. IsFiniteSet(pairs)
  BY <1>2, <1>3, FS_Product
<1>5. to \in Surjection(pairs, AllBytes)
  <2>1. \A p \in pairs : to[p] \in AllBytes
    <3>1. ASSUME NEW p \in pairs PROVE to[p] \in AllBytes
      <4>1. to[p] = code[p[1]].disp + p[2] /\ p[1] \in loads /\ p[2] \in Halves
        OBVIOUS
      <4> QED
        BY <4>1 DEF AllBytes
    <3> QED
      BY <3>1
  <2>2. \A b \in AllBytes : \E p \in pairs : to[p] = b
    <3>1. ASSUME NEW b \in AllBytes PROVE \E p \in pairs : to[p] = b
      <4>1. PICK i \in loads, h \in Halves : b = code[i].disp + h
        BY DEF AllBytes
      <4>2. <<i, h>> \in pairs /\ to[<<i, h>>] = b
        BY <4>1
      <4> QED
        BY <4>2
    <3> QED
      BY <3>1
  <2>3. to \in [pairs -> AllBytes]
    BY <2>1
  <2> HIDE DEF to, pairs
  <2> QED
    BY <2>2, <2>3 DEF Surjection
<1>6. IsFiniteSet(AllBytes)
  BY <1>4, <1>5, FS_Surjection
<1> QED
  BY <1>1, <1>6, FS_Product, FS_CardinalityType DEF MostSweeps

(* The sweeps come to an end, and then describe the instructions.             *)
LEMMA LivenessIs ==
  ASSUME Proper, NEW removed
  PROVE  /\ Liveness(removed) \in ByteLabels
         /\ \A i \in DOMAIN code \ removed :
               Liveness(removed)[i] = LiveIn(removed, Liveness(removed), i)
<1> DEFINE n == MostSweeps + 1
           none == [i \in DOMAIN code |-> {}]
           st == [k \in 1..n |-> [live \in ByteLabels |-> Sweep(removed, live)]]
           Rhs(h) == [k \in 0..n |-> IF k = 0 THEN none ELSE Sweep(removed, h[k - 1])]
<1>1. n \in Nat /\ MostSweeps \in Nat /\ MostSweeps < n
  BY BytesAreFinite
<1>2. st \in [1..n -> [ByteLabels -> ByteLabels]] /\ none \in ByteLabels
  BY SweepType DEF ByteLabels
<1>3. PICK f : Iterates(st, none, ByteLabels, f, n)
  <2>1. n \in Nat
    BY <1>1
  <2> HIDE DEF st, n, none, Rhs
  <2> QED
    BY <1>2, <2>1, Recursion
<1> HIDE DEF none
<1>4. \A k \in 1..n : k - 1 \in 0..n /\ k \in 0..n /\ k # 0
  BY <1>1
<1>5. \A k \in 1..n : f[k] = Sweep(removed, f[k - 1])
  BY <1>3, <1>4 DEF Iterates
<1>6. f = Rhs(f)
  <2>1. \A k \in 0..n : f[k] = Rhs(f)[k]
    <3>1. \A k \in 0..n : k = 0 \/ k \in 1..n
      BY <1>1
    <3> QED
      BY <1>3, <1>4, <1>5, <3>1 DEF Iterates
  <2>2. f = [k \in 0..n |-> f[k]] /\ Rhs(f) = [k \in 0..n |-> Rhs(f)[k]]
    BY <1>3 DEF Iterates
  <2> HIDE DEF Rhs
  <2> QED
    BY <2>1, <2>2
<1> DEFINE g == CHOOSE h : h = Rhs(h)
<1>7. g = Rhs(g)
  <2> HIDE DEF Rhs
  <2> QED
    BY <1>6
<1>8. Liveness(removed) = g[CHOOSE k \in 0..MostSweeps : g[k + 1] = g[k]]
  BY DEF Liveness, none
<1>9. g[0] = none /\ \A k \in 0..MostSweeps : g[k + 1] = Sweep(removed, g[k])
  <2>1. \A k \in 0..n : g[k] = Rhs(g)[k]
    BY <1>7
  <2>2. 0 \in 0..n /\ \A k \in 0..MostSweeps : k + 1 \in 0..n /\ k + 1 # 0 /\ (k + 1) - 1 = k
    BY <1>1
  <2> HIDE DEF g, n
  <2>3. \A j \in 0..n : j # 0 => g[j] = Sweep(removed, g[j - 1])
    BY <2>1
  <2>4. ASSUME NEW k \in 0..MostSweeps PROVE g[k + 1] = Sweep(removed, g[k])
    <3>1. PICK j \in 0..n : j = k + 1 /\ j # 0 /\ j - 1 = k
      BY <2>2
    <3> QED
      BY <2>3, <3>1
  <2> QED
    BY <2>1, <2>2, <2>4
<1> HIDE DEF g
<1>10. ASSUME NEW m \in 0..n PROVE g[m] \in ByteLabels
  <2> DEFINE S == {k \in 0..m : g[k] \in ByteLabels}
  <2>1. 0 \in S
    BY <1>1, <1>2, <1>9
  <2>2. ASSUME NEW k \in S, k < m PROVE k + 1 \in S
    <3>1. k + 1 \in 0..m /\ k \in 0..MostSweeps
      BY <1>1, <1>10, <2>2
    <3> QED
      BY <1>9, <3>1, SweepType
  <2>3. S \in SUBSET (0..m) /\ m \in Nat
    BY <1>1
  <2>4. m \in S
    <3> HIDE DEF S
    <3> QED
      BY <2>1, <2>2, <2>3, Climb
  <2> QED
    BY <2>4
<1>11. ASSUME NEW m \in 0..MostSweeps PROVE Below(g[m], g[m + 1])
  <2> DEFINE S == {k \in 0..m : Below(g[k], g[k + 1])}
  <2>1. 0 \in S
    <3>1. Below(none, g[0 + 1])
      BY DEF Below, none
    <3> QED
      BY <1>1, <1>9, <3>1
  <2>2. ASSUME NEW k \in S, k < m PROVE k + 1 \in S
    <3>1. PICK j \in 0..MostSweeps : j = k + 1 /\ j \in 0..m
      BY <1>1, <1>11, <2>2
    <3>2. k \in 0..MostSweeps /\ k \in 0..n /\ j \in 0..n
      BY <1>1, <3>1
    <3>3. Below(g[k], g[j]) /\ g[k] \in ByteLabels /\ g[j] \in ByteLabels
      BY <1>10, <3>1, <3>2
    <3>4. g[j] = Sweep(removed, g[k]) /\ g[j + 1] = Sweep(removed, g[j])
      BY <1>9, <3>1, <3>2
    <3> QED
      BY <3>1, <3>3, <3>4, SweepGrows
  <2>3. S \in SUBSET (0..m) /\ m \in Nat
    BY <1>1
  <2>4. m \in S
    <3> HIDE DEF S
    <3> QED
      BY <2>1, <2>2, <2>3, Climb
  <2> QED
    BY <2>4
(* Or else there would be more bytes than there are.                          *)
<1>12. \E k \in 0..MostSweeps : g[k + 1] = g[k]
  <2> SUFFICES ASSUME \A k \in 0..MostSweeps : g[k + 1] # g[k] PROVE FALSE
    OBVIOUS
  <2> DEFINE All == (DOMAIN code) \X AllBytes
             G(k) == {x \in All : x[2] \in g[k][x[1]]}
             S == {k \in 0..n : k <= Cardinality(G(k))}
  <2>1. \A k \in 0..n : IsFiniteSet(G(k)) /\ Cardinality(G(k)) \in Nat /\ Cardinality(G(k)) <= MostSweeps
    <3>1. \A k \in 0..n : G(k) \in SUBSET All
      OBVIOUS
    <3>2. IsFiniteSet(All) /\ Cardinality(All) = MostSweeps
      BY BytesAreFinite DEF MostSweeps
    <3> HIDE DEF G, All
    <3> QED
      BY <3>1, <3>2, FS_Subset, FS_CardinalityType
  <2>2. 0 \in S
    BY <1>1, <2>1
  <2>3. ASSUME NEW k \in S, k < n PROVE k + 1 \in S
    <3>1. k \in 0..MostSweeps /\ k \in 0..n /\ k + 1 \in 0..n
      BY <1>1, <2>3
    <3>2. g[k] \in ByteLabels /\ g[k + 1] \in ByteLabels /\ Below(g[k], g[k + 1]) /\ g[k] # g[k + 1]
      BY <1>10, <1>11, <3>1
    <3>3. G(k) \in SUBSET G(k + 1)
      BY <3>2 DEF Below
    <3>4. G(k) # G(k + 1)
      <4>1. PICK i \in DOMAIN code : g[k][i] # g[k + 1][i]
        BY <3>2 DEF ByteLabels
      <4>2. PICK d : d \in g[k + 1][i] /\ d \notin g[k][i]
        BY <3>2, <4>1 DEF Below
      <4>3. <<i, d>> \in All
        BY <3>2, <4>2 DEF ByteLabels
      <4> QED
        BY <4>2, <4>3
    <3>5. Cardinality(G(k)) < Cardinality(G(k + 1))
      <4> HIDE DEF G
      <4> QED
        BY <2>1, <3>1, <3>3, <3>4, FS_Subset
    <3>6. k <= Cardinality(G(k))
      BY <2>3
    <3> HIDE DEF G
    <3> QED
      BY <2>1, <3>1, <3>5, <3>6
  <2>4. n \in S
    <3>1. S \in SUBSET (0..n)
      OBVIOUS
    <3>2. n \in Nat
      BY <1>1
    <3> HIDE DEF S, n
    <3> QED
      BY <2>2, <2>3, <3>1, <3>2, Climb
  <2>5. n \in 0..n
    BY <1>1
  <2>6. n <= Cardinality(G(n))
    BY <2>4
  <2> HIDE DEF G
  <2> QED
    BY <1>1, <2>1, <2>5, <2>6
<1>13. PICK k \in 0..MostSweeps : g[k + 1] = g[k] /\ Liveness(removed) = g[k]
  BY <1>8, <1>12
<1>14. k \in 0..n
  BY <1>1
<1> QED
  BY <1>9, <1>10, <1>13, <1>14, SweepSettles

-----------------------------------------------------------------------------
(* What is removed                                                            *)

Framed == L \in Layout /\ L.spills > 0 /\ L.saves > 0

\* A pair that was removed gives rax back to the slot it came from.
Pair(i, j) == /\ i \in 2..Len(code) /\ j = i + 1 /\ j \in 2..Len(code)
              /\ ParkLoad(code[i]) /\ ParkStore(code[j]) /\ code[i].disp = code[j].disp

Removed(D, C) ==
    /\ C \subseteq D /\ D \subseteq 2..Len(code)
    /\ \A i \in D : code[i].op = "store" \/ (ParkLoad(code[i]) /\ i + 1 \in C)
    /\ \A j \in C : j - 1 \in D /\ Pair(j - 1, j)
    /\ \A i \in DOMAIN code : IsJump(i) => code[i].to \notin D

\* ByteLabels that describe what is live, whatever was removed.
Describe(lab, D, C) ==
    /\ \A i \in DOMAIN code \ D :
          /\ FrameReads(i) \subseteq lab[i]
          /\ code[i].op \notin {"jmp", "ret"} => lab[i + 1] \ Overwrites(i) \subseteq lab[i]
          /\ IsJump(i) => lab[code[i].to] \subseteq lab[i]
    /\ \A i \in D : lab[i + 1] \subseteq lab[i]
    /\ \A i \in D \ C : code[i].op = "store" => Overwrites(i) # {} /\ Overwrites(i) \cap lab[i + 1] = {}

LEMMA KindOf ==
  ASSUME Proper, Framed, NEW i \in DOMAIN code
  PROVE  /\ code[i].op \in {"store", "load", "alu", "jmp", "jcc", "ret"}
         /\ code[i].op \in {"store", "load"} => code[i].reg \in Regs /\ code[i].disp \in Slots /\ code[i].width \in {4, 8}
         /\ ParkLoad(code[i]) => i # 1 /\ code[i].reg = "rax" /\ code[i].width = 8
         /\ ParkStore(code[i]) => i # 1 /\ code[i].reg = "rax" /\ code[i].width = 8
         /\ code[i].op = "alu" => code[i].reg \in Regs /\ code[i].reads \in SUBSET Regs
         /\ i # 1 => i \in 2..Len(code)
<1>1. Spill \notin Parked /\ SavedSlot \notin Parked
  BY SlotsAre DEF Framed
<1>2. CASE i = 1
  BY <1>1, <1>2 DEF Proper, StoreTo, ParkLoad, ParkStore, Slots, Regs
<1>3. CASE i # 1
  <2>1. i \in 2..Len(code) /\ code[i] \in Kinds
    BY <1>3 DEF Proper
  <2> QED
    BY <1>1, <1>3, <2>1, KindsAre DEF Slots, Parked
<1> QED
  BY <1>2, <1>3

LEMMA BytesOf ==
  ASSUME Proper, Framed, NEW i \in DOMAIN code
  PROVE  /\ code[i].op # "store" => Overwrites(i) = {}
         /\ code[i].op # "load" => FrameReads(i) = {}
         /\ \A d \in Overwrites(i) : Private(d) /\ d \in Halves4(i)
         /\ Overwrites(i) # {} => Overwrites(i) = Halves4(i)
         /\ code[i].op = "load" => \A d \in Halves4(i) : Private(d) => d \in FrameReads(i)
         /\ Overwrites(1) = {}
<1>1. code[1] = StoreTo(SavedSlot, "rbx", 8) /\ ~Within(SavedSlot, 8)
  BY SlotsAre DEF Proper, Framed
<1>2. Overwrites(1) = {}
  BY <1>1 DEF Overwrites, StoreTo
<1>3. code[i].op = "store" => code[i].disp \in Int /\ code[i].width \in {4, 8}
  BY KindOf, SlotsAre DEF Slots, Framed
<1>4. ASSUME code[i].op = "store", Within(code[i].disp, code[i].width), NEW d \in Halves4(i)
      PROVE  Private(d)
  <2>1. PICK h \in Halves : h < code[i].width /\ d = code[i].disp + h
    BY DEF Halves4
  <2>2. PICK r \in PrivateRanges(L) : r.lo <= code[i].disp /\ code[i].disp + code[i].width <= r.hi
    BY <1>4 DEF Within
  <2>3. r.lo \in Int /\ r.hi \in Int
    BY <2>2 DEF Framed, Layout, PrivateRanges, Range8, SpillDisp, ScratchDisp, OutgoingEnd, Shadow, SHADOW, SCRATCH_SLOTS
  <2>4. h \in {0, 4}
    BY <2>1 DEF Halves
  <2>5. r.lo <= d /\ d < r.hi
    BY <1>3, <1>4, <2>1, <2>2, <2>3, <2>4
  <2> QED
    BY <2>2, <2>5 DEF Private
<1> QED
  BY <1>2, <1>4 DEF Overwrites, FrameReads

(* The next instruction that is there, or what follows one that is not.       *)
LEMMA FollowingIs ==
  ASSUME Proper, NEW R, NEW i \in DOMAIN code, i < Len(code)
  PROVE  /\ i + 1 \in DOMAIN code
         /\ i + 1 \notin R => Following(R, i) = {i + 1}
         /\ i + 1 \in R => Following(R, i) = Following(R, i + 1)
<1>1. Len(code) \in Nat /\ DOMAIN code = 1..Len(code) /\ i \in Int /\ i + 1 \in DOMAIN code
  BY DEF Proper
<1>2. ASSUME i + 1 \notin R PROVE Following(R, i) = {i + 1}
  <2>1. ASSUME NEW j \in DOMAIN code \ R, i < j, \A k \in i + 1..j - 1 : k \in R PROVE j = i + 1
    <3>1. i + 1 \notin i + 1..j - 1
      BY <1>2, <2>1
    <3> QED
      BY <1>1, <2>1, <3>1
  <2>2. i < i + 1 /\ \A k \in i + 1..(i + 1) - 1 : k \in R
    BY <1>1
  <2> QED
    BY <1>1, <1>2, <2>1, <2>2 DEF Following
<1>3. ASSUME i + 1 \in R PROVE Following(R, i) = Following(R, i + 1)
  <2>1. ASSUME NEW j \in DOMAIN code \ R
        PROVE  (i < j /\ \A k \in i + 1..j - 1 : k \in R) <=> (i + 1 < j /\ \A k \in i + 2..j - 1 : k \in R)
    <3>1. j \in Int /\ j # i + 1
      BY <1>1, <1>3
    <3>2. i < j => \A k \in i + 1..j - 1 : k = i + 1 \/ k \in i + 2..j - 1
      BY <1>1, <3>1
    <3>3. \A k \in i + 2..j - 1 : k \in i + 1..j - 1
      BY <1>1, <3>1
    <3> QED
      BY <1>1, <1>3, <3>1, <3>2, <3>3
  <2>2. (i + 1) + 1 = i + 2
    BY <1>1
  <2> QED
    BY <2>1, <2>2 DEF Following
<1> QED
  BY <1>1, <1>2, <1>3

(* A pair is a restore of rax and, right behind it, its save.                 *)
LEMMA PairsAre ==
  ASSUME Proper, Framed, NEW C, Removed(dead, C), NEW p \in Roundtrips(dead)
  PROVE  /\ Pair(p[1], p[2]) /\ p[1] \notin dead /\ p[2] \notin dead
         /\ \A k \in DOMAIN code : IsJump(k) => code[k].to # p[1] /\ code[k].to # p[2]
<1> DEFINE i == p[1]
           j == p[2]
<1>1. /\ i \in DOMAIN code \ dead /\ j \in Following(dead, i)
      /\ Transfers(i, "load") /\ Transfers(j, "store")
      /\ code[i].reg = code[j].reg /\ code[i].disp = code[j].disp /\ j \notin Targets(dead)
  BY DEF Roundtrips
<1> HIDE DEF i, j
<1>2. code[i].op = "load" /\ code[j].op = "store" /\ j \in DOMAIN code \ dead
  BY <1>1 DEF Transfers, Following
<1>3. i # 1 /\ i \in 2..Len(code) /\ i < Len(code)
  <2>1. code[1].op = "store"
    BY DEF Proper, StoreTo
  <2> QED
    BY <1>1, <1>2, <2>1, KindOf DEF Proper
<1>4. i + 1 \in DOMAIN code /\ (i + 1 \notin dead => j = i + 1) /\ (i + 1 \in dead => j \in Following(dead, i + 1))
  BY <1>1, <1>3, FollowingIs
<1>5. ParkLoad(code[i])
  <2> SUFFICES ASSUME ~ParkLoad(code[i]) PROVE FALSE
    OBVIOUS
  <2>1. code[i + 1].op \in {"alu", "ret"}
    BY <1>2, <1>3 DEF Proper, HomeLoad, ParkLoad
  <2>2. i + 1 \notin dead
    BY <2>1 DEF Removed, ParkLoad
  <2> QED
    BY <1>2, <1>4, <2>1, <2>2
<1>6. i + 1 \notin dead
  <2> SUFFICES ASSUME i + 1 \in dead PROVE FALSE
    OBVIOUS
  <2>1. Opening(code[i + 1]) /\ i + 1 \in 2..Len(code)
    BY <1>3, <1>5 DEF Proper
  <2>2. ParkStore(code[i + 1])
    BY <2>1 DEF Opening, Removed
  <2>3. i + 1 < Len(code) /\ SetsRax(code[(i + 1) + 1])
    BY <2>1, <2>2 DEF Proper
  <2>4. code[(i + 1) + 1].op # "store" /\ (i + 1) + 1 \notin dead
    BY <2>3 DEF SetsRax, Removed
  <2>5. Following(dead, i + 1) = {(i + 1) + 1}
    BY <1>4, <2>3, <2>4, FollowingIs
  <2> QED
    BY <1>2, <1>4, <2>4, <2>5
<1>7. Pair(i, j)
  BY <1>1, <1>2, <1>3, <1>4, <1>5, <1>6 DEF Pair, ParkLoad, ParkStore, Proper
<1>8. ASSUME NEW k \in DOMAIN code, IsJump(k) PROVE code[k].to # i /\ code[k].to # j
  <2>1. k # 1
    BY <1>8 DEF Proper, IsJump, StoreTo
  <2>2. k \in 2..Len(code)
    BY <2>1 DEF Proper
  <2>3. Opening(code[code[k].to])
    BY <1>8, <2>2 DEF Proper
  <2>4. k \notin dead
    BY <1>8 DEF Removed, IsJump, ParkLoad
  <2>5. code[k].to \in Targets(dead)
    BY <1>8, <2>4 DEF Targets
  <2> QED
    BY <1>1, <1>5, <2>3, <2>5 DEF Opening
<1> QED
  BY <1>1, <1>2, <1>7, <1>8 DEF i, j

\* What a round removes.
Gone == UNION {{p[1], p[2]} : p \in Roundtrips(dead)}
Round == (Gone \cup DeadStores(dead \cup Gone)) \ Targets(dead)
Cut == {p[2] : p \in {q \in Roundtrips(dead) : q[1] \in Round}}

LEMMA GoneIs ==
  ASSUME Proper, Framed, NEW C, Removed(dead, C)
  PROVE  /\ \A i \in Gone : \/ Pair(i, i + 1) /\ i + 1 \in Cut /\ i + 1 \in Gone
                            \/ Pair(i - 1, i) /\ i \in Cut /\ i - 1 \in Gone
         /\ Gone \cap Targets(dead) = {} /\ Gone \cap dead = {} /\ Gone \subseteq Round
         /\ \A j \in Cut : Pair(j - 1, j) /\ j \in Gone /\ j - 1 \in Gone
         /\ \A k \in DOMAIN code : IsJump(k) => code[k].to \notin Gone /\ code[k].to \in Targets(dead)
<1>1. \A p \in Roundtrips(dead) : p[2] = p[1] + 1 /\ p[1] = p[2] - 1
  BY PairsAre DEF Pair
<1>2. \A k \in DOMAIN code : IsJump(k) => code[k].to \notin Gone
  BY PairsAre DEF Gone
<1>3. Gone \cap dead = {}
  BY PairsAre DEF Gone
<1>4. \A k \in DOMAIN code : IsJump(k) => code[k].to \in Targets(dead)
  BY DEF Targets, Removed, IsJump, ParkLoad
<1>5. Gone \cap Targets(dead) = {}
  BY <1>2 DEF Targets
<1>6. Gone \subseteq Round
  BY <1>5 DEF Round
<1>7. \A p \in Roundtrips(dead) : p[1] \in Gone /\ p[2] \in Gone /\ p[2] \in Cut
  BY <1>6 DEF Gone, Cut
<1>8. \A j \in Cut : \E p \in Roundtrips(dead) : j = p[2]
  BY DEF Cut
<1>9. \A i \in Gone : \E p \in Roundtrips(dead) : i = p[1] \/ i = p[2]
  BY DEF Gone
<1> QED
  BY <1>1, <1>2, <1>3, <1>4, <1>5, <1>6, <1>7, <1>8, <1>9, PairsAre

(* The labels as they were, with what a removed save wrote, and the liveness  *)
(* the round found, describe what is left.                                    *)
LEMMA RoundKeeps ==
  ASSUME Proper, Framed, NEW C, Removed(dead, C), NEW lab, Describe(lab, dead, C)
  PROVE  /\ Removed(dead \cup Round, C \cup Cut)
         /\ \E new : Describe(new, dead \cup Round, C \cup Cut)
<1> DEFINE R == dead \cup Gone
           lv == Liveness(R)
           Stores == DeadStores(R)
           D1 == dead \cup Round
           C1 == C \cup Cut
           A(i) == lab[i] \cup (IF i \in Cut THEN lab[i + 1] ELSE {})
           B(i) == IF i \in R THEN UNION {lv[j] : j \in Following(R, i)} ELSE lv[i]
           new == [i \in DOMAIN code |-> A(i) \cap B(i)]
<1>a. Len(code) \in Nat /\ DOMAIN code = 1..Len(code)
  BY DEF Proper
<1>1. \A i \in Stores : /\ i \in DOMAIN code \ R /\ Overwrites(i) # {} /\ code[i].op = "store" /\ i # 1
                        /\ Overwrites(i) \cap LiveOut(R, lv, i) = {}
  BY BytesOf DEF DeadStores
<1>2. \A i \in D1 : i \in dead \/ i \in Gone \/ i \in Stores
  BY DEF Round
<1>3. R \subseteq D1
  BY GoneIs
<1>4. \A i \in D1 : i \in 2..Len(code) /\ (code[i].op = "store" \/ (ParkLoad(code[i]) /\ i + 1 \in C1))
  <2>1. ASSUME NEW i \in D1 PROVE i \in 2..Len(code) /\ (code[i].op = "store" \/ (ParkLoad(code[i]) /\ i + 1 \in C1))
    <3>1. CASE i \in dead
      BY <3>1 DEF Removed
    <3>2. CASE i \in Gone
      <4>1. (Pair(i, i + 1) /\ i + 1 \in C1) \/ Pair(i - 1, i)
        BY <3>2, GoneIs
      <4> HIDE DEF C1
      <4> QED
        BY <4>1 DEF Pair, ParkStore
    <3>3. CASE i \in Stores
      <4>1. i \in DOMAIN code /\ i # 1 /\ code[i].op = "store"
        BY <3>3, <1>1
      <4> QED
        BY <4>1, <1>a
    <3> QED
      BY <1>2, <3>1, <3>2, <3>3
  <2> QED
    BY <2>1
<1>5. Removed(D1, C1)
  <2>1. C1 \subseteq D1
    BY <1>3, GoneIs DEF Removed
  <2>2. \A j \in C1 : j - 1 \in D1 /\ Pair(j - 1, j)
    BY <1>3, GoneIs DEF Removed
  <2>3. \A i \in DOMAIN code : IsJump(i) => code[i].to \notin D1
    BY GoneIs DEF Removed, Round
  <2> QED
    BY <1>4, <2>1, <2>2, <2>3 DEF Removed
<1>6. lv \in ByteLabels /\ \A i \in DOMAIN code \ R : lv[i] = (LiveOut(R, lv, i) \ Overwrites(i)) \cup FrameReads(i)
  BY LivenessIs DEF LiveIn
<1>7. \A i \in DOMAIN code : i + 1 \in Cut => i \in Gone /\ ParkLoad(code[i])
  <2>1. ASSUME NEW i \in DOMAIN code, i + 1 \in Cut PROVE i \in Gone /\ ParkLoad(code[i])
    <3>1. (i + 1) - 1 = i
      BY <1>a
    <3> QED
      BY <2>1, <3>1, GoneIs DEF Pair
  <2> QED
    BY <2>1
<1>8. \A i \in DOMAIN code : i < Len(code) => B(i + 1) = UNION {lv[j] : j \in Following(R, i)}
  <2>1. ASSUME NEW i \in DOMAIN code, i < Len(code) PROVE B(i + 1) = UNION {lv[j] : j \in Following(R, i)}
    <3> HIDE DEF lv, R
    <3>1. CASE i + 1 \in R
      BY <2>1, <3>1, FollowingIs
    <3>2. CASE i + 1 \notin R
      BY <2>1, <3>2, FollowingIs
    <3> QED
      BY <3>1, <3>2
  <2> QED
    BY <2>1
<1>9. \A i \in DOMAIN code : code[i].op \notin {"jmp", "ret"} => i < Len(code) /\ i + 1 \in DOMAIN code
  BY <1>a DEF Proper
<1>10. \A i \in DOMAIN code : IsJump(i) =>
         code[i].to \in DOMAIN code /\ code[i].to \notin R /\ code[i].to \notin D1 /\ code[i].to \notin Cut
  <2>1. ASSUME NEW i \in DOMAIN code, IsJump(i) PROVE code[i].to \in DOMAIN code
    <3>1. i # 1
      BY <2>1 DEF Proper, IsJump, StoreTo
    <3> QED
      BY <2>1, <3>1, <1>a DEF Proper
  <2>2. \A i \in DOMAIN code : IsJump(i) => code[i].to \notin D1
    BY <1>5 DEF Removed
  <2>3. Cut \subseteq D1
    BY <1>3, GoneIs
  <2> QED
    BY <1>3, <2>1, <2>2, <2>3
<1>11. ASSUME NEW i \in DOMAIN code \ R
       PROVE  /\ FrameReads(i) \subseteq B(i)
              /\ code[i].op \notin {"jmp", "ret"} => B(i + 1) \ Overwrites(i) \subseteq B(i)
              /\ code[i].op \notin {"jmp", "ret"} => B(i + 1) \subseteq LiveOut(R, lv, i)
              /\ IsJump(i) => B(code[i].to) \subseteq B(i)
  <2>1. FrameReads(i) \subseteq B(i)
    BY <1>6
  <2>2. ASSUME code[i].op \notin {"jmp", "ret"} PROVE B(i + 1) \subseteq LiveOut(R, lv, i)
    <3>1. B(i + 1) = UNION {lv[j] : j \in Following(R, i)}
      BY <1>8, <1>9, <2>2
    <3> QED
      BY <2>2, <3>1 DEF LiveOut, Succs
  <2>3. code[i].op \notin {"jmp", "ret"} => B(i + 1) \ Overwrites(i) \subseteq B(i)
    <3>1. LiveOut(R, lv, i) \ Overwrites(i) \subseteq B(i)
      BY <1>6
    <3> HIDE DEF B, lv, R
    <3> QED
      BY <2>2, <3>1
  <2>4. ASSUME IsJump(i) PROVE B(code[i].to) \subseteq B(i)
    <3>1. B(code[i].to) = lv[code[i].to] /\ code[i].to \in Succs(R, i)
      BY <1>10, <2>4 DEF Succs
    <3>2. Overwrites(i) = {}
      BY <2>4, BytesOf DEF IsJump
    <3>3. LiveOut(R, lv, i) \subseteq B(i)
      BY <1>6, <3>2
    <3>4. lv[code[i].to] \subseteq LiveOut(R, lv, i)
      BY <3>1 DEF LiveOut
    <3> HIDE DEF B, lv, R
    <3> QED
      BY <3>1, <3>3, <3>4
  <2> QED
    BY <2>1, <2>2, <2>3, <2>4
<1> HIDE DEF B, lv, Stores
<1>12. ASSUME NEW i \in DOMAIN code, i + 1 \notin Cut PROVE A(i + 1) = lab[i + 1] /\ lab[i] \subseteq A(i)
  BY <1>12
<1>13. ASSUME NEW i \in DOMAIN code \ D1
       PROVE  /\ FrameReads(i) \subseteq new[i]
              /\ code[i].op \notin {"jmp", "ret"} => new[i + 1] \ Overwrites(i) \subseteq new[i]
              /\ IsJump(i) => new[code[i].to] \subseteq new[i]
  <2>1. i \in DOMAIN code \ R /\ i \in DOMAIN code \ dead /\ i + 1 \notin Cut
    BY <1>3, <1>7
  <2>2. /\ FrameReads(i) \subseteq lab[i]
        /\ code[i].op \notin {"jmp", "ret"} => lab[i + 1] \ Overwrites(i) \subseteq lab[i]
        /\ IsJump(i) => lab[code[i].to] \subseteq lab[i]
    BY <2>1 DEF Describe
  <2>3. A(i + 1) = lab[i + 1] /\ lab[i] \subseteq A(i)
    BY <1>12, <2>1
  <2>4. IsJump(i) => A(code[i].to) = lab[code[i].to]
    BY <1>10
  <2> HIDE DEF A, R, D1
  <2> QED
    BY <1>9, <1>10, <1>11, <2>1, <2>2, <2>3, <2>4
<1>14. ASSUME NEW i \in D1 PROVE new[i + 1] \subseteq new[i] /\ i \in DOMAIN code /\ i + 1 \in DOMAIN code
  <2>1. i \in DOMAIN code /\ code[i].op \notin {"jmp", "ret"} /\ i < Len(code) /\ i + 1 \in DOMAIN code
    BY <1>4, <1>9, <1>a DEF ParkLoad
  <2>2. CASE i \in R
    <3>1. B(i + 1) \subseteq B(i)
      BY <1>8, <2>1, <2>2 DEF B
    <3>2. A(i + 1) \subseteq A(i)
      <4>1. CASE i \in dead
        <5>1. lab[i + 1] \subseteq lab[i] /\ i \notin Gone
          BY <4>1, GoneIs DEF Describe
        <5> QED
          BY <1>7, <2>1, <5>1
      <4>2. CASE Pair(i, i + 1) /\ i + 1 \in Cut /\ i + 1 \in Gone /\ i \in Gone
        <5>1. i \notin dead /\ i + 1 \notin dead
          BY <4>2, GoneIs
        <5>2. code[i].op = "load" /\ code[i + 1].op = "store" /\ code[i].disp = code[i + 1].disp
              /\ code[i].width = 8 /\ code[i + 1].width = 8
          BY <2>1, <4>2, KindOf DEF Pair, ParkLoad, ParkStore
        <5>3. Overwrites(i) = {} /\ Overwrites(i + 1) \subseteq FrameReads(i)
          <6>1. Halves4(i) = Halves4(i + 1)
            BY <5>2 DEF Halves4
          <6> QED
            BY <2>1, <5>2, <6>1, BytesOf
        <5>4. i + 2 = (i + 1) + 1
          BY <2>1, <1>a
        <5>5. /\ FrameReads(i) \subseteq lab[i] /\ lab[i + 1] \subseteq lab[i]
              /\ lab[(i + 1) + 1] \ Overwrites(i + 1) \subseteq lab[i + 1]
          BY <2>1, <5>1, <5>2, <5>3 DEF Describe
        <5>6. A(i + 1) = lab[i + 1] \cup lab[(i + 1) + 1] /\ lab[i] \subseteq A(i)
          BY <4>2
        <5> HIDE DEF A
        <5> QED
          BY <5>3, <5>5, <5>6
      <4>3. CASE Pair(i - 1, i) /\ i \in Cut
        <5>1. A(i) = lab[i] \cup lab[i + 1]
          BY <4>3
        <5>2. i + 1 \notin Cut
          BY <1>7, <2>1, <4>3 DEF Pair, ParkLoad, ParkStore
        <5> QED
          BY <5>1, <5>2
      <4> QED
        BY <2>2, <4>1, <4>2, <4>3, GoneIs
    <3> HIDE DEF A
    <3> QED
      BY <2>1, <3>1, <3>2
  <2>3. CASE i \in Stores /\ i \notin R
    <3>1. B(i + 1) \subseteq LiveOut(R, lv, i) /\ B(i + 1) \ Overwrites(i) \subseteq B(i)
      BY <1>11, <2>1, <2>3
    <3>2. Overwrites(i) \cap LiveOut(R, lv, i) = {}
      BY <1>1, <2>3
    <3>3. i \in DOMAIN code \ dead /\ i + 1 \notin Cut
      BY <1>7, <2>1, <2>3
    <3>4. lab[i + 1] \ Overwrites(i) \subseteq lab[i]
      BY <2>1, <3>3 DEF Describe
    <3>5. A(i + 1) = lab[i + 1] /\ lab[i] \subseteq A(i)
      BY <1>12, <2>1, <3>3
    <3> HIDE DEF A, R
    <3> QED
      BY <2>1, <3>1, <3>2, <3>4, <3>5
  <2> QED
    BY <1>2, <2>1, <2>2, <2>3
<1>15. ASSUME NEW i \in D1 \ C1, code[i].op = "store" PROVE Overwrites(i) # {} /\ Overwrites(i) \cap new[i + 1] = {}
  <2>1. i \in DOMAIN code /\ i + 1 \in DOMAIN code
    BY <1>14
  <2>2. i \notin Gone
    BY <1>15, GoneIs DEF Pair, ParkLoad
  <2>3. CASE i \in dead
    <3>1. i + 1 \notin Cut
      BY <1>7, <2>1, <2>2
    <3>2. Overwrites(i) # {} /\ Overwrites(i) \cap lab[i + 1] = {}
      BY <1>15, <2>3 DEF Describe
    <3> QED
      BY <2>1, <3>1, <3>2
  <2>4. CASE i \in Stores /\ i \notin dead
    <3>1. B(i + 1) \subseteq LiveOut(R, lv, i) /\ Overwrites(i) # {} /\ Overwrites(i) \cap LiveOut(R, lv, i) = {}
      BY <1>1, <1>11, <2>1, <2>2, <2>4
    <3> QED
      BY <2>1, <3>1
  <2> QED
    BY <1>2, <2>2, <2>3, <2>4
<1>16. Describe(new, D1, C1)
  <2> HIDE DEF new, D1, C1
  <2> QED
    BY <1>13, <1>14, <1>15 DEF Describe
<1> HIDE DEF new
<1> QED
  BY <1>5, <1>16

-----------------------------------------------------------------------------
(* The two machines                                                           *)

\* The machine with everything and the one without what was removed, at i.
MachinesAgree(lab, b, a, i) ==
    /\ \A d \in Int : (<<"frame", d>> \in Places /\ a[<<"frame", d>>] # b[<<"frame", d>>]) =>
                         Private(d) /\ d \notin lab[i]
    /\ \A r \in Regs, h \in Halves : a[<<r, h>>] # b[<<r, h>>] => r = "rax" /\ (i \in cut \/ i - 1 \in cut)
    /\ i \in cut => \A h \in Halves : b[<<"rax", h>>] = b[<<"frame", code[i].disp + h>>]

LEMMA PlacesAre ==
  ASSUME Proper, Framed
  PROVE  /\ \A r \in Regs, h \in Halves : <<r, h>> \in Places /\ r # "frame"
         /\ \A d \in Slots, h \in Halves : d \in Int /\ d + h \in Int /\ <<"frame", d + h>> \in Places
         /\ \A p \in Places : \/ \E r \in Regs, h \in Halves : p = <<r, h>>
                              \/ \E d \in Int : p = <<"frame", d>>
         /\ \A h \in Halves : h \in Int /\ h < 8
<1>1. \A d \in Slots : d \in Int
  BY SlotsAre DEF Slots, Framed
<1>2. \A h \in Halves : h \in Int /\ h < 8
  BY DEF Halves
<1>3. \A r \in Regs, h \in Halves : <<r, h>> \in Places /\ r # "frame"
  BY DEF Places, Regs
<1>4. \A d \in Slots, h \in Halves : d + h \in Int /\ <<"frame", d + h>> \in Places
  BY <1>1, <1>2 DEF Places, Slots
<1>5. \A p \in Places : \/ \E r \in Regs, h \in Halves : p = <<r, h>>
                        \/ \E d \in Int : p = <<"frame", d>>
  <2>1. ASSUME NEW p \in Places, p \notin Regs \X Halves PROVE \E d \in Int : p = <<"frame", d>>
    <3>1. PICK d \in Slots, h \in Halves : p = <<"frame", d + h>>
      BY <2>1 DEF Places, Slots
    <3>2. d + h \in Int
      BY <1>1, <1>2
    <3> QED
      BY <3>1, <3>2
  <2> QED
    BY <2>1
<1> QED
  BY <1>1, <1>2, <1>3, <1>4, <1>5

\* What an instruction makes of machine m.
Made(m, i, n) ==
    /\ \A r \in Regs, h \in Halves :
          /\ code[i].op = "load" /\ code[i].reg = r => n[<<r, h>>] =
                IF h < code[i].width THEN m[<<"frame", code[i].disp + h>>] ELSE <<>>
          /\ code[i].op = "alu" /\ code[i].reg = r => n[<<r, h>>] = <<i, lap, h>>
          /\ code[i].op \notin {"load", "alu"} \/ code[i].reg # r => n[<<r, h>>] = m[<<r, h>>]
    /\ \A d \in Int : <<"frame", d>> \in Places => n[<<"frame", d>>] =
          IF code[i].op = "store" /\ d \in Halves4(i)
          THEN m[<<code[i].reg, d - code[i].disp>>] ELSE m[<<"frame", d>>]
    /\ code[i].op = "store" => \A d \in Halves4(i) : d - code[i].disp \in Halves

LEMMA ExecIs ==
  ASSUME Proper, Framed, NEW m, NEW i \in DOMAIN code
  PROVE  Made(m, i, Exec(m, i))
<1>1. code[i].op \in {"store", "load"} => code[i].reg \in Regs /\ code[i].disp \in Int /\ code[i].width \in Int
  BY KindOf, SlotsAre DEF Slots, Framed
<1>2. code[i].op = "alu" => code[i].reg \in Regs
  BY KindOf
<1>3. ASSUME NEW r \in Regs, NEW h \in Halves
      PROVE  /\ code[i].op = "load" /\ code[i].reg = r => Exec(m, i)[<<r, h>>] =
                   IF h < code[i].width THEN m[<<"frame", code[i].disp + h>>] ELSE <<>>
             /\ code[i].op = "alu" /\ code[i].reg = r => Exec(m, i)[<<r, h>>] = <<i, lap, h>>
             /\ code[i].op \notin {"load", "alu"} \/ code[i].reg # r => Exec(m, i)[<<r, h>>] = m[<<r, h>>]
  <2>1. <<r, h>> \in Places /\ r # "frame"
    BY PlacesAre
  <2>2. \A x : <<r, h>> # <<"frame", x>>
    BY <2>1
  <2>3. h \in Half(i) <=> h < code[i].width
    BY DEF Half
  <2>4. CASE code[i].op = "load"
    BY <2>1, <2>2, <2>3, <2>4 DEF Exec
  <2>5. CASE code[i].op = "alu"
    BY <2>1, <2>2, <2>5 DEF Exec
  <2>6. CASE code[i].op \notin {"load", "alu"}
    BY <2>1, <2>2, <2>6 DEF Exec
  <2> QED
    BY <2>4, <2>5, <2>6
<1>4. ASSUME NEW d \in Int, <<"frame", d>> \in Places
      PROVE  Exec(m, i)[<<"frame", d>>] =
              IF code[i].op = "store" /\ d \in Halves4(i)
              THEN m[<<code[i].reg, d - code[i].disp>>] ELSE m[<<"frame", d>>]
  <2>1. (\E h \in Half(i) : <<"frame", d>> = <<"frame", code[i].disp + h>>) <=> d \in Halves4(i)
    BY DEF Half, Halves4
  <2>2. "frame" \notin Regs
    BY DEF Regs
  <2>3. CASE code[i].op = "store"
    BY <1>4, <2>1, <2>3 DEF Exec
  <2>4. CASE code[i].op = "load"
    BY <1>1, <1>4, <2>2, <2>4 DEF Exec
  <2>5. CASE code[i].op = "alu"
    BY <1>2, <1>4, <2>2, <2>5 DEF Exec
  <2>6. CASE code[i].op \notin {"load", "alu", "store"}
    BY <1>4, <2>6 DEF Exec
  <2> QED
    BY <2>3, <2>4, <2>5, <2>6
<1>5. ASSUME code[i].op = "store", NEW d \in Halves4(i) PROVE d - code[i].disp \in Halves
  <2>1. PICK h \in Halves : d = code[i].disp + h
    BY DEF Halves4
  <2>2. h \in Int
    BY PlacesAre
  <2>3. d - code[i].disp = h
    BY <1>1, <1>5, <2>1, <2>2
  <2> QED
    BY <2>3
<1> QED
  BY <1>3, <1>4, <1>5 DEF Made

(* Where control goes.                                                        *)
Goes(i, to) == \/ to = i + 1 /\ code[i].op \notin {"jmp", "ret"}
               \/ IsJump(i) /\ to = code[i].to

LEMMA GoesIs ==
  ASSUME Proper, Framed, Removed(dead, cut), NEW i \in DOMAIN code, NEW to, Goes(i, to)
  PROVE  /\ to \in 2..Len(code) /\ to \in DOMAIN code
         /\ to \in cut => i \in dead /\ ParkLoad(code[i]) /\ to = i + 1 /\ to - 1 = i
                          /\ code[to].disp = code[i].disp
         /\ i \in dead => to = i + 1 /\ to - 1 = i /\ code[i].op \in {"store", "load"}
<1>1. Len(code) \in Nat /\ DOMAIN code = 1..Len(code)
  BY DEF Proper
<1>2. ASSUME IsJump(i) PROVE code[i].to \in 2..Len(code) /\ code[i].to \notin cut /\ i \notin dead
  <2>1. i # 1
    BY <1>2 DEF Proper, IsJump, StoreTo
  <2>2. code[i].to \in 2..Len(code)
    BY <1>1, <1>2, <2>1 DEF Proper
  <2>3. code[i].to \notin cut /\ i \notin dead
    BY <1>2 DEF Removed, IsJump, ParkLoad
  <2> QED
    BY <2>2, <2>3
<1>3. ASSUME ~(IsJump(i) /\ to = code[i].to) PROVE to = i + 1 /\ to - 1 = i /\ i < Len(code) /\ to \in 2..Len(code)
  BY <1>1, <1>3 DEF Goes, Proper
<1>4. to \in cut => to - 1 \in dead /\ Pair(to - 1, to)
  BY DEF Removed
<1>5. i \in dead => code[i].op \in {"store", "load"}
  BY DEF Removed, ParkLoad
<1> QED
  BY <1>1, <1>2, <1>3, <1>4, <1>5 DEF Pair

(* Behind a pair that was removed, rax is written.                            *)
LEMMA BehindPair ==
  ASSUME Proper, Framed, Removed(dead, cut), NEW i \in DOMAIN code, i - 1 \in cut
  PROVE  SetsRax(code[i]) /\ i \notin dead /\ code[i - 1].reg = "rax" /\ i - 1 \in DOMAIN code
<1>1. Pair((i - 1) - 1, i - 1)
  BY DEF Removed
<1>2. i \in Int /\ (i - 1) + 1 = i
  BY DEF Proper
<1>3. SetsRax(code[i]) /\ i - 1 \in DOMAIN code
  BY <1>1, <1>2 DEF Proper, Pair
<1>4. code[i - 1].reg = "rax"
  BY <1>1, <1>3, KindOf DEF Pair
<1>5. i \notin dead
  BY <1>3 DEF Removed, SetsRax
<1> QED
  BY <1>3, <1>4, <1>5

LEMMA StepAgrees ==
  ASSUME Proper, Framed, Removed(dead, cut), NEW lab, Describe(lab, dead, cut),
         NEW b, NEW a, NEW i \in DOMAIN code, NEW to, Goes(i, to), MachinesAgree(lab, b, a, i)
  PROVE  MachinesAgree(lab, Exec(b, i), IF i \in dead THEN a ELSE Exec(a, i), to)
<1> DEFINE b1 == Exec(b, i)
           a2 == Exec(a, i)
           a1 == IF i \in dead THEN a ELSE a2
           c == code[i]
<1>x. Made(b, i, b1) /\ Made(a, i, a2)
  BY ExecIs
<1> HIDE DEF b1, a2
<1>a. cut \subseteq dead /\ i + 1 \in Int /\ i \in Int
  BY DEF Removed, Proper
<1>1. i - 1 \in cut => SetsRax(c) /\ i \notin dead
  BY BehindPair
<1>2. /\ to \in DOMAIN code
      /\ to \in cut => i \in dead /\ ParkLoad(c) /\ to = i + 1 /\ to - 1 = i /\ code[to].disp = c.disp
      /\ i \in dead => to = i + 1 /\ to - 1 = i /\ c.op \in {"store", "load"}
  BY GoesIs
<1>3. c.op \in {"store", "load"} => c.reg \in Regs /\ c.disp \in Slots /\ c.width \in {4, 8}
  BY KindOf
<1>f. \A d \in Int : (<<"frame", d>> \in Places /\ a[<<"frame", d>>] # b[<<"frame", d>>]) =>
                         Private(d) /\ d \notin lab[i]
  BY DEF MachinesAgree
<1>r. \A r \in Regs, h \in Halves : a[<<r, h>>] # b[<<r, h>>] => r = "rax" /\ (i \in cut \/ i - 1 \in cut)
  BY DEF MachinesAgree
<1>l. i \notin dead => lab[to] \ Overwrites(i) \subseteq lab[i]
  <2>1. ASSUME i \notin dead, to = i + 1, c.op \notin {"jmp", "ret"} PROVE lab[to] \ Overwrites(i) \subseteq lab[i]
    BY <2>1 DEF Describe
  <2>2. ASSUME i \notin dead, IsJump(i), to = code[i].to PROVE lab[to] \ Overwrites(i) \subseteq lab[i]
    BY <2>2 DEF Describe
  <2> QED
    BY <2>1, <2>2 DEF Goes
(* The saves and restores themselves.                                         *)
<1>4. CASE i \in cut
  <2>1. i \in dead /\ i - 1 \in dead /\ Pair(i - 1, i) /\ a1 = a
    BY <1>4 DEF Removed
  <2>2. c.op = "store" /\ c.reg = "rax" /\ c.width = 8 /\ ~ParkLoad(c)
    BY <2>1, KindOf DEF Pair, ParkStore, ParkLoad
  <2>3. to = i + 1 /\ to - 1 = i /\ to \notin cut
    BY <1>2, <2>1, <2>2
  <2>4. \A r \in Regs, h \in Halves : b1[<<r, h>>] = b[<<r, h>>]
    BY <2>2, <1>x DEF Made
  <2>5. ASSUME NEW d \in Int, <<"frame", d>> \in Places PROVE b1[<<"frame", d>>] = b[<<"frame", d>>]
    <3>1. CASE d \in Halves4(i)
      <4>1. b1[<<"frame", d>>] = b[<<"rax", d - c.disp>>] /\ d - c.disp \in Halves
        BY <2>2, <2>5, <3>1, <1>x DEF Made
      <4>2. b[<<"rax", d - c.disp>>] = b[<<"frame", c.disp + (d - c.disp)>>]
        BY <1>4, <4>1 DEF MachinesAgree
      <4>3. c.disp + (d - c.disp) = d
        BY <1>3, <2>2, PlacesAre, SlotsAre DEF Slots, Framed
      <4> QED
        BY <4>1, <4>2, <4>3
    <3>2. CASE d \notin Halves4(i)
      BY <2>5, <3>2, <1>x DEF Made
    <3> QED
      BY <3>1, <3>2
  <2>6. lab[to] \subseteq lab[i]
    BY <2>1, <2>3 DEF Describe
  <2> HIDE DEF a1
  <2>7. MachinesAgree(lab, b1, a1, to)
    BY <1>4, <1>f, <1>r, <2>1, <2>3, <2>4, <2>5, <2>6 DEF MachinesAgree
  <2> QED
    BY <2>7 DEF a1, b1, a2
<1>5. CASE i \in dead /\ c.op = "load"
  <2>1. ParkLoad(c) /\ i + 1 \in cut /\ i \notin cut /\ i - 1 \notin cut /\ a1 = a
    BY <1>1, <1>5 DEF Removed, Pair, ParkStore
  <2>2. c.reg = "rax" /\ c.width = 8 /\ c.disp \in Slots
    BY <1>3, <1>5, <2>1, KindOf
  <2>3. to = i + 1 /\ to \in cut /\ code[to].disp = c.disp
    BY <1>2, <1>5, <2>1
  <2>4. \A d \in Int : <<"frame", d>> \in Places => b1[<<"frame", d>>] = b[<<"frame", d>>]
    BY <1>5, <1>x DEF Made
  <2>5. \A r \in Regs, h \in Halves : r # "rax" => b1[<<r, h>>] = b[<<r, h>>]
    BY <1>5, <2>2, <1>x DEF Made
  <2>6. \A h \in Halves : b1[<<"rax", h>>] = b1[<<"frame", code[to].disp + h>>]
    <3>1. ASSUME NEW h \in Halves PROVE b1[<<"rax", h>>] = b1[<<"frame", code[to].disp + h>>]
      <4>1. b1[<<"rax", h>>] = b[<<"frame", c.disp + h>>]
        <5>1. "rax" \in Regs /\ h < 8
          BY PlacesAre DEF Regs
        <5> QED
          BY <1>5, <2>2, <5>1, <1>x DEF Made
      <4>2. c.disp + h \in Int /\ <<"frame", c.disp + h>> \in Places
        BY <2>2, PlacesAre
      <4> QED
        BY <2>3, <2>4, <4>1, <4>2
    <3> QED
      BY <3>1
  <2>7. lab[to] \subseteq lab[i]
    BY <1>5, <2>3 DEF Describe
  <2> HIDE DEF a1
  <2>8. MachinesAgree(lab, b1, a1, to)
    BY <1>f, <1>r, <2>1, <2>3, <2>4, <2>5, <2>6, <2>7 DEF MachinesAgree
  <2> QED
    BY <2>8 DEF a1, b1, a2
(* A store that nothing reads.                                                *)
<1>6. CASE i \in dead /\ i \notin cut /\ c.op = "store"
  <2>1. to = i + 1 /\ to \notin cut /\ a1 = a /\ i - 1 \notin cut
    BY <1>1, <1>2, <1>6 DEF ParkLoad
  <2>2. Overwrites(i) = Halves4(i) /\ Overwrites(i) \cap lab[to] = {} /\ lab[to] \subseteq lab[i]
        /\ \A d \in Overwrites(i) : Private(d)
    BY <1>6, <2>1, BytesOf DEF Describe
  <2>3. \A r \in Regs, h \in Halves : b1[<<r, h>>] = b[<<r, h>>]
    BY <1>6, <1>x DEF Made
  <2>4. \A d \in Int : <<"frame", d>> \in Places /\ d \notin Halves4(i) => b1[<<"frame", d>>] = b[<<"frame", d>>]
    BY <1>x DEF Made
  <2> HIDE DEF a1
  <2>5. MachinesAgree(lab, b1, a1, to)
    BY <1>6, <1>f, <1>r, <2>1, <2>2, <2>3, <2>4 DEF MachinesAgree
  <2> QED
    BY <2>5 DEF a1, b1, a2
(* What both machines run.                                                    *)
<1>7. CASE i \notin dead /\ c.op = "store"
  <2>1. i \notin cut /\ i - 1 \notin cut /\ to \notin cut /\ a1 = a2
    BY <1>1, <1>2, <1>7, <1>a DEF SetsRax
  <2> HIDE DEF a1
  <2>2. \A r \in Regs, h \in Halves : a[<<r, h>>] = b[<<r, h>>]
    BY <1>r, <2>1
  <2>3. \A r \in Regs, h \in Halves : a1[<<r, h>>] = b1[<<r, h>>]
    <3>1. \A r \in Regs, h \in Halves : a2[<<r, h>>] = a[<<r, h>>] /\ b1[<<r, h>>] = b[<<r, h>>]
      BY <1>7, <1>x DEF Made
    <3> QED
      BY <2>1, <2>2, <3>1
  <2>4. \A d \in Int : <<"frame", d>> \in Places =>
          IF d \in Halves4(i) THEN a1[<<"frame", d>>] = b1[<<"frame", d>>]
          ELSE a1[<<"frame", d>>] = a[<<"frame", d>>] /\ b1[<<"frame", d>>] = b[<<"frame", d>>]
    <3>1. ASSUME NEW d \in Int, <<"frame", d>> \in Places, d \in Halves4(i)
          PROVE  a1[<<"frame", d>>] = b1[<<"frame", d>>]
      <4>1. /\ a2[<<"frame", d>>] = a[<<c.reg, d - c.disp>>] /\ b1[<<"frame", d>>] = b[<<c.reg, d - c.disp>>]
            /\ d - c.disp \in Halves
        BY <1>7, <3>1, <1>x DEF Made
      <4>2. a[<<c.reg, d - c.disp>>] = b[<<c.reg, d - c.disp>>]
        BY <1>3, <1>7, <2>2, <4>1
      <4> QED
        BY <2>1, <4>1, <4>2
    <3>2. ASSUME NEW d \in Int, <<"frame", d>> \in Places, d \notin Halves4(i)
          PROVE  a1[<<"frame", d>>] = a[<<"frame", d>>] /\ b1[<<"frame", d>>] = b[<<"frame", d>>]
      BY <2>1, <3>2, <1>x DEF Made
    <3> QED
      BY <3>1, <3>2
  <2>5. Overwrites(i) \subseteq Halves4(i)
    BY BytesOf
  <2>6. MachinesAgree(lab, b1, a1, to)
    BY <1>7, <1>f, <1>l, <2>1, <2>3, <2>4, <2>5 DEF MachinesAgree
  <2> QED
    BY <2>6 DEF a1, b1, a2
<1>8. CASE i \notin dead /\ c.op = "load"
  <2>1. i \notin cut /\ to \notin cut /\ a1 = a2 /\ (i - 1 \in cut => c.reg = "rax")
    BY <1>1, <1>2, <1>8, <1>a DEF SetsRax
  <2> HIDE DEF a1
  <2>2. \A d \in Int : <<"frame", d>> \in Places =>
          a1[<<"frame", d>>] = a[<<"frame", d>>] /\ b1[<<"frame", d>>] = b[<<"frame", d>>]
    BY <1>8, <2>1, <1>x DEF Made
  <2>3. ASSUME NEW h \in Halves, h < c.width PROVE a[<<"frame", c.disp + h>>] = b[<<"frame", c.disp + h>>]
    <3>1. c.disp + h \in Int /\ <<"frame", c.disp + h>> \in Places
      BY <1>3, <1>8, PlacesAre
    <3>2. c.disp + h \in Halves4(i)
      BY <2>3 DEF Halves4
    <3>3. FrameReads(i) \subseteq lab[i]
      BY <1>8 DEF Describe
    <3>4. Private(c.disp + h) => c.disp + h \in lab[i]
      BY <1>8, <3>2, <3>3, BytesOf
    <3> QED
      BY <1>f, <3>1, <3>4
  <2>4. ASSUME NEW r \in Regs, NEW h \in Halves PROVE a1[<<r, h>>] = b1[<<r, h>>]
    <3>1. CASE r = c.reg
      <4>1. CASE h < c.width
        <5>1. b1[<<r, h>>] = b[<<"frame", c.disp + h>>] /\ a2[<<r, h>>] = a[<<"frame", c.disp + h>>]
          BY <1>8, <3>1, <4>1, <1>x DEF Made
        <5> QED
          BY <2>1, <2>3, <4>1, <5>1
      <4>2. CASE ~(h < c.width)
        <5>1. b1[<<r, h>>] = <<>> /\ a2[<<r, h>>] = <<>>
          BY <1>8, <3>1, <4>2, <1>x DEF Made
        <5> QED
          BY <2>1, <5>1
      <4> QED
        BY <4>1, <4>2
    <3>2. CASE r # c.reg
      <4>1. a1[<<r, h>>] = a[<<r, h>>] /\ b1[<<r, h>>] = b[<<r, h>>]
        BY <1>8, <2>1, <3>2, <1>x DEF Made
      <4> QED
        BY <1>r, <2>1, <3>2, <4>1
    <3> QED
      BY <3>1, <3>2
  <2>5. Overwrites(i) = {}
    BY <1>8, BytesOf
  <2>6. MachinesAgree(lab, b1, a1, to)
    BY <1>8, <1>f, <1>l, <2>1, <2>2, <2>4, <2>5 DEF MachinesAgree
  <2> QED
    BY <2>6 DEF a1, b1, a2
<1>9. CASE c.op \notin {"load", "store"}
  <2>1. i \notin dead /\ i \notin cut /\ to \notin cut /\ a1 = a2
        /\ (i - 1 \in cut => c.op = "alu" /\ c.reg = "rax")
    BY <1>1, <1>2, <1>9, <1>a DEF SetsRax
  <2> HIDE DEF a1
  <2>2. \A d \in Int : <<"frame", d>> \in Places =>
          a1[<<"frame", d>>] = a[<<"frame", d>>] /\ b1[<<"frame", d>>] = b[<<"frame", d>>]
    BY <1>9, <2>1, <1>x DEF Made
  <2>3. ASSUME NEW r \in Regs, NEW h \in Halves PROVE a1[<<r, h>>] = b1[<<r, h>>]
    <3>1. CASE c.op = "alu" /\ r = c.reg
      BY <2>1, <3>1, <1>x DEF Made
    <3>2. CASE ~(c.op = "alu" /\ r = c.reg)
      <4>1. a1[<<r, h>>] = a[<<r, h>>] /\ b1[<<r, h>>] = b[<<r, h>>]
        BY <1>9, <2>1, <3>2, <1>x DEF Made
      <4> QED
        BY <1>r, <2>1, <3>2, <4>1
    <3> QED
      BY <3>1, <3>2
  <2>4. Overwrites(i) = {}
    BY <1>9, BytesOf
  <2>5. MachinesAgree(lab, b1, a1, to)
    BY <1>f, <1>l, <2>1, <2>2, <2>3, <2>4 DEF MachinesAgree
  <2> QED
    BY <2>5 DEF a1, b1, a2
<1> QED
  BY <1>2, <1>4, <1>5, <1>6, <1>7, <1>8, <1>9 DEF b1, a2

-----------------------------------------------------------------------------
(* What is emitted                                                            *)

Control == {"jmp", "jcc"}

\* What the blocks and terminators are made of, jumps still to blocks.
Fits(s) ==
    /\ s \in Seq(Kinds)
    /\ \A k \in 1..Len(s) :
          /\ HomeLoad(s[k]) => k < Len(s) /\ s[k + 1].op \in {"alu", "ret"}
          /\ ParkStore(s[k]) => k < Len(s) /\ SetsRax(s[k + 1])
          /\ ParkLoad(s[k]) /\ k < Len(s) => Opening(s[k + 1])
          /\ s[k].op \in Control => s[k].to \in 1..3
    /\ Len(s) > 0 => Opening(s[1])

LEMMA FitTogether ==
  ASSUME NEW s, NEW t, Fits(s), Fits(t)
  PROVE  Fits(s \o t)
<1> DEFINE u == s \o t
           m == Len(s)
           n == Len(t)
<1>1. /\ s \in Seq(Kinds) /\ t \in Seq(Kinds) /\ u \in Seq(Kinds) /\ Len(u) = m + n /\ m \in Nat /\ n \in Nat
      /\ \A k \in 1..m : u[k] = s[k]
      /\ \A k \in 1..n : u[m + k] = t[k]
  BY DEF Fits
<1> HIDE DEF u
<1>2. ASSUME NEW k \in 1..m + n
      PROVE  /\ HomeLoad(u[k]) => k < m + n /\ u[k + 1].op \in {"alu", "ret"}
             /\ ParkStore(u[k]) => k < m + n /\ SetsRax(u[k + 1])
             /\ ParkLoad(u[k]) /\ k < m + n => Opening(u[k + 1])
             /\ u[k].op \in Control => u[k].to \in 1..3
  <2>1. CASE k < m
    <3>1. k \in 1..m /\ k + 1 \in 1..m /\ k < m + n
      BY <1>1, <2>1
    <3>2. u[k] = s[k] /\ u[k + 1] = s[k + 1]
      BY <1>1, <3>1
    <3> QED
      BY <2>1, <3>1, <3>2 DEF Fits
  <2>2. CASE k = m
    <3>1. k \in 1..m /\ u[k] = s[k] /\ ~(k < Len(s))
      BY <1>1, <2>2
    <3>2. ~HomeLoad(u[k]) /\ ~ParkStore(u[k]) /\ (u[k].op \in Control => u[k].to \in 1..3)
      BY <3>1 DEF Fits
    <3>3. k < m + n => 1 \in 1..n /\ u[k + 1] = t[1] /\ n > 0
      BY <1>1, <2>2
    <3> QED
      BY <3>2, <3>3 DEF Fits
  <2>3. CASE k > m
    <3>1. PICK j \in 1..n : k = m + j
      <4>1. k - m \in 1..n /\ k = m + (k - m)
        BY <1>1, <2>3
      <4> QED
        BY <4>1
    <3>2. u[k] = t[j] /\ (k < m + n <=> j < n) /\ (j < n => j + 1 \in 1..n /\ k + 1 = m + (j + 1))
      BY <1>1, <3>1
    <3>3. j < n => u[k + 1] = t[j + 1]
      <4>1. ASSUME j < n PROVE u[k + 1] = t[j + 1]
        <5>1. PICK i \in 1..n : i = j + 1
          BY <3>2, <4>1
        <5> QED
          BY <1>1, <3>2, <4>1, <5>1
      <4> QED
        BY <4>1
    <3> QED
      BY <3>2, <3>3 DEF Fits
  <2> QED
    BY <1>1, <2>1, <2>2, <2>3
<1>3. Len(u) > 0 => Opening(u[1])
  <2>1. CASE m > 0
    BY <1>1, <2>1 DEF Fits
  <2>2. CASE m = 0
    <3>1. Len(u) > 0 => 1 \in 1..n /\ u[m + 1] = t[1] /\ m + 1 = 1
      BY <1>1, <2>2
    <3> QED
      BY <1>1, <2>2, <3>1 DEF Fits
  <2> QED
    BY <1>1, <2>1, <2>2
<1> QED
  BY <1>1, <1>2, <1>3 DEF Fits, u

LEMMA SpotsDiffer ==
  ASSUME Framed
  PROVE  Spill \notin Parked /\ SavedSlot \notin Parked /\ Park \in Parked /\ Park1 \in Parked
  BY SlotsAre DEF Framed, Parked

(* The instructions of the units.                                             *)
LEMMA InstructionsAre ==
  ASSUME Framed, NEW w \in {4, 8}, NEW r \in Regs
  PROVE  /\ StoreTo(Spill, r, w) \in Kinds /\ LoadFrom(r, Spill, w) \in Kinds
         /\ StoreTo(Park, "rax", 8) \in Kinds /\ LoadFrom("rax", Park, 8) \in Kinds
         /\ StoreTo(Park1, "rax", 8) \in Kinds /\ LoadFrom("rax", Park1, 8) \in Kinds
         /\ LoadFrom("rbx", SavedSlot, 8) \in Kinds
         /\ \A S \in SUBSET Regs : Alu(r, S) \in Kinds
         /\ "rax" \in Regs /\ "rbx" \in Regs /\ "rcx" \in Regs
  BY SpotsDiffer DEF Kinds, Regs

LEMMA UnitFits ==
  ASSUME Framed, NEW u \in Units
  PROVE  Fits(u)
<1> USE DEF Control
<1>d. Spill \notin Parked /\ SavedSlot \notin Parked /\ Park \in Parked /\ Park1 \in Parked
  BY SpotsDiffer
<1>r. "rax" \in Regs /\ "rbx" \in Regs /\ "rcx" \in Regs /\ 4 \in {4, 8} /\ 8 \in {4, 8}
  BY DEF Regs
<1>1. ASSUME NEW o \in {"rax", "rbx"}, NEW w \in {4, 8}, u = SpilledDef(o, w) PROVE Fits(u)
  <2>1. PICK a \in Kinds, b \in Kinds, c \in Kinds, d \in Kinds :
           /\ a = StoreTo(Park, "rax", 8) /\ b = Alu("rax", {o}) /\ c = StoreTo(Spill, "rax", w)
           /\ d = LoadFrom("rax", Park, 8) /\ u = <<a, b, c, d>>
    BY <1>1, <1>r, InstructionsAre DEF SpilledDef
  <2>2. /\ ParkStore(a) /\ SetsRax(b) /\ ~ParkStore(b) /\ ~HomeLoad(b) /\ ~ParkLoad(b) /\ ~HomeLoad(a) /\ ~ParkLoad(a)
        /\ ~ParkStore(c) /\ ~HomeLoad(c) /\ ~ParkLoad(c) /\ ~ParkStore(d) /\ ~HomeLoad(d) /\ Opening(a)
        /\ \A x \in {a, b, c, d} : x.op \notin Control
    BY <1>d, <2>1 DEF StoreTo, Alu, LoadFrom, ParkStore, SetsRax, HomeLoad, ParkLoad, Opening
  <2>3. u \in Seq(Kinds) /\ Len(u) = 4 /\ u[1] = a /\ u[2] = b /\ u[3] = c /\ u[4] = d
    BY <2>1
  <2> QED
    BY <2>2, <2>3 DEF Fits
<1>2. ASSUME u = SpilledDef("slot", 8) PROVE Fits(u)
  <2>1. PICK a \in Kinds, b \in Kinds, c \in Kinds, d \in Kinds, e \in Kinds :
           /\ a = StoreTo(Park, "rax", 8) /\ b = LoadFrom("rax", Spill, 8) /\ c = Alu("rax", {"rax"})
           /\ d = StoreTo(Spill, "rax", 8) /\ e = LoadFrom("rax", Park, 8) /\ u = <<a, b, c, d, e>>
    BY <1>2, <1>r, InstructionsAre DEF SpilledDef
  <2>2. /\ ParkStore(a) /\ SetsRax(b) /\ ~ParkStore(b) /\ c.op = "alu" /\ ~ParkLoad(b) /\ ~HomeLoad(a) /\ ~ParkLoad(a)
        /\ ~ParkStore(c) /\ ~HomeLoad(c) /\ ~ParkLoad(c) /\ ~ParkStore(d) /\ ~HomeLoad(d) /\ ~ParkLoad(d) /\ Opening(a)
        /\ ~ParkStore(e) /\ ~HomeLoad(e)
        /\ \A x \in {a, b, c, d, e} : x.op \notin Control
    BY <1>d, <2>1 DEF StoreTo, Alu, LoadFrom, ParkStore, SetsRax, HomeLoad, ParkLoad, Opening
  <2>3. u \in Seq(Kinds) /\ Len(u) = 5 /\ u[1] = a /\ u[2] = b /\ u[3] = c /\ u[4] = d /\ u[5] = e
    BY <2>1
  <2> QED
    BY <2>2, <2>3 DEF Fits
<1>3. ASSUME NEW w \in {4, 8}, u = FreeDef(w) PROVE Fits(u)
  <2>1. PICK a \in Kinds, b \in Kinds :
           a = Alu("rcx", {"rbx"}) /\ b = StoreTo(Spill, "rcx", w) /\ u = <<a, b>>
    BY <1>3, <1>r, InstructionsAre DEF FreeDef
  <2>2. /\ ~ParkStore(a) /\ ~HomeLoad(a) /\ ~ParkLoad(a) /\ ~ParkStore(b) /\ ~HomeLoad(b) /\ ~ParkLoad(b)
        /\ Opening(a) /\ a.op \notin Control /\ b.op \notin Control
    BY <1>d, <2>1 DEF StoreTo, Alu, ParkStore, HomeLoad, ParkLoad, Opening
  <2>3. u \in Seq(Kinds) /\ Len(u) = 2 /\ u[1] = a /\ u[2] = b
    BY <2>1
  <2> QED
    BY <2>2, <2>3 DEF Fits
<1>4. ASSUME NEW w \in {4, 8}, u = UseSlot(w) PROVE Fits(u)
  <2>1. PICK a \in Kinds, b \in Kinds :
           a = LoadFrom("rcx", Spill, w) /\ b = Alu("rbx", {"rbx", "rcx"}) /\ u = <<a, b>>
    BY <1>4, <1>r, InstructionsAre DEF UseSlot
  <2>2. /\ ~ParkStore(a) /\ ~ParkLoad(a) /\ b.op = "alu" /\ ~ParkStore(b) /\ ~HomeLoad(b) /\ ~ParkLoad(b)
        /\ Opening(a) /\ a.op \notin Control /\ b.op \notin Control
    BY <1>d, <2>1 DEF LoadFrom, Alu, ParkStore, HomeLoad, ParkLoad, Opening
  <2>3. u \in Seq(Kinds) /\ Len(u) = 2 /\ u[1] = a /\ u[2] = b
    BY <2>1
  <2> QED
    BY <2>2, <2>3 DEF Fits
<1>5. ASSUME u = UseRax PROVE Fits(u)
  <2>1. PICK a \in Kinds : a = Alu("rbx", {"rbx", "rax"}) /\ u = <<a>>
    BY <1>5, <1>r, InstructionsAre DEF UseRax
  <2>2. ~ParkStore(a) /\ ~ParkLoad(a) /\ ~HomeLoad(a) /\ Opening(a) /\ a.op \notin Control
    BY <2>1 DEF Alu, ParkStore, HomeLoad, ParkLoad, Opening
  <2>3. u \in Seq(Kinds) /\ Len(u) = 1 /\ u[1] = a
    BY <2>1
  <2> QED
    BY <2>2, <2>3 DEF Fits
<1>6. ASSUME u = RelocatedUse PROVE Fits(u)
  <2>1. PICK a \in Kinds, b \in Kinds, c \in Kinds, d \in Kinds, e \in Kinds :
           /\ a = StoreTo(Park1, "rax", 8) /\ b = Alu("rax", {"rbx"}) /\ c = LoadFrom("rbx", Spill, 8)
           /\ d = Alu("rbx", {"rbx", "rax"}) /\ e = LoadFrom("rax", Park1, 8) /\ u = <<a, b, c, d, e>>
    BY <1>6, <1>r, InstructionsAre DEF RelocatedUse
  <2>2. /\ ParkStore(a) /\ SetsRax(b) /\ ~ParkStore(b) /\ ~HomeLoad(b) /\ ~ParkLoad(b) /\ ~HomeLoad(a) /\ ~ParkLoad(a)
        /\ ~ParkStore(c) /\ ~ParkLoad(c) /\ ~ParkStore(d) /\ d.op = "alu" /\ ~HomeLoad(d) /\ ~ParkLoad(d) /\ Opening(a)
        /\ ~ParkStore(e) /\ ~HomeLoad(e)
        /\ \A x \in {a, b, c, d, e} : x.op \notin Control
    BY <1>d, <2>1 DEF StoreTo, Alu, LoadFrom, ParkStore, SetsRax, HomeLoad, ParkLoad, Opening
  <2>3. u \in Seq(Kinds) /\ Len(u) = 5 /\ u[1] = a /\ u[2] = b /\ u[3] = c /\ u[4] = d /\ u[5] = e
    BY <2>1
  <2> QED
    BY <2>2, <2>3 DEF Fits
<1> QED
  BY <1>1, <1>2, <1>3, <1>4, <1>5, <1>6, <1>r DEF Units

LEMMA BlocksFit ==
  ASSUME Framed, NEW us \in Seq(Units)
  PROVE  Fits(FlattenSeq(us))
<1> DEFINE n == Len(us) - 1
           T == {s \in Seq(Kinds) : Fits(s)}
           st == [k \in 1..n |-> [s \in T |-> s \o us[k + 1]]]
           Rhs(f) == [i \in 1..Len(us) |-> IF i = 1 THEN us[i] ELSE f[i - 1] \o us[i]]
           g == CHOOSE f : f = Rhs(f)
<1>1. CASE Len(us) = 0
  <2>1. FlattenSeq(us) = us /\ us = <<>>
    BY <1>1 DEF FlattenSeq
  <2> QED
    BY <2>1 DEF Fits
<1>2. CASE Len(us) # 0
  <2>1. n \in Nat /\ Len(us) = n + 1 /\ \A k \in 1..n + 1 : us[k] \in Units
    BY <1>2
  <2>2. \A k \in 1..n + 1 : us[k] \in T
    BY <2>1, UnitFits DEF Fits
  <2>3. st \in [1..n -> [T -> T]] /\ us[1] \in T
    <3>1. ASSUME NEW k \in 1..n, NEW s \in T PROVE s \o us[k + 1] \in T
      <4>1. k + 1 \in 1..n + 1
        BY <2>1
      <4>2. Fits(us[k + 1]) /\ Fits(s)
        BY <2>2, <4>1
      <4>3. Fits(s \o us[k + 1])
        BY <4>2, FitTogether
      <4> QED
        BY <4>3 DEF Fits
    <3>2. 1 \in 1..n + 1
      BY <2>1
    <3> HIDE DEF T
    <3> QED
      BY <2>2, <3>1, <3>2
  <2>4. PICK h : Iterates(st, us[1], T, h, n)
    <3> HIDE DEF st, T, n
    <3> QED
      BY <2>1, <2>3, Recursion
  <2>5. h \in [0..n -> T] /\ h[0] = us[1] /\ \A k \in 1..n : h[k] = h[k - 1] \o us[k + 1]
    <3>1. \A k \in 1..n : h[k - 1] \in T /\ h[k] = st[k][h[k - 1]]
      <4>1. \A k \in 1..n : k - 1 \in 0..n
        BY <2>1
      <4> HIDE DEF st, T
      <4> QED
        BY <2>4, <4>1 DEF Iterates
    <3> HIDE DEF T
    <3> QED
      BY <2>4, <3>1 DEF Iterates
  <2> DEFINE f == [i \in 1..Len(us) |-> h[i - 1]]
  <2>6. f = Rhs(f)
    <3>1. ASSUME NEW i \in 1..Len(us) PROVE f[i] = Rhs(f)[i]
      <4>1. CASE i = 1
        BY <2>5, <4>1
      <4>2. CASE i # 1
        <5>1. i - 1 \in 1..n /\ i - 1 \in 1..Len(us) /\ (i - 1) + 1 = i
          BY <2>1, <4>2
        <5>2. PICK k \in 1..n : k = i - 1
          BY <5>1
        <5>3. h[k] = h[k - 1] \o us[k + 1]
          BY <2>5
        <5>4. f[i] = h[i - 1] /\ f[i - 1] = h[(i - 1) - 1]
          BY <5>1
        <5>5. Rhs(f)[i] = f[i - 1] \o us[i]
          BY <4>2
        <5> HIDE DEF f, Rhs
        <5> QED
          BY <5>1, <5>2, <5>3, <5>4, <5>5
      <4> QED
        BY <4>1, <4>2
    <3>2. f = [i \in 1..Len(us) |-> f[i]] /\ Rhs(f) = [i \in 1..Len(us) |-> Rhs(f)[i]]
      OBVIOUS
    <3> HIDE DEF f, Rhs
    <3> QED
      BY <3>1, <3>2
  <2>7. g = Rhs(g)
    <3> HIDE DEF f, Rhs
    <3> QED
      BY <2>6
  <2>8. FlattenSeq(us) = g[Len(us)]
    BY <1>2 DEF FlattenSeq
  <2>9. \A i \in 1..Len(us) : g[i] = IF i = 1 THEN us[i] ELSE g[i - 1] \o us[i]
    <3>1. \A i \in 1..Len(us) : g[i] = Rhs(g)[i]
      BY <2>7
    <3> HIDE DEF g
    <3> QED
      BY <3>1
  <2> HIDE DEF g, f
  <2> DEFINE S == {k \in 0..n : g[k + 1] \in T}
  <2>10. 0 \in S
    <3>1. g[1] = us[1]
      BY <2>1, <2>9
    <3> HIDE DEF T
    <3> QED
      BY <2>1, <2>3, <3>1
  <2>11. ASSUME NEW k \in S, k < n PROVE k + 1 \in S
    <3>1. PICK i \in 1..Len(us) : i = (k + 1) + 1 /\ i # 1 /\ i - 1 = k + 1 /\ k + 1 \in 0..n
      BY <2>1, <2>11
    <3>2. g[i] = g[k + 1] \o us[i] /\ Fits(us[i]) /\ Fits(g[k + 1])
      BY <2>1, <2>2, <2>9, <3>1
    <3>3. g[i] \in T
      BY <3>2, FitTogether DEF Fits
    <3> HIDE DEF T
    <3> QED
      BY <3>1, <3>3
  <2>12. n \in S
    <3>1. S \in SUBSET (0..n)
      OBVIOUS
    <3> HIDE DEF S, n
    <3> QED
      BY <2>1, <2>10, <2>11, <3>1, Climb
  <2> QED
    BY <2>1, <2>8, <2>12
<1> QED
  BY <1>1, <1>2

LEMMA LeavingFits ==
  ASSUME Framed, NEW t \in BlockTerms
  PROVE  /\ Fits(Leaving(t))
         /\ t.op \in {"jmp", "ret"} => Len(Leaving(t)) > 0 /\ Leaving(t)[Len(Leaving(t))].op \in {"jmp", "ret"}
<1>d. SavedSlot \notin Parked
  BY SpotsDiffer
<1>1. CASE t.op = "fall"
  <2>1. Leaving(t) = <<>>
    BY <1>1 DEF Leaving
  <2> QED
    BY <1>1, <2>1 DEF Fits
<1>2. CASE t.op = "ret"
  <2>1. t \in Kinds
    BY <1>2 DEF BlockTerms, Kinds
  <2>2. PICK a \in Kinds, b \in Kinds : a = LoadFrom("rbx", SavedSlot, 8) /\ b = t /\ Leaving(t) = <<a, b>>
    BY <1>2, <2>1 DEF Leaving, Kinds
  <2>3. /\ ~ParkStore(a) /\ ~ParkLoad(a) /\ Opening(a) /\ a.op \notin Control
        /\ ~ParkStore(b) /\ ~ParkLoad(b) /\ ~HomeLoad(b) /\ b.op = "ret" /\ b.op \notin Control
    BY <1>d, <1>2, <2>2 DEF LoadFrom, ParkStore, ParkLoad, HomeLoad, Opening, Control
  <2>4. /\ Leaving(t) \in Seq(Kinds) /\ Len(Leaving(t)) = 2
        /\ Leaving(t)[1] = a /\ Leaving(t)[2] = b
    BY <2>2
  <2> QED
    BY <2>3, <2>4 DEF Fits
<1>3. CASE t.op \in Control
  <2>1. t \in [op : {"jmp", "jcc"}, to : 1..3]
    BY <1>3 DEF BlockTerms, Control
  <2>2. t \in Kinds /\ t.to \in 1..3
    BY <2>1 DEF Kinds
  <2>3. PICK a \in Kinds : a = t /\ Leaving(t) = <<a>>
    BY <1>3, <2>2 DEF Leaving, Control
  <2>4. ~ParkStore(a) /\ ~ParkLoad(a) /\ ~HomeLoad(a) /\ Opening(a)
    BY <1>3, <2>3 DEF ParkStore, ParkLoad, HomeLoad, Opening, Control
  <2>5. Leaving(t) \in Seq(Kinds) /\ Len(Leaving(t)) = 1 /\ Leaving(t)[1] = a
    BY <2>3
  <2> QED
    BY <1>3, <2>2, <2>3, <2>4, <2>5 DEF Fits, Control
<1> QED
  BY <1>1, <1>2, <1>3 DEF BlockTerms, Control

Resolve(x, start) == IF x.op \in {"jmp", "jcc"} THEN [x EXCEPT !.to = start[@]] ELSE x

LEMMA ResolveIs ==
  ASSUME NEW x \in Kinds, NEW n \in Nat, NEW start \in [1..3 -> 2..n], x.op \in Control => x.to \in 1..3
  PROVE  /\ Resolve(x, start) \in Kinds
         /\ Resolve(x, start).op = x.op
         /\ x.op \notin Control => Resolve(x, start) = x
         /\ x.op \in Control => Resolve(x, start).to = start[x.to]
         /\ SetsRax(x) => SetsRax(Resolve(x, start))
         /\ Opening(x) => Opening(Resolve(x, start))
<1>1. CASE x.op \notin Control
  BY <1>1 DEF Resolve, Control
<1>2. CASE x.op \in Control
  <2>1. x \in [op : {"jmp", "jcc"}, to : Int]
    BY <1>2 DEF Kinds, Control, StoreTo, LoadFrom, Alu
  <2>2. Resolve(x, start) = [x EXCEPT !.to = start[x.to]] /\ start[x.to] \in Int
    BY <1>2 DEF Resolve, Control
  <2>3. Resolve(x, start) \in [op : {"jmp", "jcc"}, to : Int] /\ Resolve(x, start).op = x.op
        /\ Resolve(x, start).to = start[x.to]
    BY <2>1, <2>2
  <2> QED
    BY <1>2, <2>3 DEF Kinds, SetsRax, Opening, ParkLoad, ParkStore, Control
<1> QED
  BY <1>1, <1>2

(* What the emitter makes of such parts is what the passes rely on.          *)
LEMMA CodeIs ==
  ASSUME Given,
         NEW first \in Entries, NEW middle \in Bodies, NEW tail \in Tails, NEW terms \in Shapes,
         code = EmittedCode(<<first, middle, tail>>, terms)
  PROVE  Proper /\ Framed
<1> DEFINE parts == <<first, middle, tail>>
           body(b) == FlattenSeq(parts[b]) \o Leaving(terms[b])
           s == body(1)
           t == body(2)
           u == body(3)
           v == t \o u
           rest == s \o v
           start == [b \in 1..3 |-> CASE b = 1 -> 2
                                      [] b = 2 -> 2 + Len(body(1))
                                      [] b = 3 -> 2 + Len(body(1)) + Len(body(2))]
           home == StoreTo(SavedSlot, "rbx", 8)
           all == <<home>> \o rest
<1>f. Framed
  BY DEF Given, Framed
<1>1. code = [i \in 1..Len(all) |-> Resolve(all[i], start)]
  BY DEF EmittedCode, Resolve
<1>2. /\ first \in Seq(Units) /\ middle \in Seq(Units) /\ tail \in Seq(Units)
      /\ terms \in [1..3 -> BlockTerms] /\ terms[3].op \in {"jmp", "ret"}
  BY DEF Given
<1>3. ASSUME NEW b \in 1..3 PROVE Fits(body(b))
  <2>1. parts[b] \in Seq(Units) /\ terms[b] \in BlockTerms
    BY <1>2, <1>3
  <2> HIDE DEF parts
  <2>2. Fits(FlattenSeq(parts[b])) /\ Fits(Leaving(terms[b]))
    BY <1>f, <2>1, BlocksFit, LeavingFits
  <2> QED
    BY <2>2, FitTogether
<1>4. Fits(s) /\ Fits(t) /\ Fits(u)
  <2> HIDE DEF body
  <2> QED
    BY <1>3
<1>5. Len(u) > 0 /\ u[Len(u)].op \in {"jmp", "ret"}
  <2>1. parts[3] = tail
    OBVIOUS
  <2>2. Fits(FlattenSeq(tail)) /\ Fits(Leaving(terms[3])) /\ Len(Leaving(terms[3])) > 0
        /\ Leaving(terms[3])[Len(Leaving(terms[3]))].op \in {"jmp", "ret"}
    BY <1>f, <1>2, BlocksFit, LeavingFits
  <2> DEFINE x == FlattenSeq(tail)
             y == Leaving(terms[3])
  <2>3. x \in Seq(Kinds) /\ y \in Seq(Kinds)
    BY <2>2 DEF Fits
  <2>4. u = x \o y
    BY <2>1
  <2>5. Len(y) > 0 /\ y[Len(y)].op \in {"jmp", "ret"}
    BY <2>2
  <2> HIDE DEF x, y
  <2>6. Len(x) \in Nat /\ Len(y) \in Nat /\ Len(x \o y) = Len(x) + Len(y) /\ (x \o y)[Len(x) + Len(y)] = y[Len(y)]
    BY <2>3, <2>5
  <2> QED
    BY <2>4, <2>5, <2>6
<1>6. start = [b \in 1..3 |-> CASE b = 1 -> 2 [] b = 2 -> 2 + Len(s) [] b = 3 -> 2 + Len(s) + Len(t)]
  OBVIOUS
<1> HIDE DEF start, body
<1>7. Fits(v) /\ Fits(rest)
  <2> HIDE DEF s, t, u
  <2>1. Fits(v)
    BY <1>4, FitTogether
  <2> HIDE DEF v
  <2> QED
    BY <1>4, <2>1, FitTogether
<1> DEFINE a == Len(s)
           b == Len(t)
           c == Len(u)
           n == a + b + c
<1>8. /\ s \in Seq(Kinds) /\ t \in Seq(Kinds) /\ u \in Seq(Kinds)
      /\ a \in Nat /\ b \in Nat /\ c \in Nat /\ c > 0
  BY <1>4, <1>5 DEF Fits
<1> HIDE DEF s, t, u
<1>9. Len(v) = b + c /\ v \in Seq(Kinds) /\ v[b + 1] = u[1] /\ v[b + c] = u[c]
  BY <1>8
<1> HIDE DEF v
<1>10. /\ rest \in Seq(Kinds) /\ Len(rest) = n /\ rest[n] = u[c]
       /\ rest[a + 1] = v[1] /\ rest[a + b + 1] = u[1]
  <2>1. Len(rest) = a + Len(v) /\ rest \in Seq(Kinds) /\ \A k \in 1..Len(v) : rest[a + k] = v[k]
    <3>1. s \in Seq(Kinds) /\ v \in Seq(Kinds)
      BY <1>8, <1>9
    <3> QED
      BY <3>1
  <2>2. b + c \in 1..Len(v) /\ 1 \in 1..Len(v) /\ b + 1 \in 1..Len(v)
    BY <1>8, <1>9
  <2>3. a + (b + c) = n /\ a + (b + 1) = a + b + 1
    BY <1>8
  <2> HIDE DEF rest
  <2>4. rest[a + (b + c)] = v[b + c] /\ rest[a + 1] = v[1] /\ rest[a + (b + 1)] = v[b + 1]
    BY <2>1, <2>2
  <2> HIDE DEF n
  <2> QED
    BY <1>8, <1>9, <2>1, <2>3, <2>4
<1> HIDE DEF rest
<1>11. Len(all) = n + 1 /\ all[1] = home /\ \A k \in 1..n : all[k + 1] = rest[k]
  BY <1>8, <1>10
<1>12. start \in [1..3 -> 2..n + 1]
  <2>1. \A k \in 1..3 : start[k] \in 2..n + 1
    BY <1>6, <1>8
  <2>2. DOMAIN start = 1..3 /\ start = [k \in 1..3 |-> start[k]]
    BY <1>6
  <2> QED
    BY <2>1, <2>2
<1>s. start[1] = 2 /\ start[2] = 2 + a /\ start[3] = 2 + a + b
  BY <1>6
<1> HIDE DEF all
<1>13. /\ Len(code) = n + 1 /\ DOMAIN code = 1..n + 1 /\ n + 1 \in Nat /\ n \in Nat /\ n > 0
       /\ \A i \in 1..n + 1 : code[i] = Resolve(all[i], start)
  <2>1. n \in Nat /\ n > 0
    BY <1>8
  <2> HIDE DEF n
  <2>2. code = [i \in 1..n + 1 |-> Resolve(all[i], start)] /\ n + 1 \in Nat
    <3>1. PICK m \in Nat : m = n + 1
      BY <2>1
    <3>2. Len(all) = m
      BY <1>11, <3>1
    <3>3. code = [i \in 1..m |-> Resolve(all[i], start)]
      BY <1>1, <3>2
    <3> QED
      BY <3>1, <3>3
  <2>3. DOMAIN code = 1..n + 1 /\ Len(code) = n + 1
    BY <2>2
  <2>4. \A i \in 1..n + 1 : code[i] = Resolve(all[i], start)
    BY <2>2
  <2> QED
    BY <2>1, <2>2, <2>3, <2>4
<1>14. code[1] = home
  <2>1. 1 \in 1..n + 1
    BY <1>13
  <2>2. code[1] = Resolve(home, start)
    BY <1>11, <1>13, <2>1
  <2> QED
    BY <2>2 DEF Resolve, StoreTo
<1>15. ASSUME NEW k \in 1..n PROVE code[k + 1] = Resolve(rest[k], start)
  BY <1>11, <1>13, <1>15
<1>16. ASSUME NEW k \in 1..n
       PROVE  /\ code[k + 1] \in Kinds /\ code[k + 1].op = rest[k].op
              /\ rest[k].op \notin Control => code[k + 1] = rest[k]
              /\ rest[k].op \in Control => rest[k].to \in 1..3 /\ code[k + 1].to = start[rest[k].to]
              /\ SetsRax(rest[k]) => SetsRax(code[k + 1])
              /\ Opening(rest[k]) => Opening(code[k + 1])
  <2>1. rest[k] \in Kinds /\ (rest[k].op \in Control => rest[k].to \in 1..3)
    BY <1>7, <1>10, <1>16 DEF Fits
  <2> HIDE DEF n
  <2>2. PICK m \in Nat : m = n + 1
    BY <1>13
  <2>3. start \in [1..3 -> 2..m]
    BY <1>12, <2>2
  <2>4. code[k + 1] = Resolve(rest[k], start)
    BY <1>15
  <2> QED
    BY <2>1, <2>3, <2>4, ResolveIs
<1>17. \A k \in 1..3 : Opening(code[start[k]])
  <2>1. rest[1] = IF a > 0 THEN s[1] ELSE v[1]
    <3>1. a > 0 => rest[1] = s[1]
      BY <1>8, <1>9 DEF rest
    <3>2. ~(a > 0) => a + 1 = 1
      BY <1>8
    <3> QED
      BY <1>10, <3>1, <3>2
  <2>2. Opening(v[1]) /\ Opening(u[1]) /\ Opening(rest[1])
    BY <1>4, <1>7, <1>8, <1>9, <2>1 DEF Fits
  <2>3. 1 \in 1..n /\ a + 1 \in 1..n /\ a + b + 1 \in 1..n
    BY <1>8
  <2>4. Opening(code[1 + 1]) /\ Opening(code[(a + 1) + 1]) /\ Opening(code[(a + b + 1) + 1])
    <3> HIDE DEF n
    <3> QED
      BY <1>10, <1>16, <2>2, <2>3
  <2>5. start[1] = 1 + 1 /\ start[2] = (a + 1) + 1 /\ start[3] = (a + b + 1) + 1
    BY <1>8, <1>s
  <2> QED
    BY <2>4, <2>5
<1>18. code[n + 1].op \in {"jmp", "ret"}
  <2>1. n \in 1..n
    BY <1>13
  <2> HIDE DEF n
  <2> QED
    BY <1>5, <1>10, <1>16, <2>1
<1> HIDE DEF n
<1>19. ASSUME NEW i \in 2..n + 1
       PROVE  /\ code[i] \in Kinds
              /\ HomeLoad(code[i]) => i < n + 1 /\ code[i + 1].op \in {"alu", "ret"}
              /\ ParkStore(code[i]) => i < n + 1 /\ SetsRax(code[i + 1])
              /\ ParkLoad(code[i]) => i < n + 1 /\ Opening(code[i + 1])
              /\ IsJump(i) => code[i].to \in 2..n + 1 /\ Opening(code[code[i].to])
  <2>1. PICK k \in 1..n : i = k + 1
    <3>1. i - 1 \in 1..n /\ i = (i - 1) + 1
      BY <1>13
    <3> QED
      BY <3>1
  <2>2. k < n <=> i < n + 1
    BY <1>13, <2>1
  <2>3. ASSUME k < n
        PROVE  /\ code[i + 1].op = rest[k + 1].op
               /\ SetsRax(rest[k + 1]) => SetsRax(code[i + 1])
               /\ Opening(rest[k + 1]) => Opening(code[i + 1])
    <3>1. PICK j \in 1..n : j = k + 1 /\ i + 1 = j + 1
      BY <1>13, <2>1, <2>3
    <3> QED
      BY <1>16, <3>1
  <2>4. /\ HomeLoad(rest[k]) => k < n /\ rest[k + 1].op \in {"alu", "ret"}
        /\ ParkStore(rest[k]) => k < n /\ SetsRax(rest[k + 1])
        /\ ParkLoad(rest[k]) /\ k < n => Opening(rest[k + 1])
    BY <1>7, <1>10 DEF Fits
  <2>5. CASE rest[k].op \in Control
    <3>1. code[i].op \in Control /\ code[i] \in Kinds /\ rest[k].to \in 1..3 /\ code[i].to = start[rest[k].to]
      BY <1>16, <2>1, <2>5
    <3>2. code[i].to \in 2..n + 1 /\ Opening(code[code[i].to])
      BY <1>12, <1>17, <3>1
    <3> QED
      BY <3>1, <3>2 DEF HomeLoad, ParkStore, ParkLoad, Control
  <2>6. CASE rest[k].op \notin Control
    <3>1. code[i] = rest[k] /\ code[i] \in Kinds
      BY <1>16, <2>1, <2>6
    <3>2. ParkLoad(code[i]) => k < n
      <4>1. SUFFICES ASSUME ParkLoad(code[i]), k = n PROVE FALSE
        BY <1>13
      <4> QED
        BY <1>18, <2>1, <4>1 DEF ParkLoad
    <3>3. ~IsJump(i)
      BY <2>6, <3>1 DEF IsJump, Control
    <3> QED
      BY <2>2, <2>3, <2>4, <3>1, <3>2, <3>3
  <2> QED
    BY <2>5, <2>6
<1>20. \A i \in 1..n + 1 : code[i].op \notin {"jmp", "ret"} => i < n + 1
  BY <1>13, <1>18
<1> QED
  <2>1. Len(code) \in Nat /\ DOMAIN code = 1..Len(code) /\ 1 \in DOMAIN code /\ Len(code) = n + 1
    BY <1>13
  <2>2. code[1] = StoreTo(SavedSlot, "rbx", 8)
    BY <1>14
  <2>3. \A i \in 2..Len(code) :
          /\ code[i] \in Kinds
          /\ HomeLoad(code[i]) => i < Len(code) /\ code[i + 1].op \in {"alu", "ret"}
          /\ ParkStore(code[i]) => i < Len(code) /\ SetsRax(code[i + 1])
          /\ ParkLoad(code[i]) => i < Len(code) /\ Opening(code[i + 1])
          /\ IsJump(i) => code[i].to \in 2..Len(code) /\ Opening(code[code[i].to])
    BY <1>19, <2>1
  <2>4. \A i \in DOMAIN code : code[i].op \notin {"jmp", "ret"} => i < Len(code)
    BY <1>20, <2>1
  <2> HIDE DEF home
  <2>5. Proper
    BY <2>1, <2>2, <2>3, <2>4 DEF Proper
  <2> QED
    BY <1>f, <2>5

-----------------------------------------------------------------------------
(* The invariant                                                              *)

SavedKept == \A h \in Halves : after[<<"frame", SavedSlot + h>>] = <<"rbx", h>>

TrafficInv ==
    /\ Proper /\ Framed
    /\ mode \in {"optimize", "run"} /\ pc \in DOMAIN code
    /\ Removed(dead, cut)
    /\ \E lab : Describe(lab, dead, cut) /\ MachinesAgree(lab, before, after, pc)
    /\ mode = "optimize" => pc = 1
    /\ pc = 1 => before = [p \in Places |-> p] /\ after = before
    /\ pc # 1 => SavedKept

LEMMA SameCode ==
  ASSUME code' = code
  PROVE  /\ Proper' <=> Proper
         /\ \A D, C : Removed(D, C)' <=> Removed(D, C)
         /\ \A lab, D, C : Describe(lab, D, C)' <=> Describe(lab, D, C)
<1>1. Proper' <=> Proper
  BY DEF Proper, IsJump
<1>2. \A i : IsJump(i)' <=> IsJump(i)
  BY DEF IsJump
<1>3. \A i : FrameReads(i)' = FrameReads(i) /\ Overwrites(i)' = Overwrites(i)
  BY DEF FrameReads, Overwrites, Halves4
<1>4. \A D, C : Removed(D, C)' <=> Removed(D, C)
  BY <1>2 DEF Removed, Pair
<1>5. \A lab, D, C : Describe(lab, D, C)' <=> Describe(lab, D, C)
  BY <1>2, <1>3 DEF Describe
<1> QED
  BY <1>1, <1>4, <1>5

LEMMA InitHolds ==
  ASSUME Given, FInit
  PROVE  TrafficInv
<1>1. Proper /\ Framed
  BY CodeIs DEF FInit
<1>2. dead = {} /\ cut = {} /\ mode = "optimize" /\ pc = 1
      /\ before = [p \in Places |-> p] /\ after = before
  BY DEF FInit
<1>3. pc \in DOMAIN code
  BY <1>1, <1>2 DEF Proper
<1>4. \A i \in DOMAIN code : IsJump(i) => code[i].to \in DOMAIN code
  <2>1. ~IsJump(1)
    BY <1>1 DEF Proper, IsJump, StoreTo
  <2> QED
    BY <1>1, <2>1 DEF Proper
<1>5. Removed(dead, cut)
  BY <1>2 DEF Removed
<1> DEFINE lab == [i \in DOMAIN code |-> AllBytes]
<1>6. Describe(lab, dead, cut)
  <2>1. \A i \in DOMAIN code : FrameReads(i) \subseteq AllBytes
    BY DEF FrameReads, AllBytes, Halves4
  <2>2. \A i \in DOMAIN code : code[i].op \notin {"jmp", "ret"} => i + 1 \in DOMAIN code
    BY <1>1 DEF Proper
  <2> QED
    BY <1>2, <1>4, <2>1, <2>2 DEF Describe
<1>7. MachinesAgree(lab, before, after, pc)
  BY <1>2 DEF MachinesAgree
<1> HIDE DEF lab
<1> QED
  BY <1>1, <1>2, <1>3, <1>5, <1>6, <1>7 DEF TrafficInv

LEMMA OptimizeKeeps ==
  ASSUME TrafficInv, Optimize
  PROVE  TrafficInv'
<1> DEFINE gone == UNION {{p[1], p[2]} : p \in Roundtrips(dead)}
           removed == (gone \cup DeadStores(dead \cup gone)) \ Targets(dead)
<1>1. /\ code' = code /\ pc' = pc /\ before' = before /\ after' = after /\ mode = "optimize"
      /\ dead' = dead \cup Round /\ cut' = cut \cup Cut /\ mode' \in {"optimize", "run"}
  BY DEF Optimize, Gone, Round, Cut
<1>2. Proper /\ Framed /\ Removed(dead, cut) /\ pc = 1 /\ before = [p \in Places |-> p] /\ after = before
      /\ pc \in DOMAIN code
  BY <1>1 DEF TrafficInv
<1>3. PICK new : Removed(dead \cup Round, cut \cup Cut) /\ Describe(new, dead \cup Round, cut \cup Cut)
  BY <1>2, RoundKeeps DEF TrafficInv
<1>4. Removed(dead, cut)' /\ Describe(new, dead, cut)' /\ Proper' /\ Framed'
  BY <1>1, <1>2, <1>3, SameCode DEF Framed
<1>5. 1 \notin cut \cup Cut
  BY <1>3 DEF Removed
<1>6. MachinesAgree(new, before, after, pc)'
  BY <1>1, <1>2, <1>5 DEF MachinesAgree
<1> QED
  BY <1>1, <1>2, <1>4, <1>6 DEF TrafficInv

LEMMA StepKeeps ==
  ASSUME TrafficInv, Step
  PROVE  TrafficInv'
<1> DEFINE b1 == Exec(before, pc)
           a1 == IF pc \in dead THEN after ELSE Exec(after, pc)
<1>1. /\ code' = code /\ dead' = dead /\ cut' = cut /\ mode' = mode /\ mode = "run"
      /\ before' = b1 /\ after' = a1 /\ Goes(pc, pc')
  BY DEF Step, Goes
<1>2. Proper /\ Framed /\ Removed(dead, cut) /\ pc \in DOMAIN code
  BY DEF TrafficInv
<1>3. PICK lab : Describe(lab, dead, cut) /\ MachinesAgree(lab, before, after, pc)
  BY DEF TrafficInv
<1>4. MachinesAgree(lab, b1, a1, pc')
  BY <1>1, <1>2, <1>3, StepAgrees
<1>5. Removed(dead, cut)' /\ Describe(lab, dead, cut)' /\ Proper' /\ Framed'
  BY <1>1, <1>2, <1>3, SameCode DEF Framed
<1>6. MachinesAgree(lab, before, after, pc)'
  BY <1>1, <1>4 DEF MachinesAgree
<1>7. pc' \in 2..Len(code) /\ pc' \in DOMAIN code
  BY <1>1, <1>2, GoesIs
<1>8. SavedKept'
  <2>1. ASSUME NEW h \in Halves PROVE a1[<<"frame", SavedSlot + h>>] = <<"rbx", h>>
    <3>1. SavedSlot + h \in Int /\ <<"frame", SavedSlot + h>> \in Places /\ <<"rbx", h>> \in Places /\ "rbx" \in Regs
          /\ SavedSlot \in Int /\ h \in Int /\ h \in {0, 4} /\ h < 8
      BY <1>2, PlacesAre DEF Slots, Regs, Halves
    <3>2. Made(after, pc, Exec(after, pc))
      BY <1>2, ExecIs
    <3>3. CASE pc = 1
      <4>1. code[pc] = StoreTo(SavedSlot, "rbx", 8) /\ pc \notin dead /\ after = [p \in Places |-> p]
        BY <1>2, <3>3 DEF TrafficInv, Proper, Removed
      <4>2. SavedSlot + h \in Halves4(pc) /\ code[pc].op = "store" /\ code[pc].disp = SavedSlot /\ code[pc].reg = "rbx"
        BY <3>1, <4>1 DEF Halves4, StoreTo
      <4>3. a1[<<"frame", SavedSlot + h>>] = after[<<"rbx", (SavedSlot + h) - SavedSlot>>]
        BY <3>1, <3>2, <4>1, <4>2 DEF Made
      <4>4. (SavedSlot + h) - SavedSlot = h
        BY <3>1
      <4> QED
        BY <3>1, <4>1, <4>3, <4>4
    <3>4. CASE pc # 1
      <4>1. after[<<"frame", SavedSlot + h>>] = <<"rbx", h>>
        BY <3>4 DEF TrafficInv, SavedKept
      <4>2. code[pc].op = "store" => code[pc].disp \in {Spill, Park, Park1}
        <5>1. pc \in 2..Len(code) /\ code[pc] \in Kinds
          BY <1>2, <3>4, KindOf DEF Proper
        <5> QED
          BY <5>1, KindsAre DEF Parked
      <4>3. ASSUME code[pc].op = "store" PROVE SavedSlot + h \notin Halves4(pc)
        <5>1. /\ Spill \in Int /\ SavedSlot \in Int /\ Park \in Int /\ Park1 \in Int
              /\ Spill + 8 <= SavedSlot /\ SavedSlot + 8 <= Park /\ Park1 = Park + 8
          BY <1>2, SlotsAre DEF Framed
        <5>2. ASSUME NEW x \in Halves PROVE SavedSlot + h # code[pc].disp + x
          <6>1. x \in {0, 4}
            BY DEF Halves
          <6> QED
            BY <3>1, <4>2, <4>3, <5>1, <6>1
        <5> QED
          BY <5>2 DEF Halves4
      <4>4. Exec(after, pc)[<<"frame", SavedSlot + h>>] = after[<<"frame", SavedSlot + h>>]
        BY <3>1, <3>2, <4>3 DEF Made
      <4> QED
        BY <4>1, <4>4
    <3> QED
      BY <3>3, <3>4
  <2> QED
    BY <1>1, <2>1 DEF SavedKept
<1>9. pc' # 1
  BY <1>7
<1> QED
  BY <1>1, <1>2, <1>5, <1>6, <1>7, <1>8, <1>9 DEF TrafficInv

(* The code is what the passes rely on; what they removed is described by     *)
(* labels of what is live; the machines agree on what is live, and on every   *)
(* register but, behind a pair that was removed, rax.                         *)
THEOREM TrafficInvariant == Given /\ FSpec => []TrafficInv
<1>1. Given /\ FInit => TrafficInv
  BY InitHolds
<1>2. TrafficInv /\ [FNext]_fvars => TrafficInv'
  <2>1. ASSUME TrafficInv, UNCHANGED fvars PROVE TrafficInv'
    <3>1. /\ code' = code /\ dead' = dead /\ cut' = cut /\ mode' = mode /\ pc' = pc
          /\ before' = before /\ after' = after
      BY <2>1 DEF fvars
    <3>2. PICK lab : Describe(lab, dead, cut) /\ MachinesAgree(lab, before, after, pc)
      BY <2>1 DEF TrafficInv
    <3>3. Removed(dead, cut)' /\ Describe(lab, dead, cut)' /\ Proper' /\ Framed'
      BY <2>1, <3>1, <3>2, SameCode DEF TrafficInv, Framed
    <3>4. MachinesAgree(lab, before, after, pc)'
      BY <3>1, <3>2 DEF MachinesAgree
    <3>5. SavedKept' <=> SavedKept
      BY <3>1 DEF SavedKept
    <3> QED
      BY <2>1, <3>1, <3>3, <3>4, <3>5 DEF TrafficInv
  <2> QED
    BY <2>1, OptimizeKeeps, StepKeeps DEF FNext, Returned
<1> QED
  BY <1>1, <1>2, PTL DEF FSpec

LEMMA InvAgrees ==
  ASSUME TrafficInv
  PROVE  ReadsAgreeUnlessReread
<1> SUFFICES ASSUME ~Reread, mode = "run", pc \notin dead, NEW r \in Operands, NEW h \in Halves
             PROVE  after[<<r, h>>] = before[<<r, h>>]
  BY DEF ReadsAgreeUnlessReread, ReadsAgree
<1>1. Proper /\ Framed /\ Removed(dead, cut) /\ pc \in DOMAIN code
  BY DEF TrafficInv
<1>2. PICK lab : MachinesAgree(lab, before, after, pc)
  BY DEF TrafficInv
<1>3. r \in Regs
  <2>1. code[pc].op = "alu" => code[pc].reads \in SUBSET Regs
    BY <1>1, KindOf
  <2> QED
    BY <2>1 DEF Operands, Regs
<1>4. after[<<r, h>>] # before[<<r, h>>] => r = "rax" /\ pc - 1 \in cut
  BY <1>1, <1>2, <1>3 DEF MachinesAgree, Removed
<1>5. ASSUME r = "rax", pc - 1 \in cut PROVE FALSE
  <2>1. SetsRax(code[pc]) /\ code[pc - 1].reg = "rax"
    BY <1>1, <1>5, BehindPair
  <2>2. code[pc].op = "alu" /\ "rax" \in code[pc].reads
    BY <1>5, <2>1 DEF Operands, SetsRax
  <2>3. (pc - 1) + 1 = pc
    BY <1>1 DEF Proper
  <2> QED
    BY <1>5, <2>1, <2>2, <2>3 DEF Reread
<1> QED
  BY <1>4, <1>5

(* Whatever the passes remove, on every path through the code both machines   *)
(* read the same, unless the instruction that parks a register reads it.      *)
THEOREM TrafficUnseen == Given /\ FSpec => []ReadsAgreeUnlessReread
  BY TrafficInvariant, InvAgrees, PTL

(* Whatever the passes remove, the unwinder finds the caller's register.      *)
THEOREM SavesStay == Given /\ FSpec => []SaveAreaIntact
<1>1. TrafficInv => SaveAreaIntact
  <2>1. pc \in DOMAIN code /\ pc > 1 /\ Proper => pc # 1
    BY DEF Proper
  <2> QED
    BY <2>1 DEF TrafficInv, SaveAreaIntact, SavedKept
<1> QED
  BY <1>1, TrafficInvariant, PTL
=============================================================================
