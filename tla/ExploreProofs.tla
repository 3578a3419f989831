---------------------------- MODULE ExploreProofs -----------------------------
(***************************************************************************)
(* Proofs about Explore, for every set of identities, every fork and       *)
(* table, every budget and either answer to OnlyLoses.  One inductive      *)
(* invariant, IInv, carries the five invariants the run checks: what is    *)
(* queued is a successor of what queued it, what is visited is what has a  *)
(* block, and in the first pass an edge that is not recorded yet is still  *)
(* on the queue.                                                           *)
(***************************************************************************)
EXTENDS Explore, TLAPS, FiniteSetTheorems, FunctionTheorems, SequenceTheorems

-----------------------------------------------------------------------------
(* The inductive invariant *)

Tasks == [id : Id, from : Id \cup {NoId}, ancestors : SUBSET Id]
Blocks == [id : Id, term : Terminators]

Typed == TypeOK /\ known \in [DOMAIN known -> Terminators]

\* What `Requeued` and `Children` rely on.
Shaped(term) == /\ term.kind = "return" => term.to = <<>>
                /\ term.kind = "jump" => Len(term.to) = 1
TermsShaped == /\ \A b \in ToSet(blocks) : Shaped(b.term)
               /\ \A id \in DOMAIN known : Shaped(known[id])

Sound(task) == /\ task.from = NoId => task.id = Entry
               /\ task.from # NoId => task.id \in Succ(task.from)
               /\ task.ancestors \subseteq Ids
QueueSound == \A task \in ToSet(queue) : Sound(task)

EntryReaches == \A b \in Ids : Reaches(Entry, b)

VisitedOnce == (~cutShort => visited = Ids) /\ OneBlockPerId

Recorded(b, t) == t \in Ids /\ <<b, t>> \in edges
Queued(b, t) == \E task \in ToSet(queue) : task.from = b /\ task.id = t
NothingForgotten == pass = 1 /\ ~cutShort =>
    \A b \in Ids : \A t \in Succ(b) : Recorded(b, t) \/ Queued(b, t)

CutAtFirstJoins == pass = 2 /\ ~knownShort =>
    \A p, q \in DOMAIN known : p # q => ToSet(known[p].to) \cap ToSet(known[q].to) \subseteq cut

IInv == /\ Typed
        /\ TermsShaped
        /\ QueueSound
        /\ PredsAreSound
        /\ EntryReaches
        /\ VisitedOnce
        /\ NothingForgotten
        /\ CutAtFirstJoins

-----------------------------------------------------------------------------
(* Lemmas about numbers, sequences and `Distinct` *)

(* Every nonempty set of naturals has a least element. *)
LEMMA LeastNatural ==
  ASSUME NEW S \in SUBSET Nat, S # {}
  PROVE  \E m \in S : \A k \in S : m <= k
<1> DEFINE R == {p \in Nat \X Nat : p[1] < p[2]}
<1>1. IsWellFoundedOn(OpToRel(<, Nat), Nat)
  BY NatLessThanWellFounded
<1>2. R = OpToRel(<, Nat)
  BY DEF OpToRel
<1>3. IsWellFoundedOn(R, Nat)
  BY <1>1, <1>2
<1>4. \A k, m \in Nat : <<k, m>> \in R <=> k < m
  OBVIOUS
<1> HIDE DEF R
<1>5. PICK m \in S : \A k \in S : ~ (<<k, m>> \in R)
  BY <1>3, WFMin
<1>6. \A k \in S : ~ (k < m)
  BY <1>4, <1>5
<1>7. \A k \in S : m <= k
  BY <1>6
<1> QED
  BY <1>7

(* In a finite set of naturals, counting from below gives different elements  *)
(* different ranks, from one to the size of the set.                          *)
LEMMA RankInRange ==
  ASSUME NEW S \in SUBSET Nat, IsFiniteSet(S), NEW i \in S
  PROVE  /\ IsFiniteSet({j \in S : j <= i})
         /\ Cardinality({j \in S : j <= i}) \in 1..Cardinality(S)
<1> DEFINE upTo == {j \in S : j <= i}
<1>1. i \in Nat
  OBVIOUS
<1>2. IsFiniteSet(upTo) /\ Cardinality(upTo) <= Cardinality(S)
  BY FS_Subset
<1>3. Cardinality(upTo) # 0
  BY <1>1, <1>2, FS_EmptySet
<1> QED
  BY <1>2, <1>3, FS_CardinalityType

(* The more of a set lies below a member, the greater that member.          *)
LEMMA RanksGrow ==
  ASSUME NEW S \in SUBSET Nat, IsFiniteSet(S), NEW i \in S, NEW k \in S, i < k
  PROVE  Cardinality({j \in S : j <= i}) < Cardinality({j \in S : j <= k})
<1> DEFINE upTo(x) == {j \in S : j <= x}
<1>1. i \in Nat /\ k \in Nat /\ \A j \in S : j \in Nat
  OBVIOUS
<1>2. \A j \in S : j <= i => j <= k
  BY <1>1
<1>3. upTo(i) \subseteq upTo(k)
  BY <1>2
<1>4. k \in upTo(k) /\ k \notin upTo(i)
  BY <1>1
<1>5. /\ IsFiniteSet(upTo(k)) /\ Cardinality(upTo(k)) \in Nat
      /\ Cardinality(upTo(i)) \in Nat
  BY RankInRange, FS_CardinalityType
<1>6. Cardinality(upTo(i)) <= Cardinality(upTo(k)) /\ Cardinality(upTo(i)) # Cardinality(upTo(k))
  BY <1>3, <1>4, <1>5, FS_Subset
<1> QED
  BY <1>5, <1>6

(* No two members have the same rank.                                       *)
LEMMA RankIsUnique ==
  ASSUME NEW S \in SUBSET Nat, IsFiniteSet(S), NEW i \in S, NEW k \in S,
         Cardinality({j \in S : j <= i}) = Cardinality({j \in S : j <= k})
  PROVE  i = k
<1>1. i \in Nat /\ k \in Nat
  OBVIOUS
<1>2. /\ Cardinality({j \in S : j <= i}) \in Nat
      /\ Cardinality({j \in S : j <= k}) \in Nat
  BY RankInRange, FS_CardinalityType
<1>3. ~ (i < k) /\ ~ (k < i)
  BY <1>2, RanksGrow
<1> QED
  BY <1>1, <1>3

(* And every rank is taken.                                                   *)
LEMMA Ranks ==
  ASSUME NEW S \in SUBSET Nat, IsFiniteSet(S), NEW n \in 1..Cardinality(S)
  PROVE  \E i \in S : Cardinality({j \in S : j <= i}) = n
<1> DEFINE rank == [i \in S |-> Cardinality({j \in S : j <= i})]
<1>1. rank \in Injection(S, 1..Cardinality(S))
  <2>1. rank \in [S -> 1..Cardinality(S)]
    BY RankInRange
  <2>2. \A i, k \in S : rank[i] = rank[k] => i = k
    BY RankIsUnique
  <2> QED
    BY <2>1, <2>2 DEF Injection, IsInjective
<1>2. rank \in Surjection(S, 1..Cardinality(S))
  <2>1. Cardinality(S) \in Nat
    BY FS_CardinalityType
  <2>2. IsFiniteSet(1..Cardinality(S)) /\ Cardinality(1..Cardinality(S)) = Cardinality(S)
    BY <2>1, FS_Interval
  <2> QED
    BY <1>1, <2>2, FS_Injection
<1>3. PICK i \in S : rank[i] = n
  BY <1>2 DEF Surjection
<1> QED
  BY <1>3

(* What a sequence holds.                                                   *)
LEMMA SetOfSeq ==
  ASSUME NEW S, NEW s \in Seq(S)
  PROVE  ToSet(s) \subseteq S
BY DEF ToSet

(* Appending adds one element.                                              *)
LEMMA SetOfAppend ==
  ASSUME NEW S, NEW s \in Seq(S), NEW e \in S
  PROVE  /\ Append(s, e) \in Seq(S)
         /\ ToSet(Append(s, e)) = ToSet(s) \cup {e}
<1>1. /\ Append(s, e) \in Seq(S)
      /\ Len(Append(s, e)) = Len(s) + 1
      /\ Append(s, e)[Len(s) + 1] = e
      /\ \A i \in 1..Len(s) : Append(s, e)[i] = s[i]
  OBVIOUS
<1>2. DOMAIN s = 1..Len(s) /\ DOMAIN Append(s, e) = 1..Len(s) + 1
  BY <1>1
<1> QED
  BY <1>1, <1>2 DEF ToSet

(* Joining two sequences joins what they hold.                              *)
LEMMA SetOfConcat ==
  ASSUME NEW S, NEW s \in Seq(S), NEW t \in Seq(S)
  PROVE  /\ s \o t \in Seq(S)
         /\ ToSet(s \o t) = ToSet(s) \cup ToSet(t)
<1>1. s \o t \in Seq(S) /\ DOMAIN (s \o t) = 1..Len(s) + Len(t)
  OBVIOUS
<1>2. DOMAIN s = 1..Len(s) /\ DOMAIN t = 1..Len(t)
  OBVIOUS
<1>3. \A i \in 1..Len(s) : i \in DOMAIN (s \o t) /\ (s \o t)[i] = s[i]
  BY <1>1
<1>4. \A j \in 1..Len(t) : Len(s) + j \in DOMAIN (s \o t) /\ (s \o t)[Len(s) + j] = t[j]
  BY <1>1
<1>5. \A i \in DOMAIN (s \o t) : \/ i \in 1..Len(s)
                                 \/ \E j \in 1..Len(t) : i = Len(s) + j
  <2> TAKE i \in DOMAIN (s \o t)
  <2>1. i \in 1..Len(s) \/ i - Len(s) \in 1..Len(t)
    BY <1>1
  <2> QED
    BY <2>1
<1>6. ToSet(s \o t) \subseteq ToSet(s) \cup ToSet(t)
  BY <1>2, <1>3, <1>4, <1>5 DEF ToSet
<1>7. ToSet(s) \subseteq ToSet(s \o t)
  BY <1>2, <1>3 DEF ToSet
<1>8. ToSet(t) \subseteq ToSet(s \o t)
  BY <1>2, <1>4 DEF ToSet
<1> QED
  BY <1>1, <1>6, <1>7, <1>8

(* A sequence that is not empty holds its last element and the rest.        *)
LEMMA SetOfFront ==
  ASSUME NEW S, NEW s \in Seq(S), s # <<>>
  PROVE  /\ Front(s) \in Seq(S) /\ Last(s) \in S
         /\ ToSet(s) = ToSet(Front(s)) \cup {Last(s)}
<1>1. Len(s) \in Nat \ {0} /\ DOMAIN s = 1..Len(s)
  OBVIOUS
<1>2. /\ Front(s) \in Seq(S) /\ Len(Front(s)) = Len(s) - 1
      /\ \A i \in 1..Len(s) - 1 : Front(s)[i] = s[i]
  BY <1>1 DEF Front
<1>3. DOMAIN Front(s) = 1..Len(s) - 1
  BY <1>2
<1> QED
  BY <1>1, <1>2, <1>3 DEF ToSet, Last

(* Each arm has a first occurrence.                                           *)
LEMMA FirstOccurrence ==
  ASSUME NEW arms \in Seq(Id), NEW k \in DOMAIN arms
  PROVE  \E i \in FirstAt(arms) : arms[i] = arms[k]
<1> DEFINE S == {i \in DOMAIN arms : arms[i] = arms[k]}
<1>1. S \in SUBSET Nat /\ S # {}
  OBVIOUS
<1>2. PICK i \in S : \A j \in S : i <= j
  BY <1>1, LeastNatural
<1>3. ASSUME NEW j \in 1..i-1
      PROVE  arms[j] # arms[i]
  <2>1. j \in DOMAIN arms /\ ~ (i <= j)
    BY <1>1
  <2> QED
    BY <1>2, <2>1
<1> QED
  BY <1>2, <1>3 DEF FirstAt

(* `Distinct` keeps the arms there are, and no others.                        *)
LEMMA DistinctKeepsArms ==
  ASSUME NEW arms \in Seq(Id)
  PROVE  Distinct(arms) \in Seq(Id) /\ ToSet(Distinct(arms)) = ToSet(arms)
<1> DEFINE F == FirstAt(arms)
           at(n) == CHOOSE i \in F : Cardinality({j \in F : j <= i}) = n
<1>1. F \in SUBSET Nat /\ F \subseteq DOMAIN arms /\ IsFiniteSet(F)
  <2>1. F \subseteq DOMAIN arms /\ DOMAIN arms = 1..Len(arms) /\ Len(arms) \in Nat
    BY DEF FirstAt
  <2>2. IsFiniteSet(1..Len(arms))
    BY <2>1, FS_Interval
  <2> QED
    BY <2>1, <2>2, FS_Subset
<1>2. Cardinality(F) \in Nat
  BY <1>1, FS_CardinalityType
<1>3. \A n \in 1..Cardinality(F) : at(n) \in F /\ Cardinality({j \in F : j <= at(n)}) = n
  BY <1>1, Ranks
<1> HIDE DEF F
<1>4. Distinct(arms) = [n \in 1..Cardinality(F) |-> arms[at(n)]]
  BY DEF Distinct, F
<1> HIDE DEF at
<1>5. \A n \in 1..Cardinality(F) : arms[at(n)] \in Id
  <2>1. \A i \in DOMAIN arms : arms[i] \in Id
    OBVIOUS
  <2> QED
    BY <1>1, <1>3, <2>1
<1>6. Distinct(arms) \in Seq(Id) /\ DOMAIN Distinct(arms) = 1..Cardinality(F)
  BY <1>2, <1>4, <1>5
<1>7. ToSet(Distinct(arms)) \subseteq ToSet(arms)
  BY <1>1, <1>3, <1>4, <1>6 DEF ToSet
<1>8. ASSUME NEW k \in DOMAIN arms
      PROVE  arms[k] \in ToSet(Distinct(arms))
  <2>1. PICK i \in F : arms[i] = arms[k]
    BY FirstOccurrence DEF F
  <2> DEFINE n == Cardinality({j \in F : j <= i})
  <2>2. n \in 1..Cardinality(F)
    BY <1>1, <2>1, RankInRange
  <2>3. at(n) = i
    <3> HIDE DEF n
    <3>1. PICK a \in F : a = at(n) /\ Cardinality({j \in F : j <= a}) = n
      BY <1>3, <2>2
    <3>2. Cardinality({j \in F : j <= a}) = Cardinality({j \in F : j <= i})
      BY <3>1 DEF n
    <3>3. a = i
      BY <1>1, <2>1, <3>1, <3>2, RankIsUnique
    <3> QED
      BY <3>1, <3>3
  <2> QED
    BY <1>4, <1>6, <2>1, <2>2, <2>3 DEF ToSet
<1> QED
  BY <1>6, <1>7, <1>8 DEF ToSet

-----------------------------------------------------------------------------
(* Lemmas about stops, terminators and tasks *)

\* What is queued for a block's terminator: its targets, and a jump's once more.
Continued(targets, term) == ToSet(targets) \cup (IF term.kind = "jump" THEN {term.to[1]} ELSE {})

(* Forks and tables list block ids.                                         *)
LEMMA ForksAreSeqs ==
  /\ \A f \in NativeForks \cup SymbolicForks : f \in Seq(Id)
  /\ \A t \in Tables : t \in Seq(Id)
<1>1. ASSUME NEW f \in NativeForks \cup SymbolicForks
      PROVE  f \in Seq(Id)
  <2>1. PICK a \in Id, b \in Id : f = <<a, b>>
    BY ForkAssumption
  <2> QED
    BY <2>1
<1> QED
  BY <1>1, TableAssumption

(* A stop's terminator, when nothing is adopted: its targets are exactly what *)
(* is queued, or the ancestor a back edge closes on.                          *)
LEMMA FreshTerm ==
  ASSUME NEW A \in SUBSET Id, NEW stop \in Stops(A)
  PROVE  /\ Terminator(stop) \in Terminators /\ Shaped(Terminator(stop))
         /\ Forked(stop) \in Seq(Id)
         /\ Continued(Forked(stop), Terminator(stop)) \subseteq ToSet(Terminator(stop).to)
         /\ \A t \in ToSet(Terminator(stop).to) :
               \/ t \in ToSet(Forked(stop))
               \/ stop.kind = "backedge" /\ t = stop.arms[1]
         /\ stop.kind = "backedge" => /\ stop.arms[1] \in A
                                      /\ stop.arms[1] \in ToSet(Terminator(stop).to)
<1> DEFINE term == Terminator(stop)
           targets == Forked(stop)
           Goal == /\ term \in Terminators /\ Shaped(term)
                   /\ targets \in Seq(Id)
                   /\ Continued(targets, term) \subseteq ToSet(term.to)
                   /\ \A t \in ToSet(term.to) :
                         \/ t \in ToSet(targets)
                         \/ stop.kind = "backedge" /\ t = stop.arms[1]
                   /\ stop.kind = "backedge" => /\ stop.arms[1] \in A
                                                /\ stop.arms[1] \in ToSet(term.to)
<1>a. ToSet(<<>>) = {} /\ <<>> \in Seq(Id)
  BY DEF ToSet
<1>1. CASE stop.kind \in {"return", "unsupported", "deadline", "opaque"}
  <2>1. stop.arms = <<>> /\ targets = <<>>
    BY <1>1 DEF Stops, Stop, Forked
  <2>2. term.to = <<>> /\ term.kind \in {"return", "unresolved"} /\ term = [kind |-> term.kind, to |-> <<>>]
    BY <1>1 DEF Terminator, Term, Unresolved
  <2>3. term \in Terminators
    BY <1>a, <2>2 DEF Terminators
  <2> QED
    BY <1>a, <1>1, <2>1, <2>2, <2>3 DEF Shaped, Continued
<1>2. CASE stop.kind = "backedge"
  <2>1. PICK a \in A : stop.arms = <<a>>
    BY <1>2 DEF Stops, Stop
  <2>2. targets = <<>> /\ term = [kind |-> "backedge", to |-> <<a>>]
    BY <1>2, <2>1 DEF Forked, Terminator, Term
  <2>3. ToSet(<<a>>) = {a} /\ <<a>> \in Seq(Id)
    BY DEF ToSet
  <2> QED
    BY <1>a, <1>2, <2>1, <2>2, <2>3 DEF Shaped, Continued, Terminators
<1>3. CASE stop.kind = "native"
  <2>1. stop.arms \in Seq(Id)
    BY <1>3, ForksAreSeqs DEF Stops, Stop
  <2>2. targets = stop.arms /\ term = [kind |-> "branch", to |-> stop.arms]
    BY <1>3 DEF Forked, Terminator, Term
  <2> QED
    BY <1>3, <2>1, <2>2 DEF Shaped, Continued, Terminators
<1>4. CASE stop.kind \in {"twoway", "multiway"}
  <2>1. stop.arms \in Seq(Id)
    BY <1>4, ForksAreSeqs DEF Stops, Stop
  <2>2. Distinct(stop.arms) \in Seq(Id) /\ ToSet(Distinct(stop.arms)) = ToSet(stop.arms)
    BY <2>1, DistinctKeepsArms
  <2>3. /\ targets \in Seq(Id) /\ ToSet(targets) = ToSet(stop.arms)
    BY <1>4, <2>1, <2>2 DEF Forked
  <2>4. \/ term = [kind |-> "jump", to |-> Distinct(stop.arms)] /\ Len(Distinct(stop.arms)) = 1
        \/ term = [kind |-> "branch", to |-> stop.arms]
        \/ term = [kind |-> "switch", to |-> Distinct(stop.arms)]
    BY <1>4 DEF Terminator, Term
  <2>5. ToSet(term.to) = ToSet(stop.arms) /\ term \in Terminators /\ Shaped(term)
    BY <2>1, <2>2, <2>4 DEF Terminators, Shaped
  <2>6. term.kind = "jump" => term.to[1] \in ToSet(term.to)
    BY <2>2, <2>4 DEF ToSet
  <2> QED
    BY <1>4, <2>3, <2>5, <2>6 DEF Continued
<1>5. stop.kind \in {"return", "unsupported", "deadline", "opaque", "backedge", "native",
                     "twoway", "multiway"}
  BY DEF Stops, Stop
<1>6. Goal
  BY <1>1, <1>2, <1>3, <1>4, <1>5
<1> QED
  BY <1>6

(* An adopted terminator queues only its own targets.                         *)
LEMMA AdoptedTerm ==
  ASSUME Typed, NEW id \in DOMAIN known, Shaped(known[id])
  PROVE  /\ Adopted(id) \in Terminators /\ Shaped(Adopted(id))
         /\ Requeued(id) \in Seq(Id)
         /\ Continued(Requeued(id), Adopted(id)) \subseteq ToSet(Adopted(id).to)
<1> DEFINE prev == known[id]
<1>a. ToSet(<<>>) = {} /\ <<>> \in Seq(Id)
  BY DEF ToSet
<1>1. prev \in Terminators /\ prev.to \in Seq(Id)
  BY DEF Typed, Terminators
<1>2. Requeued(id) \in Seq(Id) /\ ToSet(Requeued(id)) \subseteq ToSet(prev.to)
  BY <1>a, <1>1 DEF Requeued
<1>3. \/ Adopted(id) = [kind |-> "adopted", to |-> prev.to]
      \/ Adopted(id) = [kind |-> "adoptedswitch", to |-> prev.to]
      \/ Adopted(id) = [kind |-> "adoptedreturn", to |-> <<>>] /\ prev.kind = "return"
      \/ Adopted(id) = prev
  BY DEF Adopted, Term
<1>4. Adopted(id) \in Terminators /\ Shaped(Adopted(id)) /\ Adopted(id).to = prev.to
  BY <1>a, <1>1, <1>3 DEF Terminators, Shaped
<1>5. Adopted(id).kind = "jump" => Adopted(id).to[1] \in ToSet(Adopted(id).to)
  BY <1>4 DEF Shaped, Terminators, ToSet
<1> QED
  BY <1>2, <1>4, <1>5 DEF Continued

(* `Children` has a task for each continued target, and no other.             *)
LEMMA ChildTasks ==
  ASSUME NEW task \in Tasks, NEW targets \in Seq(Id), NEW term \in Terminators, Shaped(term)
  PROVE  /\ Children(task, targets, term) \in Seq(Tasks)
         /\ ToSet(Children(task, targets, term)) =
               {Task(t, task.id, task.ancestors \cup {task.id}) : t \in Continued(targets, term)}
<1> DEFINE more == IF term.kind = "jump" THEN 1 ELSE 0
           target(i) == IF i <= Len(targets) THEN targets[i] ELSE term.to[1]
           child(t) == Task(t, task.id, task.ancestors \cup {task.id})
<1>1. Len(targets) \in Nat /\ DOMAIN targets = 1..Len(targets) /\ more \in {0, 1}
  OBVIOUS
<1>2. Children(task, targets, term) = [i \in 1..Len(targets) + more |-> child(target(i))]
  BY DEF Children
<1>3. ASSUME NEW i \in 1..Len(targets) + more
      PROVE  target(i) \in Continued(targets, term) /\ target(i) \in Id
  <2>1. CASE i <= Len(targets)
    <3>1. i \in DOMAIN targets /\ target(i) = targets[i]
      BY <1>1, <2>1
    <3> QED
      BY <3>1 DEF Continued, ToSet
  <2>2. CASE ~ (i <= Len(targets))
    <3>1. term.kind = "jump" /\ target(i) = term.to[1]
      BY <1>1, <2>2
    <3>2. Len(term.to) = 1 /\ term.to \in Seq(Id)
      BY <3>1 DEF Shaped, Terminators
    <3> QED
      BY <3>1, <3>2 DEF Continued
  <2> QED
    BY <2>1, <2>2
<1>4. ASSUME NEW t \in Continued(targets, term)
      PROVE  \E i \in 1..Len(targets) + more : t = target(i)
  <2>1. CASE t \in ToSet(targets)
    BY <1>1, <2>1 DEF ToSet
  <2>2. CASE term.kind = "jump" /\ t = term.to[1]
    <3>1. Len(targets) + 1 \in 1..Len(targets) + more /\ ~ (Len(targets) + 1 <= Len(targets))
      BY <1>1, <2>2
    <3> QED
      BY <2>2, <3>1
  <2> QED
    BY <2>1, <2>2 DEF Continued
<1>5. \A t \in Id : child(t) \in Tasks
  BY DEF Task, Tasks
<1> HIDE DEF more, target, child
<1>6. Children(task, targets, term) \in Seq(Tasks)
  BY <1>1, <1>2, <1>3, <1>5
<1>7. ToSet(Children(task, targets, term)) = {child(t) : t \in Continued(targets, term)}
  BY <1>2, <1>3, <1>4 DEF ToSet
<1> QED
  BY <1>6, <1>7 DEF child

-----------------------------------------------------------------------------
(* Lemmas about the graph *)

(* A block's targets are successors of its identity, and only an identity     *)
(* with a block has successors.                                               *)
LEMMA SuccOfBlock ==
  ASSUME Typed
  PROVE  /\ \A i \in DOMAIN blocks : ToSet(blocks[i].term.to) \subseteq Succ(blocks[i].id)
         /\ \A x, t : t \in Succ(x) => x \in Ids /\ t \in Id
         /\ Ids \subseteq Id
<1>1. blocks \in Seq(Blocks)
  BY DEF Typed, TypeOK, Blocks
<1>2. \A i \in DOMAIN blocks : /\ blocks[i].id \in Id
                               /\ blocks[i].term.to \in Seq(Id)
  <2>1. \A i \in DOMAIN blocks : blocks[i] \in Blocks
    BY <1>1
  <2> QED
    BY <2>1 DEF Blocks, Terminators
<1>3. \A i \in DOMAIN blocks : ToSet(blocks[i].term.to) \subseteq Id
  BY <1>2, SetOfSeq
<1> QED
  BY <1>2, <1>3 DEF Succ, Ids

(* One more block: one more identity, and its targets as successors.          *)
LEMMA Grow ==
  ASSUME Typed, NEW id \in Id, NEW term \in Terminators,
         blocks' = Append(blocks, Block(id, term))
  PROVE  /\ blocks' \in Seq(Blocks)
         /\ DOMAIN blocks' = 1..Len(blocks) + 1 /\ DOMAIN blocks = 1..Len(blocks)
         /\ Len(blocks) \in Nat
         /\ blocks'[Len(blocks) + 1] = Block(id, term)
         /\ \A i \in DOMAIN blocks : blocks'[i] = blocks[i]
         /\ ToSet(blocks') = ToSet(blocks) \cup {Block(id, term)}
         /\ Ids' = Ids \cup {id}
         /\ \A x : Succ(x)' = Succ(x) \cup (IF x = id THEN ToSet(term.to) ELSE {})
<1>1. blocks \in Seq(Blocks) /\ Block(id, term) \in Blocks
  BY DEF Typed, TypeOK, Blocks, Block
<1>2. /\ Len(blocks) \in Nat /\ DOMAIN blocks = 1..Len(blocks)
      /\ blocks' \in Seq(Blocks) /\ DOMAIN blocks' = 1..Len(blocks) + 1
      /\ blocks'[Len(blocks) + 1] = Block(id, term)
      /\ \A i \in 1..Len(blocks) : blocks'[i] = blocks[i]
  BY <1>1
<1>3. ToSet(blocks') = ToSet(blocks) \cup {Block(id, term)}
  BY <1>1, SetOfAppend
<1>4. DOMAIN blocks' = DOMAIN blocks \cup {Len(blocks) + 1}
  BY <1>2
<1>5. Ids' = Ids \cup {id}
  BY <1>2, <1>4 DEF Ids, Block
<1>6. ASSUME NEW x
      PROVE  Succ(x)' = Succ(x) \cup (IF x = id THEN ToSet(term.to) ELSE {})
  <2>1. blocks'[Len(blocks) + 1].id = id /\ blocks'[Len(blocks) + 1].term.to = term.to
    BY <1>2 DEF Block
  <2>2. Succ(x)' = UNION {ToSet(blocks'[i].term.to) : i \in {j \in DOMAIN blocks' : blocks'[j].id = x}}
    BY DEF Succ, ToSet
  <2>3. \A t : t \in Succ(x)' <=> \E i \in DOMAIN blocks' : blocks'[i].id = x /\ t \in ToSet(blocks'[i].term.to)
    BY <2>2
  <2>4. \A t : t \in Succ(x) <=> \E i \in DOMAIN blocks : blocks[i].id = x /\ t \in ToSet(blocks[i].term.to)
    BY DEF Succ
  <2>5. \A t : t \in Succ(x)' <=> t \in Succ(x) \/ (x = id /\ t \in ToSet(term.to))
    BY <1>2, <1>4, <2>1, <2>3, <2>4
  <2> QED
    BY <2>5
<1> QED
  BY <1>2, <1>3, <1>5, <1>6

(* More successors reach no less.                                             *)
LEMMA ReachMore ==
  ASSUME \A x : Succ(x) \subseteq Succ(x)', NEW b, Reaches(Entry, b)
  PROVE  Reaches(Entry, b)'
BY DEF Reaches

(* What is queued can be reached from the entry.                              *)
LEMMA TaskReached ==
  ASSUME Typed, QueueSound, EntryReaches, NEW task \in ToSet(queue)
  PROVE  Reaches(Entry, task.id)
<1>1. Sound(task)
  BY DEF QueueSound
<1>2. CASE task.from = NoId
  BY <1>1, <1>2 DEF Sound, Reaches
<1>3. CASE task.from # NoId
  <2>1. task.id \in Succ(task.from)
    BY <1>1, <1>3 DEF Sound
  <2>2. task.from \in Ids
    BY <2>1, SuccOfBlock
  <2>3. Reaches(Entry, task.from)
    BY <2>2 DEF EntryReaches
  <2> QED
    BY <2>1, <2>3 DEF Reaches
<1> QED
  BY <1>2, <1>3

(* The task on top.                                                           *)
LEMMA TopTask ==
  ASSUME Typed, queue # <<>>
  PROVE  /\ Top \in Tasks /\ Top.id \in Id /\ Top.ancestors \subseteq Id
         /\ Front(queue) \in Seq(Tasks)
         /\ ToSet(queue) = ToSet(Front(queue)) \cup {Top}
<1>1. queue \in Seq(Tasks)
  BY DEF Typed, TypeOK, Tasks
<1>2. Front(queue) \in Seq(Tasks) /\ Top \in Tasks /\ ToSet(queue) = ToSet(Front(queue)) \cup {Top}
  BY <1>1, SetOfFront DEF Top
<1> QED
  BY <1>2 DEF Tasks

(* The edge a task arrives by leads to it.                                    *)
Arriving(task) == IF task.from = NoId THEN {} ELSE {<<task.from, task.id>>}

(* The edge of a queued task leads to the block it asks for.                *)
LEMMA ArrivingSound ==
  ASSUME Typed, QueueSound, NEW task \in ToSet(queue), NEW e \in Arriving(task)
  PROVE  /\ e \in Id \X Id /\ e[2] \in Succ(e[1])
         /\ e = <<task.from, task.id>>
<1>1. queue \in Seq(Tasks)
  BY DEF Typed, TypeOK, Tasks
<1>2. task \in Tasks
  BY <1>1, SetOfSeq
<1>3. task.from # NoId /\ e = <<task.from, task.id>>
  BY DEF Arriving
<1>4. task.from \in Id /\ task.id \in Id
  BY <1>2, <1>3 DEF Tasks
<1>5. task.id \in Succ(task.from)
  BY <1>3 DEF QueueSound, Sound
<1> QED
  BY <1>3, <1>4, <1>5

(* What `Cfg::block` finds is a block with that identity.                     *)
LEMMA FoundTerm ==
  ASSUME Typed, TermsShaped, NEW id \in Ids
  PROVE  /\ Found(id) \in Terminators /\ Shaped(Found(id))
         /\ ToSet(Found(id).to) \subseteq Succ(id)
<1> DEFINE S == {i \in DOMAIN blocks : blocks[i].id = id}
<1>1. blocks \in Seq(Blocks) /\ DOMAIN blocks = 1..Len(blocks)
  BY DEF Typed, TypeOK, Blocks
<1>2. S \in SUBSET Nat /\ S # {}
  BY <1>1 DEF Ids
<1>3. PICK first \in S : \A i \in S : first <= i
  BY <1>2, LeastNatural
<1>4. ASSUME NEW j \in 1..first-1
      PROVE  blocks[j].id # id
  <2>1. first \in 1..Len(blocks)
    BY <1>1
  <2>2. j \in DOMAIN blocks /\ ~ (first <= j)
    BY <1>1, <2>1
  <2> QED
    BY <1>3, <2>2
<1> DEFINE k == CHOOSE i \in DOMAIN blocks : blocks[i].id = id /\ \A j \in 1..i-1 : blocks[j].id # id
<1>5. k \in DOMAIN blocks /\ blocks[k].id = id
  BY <1>3, <1>4
<1> HIDE DEF k
<1>6. Found(id) = blocks[k].term
  BY DEF Found, k
<1>7. blocks[k] \in Blocks /\ blocks[k] \in ToSet(blocks)
  BY <1>1, <1>5 DEF ToSet
<1>8. Found(id) \in Terminators /\ Shaped(Found(id))
  BY <1>6, <1>7 DEF Blocks, TermsShaped
<1> QED
  BY <1>5, <1>6, <1>8, SuccOfBlock

-----------------------------------------------------------------------------
(* The invariant is inductive *)

(* A block is added for the task on top: what was sound stays so.             *)
LEMMA GrowKeeps ==
  ASSUME IInv, queue # <<>>, NEW term \in Terminators, Shaped(term),
         blocks' = Append(blocks, Block(Top.id, term)), known' = known
  PROVE  /\ TermsShaped'
         /\ EntryReaches'
         /\ Ids' = Ids \cup {Top.id}
         /\ \A x : Succ(x) \subseteq Succ(x)'
         /\ \A task \in ToSet(queue) : Sound(task)'
         /\ \A e \in edges : e[2] \in Succ(e[1])'
<1>0. Typed /\ TermsShaped /\ QueueSound /\ EntryReaches /\ PredsAreSound
  BY DEF IInv
<1>1. Top.id \in Id /\ Top \in ToSet(queue)
  BY <1>0, TopTask
<1>2. /\ ToSet(blocks') = ToSet(blocks) \cup {Block(Top.id, term)}
      /\ Ids' = Ids \cup {Top.id}
      /\ \A x : Succ(x) \subseteq Succ(x)'
  BY <1>0, <1>1, Grow
<1>3. TermsShaped'
  <2>1. Block(Top.id, term).term = term
    BY DEF Block
  <2> QED
    BY <1>0, <1>2, <2>1 DEF TermsShaped, Shaped, ToSet
<1>4. EntryReaches'
  <2>1. \A b \in Ids \cup {Top.id} : Reaches(Entry, b)
    BY <1>0, <1>1, TaskReached DEF EntryReaches
  <2>2. ASSUME NEW b \in Ids', Reaches(Entry, b)
        PROVE  Reaches(Entry, b)'
    BY <1>2, <2>2, ReachMore
  <2> QED
    BY <1>2, <2>1, <2>2 DEF EntryReaches
<1>5. \A task \in ToSet(queue) : Sound(task)'
  BY <1>0, <1>2 DEF QueueSound, Sound
<1>6. \A e \in edges : e[2] \in Succ(e[1])'
  BY <1>0, <1>2 DEF PredsAreSound
<1> QED
  BY <1>2, <1>3, <1>4, <1>5, <1>6

(* A task taken up: its block, the edges it makes and the tasks it leaves.    *)
LEMMA TakeUp ==
  ASSUME IInv, InTime, Top.id \notin visited,
         NEW term \in Terminators, Shaped(term),
         NEW children \in Seq(Tasks),
         \A c \in ToSet(children) : /\ c.from = Top.id /\ c.id \in ToSet(term.to)
                                    /\ c.ancestors = Top.ancestors \cup {Top.id},
         NEW closing \in SUBSET (Id \X Ids),
         \A e \in closing : e[1] = Top.id /\ e[2] \in ToSet(term.to),
         pass = 1 => \A t \in ToSet(term.to) : \/ t \in Ids /\ <<Top.id, t>> \in closing
                                               \/ \E c \in ToSet(children) : c.id = t,
         visited' = visited \cup {Top.id},
         blocks' = Append(blocks, Block(Top.id, term)),
         edges' = edges \cup Arriving(Top) \cup closing,
         backEdges' = backEdges \cup closing,
         queue' = Front(queue) \o children,
         timedOut' \in BOOLEAN,
         UNCHANGED <<pass, cutShort, given, done>>
  PROVE  IInv'
<1>0. Typed /\ TermsShaped /\ QueueSound /\ PredsAreSound /\ VisitedOnce /\ NothingForgotten
  BY DEF IInv
<1>1. queue # <<>> /\ ~cutShort
  BY DEF InTime, Pop
<1>2. /\ Top \in Tasks /\ Top.id \in Id /\ Top.ancestors \subseteq Id
      /\ Front(queue) \in Seq(Tasks)
      /\ ToSet(queue) = ToSet(Front(queue)) \cup {Top}
      /\ Sound(Top)
  BY <1>0, <1>1, TopTask DEF QueueSound
<1>3. visited = Ids /\ Top.id \notin Ids /\ Ids \subseteq Id
  BY <1>0, <1>1, SuccOfBlock DEF VisitedOnce
<1>4. /\ TermsShaped' /\ EntryReaches'
      /\ Ids' = Ids \cup {Top.id}
      /\ \A x : Succ(x) \subseteq Succ(x)'
      /\ \A task \in ToSet(queue) : Sound(task)'
      /\ \A e \in edges : e[2] \in Succ(e[1])'
  BY <1>1, GrowKeeps DEF given
<1>5. /\ blocks' \in Seq(Blocks)
      /\ \A x : Succ(x)' = Succ(x) \cup (IF x = Top.id THEN ToSet(term.to) ELSE {})
      /\ DOMAIN blocks' = 1..Len(blocks) + 1 /\ DOMAIN blocks = 1..Len(blocks)
      /\ Len(blocks) \in Nat
      /\ blocks'[Len(blocks) + 1].id = Top.id
      /\ \A i \in DOMAIN blocks : blocks'[i] = blocks[i]
  BY <1>0, <1>2, Grow DEF Block
<1>6. queue' \in Seq(Tasks) /\ ToSet(queue') = ToSet(Front(queue)) \cup ToSet(children)
  BY <1>2, SetOfConcat
<1>7. \A e \in Arriving(Top) : /\ e \in Id \X Id /\ e[2] \in Succ(e[1])
                               /\ e = <<Top.from, Top.id>>
  BY <1>0, <1>2, ArrivingSound
<1>8. Typed'
  <2>1. blocks' \in Seq([id : Id, term : Terminators])
    BY <1>5 DEF Blocks
  <2>2. queue' \in Seq([id : Id, from : Id \cup {NoId}, ancestors : SUBSET Id])
    BY <1>6 DEF Tasks
  <2>3. edges' \subseteq Id \X Id /\ backEdges' \subseteq edges'
    BY <1>0, <1>3, <1>7 DEF Typed, TypeOK
  <2>4. visited' \subseteq Id
    BY <1>2, <1>3
  <2> QED
    BY <1>0, <2>1, <2>2, <2>3, <2>4 DEF Typed, TypeOK, given
<1>9. QueueSound'
  <2>1. \A task \in ToSet(Front(queue)) : Sound(task)'
    BY <1>2, <1>4
  <2>2. ASSUME NEW c \in ToSet(children)
        PROVE  Sound(c)'
    <3>1. c.from = Top.id /\ c.from # NoId
      BY <1>2, IdAssumption
    <3>2. c.id \in Succ(c.from)'
      BY <1>5, <3>1
    <3>3. c.ancestors \subseteq Ids'
      BY <1>2, <1>4 DEF Sound
    <3> QED
      BY <3>1, <3>2, <3>3 DEF Sound
  <2> QED
    BY <1>6, <2>1, <2>2 DEF QueueSound
<1>10. PredsAreSound'
  <2>1. \A e \in closing : e[2] \in Succ(e[1])'
    BY <1>5
  <2>2. \A e \in Arriving(Top) : e[2] \in Succ(e[1])'
    BY <1>4, <1>7
  <2> QED
    BY <1>4, <2>1, <2>2 DEF PredsAreSound
<1>11. VisitedOnce'
  <2>1. visited' = Ids'
    BY <1>3, <1>4
  <2>2. \A i \in DOMAIN blocks : blocks'[i].id \in Ids /\ blocks'[i].id = blocks[i].id
    BY <1>5 DEF Ids
  <2>3. ASSUME NEW i \in DOMAIN blocks', NEW j \in DOMAIN blocks', i < j
        PROVE  blocks'[i].id # blocks'[j].id
    <3>1. i \in DOMAIN blocks /\ (j \in DOMAIN blocks \/ j = Len(blocks) + 1)
      BY <1>5, <2>3
    <3> QED
      BY <1>0, <1>1, <1>3, <1>5, <2>2, <2>3, <3>1 DEF VisitedOnce, OneBlockPerId
  <2> QED
    BY <2>1, <2>3 DEF VisitedOnce, OneBlockPerId
<1>12. NothingForgotten'
  <2> SUFFICES ASSUME pass = 1, NEW b \in Ids', NEW t \in Succ(b)'
               PROVE  Recorded(b, t)' \/ Queued(b, t)'
    BY DEF NothingForgotten, given
  <2>1. CASE t \in Succ(b)
    <3>1. b \in Ids /\ b # NoId
      BY <1>0, <1>3, <2>1, SuccOfBlock, IdAssumption
    <3>2. CASE Recorded(b, t)
      BY <1>4, <3>2 DEF Recorded
    <3>3. CASE Queued(b, t)
      <4>1. PICK task \in ToSet(queue) : task.from = b /\ task.id = t
        BY <3>3 DEF Queued
      <4>2. CASE task \in ToSet(Front(queue))
        BY <1>6, <4>1, <4>2 DEF Queued
      <4>3. CASE task = Top
        BY <1>4, <3>1, <4>1, <4>3 DEF Recorded, Arriving
      <4> QED
        BY <1>2, <4>2, <4>3
    <3> QED
      BY <1>0, <1>1, <2>1, <3>1, <3>2, <3>3 DEF NothingForgotten
  <2>2. CASE b = Top.id /\ t \in ToSet(term.to)
    <3>1. CASE t \in Ids /\ <<Top.id, t>> \in closing
      BY <1>4, <2>2, <3>1 DEF Recorded
    <3>2. CASE \E c \in ToSet(children) : c.id = t
      BY <1>6, <2>2, <3>2 DEF Queued
    <3> QED
      BY <2>2, <3>1, <3>2
  <2> QED
    BY <1>5, <2>1, <2>2
<1>13. CutAtFirstJoins'
  BY DEF IInv, CutAtFirstJoins, given
<1> QED
  BY <1>4, <1>8, <1>9, <1>10, <1>11, <1>12, <1>13 DEF IInv

(* A block too many ends the pass.                                          *)
LEMMA KeepOverBudget ==
  ASSUME IInv, OverBudget
  PROVE  IInv'
<1>1. InTime /\ Top.id \notin visited
  BY DEF OverBudget
<1>2. ToSet(<<>>) = {} /\ <<>> \in Seq(Tasks) /\ <<>> \in Seq(Id)
  BY DEF ToSet
<1>3. Unresolved \in Terminators /\ Shaped(Unresolved) /\ ToSet(Unresolved.to) = {}
  BY <1>2 DEF Unresolved, Terminators, Shaped
<1>4. edges' = edges \cup Arriving(Top) \cup {} /\ backEdges' = backEdges \cup {}
  BY DEF OverBudget, Arrive, Arriving
<1>5. Front(queue) \in Seq(Tasks)
  BY <1>1, TopTask DEF InTime, Pop, IInv
<1>6. queue' = Front(queue) \o <<>>
  BY <1>5 DEF OverBudget
<1>7. timedOut' \in BOOLEAN
  BY DEF OverBudget, IInv, Typed, TypeOK
<1> QED
  BY <1>1, <1>2, <1>3, <1>4, <1>6, <1>7, TakeUp DEF OverBudget

(* A block is evaluated for the first time and its targets are queued.      *)
LEMMA KeepEvaluate ==
  ASSUME IInv, EvaluateTop
  PROVE  IInv'
<1>1. InTime /\ Top.id \notin visited /\ queue # <<>>
  BY DEF EvaluateTop, InTime, Pop
<1>2. PICK stop \in Stopping(Top), covered \in BOOLEAN : Evaluate(stop, covered)
  BY DEF EvaluateTop
<1>3. Typed /\ TermsShaped /\ QueueSound /\ VisitedOnce
  BY DEF IInv
<1>4. Top \in Tasks /\ Top.id \in Id /\ Top.ancestors \subseteq Id /\ Top.ancestors \subseteq Ids
  BY <1>1, <1>3, TopTask DEF QueueSound, Sound
<1>5. stop \in Stops(Top.ancestors)
  BY DEF Stopping, Stops
<1> DEFINE adopt == pass = 2 /\ stop.kind = "opaque" /\ Adoptable(Top.id) /\ covered
           term == IF adopt THEN Adopted(Top.id) ELSE Terminator(stop)
           targets == IF adopt THEN Requeued(Top.id) ELSE Forked(stop)
           closing == IF stop.kind = "backedge" THEN {<<Top.id, stop.arms[1]>>} ELSE {}
           children == Children(Top, targets, term)
<1>6. /\ term \in Terminators /\ Shaped(term)
      /\ targets \in Seq(Id)
      /\ Continued(targets, term) \subseteq ToSet(term.to)
  <2>1. CASE adopt
    BY <1>3, <2>1, AdoptedTerm DEF Adoptable, TermsShaped
  <2>2. CASE ~ adopt
    BY <1>4, <1>5, <2>2, FreshTerm
  <2> QED
    BY <2>1, <2>2
<1>7. /\ closing \in SUBSET (Id \X Ids)
      /\ \A e \in closing : e[1] = Top.id /\ e[2] \in ToSet(term.to)
  <2>1. CASE stop.kind = "backedge"
    <3>1. ~ adopt
      BY <2>1
    <3>2. stop.arms[1] \in Top.ancestors /\ stop.arms[1] \in ToSet(Terminator(stop).to)
      BY <1>4, <1>5, <2>1, FreshTerm
    <3> QED
      BY <1>4, <2>1, <3>1, <3>2
  <2>2. CASE stop.kind # "backedge"
    BY <2>2
  <2> QED
    BY <2>1, <2>2
<1>8. /\ children \in Seq(Tasks)
      /\ ToSet(children) = {Task(t, Top.id, Top.ancestors \cup {Top.id}) : t \in Continued(targets, term)}
  BY <1>4, <1>6, ChildTasks
<1>9. \A c \in ToSet(children) : /\ c.from = Top.id /\ c.id \in ToSet(term.to)
                                 /\ c.ancestors = Top.ancestors \cup {Top.id}
  BY <1>6, <1>8 DEF Task
<1>10. ASSUME pass = 1, NEW t \in ToSet(term.to)
       PROVE  \/ t \in Ids /\ <<Top.id, t>> \in closing
              \/ \E c \in ToSet(children) : c.id = t
  <2>1. ~ adopt
    BY <1>10
  <2>2. t \in ToSet(Forked(stop)) \/ (stop.kind = "backedge" /\ t = stop.arms[1])
    BY <1>4, <1>5, <1>10, <2>1, FreshTerm
  <2>3. CASE t \in ToSet(Forked(stop))
    <3>1. Task(t, Top.id, Top.ancestors \cup {Top.id}) \in ToSet(children)
      BY <1>8, <2>1, <2>3 DEF Continued
    <3> QED
      BY <3>1 DEF Task
  <2>4. CASE stop.kind = "backedge" /\ t = stop.arms[1]
    BY <1>4, <1>5, <2>4, FreshTerm
  <2> QED
    BY <2>2, <2>3, <2>4
<1>11. /\ visited' = visited \cup {Top.id}
       /\ blocks' = Append(blocks, Block(Top.id, term))
       /\ edges' = edges \cup Arriving(Top) \cup closing
       /\ backEdges' = backEdges \cup closing
       /\ queue' = Front(queue) \o children
       /\ timedOut' = (timedOut \/ stop.kind = "deadline")
       /\ UNCHANGED <<pass, cutShort, given, done>>
  BY <1>2 DEF Evaluate, Arriving
<1>12. timedOut' \in BOOLEAN
  BY <1>11
<1> HIDE DEF adopt, term, targets, closing, children
<1> QED
  BY <1>1, <1>6, <1>7, <1>8, <1>9, <1>10, <1>11, <1>12, TakeUp

(* A block reached again only gains an edge.                                *)
LEMMA KeepRevisit ==
  ASSUME IInv, Revisit
  PROVE  IInv'
<1>0. /\ Typed /\ QueueSound /\ PredsAreSound /\ VisitedOnce /\ NothingForgotten
      /\ queue # <<>> /\ ~cutShort /\ Top.id \in visited
  BY DEF IInv, Revisit, InTime, Pop
<1>1. /\ queue' = Front(queue) /\ Front(queue) \in Seq(Tasks)
      /\ ToSet(queue) = ToSet(queue') \cup {Top}
      /\ edges' = edges \cup Arriving(Top)
      /\ backEdges' = backEdges \cup Arriving(Top)
      /\ UNCHANGED <<pass, visited, blocks, timedOut, cutShort, given, done>>
  BY <1>0, TopTask DEF Revisit, Arrive, Arriving
<1>2. Ids' = Ids /\ \A x : Succ(x)' = Succ(x)
  BY <1>1 DEF Ids, Succ
<1>3. \A e \in Arriving(Top) : /\ e \in Id \X Id /\ e[2] \in Succ(e[1])
                               /\ e = <<Top.from, Top.id>>
  BY <1>0, <1>1, ArrivingSound
<1>4. Typed'
  <2>1. edges' \subseteq Id \X Id /\ backEdges' \subseteq edges'
    BY <1>0, <1>1, <1>3 DEF Typed, TypeOK
  <2> QED
    BY <1>0, <1>1, <2>1 DEF Typed, TypeOK, Tasks, given
<1>5. QueueSound'
  BY <1>0, <1>1, <1>2 DEF QueueSound, Sound
<1>6. PredsAreSound'
  BY <1>0, <1>1, <1>2, <1>3 DEF PredsAreSound
<1>7. NothingForgotten'
  <2> SUFFICES ASSUME pass = 1, NEW b \in Ids, NEW t \in Succ(b)
               PROVE  Recorded(b, t)' \/ Queued(b, t)'
    BY <1>1, <1>2 DEF NothingForgotten
  <2>1. Recorded(b, t) \/ Queued(b, t)
    BY <1>0 DEF NothingForgotten
  <2>2. CASE Recorded(b, t)
    BY <1>1, <1>2, <2>2 DEF Recorded
  <2>3. CASE Queued(b, t)
    <3>1. PICK task \in ToSet(queue) : task.from = b /\ task.id = t
      BY <2>3 DEF Queued
    <3>2. CASE task \in ToSet(queue')
      BY <3>1, <3>2 DEF Queued
    <3>3. CASE task = Top
      <4>1. t \in Ids /\ b # NoId
        BY <1>0, <3>1, <3>3, SuccOfBlock, IdAssumption DEF VisitedOnce
      <4> QED
        BY <1>1, <1>2, <3>1, <3>3, <4>1 DEF Recorded, Arriving
    <3> QED
      BY <1>1, <3>2, <3>3
  <2> QED
    BY <2>1, <2>2, <2>3
<1>8. TermsShaped' /\ EntryReaches' /\ VisitedOnce' /\ CutAtFirstJoins'
  BY <1>1, <1>2 DEF IInv, TermsShaped, EntryReaches, Reaches, VisitedOnce, OneBlockPerId,
                    CutAtFirstJoins, given
<1> QED
  BY <1>4, <1>5, <1>6, <1>7, <1>8 DEF IInv

(* The timer leaves the block on top unresolved.                            *)
LEMMA KeepExpire ==
  ASSUME IInv, Expire
  PROVE  IInv'
<1>0. /\ Typed /\ QueueSound /\ PredsAreSound /\ OneBlockPerId /\ queue # <<>> /\ ~cutShort
      /\ blocks' = Append(blocks, Block(Top.id, Unresolved))
      /\ cutShort' = TRUE
      /\ UNCHANGED <<pass, queue, visited, edges, backEdges, given, done>>
  BY DEF IInv, Expire, Pop, VisitedOnce
<1>1. Unresolved \in Terminators /\ Shaped(Unresolved)
  BY DEF Unresolved, Terminators, Shaped
<1>2. /\ TermsShaped' /\ EntryReaches'
      /\ \A task \in ToSet(queue) : Sound(task)'
      /\ \A e \in edges : e[2] \in Succ(e[1])'
  BY <1>0, <1>1, GrowKeeps DEF given
<1>3. blocks' \in Seq(Blocks)
  BY <1>0, <1>1, TopTask, Grow
<1>4. timedOut' \in BOOLEAN
  BY <1>0 DEF Expire, Typed, TypeOK
<1>5. Typed'
  BY <1>0, <1>3, <1>4 DEF Typed, TypeOK, Blocks, given
<1>6. QueueSound' /\ PredsAreSound' /\ NothingForgotten' /\ CutAtFirstJoins'
  BY <1>0, <1>2 DEF QueueSound, PredsAreSound, NothingForgotten, CutAtFirstJoins, IInv, given
<1>7. VisitedOnce'
  <2>1. /\ DOMAIN blocks' = 1..Len(blocks) + 1 /\ DOMAIN blocks = 1..Len(blocks)
        /\ Len(blocks) \in Nat /\ Len(blocks') = Len(blocks) + 1
        /\ blocks'[Len(blocks) + 1].term = Unresolved
        /\ \A i \in DOMAIN blocks : blocks'[i] = blocks[i]
    BY <1>0, <1>1 DEF Typed, TypeOK, Block
  <2>2. ASSUME NEW i \in DOMAIN blocks', NEW j \in DOMAIN blocks', i < j, blocks'[i].id = blocks'[j].id
        PROVE  j = Len(blocks') /\ blocks'[j].term = Unresolved
    <3>1. i \in DOMAIN blocks /\ (j \in DOMAIN blocks \/ j = Len(blocks) + 1)
      BY <2>1, <2>2
    <3> QED
      BY <1>0, <2>1, <2>2, <3>1 DEF OneBlockPerId
  <2> QED
    BY <1>0, <2>2 DEF VisitedOnce, OneBlockPerId
<1> QED
  BY <1>2, <1>5, <1>6, <1>7 DEF IInv

(* Nothing is said of whether the search is over.                           *)
LEMMA KeepGraph ==
  ASSUME IInv, UNCHANGED <<pass, queue, graph, timedOut, cutShort, given>>, done' \in BOOLEAN
  PROVE  IInv'
<1>1. Ids' = Ids /\ \A x : Succ(x)' = Succ(x)
  BY DEF Ids, Succ, graph
<1>2. Typed'
  BY DEF IInv, Typed, TypeOK, graph, given
<1>3. TermsShaped' /\ QueueSound' /\ PredsAreSound'
  BY <1>1 DEF IInv, TermsShaped, QueueSound, Sound, PredsAreSound, graph, given
<1>4. EntryReaches' /\ VisitedOnce'
  BY <1>1 DEF IInv, EntryReaches, Reaches, VisitedOnce, OneBlockPerId, graph
<1>5. NothingForgotten' /\ CutAtFirstJoins'
  BY <1>1 DEF IInv, NothingForgotten, Recorded, Queued, CutAtFirstJoins, graph, given
<1> QED
  BY <1>2, <1>3, <1>4, <1>5 DEF IInv

(* Both passes start from the entry alone.                                    *)
Started == /\ queue \in Seq(Tasks) /\ blocks \in Seq(Blocks)
           /\ \A b \in ToSet(blocks) : Shaped(b.term)
           /\ QueueSound /\ PredsAreSound /\ EntryReaches /\ VisitedOnce /\ NothingForgotten

(* An empty graph and the entry on the queue are a sound beginning.         *)
LEMMA StartKeeps == StartPass => Started
<1> SUFFICES ASSUME StartPass
             PROVE  Started
  OBVIOUS
<1>0. /\ queue = <<Task(Entry, NoId, {})>> /\ blocks = <<>> /\ edges = {} /\ backEdges = {}
      /\ visited = {}
  BY DEF StartPass
<1>1. Task(Entry, NoId, {}) \in Tasks
  BY IdAssumption DEF Task, Tasks
<1>2. queue \in Seq(Tasks) /\ ToSet(queue) = {Task(Entry, NoId, {})}
  BY <1>0, <1>1 DEF ToSet
<1>3. blocks \in Seq(Blocks) /\ ToSet(blocks) = {} /\ Ids = {} /\ DOMAIN blocks = {}
  BY <1>0 DEF ToSet, Ids
<1>4. QueueSound
  BY <1>2 DEF QueueSound, Sound, Task
<1> QED
  BY <1>0, <1>2, <1>3, <1>4
  DEF Started, PredsAreSound, EntryReaches, VisitedOnce, OneBlockPerId, NothingForgotten

(* The same, of the state the second pass begins in.                        *)
LEMMA RestartKeeps == StartPass' => Started'
BY StartKeeps, PTL

(* The second pass cuts wherever two edges of the first met: the first left   *)
(* no edge out of its predecessors.                                           *)
LEMMA JoinsAreKnown ==
  ASSUME IInv, pass = 1, ~cutShort, queue = <<>>,
         NEW p \in Ids, NEW q \in Ids, p # q,
         NEW t \in Succ(p) \cap Succ(q)
  PROVE  t \in Joins
<1>1. ToSet(queue) = {}
  BY DEF ToSet
<1>2. t \in Ids /\ <<p, t>> \in edges /\ <<q, t>> \in edges
  BY <1>1 DEF IInv, NothingForgotten, Recorded, Queued
<1>3. p \in Preds(t) /\ q \in Preds(t) /\ IsFiniteSet(Preds(t))
  <2>1. p \in Id /\ q \in Id
    BY SuccOfBlock DEF IInv
  <2>2. Preds(t) \subseteq Id
    BY DEF Preds
  <2> QED
    BY <1>2, <2>1, <2>2, FS_Subset, IdAssumption DEF Preds
<1>4. Cardinality({p, q}) = 2 /\ IsFiniteSet({p, q})
  <2>1. IsFiniteSet({p}) /\ Cardinality({p}) = 1
    BY FS_Singleton
  <2>2. IsFiniteSet({p} \cup {q}) /\ Cardinality({p} \cup {q}) = 2
    <3> DEFINE S == {p}
    <3>1. q \notin S /\ IsFiniteSet(S) /\ Cardinality(S) = 1
      BY <2>1
    <3> HIDE DEF S
    <3>2. IsFiniteSet(S \cup {q}) /\ Cardinality(S \cup {q}) = 2
      BY <3>1, FS_AddElement
    <3> QED
      BY <3>2 DEF S
  <2>3. {p, q} = {p} \cup {q}
    OBVIOUS
  <2> QED
    BY <2>2, <2>3
<1>5. Cardinality({p, q}) <= Cardinality(Preds(t)) /\ Cardinality(Preds(t)) \in Nat
  BY <1>3, FS_Subset, FS_CardinalityType
<1> QED
  BY <1>2, <1>4, <1>5 DEF Joins

(* The second pass begins with the joins of the first.                      *)
LEMMA KeepEndFirst ==
  ASSUME IInv, EndFirst
  PROVE  IInv'
<1>0. Typed /\ TermsShaped /\ pass = 1 /\ PassOver
  BY DEF IInv, EndFirst
<1>1. CASE Joins = {}
  BY <1>1, KeepGraph DEF EndFirst
<1>2. CASE Joins # {}
  <2>1. /\ pass' = 2 /\ cut' = Joins
        /\ known' = [id \in Ids |-> Found(id)]
        /\ knownShort' = cutShort /\ knownLate' = timedOut
        /\ queue' = <<Task(Entry, NoId, {})>>
        /\ visited' = {} /\ blocks' = <<>> /\ edges' = {} /\ backEdges' = {}
        /\ timedOut' = FALSE /\ cutShort' = FALSE
        /\ blockBudget' = blockBudget /\ done' = done
    BY <1>2 DEF EndFirst
  <2>2. /\ queue' \in Seq(Tasks) /\ blocks' \in Seq(Blocks)
        /\ \A b \in ToSet(blocks') : Shaped(b.term)
        /\ QueueSound' /\ PredsAreSound' /\ EntryReaches' /\ VisitedOnce' /\ NothingForgotten'
    BY <2>1, RestartKeeps DEF StartPass, Started
  <2>3. \A id \in Ids : /\ Found(id) \in Terminators /\ Shaped(Found(id))
                        /\ ToSet(Found(id).to) \subseteq Succ(id)
    BY <1>0, FoundTerm
  <2>4. DOMAIN known' = Ids /\ \A id \in Ids : known'[id] = Found(id)
    BY <2>1
  <2>5. Typed'
    <3>1. known' \in [DOMAIN known' -> Terminators]
      BY <2>1, <2>3
    <3>2. Joins \subseteq Id /\ Ids \subseteq Id
      BY <1>0, SuccOfBlock DEF Joins
    <3>3. {timedOut', cutShort', knownShort', knownLate', done'} \subseteq BOOLEAN
      BY <1>0, <2>1 DEF Typed, TypeOK
    <3> QED
      BY <1>0, <2>1, <2>2, <2>4, <3>1, <3>2, <3>3 DEF Typed, TypeOK, Tasks, Blocks
  <2>6. TermsShaped'
    BY <2>2, <2>3, <2>4 DEF TermsShaped
  <2>7. CutAtFirstJoins'
    <3> SUFFICES ASSUME ~cutShort, NEW p \in Ids, NEW q \in Ids, p # q,
                        NEW t \in ToSet(Found(p).to) \cap ToSet(Found(q).to)
                 PROVE  t \in Joins
      BY <2>1, <2>4 DEF CutAtFirstJoins
    <3>1. queue = <<>>
      BY <1>0 DEF PassOver
    <3>2. t \in Succ(p) \cap Succ(q)
      BY <2>3
    <3> QED
      BY <1>0, <3>1, <3>2, JoinsAreKnown
  <2> QED
    BY <2>2, <2>5, <2>6, <2>7 DEF IInv
<1> QED
  BY <1>1, <1>2

(* The first pass begins with nothing given.                                *)
LEMMA InitKeeps ==
  ASSUME Init
  PROVE  IInv
<1>1. /\ queue = <<Task(Entry, NoId, {})>> /\ blocks = <<>> /\ edges = {} /\ backEdges = {}
      /\ visited = {} /\ timedOut = FALSE /\ cutShort = FALSE
      /\ pass = 1 /\ cut = {} /\ known = <<>> /\ done = FALSE
      /\ knownShort = FALSE /\ knownLate = FALSE /\ blockBudget \in BlockBudgets
  BY DEF Init, StartPass
<1>2. DOMAIN known = {} /\ known \in [DOMAIN known -> Terminators]
  BY <1>1
<1>3. /\ queue \in Seq(Tasks) /\ blocks \in Seq(Blocks)
      /\ \A b \in ToSet(blocks) : Shaped(b.term)
      /\ QueueSound /\ PredsAreSound /\ EntryReaches /\ VisitedOnce /\ NothingForgotten
  BY StartKeeps DEF Init, Started
<1>4. Typed
  BY <1>1, <1>2, <1>3 DEF Typed, TypeOK, Tasks, Blocks
<1> QED
  BY <1>1, <1>2, <1>3, <1>4 DEF IInv, TermsShaped, CutAtFirstJoins

-----------------------------------------------------------------------------
(* Theorems *)

(* Discovery keeps its bookkeeping: every step of `recover`, in either pass,  *)
(* whatever the evaluator reports and whenever a budget runs out.             *)
THEOREM ExploreInvariant == Spec => []IInv
<1>1. Init => IInv
  BY InitKeeps
<1>2. IInv /\ [Next]_vars => IInv'
  <2> SUFFICES ASSUME IInv, [Next]_vars
               PROVE  IInv'
    OBVIOUS
  <2>1. CASE Revisit
    BY <2>1, KeepRevisit
  <2>2. CASE OverBudget
    BY <2>2, KeepOverBudget
  <2>3. CASE EvaluateTop
    BY <2>3, KeepEvaluate
  <2>4. CASE EndFirst
    BY <2>4, KeepEndFirst
  <2>5. CASE EndSecond
    BY <2>5, KeepGraph DEF EndSecond
  <2>6. CASE Expire
    BY <2>6, KeepExpire
  <2>7. CASE UNCHANGED vars
    <3>1. done' \in BOOLEAN
      BY <2>7 DEF vars, IInv, Typed, TypeOK
    <3> QED
      BY <2>7, <3>1, KeepGraph DEF vars
  <2> QED
    BY <2>1, <2>2, <2>3, <2>4, <2>5, <2>6, <2>7 DEF Next, Work, Returned
<1> QED
  BY <1>1, <1>2, PTL DEF Spec

(* Type correctness of the exploration.                                       *)
THEOREM ExploreTypes == Spec => []TypeOK
<1>1. IInv => TypeOK
  BY DEF IInv, Typed
<1> QED
  BY <1>1, ExploreInvariant, PTL

(* However many paths, forks, requeued jump targets and adopted edges lead to *)
(* a block, a pass holds it once, but for the unresolved block a budget that  *)
(* ran out adds at the end.                                                   *)
THEOREM BlocksAreDistinct == Spec => []OneBlockPerId
<1>1. IInv => OneBlockPerId
  BY DEF IInv, VisitedOnce
<1> QED
  BY <1>1, ExploreInvariant, PTL

(* Only what control can reach is recovered, and a queued task is a successor *)
(* of the block that queued it.                                               *)
THEOREM NothingUnreachable == Spec => []OnlyReachable
<1>1. IInv => OnlyReachable
  <2> SUFFICES ASSUME IInv
               PROVE  OnlyReachable
    OBVIOUS
  <2>1. \A i \in DOMAIN queue : queue[i].from # NoId => queue[i].id \in Succ(queue[i].from)
    BY DEF IInv, QueueSound, Sound, ToSet
  <2> QED
    BY <2>1 DEF OnlyReachable, IInv, EntryReaches
<1> QED
  BY <1>1, ExploreInvariant, PTL

(* A predecessor list names only blocks that lead here.                       *)
THEOREM PredecessorsAreSound == Spec => []PredsAreSound
<1>1. IInv => PredsAreSound
  BY DEF IInv
<1> QED
  BY <1>1, ExploreInvariant, PTL

(* A first pass that drains its queue has every edge in its predecessor       *)
(* lists, and none leaves the graph.                                          *)
THEOREM DrainedPassIsClosed == Spec => []FirstPassIsClosed
<1>1. IInv => FirstPassIsClosed
  <2> SUFFICES ASSUME IInv, pass = 1, queue = <<>>, ~cutShort
               PROVE  \A b \in Ids : \A t \in Succ(b) : t \in Ids /\ <<b, t>> \in edges
    BY DEF FirstPassIsClosed
  <2>1. ToSet(queue) = {}
    BY DEF ToSet
  <2> QED
    BY <2>1 DEF IInv, NothingForgotten, Recorded, Queued
<1> QED
  BY <1>1, ExploreInvariant, PTL

(* A second pass that sees the shape the first saw has cut every join.        *)
THEOREM JoinsCutInSameShape == Spec => []JoinsCutIfSameShape
<1>1. IInv => JoinsCutIfSameShape
  <2> SUFFICES ASSUME IInv, pass = 2, ~knownShort,
                      \A id \in Ids : id \in DOMAIN known /\ Succ(id) = ToSet(known[id].to),
                      NEW b \in Ids, Meeting(b)
               PROVE  b \in cut
    BY DEF JoinsCutIfSameShape
  <2>1. PICK p \in Preds(b), q \in Preds(b) : p # q
    BY DEF Meeting
  <2>2. b \in Succ(p) /\ b \in Succ(q)
    BY DEF Preds, IInv, PredsAreSound
  <2>3. p \in Ids /\ q \in Ids
    BY <2>2, SuccOfBlock DEF IInv
  <2> QED
    BY <2>1, <2>2, <2>3 DEF IInv, CutAtFirstJoins
<1> QED
  BY <1>1, ExploreInvariant, PTL

=============================================================================
