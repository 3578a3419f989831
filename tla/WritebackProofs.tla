--------------------------- MODULE WritebackProofs --------------------------
(***************************************************************************)
(* Theorems about `write_devirt`, for every image: any number of           *)
(* functions, wherever their trampolines are and however long their bodies.*)
(***************************************************************************)
EXTENDS Writeback, TLAPS, FiniteSetTheorems, FunctionTheorems

-----------------------------------------------------------------------------
(* The layout *)

\* How many turns the probe, the emission and the patching have taken, plus 1.
Probed == IF step = "recover" THEN 1 ELSE IF step = "probe" THEN next ELSE Total + 1
Laid == IF step \in {"recover", "probe", "reset"} THEN 1
        ELSE IF step = "emit" THEN next ELSE Total + 1
Visited == IF step = "patch" THEN next ELSE IF step = "done" THEN Total + 1 ELSE 1

\* Where f's tail call went when f was probed: only the bodies before it were known.
TailThen(f) ==
    LET known == {g \in Fn : g < f /\ Emits(g) /\ Trampoline[g] = program[f].tail}
    IN  IF known = {} THEN program[f].tail ELSE redirect[CHOOSE g \in known : TRUE]

\* How long f's body was then.
LenThen(f) == program[f].len + (IF program[f].tail = Nowhere THEN 0
                                ELSE IF IsShort(redirect[f] + program[f].len, TailThen(f)) THEN 2 ELSE 5)

\* The probe put the m-th function at va: behind the body before it.
Follows(va, m) ==
    \/ va = Base /\ \A f \in Fn : f < m => ~Emits(f)
    \/ \E f \in Fn : /\ f < m /\ Emits(f) /\ \A g \in Fn : f < g /\ g < m => ~Emits(g)
                     /\ va = redirect[f] + Room(LenThen(f))

Typed ==
    /\ program \in [Fn -> Program] /\ next \in Fn /\ cursor \in Nat
    /\ step \in {"recover", "probe", "reset", "emit", "describe", "patch", "done"}
    /\ step \notin {"probe", "emit", "patch"} => next = 1

Redirected ==
    /\ redirect \in [Fn -> Nat]
    /\ \A f \in Fn : IF Emits(f) /\ f < Probed THEN redirect[f] >= Base /\ Follows(redirect[f], f)
                     ELSE redirect[f] = Nowhere
    /\ step \in {"recover", "probe"} => Follows(Base + cursor, next)

Written ==
    /\ DOMAIN bodies = Fn
    /\ \A f \in Fn : IF Emits(f) /\ f < Laid
                     THEN /\ bodies[f].offset \in Nat /\ bodies[f] = Body(f, bodies[f].offset)
                          /\ bodies[f].offset + bodies[f].len <= cursor
                     ELSE bodies[f] = NoBody
    /\ \A f, g \in Emitted : f < g => bodies[f].offset + bodies[f].len <= bodies[g].offset

Reported ==
    /\ report = [retargeted |-> Cardinality(Emitted),
                 incomplete |-> {f \in Fn : f < Laid /\ ~Complete(f)},
                 failed |-> {f \in Fn : f < Laid /\ Complete(f) /\ ~Emits(f)}]

Patched ==
    patches = [f \in Fn |-> IF f < Visited /\ f \in Emitted /\ Start(f) - (Trampoline[f] + 5) <= Reach
                            THEN Start(f) ELSE Nowhere]

IInv == Typed /\ Redirected /\ Written /\ Reported /\ Patched

\* No trampoline is so near the new code that a jump back to it could be short.
TrampolinesAreFar == \A f \in Fn : Trampoline[f] + 126 < Base

\* As long as no body has a short jump, emission is where the probe was.
Agreed == (\A f \in Emitted : ~bodies[f].short) =>
             /\ LayoutsAgree
             /\ step = "emit" => Follows(Base + cursor, next)


-----------------------------------------------------------------------------
(* Bodies and the places they follow *)

(* No two functions have the same trampoline.                                 *)
LEMMA Trampolines == \A f, g \in Fn : Trampoline[f] = Trampoline[g] => f = g
<1> SUFFICES ASSUME NEW f \in Fn, NEW g \in Fn, Trampoline[f] = Trampoline[g]
             PROVE  f = g
  OBVIOUS
<1>1. f \in Nat /\ g \in Nat
  BY ImageAssumption DEF Fn
<1>2. Trampoline[f] \in 1..Base-5 /\ Trampoline[g] \in 1..Base-5 /\ Base \in Nat
  BY ImageAssumption
<1>3. ~ (f < g) /\ ~ (g < f)
  BY <1>2, ImageAssumption
<1> QED
  BY <1>1, <1>3

(* What can be emitted has a length, and a tail call goes to a trampoline or  *)
(* out of what is recovered.                                                  *)
LEMMA ProgramIs ==
  ASSUME Typed, NEW f \in Fn
  PROVE  /\ program[f].state \in {"complete", "incomplete", "refused"}
         /\ Emits(f) => /\ Complete(f) /\ program[f].len \in Nat /\ program[f].len > 0
                        /\ program[f].tail \in {Nowhere, Elsewhere} \cup {Trampoline[g] : g \in Fn}
<1>1. program[f] \in Program
  BY DEF Typed
<1>2. CASE program[f] \in [state : {"incomplete", "refused"}]
  BY <1>2 DEF Emits
<1>3. CASE program[f] \in [state : {"complete"}, len : Lengths,
                           tail : {Nowhere, Elsewhere} \cup {Trampoline[g] : g \in Fn}]
  <2>1. program[f].state = "complete" /\ program[f].len \in Lengths
        /\ program[f].tail \in {Nowhere, Elsewhere} \cup {Trampoline[g] : g \in Fn}
    BY <1>3
  <2>2. program[f].len \in Nat /\ program[f].len > 0
    <3>1. program[f].len \in Nat \ {0}
      BY <2>1, ImageAssumption
    <3> QED
      BY <3>1
  <2> QED
    BY <2>1, <2>2 DEF Emits, Complete
<1> QED
  BY <1>1, <1>2, <1>3 DEF Program

(* Padding rounds up.                                                         *)
LEMMA PaddedIs ==
  ASSUME NEW n \in Nat
  PROVE  Padded(n) \in Nat /\ Padded(n) >= n /\ Room(n) = Padded(n)
BY DEF Padded, Room

(* A body is where it was put; only a tail call makes it longer.              *)
LEMMA BodyIs ==
  ASSUME Typed, NEW f \in Fn, Emits(f), NEW at \in Nat
  PROVE  /\ Body(f, at).offset = at /\ Body(f, at) # NoBody
         /\ Body(f, at).len \in Nat
         /\ Body(f, at).len = program[f].len + (IF program[f].tail = Nowhere THEN 0
                                                ELSE IF Body(f, at).short THEN 2 ELSE 5)
         /\ Body(f, at).short = (/\ program[f].tail # Nowhere
                                 /\ IsShort(Base + at + program[f].len, Resolve(program[f].tail)))
         /\ Body(f, at).calls = Resolve(Callee(f))
         /\ Body(f, at).tail = IF program[f].tail = Nowhere THEN Nowhere ELSE Resolve(program[f].tail)
<1> DEFINE p == program[f]
<1> DEFINE short == p.tail # Nowhere /\ IsShort(Base + at + p.len, Resolve(p.tail))
<1>1. Body(f, at) =
        [offset |-> at, short |-> short,
         len |-> p.len + (IF p.tail = Nowhere THEN 0 ELSE IF short THEN 2 ELSE 5),
         calls |-> Resolve(Callee(f)),
         tail |-> IF p.tail = Nowhere THEN Nowhere ELSE Resolve(p.tail)]
  BY DEF Body
<1>2. Body(f, at).offset = at
  BY <1>1
<1>3. NoBody.offset = -1
  BY DEF NoBody
<1>4. p.len \in Nat
  BY ProgramIs
<1> HIDE DEF short
<1>5. Body(f, at).short = short
  BY <1>1
<1>6. Body(f, at).len = p.len + (IF p.tail = Nowhere THEN 0 ELSE IF short THEN 2 ELSE 5)
  BY <1>1
<1>7. Body(f, at).len \in Nat
  BY <1>4, <1>6
<1>8. /\ Body(f, at).calls = Resolve(Callee(f))
      /\ Body(f, at).tail = IF p.tail = Nowhere THEN Nowhere ELSE Resolve(p.tail)
  BY <1>1
<1>9. Body(f, at) # NoBody
  BY <1>2, <1>3
<1>10. Body(f, at).len = p.len + (IF p.tail = Nowhere THEN 0 ELSE IF Body(f, at).short THEN 2 ELSE 5)
  BY <1>5, <1>6
<1> QED
  BY <1>2, <1>5, <1>7, <1>8, <1>9, <1>10 DEF short

(* How long a body was is a length.                                           *)
LEMMA LenThenIs ==
  ASSUME Typed, NEW f \in Fn, Emits(f)
  PROVE  LenThen(f) \in Nat
BY ProgramIs DEF LenThen

(* There is one place behind the bodies before a function.                    *)
LEMMA FollowsOnce ==
  ASSUME NEW va, NEW vb, NEW m \in Nat, Follows(va, m), Follows(vb, m)
  PROVE  va = vb
<1>1. \A f \in Fn : f \in Nat
  BY ImageAssumption DEF Fn
<1>2. CASE \A f \in Fn : f < m => ~Emits(f)
  BY <1>2 DEF Follows
<1>3. CASE \E f \in Fn : f < m /\ Emits(f)
  <2>1. PICK f \in Fn : /\ f < m /\ Emits(f) /\ \A g \in Fn : f < g /\ g < m => ~Emits(g)
                        /\ va = redirect[f] + Room(LenThen(f))
    BY <1>3 DEF Follows
  <2>2. PICK h \in Fn : /\ h < m /\ Emits(h) /\ \A g \in Fn : h < g /\ g < m => ~Emits(g)
                        /\ vb = redirect[h] + Room(LenThen(h))
    BY <1>3 DEF Follows
  <2>3. f = h
    BY <1>1, <2>1, <2>2
  <2> QED
    BY <2>1, <2>2, <2>3
<1> QED
  BY <1>2, <1>3

(* The place behind a function that is emitted.                               *)
LEMMA BehindEmitted ==
  \A m \in Fn : Emits(m) => Follows(redirect[m] + Room(LenThen(m)), m + 1)
<1>1. \A f \in Fn : f \in Nat
  BY ImageAssumption DEF Fn
<1> QED
  BY <1>1 DEF Follows

(* A function that is not emitted leaves the place it would have had.         *)
LEMMA BehindSkipped ==
  ASSUME NEW m \in Fn, ~Emits(m), NEW va, Follows(va, m)
  PROVE  Follows(va, m + 1)
<1>1. m \in Nat /\ \A f \in Fn : f \in Nat
  BY ImageAssumption DEF Fn
<1>2. CASE va = Base /\ \A f \in Fn : f < m => ~Emits(f)
  BY <1>1, <1>2 DEF Follows
<1>3. CASE \E f \in Fn : /\ f < m /\ Emits(f) /\ \A g \in Fn : f < g /\ g < m => ~Emits(g)
                         /\ va = redirect[f] + Room(LenThen(f))
  <2>1. PICK f \in Fn : /\ f < m /\ Emits(f) /\ \A g \in Fn : f < g /\ g < m => ~Emits(g)
                        /\ va = redirect[f] + Room(LenThen(f))
    BY <1>3
  <2>2. f < m + 1 /\ \A g \in Fn : f < g /\ g < m + 1 => ~Emits(g)
    BY <1>1, <2>1
  <2> QED
    BY <2>1, <2>2 DEF Follows
<1> QED
  BY <1>2, <1>3 DEF Follows

(* The same of the state the probe leaves.                                    *)
LEMMA BehindProbed ==
  (\A m \in Fn : Emits(m) => Follows(redirect[m] + Room(LenThen(m)), m + 1))'
BY BehindEmitted, PTL

(* Where a function is laid out does not change with the functions after it.  *)
LEMMA EarlierSame ==
  ASSUME Typed, program' = program, DOMAIN redirect = Fn, NEW m \in Fn,
         NEW va, redirect' = [redirect EXCEPT ![m] = va]
  PROVE  /\ \A f \in Fn : f < m => (Follows(redirect[f], f)' <=> Follows(redirect[f], f))
         /\ Follows(redirect[m], m)' <=> Follows(va, m)
<1>1. m \in Nat /\ \A f \in Fn : f \in Nat
  BY ImageAssumption DEF Fn
<1>2. \A f : Emits(f)' = Emits(f)
  BY DEF Emits
<1>3. \A f \in Fn : f < m => redirect'[f] = redirect[f]
  BY <1>1
<1>4. ASSUME NEW f \in Fn, f < m
      PROVE  LenThen(f)' = LenThen(f)
  <2> DEFINE known == {g \in Fn : g < f /\ Emits(g) /\ Trampoline[g] = program[f].tail}
  <2>1. known' = known
    BY <1>2
  <2>2. \A g \in known : redirect'[g] = redirect[g]
    BY <1>1, <1>3, <1>4
  <2>3. known # {} => (CHOOSE g \in known : TRUE) \in known
    OBVIOUS
  <2>4. TailThen(f)' = IF known' = {} THEN program'[f].tail ELSE redirect'[CHOOSE g \in known' : TRUE]
    BY DEF TailThen
  <2>5. TailThen(f) = IF known = {} THEN program[f].tail ELSE redirect[CHOOSE g \in known : TRUE]
    BY DEF TailThen
  <2>6. TailThen(f)' = TailThen(f)
    BY <2>1, <2>2, <2>3, <2>4, <2>5
  <2> QED
    BY <1>3, <1>4, <2>6 DEF LenThen
<1>5. ASSUME NEW k \in Fn, k < m
      PROVE  Follows(redirect[k], k)' <=> Follows(redirect[k], k)
  <2>1. \A f \in Fn : f < k => redirect'[f] = redirect[f] /\ LenThen(f)' = LenThen(f)
    BY <1>1, <1>3, <1>4, <1>5
  <2>2. redirect'[k] = redirect[k]
    BY <1>3, <1>5
  <2> QED
    BY <1>2, <2>1, <2>2 DEF Follows
<1>6. Follows(redirect[m], m)' <=> Follows(va, m)
  <2>1. \A f \in Fn : f < m => redirect'[f] = redirect[f] /\ LenThen(f)' = LenThen(f)
    BY <1>3, <1>4
  <2>2. redirect'[m] = va
    OBVIOUS
  <2> QED
    BY <1>2, <2>1, <2>2 DEF Follows
<1> QED
  BY <1>5, <1>6

(* As long as nothing is laid out anew, everything follows what it followed.  *)
LEMMA LayoutSame ==
  ASSUME UNCHANGED <<program, redirect>>
  PROVE  /\ \A f : Emits(f)' = Emits(f) /\ Complete(f)' = Complete(f) /\ LenThen(f)' = LenThen(f)
         /\ \A f, at : Body(f, at)' = Body(f, at)
         /\ \A m : Follows(redirect[m], m)' <=> Follows(redirect[m], m)
<1>1. program' = program /\ redirect' = redirect
  OBVIOUS
<1>2. \A f : Emits(f)' = Emits(f) /\ Complete(f)' = Complete(f)
  BY <1>1 DEF Emits, Complete
<1>3. \A va : Resolve(va)' = Resolve(va)
  BY <1>1 DEF Resolve
<1>4. \A f, at : Body(f, at)' = Body(f, at)
  BY <1>1, <1>3 DEF Body
<1>5. ASSUME NEW f
      PROVE  TailThen(f)' = TailThen(f)
  <2> DEFINE known == {g \in Fn : g < f /\ Emits(g) /\ Trampoline[g] = program[f].tail}
  <2>1. known' = known
    BY <1>1, <1>2
  <2>2. TailThen(f) = IF known = {} THEN program[f].tail ELSE redirect[CHOOSE g \in known : TRUE]
    BY DEF TailThen
  <2>3. TailThen(f)' = IF known' = {} THEN program'[f].tail ELSE redirect'[CHOOSE g \in known' : TRUE]
    BY DEF TailThen
  <2> HIDE DEF known
  <2> QED
    BY <1>1, <2>1, <2>2, <2>3
<1>6. \A f : LenThen(f)' = LenThen(f)
  BY <1>1, <1>5 DEF LenThen
<1>7. ASSUME NEW m
      PROVE  Follows(redirect[m], m)' <=> Follows(redirect[m], m)
  BY <1>1, <1>2, <1>6 DEF Follows
<1> QED
  BY <1>2, <1>4, <1>6, <1>7

(* A turn ends with the next function's, or with the next phase.              *)
LEMMA AdvanceIs ==
  ASSUME next \in Fn, NEW then, Advance(then)
  PROVE  /\ next' \in Fn /\ next \in Nat
         /\ \/ next < Total /\ next' = next + 1 /\ step' = step
            \/ next = Total /\ next' = 1 /\ step' = then
         /\ \A f \in Fn : f < next + 1 <=> f < next \/ f = next
         /\ \A f \in Fn : f < Total + 1 /\ ~ (f < 1)
BY ImageAssumption DEF Advance, Fn

(* What `TailThen` and `LenThen` remember is what the probe saw.              *)
LEMMA ProbedLen ==
  ASSUME Typed, Redirected, step = "probe", NEW n \in Fn, n = next, Emits(n), program' = program,
         redirect' = [redirect EXCEPT ![n] = Base + cursor]
  PROVE  LenThen(n)' = Body(n, cursor).len
<1> DEFINE tail == program[n].tail
<1> DEFINE known == {g \in Fn : g < n /\ Emits(g) /\ Trampoline[g] = tail}
<1> DEFINE now == {g \in Fn : Trampoline[g] = tail /\ redirect[g] # Nowhere}
<1>1. n \in Nat /\ cursor \in Nat /\ Base \in Nat \ {0} /\ \A f \in Fn : f \in Nat
  BY ImageAssumption DEF Fn, Typed
<1>2. \A g \in Fn : redirect[g] # Nowhere <=> Emits(g) /\ g < n
  BY <1>1 DEF Redirected, Probed, Nowhere
<1>3. now = known
  BY <1>2
<1>4. Resolve(tail) = IF known = {} THEN tail ELSE redirect[CHOOSE g \in known : TRUE]
  <2>1. Resolve(tail) = IF now = {} THEN tail ELSE redirect[CHOOSE g \in now : TRUE]
    BY DEF Resolve
  <2> HIDE DEF now, known
  <2> QED
    BY <1>3, <2>1
<1>5. known' = known /\ tail' = tail
  BY DEF Emits
<1>6. \A g \in known : redirect'[g] = redirect[g]
  BY <1>1 DEF Redirected
<1>7. known # {} => (CHOOSE g \in known : TRUE) \in known
  OBVIOUS
<1>8. TailThen(n)' = IF known' = {} THEN tail' ELSE redirect'[CHOOSE g \in known' : TRUE]
  BY DEF TailThen
<1>9. TailThen(n)' = Resolve(tail)
  BY <1>4, <1>5, <1>6, <1>7, <1>8
<1>10. redirect'[n] = Base + cursor
  BY DEF Redirected
<1>11. Body(n, cursor).short = (tail # Nowhere /\ IsShort(Base + cursor + program[n].len, Resolve(tail)))
  BY <1>1, BodyIs
<1>12. Body(n, cursor).len = program[n].len + (IF tail = Nowhere THEN 0
                                               ELSE IF Body(n, cursor).short THEN 2 ELSE 5)
  BY <1>1, BodyIs
<1>13. LenThen(n)' = program[n].len + (IF tail = Nowhere THEN 0
                                       ELSE IF IsShort(Base + cursor + program[n].len, Resolve(tail)) THEN 2 ELSE 5)
  BY <1>9, <1>10 DEF LenThen
<1> QED
  BY <1>11, <1>12, <1>13

(* A body that is emitted where it was probed, and without a short jump, is   *)
(* as long as it was then: a jump that was short then has the same target.    *)
LEMMA EmittedLen ==
  ASSUME Typed, Redirected, TrampolinesAreFar, step = "emit", NEW n \in Fn, Emits(n),
         redirect[n] = Base + cursor, ~Body(n, cursor).short
  PROVE  LenThen(n) = Body(n, cursor).len
<1> DEFINE tail == program[n].tail
<1> DEFINE jump == Base + cursor + program[n].len
<1> DEFINE then == {g \in Fn : g < n /\ Emits(g) /\ Trampoline[g] = tail}
<1> DEFINE now == {g \in Fn : Trampoline[g] = tail /\ redirect[g] # Nowhere}
<1>1. n \in Nat /\ cursor \in Nat /\ Base \in Nat \ {0} /\ \A f \in Fn : f \in Nat
  BY ImageAssumption DEF Fn, Typed
<1>2. \A g \in Fn : redirect[g] # Nowhere <=> Emits(g)
  <2>1. \A g \in Fn : g < Total + 1
    BY ImageAssumption DEF Fn
  <2> QED
    BY <1>1, <2>1 DEF Redirected, Probed, Nowhere
<1>3. Resolve(tail) = IF now = {} THEN tail ELSE redirect[CHOOSE g \in now : TRUE]
  BY DEF Resolve
<1>4. TailThen(n) = IF then = {} THEN tail ELSE redirect[CHOOSE g \in then : TRUE]
  BY DEF TailThen
<1>5. Body(n, cursor).short = (tail # Nowhere /\ IsShort(jump, Resolve(tail)))
  BY <1>1, BodyIs
<1>6. Body(n, cursor).len = program[n].len + (IF tail = Nowhere THEN 0
                                              ELSE IF Body(n, cursor).short THEN 2 ELSE 5)
  BY <1>1, BodyIs
<1>7. jump \in Nat /\ jump >= Base
  <2>1. program[n].len \in Nat
    BY ProgramIs
  <2> QED
    BY <1>1, <2>1
<1>8. \A f, g \in now : f = g
  BY Trampolines
<1>9. ASSUME tail # Nowhere
      PROVE  ~IsShort(jump, TailThen(n))
  <2>1. ~IsShort(jump, Resolve(tail))
    BY <1>5, <1>9
  <2>2. CASE then # {}
    <3>1. then \subseteq now
      BY <1>2
    <3>2. (CHOOSE g \in then : TRUE) = (CHOOSE g \in now : TRUE)
      BY <1>8, <2>2, <3>1
    <3> QED
      BY <1>3, <1>4, <2>1, <2>2, <3>1, <3>2
  <2>3. CASE then = {} /\ now = {}
    BY <1>3, <1>4, <2>1, <2>3
  <2>4. CASE then = {} /\ now # {}
    <3>1. PICK g \in Fn : Trampoline[g] = tail
      BY <2>4
    <3>2. ~IsShort(jump, Trampoline[g])
      <4>1. Trampoline[g] \in Nat /\ Trampoline[g] + 126 < Base
        BY ImageAssumption DEF TrampolinesAreFar
      <4> QED
        BY <1>1, <1>7, <4>1 DEF IsShort
    <3> QED
      BY <1>4, <2>4, <3>1, <3>2
  <2> QED
    BY <2>2, <2>3, <2>4
<1>10. LenThen(n) = program[n].len + (IF tail = Nowhere THEN 0
                                      ELSE IF IsShort(redirect[n] + program[n].len, TailThen(n)) THEN 2 ELSE 5)
  BY DEF LenThen
<1>11. redirect[n] + program[n].len = jump
  OBVIOUS
<1>12. LenThen(n) = program[n].len + (IF tail = Nowhere THEN 0 ELSE 5)
  BY <1>9, <1>10, <1>11
<1> QED
  BY <1>6, <1>12


(* What has been emitted.                                                     *)
LEMMA EmittedIs ==
  ASSUME Typed, Written
  PROVE  Emitted = {f \in Fn : Emits(f) /\ f < Laid}
<1>1. ASSUME NEW f \in Fn, Emits(f), f < Laid
      PROVE  bodies[f] # NoBody
  <2>1. PICK at \in Nat : bodies[f] = Body(f, at)
    BY <1>1 DEF Written
  <2>2. Body(f, at) # NoBody
    BY <1>1, BodyIs
  <2> QED
    BY <2>1, <2>2
<1>2. ASSUME NEW f \in Fn, ~ (Emits(f) /\ f < Laid)
      PROVE  bodies[f] = NoBody
  BY <1>2 DEF Written
<1> QED
  BY <1>1, <1>2 DEF Emitted

-----------------------------------------------------------------------------
(* The steps *)

(* A function is recovered.                                                   *)
LEMMA RecoverKeeps ==
  ASSUME IInv, NEW f \in Fn, Recover(f)
  PROVE  IInv'
<1>1. /\ step = "recover" /\ step' \in {"recover", "probe"} /\ next = 1
      /\ UNCHANGED <<program, next, redirect, cursor, bodies, report, table, patches>>
  BY DEF Recover, IInv, Typed
<1>2. /\ \A g : Emits(g)' = Emits(g) /\ Complete(g)' = Complete(g)
      /\ \A g : Follows(redirect[g], g)' <=> Follows(redirect[g], g)
  BY <1>1, LayoutSame
<1>3. Probed = 1 /\ Laid = 1 /\ Visited = 1 /\ Probed' = 1 /\ Laid' = 1 /\ Visited' = 1
  BY <1>1 DEF Probed, Laid, Visited
<1>4. \A g \in Fn : ~ (g < 1)
  BY ImageAssumption DEF Fn
<1>5. Typed'
  BY <1>1 DEF Typed, IInv
<1>6. Follows(Base + cursor, next)' <=> Follows(Base + cursor, next)
  BY <1>1, <1>2, <1>4 DEF Follows
<1>7. Redirected'
  BY <1>1, <1>3, <1>4, <1>6 DEF Redirected, IInv
<1>8. Written' /\ Reported' /\ Patched'
  BY <1>1, <1>2, <1>3, <1>4 DEF Written, Reported, Patched, IInv, Emitted, Start
<1> QED
  BY <1>5, <1>7, <1>8 DEF IInv

(* The probe lays out one body, or passes a function that is not emitted.     *)
LEMMA ProbeKeeps ==
  ASSUME IInv, Probe
  PROVE  IInv'
<1>1. /\ step = "probe" /\ Advance("reset") /\ Typed /\ Redirected
      /\ UNCHANGED <<program, prepared, bodies, report, table, patches>>
  BY DEF Probe, IInv
<1>2. PICK n \in Fn : n = next
  BY <1>1 DEF Typed
<1>3. /\ next' \in Fn /\ n \in Nat
      /\ \/ n < Total /\ next' = n + 1 /\ step' = "probe"
         \/ n = Total /\ next' = 1 /\ step' = "reset"
      /\ \A f \in Fn : f < n + 1 <=> f < n \/ f = n
      /\ \A f \in Fn : f < Total + 1 /\ ~ (f < 1)
  BY <1>1, <1>2, AdvanceIs
<1>4. /\ Probed = n /\ Laid = 1 /\ Visited = 1
      /\ Probed' = n + 1 /\ Laid' = 1 /\ Visited' = 1
  BY <1>1, <1>2, <1>3 DEF Probed, Laid, Visited
<1>5. \A f : Emits(f)' = Emits(f) /\ Complete(f)' = Complete(f)
  BY <1>1 DEF Emits, Complete
<1>6. Written' /\ Reported' /\ Patched'
  BY <1>1, <1>3, <1>4, <1>5 DEF Written, Reported, Patched, IInv, Emitted, Start
<1>7. CASE Emits(n)
  <2>1. /\ redirect' = [redirect EXCEPT ![n] = Base + cursor]
        /\ cursor' = cursor + Room(Body(n, cursor).len)
    BY <1>1, <1>2, <1>7, ProgramIs DEF Probe
  <2>2. /\ Body(n, cursor).len \in Nat /\ Room(Body(n, cursor).len) \in Nat
        /\ cursor \in Nat /\ Base \in Nat \ {0}
    BY <1>1, <1>7, BodyIs, PaddedIs, ImageAssumption DEF Typed
  <2>3. Typed'
    BY <1>1, <1>3, <2>1, <2>2 DEF Typed
  <2>4. /\ \A f \in Fn : f < n => (Follows(redirect[f], f)' <=> Follows(redirect[f], f))
        /\ Follows(redirect[n], n)'
    <3>1. PICK va : va = Base + cursor
      OBVIOUS
    <3>2. Follows(va, n)
      BY <1>1, <1>2, <3>1 DEF Redirected
    <3> QED
      BY <1>1, <2>1, <3>1, <3>2, EarlierSame DEF Redirected
  <2>5. redirect' \in [Fn -> Nat] /\ \A f \in Fn : redirect'[f] = IF f = n THEN Base + cursor ELSE redirect[f]
    BY <1>1, <2>1, <2>2 DEF Redirected
  <2>6. \A f \in Fn : IF Emits(f)' /\ f < n + 1 THEN redirect'[f] >= Base /\ Follows(redirect[f], f)'
                      ELSE redirect'[f] = Nowhere
    BY <1>1, <1>3, <1>4, <1>5, <1>7, <2>2, <2>4, <2>5 DEF Redirected
  <2>7. LenThen(n)' = Body(n, cursor).len
    BY <1>1, <1>2, <1>7, <2>1, ProbedLen
  <2>8. ASSUME step' = "probe"
       PROVE  Redirected'
    <3>1. (redirect[n] + Room(LenThen(n)))' = Base + cursor'
      BY <2>1, <2>2, <2>5, <2>7 DEF Room, Padded
    <3>2. next' = n + 1
      BY <1>3, <2>8
    <3>3. Follows(redirect[n] + Room(LenThen(n)), n + 1)'
      BY <1>5, <1>7, BehindProbed
    <3>4. Follows(Base + cursor, next)'
      BY <3>1, <3>2, <3>3 DEF Follows
    <3> QED
      BY <1>4, <2>5, <2>6, <3>4 DEF Redirected
  <2>9. ASSUME step' = "reset"
       PROVE  Redirected'
    BY <1>4, <2>5, <2>6, <2>9 DEF Redirected
  <2> QED
    BY <1>3, <1>6, <2>3, <2>8, <2>9 DEF IInv
<1>8. CASE ~Emits(n)
  <2>1. UNCHANGED <<redirect, cursor>>
    BY <1>1, <1>2, <1>8 DEF Probe
  <2>2. /\ \A f : LenThen(f)' = LenThen(f)
        /\ \A f : Follows(redirect[f], f)' <=> Follows(redirect[f], f)
    BY <1>1, <2>1, LayoutSame
  <2>3. Typed'
    BY <1>1, <1>3, <2>1 DEF Typed
  <2>4. \A f \in Fn : IF Emits(f)' /\ f < n + 1 THEN redirect'[f] >= Base /\ Follows(redirect[f], f)'
                      ELSE redirect'[f] = Nowhere
    BY <1>1, <1>3, <1>4, <1>5, <1>8, <2>1, <2>2 DEF Redirected
  <2>5. ASSUME step' = "probe"
       PROVE  Redirected'
    <3>1. Follows(Base + cursor, n + 1)
      BY <1>1, <1>2, <1>8, BehindSkipped DEF Redirected
    <3>2. next' = n + 1
      BY <1>3, <2>5
    <3>3. Follows(Base + cursor, next)'
      BY <1>5, <2>1, <2>2, <3>1, <3>2 DEF Follows
    <3> QED
      BY <1>1, <1>4, <2>1, <2>4, <3>3 DEF Redirected
  <2>6. ASSUME step' = "reset"
       PROVE  Redirected'
    BY <1>1, <1>4, <2>1, <2>4, <2>6 DEF Redirected
  <2> QED
    BY <1>3, <1>6, <2>3, <2>5, <2>6 DEF IInv
<1> QED
  BY <1>7, <1>8


(* Emission starts over.                                                      *)
LEMMA ResetKeeps ==
  ASSUME IInv, Reset
  PROVE  IInv'
<1>1. /\ step = "reset" /\ step' = "emit" /\ cursor' = 0 /\ next = 1
      /\ UNCHANGED <<program, prepared, next, redirect, bodies, report, table, patches>>
      /\ Typed /\ Redirected
  BY DEF Reset, IInv, Typed
<1>2. /\ \A f : Emits(f)' = Emits(f) /\ Complete(f)' = Complete(f)
      /\ \A f : Follows(redirect[f], f)' <=> Follows(redirect[f], f)
  BY <1>1, LayoutSame
<1>3. /\ Probed = Total + 1 /\ Laid = 1 /\ Visited = 1
      /\ Probed' = Total + 1 /\ Laid' = 1 /\ Visited' = 1
  BY <1>1 DEF Probed, Laid, Visited
<1>4. \A f \in Fn : ~ (f < 1)
  BY ImageAssumption DEF Fn
<1>5. Typed'
  BY <1>1 DEF Typed
<1>6. Redirected'
  BY <1>1, <1>2, <1>3 DEF Redirected
<1>7. Written' /\ Reported' /\ Patched'
  BY <1>1, <1>2, <1>3, <1>4 DEF Written, Reported, Patched, IInv, Emitted, Start
<1> QED
  BY <1>5, <1>6, <1>7 DEF IInv

(* One function is emitted behind those before it, or reported.               *)
LEMMA EmitKeeps ==
  ASSUME IInv, Emit
  PROVE  IInv'
<1>1. /\ step = "emit" /\ Advance("describe") /\ Typed /\ Redirected /\ Written /\ Reported /\ Patched
      /\ UNCHANGED <<program, prepared, redirect, table, patches>>
  BY DEF Emit, IInv
<1>2. PICK n \in Fn : n = next
  BY <1>1 DEF Typed
<1>3. /\ next' \in Fn /\ n \in Nat
      /\ \/ n < Total /\ next' = n + 1 /\ step' = "emit"
         \/ n = Total /\ next' = 1 /\ step' = "describe"
      /\ \A f \in Fn : f < n + 1 <=> f < n \/ f = n
      /\ \A f \in Fn : f < Total + 1 /\ ~ (f < 1)
  BY <1>1, <1>2, AdvanceIs
<1>4. /\ Probed = Total + 1 /\ Laid = n /\ Visited = 1
      /\ Probed' = Total + 1 /\ Laid' = n + 1 /\ Visited' = 1
  BY <1>1, <1>2, <1>3 DEF Probed, Laid, Visited
<1>5. /\ \A f : Emits(f)' = Emits(f) /\ Complete(f)' = Complete(f)
      /\ \A f, at : Body(f, at)' = Body(f, at)
      /\ \A f : Follows(redirect[f], f)' <=> Follows(redirect[f], f)
  BY <1>1, LayoutSame
<1>6. Redirected'
  BY <1>1, <1>3, <1>4, <1>5 DEF Redirected
<1>7. Patched'
  BY <1>1, <1>3, <1>4 DEF Patched
<1>8. Emitted = {f \in Fn : Emits(f) /\ f < n} /\ n \notin Emitted
  BY <1>1, <1>3, <1>4, EmittedIs
<1>9. Complete(n) <=> program[n].state # "incomplete"
  BY DEF Complete
<1>10. CASE Emits(n)
  <2>1. /\ bodies' = [bodies EXCEPT ![n] = Body(n, cursor)]
        /\ cursor' = cursor + Padded(bodies'[n].len)
        /\ report' = [report EXCEPT !.retargeted = @ + 1]
    BY <1>1, <1>2, <1>10, ProgramIs DEF Emit
  <2>2. cursor \in Nat /\ DOMAIN bodies = Fn
    BY <1>1 DEF Typed, Written
  <2>3. /\ Body(n, cursor).offset = cursor /\ Body(n, cursor) # NoBody
        /\ Body(n, cursor).len \in Nat
    BY <1>1, <1>10, <2>2, BodyIs
  <2>4. bodies'[n] = Body(n, cursor) /\ \A f \in Fn : f # n => bodies'[f] = bodies[f]
    BY <2>1, <2>2
  <2>5. cursor' \in Nat /\ cursor + bodies'[n].len <= cursor' /\ cursor <= cursor'
    <3>1. /\ Padded(Body(n, cursor).len) \in Nat
          /\ Padded(Body(n, cursor).len) >= Body(n, cursor).len
      BY <2>3, PaddedIs
    <3> QED
      BY <2>1, <2>2, <2>3, <2>4, <3>1
  <2>6. Typed'
    BY <1>1, <1>3, <2>5 DEF Typed
  <2>7. Emitted' = Emitted \cup {n}
    BY <2>3, <2>4 DEF Emitted
  <2>8. Written'
    <3>1. DOMAIN bodies' = Fn
      BY <2>1, <2>2
    <3>2. ASSUME NEW f \in Fn, Emits(f), f < n + 1
          PROVE  /\ bodies'[f].offset \in Nat /\ bodies'[f] = Body(f, bodies[f].offset)'
                 /\ bodies'[f].offset + bodies'[f].len <= cursor'
      <4>1. CASE f = n
        BY <1>5, <2>2, <2>3, <2>4, <2>5, <4>1
      <4>2. CASE f # n
        <5>1. /\ bodies[f].offset \in Nat /\ bodies[f] = Body(f, bodies[f].offset)
              /\ bodies[f].offset + bodies[f].len <= cursor
          BY <1>1, <1>3, <1>4, <3>2, <4>2 DEF Written
        <5>2. bodies[f].len \in Nat
          BY <1>1, <3>2, <5>1, BodyIs
        <5>3. bodies'[f] = bodies[f]
          BY <2>4, <4>2
        <5> QED
          BY <1>5, <2>2, <2>5, <5>1, <5>2, <5>3
      <4> QED
        BY <4>1, <4>2
    <3>3. ASSUME NEW f \in Fn, ~ (Emits(f) /\ f < n + 1)
          PROVE  bodies'[f] = NoBody
      BY <1>1, <1>3, <1>4, <1>10, <2>4, <3>3 DEF Written
    <3>4. ASSUME NEW f \in Emitted', NEW g \in Emitted', f < g
          PROVE  bodies'[f].offset + bodies'[f].len <= bodies'[g].offset
      <4>1. f \in Emitted /\ f # n
        BY <1>3, <1>8, <2>7, <3>4
      <4>2. CASE g = n
        BY <1>1, <1>4, <1>8, <2>3, <2>4, <4>1, <4>2 DEF Written
      <4>3. CASE g # n
        BY <1>1, <1>8, <2>4, <2>7, <4>1, <4>3, <3>4 DEF Written
      <4> QED
        BY <4>2, <4>3
    <3> QED
      BY <1>4, <1>5, <3>1, <3>2, <3>3, <3>4 DEF Written
  <2>9. Reported'
    <3>1. IsFiniteSet(Emitted) /\ Cardinality(Emitted \cup {n}) = Cardinality(Emitted) + 1
      <4>1. IsFiniteSet(Fn)
        BY FS_Interval, ImageAssumption DEF Fn
      <4>2. IsFiniteSet(Emitted)
        BY <4>1, FS_Subset DEF Emitted
      <4> QED
        BY <1>8, <4>2, FS_AddElement
    <3>2. Complete(n)
      BY <1>1, <1>10, ProgramIs
    <3>3. /\ {f \in Fn : f < n + 1 /\ ~Complete(f)} = {f \in Fn : f < n /\ ~Complete(f)}
          /\ {f \in Fn : f < n + 1 /\ Complete(f) /\ ~Emits(f)}
               = {f \in Fn : f < n /\ Complete(f) /\ ~Emits(f)}
      BY <1>3, <1>10, <3>2
    <3> QED
      BY <1>1, <1>4, <1>5, <2>1, <2>7, <3>1, <3>3 DEF Reported
  <2> QED
    BY <1>6, <1>7, <2>6, <2>8, <2>9 DEF IInv
<1>11. CASE ~Emits(n)
  <2>1. /\ UNCHANGED <<bodies, cursor>>
        /\ report' = IF Complete(n) THEN [report EXCEPT !.failed = @ \cup {n}]
                     ELSE [report EXCEPT !.incomplete = @ \cup {n}]
    BY <1>1, <1>2, <1>11 DEF Emit
  <2>2. Typed'
    BY <1>1, <1>3, <2>1 DEF Typed
  <2>3. Emitted' = Emitted
    BY <2>1 DEF Emitted
  <2>4. Written'
    BY <1>1, <1>3, <1>4, <1>5, <1>11, <2>1, <2>3 DEF Written
  <2>5. /\ {f \in Fn : f < n + 1 /\ ~Complete(f)}
             = {f \in Fn : f < n /\ ~Complete(f)} \cup (IF Complete(n) THEN {} ELSE {n})
        /\ {f \in Fn : f < n + 1 /\ Complete(f) /\ ~Emits(f)}
             = {f \in Fn : f < n /\ Complete(f) /\ ~Emits(f)} \cup (IF Complete(n) THEN {n} ELSE {})
    BY <1>3, <1>11
  <2>6. Reported'
    BY <1>1, <1>4, <1>5, <2>1, <2>3, <2>5 DEF Reported
  <2> QED
    BY <1>6, <1>7, <2>2, <2>4, <2>6 DEF IInv
<1> QED
  BY <1>10, <1>11


(* Nothing that concerns bodies or trampolines changes in between, or at the  *)
(* end.                                                                       *)
LEMMA RestKeeps ==
  ASSUME IInv, UNCHANGED <<program, next, redirect, cursor, bodies, report, patches>>,
         step' = step \/ (step = "describe" /\ step' = "patch")
  PROVE  IInv'
<1>1. /\ \A f : Emits(f)' = Emits(f) /\ Complete(f)' = Complete(f)
      /\ \A f, at : Body(f, at)' = Body(f, at)
      /\ \A f : LenThen(f)' = LenThen(f)
      /\ \A f : Follows(redirect[f], f)' <=> Follows(redirect[f], f)
  BY LayoutSame
<1>2. next \in Fn /\ (step \notin {"probe", "emit", "patch"} => next = 1)
  BY DEF IInv, Typed
<1>3. Probed' = Probed /\ Laid' = Laid /\ Visited' = Visited
  <2>1. CASE step' = step
    BY <2>1 DEF Probed, Laid, Visited
  <2>2. CASE step = "describe" /\ step' = "patch"
    <3>1. next' = 1
      BY <1>2, <2>2
    <3> QED
      BY <2>2, <3>1 DEF Probed, Laid, Visited
  <2> QED
    BY <2>1, <2>2
<1>4. Typed'
  BY <1>2 DEF IInv, Typed
<1>5. Follows(Base + cursor, next)' <=> Follows(Base + cursor, next)
  BY <1>1 DEF Follows
<1>6. Redirected'
  BY <1>1, <1>3, <1>5 DEF IInv, Redirected
<1>7. Emitted' = Emitted /\ \A f : Start(f)' = Start(f)
  BY DEF Emitted, Start
<1>8. Written' /\ Reported' /\ Patched'
  BY <1>1, <1>3, <1>7 DEF IInv, Written, Reported, Patched
<1> QED
  BY <1>4, <1>6, <1>8 DEF IInv

(* One trampoline is patched, or passed over.                                 *)
LEMMA PatchKeeps ==
  ASSUME IInv, Patch
  PROVE  IInv'
<1>1. /\ step = "patch" /\ Advance("done") /\ Typed /\ Redirected /\ Written /\ Reported /\ Patched
      /\ UNCHANGED <<program, prepared, redirect, cursor, bodies, report, table>>
      /\ patches' = IF next \in Emitted /\ Rel(next) <= Reach
                    THEN [patches EXCEPT ![next] = Trampoline[next] + 5 + Rel(next)] ELSE patches
  BY DEF Patch, IInv
<1>2. PICK n \in Fn : n = next
  BY <1>1 DEF Typed
<1>3. /\ next' \in Fn /\ n \in Nat
      /\ \/ n < Total /\ next' = n + 1 /\ step' = "patch"
         \/ n = Total /\ next' = 1 /\ step' = "done"
      /\ \A f \in Fn : f < n + 1 <=> f < n \/ f = n
      /\ \A f \in Fn : f < Total + 1 /\ ~ (f < 1)
  BY <1>1, <1>2, AdvanceIs
<1>4. /\ Probed = Total + 1 /\ Laid = Total + 1 /\ Visited = n
      /\ Probed' = Total + 1 /\ Laid' = Total + 1 /\ Visited' = n + 1
  BY <1>1, <1>2, <1>3 DEF Probed, Laid, Visited
<1>5. /\ \A f : Emits(f)' = Emits(f) /\ Complete(f)' = Complete(f)
      /\ \A f, at : Body(f, at)' = Body(f, at)
      /\ \A f : Follows(redirect[f], f)' <=> Follows(redirect[f], f)
  BY <1>1, LayoutSame
<1>6. Typed' /\ Redirected'
  BY <1>1, <1>3, <1>4, <1>5 DEF Typed, Redirected
<1>7. Emitted' = Emitted /\ \A f : Start(f)' = Start(f)
  BY <1>1 DEF Emitted, Start
<1>8. Written' /\ Reported'
  BY <1>1, <1>4, <1>5, <1>7 DEF Written, Reported
<1>9. Patched'
  <2>1. patches = [f \in Fn |-> IF f < n /\ f \in Emitted /\ Start(f) - (Trampoline[f] + 5) <= Reach
                                THEN Start(f) ELSE Nowhere]
    BY <1>1, <1>4 DEF Patched
  <2>2. n \in Emitted => Rel(n) = Start(n) - (Trampoline[n] + 5) /\ Trampoline[n] + 5 + Rel(n) = Start(n)
    <3>1. Trampoline[n] \in Nat /\ Base \in Nat
      BY ImageAssumption
    <3>2. n \in Emitted => bodies[n].offset \in Nat
      BY <1>1 DEF Written, Emitted
    <3> QED
      BY <3>1, <3>2 DEF Start, Rel
  <2>3. patches' = [f \in Fn |-> IF f < n + 1 /\ f \in Emitted /\ Start(f) - (Trampoline[f] + 5) <= Reach
                                 THEN Start(f) ELSE Nowhere]
    <3>1. CASE n \in Emitted /\ Rel(n) <= Reach
      <4>1. patches' = [patches EXCEPT ![n] = Start(n)]
        BY <1>1, <1>2, <2>2, <3>1
      <4> QED
        BY <1>3, <2>1, <2>2, <3>1, <4>1
    <3>2. CASE ~ (n \in Emitted /\ Rel(n) <= Reach)
      <4>1. patches' = patches
        BY <1>1, <1>2, <3>2
      <4> QED
        BY <1>3, <2>1, <2>2, <3>2, <4>1
    <3> QED
      BY <3>1, <3>2
  <2> QED
    BY <1>4, <1>7, <2>3 DEF Patched
<1> QED
  BY <1>6, <1>8, <1>9 DEF IInv

(* Before the first turn nothing is laid out.                                 *)
LEMMA Begins == WriteInit => IInv
<1> SUFFICES ASSUME WriteInit
             PROVE  IInv
  OBVIOUS
<1>1. \A f \in Fn : f \in Nat /\ ~ (f < 1)
  BY ImageAssumption DEF Fn
<1>2. Probed = 1 /\ Laid = 1 /\ Visited = 1 /\ 1 \in Fn /\ Base \in Nat
  BY ImageAssumption DEF WriteInit, Probed, Laid, Visited, Fn
<1>3. Typed
  BY <1>2 DEF WriteInit, Typed
<1>4. Follows(Base + cursor, next)
  BY <1>1, <1>2 DEF WriteInit, Follows
<1>5. Redirected
  BY <1>1, <1>2, <1>4 DEF WriteInit, Redirected, Nowhere
<1>6. Emitted = {} /\ Written
  BY <1>1, <1>2 DEF WriteInit, Written, Emitted
<1>7. Reported /\ Patched
  BY <1>1, <1>2, <1>6, FS_EmptySet DEF WriteInit, Reported, Patched
<1> QED
  BY <1>3, <1>5, <1>6, <1>7 DEF IInv

-----------------------------------------------------------------------------
(* The theorems *)

(* What `write_devirt` keeps true: after every turn, redirects, bodies,       *)
(* report and trampolines describe the functions whose turn has been.         *)
THEOREM ImageInvariant == WriteSpec => []IInv
<1>1. ASSUME IInv, [WriteNext]_imageVars
      PROVE  IInv'
  <2>1. CASE \E f \in Fn : Recover(f)
    BY <1>1, <2>1, RecoverKeeps
  <2>2. CASE Probe
    BY <1>1, <2>2, ProbeKeeps
  <2>3. CASE Reset
    BY <1>1, <2>3, ResetKeeps
  <2>4. CASE Emit
    BY <1>1, <2>4, EmitKeeps
  <2>5. CASE Describe
    <3>1. /\ step = "describe" /\ step' = "patch"
          /\ UNCHANGED <<program, next, redirect, cursor, bodies, report, patches>>
      BY <2>5 DEF Describe
    <3> QED
      BY <1>1, <3>1, RestKeeps
  <2>6. CASE Patch
    BY <1>1, <2>6, PatchKeeps
  <2>7. CASE UNCHANGED imageVars
    <3>1. step' = step /\ UNCHANGED <<program, next, redirect, cursor, bodies, report, patches>>
      BY <2>7 DEF imageVars
    <3> QED
      BY <1>1, <3>1, RestKeeps
  <2> QED
    BY <1>1, <2>1, <2>2, <2>3, <2>4, <2>5, <2>6, <2>7 DEF WriteNext, AllPatched
<1> QED
  BY Begins, <1>1, PTL DEF WriteSpec

(* Every trampoline in reach of its body leads there and all others are as    *)
(* they were; a function without a body is reported, for one reason; and as   *)
(* long as every body is in reach, as many functions are counted retargeted   *)
(* as trampolines lead to a body.                                             *)
THEOREM TrampolinesLead == WriteSpec => []PatchedOrReported
<1>1. ASSUME IInv
      PROVE  PatchedOrReported
  <2> SUFFICES ASSUME step = "done"
               PROVE  /\ \A f \in Fn : patches[f] = IF f \in Emitted /\ InReach(f)
                                                   THEN Start(f) ELSE Nowhere
                      /\ report.incomplete \cup report.failed = Fn \ Emitted
                      /\ report.incomplete \cap report.failed = {}
                      /\ (\A f \in Emitted : InReach(f)) =>
                            report.retargeted = Cardinality({f \in Fn : patches[f] # Nowhere})
    BY DEF PatchedOrReported
  <2>1. Typed /\ Written /\ Reported /\ Patched
    BY <1>1 DEF IInv
  <2>2. Laid = Total + 1 /\ Visited = Total + 1 /\ \A f \in Fn : f < Total + 1
    BY ImageAssumption DEF Laid, Visited, Fn
  <2>3. Emitted = {f \in Fn : Emits(f)}
    BY <2>1, <2>2, EmittedIs
  <2>4. /\ report.retargeted = Cardinality(Emitted)
        /\ report.incomplete = {f \in Fn : ~Complete(f)}
        /\ report.failed = {f \in Fn : Complete(f) /\ ~Emits(f)}
    BY <2>1, <2>2 DEF Reported
  <2>5. \A f \in Fn : Emits(f) => Complete(f)
    BY <2>1, ProgramIs
  <2>6. \A f \in Fn : patches[f] = IF f \in Emitted /\ InReach(f) THEN Start(f) ELSE Nowhere
    BY <2>1, <2>2 DEF Patched, InReach
  <2>7. ASSUME \A f \in Emitted : InReach(f)
        PROVE  report.retargeted = Cardinality({f \in Fn : patches[f] # Nowhere})
    <3>1. \A f \in Emitted : Start(f) # Nowhere
      BY <2>1, <2>2, <2>3, ImageAssumption DEF Written, Start, Nowhere
    <3>2. {f \in Fn : patches[f] # Nowhere} = Emitted
      BY <2>3, <2>6, <2>7, <3>1
    <3> QED
      BY <2>4, <3>2
  <2> QED
    BY <2>3, <2>4, <2>5, <2>6, <2>7
<1> QED
  BY <1>1, ImageInvariant, PTL

\* Bodies follow one another, and the code ends behind the last.
BodiesApart == /\ \A f, g \in Emitted : f < g => End(f) <= Start(g)
               /\ step \in {"describe", "patch", "done"} => \A f \in Emitted : End(f) <= Base + cursor

(* Whether or not the layouts agree, no body is written over another, nor     *)
(* over the unwind data behind the code.                                      *)
THEOREM NoBodyOverwritten == WriteSpec => []BodiesApart
<1>1. ASSUME IInv
      PROVE  BodiesApart
  <2>1. Typed /\ Written /\ Base \in Nat /\ cursor \in Nat
    BY <1>1, ImageAssumption DEF IInv, Typed
  <2>2. ASSUME NEW f \in Emitted
        PROVE  /\ bodies[f].offset \in Nat /\ bodies[f].len \in Nat
               /\ bodies[f].offset + bodies[f].len <= cursor
    <3>1. f \in Fn /\ Emits(f) /\ f < Laid
      BY <2>1, EmittedIs
    <3>2. /\ bodies[f].offset \in Nat /\ bodies[f] = Body(f, bodies[f].offset)
          /\ bodies[f].offset + bodies[f].len <= cursor
      BY <2>1, <3>1 DEF Written
    <3> QED
      BY <2>1, <3>1, <3>2, BodyIs
  <2>3. \A f, g \in Emitted : f < g => bodies[f].offset + bodies[f].len <= bodies[g].offset
    BY <2>1 DEF Written
  <2> QED
    BY <2>1, <2>2, <2>3 DEF BodiesApart, Start, End
<1> QED
  BY <1>1, ImageInvariant, PTL


-----------------------------------------------------------------------------
(* Calls between bodies *)

(* Emission goes where the probe went, until a jump is encoded shorter.       *)
LEMMA StaysAgreed ==
  ASSUME TrampolinesAreFar, IInv, IInv', Agreed, [WriteNext]_imageVars
  PROVE  Agreed'
<1>1. /\ Typed /\ Redirected /\ Written /\ Typed' /\ Written'
      /\ Emitted = {f \in Fn : Emits(f) /\ f < Laid}
  BY EmittedIs DEF IInv
<1>2. \A f \in Fn : f < Total + 1 /\ ~ (f < 1)
  BY ImageAssumption DEF Fn
<1>3. ASSUME step' # "emit", Emitted' = {}
      PROVE  Agreed'
  BY <1>3 DEF Agreed, LayoutsAgree
<1>4. ASSUME step \in {"recover", "probe", "reset"}
      PROVE  Emitted = {}
  BY <1>1, <1>2, <1>4 DEF Laid
<1>5. ASSUME step' # "emit", UNCHANGED <<redirect, bodies>>, step \in {"describe", "patch", "done"}
      PROVE  Agreed'
  BY <1>5 DEF Agreed, LayoutsAgree, Emitted, Start
<1>6. CASE \E f \in Fn : Recover(f)
  BY <1>3, <1>4, <1>6 DEF Recover, Emitted
<1>7. CASE Probe
  BY <1>1, <1>3, <1>4, <1>7 DEF Probe, Advance, Emitted
<1>8. CASE Reset
  <2>1. /\ step = "reset" /\ step' = "emit" /\ cursor' = 0 /\ next = 1 /\ next' = next
        /\ UNCHANGED <<program, redirect, bodies>>
    BY <1>1, <1>8 DEF Reset, Typed
  <2>2. Emitted' = {}
    BY <1>4, <2>1 DEF Emitted
  <2>3. Follows(Base + cursor, next)'
    BY <1>2, <2>1, ImageAssumption DEF Follows
  <2> QED
    BY <2>2, <2>3 DEF Agreed, LayoutsAgree
<1>9. CASE Emit
  <2>1. /\ step = "emit" /\ Advance("describe") /\ UNCHANGED <<program, redirect>>
    BY <1>9 DEF Emit
  <2>2. PICK n \in Fn : n = next
    BY <1>1 DEF Typed
  <2>3. /\ n \in Nat /\ cursor \in Nat /\ Base \in Nat
        /\ \/ next' = n + 1 /\ step' = "emit"
           \/ step' = "describe"
    BY <1>1, <2>1, <2>2, AdvanceIs, ImageAssumption DEF Typed
  <2>4. /\ \A f : Emits(f)' = Emits(f) /\ LenThen(f)' = LenThen(f)
    BY <2>1, LayoutSame
  <2>5. Laid = n /\ Probed = Total + 1
    BY <2>1, <2>2 DEF Laid, Probed
  <2> SUFFICES ASSUME \A f \in Emitted' : ~bodies'[f].short
               PROVE  LayoutsAgree' /\ (step' = "emit" => Follows(Base + cursor, next)')
    BY DEF Agreed
  <2>6. CASE Emits(n)
    <3>1. bodies' = [bodies EXCEPT ![n] = Body(n, cursor)] /\ cursor' = cursor + Padded(bodies'[n].len)
      BY <1>1, <1>9, <2>2, <2>6, ProgramIs DEF Emit
    <3>2. /\ Body(n, cursor).offset = cursor /\ Body(n, cursor) # NoBody /\ Body(n, cursor).len \in Nat
      BY <1>1, <2>3, <2>6, BodyIs
    <3>3. bodies'[n] = Body(n, cursor) /\ \A f \in Fn : f # n => bodies'[f] = bodies[f]
      BY <1>1, <3>1 DEF Written
    <3>4. Emitted' = Emitted \cup {n} /\ n \notin Emitted
      BY <1>1, <2>3, <2>5, <3>2, <3>3 DEF Emitted
    <3>5. \A f \in Emitted : ~bodies[f].short
      BY <1>1, <3>3, <3>4
    <3>6. LayoutsAgree /\ Follows(Base + cursor, n)
      BY <2>1, <2>2, <3>5 DEF Agreed
    <3>7. Follows(redirect[n], n)
      BY <1>1, <1>2, <2>5, <2>6 DEF Redirected
    <3>8. redirect[n] = Base + cursor
      BY <2>3, <3>6, <3>7, FollowsOnce
    <3>9. LayoutsAgree'
      BY <1>1, <2>1, <3>2, <3>3, <3>4, <3>6, <3>8 DEF LayoutsAgree, Start
    <3>10. LenThen(n) = Body(n, cursor).len
      BY <1>1, <2>1, <2>6, <3>3, <3>4, <3>8, EmittedLen
    <3>11. Follows(redirect[n] + Room(LenThen(n)), n + 1)
      BY <2>6, BehindEmitted
    <3>12. redirect[n] + Room(LenThen(n)) = Base + cursor'
      BY <2>3, <3>1, <3>2, <3>3, <3>8, <3>10, PaddedIs
    <3>13. Follows(Base + cursor', n + 1)
      BY <3>11, <3>12
    <3>14. step' = "emit" => Follows(Base + cursor, next)'
      BY <2>1, <2>3, <2>4, <3>13 DEF Follows
    <3> QED
      BY <3>9, <3>14
  <2>7. CASE ~Emits(n)
    <3>1. UNCHANGED <<bodies, cursor>>
      BY <2>1, <2>2, <2>7, <1>9 DEF Emit
    <3>2. Emitted' = Emitted
      BY <3>1 DEF Emitted
    <3>3. LayoutsAgree /\ Follows(Base + cursor, n)
      BY <2>1, <2>2, <3>1, <3>2 DEF Agreed
    <3>4. Follows(Base + cursor, n + 1)
      BY <2>7, <3>3, BehindSkipped
    <3>5. step' = "emit" => Follows(Base + cursor, next)'
      BY <2>1, <2>3, <2>4, <3>1, <3>4 DEF Follows
    <3> QED
      BY <2>1, <3>1, <3>2, <3>3, <3>5 DEF LayoutsAgree, Start
  <2> QED
    BY <2>6, <2>7
<1>10. CASE Describe
  BY <1>5, <1>10 DEF Describe
<1>11. CASE Patch
  BY <1>1, <1>5, <1>11 DEF Patch, Advance
<1>12. CASE UNCHANGED imageVars
  <2>1. UNCHANGED <<program, step, next, redirect, cursor, bodies>>
    BY <1>12 DEF imageVars
  <2>2. \A f : Emits(f)' = Emits(f) /\ LenThen(f)' = LenThen(f)
    BY <2>1, LayoutSame
  <2>3. Follows(Base + cursor, next)' <=> Follows(Base + cursor, next)
    BY <2>1, <2>2 DEF Follows
  <2> QED
    BY <2>1, <2>3 DEF Agreed, LayoutsAgree, Emitted, Start
<1> QED
  BY <1>6, <1>7, <1>8, <1>9, <1>10, <1>11, <1>12 DEF WriteNext, AllPatched

(* If no body has a jump that was encoded shorter, the layouts agree and      *)
(* every call and tail call goes to the start of a body, or to an address     *)
(* that was not recovered.  The hypothesis is about the image: were a         *)
(* trampoline at the very end of the last section, next to the new code, a    *)
(* jump could be short in the layout only.                                    *)
THEOREM CallsLand ==
  ASSUME TrampolinesAreFar
  PROVE  WriteSpec => []CallsLandIfNoneIsShort
<1>1. WriteInit => Agreed
  <2>1. WriteInit => Emitted = {} /\ step = "recover"
    BY DEF WriteInit, Emitted
  <2> QED
    BY <2>1 DEF Agreed, LayoutsAgree
<1>2. ASSUME IInv, Agreed
      PROVE  CallsLandIfNoneIsShort
  <2> SUFFICES ASSUME step \in {"describe", "patch", "done"}, \A f \in Emitted : ~bodies[f].short
               PROVE  /\ LayoutsAgree
                      /\ \A f \in Emitted : \A va \in {bodies[f].calls, bodies[f].tail} \ {Nowhere, Elsewhere} :
                            \/ \E g \in Emitted : va = Start(g)
                            \/ \E g \in Fn \ Emitted : va = Trampoline[g]
    BY DEF CallsLandIfNoneIsShort
  <2>1. LayoutsAgree
    BY <1>2 DEF Agreed
  <2>2. Typed /\ Redirected /\ Written
    BY <1>2 DEF IInv
  <2>3. /\ Laid = Total + 1 /\ Probed = Total + 1
        /\ Base \in Nat \ {0} /\ \A f \in Fn : f < Total + 1
    <3>1. Laid = Total + 1
      BY DEF Laid
    <3>2. Probed = Total + 1
      BY DEF Probed
    <3> QED
      BY <3>1, <3>2, ImageAssumption DEF Fn
  <2>4. Emitted = {f \in Fn : Emits(f)}
    BY <2>2, <2>3, EmittedIs
  <2>5. \A g \in Fn : redirect[g] # Nowhere <=> g \in Emitted
    BY <2>2, <2>3, <2>4 DEF Redirected, Nowhere
  <2>6. ASSUME NEW va
        PROVE  \/ \E g \in Emitted : Resolve(va) = Start(g)
               \/ Resolve(va) = va /\ \A g \in Fn : Trampoline[g] = va => g \notin Emitted
    <3> DEFINE to == {g \in Fn : Trampoline[g] = va /\ redirect[g] # Nowhere}
    <3>1. Resolve(va) = IF to = {} THEN va ELSE redirect[CHOOSE g \in to : TRUE]
      BY DEF Resolve
    <3>2. CASE to = {}
      BY <2>5, <3>1, <3>2
    <3>3. CASE to # {}
      <4>1. PICK g \in to : Resolve(va) = redirect[g]
        BY <3>1, <3>3
      <4> QED
        BY <2>1, <2>5, <4>1 DEF LayoutsAgree
    <3> QED
      BY <3>2, <3>3
  <2>7. ASSUME NEW f \in Emitted, NEW va \in {bodies[f].calls, bodies[f].tail} \ {Nowhere, Elsewhere}
        PROVE  \/ \E g \in Emitted : va = Start(g)
               \/ \E g \in Fn \ Emitted : va = Trampoline[g]
    <3>1. f \in Fn /\ Emits(f)
      BY <2>4
    <3>2. PICK at \in Nat : bodies[f] = Body(f, at)
      BY <2>2, <2>3, <3>1 DEF Written
    <3>3. /\ bodies[f].calls = Resolve(Callee(f))
          /\ bodies[f].tail = IF program[f].tail = Nowhere THEN Nowhere ELSE Resolve(program[f].tail)
      <4>1. /\ Body(f, at).calls = Resolve(Callee(f))
            /\ Body(f, at).tail = IF program[f].tail = Nowhere THEN Nowhere ELSE Resolve(program[f].tail)
        BY <2>2, <3>1, BodyIs
      <4> QED
        BY <3>2, <4>1
    <3>4. \E g \in Fn : Callee(f) = Trampoline[g]
      <4>1. (f % Total) + 1 \in Fn
        BY <3>1, ImageAssumption DEF Fn
      <4> QED
        BY <4>1 DEF Callee
    <3>5. program[f].tail \in {Nowhere, Elsewhere} \cup {Trampoline[g] : g \in Fn}
      BY <2>2, <3>1, ProgramIs
    <3>6. PICK to : va = Resolve(to) /\ (to = Elsewhere \/ \E g \in Fn : to = Trampoline[g])
      BY <3>3, <3>4, <3>5
    <3> QED
      BY <2>6, <3>6
  <2> QED
    BY <2>1, <2>7
<1> QED
  BY <1>1, <1>2, StaysAgreed, ImageInvariant, PTL DEF WriteSpec

-----------------------------------------------------------------------------
(* The function table                                                         *)

(* Sorting by rank: the records in order of address, each once.               *)
LEMMA ByAddressSorts ==
  ASSUME NEW S, IsFiniteSet(S), \A r \in S : r.begin \in Nat,
         \A r, s \in S : r.begin = s.begin => r = s
  PROVE  /\ ByAddress(S) \in Seq(S) /\ Len(ByAddress(S)) = Cardinality(S)
         /\ DOMAIN ByAddress(S) = 1..Cardinality(S)
         /\ \A i \in DOMAIN ByAddress(S) : ByAddress(S)[i] \in S
         /\ \A r \in S : \E i \in DOMAIN ByAddress(S) : ByAddress(S)[i] = r
         /\ \A i, j \in DOMAIN ByAddress(S) : i < j => ByAddress(S)[i].begin < ByAddress(S)[j].begin
<1> DEFINE n == Cardinality(S)
           below(r) == {s \in S : s.begin < r.begin}
           rank == [r \in S |-> Cardinality(below(r)) + 1]
           t == ByAddress(S)
<1>1. n \in Nat
  BY FS_CardinalityType
<1>2. ASSUME NEW r \in S
      PROVE  IsFiniteSet(below(r)) /\ Cardinality(below(r)) \in Nat
  BY FS_Subset, FS_CardinalityType
<1>3. ASSUME NEW r \in S, NEW T \in SUBSET S, r \notin T, below(r) \subseteq T
      PROVE  rank[r] <= Cardinality(T) + 1 /\ Cardinality(T) + 1 <= n
  <2>1. IsFiniteSet(T)
    BY FS_Subset
  <2>2. Cardinality(below(r)) <= Cardinality(T)
    BY <1>3, <2>1, FS_Subset
  <2>3. Cardinality(T \cup {r}) = Cardinality(T) + 1
    BY <1>3, <2>1, FS_AddElement
  <2>4. Cardinality(T \cup {r}) <= n
    BY FS_Subset
  <2>5. Cardinality(T) \in Nat
    BY <2>1, FS_CardinalityType
  <2> QED
    BY <1>1, <1>2, <2>2, <2>3, <2>4, <2>5
<1>4. ASSUME NEW r \in S PROVE rank[r] \in 1..n
  <2>1. r \notin below(r) /\ below(r) \in SUBSET S
    OBVIOUS
  <2>2. Cardinality(below(r)) + 1 <= n
    BY <1>3, <2>1
  <2> HIDE DEF below
  <2> QED
    BY <1>1, <1>2, <2>2
<1>5. ASSUME NEW r \in S, NEW s \in S, r.begin < s.begin PROVE rank[r] < rank[s]
  <2>1. r \notin below(r) /\ below(r) \cup {r} \subseteq below(s)
    BY <1>5
  <2>2. Cardinality(below(r) \cup {r}) = Cardinality(below(r)) + 1
    BY <1>2, <2>1, FS_AddElement
  <2>3. Cardinality(below(r) \cup {r}) <= Cardinality(below(s))
    BY <1>2, <2>1, FS_Subset
  <2> HIDE DEF below
  <2> QED
    BY <1>2, <2>2, <2>3
<1> HIDE DEF below
<1>6. rank \in Injection(S, 1..n)
  <2>1. \A r, s \in S : rank[r] = rank[s] => r = s
    <3>1. SUFFICES ASSUME NEW r \in S, NEW s \in S, rank[r] = rank[s], r # s PROVE FALSE
      OBVIOUS
    <3>2. r.begin < s.begin \/ s.begin < r.begin
      BY <3>1
    <3>3. rank[r] \in Nat /\ rank[s] \in Nat
      BY <1>4
    <3> HIDE DEF rank
    <3> QED
      BY <1>5, <3>1, <3>2, <3>3
  <2>2. rank \in [S -> 1..n]
    BY <1>4
  <2> HIDE DEF rank
  <2> QED
    BY <2>1, <2>2 DEF Injection, IsInjective
<1>7. rank \in Surjection(S, 1..n)
  <2>1. IsFiniteSet(1..n) /\ Cardinality(1..n) = n
    BY <1>1, FS_Interval
  <2> HIDE DEF rank
  <2> QED
    BY <1>6, <2>1, FS_Injection
<1>8. \A i \in 1..n : \E r \in S : rank[r] = i
  <2> HIDE DEF rank
  <2> QED
    BY <1>7 DEF Surjection
<1>9. t = [i \in 1..n |-> CHOOSE r \in S : Cardinality(below(r)) = i - 1]
  BY DEF ByAddress, below
<1>10. ASSUME NEW i \in 1..n PROVE t[i] \in S /\ rank[t[i]] = i
  <2>1. PICK r \in S : rank[r] = i
    BY <1>8
  <2>2. Cardinality(below(r)) = i - 1
    BY <1>2, <2>1
  <2>3. t[i] = CHOOSE x \in S : Cardinality(below(x)) = i - 1
    BY <1>9
  <2>4. t[i] \in S /\ Cardinality(below(t[i])) = i - 1
    BY <2>2, <2>3
  <2> HIDE DEF t
  <2> QED
    BY <2>4
<1>11. DOMAIN t = 1..n
  BY <1>9
<1>12. ASSUME NEW r \in S PROVE \E i \in 1..n : t[i] = r
  <2>1. rank[r] \in 1..n
    BY <1>4
  <2>2. t[rank[r]] \in S /\ rank[t[rank[r]]] = rank[r]
    BY <1>10, <2>1
  <2>3. t[rank[r]] = r
    <3> HIDE DEF rank, t
    <3> QED
      BY <1>6, <2>2 DEF Injection, IsInjective
  <2> QED
    BY <2>1, <2>3
<1>13. ASSUME NEW i \in 1..n, NEW j \in 1..n, i < j PROVE t[i].begin < t[j].begin
  <2>1. t[i] \in S /\ t[j] \in S /\ rank[t[i]] = i /\ rank[t[j]] = j
    BY <1>10
  <2>2. t[j].begin < t[i].begin => FALSE
    <3> HIDE DEF rank, t
    <3> QED
      BY <1>5, <1>13, <2>1
  <2>3. t[i].begin # t[j].begin
    <3> HIDE DEF rank, t
    <3> QED
      BY <1>13, <2>1
  <2> HIDE DEF t
  <2> QED
    BY <2>1, <2>2, <2>3
<1>14. t \in Seq(S) /\ Len(t) = n
  <2>1. t \in [1..n -> S]
    BY <1>9, <1>10
  <2> HIDE DEF t
  <2> QED
    BY <1>1, <2>1
<1> QED
  BY <1>10, <1>11, <1>12, <1>13, <1>14

(* A set of numbers that is closed under successor below n holds n if it      *)
(* holds 0: counting it would otherwise map it one to one into itself, and    *)
(* miss 0.                                                                    *)
LEMMA Climb ==
  ASSUME NEW n \in Nat, NEW S \in SUBSET (0..n), 0 \in S,
         \A k \in S : k < n => k + 1 \in S
  PROVE  n \in S
<1> SUFFICES ASSUME n \notin S PROVE FALSE
  OBVIOUS
<1> DEFINE up == [k \in S |-> k + 1]
<1>1. IsFiniteSet(S)
  <2>1. IsFiniteSet(0..n)
    BY FS_Interval
  <2> QED
    BY <2>1, FS_Subset
<1>2. up \in Injection(S, S)
  BY DEF Injection, IsInjective
<1>3. up \in Surjection(S, S)
  BY <1>1, <1>2, FS_Injection
<1>4. PICK k \in S : up[k] = 0
  BY <1>3 DEF Surjection
<1> QED
  BY <1>4

\* What the n-th function adds to the unwind area.
Adds(n) == IF n \in Emitted THEN UnwindSize[n] ELSE 0

\* f counts the unwind data of the first k functions, and of fewer.
Counts(f, k) == /\ f \in [0..Total -> Nat] /\ f[0] = 0
                /\ \A n \in 1..k : f[n] = f[n - 1] + Adds(n)

(* The unwind area grows by what each function adds.                          *)
LEMMA UnwindAreaIs == Counts(unwindArea, Total)
<1>1. Total \in Nat /\ \A n \in 1..Total : Adds(n) \in Nat
  BY ImageAssumption, TableAssumption DEF Adds, Fn
<1> DEFINE T == {k \in 0..Total : \E f : Counts(f, k)}
<1>2. 0 \in T
  <2>1. Counts([m \in 0..Total |-> 0], 0)
    BY <1>1 DEF Counts
  <2> QED
    BY <1>1, <2>1
<1>3. ASSUME NEW k \in T, k < Total PROVE k + 1 \in T
  <2>1. PICK f : Counts(f, k)
    OBVIOUS
  <2> DEFINE g == [f EXCEPT ![k + 1] = f[k] + Adds(k + 1)]
  <2>2. k \in Nat /\ k + 1 \in 1..Total
    BY <1>1, <1>3
  <2>3. /\ f \in [0..Total -> Nat] /\ f[0] = 0
        /\ \A n \in 1..k : f[n] = f[n - 1] + Adds(n)
    BY <2>1 DEF Counts
  <2>4. f[k] + Adds(k + 1) \in Nat
    BY <1>1, <2>2, <2>3
  <2>5. /\ g \in [0..Total -> Nat] /\ g[k + 1] = f[k] + Adds(k + 1)
        /\ \A n \in 0..k : g[n] = f[n]
    BY <1>1, <2>2, <2>3, <2>4
  <2>6. \A n \in 1..(k + 1) : g[n] = g[n - 1] + Adds(n)
    <3> HIDE DEF g
    <3>1. ASSUME NEW n \in 1..(k + 1) PROVE g[n] = g[n - 1] + Adds(n)
      <4>1. CASE n = k + 1
        <5>1. g[n - 1] = f[k]
          BY <2>2, <2>5, <4>1
        <5> QED
          BY <2>5, <4>1, <5>1
      <4>2. CASE n # k + 1
        <5>1. n \in 1..k /\ n \in 0..k /\ n - 1 \in 0..k
          BY <2>2, <3>1, <4>2
        <5> QED
          BY <2>3, <2>5, <5>1
      <4> QED
        BY <4>1, <4>2
    <3> QED
      BY <3>1
  <2>7. g[0] = 0
    BY <2>2, <2>3, <2>5
  <2>8. Counts(g, k + 1)
    <3> HIDE DEF g
    <3> QED
      BY <2>5, <2>6, <2>7 DEF Counts
  <2> QED
    BY <1>1, <2>2, <2>8
<1>4. Total \in T
  <2>1. T \in SUBSET (0..Total)
    OBVIOUS
  <2> HIDE DEF T
  <2> QED
    BY <1>1, <1>2, <1>3, <2>1, Climb
<1>5. PICK f : Counts(f, Total)
  BY <1>4
<1> DEFINE Rhs(h) == [n \in 0..Total |-> IF n = 0 THEN 0
                                         ELSE h[n - 1] + (IF n \in Emitted THEN UnwindSize[n] ELSE 0)]
<1>6. \A h : \A n \in 0..Total : Rhs(h)[n] = IF n = 0 THEN 0 ELSE h[n - 1] + Adds(n)
  BY DEF Adds
<1>7. f = Rhs(f)
  <2>1. \A n \in 0..Total : f[n] = Rhs(f)[n]
    <3>1. f \in [0..Total -> Nat] /\ f[0] = 0 /\ \A n \in 1..Total : f[n] = f[n - 1] + Adds(n)
      BY <1>5 DEF Counts
    <3>2. \A n \in 0..Total : n = 0 \/ n \in 1..Total
      BY <1>1
    <3> HIDE DEF Rhs
    <3> QED
      BY <1>6, <3>1, <3>2
  <2>2. f = [n \in 0..Total |-> f[n]]
    BY <1>5 DEF Counts
  <2>3. Rhs(f) = [n \in 0..Total |-> Rhs(f)[n]]
    OBVIOUS
  <2> HIDE DEF Rhs
  <2> QED
    BY <2>1, <2>2, <2>3
<1>8. unwindArea = CHOOSE h : h = Rhs(h)
  BY DEF unwindArea
<1>9. unwindArea = Rhs(unwindArea)
  <2> HIDE DEF Rhs
  <2> QED
    BY <1>7, <1>8
<1> DEFINE h == unwindArea
<1>10. \A n \in 0..Total : h[n] = IF n = 0 THEN 0 ELSE h[n - 1] + Adds(n)
  <2> HIDE DEF Rhs
  <2> QED
    BY <1>6, <1>9
<1>11. DOMAIN h = 0..Total /\ h = [n \in 0..Total |-> h[n]]
  BY <1>9
<1> HIDE DEF h
<1>12. \A n \in 1..Total : h[n] = h[n - 1] + Adds(n)
  BY <1>1, <1>10
<1>13. h[0] = 0
  BY <1>1, <1>10
<1>14. \A n \in 0..Total : h[n] \in Nat
  <2> SUFFICES ASSUME NEW n \in 0..Total PROVE h[n] \in Nat
    OBVIOUS
  <2> DEFINE U == {k \in 0..n : h[k] \in Nat}
  <2>1. 0 \in U
    BY <1>13
  <2>2. ASSUME NEW k \in U, k < n PROVE k + 1 \in U
    <3>1. k + 1 \in 1..Total /\ k + 1 \in 0..n /\ (k + 1) - 1 = k
      BY <1>1, <2>2
    <3>2. h[k + 1] = h[k] + Adds(k + 1)
      BY <1>12, <3>1
    <3> QED
      BY <1>1, <3>1, <3>2
  <2>3. n \in U
    <3>1. U \in SUBSET (0..n) /\ n \in Nat
      OBVIOUS
    <3> HIDE DEF U
    <3> QED
      BY <2>1, <2>2, <3>1, Climb
  <2> QED
    BY <2>3
<1> QED
  BY <1>11, <1>12, <1>13, <1>14 DEF Counts, h

(* Unwind data is laid out in order: whoever comes later starts behind it.    *)
LEMMA UnwindAreaGrows ==
  /\ \A f \in Fn : unwindArea[f - 1] \in Nat
  /\ \A f, g \in Fn : f < g /\ f \in Emitted => unwindArea[f - 1] + UnwindSize[f] <= unwindArea[g - 1]
<1> DEFINE h == unwindArea
<1>1. Total \in Nat /\ \A n \in 1..Total : Adds(n) \in Nat
  BY ImageAssumption, TableAssumption DEF Adds, Fn
<1>2. h \in [0..Total -> Nat] /\ \A n \in 1..Total : h[n] = h[n - 1] + Adds(n)
  BY UnwindAreaIs DEF Counts
<1> HIDE DEF h
<1>3. ASSUME NEW f \in Fn, NEW g \in Fn, f < g, f \in Emitted
      PROVE  h[f - 1] + UnwindSize[f] <= h[g - 1]
  <2>1. f \in 1..Total /\ g \in 1..Total /\ Adds(f) = UnwindSize[f]
    BY <1>3 DEF Fn, Adds
  <2>2. h[f] = h[f - 1] + UnwindSize[f]
    BY <1>2, <2>1
  <2> DEFINE n == (g - 1) - f
             U == {k \in 0..n : h[f] <= h[f + k]}
  <2>3. n \in Nat /\ 0 \in U
    BY <1>1, <1>2, <1>3, <2>1
  <2>4. ASSUME NEW k \in U, k < n PROVE k + 1 \in U
    <3>1. f + (k + 1) \in 1..Total /\ f + (k + 1) - 1 = f + k /\ k + 1 \in 0..n /\ f + k \in 0..Total
      BY <1>1, <1>3, <2>1, <2>4
    <3>2. h[f + (k + 1)] = h[f + k] + Adds(f + (k + 1))
      <4>1. PICK m \in 1..Total : m = f + (k + 1)
        BY <3>1
      <4>2. h[m] = h[m - 1] + Adds(m)
        BY <1>2
      <4>3. m - 1 = f + k
        <5>1. f \in Int /\ k \in Int
          BY <2>1
        <5> QED
          BY <4>1, <5>1
      <4> QED
        BY <4>1, <4>2, <4>3
    <3>3. h[f] \in Nat /\ h[f + k] \in Nat /\ Adds(f + (k + 1)) \in Nat
      <4>1. f \in 0..Total
        BY <1>1, <2>1
      <4> QED
        BY <1>1, <1>2, <3>1, <4>1
    <3>4. h[f] <= h[f + k]
      OBVIOUS
    <3> HIDE DEF n
    <3> QED
      BY <3>1, <3>2, <3>3, <3>4
  <2>5. n \in U
    <3>1. U \in SUBSET (0..n)
      OBVIOUS
    <3> HIDE DEF U, n
    <3> QED
      BY <2>3, <2>4, <3>1, Climb
  <2>6. f + n = g - 1
    BY <2>1
  <2> QED
    BY <2>2, <2>5, <2>6
<1>4. \A f \in Fn : h[f - 1] \in Nat
  BY <1>1, <1>2 DEF Fn
<1> QED
  BY <1>3, <1>4 DEF h

(* Where the bodies are when they are described.                              *)
LEMMA BodiesAre ==
  ASSUME IInv
  PROVE  /\ Base \in Nat /\ cursor \in Nat /\ Emitted \in SUBSET Fn
         /\ \A f \in Emitted : /\ Start(f) \in Nat /\ End(f) \in Nat /\ Base <= Start(f)
                               /\ Start(f) < End(f) /\ End(f) <= Base + cursor
         /\ \A f, g \in Emitted : f < g => End(f) <= Start(g)
<1>1. Typed /\ Written /\ Base \in Nat /\ cursor \in Nat
  BY ImageAssumption DEF IInv, Typed
<1>2. ASSUME NEW f \in Emitted
      PROVE  /\ bodies[f].offset \in Nat /\ bodies[f].len \in Nat /\ bodies[f].len > 0
             /\ bodies[f].offset + bodies[f].len <= cursor
  <2>1. f \in Fn /\ Emits(f) /\ f < Laid
    BY <1>1, EmittedIs
  <2>2. /\ bodies[f].offset \in Nat /\ bodies[f] = Body(f, bodies[f].offset)
        /\ bodies[f].offset + bodies[f].len <= cursor
    BY <1>1, <2>1 DEF Written
  <2>3. PICK at \in Nat : bodies[f] = Body(f, at)
    BY <2>2
  <2>4. program[f].len \in Nat /\ program[f].len > 0
    BY <1>1, <2>1, ProgramIs
  <2>5. /\ Body(f, at).len \in Nat
        /\ Body(f, at).len = program[f].len + (IF program[f].tail = Nowhere THEN 0
                                               ELSE IF Body(f, at).short THEN 2 ELSE 5)
    BY <1>1, <2>1, BodyIs
  <2>6. Body(f, at).len > 0
    BY <2>4, <2>5
  <2> QED
    BY <2>2, <2>3, <2>5, <2>6
<1>3. \A f, g \in Emitted : f < g => bodies[f].offset + bodies[f].len <= bodies[g].offset
  BY <1>1 DEF Written
<1>4. Emitted \in SUBSET Fn
  BY DEF Emitted
<1> QED
  BY <1>1, <1>2, <1>3, <1>4 DEF Start, End

(* Describing the bodies makes a table of them: the image's records end below *)
(* the new code, the bodies lie in it one behind the other.                   *)
LEMMA DescribeSorts ==
  ASSUME IInv, Describe
  PROVE  TableDescribesBodies'
<1> DEFINE own == {OwnRecord(f) : f \in Emitted}
           all == Records \cup own
<1>1. /\ Base \in Nat /\ cursor \in Nat /\ Emitted \in SUBSET Fn
      /\ \A f \in Emitted : /\ Start(f) \in Nat /\ End(f) \in Nat /\ Base <= Start(f)
                            /\ Start(f) < End(f) /\ End(f) <= Base + cursor
      /\ \A f, g \in Emitted : f < g => End(f) <= Start(g)
  BY BodiesAre
<1>2. bodies' = bodies /\ table' = ByAddress(all)
  BY DEF Describe
<1>3. Emitted' = Emitted /\ \A f : Start(f)' = Start(f) /\ End(f)' = End(f)
  BY <1>2 DEF Emitted, Start, End
<1>4. IsFiniteSet(Emitted) /\ \A f \in Emitted : f \in Nat
  <2>1. IsFiniteSet(Fn) /\ \A f \in Fn : f \in Nat
    BY ImageAssumption, FS_Interval DEF Fn
  <2>2. IsFiniteSet(Emitted)
    BY <1>1, <2>1, FS_Subset
  <2> QED
    BY <1>1, <2>1, <2>2
<1>5. \A f \in Emitted : /\ OwnRecord(f).begin = Start(f) /\ OwnRecord(f).end = End(f)
                         /\ OwnRecord(f).unwind = Base + cursor + unwindArea[f - 1]
  <2>1. \A f \in Emitted : /\ OwnRecord(f).begin = Start(f) /\ OwnRecord(f).end = End(f)
                           /\ OwnRecord(f).unwind = Base + UnwindAt(f)
    BY DEF OwnRecord
  <2>2. \A f \in Emitted : unwindArea[f - 1] \in Nat
    BY <1>1, UnwindAreaGrows
  <2> QED
    BY <1>1, <2>1, <2>2 DEF UnwindAt
<1>6. \A f, g \in Emitted : f # g => \/ OwnRecord(f).end <= OwnRecord(g).begin
                                     \/ OwnRecord(g).end <= OwnRecord(f).begin
  BY <1>1, <1>4, <1>5
<1>7. \A r \in own : r.begin \in Nat /\ r.end \in Nat /\ r.begin < r.end /\ Base <= r.begin
  BY <1>1, <1>5
<1>8. \A r \in Records : r.begin \in Nat /\ r.end \in Nat /\ r.begin < r.end /\ r.end <= Base
  BY TableAssumption
<1>9. \A r, s \in all : r = s \/ r.end <= s.begin \/ s.end <= r.begin
  <2>1. ASSUME NEW r \in Records, NEW s \in own PROVE r.end <= s.begin
    <3> HIDE DEF own
    <3> QED
      BY <1>1, <1>7, <1>8
  <2>2. \A r, s \in own : r = s \/ r.end <= s.begin \/ s.end <= r.begin
    BY <1>6
  <2>3. \A r, s \in Records : r = s \/ r.end <= s.begin \/ s.end <= r.begin
    BY TableAssumption
  <2> HIDE DEF own
  <2> QED
    BY <2>1, <2>2, <2>3
<1>10. IsFiniteSet(all) /\ Cardinality(all) = Cardinality(Records) + Cardinality(Emitted)
  <2> DEFINE h == [f \in Emitted |-> OwnRecord(f)]
  <2>1. h \in Surjection(Emitted, own)
    BY DEF Surjection
  <2>2. h \in Injection(Emitted, own)
    <3>1. \A f, g \in Emitted : OwnRecord(f) = OwnRecord(g) => f = g
      BY <1>1, <1>5, <1>6
    <3>2. h \in [Emitted -> own]
      OBVIOUS
    <3>3. \A f, g \in Emitted : h[f] = h[g] => f = g
      BY <3>1
    <3> HIDE DEF h, own
    <3> QED
      BY <3>2, <3>3 DEF Injection, IsInjective
  <2> HIDE DEF h
  <2>3. IsFiniteSet(own) /\ Cardinality(own) = Cardinality(Emitted)
    <3> HIDE DEF own
    <3> QED
      BY <1>4, <2>1, <2>2, FS_Surjection
  <2>4. Records \cap own = {}
    <3> HIDE DEF own
    <3> QED
      BY <1>1, <1>7, <1>8
  <2>5. IsFiniteSet(Records)
    BY TableAssumption
  <2> HIDE DEF own
  <2>6. IsFiniteSet(all) /\ Cardinality(all) = Cardinality(Records) + Cardinality(own) - Cardinality(Records \cap own)
    BY <2>3, <2>5, FS_Union
  <2>7. Cardinality(Records) \in Nat /\ Cardinality(own) \in Nat /\ Cardinality({}) = 0
    BY <2>3, <2>5, FS_CardinalityType, FS_EmptySet
  <2>8. Cardinality(all) = Cardinality(Records) + Cardinality(own) - 0
    BY <2>4, <2>6, <2>7
  <2> HIDE DEF all
  <2> QED
    BY <2>3, <2>6, <2>7, <2>8
<1> HIDE DEF own
<1>11. \A r \in all : r.begin \in Nat /\ r.end \in Nat /\ r.begin < r.end
  BY <1>7, <1>8
<1>12. PICK t : t = ByAddress(all)
  OBVIOUS
<1>13. /\ t \in Seq(all) /\ Len(t) = Cardinality(all) /\ DOMAIN t = 1..Cardinality(all)
       /\ \A i \in DOMAIN t : t[i] \in all
       /\ \A r \in all : \E i \in DOMAIN t : t[i] = r
       /\ \A i, j \in DOMAIN t : i < j => t[i].begin < t[j].begin
  <2>1. \A r, s \in all : r.begin = s.begin => r = s
    <3> HIDE DEF all
    <3> QED
      BY <1>9, <1>11
  <2> HIDE DEF all
  <2> QED
    BY <1>10, <1>11, <1>12, <2>1, ByAddressSorts
<1>14. ASSUME NEW i \in DOMAIN t, NEW j \in DOMAIN t, i < j PROVE t[i].end <= t[j].begin
  <2>1. t[i] \in all /\ t[j] \in all /\ t[i].begin < t[j].begin
    BY <1>13, <1>14
  <2>2. t[i] # t[j] /\ ~(t[j].end <= t[i].begin)
    <3> HIDE DEF all
    <3> QED
      BY <1>11, <2>1
  <2> HIDE DEF all
  <2> QED
    BY <1>9, <2>1, <2>2
<1>15. ASSUME NEW i \in DOMAIN t, NEW j \in DOMAIN t, j # i PROVE t[i].begin # t[j].begin
  <2>1. Cardinality(all) \in Nat
    BY <1>10, FS_CardinalityType
  <2>2. t[i].begin \in Nat /\ t[j].begin \in Nat
    BY <1>11, <1>13
  <2>3. i < j \/ j < i
    BY <1>13, <1>15, <2>1
  <2> HIDE DEF all
  <2> QED
    BY <1>13, <2>2, <2>3
<1>16. ASSUME NEW f \in Emitted
       PROVE  \E i \in DOMAIN t :
              /\ t[i].begin = Start(f) /\ t[i].end = End(f)
              /\ \A g \in Emitted : t[i].unwind >= End(g)
              /\ \A j \in DOMAIN t :
                    (j # i /\ t[j].begin >= Base) =>
                        \/ t[j].unwind >= t[i].unwind + UnwindSize[f]
                        \/ t[j].unwind < t[i].unwind
  <2>1. OwnRecord(f) \in all
    BY DEF own
  <2>2. PICK i \in DOMAIN t : t[i] = OwnRecord(f)
    BY <1>13, <2>1
  <2>3. t[i].begin = Start(f) /\ t[i].end = End(f) /\ t[i].unwind = Base + cursor + unwindArea[f - 1]
    BY <1>5, <2>2
  <2>4. /\ unwindArea[f - 1] \in Nat
        /\ \A g \in Emitted : unwindArea[g - 1] \in Nat
        /\ \A g \in Emitted : f < g => unwindArea[f - 1] + UnwindSize[f] <= unwindArea[g - 1]
        /\ \A g \in Emitted : g < f => unwindArea[g - 1] + UnwindSize[g] <= unwindArea[f - 1]
        /\ \A g \in Emitted : UnwindSize[g] \in Nat \ {0}
    BY <1>1, UnwindAreaGrows, TableAssumption
  <2>5. \A g \in Emitted : t[i].unwind >= End(g)
    BY <1>1, <2>3, <2>4
  <2>6. ASSUME NEW j \in DOMAIN t, j # i, t[j].begin >= Base
        PROVE  \/ t[j].unwind >= t[i].unwind + UnwindSize[f]
               \/ t[j].unwind < t[i].unwind
    <3>1. t[j] \in own
      <4>1. t[j] \in all /\ t[j] \notin Records
        BY <1>1, <1>8, <1>13, <2>6
      <4> QED
        BY <4>1
    <3>2. PICK g \in Emitted : t[j] = OwnRecord(g)
      BY <3>1 DEF own
    <3>3. t[j].unwind = Base + cursor + unwindArea[g - 1]
      BY <1>5, <3>2
    <3>4. g # f
      <4>1. t[i].begin # t[j].begin
        BY <1>15, <2>6
      <4> QED
        BY <2>2, <3>2, <4>1
    <3>5. f < g \/ g < f
      BY <1>4, <3>4
    <3> QED
      BY <1>1, <2>3, <2>4, <3>3, <3>5
  <2> QED
    BY <2>3, <2>5, <2>6
<1>17. table' = t
  BY <1>2, <1>12
<1>18. Len(t) = Cardinality(Records) + Cardinality(Emitted)
  BY <1>10, <1>13
<1> HIDE DEF all
<1> QED
  BY <1>3, <1>14, <1>16, <1>17, <1>18 DEF TableDescribesBodies

\* Nothing is described before its time.
Undescribed == step \in {"recover", "probe", "reset", "emit", "describe"} => table = <<>>

(* The function table describes the bodies: however many functions there are, *)
(* wherever they lie and however large their unwind data is, the table is in  *)
(* order, has one entry for each body, and no two share unwind data.          *)
THEOREM TableIsTrue == WriteSpec => []TableDescribesBodies
<1>1. WriteInit => Undescribed /\ TableDescribesBodies
  BY DEF WriteInit, Undescribed, TableDescribesBodies
<1>2. ASSUME IInv, Undescribed, TableDescribesBodies, [WriteNext]_imageVars
      PROVE  Undescribed' /\ TableDescribesBodies'
  <2>1. ASSUME table' = <<>>
        PROVE  TableDescribesBodies'
    BY <2>1 DEF TableDescribesBodies
  <2>2. ASSUME UNCHANGED <<table, bodies>>
        PROVE  TableDescribesBodies'
    <3>1. Emitted' = Emitted /\ \A f : Start(f)' = Start(f) /\ End(f)' = End(f)
      BY <2>2 DEF Emitted, Start, End
    <3> QED
      BY <1>2, <2>2, <3>1 DEF TableDescribesBodies
  <2>3. CASE \E f \in Fn : Recover(f)
    BY <1>2, <2>1, <2>3 DEF Recover, Undescribed
  <2>4. CASE Probe
    BY <1>2, <2>1, <2>4 DEF Probe, Undescribed
  <2>5. CASE Reset
    BY <1>2, <2>1, <2>5 DEF Reset, Undescribed
  <2>6. CASE Emit
    <3>1. step = "emit" /\ table' = table
      BY <2>6 DEF Emit
    <3> QED
      BY <1>2, <2>1, <3>1 DEF Undescribed
  <2>7. CASE Describe
    <3>1. step' = "patch"
      BY <2>7 DEF Describe
    <3> QED
      BY <1>2, <2>7, <3>1, DescribeSorts DEF Undescribed
  <2>8. CASE Patch
    <3>1. UNCHANGED <<table, bodies>> /\ step = "patch" /\ step' \in {"patch", "done"}
      BY <2>8 DEF Patch, Advance
    <3> QED
      BY <2>2, <3>1 DEF Undescribed
  <2>9. CASE UNCHANGED imageVars
    <3>1. UNCHANGED <<table, bodies, step>>
      BY <2>9 DEF imageVars
    <3> QED
      BY <1>2, <2>2, <3>1 DEF Undescribed
  <2> QED
    BY <1>2, <2>3, <2>4, <2>5, <2>6, <2>7, <2>8, <2>9 DEF WriteNext, AllPatched
<1> QED
  BY <1>1, <1>2, ImageInvariant, PTL DEF WriteSpec
=============================================================================
