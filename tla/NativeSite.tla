----------------------------- MODULE NativeSite ------------------------------
(***************************************************************************)
(* codegen/emit.rs at the instructions that name fixed registers: a call   *)
(* (`emit_call_args`, `emit_call`), a boxed instruction with a memory      *)
(* operand (`emit_call_args`, `emit_boxed`), and one that leaves results   *)
(* in fixed registers (`emit_call_args`, `emit_boxed`, `emit_boxed_defs`). *)
(*                                                                         *)
(* Locations are the ones the allocator gives: values live across the site *)
(* are in registers it does not destroy (SurvivesClobbers of LinearScan),  *)
(* results have homes of their own, and everything the instruction reads   *)
(* may be anywhere.  A value is named by the place that held it at first.  *)
(***************************************************************************)
EXTENDS CopyLoop, Functions

CONSTANTS InputReg,     \* kind of site -> the registers it may read implicitly
          ResultReg,    \* the registers a boxed instruction leaves results in
          Volatile,     \* the ones a call destroys, candidates for the address
          Rax           \* the one borrowed when none is free

ASSUME SiteAssumption == /\ DOMAIN InputReg = {"call", "memory", "results"}
                         /\ \A k \in DOMAIN InputReg : InputReg[k] \subseteq Reg
                         /\ ResultReg \subseteq Reg
                         /\ Rax \in Volatile /\ Volatile \subseteq Reg

\* ARG_REGS are volatile: rcx, rdx, r8 and r9.
ASSUME ArgumentAssumption == InputReg["call"] \subseteq Volatile

VARIABLES site,     \* the kind of site
          inputs,   \* input register -> where its value is, or None
          pointer,  \* where the call target or the operand's address is, or None
          named,    \* input registers the encoding's memory operand names
          live,     \* registers of values read again after the site
          homes,    \* result register -> where the result belongs
          direct,   \* inputs still to be loaded after the copies
          unstored, \* results still to be stored
          base,     \* the register the memory operand was redirected to
          parked,   \* the frame's scratch slot
          read,     \* what the inputs held when the instruction ran
          reached,  \* what was called or accessed
          phase

problem == <<site, inputs, pointer, named, live, homes>>
vars == <<copyVars, problem, direct, unstored, base, parked, read, reached, phase>>

Result(r) == <<"result", r>>
Junk == <<"junk">>
Content == Place \cup {Result(r) : r \in ResultReg} \cup {Junk}

\* No value of the block is junk.
ASSUME JunkAssumption == Junk \notin Place

Input == DOMAIN inputs
Used(f) == {r \in DOMAIN f : f[r] # None}

-----------------------------------------------------------------------------
\* What the allocator takes to be destroyed: `clobber_points`.
Destroyed(kind, f) == CASE kind = "call"    -> Volatile
                        [] kind = "memory"  -> Used(f)
                        [] kind = "results" -> Used(f) \cup ResultReg

\* An indirect call resolves to a register or a slot; an address may be anything.
PointerAt(kind) == CASE kind = "call"    -> Reg \cup Mem
                     [] kind = "memory"  -> Place
                     [] kind = "results" -> {None}

Homes(kind, occupied) ==
    IF kind = "results"
    THEN {h \in [ResultReg -> (Reg \ occupied) \cup Mem] :
             \A r, s \in ResultReg : h[r] = h[s] => r = s}
    ELSE {<<>>}

Init == /\ site \in DOMAIN InputReg
        /\ inputs \in [InputReg[site] -> Place \cup {None}]
        /\ pointer \in PointerAt(site)
        /\ named \in IF site = "memory" THEN SUBSET Used(inputs) ELSE {{}}
        /\ live \in SUBSET (Reg \ Destroyed(site, inputs))
        /\ homes \in Homes(site, live)
        /\ pending = FromRegs(inputs)
        /\ direct = {r \in Used(inputs) : inputs[r] \notin Reg}
        /\ unstored = {}
        /\ base = None /\ parked = Junk
        /\ read = <<>> /\ reached = None
        /\ machine = [p \in Place |-> p]
        /\ phase = "inputs"

-----------------------------------------------------------------------------
(* emit_call_args *)

Copy == /\ phase = "inputs"
        /\ CopyStep(FALSE)
        /\ UNCHANGED <<problem, direct, unstored, base, parked, read, reached, phase>>

\* Immediates and reloads, once the copies are done.
Load(r) == /\ phase = "inputs" /\ Todo = {}
           /\ direct' = direct \ {r}
           /\ machine' = [machine EXCEPT ![r] = machine[inputs[r]]]
           /\ UNCHANGED <<problem, pending, unstored, base, parked, read, reached, phase>>

InputsReady == phase = "inputs" /\ Todo = {} /\ direct = {}

-----------------------------------------------------------------------------
(* emit_boxed: the address of a memory operand *)

\* Mutation: only what the instruction itself reads counts.
FreeHere == Volatile \ (named \cup {pointer} \cup {inputs[r] : r \in Input})

\* `free_volatile_at`: no value read here or later is in it.
FreeVolatile == Volatile \ (live \cup named \cup {pointer} \cup {inputs[r] : r \in Input})

\* The base is a free register, whichever comes first, or rax parked in the frame.
Address == /\ InputsReady /\ site = "memory"
           /\ base' \in IF FreeVolatile = {} THEN {Rax} ELSE FreeVolatile
           /\ parked' = IF FreeVolatile = {} THEN machine[Rax] ELSE parked
           /\ machine' = [machine EXCEPT ![base'] = machine[pointer]]
           /\ phase' = "addressed"
           /\ UNCHANGED <<problem, pending, direct, unstored, read, reached>>

-----------------------------------------------------------------------------
(* The instruction *)

\* What it finds in its registers.
Reads == read' = [r \in Used(inputs) |-> machine[r]]

Call == /\ InputsReady /\ site = "call"
        /\ Reads
        /\ reached' = machine[pointer]
        /\ machine' = [p \in Place |-> IF p \in Volatile THEN Junk ELSE machine[p]]
        /\ phase' = "done"
        /\ UNCHANGED <<problem, pending, direct, unstored, base, parked>>

Restored == machine' = IF parked = Junk THEN machine ELSE [machine EXCEPT ![Rax] = parked]

Access == /\ phase = "addressed"
          /\ Reads
          /\ reached' = machine[base]
          /\ Restored
          /\ phase' = "done"
          /\ UNCHANGED <<problem, pending, direct, unstored, base, parked>>

\* The results appear; `emit_boxed_defs` sorts them into stores and copies.
Produce == /\ InputsReady /\ site = "results"
           /\ Reads
           /\ machine' = [p \in Place |-> IF p \in ResultReg THEN Result(p) ELSE machine[p]]
           /\ unstored' = {r \in ResultReg : homes[r] \in Mem}
           /\ pending' = FromRegs(AntiFunction(homes))
           /\ phase' = "results"
           /\ UNCHANGED <<problem, direct, base, parked, reached>>

-----------------------------------------------------------------------------
(* emit_boxed_defs *)

Store(r) == /\ phase = "results"
            /\ unstored' = unstored \ {r}
            /\ machine' = [machine EXCEPT ![homes[r]] = machine[r]]
            /\ UNCHANGED <<problem, pending, direct, base, parked, read, reached, phase>>

\* Mutation: the copies do not wait for the stores.
PlaceEarly == /\ phase = "results"
              /\ CopyStep(TRUE)
              /\ UNCHANGED <<problem, direct, unstored, base, parked, read, reached, phase>>

Settle == /\ phase = "results" /\ unstored = {}
          /\ CopyStep(TRUE)
          /\ UNCHANGED <<problem, direct, unstored, base, parked, read, reached, phase>>

Settled == /\ phase = "results" /\ unstored = {} /\ Todo = {}
           /\ phase' = "done"
           /\ UNCHANGED <<copyVars, problem, direct, unstored, base, parked, read, reached>>

Done == phase = "done" /\ UNCHANGED vars

Next == \/ Copy \/ (\E r \in direct : Load(r)) \/ Address
        \/ Call \/ Access \/ Produce
        \/ (\E r \in unstored : Store(r)) \/ Settle \/ Settled
        \/ Done

\* Emission and the code it emits are sequential.
Spec == Init /\ [][Next]_vars /\ WF_vars(Next)

-----------------------------------------------------------------------------
TypeOK == /\ inputs \in [InputReg[site] -> Place \cup {None}]
          /\ pending \in [Reg -> Reg \cup {None}]
          /\ machine \in [Place -> Content]
          /\ direct \subseteq Input /\ unstored \subseteq ResultReg
          /\ base \in Reg \cup {None} /\ parked \in Content
          /\ \A r \in DOMAIN read : read[r] \in Content
          /\ reached \in Content \cup {None}
          /\ phase \in {"inputs", "addressed", "results", "done"}

(* The instruction finds in each register it reads implicitly the value that  *)
(* was to be there, whatever the other operands were and wherever they were.  *)
(* The register chosen for a memory operand's address is excepted: nothing    *)
(* keeps it from being one the instruction reads without naming it.           *)
InputsDelivered == \A r \in DOMAIN read \ {base} : read[r] = inputs[r]

(* Nothing a later instruction reads is disturbed: neither the shuffles, nor  *)
(* an exchange, nor borrowing rax leaves a trace in a live register.          *)
OthersKept == phase = "done" => \A r \in live \ {homes[s] : s \in DOMAIN homes} : machine[r] = r

(* Every result is in its home in the end, though homes and result registers  *)
(* may be any permutation of each other.                                      *)
ResultsHome == phase = "done" => \A r \in DOMAIN homes : machine[homes[r]] = Result(r)

(* The list of copies runs empty, so code generation ends. *)
SiteEnds == <>(phase = "done")

(* "Kept explicit rather than guessed, since a fabricated target would        *)
(* produce code that calls the wrong address": what is called or accessed is  *)
(* what the operand said.                                                     *)
PointerIntact == reached # None => reached = pointer

(* The exception InputsDelivered makes is not made. *)
BaseSparesInputs == \A r \in DOMAIN read : read[r] = inputs[r]
=============================================================================
