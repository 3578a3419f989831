------------------------------- MODULE MCBackend -------------------------------
(***************************************************************************)
(* The back end below the terminators, each part in behaviours of its own: *)
(*                                                                         *)
(* site: MCNativeSite.                                                     *)
(*                                                                         *)
(* scan: every block of three instructions over two volatile registers and *)
(* one preserved one, so that values compete for registers, spill slots    *)
(* are reused, and entry values have to leave registers that are           *)
(* destroyed.                                                              *)
(*                                                                         *)
(* traffic: one spill slot, one saved register, and a callee's shadow      *)
(* space below them.  The second block has up to two instructions, so that *)
(* two that park rax follow each other, also around a loop; the shapes are *)
(* straight, an inner loop, a skipped block, an outer loop, and one that   *)
(* never returns.                                                          *)
(*                                                                         *)
(* image: MCWriteback.                                                     *)
(***************************************************************************)
EXTENDS MCNativeSite, LinearScan, MCWriteback, FrameTraffic

VARIABLE part   \* which of them

-----------------------------------------------------------------------------
MCAllocatable == 0..2
MCCallDestroys == {0, 1}
MCBoxedWrites == {{0}, {2}}
\* Never read, read by the first or the last instruction, or an exit.
MCEntryLast == {0, 1, 3, 4}

-----------------------------------------------------------------------------
OneOfEach == [spills |-> 1, saves |-> 1, args |-> 0, calls |-> TRUE, lo |-> 0]

Fall == [op |-> "fall"]
Ret == [op |-> "ret"]
Jcc(b) == [op |-> "jcc", to |-> b]
Jmp(b) == [op |-> "jmp", to |-> b]

Straight == <<Fall, Fall, Ret>>
InnerLoop == <<Fall, Jcc(2), Ret>>
Skip == <<Jcc(3), Fall, Ret>>
OuterLoop == <<Fall, Jcc(1), Ret>>
NoReturn == <<Fall, Fall, Jmp(2)>>

MCEntries == {<<u>> : u \in {FreeDef(8), SpilledDef("rbx", 8), SpilledDef("rbx", 4), UseRax}}
MCBodies == {<<u>> : u \in Units} \cup {<<u, v>> : u \in Units, v \in Units}
MCTails == {<<>>} \cup {<<u>> : u \in {UseSlot(8), UseSlot(4), UseRax, RelocatedUse}}
MCShapes == {Straight, InnerLoop, Skip, OuterLoop, NoReturn}

ASSUME TrafficAssumption == Given

-----------------------------------------------------------------------------
SiteRests ==
    /\ site = "call" /\ inputs = <<>> /\ pointer = None /\ named = {} /\ live = {} /\ homes = <<>>
    /\ pending = <<>> /\ machine = <<>> /\ direct = {} /\ unstored = {}
    /\ base = None /\ parked = Junk /\ read = <<>> /\ reached = None /\ phase = "rest"

ScanRests ==
    /\ kind = <<>> /\ last = <<>> /\ todo = {} /\ busy = <<>> /\ segs = <<>> /\ slots = <<>> /\ claimed = {}
    /\ stage = "rest" /\ pos = 0 /\ copied = {} /\ regfile = <<>>

TrafficRests ==
    /\ code = <<>> /\ dead = {} /\ cut = {} /\ rounds = 0 /\ mode = "rest" /\ pc = 0 /\ lap = 0
    /\ before = <<>> /\ after = <<>>

ImageRests ==
    /\ program = <<>> /\ prepared = {} /\ step = "rest" /\ next = 0 /\ redirect = <<>> /\ cursor = 0
    /\ bodies = <<>> /\ report = <<>> /\ table = <<>> /\ patches = <<>>

PartInit ==
    \/ part = "site" /\ Init /\ ScanRests /\ TrafficRests /\ ImageRests
    \/ part = "scan" /\ ScanInit /\ SiteRests /\ TrafficRests /\ ImageRests
    \/ part = "traffic" /\ FInit /\ SiteRests /\ ScanRests /\ ImageRests
    \/ part = "image" /\ WriteInit /\ SiteRests /\ ScanRests /\ TrafficRests

PartNext ==
    \/ part = "site" /\ Next /\ UNCHANGED <<part, scanVars, fvars, imageVars>>
    \/ part = "scan" /\ ScanNext /\ UNCHANGED <<part, vars, fvars, imageVars>>
    \/ part = "traffic" /\ FNext /\ UNCHANGED <<part, vars, scanVars, imageVars>>
    \/ part = "image" /\ WriteNext /\ UNCHANGED <<part, vars, scanVars, fvars>>

PartSpec == PartInit /\ [][PartNext]_<<part, vars, scanVars, fvars, imageVars>>
===============================================================================
