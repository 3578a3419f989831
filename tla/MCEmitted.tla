------------------------------- MODULE MCEmitted ------------------------------
(* The code of a block: its boundary and terminator, as in MCTerminators;    *)
(* and, in behaviours of their own, its instructions, with five volatile     *)
(* registers and a preserved one, and every choice of what they hold.        *)
EXTENDS MCTerminators, MCEmission

VARIABLE part   \* which of them

\* Nothing is emitted while the boundary runs.
BodyRests == /\ instr = CHOOSE i \in Uns : TRUE
             /\ home = [o \in {"a", "d"} |-> "rbx"] /\ live = {} /\ memory = <<>> /\ contents = <<>> /\ phase = "rest"

\* A block without exits.
BoundaryRests == /\ exits = [r \in Reg |-> NoLoc] /\ Init
                 /\ term = [kind |-> "none"] /\ cpu = <<>>

PartInit == \/ part = "boundary" /\ TInit /\ BodyRests
            \/ part = "body" /\ EmitInit /\ BoundaryRests

PartNext == \/ part = "boundary" /\ TNext /\ UNCHANGED <<part, emitVars>>
            \/ part = "body" /\ EmitNext /\ UNCHANGED <<part, tvars>>

PartSpec == PartInit /\ [][PartNext]_<<part, tvars, emitVars>>
===============================================================================
