---------------------------- MODULE MCNativeSite -----------------------------
(* Five of the registers, of which rbx is preserved by calls.  Three          *)
(* arguments, two implicit inputs and three results make every shape of copy: *)
(* trees, 2-cycles, 3-cycles, and cycles beside loads.                        *)
EXTENDS NativeSite

CONSTANTS rax, rcx, rdx, rbx, r8

MCReg == {rax, rcx, rdx, rbx, r8}
MCVolatile == {rax, rcx, rdx, r8}
MCInputReg == [call |-> {rcx, rdx, r8}, memory |-> {rax, rdx}, results |-> {rax, rcx}]
MCResultReg == {rax, rcx, rdx}
=============================================================================
