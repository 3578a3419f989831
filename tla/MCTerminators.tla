--------------------------- MODULE MCTerminators --------------------------
(* rax, rcx, rdx, rbx and rsp by their numbers in the `Reg` enum, and two    *)
(* immovable sources: every permutation (4-cycles, 3-cycles, pairs of        *)
(* 2-cycles), trees hanging off them, and registers that take no value.  rdx *)
(* is preceded by a register that is not returned, which rax is not, and     *)
(* stands for r11 at a switch.  The tables of a switch have distinct arms,   *)
(* a repeated arm, an arm outside the code, and too few arms to be a switch. *)
EXTENDS Terminators

MCReg == 0..4
MCVolatile == 0..2
MCCalleeSaved == {3}
MCArms == {<<"a", "b", "c">>, <<"a", "a", "b">>, <<"a", NotCode, "b">>, <<"b", "b">>}
=============================================================================
