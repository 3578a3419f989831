---------------------------- MODULE MCLowering ----------------------------
(* A diamond with a loop on one side; a loop; a loop left from two places. *)
EXTENDS Lowering

MCReg == 0..1
MCBlock == 0..3
SideLoop == [b \in MCBlock |-> CASE b = 0 -> {1, 2} [] b = 1 -> {1, 3} [] b = 2 -> {3} [] OTHER -> {}]
Loop     == [b \in MCBlock |-> CASE b = 0 -> {1} [] b = 1 -> {2, 3} [] b = 2 -> {1} [] OTHER -> {}]
Triangle == [b \in MCBlock |-> CASE b = 0 -> {1} [] b = 1 -> {2, 3} [] b = 2 -> {1, 3} [] OTHER -> {}]
TwoGraphs == {SideLoop, Loop}
OneGraph == {Triangle}
=============================================================================
