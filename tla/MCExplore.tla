---------------------------- MODULE MCExplore -----------------------------
(* `pass`: three blocks whose forks and tables make loops, diamonds,         *)
(* self-loops, repeated arms and forks with one target, both budgets able to *)
(* run out at any task, and any block below a cut able to stop differently.  *)
EXTENDS Explore

MCId == 0..2
MCNative == {<<1, 2>>, <<0, 2>>}
MCSymbolic == {<<1, 1>>, <<2, 2>>}
MCTables == {<<1, 2, 1>>}

\* `preds`: with a fourth block nothing leads back to the entry, whose identity
\* has no bytecode position and which only code the VM did not touch can reach
\* again.
FourIds == 0..3
Onward == {<<1, 2>>, <<2, 3>>}
OnwardSymbolic == {<<2, 2>>, <<3, 1>>}
NoTables == {}
=============================================================================
