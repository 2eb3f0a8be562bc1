----------------------------- MODULE MCToolPath -----------------------------
(* A small instance of the tool path for TLC.                              *)
EXTENDS ToolPath, TLC

\* Payloads 1 and 2 collide.
Collide(p) == p \div 3

AnyCaller == Permutations(Callers)
=============================================================================
