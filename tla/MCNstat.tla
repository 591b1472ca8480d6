------------------------------- MODULE MCNstat -------------------------------
(* Nstat with two concurrent runs, one or two counters and two inodes.     *)
EXTENDS Nstat, TLC
CONSTANTS p1, p2, f1, f2, c1, c2
Symm == Permutations(Procs) \cup Permutations(Files) \cup Permutations(Counters)
=============================================================================
