---------------------------- MODULE MCLifecycle -----------------------------
(* Lifecycle on a small instance.                                            *)
EXTENDS Lifecycle, TLC

Symmetry == Permutations(Process) \cup Permutations(Path)
=============================================================================
