---------------------------- MODULE MCDesignProxy ----------------------------
(* Instances of DesignProxy for TLC: the worker threads are alike.         *)
EXTENDS DesignProxy, TLC

Symmetry == Permutations(Threads)
=============================================================================
