------------------------------- MODULE MCAgent -------------------------------
(* Agent for TLC: nothing tells two processes, or two keys, apart. *)
EXTENDS Agent, TLC

Permutable == Permutations(Procs) \cup Permutations(Keys)
=============================================================================
