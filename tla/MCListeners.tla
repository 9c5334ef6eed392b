----------------------------- MODULE MCListeners -----------------------------
(* Instances of Listeners for TLC. *)
EXTENDS Listeners, TLC

\* Goroutines are interchangeable, and so are ids that are given out in any order.
Alike == Permutations(Procs) \cup Permutations(Proxies)
=============================================================================
