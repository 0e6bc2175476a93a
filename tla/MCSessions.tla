----------------------------- MODULE MCSessions -----------------------------
(* Bounds for TLC: interchangeable goroutines, handlers and connections. *)
EXTENDS Sessions, TLC

Symmetry == Permutations(Gos) \cup Permutations(Handlers) \cup Permutations(Conns)
=============================================================================
