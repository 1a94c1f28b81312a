----------------------------- MODULE MCBackend -----------------------------
EXTENDS Backend, TLC

(* Threads are interchangeable: no action orders them. *)
ThreadSymmetry == Permutations(Threads)
=============================================================================
