----------------------------- MODULE MCCallSite -----------------------------
(* One place of the program for TLC; the instances are in the cfg files. *)
EXTENDS CallSite
=============================================================================
