---------------------------- MODULE MCFileRotate ----------------------------
(* The rotating file handler for TLC; the instances are in the cfg files. *)
EXTENDS FileRotate
=============================================================================
