---------------------------- MODULE MC_MacThreads ----------------------------
(* MacThreads on small sets of threads and lock objects. *)
EXTENDS MacThreads
=============================================================================
