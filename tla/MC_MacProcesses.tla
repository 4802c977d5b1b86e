--------------------------- MODULE MC_MacProcesses ---------------------------
(* MacProcesses on a few processes, threads and locks. *)
EXTENDS MacForks
=============================================================================
