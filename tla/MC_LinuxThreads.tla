-------------------------- MODULE MC_LinuxThreads --------------------------
(* LinuxWait with three threads, two words and the values 0 to 2. *)
EXTENDS LinuxWait
=============================================================================
