---------------------------- MODULE MC_KernelHeap ----------------------------
(* KernelHeap with small regions. *)
EXTENDS KernelHeap
=============================================================================
