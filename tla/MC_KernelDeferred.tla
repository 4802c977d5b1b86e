------------------------- MODULE MC_KernelDeferred --------------------------
(* KernelDeferred with small bounds. *)
EXTENDS KernelDeferred
=============================================================================
