-------------------------- MODULE MC_EventKernel --------------------------
(* An instance of EventKernel.                                             *)
EXTENDS EventKernel

CONSTANTS p1, p2
=============================================================================
