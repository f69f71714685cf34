------------------------- MODULE MC_AttachRegistry -------------------------
(* An instance of AttachRegistry: three attaches of one client view and    *)
(* one that sent no client_instance_id.                                    *)
EXTENDS AttachRegistry, TLC

CONSTANTS a1, a2, a3, a4, k1

MCKeyOf == [a \in Attaches |-> IF a = a4 THEN NoKey ELSE k1]

MCSymmetry == Permutations({a1, a2, a3})
=============================================================================
