-------------------------- MODULE MC_RelayAttach --------------------------
(* An instance of RelayAttach: two attaches of one client view.            *)
EXTENDS RelayAttach

CONSTANTS a1, a2, k1

MCKeyOf == [a \in Attaches |-> k1]
=============================================================================
