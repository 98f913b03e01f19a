-------------------------- MODULE MCRegistryWatch --------------------------
(* RegistryWatch on a small instance.                                      *)
EXTENDS RegistryFeed

CONSTANTS a1, a2, c1

\* The runtime watches one of the Agents.
OneAgent == [c \in Clients |-> a1]
=============================================================================
