----------------------------- MODULE MCGateway -----------------------------
(* A gateway that allows two requests per minute, one token every 30 seconds. *)
EXTENDS Gateway, TLC

CONSTANTS a1, a2, r1, r2, r3, r4

MCAddresses == {a1, a2}
MCRequests == {r1, r2, r3, r4}
Symmetry == Permutations(MCAddresses) \cup Permutations(MCRequests)
=============================================================================
