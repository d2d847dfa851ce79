-------------------------- MODULE MCKnowledgeBase --------------------------
(* Two billing parents of three and two children and a technical one; an      *)
(* edited corpus too small for the gate.  One query finds all children of      *)
(* the first parent before any of the second, the other goes back and forth.  *)
EXTENDS KnowledgeBase, TLC

CONSTANTS i1, i2, q1, q2

Child(parent, n, domain) == [parent |-> parent, child |-> n, domain |-> domain]
A(n) == Child("refunds", n, Billing)
B(n) == Child("invoices", n, Billing)
C(n) == Child("api", n, Technical)

Seeded == <<A(1), A(2), A(3), B(1), B(2), C(1)>>
Edited == <<B(1), B(2), C(1)>>
MCChunks == Range(Seeded)
MCCorpora == {Seeded, Edited}
MCRankings == {
    <<A(1), A(2), A(3), B(1), B(2), C(1)>>,
    <<C(1), B(2), A(1), B(1), A(3), A(2)>> }

MCIngests == {i1, i2}
MCLookups == {q1, q2}
OneLookup == {q1}
Symmetry == Permutations(MCIngests) \cup Permutations(MCLookups)
=============================================================================
