-------------------------- MODULE MCTicketService --------------------------
(* TicketService on one ticket and a few requests.  Requests and tickets are *)
(* model values; requests are interchangeable.                               *)
EXTENDS TicketService, TLC

CONSTANTS t1, r1, r2, r3, r4

MCTickets == {t1}
TwoRequests == {r1, r2}
ThreeRequests == {r1, r2, r3}
FourRequests == {r1, r2, r3, r4}
Symmetry == Permutations(Requests)

MCIntents == {"billing", "lockout"}
MCScores == {95000}
=============================================================================
