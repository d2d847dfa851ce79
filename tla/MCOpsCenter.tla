---------------------------- MODULE MCOpsCenter ----------------------------
(* One session, one ticket, as many requests as its clicks can use.  Requests *)
(* are taken in a fixed order, so no symmetry is needed.                     *)
EXTENDS OpsCenter

CONSTANTS t1, r1, r2, r3, r4

OneTicket == {t1}
FourRequests == {r1, r2, r3, r4}

MCIntents == {"billing", "lockout"}
MCScores == {95000}
=============================================================================
