----------------------------- MODULE MCStartup -----------------------------
(* Startup with persistence enabled and two tickets. *)
EXTENDS Startup

CONSTANTS t1, t2

MCTickets == {t1, t2}
=============================================================================
