--------------------------- MODULE MCTriageGraph ---------------------------
(* TriageGraph on a small instance: every label the classifier knows and one *)
(* it does not, scores on both sides of the threshold and of the rounding    *)
(* tie, and one re-run of the thread.                                        *)
EXTENDS TriageGraph

MCIntents == {"billing", "bug", "feature", "lockout", "unknown"}

\* 0.69994 rounds down, 0.69995 is the tie, 0.69996 rounds up; 1.0 without
\* context is 0.65.
MCScores == {0, 69994, 69995, 69996, 100000}
=============================================================================
