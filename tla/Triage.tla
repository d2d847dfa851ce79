------------------------------- MODULE Triage -------------------------------
(***************************************************************************)
(* What the triage graph promises of one ticket, with no node, retry, tool *)
(* or retrieval in sight: the run gathers evidence and either decides or   *)
(* fails, and the decision is the one the evidence allows.  Stated from    *)
(* graph/nodes/supervisor.py, lockout_agent.py and graph/llm.py; the run   *)
(* of TriageGraph implements it.                                           *)
(***************************************************************************)
EXTENDS Integers

CONSTANT Scores           \* confidences the classifier may answer with

VARIABLES outcome, evidence

vars == <<outcome, evidence>>

Outcomes == {"pending", "auto_approved", "escalated", "failed"}

\* lockout: the ticket went down the account-lockout path; grounded: the reply
\* rests on retrieved context; classified: the classifier answered, with score.
Evidence == [lockout : BOOLEAN, grounded : BOOLEAN, classified : BOOLEAN,
             score : Scores \cup {0}]

NoEvidence == [lockout |-> FALSE, grounded |-> FALSE, classified |-> FALSE, score |-> 0]

Threshold == 70000
\* The score is rounded to four decimals before it meets the threshold, so
\* 0.69995 is a tie that may be rounded either way.
RoundingSlack == 5

MayAutoApprove(e) ==
    /\ ~e.lockout
    /\ e.grounded
    /\ e.classified
    /\ e.score >= Threshold - RoundingSlack

MayEscalate(e) ==
    \/ ~MayAutoApprove(e)
    \/ e.score <= Threshold - RoundingSlack

Init == outcome = "pending" /\ evidence = NoEvidence

AutoApprove == /\ outcome = "pending"
               /\ evidence' \in {e \in Evidence : MayAutoApprove(e)}
               /\ outcome' = "auto_approved"

Escalate == /\ outcome = "pending"
            /\ evidence' \in {e \in Evidence : MayEscalate(e)}
            /\ outcome' = "escalated"

Fail == /\ outcome = "pending"
        /\ outcome' = "failed"
        /\ UNCHANGED evidence

\* The stream of the ticket is opened again and the graph starts over.
Reopen == /\ outcome # "pending"
          /\ outcome' = "pending"
          /\ evidence' = NoEvidence

Decide == AutoApprove \/ Escalate

Next == Decide \/ Fail \/ Reopen

Safety == Init /\ [][Next]_vars

Spec == Safety /\ WF_vars(Decide \/ Fail)
=============================================================================
