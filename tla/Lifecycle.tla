----------------------------- MODULE Lifecycle -----------------------------
(***************************************************************************)
(* The life of a ticket as app/persistence.py:19 tells it: "status         *)
(* advances pending -> running -> done|error|closed", with the operator's  *)
(* approval (line 24) given as it closes and never taken back.  Two steps  *)
(* are added that the sentence leaves open: a run that failed may be tried *)
(* again, and a finished one may still fail while its state is read for    *)
(* the done frame (main.py:202-211).                                       *)
(* The service alone does not keep to it (TicketService: ClosedIsFinal,    *)
(* ApprovalSticks); a session of the operations center over it does.       *)
(***************************************************************************)
CONSTANT Tickets

VARIABLES
    life,       \* ticket -> its status
    granted     \* tickets the operator has approved

vars == <<life, granted>>

Init == life = [t \in Tickets |-> "absent"] /\ granted = {}

Advance(t, from, to) ==
    /\ life[t] \in from
    /\ life' = [life EXCEPT ![t] = to]

Create(t) == Advance(t, {"absent"}, "pending") /\ UNCHANGED granted

Run(t) == Advance(t, {"pending", "running", "error"}, "running") /\ UNCHANGED granted

Complete(t) == Advance(t, {"running"}, "done") /\ UNCHANGED granted

Fail(t) == Advance(t, {"running", "done"}, "error") /\ UNCHANGED granted

Approve(t) == Advance(t, {"done"}, "closed") /\ granted' = granted \cup {t}

Next == \E t \in Tickets : Create(t) \/ Run(t) \/ Complete(t) \/ Fail(t) \/ Approve(t)

Spec == Init /\ [][Next]_vars
=============================================================================
