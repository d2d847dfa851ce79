---------------------------- MODULE TriageNodes ----------------------------
(***************************************************************************)
(* The AgentState channels threaded through the LangGraph triage graph     *)
(* (shared/schemas/agent_state.py) and what each node of                   *)
(* services/orchestrator/graph writes to them.  Every operator is pure: a  *)
(* node is a function of the state it was given that returns the channels  *)
(* it updates.                                                             *)
(*                                                                         *)
(* Text is abstracted.  The context chunks are the set of knowledge-base   *)
(* indices that returned at least one chunk; a draft is its author and the *)
(* account facts it states; a log line is its tag.  A confidence is an     *)
(* integer number of hundred-thousandths, so that rounding to four decimal *)
(* places is visible.                                                      *)
(***************************************************************************)
EXTENDS Integers, Sequences

Unit == 100000                    \* the confidence 1.0
CONFIDENCE_THRESHOLD == 70000     \* supervisor.py: 0.70

Workers == {"billing_agent", "bug_agent", "feature_agent", "lockout_agent"}

NoIntent == "no_intent"           \* Python's None in the intent channel
Nobody == "nobody"                \* the author of the draft None

Draft(author, facts) == [author |-> author, facts |-> facts]
NoDraft == Draft(Nobody, {})

-----------------------------------------------------------------------------
(* Entering and leaving the graph *)

\* AgentState(ticket_id=..., raw_issue_text=..., company_id=...): the defaults.
NewState ==
    [ intent               |-> NoIntent,
      retrieved_context    |-> {},
      agent_draft_response |-> NoDraft,
      confidence_score     |-> 0,
      requires_escalation  |-> FALSE,
      execution_logs       |-> <<>> ]

\* Mutations of WriteInput: a channel with an adding reducer survives the input.
WriteInputKeepsContext(old) ==
    [NewState EXCEPT !.intent = old.intent,
                     !.agent_draft_response = old.agent_draft_response,
                     !.retrieved_context = old.retrieved_context]
WriteInputKeepsLogs(old) ==
    [NewState EXCEPT !.intent = old.intent,
                     !.agent_draft_response = old.agent_draft_response,
                     !.execution_logs = old.execution_logs]

\* The input of a run, written over what the ticket's thread already holds.
\* LangGraph skips a None whose field defaults to None: the intent and the
\* draft of an earlier run stay until a node overwrites them.
WriteInput(old) ==
    [NewState EXCEPT !.intent = old.intent,
                     !.agent_draft_response = old.agent_draft_response]

-----------------------------------------------------------------------------
(* classify and route_by_intent *)

Classified(s, intent, score) ==
    [s EXCEPT !.intent = intent,
              !.confidence_score = score,
              !.execution_logs = Append(@, "classified")]

\* The degraded return value after the last attempt.
ClassifyFailed(s) ==
    [s EXCEPT !.intent = NoIntent,
              !.confidence_score = 0,
              !.execution_logs = Append(@, "classify_failed")]

\* A mutation of RouteByIntent: no default for a label nobody knows.
RouteByLabel(s) ==
    CASE s.intent = "billing" -> "billing_agent"
      [] s.intent = "bug"     -> "bug_agent"
      [] s.intent = "feature" -> "feature_agent"
      [] s.intent = "lockout" -> "lockout_agent"
      [] OTHER                -> s.intent

RouteByIntent(s) ==
    CASE s.intent = "bug"     -> "bug_agent"
      [] s.intent = "feature" -> "feature_agent"
      [] s.intent = "lockout" -> "lockout_agent"
      [] OTHER                -> "billing_agent"

-----------------------------------------------------------------------------
(* combine_confidence: clamp, multiply by the grounding factor, round       *)

Clamp(c) == IF c < 0 THEN 0 ELSE IF c > Unit THEN Unit ELSE c

\* A mutation of GroundingPercent: the penalty is forgotten.
NoPenalty(hasContext) == 100

GroundingPercent(hasContext) == IF hasContext THEN 100 ELSE 65

\* A mutation of Round4: round up.
Round4Up(x) == {10 * ((x + 999) \div 1000)}

\* x counts ten-millionths (10^-7); the result counts hundred-thousandths and
\* is a multiple of 10^-4.  Which way a tie goes depends on the binary
\* expansion of the float, so both neighbours are possible.
Round4(x) ==
    LET down == 10 * (x \div 1000)
    IN  {r \in {down, down + 10} : 100 * r - x <= 500 /\ x - 100 * r <= 500}

RoundingSlack == 5                \* half of the fourth decimal

CombineConfidence(classifierConfidence, hasContext) ==
    Round4(Clamp(classifierConfidence) * GroundingPercent(hasContext))

-----------------------------------------------------------------------------
(* The workers and the supervisor *)

DraftedTags(worker) ==
    CASE worker = "billing_agent" -> <<"billing_drafted">>
      [] worker = "bug_agent"     -> <<"bug_drafted">>
      [] worker = "feature_agent" -> <<"feature_logged", "feature_ticket">>
      [] OTHER                    -> <<"lockout_escalated">>

LogTags == {"classified", "classify_failed", "billing_drafted", "bug_drafted",
            "feature_logged", "feature_ticket", "lockout_escalated",
            "ESCALATE", "AUTO_APPROVED"}

\* Three workers write the context they retrieved; the lockout agent leaves
\* that channel alone and raises the escalation flag instead.
Drafted(s, worker, context, facts, confidence) ==
    [s EXCEPT !.retrieved_context = IF worker = "lockout_agent" THEN @ ELSE context,
              !.agent_draft_response = Draft(worker, facts),
              !.confidence_score = confidence,
              !.requires_escalation = @ \/ worker = "lockout_agent",
              !.execution_logs = @ \o DraftedTags(worker)]

\* A mutation of Escalates: the boundary 0.70 itself escalates.
EscalatesAtThreshold(s) ==
    \/ s.confidence_score <= CONFIDENCE_THRESHOLD
    \/ s.requires_escalation

Escalates(s) ==
    \/ s.confidence_score < CONFIDENCE_THRESHOLD
    \/ s.requires_escalation

Verdict(s) == IF Escalates(s) THEN "ESCALATE" ELSE "AUTO_APPROVED"

\* A mutation of SupervisorReview: the verdict is logged but the flag not set.
SupervisorLogsOnly(s) ==
    [s EXCEPT !.execution_logs = Append(@, Verdict(s))]

SupervisorReview(s) ==
    [s EXCEPT !.requires_escalation = Escalates(s),
              !.execution_logs = Append(@, Verdict(s))]
=============================================================================
