---------------------------- MODULE TriageGraph ----------------------------
(***************************************************************************)
(* One ticket's thread of the compiled LangGraph (graph/build.py):         *)
(*                                                                         *)
(*   classify -> {billing | bug | feature | lockout}_agent                 *)
(*            -> supervisor_review -> END                                  *)
(*                                                                         *)
(* with the awaits inside the nodes as steps of their own: the classifier  *)
(* call and the back-off sleep between attempts, the MCP tool call, the    *)
(* retrievals, the model call.  Any of them may fail the way the code lets *)
(* it.  st is the thread's checkpoint: a node changes it when it returns,  *)
(* a node that raises leaves it.  A thread can be run again.               *)
(***************************************************************************)
EXTENDS TriageNodes

CONSTANTS
    Intents,        \* labels the classifier may answer with
    Scores,         \* confidences it may answer with
    MaxRuns         \* bound: how often the thread is run

ASSUME ScoresAssumption == Scores \subseteq Int
ASSUME MaxRunsAssumption == MaxRuns \in Nat

VARIABLES
    node,           \* the node that is executing, "END" or "ERROR"
    step,           \* the await it is at
    st,             \* the checkpointed AgentState
    attempt,        \* classify: failed calls so far
    waited,         \* classify: back-off slept so far, in quarter seconds
    work,           \* the worker's locals: context and facts gathered so far
    seed,           \* history: what the classifier said in this run
    runs            \* history: runs started

vars == <<node, step, st, attempt, waited, work, seed, runs>>

MAX_ATTEMPTS == 3                         \* classify.py: _MAX_ATTEMPTS
\* A mutation of Backoff: the exponent is one too large.
BackoffTooLong == <<2, 4>>
Backoff == <<1, 2>>                       \* _BACKOFF_BASE * 2**attempt, in 0.25 s

Indices == {"billing", "technical"}       \* the two knowledge-base indices
ToolFacts(worker) ==
    CASE worker = "billing_agent" -> {"tier"}
      [] worker = "bug_agent"     -> {"related_issues"}
      [] worker = "lockout_agent" -> {"company", "account_status"}
      [] OTHER                    -> {}
FactNames == UNION {ToolFacts(w) : w \in Workers}

NoWork == [context |-> {}, facts |-> {}]
NotClassified == [classified |-> FALSE, score |-> 0]

Running == node \notin {"END", "ERROR"}

Halt(where) == node' = where /\ step' = "halt"

EntryStep(worker) == IF worker = "feature_agent" THEN "retrieve" ELSE "tool"

EnterWorker(s) == /\ node' = RouteByIntent(s)
                  /\ step' = EntryStep(RouteByIntent(s))

Init == /\ node = "classify" /\ step = "call"
        /\ st = WriteInput(NewState)
        /\ attempt = 0 /\ waited = 0
        /\ work = NoWork
        /\ seed = NotClassified
        /\ runs = 1

-----------------------------------------------------------------------------
(* classify *)

ClassifierAnswers(intent, score) ==
    /\ node = "classify" /\ step = "call"
    /\ st' = Classified(st, intent, score)
    /\ seed' = [classified |-> TRUE, score |-> score]
    /\ EnterWorker(st')
    /\ UNCHANGED <<attempt, waited, work, runs>>

\* Unreachable, a 5xx, or a body without the two fields; attempts are left.
ClassifierCallFails ==
    /\ node = "classify" /\ step = "call"
    /\ attempt < MAX_ATTEMPTS - 1
    /\ attempt' = attempt + 1
    /\ step' = "sleep"
    /\ UNCHANGED <<node, st, waited, work, seed, runs>>

BackoffElapses ==
    /\ node = "classify" /\ step = "sleep"
    /\ waited' = waited + Backoff[attempt]
    /\ step' = "call"
    /\ UNCHANGED <<node, st, attempt, work, seed, runs>>

\* The last attempt fails: the node returns the degraded update.
ClassifierGivesUp ==
    /\ node = "classify" /\ step = "call"
    /\ attempt = MAX_ATTEMPTS - 1
    /\ attempt' = attempt + 1
    /\ st' = ClassifyFailed(st)
    /\ EnterWorker(st')
    /\ UNCHANGED <<waited, work, seed, runs>>

-----------------------------------------------------------------------------
(* The workers *)

\* A row of enterprise_customers, or None and no account facts.
CustomerFacts(worker, found) == IF found THEN ToolFacts(worker) ELSE {}

\* search_issues: no match and a GithubException are the same empty list.
IssueFacts(found) == IF found THEN {"related_issues"} ELSE {}

\* get_subscription_status, search_issues(state="open"), get_customer_by_id.
ToolAnswers(found) ==
    /\ node \in Workers /\ step = "tool"
    /\ work' = [work EXCEPT !.facts = IF node = "bug_agent"
                                      THEN IssueFacts(found)
                                      ELSE CustomerFacts(node, found)]
    /\ step' = CASE node = "lockout_agent"           -> "draft"
                 [] node = "bug_agent" /\ ~found     -> "search_all"
                 [] OTHER                            -> "retrieve"
    /\ UNCHANGED <<node, st, attempt, waited, seed, runs>>

\* bug_agent: no open issue matched, search_issues(state="all").
SearchAllAnswers(found) ==
    /\ node = "bug_agent" /\ step = "search_all"
    /\ work' = [work EXCEPT !.facts = IssueFacts(found)]
    /\ step' = "retrieve"
    /\ UNCHANGED <<node, st, attempt, waited, seed, runs>>

FirstIndex(worker) == IF worker = "bug_agent" THEN "technical" ELSE "billing"

Hits(index, hit) == IF hit THEN {index} ELSE {}

Retrieve(hit) ==
    /\ node \in Workers /\ step = "retrieve"
    /\ work' = [work EXCEPT !.context = Hits(FirstIndex(node), hit)]
    /\ step' = IF node = "feature_agent" THEN "retrieve_technical" ELSE "draft"
    /\ UNCHANGED <<node, st, attempt, waited, seed, runs>>

\* feature_agent reads both indices.
RetrieveTechnical(hit) ==
    /\ node = "feature_agent" /\ step = "retrieve_technical"
    /\ work' = [work EXCEPT !.context = @ \cup Hits("technical", hit)]
    /\ step' = "draft"
    /\ UNCHANGED <<node, st, attempt, waited, seed, runs>>

\* A mutation of SurfacedFacts: any fact in the text counts for all of them.
SurfacedAnyFact(facts, mentioned) ==
    IF facts \cap mentioned # {} THEN mentioned ELSE mentioned \cup facts

\* draft_reply: the template states every fact; the model's text states some,
\* and when one is missing all are appended.
SurfacedFacts(facts, mentioned) ==
    IF facts \subseteq mentioned THEN mentioned ELSE mentioned \cup facts

DraftReply(mentioned) ==
    /\ node \in Workers /\ step = "draft"
    /\ mentioned \subseteq work.facts
    /\ \E c \in CombineConfidence(st.confidence_score, work.context # {}) :
           st' = Drafted(st, node, work.context, SurfacedFacts(work.facts, mentioned), c)
    /\ node' = "supervisor_review" /\ step' = "review"
    /\ UNCHANGED <<attempt, waited, work, seed, runs>>

\* A tool or a retrieval raises: nothing in the worker catches it.
WorkerRaises ==
    /\ node \in Workers
    /\ step # "draft"
    /\ Halt("ERROR")
    /\ UNCHANGED <<st, attempt, waited, work, seed, runs>>

-----------------------------------------------------------------------------
(* supervisor_review, the checkpointer, and running the thread again *)

Review ==
    /\ node = "supervisor_review"
    /\ st' = SupervisorReview(st)
    /\ Halt("END")
    /\ UNCHANGED <<attempt, waited, work, seed, runs>>

\* A node returns but the checkpointer cannot store its update; or the classifier
\* answers with a body of another shape, a TypeError that classify lets through.
CheckpointRaises ==
    /\ Running
    /\ step \in {"call", "draft", "review"}
    /\ Halt("ERROR")
    /\ UNCHANGED <<st, attempt, waited, work, seed, runs>>

\* astream with an input always starts at START.
RunAgain ==
    /\ ~Running
    /\ runs < MaxRuns
    /\ runs' = runs + 1
    /\ node' = "classify" /\ step' = "call"
    /\ st' = WriteInput(st)
    /\ attempt' = 0 /\ waited' = 0
    /\ work' = NoWork
    /\ seed' = NotClassified

Classify == \/ \E intent \in Intents, score \in Scores : ClassifierAnswers(intent, score)
            \/ ClassifierCallFails
            \/ BackoffElapses
            \/ ClassifierGivesUp

Work == \/ \E found \in BOOLEAN : ToolAnswers(found) \/ SearchAllAnswers(found)
        \/ \E hit \in BOOLEAN : Retrieve(hit) \/ RetrieveTechnical(hit)
        \/ \E mentioned \in SUBSET FactNames : DraftReply(mentioned)
        \/ WorkerRaises

RunStep == Classify \/ Work \/ Review \/ CheckpointRaises

Next == RunStep \/ RunAgain

\* Every await of a run returns or raises (README, "Fairness").
Fairness == WF_vars(RunStep)

Spec == Init /\ [][Next]_vars /\ Fairness
-----------------------------------------------------------------------------
(* Properties *)

Drafts == [author : Workers \cup {Nobody}, facts : SUBSET FactNames]
AgentStates == [ intent               : Intents \cup {NoIntent},
                 retrieved_context    : SUBSET Indices,
                 agent_draft_response : Drafts,
                 confidence_score     : Int,
                 requires_escalation  : BOOLEAN,
                 execution_logs       : Seq(LogTags) ]

\* The type of every variable.
TypeOK ==
    /\ node \in {"classify", "supervisor_review", "END", "ERROR"} \cup Workers
    /\ step \in {"call", "sleep", "tool", "search_all", "retrieve",
                 "retrieve_technical", "draft", "review", "halt"}
    /\ st \in AgentStates
    /\ attempt \in 0 .. MAX_ATTEMPTS
    /\ waited \in Nat
    /\ work \in [context : SUBSET Indices, facts : SUBSET FactNames]
    /\ seed \in [classified : BOOLEAN, score : Scores \cup {0}]
    /\ runs \in Nat

\* The inductive invariant: what is known at each node, with the history
\* variable seed standing for what the classifier said.
ClassifyTag == IF seed.classified THEN "classified" ELSE "classify_failed"

SeedInv == ~seed.classified => seed.score = 0

RetryInv ==
    /\ node = "classify" /\ step = "call" =>
           \/ attempt = 0 /\ waited = 0
           \/ attempt = 1 /\ waited = 1
           \/ attempt = 2 /\ waited = 3
    /\ node = "classify" /\ step = "sleep" =>
           attempt \in {1, 2} /\ waited = attempt - 1
    /\ node # "classify" => /\ waited <= 3
                            /\ attempt = MAX_ATTEMPTS => waited = 3
                            /\ seed.classified => attempt < MAX_ATTEMPTS

ClassifyInv ==
    node = "classify" =>
        /\ step \in {"call", "sleep"}
        /\ seed = NotClassified /\ work = NoWork
        /\ st.retrieved_context = {} /\ ~st.requires_escalation
        /\ st.execution_logs = <<>>

WorkerInv ==
    node \in Workers =>
        /\ node = RouteByIntent(st)
        /\ st.retrieved_context = {} /\ ~st.requires_escalation
        /\ st.confidence_score = seed.score
        /\ st.execution_logs = <<ClassifyTag>>
        /\ node = "lockout_agent" => work.context = {} /\ step \in {"tool", "draft"}

DraftedInv ==
    node \in {"supervisor_review", "END"} =>
        /\ st.retrieved_context = work.context
        /\ st.intent = "lockout" => work.context = {}
        /\ st.confidence_score \in CombineConfidence(seed.score, work.context # {})
        /\ work.facts \subseteq st.agent_draft_response.facts
        /\ st.agent_draft_response.author = RouteByIntent(st)

ReviewInv ==
    /\ node = "supervisor_review" =>
           /\ st.requires_escalation = (st.intent = "lockout")
           /\ st.execution_logs = <<ClassifyTag>> \o DraftedTags(RouteByIntent(st))
    /\ node = "END" =>
           /\ st.requires_escalation = (\/ st.confidence_score < CONFIDENCE_THRESHOLD
                                        \/ st.intent = "lockout")
           /\ st.execution_logs =
                  <<ClassifyTag>> \o DraftedTags(RouteByIntent(st))
                  \o <<IF st.requires_escalation THEN "ESCALATE" ELSE "AUTO_APPROVED">>

RunInvariant == /\ TypeOK /\ SeedInv /\ RetryInv /\ ClassifyInv
                /\ WorkerInv /\ DraftedInv /\ ReviewInv

\* A ticket leaves the graph unescalated only if the classifier answered in
\* this run with (up to rounding) the threshold confidence, the reply rests on
\* retrieved context, and it is not a lockout.  The 0.65 penalty, the 0.0 of an
\* outage and the lockout flag reach the supervisor through three nodes and the
\* input reset, and none of them may be lost on the way, in a re-run either.
AutoApprovalIsEarned ==
    node = "END" /\ ~st.requires_escalation =>
        /\ seed.classified
        /\ seed.score >= CONFIDENCE_THRESHOLD - RoundingSlack
        /\ st.retrieved_context # {}
        /\ st.intent # "lockout"

\* The final state tells one run, this one: the log is classify's line, the
\* routed worker's lines and the verdict, nothing of an earlier run of the
\* thread; draft, context and flag are those the log speaks of.
FinalStateTellsTheRun ==
    node = "END" =>
        LET worker == RouteByIntent(st)
        IN  /\ st.execution_logs =
                   <<IF seed.classified THEN "classified" ELSE "classify_failed">>
                   \o DraftedTags(worker)
                   \o <<IF st.requires_escalation THEN "ESCALATE" ELSE "AUTO_APPROVED">>
            /\ st.agent_draft_response.author = worker
            /\ st.retrieved_context = work.context

\* Every account fact the tool returned is in the draft, whatever the model
\* chose to mention (llm.py:143, "guarantee the asserted facts survive").
FactsSurvive ==
    node = "END" => work.facts \subseteq st.agent_draft_response.facts

\* At most three calls, and at most 0.75 s of back-off (classify.py:27), one
\* sleep between two calls and none after the last.
RetryBudget ==
    /\ waited <= 3
    /\ seed.classified => attempt < MAX_ATTEMPTS
    /\ node # "classify" /\ attempt = MAX_ATTEMPTS => waited = 3

\* After classification nothing in the run raises the confidence above what the
\* classifier gave, but for clamping and the rounding of the fourth decimal.
ConfidenceNeverRises ==
    [][node # "classify" =>
         \/ st'.confidence_score <= st.confidence_score
         \/ st'.confidence_score <= Clamp(st.confidence_score) + RoundingSlack]_vars

\* The detailed run implements the promise of Triage: the outcome is what the
\* supervisor recorded, the evidence what the run gathered, and under Fairness
\* every run decides or fails.
Outcome == CASE node = "ERROR" -> "failed"
             [] node = "END"   -> (IF st.requires_escalation
                                   THEN "escalated" ELSE "auto_approved")
             [] OTHER          -> "pending"

GatheredEvidence ==
    IF node = "END"
    THEN [lockout    |-> st.intent = "lockout",
          grounded   |-> work.context # {},
          classified |-> seed.classified,
          score      |-> seed.score]
    ELSE [lockout |-> FALSE, grounded |-> FALSE, classified |-> FALSE, score |-> 0]

Promise == INSTANCE Triage WITH outcome <- Outcome, evidence <- GatheredEvidence

ImplementsPromise == Promise!Spec

\* bug_agent.py:4 and :26 promise that a bug draft cites at least one issue.
BugDraftCitesIssue ==
    node = "END" /\ st.agent_draft_response.author = "bug_agent" =>
        "related_issues" \in st.agent_draft_response.facts
=============================================================================
