------------------------- MODULE TriageGraphProofs -------------------------
(***************************************************************************)
(* TriageGraph is correct for every set of labels, every set of integer    *)
(* confidences and every number of runs.                                   *)
(***************************************************************************)
EXTENDS TriageGraph, TriageNodesProofs, SequenceTheorems

-----------------------------------------------------------------------------
(* What each node operator returns on a well-typed state *)

LEMMA NewStateType == NewState \in AgentStates
<1>1. NoDraft \in Drafts
  BY DEF NoDraft, Draft, Drafts
<1> QED
  BY <1>1 DEF NewState, AgentStates

LEMMA WriteInputType ==
    ASSUME NEW s \in AgentStates
    PROVE  /\ WriteInput(s) \in AgentStates
           /\ WriteInput(s).retrieved_context = {}
           /\ WriteInput(s).requires_escalation = FALSE
           /\ WriteInput(s).execution_logs = <<>>
<1>1. /\ NewState \in AgentStates
      /\ NewState.retrieved_context = {}
      /\ NewState.requires_escalation = FALSE
      /\ NewState.execution_logs = <<>>
  BY NewStateType DEF NewState
<1> QED
  BY <1>1 DEF WriteInput, AgentStates

LEMMA ClassifiedType ==
    ASSUME NEW s \in AgentStates, NEW intent \in Intents, NEW score \in Int
    PROVE  /\ Classified(s, intent, score) \in AgentStates
           /\ Classified(s, intent, score).confidence_score = score
           /\ Classified(s, intent, score).retrieved_context = s.retrieved_context
           /\ Classified(s, intent, score).requires_escalation = s.requires_escalation
           /\ s.execution_logs = <<>> =>
                  Classified(s, intent, score).execution_logs = <<"classified">>
<1>1. Append(s.execution_logs, "classified") \in Seq(LogTags)
  BY DEF AgentStates, LogTags
<1>2. Append(<<>>, "classified") = <<"classified">>
  OBVIOUS
<1> QED
  BY <1>1, <1>2 DEF Classified, AgentStates

LEMMA ClassifyFailedType ==
    ASSUME NEW s \in AgentStates
    PROVE  /\ ClassifyFailed(s) \in AgentStates
           /\ ClassifyFailed(s).confidence_score = 0
           /\ ClassifyFailed(s).retrieved_context = s.retrieved_context
           /\ ClassifyFailed(s).requires_escalation = s.requires_escalation
           /\ s.execution_logs = <<>> =>
                  ClassifyFailed(s).execution_logs = <<"classify_failed">>
<1>1. Append(s.execution_logs, "classify_failed") \in Seq(LogTags)
  BY DEF AgentStates, LogTags
<1>2. Append(<<>>, "classify_failed") = <<"classify_failed">>
  OBVIOUS
<1> QED
  <2>1. ASSUME NEW i \in Intents \cup {NoIntent}, NEW c \in Int, NEW l \in Seq(LogTags)
        PROVE  [s EXCEPT !.intent = i, !.confidence_score = c, !.execution_logs = l]
                   \in AgentStates
    BY DEF AgentStates
  <2>2. NoIntent \in Intents \cup {NoIntent} /\ 0 \in Int
    OBVIOUS
  <2>3. ClassifyFailed(s) \in AgentStates
    BY <1>1, <2>1, <2>2, Zenon DEF ClassifyFailed
  <2> QED
    BY <1>2, <2>3 DEF ClassifyFailed, AgentStates

LEMMA DraftedType ==
    ASSUME NEW s \in AgentStates, NEW worker \in Workers,
           NEW context \in SUBSET Indices, NEW facts \in SUBSET FactNames, NEW c \in Int
    PROVE  Drafted(s, worker, context, facts, c) \in AgentStates
<1>1. Draft(worker, facts) \in Drafts
  BY DEF Draft, Drafts
<1>2. s.execution_logs \o DraftedTags(worker) \in Seq(LogTags)
  BY DraftedTagsType DEF AgentStates
<1> QED
  BY <1>1, <1>2 DEF Drafted, AgentStates

LEMMA SupervisorReviewType ==
    ASSUME NEW s \in AgentStates
    PROVE  LET d == SupervisorReview(s)
           IN  /\ d \in AgentStates
               /\ d.intent = s.intent
               /\ d.retrieved_context = s.retrieved_context
               /\ d.agent_draft_response = s.agent_draft_response
               /\ d.confidence_score = s.confidence_score
               /\ d.requires_escalation = Escalates(s)
               /\ d.execution_logs = s.execution_logs \o <<Verdict(s)>>
<1>1. Verdict(s) \in LogTags
  BY DEF Verdict, LogTags
<1>2. Escalates(s) \in BOOLEAN
  BY DEF Escalates
<1>3. Append(s.execution_logs, Verdict(s)) = s.execution_logs \o <<Verdict(s)>>
  BY <1>1, AppendIsConcat DEF AgentStates
<1>4. Append(s.execution_logs, Verdict(s)) \in Seq(LogTags)
  BY <1>1 DEF AgentStates
<1> HIDE DEF Verdict, Escalates
<1> QED
  BY <1>2, <1>3, <1>4 DEF SupervisorReview, AgentStates
-----------------------------------------------------------------------------
(* The invariant is inductive: one lemma per action *)

LEMMA InitInvariant == Init => RunInvariant
<1> SUFFICES ASSUME Init PROVE RunInvariant
  OBVIOUS
<1>1. /\ st \in AgentStates
      /\ st.retrieved_context = {}
      /\ st.requires_escalation = FALSE
      /\ st.execution_logs = <<>>
  BY NewStateType, WriteInputType DEF Init
<1>2. TypeOK
  BY <1>1 DEF Init, TypeOK, NoWork, NotClassified, MAX_ATTEMPTS
<1>3. SeedInv /\ RetryInv
  BY DEF Init, SeedInv, RetryInv, NotClassified, MAX_ATTEMPTS
<1>4. ClassifyInv /\ WorkerInv /\ DraftedInv /\ ReviewInv
  BY <1>1 DEF Init, ClassifyInv, WorkerInv, DraftedInv, ReviewInv, Workers
<1> QED
  BY <1>2, <1>3, <1>4 DEF RunInvariant

\* classify hands over to the worker it routes to, with the classifier's
\* confidence and one line in the log.
LEMMA EnterWorkerInvariant ==
    ASSUME RunInvariant, node = "classify",
           st' \in AgentStates,
           st'.confidence_score = seed'.score,
           st'.retrieved_context = st.retrieved_context,
           st'.requires_escalation = st.requires_escalation,
           st'.execution_logs = <<ClassifyTag'>>,
           EnterWorker(st'), work' = work
    PROVE  /\ node' \in Workers /\ step' \in {"tool", "retrieve"}
           /\ ClassifyInv' /\ WorkerInv' /\ DraftedInv' /\ ReviewInv'
<1>1. /\ node' = RouteByIntent(st')
      /\ node' \in Workers
      /\ step' = EntryStep(node')
  BY RouteIsAWorker DEF EnterWorker
<1>2. step' \in {"tool", "retrieve"} /\ (node' = "lockout_agent" => step' = "tool")
  BY <1>1 DEF EntryStep
<1>3. work'.context = {}
  BY DEF RunInvariant, ClassifyInv, NoWork
<1>4. st'.retrieved_context = {} /\ ~st'.requires_escalation
  BY DEF RunInvariant, ClassifyInv
<1>5. WorkerInv'
  BY <1>1, <1>2, <1>3, <1>4 DEF WorkerInv
<1>6. ClassifyInv' /\ DraftedInv' /\ ReviewInv'
  BY <1>1 DEF ClassifyInv, DraftedInv, ReviewInv, Workers
<1> QED
  BY <1>1, <1>2, <1>5, <1>6

LEMMA ClassifierAnswersInvariant ==
    ASSUME RunInvariant, NEW intent \in Intents, NEW score \in Scores,
           ClassifierAnswers(intent, score)
    PROVE  RunInvariant'
<1> USE DEF RunInvariant, ClassifierAnswers
<1>1. score \in Int /\ st \in AgentStates /\ st.execution_logs = <<>>
  BY ScoresAssumption DEF TypeOK, ClassifyInv
<1>2. /\ st' \in AgentStates
      /\ st'.confidence_score = score
      /\ st'.retrieved_context = st.retrieved_context
      /\ st'.requires_escalation = st.requires_escalation
      /\ st'.execution_logs = <<"classified">>
  BY <1>1, ClassifiedType
<1>3. seed' \in [classified : BOOLEAN, score : Scores \cup {0}]
      /\ seed'.classified = TRUE /\ seed'.score = score
  OBVIOUS
<1>4. ClassifyTag' = "classified"
  BY <1>3 DEF ClassifyTag
<1>5. /\ node' \in Workers /\ step' \in {"tool", "retrieve"}
      /\ ClassifyInv' /\ WorkerInv' /\ DraftedInv' /\ ReviewInv'
  BY <1>2, <1>3, <1>4, EnterWorkerInvariant
<1>6. TypeOK'
  BY <1>2, <1>3, <1>5 DEF TypeOK
<1>7. SeedInv'
  BY <1>3 DEF SeedInv
<1>8. RetryInv'
  BY <1>3, <1>5 DEF RetryInv, TypeOK, Workers, MAX_ATTEMPTS
<1> QED
  BY <1>5, <1>6, <1>7, <1>8

LEMMA ClassifierGivesUpInvariant ==
    ASSUME RunInvariant, ClassifierGivesUp
    PROVE  RunInvariant'
<1> USE DEF RunInvariant, ClassifierGivesUp
<1>1. st \in AgentStates /\ st.execution_logs = <<>> /\ seed = NotClassified
  BY DEF TypeOK, ClassifyInv
<1>2. /\ st' \in AgentStates
      /\ st'.confidence_score = 0
      /\ st'.retrieved_context = st.retrieved_context
      /\ st'.requires_escalation = st.requires_escalation
      /\ st'.execution_logs = <<"classify_failed">>
  BY <1>1, ClassifyFailedType
<1>3. seed'.classified = FALSE /\ seed'.score = 0
  BY <1>1 DEF NotClassified
<1>4. ClassifyTag' = "classify_failed"
  BY <1>3 DEF ClassifyTag
<1>5. /\ node' \in Workers /\ step' \in {"tool", "retrieve"}
      /\ ClassifyInv' /\ WorkerInv' /\ DraftedInv' /\ ReviewInv'
  BY <1>2, <1>3, <1>4, EnterWorkerInvariant
<1>6. TypeOK'
  BY <1>2, <1>5 DEF TypeOK, MAX_ATTEMPTS
<1>7. SeedInv'
  BY <1>3 DEF SeedInv
<1>8. RetryInv'
  BY <1>3, <1>5 DEF RetryInv, TypeOK, Workers, MAX_ATTEMPTS
<1> QED
  BY <1>5, <1>6, <1>7, <1>8

\* A failed call, and the sleep after it.
LEMMA RetryInvariant ==
    ASSUME RunInvariant, ClassifierCallFails \/ BackoffElapses
    PROVE  RunInvariant'
<1> USE DEF RunInvariant
<1>1. ClassifyTag' = ClassifyTag
  BY DEF ClassifyTag, ClassifierCallFails, BackoffElapses
<1>2. CASE ClassifierCallFails
  <2>1. TypeOK'
    BY <1>2 DEF ClassifierCallFails, TypeOK, MAX_ATTEMPTS
  <2>2. RetryInv'
    BY <1>2 DEF ClassifierCallFails, RetryInv, TypeOK, MAX_ATTEMPTS
  <2> QED
    BY <1>2, <2>1, <2>2 DEF ClassifierCallFails, SeedInv, ClassifyInv, WorkerInv,
                            DraftedInv, ReviewInv, Workers
<1>3. CASE BackoffElapses
  <2>1. (attempt = 1 /\ waited = 0) \/ (attempt = 2 /\ waited = 1)
    BY <1>3 DEF BackoffElapses, RetryInv, TypeOK
  <2>2. (attempt = 1 /\ waited' = 1) \/ (attempt = 2 /\ waited' = 3)
    BY <1>3, <2>1 DEF BackoffElapses, Backoff
  <2>3. TypeOK'
    BY <1>3, <2>2 DEF BackoffElapses, TypeOK
  <2>4. RetryInv'
    BY <1>3, <2>2 DEF BackoffElapses, RetryInv, MAX_ATTEMPTS
  <2> QED
    BY <1>3, <2>3, <2>4 DEF BackoffElapses, SeedInv, ClassifyInv, WorkerInv,
                            DraftedInv, ReviewInv, Workers
<1> QED
  BY <1>2, <1>3

\* A worker gathers facts and context; the state is not touched before its end.
LEMMA GatherInvariant ==
    ASSUME RunInvariant,
           NEW found \in BOOLEAN,
           \/ ToolAnswers(found) \/ SearchAllAnswers(found)
           \/ Retrieve(found) \/ RetrieveTechnical(found)
    PROVE  RunInvariant'
<1> USE DEF RunInvariant
<1> DEFINE Gathers == /\ node \in Workers /\ node' = node
                      /\ UNCHANGED <<st, attempt, waited, seed, runs>>
                      /\ work' \in [context : SUBSET Indices, facts : SUBSET FactNames]
                      /\ step' \in {"search_all", "retrieve", "retrieve_technical", "draft"}
                      /\ node = "lockout_agent" => work'.context = {} /\ step' = "draft"
<1>1. /\ CustomerFacts(node, found) \in SUBSET FactNames
      /\ IssueFacts(found) \in SUBSET FactNames
  BY DEF CustomerFacts, IssueFacts, ToolFacts, FactNames, Workers
<1>2. ASSUME ToolAnswers(found) PROVE Gathers
  <2>1. /\ work'.context = work.context
        /\ work' \in [context : SUBSET Indices, facts : SUBSET FactNames]
    BY <1>1, <1>2 DEF ToolAnswers, TypeOK
  <2>2. /\ step' \in {"search_all", "retrieve", "draft"}
        /\ node = "lockout_agent" => step' = "draft"
    BY <1>2 DEF ToolAnswers
  <2> QED
    BY <1>2, <2>1, <2>2 DEF ToolAnswers, WorkerInv
<1>3. ASSUME SearchAllAnswers(found) PROVE Gathers
  <2>1. work' \in [context : SUBSET Indices, facts : SUBSET FactNames]
    BY <1>1, <1>3 DEF SearchAllAnswers, TypeOK
  <2> QED
    BY <1>3, <2>1 DEF SearchAllAnswers, Workers
<1>4. ASSUME Retrieve(found) PROVE Gathers
  <2>1. Hits(FirstIndex(node), found) \in SUBSET Indices
    BY DEF Hits, FirstIndex, Indices
  <2>2. work' \in [context : SUBSET Indices, facts : SUBSET FactNames]
    BY <1>4, <2>1 DEF Retrieve, TypeOK
  <2>3. node # "lockout_agent"
    BY <1>4 DEF Retrieve, WorkerInv
  <2> QED
    BY <1>4, <2>2, <2>3 DEF Retrieve
<1>5. ASSUME RetrieveTechnical(found) PROVE Gathers
  <2>1. Hits("technical", found) \in SUBSET Indices
    BY DEF Hits, Indices
  <2>2. work' \in [context : SUBSET Indices, facts : SUBSET FactNames]
    BY <1>5, <2>1 DEF RetrieveTechnical, TypeOK
  <2> QED
    BY <1>5, <2>2 DEF RetrieveTechnical, Workers
<1>6. Gathers
  BY <1>2, <1>3, <1>4, <1>5
<1>7. node # "classify" /\ node # "supervisor_review" /\ node # "END"
  BY <1>6 DEF Workers
<1>8. ClassifyTag' = ClassifyTag
  BY <1>6 DEF ClassifyTag
<1>9. TypeOK'
  BY <1>6 DEF TypeOK
<1>10. SeedInv' /\ RetryInv'
  BY <1>6, <1>7 DEF SeedInv, RetryInv
<1>11. WorkerInv'
  BY <1>6, <1>8 DEF WorkerInv
<1>12. ClassifyInv' /\ DraftedInv' /\ ReviewInv'
  BY <1>6, <1>7 DEF ClassifyInv, DraftedInv, ReviewInv
<1> QED
  BY <1>9, <1>10, <1>11, <1>12

LEMMA DraftReplyInvariant ==
    ASSUME RunInvariant, NEW mentioned \in SUBSET FactNames, DraftReply(mentioned)
    PROVE  RunInvariant'
<1> USE DEF RunInvariant
<1> DEFINE hasContext == work.context # {}
<1>1. /\ node \in Workers /\ node # "classify"
      /\ st \in AgentStates /\ st.confidence_score \in Int
      /\ work.context \in SUBSET Indices /\ work.facts \in SUBSET FactNames
  BY DEF DraftReply, TypeOK, AgentStates, Workers
<1>2. PICK c \in CombineConfidence(st.confidence_score, hasContext) :
          st' = Drafted(st, node, work.context, SurfacedFacts(work.facts, mentioned), c)
  BY DEF DraftReply
<1>3. c \in Int
  BY <1>1, CombineBounds
<1>4. PICK facts \in SUBSET FactNames :
          facts = SurfacedFacts(work.facts, mentioned) /\ work.facts \subseteq facts
  BY <1>1 DEF SurfacedFacts
<1>5. /\ st' \in AgentStates
      /\ st'.intent = st.intent
      /\ st'.retrieved_context =
             IF node = "lockout_agent" THEN st.retrieved_context ELSE work.context
      /\ st'.agent_draft_response.author = node
      /\ st'.agent_draft_response.facts = facts
      /\ st'.confidence_score = c
      /\ st'.requires_escalation = (st.requires_escalation \/ node = "lockout_agent")
      /\ st'.execution_logs = st.execution_logs \o DraftedTags(node)
  <2> DEFINE d == Drafted(st, node, work.context, facts, c)
  <2>1. st' = d
    BY <1>2, <1>4
  <2>2. d \in AgentStates
    BY <1>1, <1>3, <1>4, DraftedType
  <2>3. /\ d.intent = st.intent
        /\ d.retrieved_context =
               IF node = "lockout_agent" THEN st.retrieved_context ELSE work.context
        /\ d.agent_draft_response.author = node
        /\ d.agent_draft_response.facts = facts
        /\ d.confidence_score = c
        /\ d.requires_escalation = (st.requires_escalation \/ node = "lockout_agent")
        /\ d.execution_logs = st.execution_logs \o DraftedTags(node)
    BY <1>1 DEF Drafted, AgentStates, Draft
  <2> HIDE DEF d
  <2> QED
    BY <2>1, <2>2, <2>3
<1>6. /\ node' = "supervisor_review" /\ step' = "review"
      /\ UNCHANGED <<attempt, waited, work, seed, runs>>
  BY DEF DraftReply
<1>7. /\ node = RouteByIntent(st)
      /\ st.retrieved_context = {} /\ ~st.requires_escalation
      /\ st.confidence_score = seed.score
      /\ st.execution_logs = <<ClassifyTag>>
      /\ node = "lockout_agent" => work.context = {}
  BY <1>1 DEF WorkerInv
<1>8. RouteByIntent(st') = node /\ (node = "lockout_agent" <=> st'.intent = "lockout")
  BY <1>5, <1>7, RouteIsAWorker DEF RouteByIntent
<1>9. TypeOK'
  BY <1>1, <1>5, <1>6 DEF TypeOK
<1>10. SeedInv' /\ RetryInv'
  BY <1>1, <1>6 DEF SeedInv, RetryInv
<1>11. ClassifyInv' /\ WorkerInv'
  BY <1>6 DEF ClassifyInv, WorkerInv, Workers
<1>12. DraftedInv'
  BY <1>2, <1>4, <1>5, <1>6, <1>7, <1>8 DEF DraftedInv
<1>13. ReviewInv'
  <2>1. ClassifyTag' = ClassifyTag
    BY <1>6 DEF ClassifyTag
  <2>2. st'.requires_escalation = (st'.intent = "lockout")
    BY <1>5, <1>7, <1>8
  <2> QED
    BY <1>5, <1>6, <1>7, <1>8, <2>1, <2>2 DEF ReviewInv
<1> QED
  BY <1>9, <1>10, <1>11, <1>12, <1>13

LEMMA ReviewInvariant ==
    ASSUME RunInvariant, Review
    PROVE  RunInvariant'
<1> USE DEF RunInvariant
<1>1. /\ node = "supervisor_review" /\ st \in AgentStates
      /\ st' = SupervisorReview(st)
      /\ node' = "END" /\ step' = "halt"
      /\ UNCHANGED <<attempt, waited, work, seed, runs>>
  BY DEF Review, Halt, TypeOK
<1>2. /\ st' \in AgentStates
      /\ st'.intent = st.intent
      /\ st'.retrieved_context = st.retrieved_context
      /\ st'.agent_draft_response = st.agent_draft_response
      /\ st'.confidence_score = st.confidence_score
      /\ st'.requires_escalation = Escalates(st)
      /\ st'.execution_logs = st.execution_logs \o <<Verdict(st)>>
  BY <1>1, SupervisorReviewType
<1>3. RouteByIntent(st') = RouteByIntent(st)
  BY <1>2 DEF RouteByIntent
<1>4. ClassifyTag' = ClassifyTag
  BY <1>1 DEF ClassifyTag
<1>5. Verdict(st) = IF st'.requires_escalation THEN "ESCALATE" ELSE "AUTO_APPROVED"
  BY <1>2 DEF Verdict
<1>6. /\ st.requires_escalation = (st.intent = "lockout")
      /\ st.execution_logs = <<ClassifyTag>> \o DraftedTags(RouteByIntent(st))
  BY <1>1 DEF ReviewInv
<1>7. TypeOK'
  BY <1>1, <1>2 DEF TypeOK
<1>8. SeedInv' /\ RetryInv'
  BY <1>1 DEF SeedInv, RetryInv
<1>9. ClassifyInv' /\ WorkerInv'
  BY <1>1 DEF ClassifyInv, WorkerInv, Workers
<1>10. DraftedInv'
  BY <1>1, <1>2, <1>3 DEF DraftedInv
<1>11. st'.requires_escalation = (\/ st'.confidence_score < CONFIDENCE_THRESHOLD
                                  \/ st'.intent = "lockout")
  BY <1>2, <1>6, Zenon DEF Escalates
<1>12. ReviewInv'
  BY <1>1, <1>2, <1>3, <1>4, <1>5, <1>6, <1>11, Zenon DEF ReviewInv
<1> QED
  BY <1>7, <1>8, <1>9, <1>10, <1>12

\* A run that ends in an exception, and a thread that is run again.
LEMMA ErrorInvariant ==
    ASSUME RunInvariant, WorkerRaises \/ CheckpointRaises
    PROVE  RunInvariant'
<1>1. /\ node' = "ERROR" /\ step' = "halt"
      /\ UNCHANGED <<st, attempt, waited, work, seed, runs>>
      /\ node # "classify" \/ step = "call"
  BY DEF WorkerRaises, CheckpointRaises, Halt, Workers, RunInvariant, ClassifyInv
<1>2. TypeOK'
  BY <1>1 DEF RunInvariant, TypeOK
<1>3. RetryInv'
  BY <1>1 DEF RunInvariant, TypeOK, RetryInv, MAX_ATTEMPTS
<1> QED
  BY <1>1, <1>2, <1>3 DEF RunInvariant, SeedInv, ClassifyInv, WorkerInv, DraftedInv,
                          ReviewInv, Workers

LEMMA RunAgainInvariant ==
    ASSUME RunInvariant, RunAgain
    PROVE  RunInvariant'
<1>1. /\ st' \in AgentStates
      /\ st'.retrieved_context = {}
      /\ st'.requires_escalation = FALSE
      /\ st'.execution_logs = <<>>
  BY WriteInputType DEF RunInvariant, TypeOK, RunAgain
<1>2. TypeOK'
  BY <1>1 DEF RunInvariant, TypeOK, RunAgain, NoWork, NotClassified, MAX_ATTEMPTS
<1>3. SeedInv' /\ RetryInv'
  BY DEF RunAgain, SeedInv, RetryInv, NotClassified, MAX_ATTEMPTS
<1>4. ClassifyInv' /\ WorkerInv' /\ DraftedInv' /\ ReviewInv'
  BY <1>1 DEF RunAgain, ClassifyInv, WorkerInv, DraftedInv, ReviewInv, Workers
<1> QED
  BY <1>2, <1>3, <1>4 DEF RunInvariant

LEMMA StepInvariant == RunInvariant /\ [Next]_vars => RunInvariant'
<1> SUFFICES ASSUME RunInvariant, [Next]_vars PROVE RunInvariant'
  OBVIOUS
<1>1. ASSUME NEW intent \in Intents, NEW score \in Scores, ClassifierAnswers(intent, score)
      PROVE  RunInvariant'
  BY <1>1, ClassifierAnswersInvariant
<1>2. CASE ClassifierCallFails \/ BackoffElapses
  BY <1>2, RetryInvariant
<1>3. CASE ClassifierGivesUp
  BY <1>3, ClassifierGivesUpInvariant
<1>4. ASSUME NEW found \in BOOLEAN,
             \/ ToolAnswers(found) \/ SearchAllAnswers(found)
             \/ Retrieve(found) \/ RetrieveTechnical(found)
      PROVE  RunInvariant'
  BY <1>4, GatherInvariant
<1>5. ASSUME NEW mentioned \in SUBSET FactNames, DraftReply(mentioned)
      PROVE  RunInvariant'
  BY <1>5, DraftReplyInvariant
<1>6. CASE WorkerRaises \/ CheckpointRaises
  BY <1>6, ErrorInvariant
<1>7. CASE Review
  BY <1>7, ReviewInvariant
<1>8. CASE RunAgain
  BY <1>8, RunAgainInvariant
<1>9. CASE UNCHANGED vars
  <2>1. UNCHANGED <<node, step, st, attempt, waited, work, seed, runs>>
    BY <1>9 DEF vars
  <2>2. TypeOK' /\ SeedInv' /\ RetryInv'
    BY <2>1 DEF RunInvariant, TypeOK, SeedInv, RetryInv
  <2>3. ClassifyInv' /\ DraftedInv'
    BY <2>1 DEF RunInvariant, ClassifyInv, DraftedInv
  <2>4. ClassifyTag' = ClassifyTag
    BY <2>1 DEF ClassifyTag
  <2>5. WorkerInv' /\ ReviewInv'
    BY <2>1, <2>4 DEF RunInvariant, WorkerInv, ReviewInv
  <2> QED
    BY <2>2, <2>3, <2>5 DEF RunInvariant
<1> QED
  BY <1>1, <1>2, <1>3, <1>4, <1>5, <1>6, <1>7, <1>8, <1>9
     DEF Next, RunStep, Classify, Work

\* Every reachable state of the graph satisfies the invariant.
THEOREM Invariance == Spec => []RunInvariant
<1>1. Init => RunInvariant
  BY InitInvariant
<1>2. RunInvariant /\ [Next]_vars => RunInvariant'
  BY StepInvariant
<1> QED
  BY <1>1, <1>2, PTL DEF Spec

-----------------------------------------------------------------------------
(* What follows from it *)

\* Type correctness.
THEOREM TypeCorrectness == Spec => []TypeOK
<1>1. RunInvariant => TypeOK
  BY DEF RunInvariant
<1> QED
  BY <1>1, Invariance, PTL

LEMMA InvariantEarns == RunInvariant => AutoApprovalIsEarned
<1> SUFFICES ASSUME RunInvariant, node = "END", ~st.requires_escalation
             PROVE  /\ seed.classified
                    /\ seed.score >= CONFIDENCE_THRESHOLD - RoundingSlack
                    /\ st.retrieved_context # {}
                    /\ st.intent # "lockout"
  BY DEF AutoApprovalIsEarned
<1> DEFINE c == st.confidence_score
           hasContext == work.context # {}
<1>1. /\ c \in CombineConfidence(seed.score, hasContext)
      /\ st.retrieved_context = work.context
  BY DEF RunInvariant, DraftedInv
<1>2. ~(c < CONFIDENCE_THRESHOLD) /\ st.intent # "lockout"
  BY DEF RunInvariant, ReviewInv
<1>3. seed.score \in Int
  <2>1. seed.score \in Scores \cup {0}
    BY DEF RunInvariant, TypeOK
  <2>2. \A x \in Scores \cup {0} : x \in Int
    BY ScoresAssumption DEF ScoresAssumption
  <2> QED
    BY <2>1, <2>2
<1> HIDE DEF c
<1>4. hasContext
  <2>1. ASSUME hasContext = FALSE PROVE c < CONFIDENCE_THRESHOLD
    BY <1>1, <1>3, <2>1, UngroundedIsBelowThreshold
  <2> QED
    BY <1>2, <2>1
<1>5. c \in CombineConfidence(seed.score, TRUE)
  <2>1. hasContext = TRUE
    BY <1>4
  <2> QED
    BY <1>1, <2>1
<1>6. seed.classified
  <2>1. ASSUME ~seed.classified PROVE c < CONFIDENCE_THRESHOLD
    <3>1. seed.score = 0
      BY <2>1 DEF RunInvariant, SeedInv
    <3> QED
      BY <1>5, <3>1, OutageIsBelowThreshold
  <2> QED
    BY <1>2, <2>1
<1>7. seed.score >= CONFIDENCE_THRESHOLD - RoundingSlack
  <2>1. c \in Int
    BY <1>3, <1>5, CombineBounds
  <2>2. c >= CONFIDENCE_THRESHOLD
    BY <1>2, <2>1, SMT DEF CONFIDENCE_THRESHOLD
  <2> QED
    BY <1>3, <1>5, <2>2, GroundedMeetsThreshold
<1> QED
  BY <1>1, <1>2, <1>4, <1>6, <1>7

\* No ticket is auto-approved without an answer of the classifier, context, and
\* the threshold confidence, and no lockout ever is, for any classifier.
THEOREM AutoApprovalSafety == Spec => []AutoApprovalIsEarned
<1>1. RunInvariant => AutoApprovalIsEarned
  BY InvariantEarns
<1> QED
  BY <1>1, Invariance, PTL

\* The checkpoint a finished run leaves is that run's and no other's.
THEOREM FinalStateCoherence == Spec => []FinalStateTellsTheRun
<1>1. RunInvariant => FinalStateTellsTheRun
  BY DEF RunInvariant, DraftedInv, ReviewInv, FinalStateTellsTheRun, ClassifyTag
<1> QED
  BY <1>1, Invariance, PTL

\* llm.py:143: whatever the model's text mentions, the draft of a finished run
\* states every fact the tool returned in that run.
THEOREM AssertedFactsSurvive == Spec => []FactsSurvive
<1>1. RunInvariant => FactsSurvive
  BY DEF RunInvariant, DraftedInv, FactsSurvive
<1> QED
  BY <1>1, Invariance, PTL

\* The classifier is asked at most three times and slept for at most 0.75 s.
THEOREM RetryIsBounded == Spec => []RetryBudget
<1>1. RunInvariant => RetryBudget
  <2> SUFFICES ASSUME RunInvariant PROVE RetryBudget
    OBVIOUS
  <2>1. CASE node = "classify"
    BY <2>1 DEF RunInvariant, TypeOK, RetryInv, ClassifyInv, NotClassified, RetryBudget,
                MAX_ATTEMPTS
  <2>2. CASE node # "classify"
    BY <2>2 DEF RunInvariant, RetryInv, RetryBudget
  <2> QED
    BY <2>1, <2>2
<1> QED
  BY <1>1, Invariance, PTL

\* Only the draft can lower or round the confidence, and it never exceeds the
\* clamped confidence of the classifier by more than the rounding.
THEOREM ConfidenceIsMonotone == Spec => ConfidenceNeverRises
<1> DEFINE Bound == node # "classify" =>
                       \/ st'.confidence_score <= st.confidence_score
                       \/ st'.confidence_score <=
                              Clamp(st.confidence_score) + RoundingSlack
<1>1. ASSUME RunInvariant, Next PROVE Bound
  <2>1. st.confidence_score \in Int /\ st \in AgentStates
    BY <1>1 DEF RunInvariant, TypeOK, AgentStates
  <2>2. CASE UNCHANGED st
    BY <2>1, <2>2
  <2>3. CASE Classify
    <3>1. node = "classify"
      BY <2>3 DEF Classify, ClassifierAnswers, ClassifierCallFails, BackoffElapses,
                  ClassifierGivesUp
    <3> QED
      BY <3>1
  <2>4. ASSUME NEW mentioned \in SUBSET FactNames, DraftReply(mentioned) PROVE Bound
    <3>1. PICK c \in CombineConfidence(st.confidence_score, work.context # {}) :
              st'.confidence_score = c
      <4>1. PICK c \in CombineConfidence(st.confidence_score, work.context # {}) :
                st' = Drafted(st, node, work.context,
                              SurfacedFacts(work.facts, mentioned), c)
        BY <2>4 DEF DraftReply
      <4> QED
        BY <2>1, <4>1 DEF Drafted, AgentStates
    <3>2. c <= Clamp(st.confidence_score) + RoundingSlack
      BY <2>1, CombineBounds
    <3> QED
      BY <3>1, <3>2
  <2>5. CASE Review
    <3>1. st'.confidence_score = st.confidence_score
      BY <2>1, <2>5 DEF Review, SupervisorReview, AgentStates
    <3> QED
      BY <2>1, <3>1
  <2>6. CASE RunAgain
    <3>1. st'.confidence_score = 0
      BY <2>6 DEF RunAgain, WriteInput, NewState
    <3> QED
      BY <2>1, <3>1, SMT DEF Clamp, Unit, RoundingSlack
  <2>7. Next => \/ UNCHANGED st \/ Classify \/ Review \/ RunAgain
                \/ \E mentioned \in SUBSET FactNames : DraftReply(mentioned)
    BY DEF Next, RunStep, Work, ToolAnswers, SearchAllAnswers, Retrieve, RetrieveTechnical,
           WorkerRaises, CheckpointRaises
  <2> QED
    BY <1>1, <2>2, <2>3, <2>4, <2>5, <2>6, <2>7
<1>2. RunInvariant /\ [Next]_vars => [Bound]_vars
  BY <1>1
<1> QED
  BY <1>2, Invariance, PTL DEF Spec, ConfidenceNeverRises

-----------------------------------------------------------------------------
(* The run implements the promise *)

LEMMA EvidenceAllowsOutcome ==
    RunInvariant /\ node = "END" =>
        /\ GatheredEvidence \in Promise!Evidence
        /\ st.requires_escalation => Promise!MayEscalate(GatheredEvidence)
        /\ ~st.requires_escalation => Promise!MayAutoApprove(GatheredEvidence)
<1> SUFFICES ASSUME RunInvariant, node = "END"
             PROVE  /\ GatheredEvidence \in Promise!Evidence
                    /\ st.requires_escalation => Promise!MayEscalate(GatheredEvidence)
                    /\ ~st.requires_escalation => Promise!MayAutoApprove(GatheredEvidence)
  OBVIOUS
<1> DEFINE e == GatheredEvidence
<1>1. /\ e.lockout = (st.intent = "lockout")
      /\ e.grounded = (work.context # {})
      /\ e.classified = seed.classified
      /\ e.score = seed.score
  BY DEF GatheredEvidence
<1>2. e \in Promise!Evidence
  BY DEF GatheredEvidence, Promise!Evidence, RunInvariant, TypeOK
<1>3. seed.score \in Int
  <2>1. seed.score \in Scores \cup {0}
    BY DEF RunInvariant, TypeOK
  <2>2. \A x \in Scores \cup {0} : x \in Int
    BY ScoresAssumption DEF ScoresAssumption
  <2> QED
    BY <2>1, <2>2
<1>4. /\ st.retrieved_context = work.context
      /\ st.confidence_score \in CombineConfidence(seed.score, work.context # {})
      /\ st.requires_escalation = (\/ st.confidence_score < CONFIDENCE_THRESHOLD
                                   \/ st.intent = "lockout")
  BY DEF RunInvariant, DraftedInv, ReviewInv
<1> HIDE DEF e
<1>5. ASSUME ~st.requires_escalation PROVE Promise!MayAutoApprove(e)
  <2>1. /\ seed.classified
        /\ seed.score >= CONFIDENCE_THRESHOLD - RoundingSlack
        /\ st.retrieved_context # {}
        /\ st.intent # "lockout"
    BY <1>5, InvariantEarns DEF AutoApprovalIsEarned
  <2>2. e.score >= Promise!Threshold - Promise!RoundingSlack
    BY <1>1, <1>3, <2>1, SMT DEF Promise!Threshold, Promise!RoundingSlack,
                                 CONFIDENCE_THRESHOLD, RoundingSlack
  <2> QED
    BY <1>1, <1>4, <2>1, <2>2 DEF Promise!MayAutoApprove
<1>6. ASSUME st.requires_escalation PROVE Promise!MayEscalate(e)
  <2>1. CASE st.intent = "lockout" \/ work.context = {}
    BY <1>1, <2>1 DEF Promise!MayEscalate, Promise!MayAutoApprove
  <2>2. CASE st.intent # "lockout" /\ work.context # {}
    <3>1. st.confidence_score \in CombineConfidence(seed.score, TRUE)
      <4>1. (work.context # {}) = TRUE
        BY <2>2
      <4> QED
        BY <1>4, <4>1
    <3>2. st.confidence_score < CONFIDENCE_THRESHOLD
      BY <1>4, <1>6, <2>2
    <3>3. seed.score <= CONFIDENCE_THRESHOLD - RoundingSlack
      BY <1>3, <3>1, <3>2, GroundedMeetsThreshold
    <3>4. e.score <= Promise!Threshold - Promise!RoundingSlack
      BY <1>1, <1>3, <3>3, SMT DEF Promise!Threshold, Promise!RoundingSlack,
                                   CONFIDENCE_THRESHOLD, RoundingSlack
    <3> QED
      BY <3>4 DEF Promise!MayEscalate
  <2> QED
    BY <2>1, <2>2
<1> QED
  BY <1>2, <1>5, <1>6 DEF e

\* Every behaviour of the graph is, seen through outcome and evidence, one the
\* promise allows.
THEOREM SafetyRefinement == Spec => Promise!Safety
<1>1. Init => Promise!Init
  BY DEF Init, Promise!Init, Outcome, GatheredEvidence, Promise!NoEvidence
<1>2. ASSUME RunInvariant, RunInvariant', [Next]_vars
      PROVE  [Promise!Next]_(Promise!vars)
  <2>1. CASE /\ Running /\ Running'
    <3>1. Outcome = "pending" /\ Outcome' = "pending" /\ GatheredEvidence' = GatheredEvidence
      BY <2>1 DEF Running, Outcome, GatheredEvidence
    <3> QED
      BY <3>1 DEF Promise!vars
  <2>2. CASE Review
    <3>1. /\ node = "supervisor_review" /\ node' = "END"
      BY <2>2 DEF Review, Halt
    <3>2. /\ GatheredEvidence' \in Promise!Evidence
          /\ st'.requires_escalation => Promise!MayEscalate(GatheredEvidence')
          /\ ~st'.requires_escalation => Promise!MayAutoApprove(GatheredEvidence')
      <4>1. (RunInvariant /\ node = "END" =>
               /\ GatheredEvidence \in Promise!Evidence
               /\ st.requires_escalation => Promise!MayEscalate(GatheredEvidence)
               /\ ~st.requires_escalation => Promise!MayAutoApprove(GatheredEvidence))'
        BY EvidenceAllowsOutcome, PTL
      <4> QED
        BY <1>2, <3>1, <4>1
    <3>3. Outcome = "pending"
      BY <3>1 DEF Outcome
    <3>4. Outcome' = IF st'.requires_escalation THEN "escalated" ELSE "auto_approved"
      BY <3>1 DEF Outcome
    <3>5. Promise!AutoApprove \/ Promise!Escalate
      BY <3>2, <3>3, <3>4 DEF Promise!AutoApprove, Promise!Escalate
    <3> QED
      BY <3>5 DEF Promise!Next, Promise!Decide
  <2>3. CASE WorkerRaises \/ CheckpointRaises
    <3>1. node \notin {"END", "ERROR"} /\ node' = "ERROR"
      BY <2>3 DEF WorkerRaises, CheckpointRaises, Halt, Running, Workers
    <3>2. Promise!Fail
      BY <3>1 DEF Promise!Fail, Outcome, GatheredEvidence
    <3> QED
      BY <3>2 DEF Promise!Next
  <2>4. CASE RunAgain
    <3>1. node \in {"END", "ERROR"} /\ node' = "classify"
      BY <2>4 DEF RunAgain, Running
    <3>2. Promise!Reopen
      BY <3>1 DEF Promise!Reopen, Outcome, GatheredEvidence, Promise!NoEvidence
    <3> QED
      BY <3>2 DEF Promise!Next
  <2>5. CASE UNCHANGED vars
    BY <2>5 DEF vars, Promise!vars, Outcome, GatheredEvidence
  <2>6. ASSUME Classify \/ Work, ~WorkerRaises PROVE Running /\ Running'
    <3>1. CASE Classify
      BY <1>2, <3>1, RouteIsAWorker
         DEF Classify, ClassifierAnswers, ClassifierCallFails, BackoffElapses,
             ClassifierGivesUp, EnterWorker, Running, Workers
    <3>2. CASE Work
      BY <2>6, <3>2 DEF Work, ToolAnswers, SearchAllAnswers, Retrieve, RetrieveTechnical,
                        DraftReply, Running, Workers
    <3> QED
      BY <2>6, <3>1, <3>2
  <2> QED
    BY <1>2, <2>1, <2>2, <2>3, <2>4, <2>5, <2>6 DEF Next, RunStep
<1>3. Spec => [][RunInvariant /\ RunInvariant' /\ [Next]_vars]_vars
  BY Invariance, PTL DEF Spec
<1> QED
  BY <1>1, <1>2, Invariance, PTL DEF Spec, Promise!Safety
=============================================================================
