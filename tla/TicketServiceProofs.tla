------------------------ MODULE TicketServiceProofs ------------------------
(***************************************************************************)
(* TicketService for any number of tickets and of concurrent requests, any *)
(* faults, and either kind of registry: the type of its state, that a      *)
(* ticket which shows "running" is being run, and that a closed ticket is  *)
(* approved; that verdict and state match when there are no claims, that   *)
(* overlapping runs leave a reviewed thread where nobody edits, and        *)
(* what more a client gets that has one request in flight at a time.       *)
(***************************************************************************)
EXTENDS TicketService, TriageNodesProofs, FiniteSetTheorems

\* A request that is in progress names a ticket.
BusyOnTicket == \A r \in Requests : req[r].pc \in Busy => req[r].ticket \in Tickets

\* The inductive invariant.
ServiceInvariant == TypeOK /\ BusyOnTicket /\ RunningIsOwned /\ ClosedIsApproved

\* What every step of r does to req: r moves, the others stay.
Moves(r) == /\ req' \in [Requests -> RequestStates]
            /\ \A q \in Requests \ {r} : req'[q] = req[q]
            /\ req'[r].ticket = req[r].ticket

-----------------------------------------------------------------------------
(* Types *)

LEMMA BusyPCs ==
    /\ OwnerPCs \subseteq StreamPCs
    /\ StreamPCs \subseteq Busy /\ ActionPCs \subseteq Busy
    /\ "get" \in Busy
    /\ {"idle", "replied", "get"} \cap OwnerPCs = {}
    /\ "replied" \notin Busy /\ "idle" \notin Busy
BY DEF OwnerPCs, StreamPCs, ActionPCs, Busy, RunPCs

LEMMA NewStateType == NewState \in States
<1>1. <<>> \in Seq(LogLines)
  OBVIOUS
<1>2. NoDraft \in [author : Workers \cup Requests \cup {Nobody}, facts : {{}}]
  BY DEF NoDraft, Draft
<1> QED
  BY <1>1, <1>2 DEF NewState, States

LEMMA EmptyThreadType == EmptyThread \in Threads
BY NewStateType DEF EmptyThread, Saved, Threads

LEMMA IdleType == Idle \in RequestStates
<1>1. <<>> \in Seq(LogLines)
  OBVIOUS
<1>2. Absent \in Records
  BY DEF Absent, Record, Records
<1> QED
  BY <1>1, <1>2, EmptyThreadType DEF Idle, RequestStates, Replies

LEMMA WriteInputType ==
    ASSUME NEW s \in States
    PROVE  WriteInput(s) \in States
BY NewStateType DEF WriteInput, States

LEMMA ClassifyType ==
    ASSUME NEW s \in States
    PROVE  /\ ClassifyFailed(s) \in States
           /\ \A intent \in Intents, score \in Scores : Classified(s, intent, score) \in States
<1>1. /\ Append(s.execution_logs, "classified") \in Seq(LogLines)
      /\ Append(s.execution_logs, "classify_failed") \in Seq(LogLines)
  BY DEF States, LogLines, LogTags
<1>2. ASSUME NEW i \in Intents \cup {NoIntent}, NEW c \in Int, NEW l \in Seq(LogLines)
      PROVE  [s EXCEPT !.intent = i, !.confidence_score = c, !.execution_logs = l] \in States
  BY <1>2 DEF States
<1>3. 0 \in Int
  OBVIOUS
<1>4. ClassifyFailed(s) \in States
  BY <1>1, <1>2, <1>3 DEF ClassifyFailed
<1>5. ASSUME NEW intent \in Intents, NEW score \in Scores
      PROVE  Classified(s, intent, score) \in States
  <2>1. score \in Int
    BY ScoresAssumption
  <2> QED
    BY <1>1, <1>2, <2>1 DEF Classified
<1> QED
  BY <1>4, <1>5

LEMMA DraftedType ==
    ASSUME NEW s \in States, NEW w \in Workers, NEW context \in SUBSET {"chunks"}, NEW c \in Int
    PROVE  Drafted(s, w, context, {}, c) \in States
<1>1. DraftedTags(w) \in Seq(LogLines)
  <2> LogTags \subseteq LogLines
    BY DEF LogLines
  <2> HIDE DEF LogTags
  <2> QED
    BY DraftedTagsType
<1>2. s.execution_logs \o DraftedTags(w) \in Seq(LogLines)
  BY <1>1 DEF States
<1> QED
  BY <1>2 DEF Drafted, Draft, States

LEMMA SupervisorReviewType ==
    ASSUME NEW s \in States
    PROVE  SupervisorReview(s) \in States
<1>1. Verdict(s) \in LogLines
  BY DEF Verdict, LogLines, LogTags
<1>2. Append(s.execution_logs, Verdict(s)) \in Seq(LogLines)
  BY <1>1 DEF States
<1>3. Escalates(s) \in BOOLEAN
  BY DEF Escalates, States
<1> QED
  BY <1>2, <1>3 DEF SupervisorReview, States

LEMMA PatchType ==
    ASSUME NEW s \in States, NEW r \in Requests
    PROVE  /\ \A score \in Scores : Edited(s, r, score) \in States
           /\ \A logs \in Seq(LogLines) : Claimed(s, logs) \in States
BY ScoresAssumption DEF Edited, Claimed, Draft, States

-----------------------------------------------------------------------------
(* The building blocks of the actions *)

LEMMA SaveType ==
    ASSUME TypeOK, NEW r \in Requests, NEW status \in Statuses, NEW approved \in BOOLEAN,
           Save(r, status, approved)
    PROVE  /\ registry' \in [Tickets -> Records]
           /\ \A t \in Tickets \ {req[r].ticket} : registry'[t] = registry[t]
           /\ req[r].ticket \in Tickets =>
                  registry'[req[r].ticket] = Record(status, approved)
BY DEF TypeOK, Save, Record, Records

LEMMA PutType ==
    ASSUME TypeOK, NEW r \in Requests, NEW saved \in Threads, Put(r, saved)
    PROVE  checkpoint' \in [Tickets -> Threads]
BY DEF TypeOK, Put

LEMMA AnswerMoves ==
    ASSUME TypeOK, NEW r \in Requests, NEW reply \in Replies, Answer(r, reply)
    PROVE  Moves(r) /\ req'[r].pc = "replied"
<1> DEFINE q == [Idle EXCEPT !.op = req[r].op, !.ticket = req[r].ticket,
                             !.pc = "replied", !.reply = reply]
<1>1. q \in RequestStates /\ q.ticket = req[r].ticket /\ q.pc = "replied"
  BY IdleType DEF TypeOK, RequestStates
<1>2. req' = [req EXCEPT ![r] = q]
  BY DEF Answer
<1> QED
  BY <1>1, <1>2 DEF Moves, TypeOK

LEMMA GotoMoves ==
    ASSUME TypeOK, NEW r \in Requests, NEW pc \in Busy, Goto(r, pc)
    PROVE  Moves(r) /\ req'[r].pc = pc
BY DEF TypeOK, Goto, Moves, RequestStates

LEMMA RecType ==
    ASSUME TypeOK, BusyOnTicket, NEW r \in Requests, req[r].pc \in Busy
    PROVE  Rec(r).approved \in BOOLEAN
<1>1. Absent.approved \in BOOLEAN
  BY DEF Absent, Record
<1>2. Rec(r) \in Records
  BY DEF TypeOK, BusyOnTicket, Rec, RequestStates
<1>3. CASE Rec(r) \in [status : Statuses, approved : BOOLEAN]
  BY <1>3
<1> QED
  BY <1>1, <1>2, <1>3 DEF Records

LEMMA ThreadType ==
    ASSUME TypeOK, BusyOnTicket, NEW r \in Requests, req[r].pc \in Busy
    PROVE  Thread(r) \in Threads
BY DEF TypeOK, BusyOnTicket, Thread

LEMMA NodeReturnsType ==
    ASSUME TypeOK, NEW r \in Requests, NEW values \in States, NEW next \in Busy,
           NodeReturns(r, values, next)
    PROVE  /\ Moves(r) /\ req'[r].pc = next
           /\ checkpoint' \in [Tickets -> Threads]
           /\ UNCHANGED <<registry, faults, abandoned>>
<1>1. Saved(TRUE, values) \in Threads
  BY DEF Saved, Threads
<1>2. checkpoint' \in [Tickets -> Threads]
  BY <1>1, PutType DEF NodeReturns
<1>3. Moves(r) /\ req'[r].pc = next
  BY <1>1 DEF NodeReturns, TypeOK, Moves, RequestStates
<1> QED
  BY <1>2, <1>3 DEF NodeReturns

-----------------------------------------------------------------------------
(* Running tickets have an owner *)

\* A step of r keeps RunningIsOwned if r either goes on owning the ticket it
\* shows as running, or never owned it and leaves the record alone.
LEMMA OwnedStep ==
    ASSUME RunningIsOwned, NEW r \in Requests, Moves(r),
           abandoned \subseteq abandoned',
           \A t \in Tickets \ {req[r].ticket} : registry'[t] = registry[t],
           req[r].ticket \in Tickets /\ registry'[req[r].ticket].status = "running" =>
               \/ req'[r].pc \in OwnerPCs
               \/ req[r].ticket \in abandoned'
               \/ /\ registry'[req[r].ticket] = registry[req[r].ticket]
                  /\ req[r].pc \notin OwnerPCs
    PROVE  RunningIsOwned'
<1> SUFFICES ASSUME NEW t \in Tickets, registry'[t].status = "running", t \notin abandoned'
             PROVE  \E q \in Requests : req'[q].pc \in OwnerPCs /\ req'[q].ticket = t
  BY DEF RunningIsOwned, Owners
<1>1. ASSUME registry'[t] = registry[t]
      PROVE  \E q \in Requests : req[q].pc \in OwnerPCs /\ req[q].ticket = t
  BY <1>1 DEF RunningIsOwned, Owners
<1>2. CASE t # req[r].ticket
  BY <1>1, <1>2 DEF Moves
<1>3. CASE t = req[r].ticket /\ req'[r].pc \in OwnerPCs
  BY <1>3 DEF Moves
<1>4. CASE t = req[r].ticket /\ registry'[t] = registry[t] /\ req[r].pc \notin OwnerPCs
  BY <1>1, <1>4 DEF Moves
<1> QED
  BY <1>2, <1>3, <1>4

\* A step that saves nothing keeps it, unless it is an owner that gives up
\* without its ticket being marked abandoned.
LEMMA QuietStep ==
    ASSUME ServiceInvariant, NEW r \in Requests, Moves(r),
           checkpoint' \in [Tickets -> Threads], faults' \in Nat,
           UNCHANGED registry,
           abandoned \subseteq abandoned' /\ abandoned' \subseteq Tickets,
           req[r].pc \in Busy,
           req[r].pc \in OwnerPCs => req'[r].pc \in OwnerPCs \/ req[r].ticket \in abandoned'
    PROVE  ServiceInvariant'
<1>1. TypeOK'
  BY DEF ServiceInvariant, TypeOK, Moves
<1>2. BusyOnTicket'
  BY DEF ServiceInvariant, BusyOnTicket, Moves
<1>3. RunningIsOwned'
  BY OwnedStep DEF ServiceInvariant
<1>4. ClosedIsApproved'
  BY DEF ServiceInvariant, ClosedIsApproved
<1> QED
  BY <1>1, <1>2, <1>3, <1>4 DEF ServiceInvariant

\* A step that saves the record keeps it if r then owns a "running" ticket, and
\* "closed" goes together with approved.
LEMMA SavingStep ==
    ASSUME ServiceInvariant, NEW r \in Requests, Moves(r),
           NEW status \in Statuses, NEW approved \in BOOLEAN, Save(r, status, approved),
           UNCHANGED <<checkpoint, faults, abandoned>>,
           req[r].pc \in Busy,
           status = "running" => req'[r].pc \in OwnerPCs,
           status = "closed" => approved
    PROVE  ServiceInvariant'
<1>1. /\ registry' \in [Tickets -> Records]
      /\ \A t \in Tickets \ {req[r].ticket} : registry'[t] = registry[t]
      /\ req[r].ticket \in Tickets => registry'[req[r].ticket] = Record(status, approved)
  BY SaveType DEF ServiceInvariant
<1>2. TypeOK'
  BY <1>1 DEF ServiceInvariant, TypeOK, Moves
<1>3. BusyOnTicket'
  BY DEF ServiceInvariant, BusyOnTicket, Moves
<1>4. RunningIsOwned'
  BY <1>1, OwnedStep DEF ServiceInvariant, Record
<1>5. ClosedIsApproved'
  BY <1>1 DEF ServiceInvariant, ClosedIsApproved, Record
<1> QED
  BY <1>2, <1>3, <1>4, <1>5 DEF ServiceInvariant

-----------------------------------------------------------------------------
(* One lemma per group of actions *)

LEMMA InitInvariant == Init => ServiceInvariant
<1> SUFFICES ASSUME Init PROVE ServiceInvariant
  OBVIOUS
<1>1. TypeOK
  <2>1. Absent \in Records
    BY DEF Absent, Record, Records
  <2> QED
    BY <2>1, IdleType, EmptyThreadType DEF Init, TypeOK
<1>2. BusyOnTicket
  BY BusyPCs DEF Init, BusyOnTicket, Idle
<1>3. RunningIsOwned /\ ClosedIsApproved
  BY DEF Init, RunningIsOwned, ClosedIsApproved, Absent, Record
<1> QED
  BY <1>1, <1>2, <1>3 DEF ServiceInvariant

\* A new ticket is pending.
LEMMA CreateInvariant ==
    ASSUME ServiceInvariant, NEW t \in Tickets, CreateTicket(t)
    PROVE  ServiceInvariant'
<1>1. registry' \in [Tickets -> Records]
  BY DEF ServiceInvariant, TypeOK, CreateTicket, Record, Records, Statuses
<1>2. TypeOK'
  BY <1>1 DEF ServiceInvariant, TypeOK, CreateTicket
<1>3. \A u \in Tickets : registry'[u] = registry[u] \/ registry'[u] = Record("pending", FALSE)
  BY DEF ServiceInvariant, TypeOK, CreateTicket
<1>4. BusyOnTicket' /\ RunningIsOwned' /\ ClosedIsApproved'
  BY <1>3 DEF ServiceInvariant, CreateTicket, BusyOnTicket, RunningIsOwned,
              ClosedIsApproved, Owners, Record
<1> QED
  BY <1>2, <1>4 DEF ServiceInvariant

\* An idle request takes a ticket; it owns none yet.
LEMMA ReceiveInvariant ==
    ASSUME ServiceInvariant, NEW r \in Requests, NEW op \in Ops, NEW t \in Tickets,
           Receive(r, op, t)
    PROVE  ServiceInvariant'
<1> DEFINE q == [Idle EXCEPT !.op = op, !.ticket = t, !.pc = "get"]
<1>1. q \in RequestStates /\ q.pc = "get" /\ q.ticket = t
  BY IdleType, BusyPCs DEF RequestStates
<1>2. /\ req' = [req EXCEPT ![r] = q]
      /\ req[r].pc = "idle"
      /\ UNCHANGED <<registry, checkpoint, faults, abandoned>>
  BY DEF Receive, At
<1> HIDE DEF q
<1>3. TypeOK'
  BY <1>1, <1>2 DEF ServiceInvariant, TypeOK
<1>4. BusyOnTicket'
  BY <1>1, <1>2 DEF ServiceInvariant, TypeOK, BusyOnTicket
<1>5. \A p \in Owners : p \in Owners' /\ req'[p].ticket = req[p].ticket
  BY <1>1, <1>2, BusyPCs DEF ServiceInvariant, TypeOK, Owners
<1>6. RunningIsOwned' /\ ClosedIsApproved'
  BY <1>2, <1>5 DEF ServiceInvariant, RunningIsOwned, ClosedIsApproved
<1> QED
  BY <1>3, <1>4, <1>6 DEF ServiceInvariant

LEMMA LookupInvariant ==
    ASSUME ServiceInvariant, NEW r \in Requests, Lookup(r)
    PROVE  ServiceInvariant'
<1>1. req[r].pc = "get" /\ UNCHANGED <<registry, checkpoint, faults, abandoned>>
  BY DEF Lookup, At
<1>2. Moves(r)
  <2>1. CASE Registered(req[r].ticket)
    <3>1. FirstPC(req[r].op) \in Busy
      BY DEF FirstPC, Busy, StreamPCs, ActionPCs
    <3>2. (IF Durable THEN registry[req[r].ticket] ELSE Absent) \in Records
      BY <1>1, BusyPCs DEF ServiceInvariant, TypeOK, BusyOnTicket, Absent, Record, Records
    <3> DEFINE rec == IF Durable THEN registry[req[r].ticket] ELSE Absent
               pc == FirstPC(req[r].op)
    <3>3. req' = [req EXCEPT ![r] = [@ EXCEPT !.pc = pc, !.rec = rec]]
      BY <2>1 DEF Lookup
    <3> HIDE DEF rec, pc
    <3>4. pc \in Busy /\ rec \in Records
      BY <3>1, <3>2 DEF rec, pc
    <3> QED
      BY <3>3, <3>4 DEF ServiceInvariant, TypeOK, Moves, RequestStates
  <2>2. CASE ~Registered(req[r].ticket)
    BY <2>2, AnswerMoves DEF Lookup, ServiceInvariant, Replies
  <2> QED
    BY <2>1, <2>2
<1> QED
  BY <1>1, <1>2, QuietStep, BusyPCs DEF ServiceInvariant, TypeOK

\* The four steps of a run that end with a checkpoint.
LEMMA NodeInvariant ==
    ASSUME ServiceInvariant, NEW r \in Requests,
           RunInput(r) \/ RunClassify(r) \/ RunWorker(r) \/ RunReview(r)
    PROVE  ServiceInvariant'
<1> DEFINE s == req[r].state.values
<1>1. s \in States
  BY DEF ServiceInvariant, TypeOK, RequestStates, Threads
<1>2. req[r].pc \in RunPCs
  BY DEF RunInput, RunClassify, RunWorker, RunReview, At, RunPCs
<1>3. \E values \in States, next \in RunPCs \cup {"finish"} : NodeReturns(r, values, next)
  <2>1. CASE RunInput(r)
    BY <1>1, <2>1, WriteInputType DEF RunInput, RunPCs
  <2>2. CASE RunClassify(r)
    BY <1>1, <2>2, ClassifyType DEF RunClassify, RunPCs
  <2>3. CASE RunWorker(r)
    <3>1. PICK context \in SUBSET {"chunks"} :
              \E c \in CombineConfidence(s.confidence_score, context # {}) :
                  NodeReturns(r, Drafted(s, RouteByIntent(s), context, {}, c), "supervisor")
      BY <2>3 DEF RunWorker
    <3>2. PICK c \in CombineConfidence(s.confidence_score, context # {}) :
                  NodeReturns(r, Drafted(s, RouteByIntent(s), context, {}, c), "supervisor")
      BY <3>1
    <3>3. s.confidence_score \in Int
      BY <1>1 DEF States
    <3>4. c \in Int
      BY <3>2, <3>3, CombineBounds
    <3>5. Drafted(s, RouteByIntent(s), context, {}, c) \in States
      BY <1>1, <3>4, RouteIsAWorker, DraftedType
    <3> QED
      BY <3>2, <3>5 DEF RunPCs
  <2>4. CASE RunReview(r)
    BY <1>1, <2>4, SupervisorReviewType DEF RunReview
  <2> QED
    BY <2>1, <2>2, <2>3, <2>4
<1>4. PICK values \in States, next \in RunPCs \cup {"finish"} : NodeReturns(r, values, next)
  BY <1>3
<1>5. next \in OwnerPCs /\ next \in Busy
  BY BusyPCs DEF OwnerPCs
<1>6. /\ Moves(r) /\ req'[r].pc = next
      /\ checkpoint' \in [Tickets -> Threads]
      /\ UNCHANGED <<registry, faults, abandoned>>
  BY <1>4, <1>5, NodeReturnsType DEF ServiceInvariant
<1>7. req[r].pc \in Busy
  BY <1>2, BusyPCs DEF OwnerPCs
<1> QED
  BY <1>5, <1>6, <1>7, QuietStep DEF ServiceInvariant, TypeOK

\* The steps of a stream that save the record.
LEMMA StreamSaveInvariant ==
    ASSUME ServiceInvariant, NEW r \in Requests, OpenRun(r) \/ Finish(r) \/ Fail(r)
    PROVE  ServiceInvariant'
<1>1. req[r].pc \in Busy
  BY BusyPCs DEF OpenRun, Finish, Fail, At, StreamPCs
<1>2. Rec(r).approved \in BOOLEAN
  BY <1>1, RecType DEF ServiceInvariant
<1>3. UNCHANGED <<checkpoint, faults, abandoned>>
  BY DEF OpenRun, Finish, Fail
<1>4. {"running", "done", "error"} \subseteq Statuses
  BY DEF Statuses
<1>5. CASE OpenRun(r)
  <2>1. "begin" \in OwnerPCs /\ "begin" \in Busy
    BY BusyPCs DEF OwnerPCs, RunPCs
  <2>2. Moves(r) /\ req'[r].pc = "begin"
    BY <1>5, <2>1, GotoMoves DEF OpenRun, ServiceInvariant
  <2> QED
    BY <1>1, <1>2, <1>3, <1>4, <1>5, <2>1, <2>2, SavingStep DEF OpenRun
<1>6. CASE Finish(r)
  <2>1. "send_done" \in Busy
    BY DEF Busy, StreamPCs
  <2>2. req' = [req EXCEPT ![r] = [@ EXCEPT !.pc = "send_done", !.state = EmptyThread]]
    BY <1>6 DEF Finish
  <2>3. Moves(r)
    BY <2>1, <2>2, EmptyThreadType DEF ServiceInvariant, TypeOK, Moves, RequestStates
  <2> QED
    BY <1>1, <1>2, <1>3, <1>4, <1>6, <2>3, SavingStep DEF Finish
<1>7. CASE Fail(r)
  <2>1. Moves(r)
    BY <1>7, AnswerMoves DEF Fail, ServiceInvariant, Replies
  <2> QED
    BY <1>1, <1>2, <1>3, <1>4, <1>7, <2>1, SavingStep DEF Fail
<1> QED
  BY <1>5, <1>6, <1>7

\* The steps of a stream that only move it on.
LEMMA StreamQuietInvariant ==
    ASSUME ServiceInvariant, NEW r \in Requests,
           OpenReplay(r) \/ RunBegin(r) \/ SendDone(r) \/ Replay(r)
    PROVE  ServiceInvariant'
<1>1. req[r].pc \in Busy
  BY BusyPCs DEF OpenReplay, RunBegin, SendDone, Replay, At, StreamPCs, RunPCs
<1>2. UNCHANGED <<registry, checkpoint, faults, abandoned>>
  BY DEF OpenReplay, RunBegin, SendDone, Replay
<1>3. {"replay", "input", "fail"} \subseteq Busy /\ {"input", "fail"} \subseteq OwnerPCs
  BY BusyPCs DEF StreamPCs, OwnerPCs, RunPCs
<1>4. {"done", "broken"} \subseteq Replies
  BY DEF Replies
<1>5. CASE OpenReplay(r)
  <2>1. Moves(r) /\ req[r].pc \notin OwnerPCs
    BY <1>3, <1>5, GotoMoves DEF OpenReplay, ServiceInvariant, At, OwnerPCs, RunPCs
  <2> QED
    BY <1>1, <1>2, <2>1, QuietStep DEF ServiceInvariant, TypeOK
<1>6. CASE RunBegin(r)
  <2>1. Thread(r) \in Threads
    BY <1>1, ThreadType DEF ServiceInvariant
  <2>2. req' = [req EXCEPT ![r] = [@ EXCEPT !.pc = "input", !.state = Thread(r)]]
    BY <1>6 DEF RunBegin
  <2>3. Moves(r) /\ req'[r].pc \in OwnerPCs
    BY <1>3, <2>1, <2>2 DEF ServiceInvariant, TypeOK, Moves, RequestStates
  <2> QED
    BY <1>1, <1>2, <2>3, QuietStep DEF ServiceInvariant, TypeOK
<1>7. CASE SendDone(r)
  <2>1. Moves(r) /\ req[r].pc \notin OwnerPCs
    BY <1>3, <1>4, <1>7, AnswerMoves, GotoMoves
       DEF SendDone, ServiceInvariant, At, OwnerPCs, RunPCs
  <2> QED
    BY <1>1, <1>2, <2>1, QuietStep DEF ServiceInvariant, TypeOK
<1>8. CASE Replay(r)
  <2>1. (IF Thread(r).complete THEN "done" ELSE "broken") \in Replies
    BY <1>4
  <2>2. Moves(r) /\ req[r].pc \notin OwnerPCs
    BY <1>8, <2>1, AnswerMoves DEF Replay, ServiceInvariant, At, OwnerPCs, RunPCs
  <2> QED
    BY <1>1, <1>2, <2>2, QuietStep DEF ServiceInvariant, TypeOK
<1> QED
  BY <1>5, <1>6, <1>7, <1>8

\* The operator's actions: approve saves the record, the others leave it alone.
LEMMA ActionInvariant ==
    ASSUME ServiceInvariant, NEW r \in Requests, ActionStep(r)
    PROVE  ServiceInvariant'
<1>1. req[r].pc \in ActionPCs /\ req[r].pc \in Busy /\ req[r].pc \notin OwnerPCs
  BY DEF ActionStep, ApproveTicket, Rescore, ReadLogs, UpdateReadsBase, UpdatePuts,
         ReadState, At, ActionPCs, Busy, OwnerPCs, RunPCs
<1>2. {"200", "500", "502"} \subseteq Replies
  BY DEF Replies
<1>3. {"read_base", "put", "read_state"} \subseteq Busy
  BY DEF Busy, ActionPCs
<1>4. Thread(r) \in Threads
  BY <1>1, ThreadType DEF ServiceInvariant
<1>5. CASE ApproveTicket(r)
  <2>1. Moves(r)
    BY <1>2, <1>5, AnswerMoves DEF ApproveTicket, ServiceInvariant
  <2> QED
    BY <1>1, <1>5, <2>1, SavingStep DEF ApproveTicket, Statuses
<1>6. ASSUME Moves(r), checkpoint' \in [Tickets -> Threads],
             UNCHANGED <<registry, faults, abandoned>>
      PROVE  ServiceInvariant'
  BY <1>1, <1>6, QuietStep DEF ServiceInvariant, TypeOK
<1>7. CASE Rescore(r)
  <2>1. Moves(r)
    BY <1>2, <1>3, <1>7, AnswerMoves, GotoMoves DEF Rescore, ServiceInvariant
  <2> QED
    BY <1>6, <1>7, <2>1 DEF Rescore, ServiceInvariant, TypeOK
<1>8. CASE ReadLogs(r)
  <2>1. CASE Thread(r).complete
    <3> DEFINE logs == Append(Thread(r).values.execution_logs, r)
    <3>1. logs \in Seq(LogLines)
      BY <1>4 DEF Threads, States, LogLines
    <3>2. req' = [req EXCEPT ![r] = [@ EXCEPT !.pc = "read_base", !.logs = logs]]
      BY <1>8, <2>1 DEF ReadLogs
    <3> HIDE DEF logs
    <3>3. Moves(r)
      BY <1>3, <3>1, <3>2 DEF ServiceInvariant, TypeOK, Moves, RequestStates
    <3> QED
      BY <1>6, <1>8, <3>3 DEF ReadLogs, ServiceInvariant, TypeOK
  <2>2. CASE ~Thread(r).complete
    <3>1. Moves(r)
      BY <1>2, <1>8, <2>2, AnswerMoves DEF ReadLogs, ServiceInvariant
    <3> QED
      BY <1>6, <1>8, <3>1 DEF ReadLogs, ServiceInvariant, TypeOK
  <2> QED
    BY <2>1, <2>2
<1>9. CASE UpdateReadsBase(r)
  <2>1. req' = [req EXCEPT ![r] = [@ EXCEPT !.pc = "put", !.state = Thread(r)]]
    BY <1>9 DEF UpdateReadsBase
  <2>2. Moves(r)
    BY <1>3, <1>4, <2>1 DEF ServiceInvariant, TypeOK, Moves, RequestStates
  <2> QED
    BY <1>6, <1>9, <2>2 DEF UpdateReadsBase, ServiceInvariant, TypeOK
<1>10. CASE UpdatePuts(r)
  <2> DEFINE base == req[r].state
  <2>1. /\ base \in Threads /\ base.complete \in BOOLEAN /\ base.values \in States
        /\ req[r].logs \in Seq(LogLines)
    BY DEF ServiceInvariant, TypeOK, RequestStates, Threads
  <2>2. \E saved \in Threads : Put(r, saved)
    BY <1>10, <2>1, PatchType DEF UpdatePuts, Saved, Threads
  <2>3. checkpoint' \in [Tickets -> Threads]
    BY <2>2, PutType DEF ServiceInvariant
  <2>4. req' = [req EXCEPT ![r] = [@ EXCEPT !.pc = "read_state", !.state = EmptyThread,
                                           !.logs = <<>>]]
    BY <1>10 DEF UpdatePuts
  <2>5. Moves(r)
    <3>1. EmptyThread \in Threads /\ <<>> \in Seq(LogLines) /\ "read_state" \in Busy
      BY <1>3, EmptyThreadType
    <3>2. [req[r] EXCEPT !.pc = "read_state", !.state = EmptyThread, !.logs = <<>>]
              \in RequestStates
      BY <3>1 DEF ServiceInvariant, TypeOK, RequestStates
    <3>3. [req[r] EXCEPT !.pc = "read_state", !.state = EmptyThread, !.logs = <<>>].ticket
              = req[r].ticket
      BY DEF ServiceInvariant, TypeOK, RequestStates
    <3> QED
      BY <2>4, <3>2, <3>3 DEF ServiceInvariant, TypeOK, Moves
  <2> QED
    BY <1>6, <1>10, <2>3, <2>5 DEF UpdatePuts
<1>11. CASE ReadState(r)
  <2>1. (IF Thread(r).complete THEN "200" ELSE "500") \in Replies
    BY <1>2
  <2>2. Moves(r)
    BY <1>11, <2>1, AnswerMoves DEF ReadState, ServiceInvariant
  <2> QED
    BY <1>6, <1>11, <2>2 DEF ReadState, ServiceInvariant, TypeOK
<1> QED
  BY <1>5, <1>7, <1>8, <1>9, <1>10, <1>11 DEF ActionStep

\* Exceptions and disconnects: a run that is cut off leaves its ticket among
\* the abandoned, one that raises goes on to its error path.
LEMMA FaultInvariant ==
    ASSUME ServiceInvariant, NEW r \in Requests,
           RunRaises(r) \/ StoreRaises(r) \/ Disconnect(r)
    PROVE  ServiceInvariant'
<1>1. req[r].pc \in Busy
  BY BusyPCs DEF RunRaises, StoreRaises, Disconnect, At, StreamPCs, RunPCs, Busy, ActionPCs
<1>2. req[r].ticket \in Tickets
  BY <1>1 DEF ServiceInvariant, BusyOnTicket
<1>3. faults' \in Nat /\ UNCHANGED <<registry, checkpoint>>
  BY DEF RunRaises, StoreRaises, Disconnect, Fault, ServiceInvariant, TypeOK
<1>4. CASE RunRaises(r)
  <2>1. req' = [req EXCEPT ![r] = [@ EXCEPT !.pc = "fail", !.state = EmptyThread]]
    BY <1>4 DEF RunRaises
  <2>2. "fail" \in Busy /\ "fail" \in OwnerPCs
    BY BusyPCs DEF OwnerPCs
  <2>3. Moves(r) /\ req'[r].pc = "fail"
    BY <2>1, <2>2, EmptyThreadType DEF ServiceInvariant, TypeOK, Moves, RequestStates
  <2> QED
    BY <1>1, <1>3, <1>4, <2>2, <2>3, QuietStep DEF RunRaises, ServiceInvariant, TypeOK
<1>5. CASE StoreRaises(r) \/ Disconnect(r)
  <2>1. Moves(r)
    BY <1>5, AnswerMoves DEF StoreRaises, Disconnect, ServiceInvariant, Replies
  <2>2. /\ abandoned \subseteq abandoned' /\ abandoned' \subseteq Tickets
        /\ req[r].pc \in OwnerPCs => req[r].ticket \in abandoned'
    BY <1>2, <1>5 DEF StoreRaises, Disconnect, Abandon, Owners, ServiceInvariant, TypeOK
  <2> QED
    BY <1>1, <1>3, <2>1, <2>2, QuietStep DEF ServiceInvariant, TypeOK
<1> QED
  BY <1>4, <1>5

\* A restart: no request is in progress any more, and what was running is
\* abandoned or, in memory, gone.
LEMMA CrashInvariant ==
    ASSUME ServiceInvariant, Crash
    PROVE  ServiceInvariant'
<1> DEFINE q(r) == [Idle EXCEPT !.op = req[r].op, !.ticket = req[r].ticket,
                                !.pc = "replied", !.reply = "lost"]
<1>1. \A r \in Requests : q(r) \in RequestStates /\ q(r).pc = "replied"
  BY IdleType DEF ServiceInvariant, TypeOK, RequestStates, Replies
<1>2. req' = [r \in Requests |-> IF req[r].pc \in Busy THEN q(r) ELSE req[r]]
  BY DEF Crash
<1> HIDE DEF q
<1>3. req' \in [Requests -> RequestStates] /\ \A r \in Requests : req'[r].pc \notin Busy
  BY <1>1, <1>2, BusyPCs DEF ServiceInvariant, TypeOK
<1>4. faults' \in Nat
  <2>1. faults' = faults + 1
    BY DEF Crash, Fault
  <2>2. faults \in Nat
    BY DEF ServiceInvariant, TypeOK
  <2> QED
    BY <2>1, <2>2
<1>5. BusyOnTicket'
  BY <1>3 DEF BusyOnTicket
<1>6. CASE Durable
  <2>1. /\ UNCHANGED <<registry, checkpoint>>
        /\ abandoned' = abandoned \cup {req[r].ticket : r \in Owners}
    BY <1>6 DEF Crash
  <2>2. \A r \in Owners : req[r].ticket \in Tickets
    BY BusyPCs DEF Owners, ServiceInvariant, BusyOnTicket
  <2>3. TypeOK'
    BY <1>3, <1>4, <2>1, <2>2 DEF ServiceInvariant, TypeOK
  <2>4. RunningIsOwned' /\ ClosedIsApproved'
    BY <2>1 DEF ServiceInvariant, RunningIsOwned, ClosedIsApproved
  <2> QED
    BY <1>5, <2>3, <2>4 DEF ServiceInvariant
<1>7. CASE ~Durable
  <2>1. /\ registry' = [t \in Tickets |-> Absent]
        /\ checkpoint' = [t \in Tickets |-> EmptyThread]
        /\ abandoned' = {}
    BY <1>7 DEF Crash
  <2>2. Absent \in Records /\ Absent.status = "absent"
    BY DEF Absent, Record, Records
  <2>3. TypeOK'
    BY <1>3, <1>4, <2>1, <2>2, EmptyThreadType DEF TypeOK
  <2>4. RunningIsOwned' /\ ClosedIsApproved'
    BY <2>1, <2>2 DEF RunningIsOwned, ClosedIsApproved
  <2> QED
    BY <1>5, <2>3, <2>4 DEF ServiceInvariant
<1> QED
  BY <1>6, <1>7

-----------------------------------------------------------------------------
(* The theorems *)

LEMMA StepInvariant == ServiceInvariant /\ [Next]_vars => ServiceInvariant'
<1> SUFFICES ASSUME ServiceInvariant, [Next]_vars PROVE ServiceInvariant'
  OBVIOUS
<1>1. CASE \E t \in Tickets : CreateTicket(t)
  BY <1>1, CreateInvariant
<1>2. CASE \E r \in Requests, op \in Ops, t \in Tickets : Receive(r, op, t)
  BY <1>2, ReceiveInvariant
<1>3. ASSUME NEW r \in Requests, Step(r) \/ Disconnect(r)
      PROVE  ServiceInvariant'
  <2>1. CASE Lookup(r)
    BY <2>1, LookupInvariant
  <2>2. CASE StreamStep(r)
    BY <2>2, StreamSaveInvariant, StreamQuietInvariant, NodeInvariant DEF StreamStep
  <2>3. CASE ActionStep(r)
    BY <2>3, ActionInvariant
  <2>4. CASE RunRaises(r) \/ StoreRaises(r) \/ Disconnect(r)
    BY <2>4, FaultInvariant
  <2> QED
    BY <1>3, <2>1, <2>2, <2>3, <2>4 DEF Step
<1>4. CASE Crash
  BY <1>4, CrashInvariant
<1>5. CASE UNCHANGED vars
  BY <1>5 DEF vars, ServiceInvariant, TypeOK, BusyOnTicket, RunningIsOwned,
              ClosedIsApproved, Owners
<1> QED
  BY <1>1, <1>2, <1>3, <1>4, <1>5 DEF Next

\* The inductive invariant holds in every reachable state.
THEOREM Invariance == Spec => []ServiceInvariant
<1>1. Init => ServiceInvariant
  BY InitInvariant
<1>2. ServiceInvariant /\ [Next]_vars => ServiceInvariant'
  BY StepInvariant
<1> QED
  BY <1>1, <1>2, PTL DEF Spec

\* Every variable keeps its type.
THEOREM TypeCorrectness == Spec => []TypeOK
<1>1. ServiceInvariant => TypeOK
  BY DEF ServiceInvariant
<1> QED
  BY <1>1, Invariance, PTL

\* main.py:192-210: however streams, operator actions, stale copies of the record
\* and faults interleave, a ticket that shows "running" is being run by a request
\* unless a run of it was cut off.
THEOREM RunningTicketsAreOwned == Spec => []RunningIsOwned
<1>1. ServiceInvariant => RunningIsOwned
  BY DEF ServiceInvariant
<1> QED
  BY <1>1, Invariance, PTL

\* main.py:235-237: whatever copy of the record is saved last, a ticket that
\* shows "closed" is approved.
THEOREM ClosedTicketsAreApproved == Spec => []ClosedIsApproved
<1>1. ServiceInvariant => ClosedIsApproved
  BY DEF ServiceInvariant
<1> QED
  BY <1>1, Invariance, PTL

\* The steps that write the registry.
LEMMA RegistryWriters ==
    ASSUME [Next]_vars
    PROVE  \/ UNCHANGED registry
           \/ \E t \in Tickets : CreateTicket(t)
           \/ \E r \in Requests : OpenRun(r) \/ Finish(r) \/ Fail(r) \/ ApproveTicket(r)
           \/ Crash
<1>1. ASSUME NEW r \in Requests, Step(r) \/ Disconnect(r)
      PROVE  \/ UNCHANGED registry
             \/ OpenRun(r) \/ Finish(r) \/ Fail(r) \/ ApproveTicket(r)
  <2>1. CASE Lookup(r) \/ RunRaises(r) \/ StoreRaises(r) \/ Disconnect(r)
    BY <2>1 DEF Lookup, RunRaises, StoreRaises, Disconnect
  <2>2. CASE StreamStep(r)
    BY <2>2 DEF StreamStep, OpenReplay, RunBegin, RunInput, RunClassify, RunWorker,
                RunReview, NodeReturns, SendDone, Replay
  <2>3. CASE ActionStep(r)
    BY <2>3 DEF ActionStep, Rescore, ReadLogs, UpdateReadsBase, UpdatePuts, ReadState
  <2> QED
    BY <1>1, <2>1, <2>2, <2>3 DEF Step
<1>2. CASE \E r \in Requests, op \in Ops, t \in Tickets : Receive(r, op, t)
  BY <1>2 DEF Receive
<1>3. CASE UNCHANGED vars
  BY <1>3 DEF vars
<1> QED
  BY <1>1, <1>2, <1>3 DEF Next

\* In memory a save by a run carries the approval the record has at that moment,
\* because every request holds the one object.
LEMMA MemorySaves ==
    ASSUME ~Durable, ServiceInvariant, NEW r \in Requests,
           OpenRun(r) \/ Finish(r) \/ Fail(r) \/ ApproveTicket(r)
    PROVE  LET t == req[r].ticket
           IN  /\ t \in Tickets
               /\ \A u \in Tickets \ {t} : registry'[u] = registry[u]
               /\ registry[t].approved => registry'[t].approved
<1> DEFINE t == req[r].ticket
<1>1. req[r].pc \in Busy
  BY BusyPCs DEF OpenRun, Finish, Fail, ApproveTicket, At, StreamPCs, Busy, ActionPCs
<1>2. t \in Tickets /\ Rec(r) = registry[t] /\ Rec(r).approved \in BOOLEAN
  BY <1>1, RecType DEF ServiceInvariant, BusyOnTicket, Rec
<1>3. {"running", "done", "error", "closed"} \subseteq Statuses
  BY DEF Statuses
<1>4. PICK status \in Statuses, approved \in BOOLEAN :
          /\ Save(r, status, approved)
          /\ Rec(r).approved => approved
  BY <1>2, <1>3 DEF OpenRun, Finish, Fail, ApproveTicket
<1>5. /\ \A u \in Tickets \ {t} : registry'[u] = registry[u]
      /\ registry'[t] = Record(status, approved)
  BY <1>2, <1>4, SaveType DEF ServiceInvariant
<1> QED
  BY <1>2, <1>4, <1>5 DEF Record

\* With the in-memory registry no interleaving and no fault short of losing the
\* registry takes an approval back (main.py:236).
THEOREM ApprovalSticksInMemory ==
    ASSUME ~Durable
    PROVE  Spec => ApprovalSticks
<1> DEFINE Sticks == \A t \in Tickets :
                         registry[t].approved => registry'[t].approved \/ registry'[t] = Absent
<1>1. ServiceInvariant /\ [Next]_vars => [Sticks]_vars
  <2> SUFFICES ASSUME ServiceInvariant, [Next]_vars PROVE Sticks
    OBVIOUS
  <2>1. CASE UNCHANGED registry
    BY <2>1
  <2>2. ASSUME NEW t \in Tickets, CreateTicket(t) PROVE Sticks
    BY <2>2 DEF CreateTicket, Registered, ServiceInvariant, TypeOK, Records, Statuses,
                Absent, Record
  <2>3. ASSUME NEW r \in Requests, OpenRun(r) \/ Finish(r) \/ Fail(r) \/ ApproveTicket(r)
        PROVE  Sticks
    BY <2>3, MemorySaves
  <2>4. CASE Crash
    BY <2>4 DEF Crash
  <2> QED
    BY <2>1, <2>2, <2>3, <2>4, RegistryWriters
<1> QED
  BY <1>1, Invariance, PTL DEF Spec, ApprovalSticks

-----------------------------------------------------------------------------
(* What a step of a request does to it *)

\* r keeps its operation and ticket, the other requests stay.
Turn(r) == /\ \A q \in Requests \ {r} : req'[q] = req[q]
           /\ req'[r].op = req[r].op /\ req'[r].ticket = req[r].ticket

LEMMA AnswerTurn ==
    ASSUME TypeOK, NEW r \in Requests, NEW reply, Answer(r, reply)
    PROVE  Turn(r) /\ req'[r].pc = "replied" /\ req'[r].reply = reply
BY DEF TypeOK, Answer, Turn, Idle

LEMMA GotoTurn ==
    ASSUME TypeOK, NEW r \in Requests, NEW pc, Goto(r, pc)
    PROVE  Turn(r) /\ req'[r].pc = pc /\ req'[r].reply = req[r].reply
BY DEF TypeOK, Goto, Turn, RequestStates

LEMMA NodeTurn ==
    ASSUME TypeOK, NEW r \in Requests, NEW values, NEW next, NodeReturns(r, values, next)
    PROVE  Turn(r) /\ req'[r].pc = next /\ req'[r].reply = req[r].reply
BY DEF TypeOK, NodeReturns, Turn, RequestStates

\* A request in progress goes on or is replied to.  It enters the frames of a
\* stream only as one, and an approval has one step after its lookup.
Proceeds(r) ==
    /\ Turn(r)
    /\ req[r].pc \in Busy
    /\ req'[r].pc \in Busy \cup {"replied"}
    /\ req'[r].pc \in StreamPCs => req[r].pc \in StreamPCs \/ req[r].op = "stream"
    /\ req[r].op = "approve" /\ req[r].pc \in {"get", "close"} =>
           /\ req'[r].pc \in {"close", "replied"}
           /\ req'[r].reply = "200" /\ req[r].reply # "200" => ApproveTicket(r)

LEMMA LookupProceeds ==
    ASSUME TypeOK, NEW r \in Requests, Lookup(r)
    PROVE  Proceeds(r)
<1>1. req[r].pc = "get" /\ "get" \in Busy
  BY BusyPCs DEF Lookup, At
<1>2. CASE Registered(req[r].ticket)
  <2>1. Turn(r) /\ req'[r].pc = FirstPC(req[r].op) /\ req'[r].reply = req[r].reply
    BY <1>2 DEF Lookup, TypeOK, Turn, RequestStates
  <2>2. /\ FirstPC(req[r].op) \in Busy
        /\ FirstPC(req[r].op) \in StreamPCs => req[r].op = "stream"
        /\ req[r].op = "approve" => FirstPC(req[r].op) = "close"
    BY DEF FirstPC, Busy, StreamPCs, RunPCs, ActionPCs
  <2> QED
    BY <1>1, <2>1, <2>2 DEF Proceeds
<1>3. CASE ~Registered(req[r].ticket)
  <2>1. Answer(r, "404")
    BY <1>3 DEF Lookup
  <2>2. "replied" \notin StreamPCs
    BY BusyPCs
  <2> QED
    BY <1>1, <2>1, <2>2, AnswerTurn DEF Proceeds
<1> QED
  BY <1>2, <1>3

LEMMA StreamProceeds ==
    ASSUME TypeOK, NEW r \in Requests, StreamStep(r)
    PROVE  Proceeds(r) /\ req[r].pc \in StreamPCs
<1>1. /\ req[r].pc \in StreamPCs /\ req[r].pc \in Busy /\ req[r].pc \notin {"get", "close"}
  BY DEF StreamStep, OpenReplay, OpenRun, RunBegin, RunInput, RunClassify, RunWorker, RunReview,
         Finish, SendDone, Fail, Replay, At, StreamPCs, RunPCs, Busy
<1>2. {"replay", "begin", "input", "classify", "worker", "supervisor", "finish", "send_done",
       "fail"} \subseteq Busy
  BY DEF StreamPCs, RunPCs, Busy
<1>3. Turn(r) /\ req'[r].pc \in Busy \cup {"replied"}
  <2>1. CASE OpenReplay(r) \/ OpenRun(r)
    BY <1>2, <2>1, GotoTurn DEF OpenReplay, OpenRun
  <2>2. CASE RunBegin(r) \/ Finish(r)
    BY <1>2, <2>2 DEF RunBegin, Finish, TypeOK, Turn, RequestStates
  <2>3. CASE RunInput(r)
    BY <1>2, <2>3, NodeTurn DEF RunInput
  <2>4. CASE RunClassify(r)
    BY <1>2, <2>4, NodeTurn DEF RunClassify
  <2>5. CASE RunWorker(r)
    <3>1. PICK values : NodeReturns(r, values, "supervisor")
      BY <2>5 DEF RunWorker
    <3> QED
      BY <1>2, <3>1, NodeTurn
  <2>6. CASE RunReview(r)
    BY <1>2, <2>6, NodeTurn DEF RunReview
  <2>7. CASE SendDone(r)
    BY <1>2, <2>7, AnswerTurn, GotoTurn DEF SendDone
  <2>8. CASE Fail(r) \/ Replay(r)
    BY <2>8, AnswerTurn DEF Fail, Replay
  <2> QED
    BY <2>1, <2>2, <2>3, <2>4, <2>5, <2>6, <2>7, <2>8 DEF StreamStep
<1> QED
  BY <1>1, <1>3 DEF Proceeds

LEMMA ActionProceeds ==
    ASSUME TypeOK, NEW r \in Requests, ActionStep(r)
    PROVE  Proceeds(r)
<1>1. req[r].pc \in ActionPCs /\ req[r].pc \in Busy
  BY DEF ActionStep, ApproveTicket, Rescore, ReadLogs, UpdateReadsBase, UpdatePuts,
         ReadState, At, ActionPCs, Busy
<1>2. /\ {"read_base", "put", "read_state"} \subseteq Busy
      /\ {"read_base", "put", "read_state", "replied"} \cap StreamPCs = {}
  BY DEF ActionPCs, Busy, StreamPCs, RunPCs
<1>3. Turn(r) /\ req'[r].pc \in {"read_base", "put", "read_state", "replied"}
  <2>1. CASE ApproveTicket(r) \/ ReadState(r)
    BY <2>1, AnswerTurn DEF ApproveTicket, ReadState
  <2>2. CASE Rescore(r)
    BY <2>2, AnswerTurn, GotoTurn DEF Rescore
  <2>3. CASE ReadLogs(r) /\ Thread(r).complete
    BY <2>3 DEF ReadLogs, TypeOK, Turn, RequestStates
  <2>4. CASE ReadLogs(r) /\ ~Thread(r).complete
    BY <2>4, AnswerTurn DEF ReadLogs
  <2>5. CASE UpdateReadsBase(r)
    BY <2>5 DEF UpdateReadsBase, TypeOK, Turn, RequestStates
  <2>6. CASE UpdatePuts(r)
    BY <2>6 DEF UpdatePuts, TypeOK, Turn, RequestStates
  <2> QED
    BY <2>1, <2>2, <2>3, <2>4, <2>5, <2>6 DEF ActionStep
<1>4. req[r].pc \in {"get", "close"} => ApproveTicket(r) /\ req'[r].pc = "replied"
  <2> SUFFICES ASSUME req[r].pc \in {"get", "close"}
               PROVE  ApproveTicket(r) /\ req'[r].pc = "replied"
    OBVIOUS
  <2>1. ApproveTicket(r)
    BY DEF ActionStep, Rescore, ReadLogs, UpdateReadsBase, UpdatePuts, ReadState, At
  <2> QED
    BY <2>1, AnswerTurn DEF ApproveTicket
<1> QED
  BY <1>1, <1>2, <1>3, <1>4 DEF Proceeds

LEMMA FaultProceeds ==
    ASSUME TypeOK, NEW r \in Requests, RunRaises(r) \/ StoreRaises(r) \/ Disconnect(r)
    PROVE  Proceeds(r)
<1>1. CASE RunRaises(r)
  <2>1. req[r].pc \in StreamPCs /\ req[r].pc \in Busy /\ req[r].pc \notin {"get", "close"}
    BY <1>1 DEF RunRaises, StreamPCs, RunPCs, Busy
  <2>2. Turn(r) /\ req'[r].pc = "fail"
    BY <1>1 DEF RunRaises, TypeOK, Turn, RequestStates
  <2>3. "fail" \in Busy
    BY DEF Busy, StreamPCs
  <2> QED
    BY <2>1, <2>2, <2>3 DEF Proceeds
<1>2. CASE StoreRaises(r) \/ Disconnect(r)
  <2>1. req[r].pc \in Busy
    BY <1>2 DEF StoreRaises, Disconnect, StreamPCs, ActionPCs, Busy
  <2>2. PICK reply \in {"500", "cancelled"} : Answer(r, reply)
    BY <1>2 DEF StoreRaises, Disconnect
  <2>3. "replied" \notin StreamPCs
    BY BusyPCs
  <2>4. Turn(r) /\ req'[r].pc = "replied" /\ req'[r].reply = reply
    BY <2>2, AnswerTurn
  <2> QED
    BY <2>1, <2>2, <2>3, <2>4 DEF Proceeds
<1> QED
  BY <1>1, <1>2

LEMMA RequestProceeds ==
    ASSUME TypeOK, NEW r \in Requests, Step(r) \/ Disconnect(r)
    PROVE  Proceeds(r)
BY LookupProceeds, StreamProceeds, ActionProceeds, FaultProceeds DEF Step

\* The registry changes at the ticket of the request only, by a save of its
\* stream or by an approval, and no record disappears.
LEMMA RequestSaves ==
    ASSUME ServiceInvariant, NEW r \in Requests, Step(r) \/ Disconnect(r)
    PROVE  /\ req[r].ticket \in Tickets
           /\ \A t \in Tickets \ {req[r].ticket} : registry'[t] = registry[t]
           /\ \/ UNCHANGED registry
              \/ req[r].pc \in StreamPCs
              \/ registry'[req[r].ticket] = Record("closed", TRUE)
           /\ ApproveTicket(r) => registry'[req[r].ticket] = Record("closed", TRUE)
           /\ \A t \in Tickets : Registered(t) => Registered(t)'
<1>1. Proceeds(r)
  BY RequestProceeds DEF ServiceInvariant
<1>2. req[r].ticket \in Tickets
  BY <1>1 DEF Proceeds, ServiceInvariant, BusyOnTicket
<1>3. ASSUME NEW status \in {"running", "done", "error", "closed"}, NEW approved,
             Save(r, status, approved)
      PROVE  /\ registry'[req[r].ticket] = Record(status, approved)
             /\ \A t \in Tickets \ {req[r].ticket} : registry'[t] = registry[t]
             /\ \A t \in Tickets : Registered(t) => Registered(t)'
  BY <1>2, <1>3 DEF Save, ServiceInvariant, TypeOK, Registered, Record
<1>4. CASE OpenRun(r) \/ Finish(r) \/ Fail(r)
  <2>1. req[r].pc \in StreamPCs /\ ~ApproveTicket(r)
    BY <1>4 DEF OpenRun, Finish, Fail, ApproveTicket, At, StreamPCs
  <2> QED
    BY <1>2, <1>3, <1>4, <2>1 DEF OpenRun, Finish, Fail
<1>5. CASE ApproveTicket(r)
  BY <1>2, <1>3, <1>5 DEF ApproveTicket
<1>6. CASE UNCHANGED registry /\ ~ApproveTicket(r)
  BY <1>2, <1>6 DEF Registered
<1>7. \/ UNCHANGED registry /\ ~ApproveTicket(r)
      \/ OpenRun(r) \/ Finish(r) \/ Fail(r) \/ ApproveTicket(r)
  <2>1. CASE Lookup(r) \/ RunRaises(r) \/ StoreRaises(r) \/ Disconnect(r)
    BY <2>1 DEF Lookup, RunRaises, StoreRaises, Disconnect
  <2>2. CASE StreamStep(r)
    BY <2>2 DEF StreamStep, OpenReplay, RunBegin, RunInput, RunClassify, RunWorker,
                RunReview, NodeReturns, SendDone, Replay
  <2>3. CASE ActionStep(r)
    BY <2>3 DEF ActionStep, Rescore, ReadLogs, UpdateReadsBase, UpdatePuts, ReadState
  <2> QED
    BY <2>1, <2>2, <2>3 DEF Step
<1> QED
  BY <1>4, <1>5, <1>6, <1>7

\* Elsewhere nothing changes.
LEMMA ElsewhereSame ==
    ASSUME ServiceInvariant, NEW r \in Requests, Step(r) \/ Disconnect(r),
           NEW t \in Tickets, t # req[r].ticket
    PROVE  registry'[t] = registry[t] /\ checkpoint'[t] = checkpoint[t]
<1>1. registry'[t] = registry[t]
  BY RequestSaves
<1>2. ASSUME NEW saved, Put(r, saved)
      PROVE  checkpoint'[t] = checkpoint[t]
  BY <1>2 DEF Put, ServiceInvariant, TypeOK
<1>3. CASE Lookup(r) \/ RunRaises(r) \/ StoreRaises(r) \/ Disconnect(r)
  BY <1>1, <1>3 DEF Lookup, RunRaises, StoreRaises, Disconnect
<1>4. CASE StreamStep(r)
  BY <1>1, <1>2, <1>4
     DEF StreamStep, OpenReplay, OpenRun, RunBegin, RunInput, RunClassify, RunWorker, RunReview,
         NodeReturns, Finish, SendDone, Fail, Replay
<1>5. CASE ActionStep(r)
  BY <1>1, <1>2, <1>5
     DEF ActionStep, ApproveTicket, Rescore, ReadLogs, UpdateReadsBase, UpdatePuts, ReadState
<1> QED
  BY <1>3, <1>4, <1>5 DEF Step

-----------------------------------------------------------------------------
(* The verdict belongs to the state, when no marker is written from old logs *)

Verdicts == {"ESCALATE", "AUTO_APPROVED"}

\* What VerdictMatchesState says of one state.
Coherent(s) ==
    HasVerdict(s) =>
        /\ s.requires_escalation = ("ESCALATE" \in Lines(s))
        /\ "AUTO_APPROVED" \in Lines(s) => s.retrieved_context # {} /\ s.intent # "lockout"

\* Before the worker: nothing of an earlier run is left but intent and draft.
Unworked(s) ==
    /\ ~HasVerdict(s)
    /\ ~s.requires_escalation
    /\ s.retrieved_context = {}

\* Before the supervisor: what it is about to approve is grounded and no lockout.
Unreviewed(s) ==
    /\ ~HasVerdict(s)
    /\ ~s.requires_escalation =>
           /\ s.intent # "lockout"
           /\ s.confidence_score >= CONFIDENCE_THRESHOLD => s.retrieved_context # {}

\* What a run holds at each node, and what a modification is about to store.
Holds(r) ==
    LET s == req[r].state.values
    IN  /\ req[r].pc \in {"classify", "worker"} => Unworked(s)
        /\ req[r].pc = "supervisor" => Unreviewed(s)
        /\ req[r].pc = "put" /\ req[r].op = "modify" => Coherent(s)
HeldFacts == \A r \in Requests : Holds(r)

VerdictInvariant == VerdictMatchesState /\ HeldFacts

\* The marker of r's claim is about to be put into a log that fits the state.
ClaimFits(r) ==
    req[r].pc = "put" /\ req[r].op = "claim" =>
        Coherent(Claimed(req[r].state.values, req[r].logs))

LEMMA NewStateIsUnworked ==
    ASSUME NEW s \in States
    PROVE  Unworked(WriteInput(s))
<1>1. WriteInput(s).execution_logs = <<>>
  BY DEF WriteInput, NewState
<1>2. Lines(WriteInput(s)) = {}
  BY <1>1 DEF Lines
<1> QED
  BY <1>2 DEF Unworked, HasVerdict, WriteInput, NewState

\* The lines of a longer log.
LEMMA LinesOfAppend ==
    ASSUME NEW s, NEW u, s.execution_logs \in Seq(LogLines), NEW l \in LogLines,
           u.execution_logs = Append(s.execution_logs, l)
    PROVE  Lines(u) = Lines(s) \cup {l}
BY DEF Lines

LEMMA LinesOfConcat ==
    ASSUME NEW s, NEW u, s.execution_logs \in Seq(LogLines), NEW tags \in Seq(LogLines),
           u.execution_logs = s.execution_logs \o tags
    PROVE  Lines(u) = Lines(s) \cup {tags[i] : i \in 1 .. Len(tags)}
<1> DEFINE a == s.execution_logs
           b == u.execution_logs
<1>1. /\ Len(b) = Len(a) + Len(tags) /\ Len(a) \in Nat /\ Len(tags) \in Nat
      /\ \A i \in 1 .. Len(a) : b[i] = a[i]
      /\ \A i \in 1 .. Len(tags) : b[Len(a) + i] = tags[i]
  OBVIOUS
<1>2. \A i \in 1 .. Len(b) : i \in 1 .. Len(a) \/ \E j \in 1 .. Len(tags) : i = Len(a) + j
  <2> TAKE i \in 1 .. Len(b)
  <2>1. CASE i > Len(a)
    <3>1. i - Len(a) \in 1 .. Len(tags) /\ i = Len(a) + (i - Len(a))
      BY <1>1, <2>1
    <3> QED
      BY <3>1
  <2> QED
    BY <1>1, <2>1
<1>3. /\ \A i \in 1 .. Len(a) : i \in 1 .. Len(b)
      /\ \A j \in 1 .. Len(tags) : Len(a) + j \in 1 .. Len(b)
  BY <1>1
<1> HIDE DEF a, b
<1>4. {b[i] : i \in 1 .. Len(b)}
          = {a[i] : i \in 1 .. Len(a)} \cup {tags[i] : i \in 1 .. Len(tags)}
  <2>1. \A i \in 1 .. Len(b) : \/ \E j \in 1 .. Len(a) : b[i] = a[j]
                               \/ \E j \in 1 .. Len(tags) : b[i] = tags[j]
    BY <1>1, <1>2
  <2>2. ASSUME NEW j \in 1 .. Len(a) PROVE a[j] \in {b[i] : i \in 1 .. Len(b)}
    <3>1. b[j] = a[j] /\ j \in 1 .. Len(b)
      BY <1>1, <1>3
    <3> QED
      BY <3>1
  <2>3. ASSUME NEW j \in 1 .. Len(tags) PROVE tags[j] \in {b[i] : i \in 1 .. Len(b)}
    <3>1. b[Len(a) + j] = tags[j] /\ Len(a) + j \in 1 .. Len(b)
      BY <1>1, <1>3
    <3> QED
      BY <3>1
  <2> QED
    BY <2>1, <2>2, <2>3
<1> QED
  BY <1>4 DEF Lines, a, b

\* The nodes, one after the other.
LEMMA ClassifyKeepsUnworked ==
    ASSUME NEW s \in States, Unworked(s)
    PROVE  /\ Unworked(ClassifyFailed(s))
           /\ \A intent, score : Unworked(Classified(s, intent, score))
<1>1. s.execution_logs \in Seq(LogLines)
  BY DEF States
<1>2. "classified" \in LogLines \ Verdicts /\ "classify_failed" \in LogLines \ Verdicts
  BY DEF LogLines, LogTags, Verdicts
<1>3. ASSUME NEW u, NEW l \in LogLines \ Verdicts, u.execution_logs = Append(s.execution_logs, l),
             u.requires_escalation = s.requires_escalation,
             u.retrieved_context = s.retrieved_context
      PROVE  Unworked(u)
  <2>1. Lines(u) = Lines(s) \cup {l}
    BY <1>1, <1>3, LinesOfAppend
  <2> QED
    BY <1>3, <2>1 DEF Unworked, HasVerdict, Verdicts
<1>4. Unworked(ClassifyFailed(s))
  <2>1. /\ ClassifyFailed(s).execution_logs = Append(s.execution_logs, "classify_failed")
        /\ ClassifyFailed(s).requires_escalation = s.requires_escalation
        /\ ClassifyFailed(s).retrieved_context = s.retrieved_context
    BY DEF ClassifyFailed, States
  <2> QED
    BY <1>2, <1>3, <2>1
<1>5. ASSUME NEW intent, NEW score PROVE Unworked(Classified(s, intent, score))
  <2>1. /\ Classified(s, intent, score).execution_logs = Append(s.execution_logs, "classified")
        /\ Classified(s, intent, score).requires_escalation = s.requires_escalation
        /\ Classified(s, intent, score).retrieved_context = s.retrieved_context
    BY DEF Classified, States
  <2> QED
    BY <1>2, <1>3, <2>1
<1> QED
  BY <1>4, <1>5

\* What is not flagged is no lockout, and without context its confidence has been
\* brought below the threshold.
LEMMA DraftedIsUnreviewed ==
    ASSUME NEW s \in States, Unworked(s), NEW context \in SUBSET {"chunks"},
           NEW c \in CombineConfidence(s.confidence_score, context # {})
    PROVE  Unreviewed(Drafted(s, RouteByIntent(s), context, {}, c))
<1> DEFINE w == RouteByIntent(s)
           u == Drafted(s, w, context, {}, c)
<1>1. /\ u.execution_logs = s.execution_logs \o DraftedTags(w)
      /\ u.requires_escalation = (s.requires_escalation \/ w = "lockout_agent")
      /\ u.retrieved_context = IF w = "lockout_agent" THEN s.retrieved_context ELSE context
      /\ u.confidence_score = c /\ u.intent = s.intent
  BY DEF Drafted, States
<1>2. s.execution_logs \in Seq(LogLines) /\ s.confidence_score \in Int
  BY DEF States
<1>3. /\ DraftedTags(w) \in Seq(LogLines)
      /\ \A i \in 1 .. Len(DraftedTags(w)) : DraftedTags(w)[i] \notin Verdicts
  <2> DEFINE Silent(tags) == \A i \in 1 .. Len(tags) : tags[i] \notin Verdicts
  <2>1. DraftedTags(w) \in Seq(LogLines)
    <3>1. DraftedTags(w) \in Seq(LogTags) /\ LogTags \subseteq LogLines
      BY DraftedTagsType DEF LogLines
    <3> HIDE DEF LogTags
    <3> QED
      BY <3>1
  <2>2. /\ Silent(<<"billing_drafted">>) /\ Silent(<<"bug_drafted">>)
        /\ Silent(<<"lockout_escalated">>) /\ Silent(<<"feature_logged", "feature_ticket">>)
    BY DEF Verdicts
  <2> HIDE DEF Silent
  <2>3. Silent(DraftedTags(w))
    BY <2>2, Zenon DEF DraftedTags
  <2> QED
    BY <2>1, <2>3 DEF Silent
<1>4. w = "lockout_agent" <=> s.intent = "lockout"
  BY RouteIsAWorker
<1> HIDE DEF w, u
<1>5. Lines(u) = Lines(s) \cup {DraftedTags(w)[i] : i \in 1 .. Len(DraftedTags(w))}
  BY <1>1, <1>2, <1>3, LinesOfConcat
<1>6. ~HasVerdict(u)
  BY <1>3, <1>5 DEF Unworked, HasVerdict, Verdicts
<1>7. ~u.requires_escalation => u.intent # "lockout" /\ u.retrieved_context = context
  BY <1>1, <1>4 DEF Unworked
<1>8. context = {} => ~(c >= CONFIDENCE_THRESHOLD)
  <2> SUFFICES ASSUME context = {} PROVE ~(c >= CONFIDENCE_THRESHOLD)
    OBVIOUS
  <2>1. (context # {}) = FALSE
    OBVIOUS
  <2>2. c \in CombineConfidence(s.confidence_score, FALSE)
    BY <2>1
  <2>3. c < CONFIDENCE_THRESHOLD /\ c \in Int
    BY <1>2, <2>2, UngroundedIsBelowThreshold, CombineBounds
  <2> QED
    BY <2>3, SMT DEF CONFIDENCE_THRESHOLD
<1>9. Unreviewed(u)
  BY <1>1, <1>6, <1>7, <1>8 DEF Unreviewed
<1> QED
  BY <1>9 DEF u, w

LEMMA ReviewedIsCoherent ==
    ASSUME NEW s \in States, Unreviewed(s)
    PROVE  Coherent(SupervisorReview(s)) /\ HasVerdict(SupervisorReview(s))
<1> DEFINE u == SupervisorReview(s)
<1>1. /\ u.execution_logs = Append(s.execution_logs, Verdict(s))
      /\ u.requires_escalation = Escalates(s)
      /\ u.retrieved_context = s.retrieved_context /\ u.intent = s.intent
  BY DEF SupervisorReview, States
<1>2. s.execution_logs \in Seq(LogLines) /\ Verdict(s) \in LogLines
  BY DEF States, Verdict, LogLines, LogTags
<1> HIDE DEF u
<1>3. Lines(u) = Lines(s) \cup {Verdict(s)}
  BY <1>1, <1>2, LinesOfAppend
<1>4. ~Escalates(s) => s.retrieved_context # {} /\ s.intent # "lockout"
  <2>1. s.confidence_score \in Int
    BY DEF States
  <2>2. s.confidence_score < CONFIDENCE_THRESHOLD \/ s.confidence_score >= CONFIDENCE_THRESHOLD
    BY <2>1, SMT DEF CONFIDENCE_THRESHOLD
  <2> QED
    BY <2>2 DEF Unreviewed, Escalates
<1>5. /\ "ESCALATE" \notin Lines(s) /\ "AUTO_APPROVED" \notin Lines(s)
      /\ Verdict(s) = IF Escalates(s) THEN "ESCALATE" ELSE "AUTO_APPROVED"
  BY DEF Unreviewed, HasVerdict, Verdict
<1>6. Escalates(s) \in BOOLEAN
  BY DEF Escalates, States
<1>7. Coherent(u) /\ HasVerdict(u)
  <2>1. CASE Escalates(s)
    BY <1>1, <1>3, <1>5, <2>1 DEF Coherent, HasVerdict
  <2>2. CASE ~Escalates(s)
    BY <1>1, <1>3, <1>4, <1>5, <1>6, <2>2 DEF Coherent, HasVerdict
  <2> QED
    BY <2>1, <2>2
<1> QED
  BY <1>7 DEF u

\* A modification leaves log and flag alone, a marker is no verdict.
LEMMA PatchIsCoherent ==
    ASSUME NEW s \in States, NEW r \in Requests
    PROVE  /\ \A score : /\ Lines(Edited(s, r, score)) = Lines(s)
                         /\ Coherent(s) => Coherent(Edited(s, r, score))
           /\ LET logs == Append(s.execution_logs, r)
              IN  /\ Lines(Claimed(s, logs)) = Lines(s) \cup {r}
                  /\ Coherent(s) => Coherent(Claimed(s, logs))
<1>1. ASSUME NEW score
      PROVE  /\ Lines(Edited(s, r, score)) = Lines(s)
             /\ Coherent(s) => Coherent(Edited(s, r, score))
  <2> DEFINE u == Edited(s, r, score)
  <2>1. /\ u.execution_logs = s.execution_logs /\ u.intent = s.intent
        /\ u.requires_escalation = s.requires_escalation
        /\ u.retrieved_context = s.retrieved_context
    BY DEF Edited, States
  <2> HIDE DEF u
  <2>2. Lines(u) = Lines(s)
    BY <2>1 DEF Lines
  <2>3. Coherent(s) => Coherent(u)
    BY <2>1, <2>2 DEF Coherent, HasVerdict
  <2> QED
    BY <2>2, <2>3 DEF u
<1>2. LET logs == Append(s.execution_logs, r)
      IN  /\ Lines(Claimed(s, logs)) = Lines(s) \cup {r}
          /\ Coherent(s) => Coherent(Claimed(s, logs))
  <2> DEFINE u == Claimed(s, Append(s.execution_logs, r))
  <2>1. /\ u.execution_logs = Append(s.execution_logs, r) /\ u.intent = s.intent
        /\ u.requires_escalation = s.requires_escalation
        /\ u.retrieved_context = s.retrieved_context
    BY DEF Claimed, States
  <2>2. r \in LogLines /\ r \notin LogTags /\ s.execution_logs \in Seq(LogLines)
    BY RequestsAssumption DEF LogLines, States
  <2> HIDE DEF u
  <2>3. Lines(u) = Lines(s) \cup {r}
    BY <2>1, <2>2, LinesOfAppend
  <2>4. r # "ESCALATE" /\ r # "AUTO_APPROVED"
    BY <2>2 DEF LogTags
  <2>5. Coherent(s) => Coherent(u)
    BY <2>1, <2>3, <2>4 DEF Coherent, HasVerdict
  <2> QED
    BY <2>3, <2>5 DEF u
<1> QED
  BY <1>1, <1>2

\* A node's update goes into the run's channels and into the thread.
LEMMA NodeEffect ==
    ASSUME TypeOK, BusyOnTicket, NEW r \in Requests, req[r].pc \in Busy,
           NEW values, NEW next, NodeReturns(r, values, next)
    PROVE  /\ Turn(r) /\ req'[r].pc = next /\ req'[r].state = Saved(TRUE, values)
           /\ checkpoint'[req[r].ticket] = Saved(TRUE, values)
           /\ \A t \in Tickets \ {req[r].ticket} : checkpoint'[t] = checkpoint[t]
<1>1. Turn(r) /\ req'[r].pc = next
  BY NodeTurn
<1>2. req'[r].state = Saved(TRUE, values)
  BY DEF NodeReturns, TypeOK, RequestStates
<1>3. checkpoint' = [checkpoint EXCEPT ![req[r].ticket] = Saved(TRUE, values)]
  BY DEF NodeReturns, Put
<1>4. req[r].ticket \in Tickets /\ checkpoint \in [Tickets -> Threads]
  BY DEF TypeOK, BusyOnTicket
<1> QED
  BY <1>1, <1>2, <1>3, <1>4

\* So does a patch into the thread alone.
LEMMA PatchEffect ==
    ASSUME TypeOK, BusyOnTicket, NEW r \in Requests, UpdatePuts(r)
    PROVE  LET t    == req[r].ticket
               base == req[r].state
           IN  /\ Turn(r) /\ req'[r].pc = "read_state" /\ req[r].pc = "put"
               /\ \A u \in Tickets \ {t} : checkpoint'[u] = checkpoint[u]
               /\ \/ /\ req[r].op = "modify"
                     /\ \E score \in Scores :
                            checkpoint'[t] = Saved(base.complete, Edited(base.values, r, score))
                  \/ /\ req[r].op = "claim"
                     /\ checkpoint'[t] = Saved(base.complete, Claimed(base.values, req[r].logs))
<1>1. req[r].pc = "put" /\ req[r].ticket \in Tickets
  BY DEF UpdatePuts, At, BusyOnTicket, Busy, ActionPCs
<1>2. Turn(r) /\ req'[r].pc = "read_state"
  BY DEF UpdatePuts, TypeOK, Turn, RequestStates
<1>3. ASSUME NEW saved, Put(r, saved)
      PROVE  /\ checkpoint'[req[r].ticket] = saved
             /\ \A u \in Tickets \ {req[r].ticket} : checkpoint'[u] = checkpoint[u]
  BY <1>1, <1>3 DEF Put, TypeOK
<1> QED
  BY <1>1, <1>2, <1>3 DEF UpdatePuts

\* A restart answers whoever waits.
LEMMA CrashAnswers ==
    ASSUME TypeOK, Crash
    PROVE  \A r \in Requests :
               /\ req'[r].pc \notin Busy
               /\ req'[r].op = req[r].op /\ req'[r].ticket = req[r].ticket
               /\ req'[r].reply = IF req[r].pc \in Busy THEN "lost" ELSE req[r].reply
               /\ req[r].pc \in Busy => req'[r].pc = "replied"
               /\ req[r].pc \notin Busy => req'[r] = req[r]
<1> DEFINE q(r) == [Idle EXCEPT !.op = req[r].op, !.ticket = req[r].ticket,
                                !.pc = "replied", !.reply = "lost"]
<1>1. \A r : /\ q(r).op = req[r].op /\ q(r).ticket = req[r].ticket
             /\ q(r).pc = "replied" /\ q(r).reply = "lost"
  BY DEF Idle
<1>2. req' = [r \in Requests |-> IF req[r].pc \in Busy THEN q(r) ELSE req[r]]
  BY Zenon DEF Crash
<1> HIDE DEF q
<1> QED
  BY <1>1, <1>2, BusyPCs

NodeStep(r) == RunInput(r) \/ RunClassify(r) \/ RunWorker(r) \/ RunReview(r)

\* All other steps leave the checkpoints alone, and do not lead to a node.
LEMMA OtherSteps ==
    ASSUME TypeOK, NEW r \in Requests, Step(r) \/ Disconnect(r),
           ~NodeStep(r), ~UpdatePuts(r), ~UpdateReadsBase(r)
    PROVE  /\ UNCHANGED checkpoint
           /\ req'[r].pc \notin {"classify", "worker", "supervisor", "put"}
<1>1. CASE Lookup(r)
  <2>1. CASE Registered(req[r].ticket)
    <3>1. req'[r].pc = FirstPC(req[r].op)
      BY <1>1, <2>1 DEF Lookup, TypeOK, RequestStates
    <3>2. FirstPC(req[r].op) \notin {"classify", "worker", "supervisor", "put"}
      BY DEF FirstPC
    <3> QED
      BY <1>1, <3>1, <3>2 DEF Lookup
  <2>2. CASE ~Registered(req[r].ticket)
    BY <1>1, <2>2, AnswerTurn DEF Lookup
  <2> QED
    BY <2>1, <2>2
<1>2. CASE RunRaises(r)
  BY <1>2 DEF RunRaises, TypeOK, RequestStates
<1>3. CASE StoreRaises(r) \/ Disconnect(r)
  BY <1>3, AnswerTurn DEF StoreRaises, Disconnect
<1>4. CASE StreamStep(r)
  <2>1. CASE OpenReplay(r) \/ OpenRun(r)
    BY <2>1, GotoTurn DEF OpenReplay, OpenRun
  <2>2. CASE RunBegin(r) \/ Finish(r)
    BY <2>2 DEF RunBegin, Finish, TypeOK, RequestStates
  <2>3. CASE SendDone(r)
    BY <2>3, AnswerTurn, GotoTurn DEF SendDone
  <2>4. CASE Fail(r) \/ Replay(r)
    BY <2>4, AnswerTurn DEF Fail, Replay
  <2> QED
    BY <1>4, <2>1, <2>2, <2>3, <2>4 DEF StreamStep, NodeStep
<1>5. CASE ActionStep(r)
  <2>1. CASE ApproveTicket(r) \/ ReadState(r)
    BY <2>1, AnswerTurn DEF ApproveTicket, ReadState
  <2>2. CASE Rescore(r)
    BY <2>2, AnswerTurn, GotoTurn DEF Rescore
  <2>3. CASE ReadLogs(r) /\ Thread(r).complete
    BY <2>3 DEF ReadLogs, TypeOK, RequestStates
  <2>4. CASE ReadLogs(r) /\ ~Thread(r).complete
    BY <2>4, AnswerTurn DEF ReadLogs
  <2> QED
    BY <1>5, <2>1, <2>2, <2>3, <2>4 DEF ActionStep
<1> QED
  BY <1>1, <1>2, <1>3, <1>4, <1>5 DEF Step

\* A step of r keeps the invariant if what r then holds and stores is in order.
LEMMA VerdictKept ==
    ASSUME VerdictInvariant, NEW r \in Requests, Turn(r), Holds(r)',
           \A t \in Tickets : checkpoint'[t] = checkpoint[t] \/ Coherent(checkpoint'[t].values)
    PROVE  VerdictInvariant'
<1>1. \A t \in Tickets : Coherent(checkpoint[t].values)
  BY DEF VerdictInvariant, VerdictMatchesState, Coherent
<1>2. \A t \in Tickets : Coherent(checkpoint'[t].values)
  BY <1>1
<1>3. VerdictMatchesState'
  BY <1>2 DEF VerdictMatchesState, Coherent
<1>4. HeldFacts'
  BY DEF VerdictInvariant, HeldFacts, Holds, Turn
<1> QED
  BY <1>3, <1>4 DEF VerdictInvariant

LEMMA NodeVerdict ==
    ASSUME ServiceInvariant, VerdictInvariant, NEW r \in Requests, NodeStep(r)
    PROVE  VerdictInvariant'
<1> DEFINE s == req[r].state.values
<1>1. /\ TypeOK /\ BusyOnTicket /\ s \in States /\ Holds(r)
      /\ req[r].pc \in {"input", "classify", "worker", "supervisor"}
  BY DEF ServiceInvariant, TypeOK, RequestStates, Threads, NodeStep, RunInput, RunClassify,
         RunWorker, RunReview, At, VerdictInvariant, HeldFacts
<1>2. req[r].pc \in Busy
  BY <1>1, BusyPCs DEF RunPCs, StreamPCs
<1>3. ASSUME NEW values, NEW next, NodeReturns(r, values, next), Coherent(values),
             next \in {"classify", "worker"} => Unworked(values),
             next = "supervisor" => Unreviewed(values), next # "put"
      PROVE  VerdictInvariant'
  <2>1. /\ Turn(r) /\ req'[r].pc = next /\ req'[r].state = Saved(TRUE, values)
        /\ \A t \in Tickets : \/ checkpoint'[t] = checkpoint[t]
                              \/ checkpoint'[t] = Saved(TRUE, values)
    BY <1>1, <1>2, <1>3, NodeEffect
  <2>2. Saved(TRUE, values).values = values
    BY DEF Saved
  <2>3. Holds(r)'
    BY <1>3, <2>1, <2>2 DEF Holds
  <2> QED
    BY <1>3, <2>1, <2>2, <2>3, VerdictKept
<1>4. \A u : ~HasVerdict(u) => Coherent(u)
  BY DEF Coherent
<1>5. CASE RunInput(r)
  <2>1. Unworked(WriteInput(s)) /\ NodeReturns(r, WriteInput(s), "classify")
    BY <1>1, <1>5, NewStateIsUnworked DEF RunInput
  <2> QED
    BY <1>3, <1>4, <2>1 DEF Unworked
<1>6. CASE RunClassify(r)
  <2>1. Unworked(s)
    BY <1>1, <1>6 DEF RunClassify, At, Holds
  <2>2. PICK values : NodeReturns(r, values, "worker") /\ Unworked(values)
    BY <1>1, <1>6, <2>1, ClassifyKeepsUnworked DEF RunClassify
  <2> QED
    BY <1>3, <1>4, <2>2 DEF Unworked
<1>7. CASE RunWorker(r)
  <2>1. Unworked(s)
    BY <1>1, <1>7 DEF RunWorker, At, Holds
  <2>2. PICK context \in SUBSET {"chunks"} :
            \E c \in CombineConfidence(s.confidence_score, context # {}) :
                NodeReturns(r, Drafted(s, RouteByIntent(s), context, {}, c), "supervisor")
    BY <1>7 DEF RunWorker
  <2>3. PICK c \in CombineConfidence(s.confidence_score, context # {}) :
            NodeReturns(r, Drafted(s, RouteByIntent(s), context, {}, c), "supervisor")
    BY <2>2
  <2>4. Unreviewed(Drafted(s, RouteByIntent(s), context, {}, c))
    BY <1>1, <2>1, <2>3, DraftedIsUnreviewed
  <2> QED
    BY <1>3, <1>4, <2>3, <2>4 DEF Unreviewed
<1>8. CASE RunReview(r)
  <2>1. Unreviewed(s)
    BY <1>1, <1>8 DEF RunReview, At, Holds
  <2>2. Coherent(SupervisorReview(s)) /\ NodeReturns(r, SupervisorReview(s), "finish")
    BY <1>1, <1>8, <2>1, ReviewedIsCoherent DEF RunReview
  <2> QED
    BY <1>3, <2>2
<1> QED
  BY <1>5, <1>6, <1>7, <1>8 DEF NodeStep

\* Whatever interleaves, a step keeps the verdict with its state, as long as no
\* claim puts a log back that has become another run's.
LEMMA VerdictStep ==
    ASSUME ServiceInvariant, VerdictInvariant, [Next]_vars, \A r \in Requests : ClaimFits(r)
    PROVE  VerdictInvariant'
<1>1. TypeOK /\ BusyOnTicket
  BY DEF ServiceInvariant
<1>2. ASSUME NEW r \in Requests, Step(r) \/ Disconnect(r)
      PROVE  VerdictInvariant'
  <2>1. Turn(r) /\ req[r].pc \in Busy
    BY <1>1, <1>2, RequestProceeds DEF Proceeds
  <2>2. CASE NodeStep(r)
    BY <2>2, NodeVerdict
  <2>3. CASE UpdateReadsBase(r)
    <3>1. req'[r].state = Thread(r) /\ req'[r].pc = "put" /\ UNCHANGED checkpoint
      BY <1>1, <2>3 DEF UpdateReadsBase, TypeOK, RequestStates
    <3>2. Coherent(Thread(r).values)
      BY <1>1, <2>1 DEF BusyOnTicket, Thread, VerdictInvariant, VerdictMatchesState, Coherent
    <3> QED
      BY <2>1, <3>1, <3>2, VerdictKept DEF Holds
  <2>4. CASE UpdatePuts(r)
    <3> DEFINE base == req[r].state
               t    == req[r].ticket
    <3>1. base.values \in States
      BY <1>1 DEF TypeOK, RequestStates, Threads
    <3>2. /\ Turn(r) /\ req'[r].pc = "read_state" /\ req[r].pc = "put"
          /\ \A u \in Tickets \ {t} : checkpoint'[u] = checkpoint[u]
          /\ \/ /\ req[r].op = "modify"
                /\ \E score \in Scores :
                       checkpoint'[t] = Saved(base.complete, Edited(base.values, r, score))
             \/ /\ req[r].op = "claim"
                /\ checkpoint'[t] = Saved(base.complete, Claimed(base.values, req[r].logs))
      BY <1>1, <2>4, PatchEffect
    <3>3. Coherent(checkpoint'[t].values)
      <4>1. CASE req[r].op = "modify"
        <5>1. Coherent(base.values)
          BY <3>2, <4>1 DEF VerdictInvariant, HeldFacts, Holds
        <5>2. \A score : Coherent(Edited(base.values, r, score))
          BY <3>1, <5>1, PatchIsCoherent
        <5>3. PICK score : checkpoint'[t] = Saved(base.complete, Edited(base.values, r, score))
          BY <3>2, <4>1
        <5> QED
          BY <5>2, <5>3 DEF Saved
      <4>2. CASE req[r].op = "claim"
        BY <3>2, <4>2 DEF Saved, ClaimFits
      <4> QED
        BY <3>2, <4>1, <4>2
    <3>4. Holds(r)'
      BY <3>2 DEF Holds
    <3> QED
      BY <3>2, <3>3, <3>4, VerdictKept
  <2>5. CASE ~NodeStep(r) /\ ~UpdatePuts(r) /\ ~UpdateReadsBase(r)
    <3>1. /\ UNCHANGED checkpoint
          /\ req'[r].pc \notin {"classify", "worker", "supervisor", "put"}
      BY <1>1, <1>2, <2>5, OtherSteps
    <3> QED
      BY <2>1, <3>1, VerdictKept DEF Holds
  <2> QED
    BY <2>2, <2>3, <2>4, <2>5
<1>3. CASE \E r \in Requests, op \in Ops, t \in Tickets : Receive(r, op, t)
  <2>1. PICK r \in Requests, op \in Ops, t \in Tickets : Receive(r, op, t)
    BY <1>3
  <2>2. /\ \A q \in Requests \ {r} : req'[q] = req[q]
        /\ req'[r].pc = "get" /\ UNCHANGED checkpoint
    BY <1>1, <2>1 DEF Receive, TypeOK, Idle
  <2> QED
    BY <2>2 DEF VerdictInvariant, VerdictMatchesState, HeldFacts, Holds
<1>4. CASE Crash
  <2>1. \A r \in Requests : req'[r].pc \notin Busy
    BY <1>1, <1>4, CrashAnswers
  <2>2. {"classify", "worker", "supervisor", "put"} \subseteq Busy
    BY DEF Busy, StreamPCs, RunPCs, ActionPCs
  <2>3. HeldFacts'
    BY <2>1, <2>2 DEF HeldFacts, Holds
  <2>4. VerdictMatchesState'
    <3>1. Lines(NewState) = {}
      BY DEF Lines, NewState
    <3>2. ~HasVerdict(EmptyThread.values)
      BY <3>1 DEF EmptyThread, Saved, HasVerdict
    <3>3. CASE Durable
      <4>1. UNCHANGED checkpoint
        BY <1>4, <3>3, Zenon DEF Crash
      <4> QED
        BY <4>1 DEF VerdictInvariant, VerdictMatchesState
    <3>4. CASE ~Durable
      <4>1. checkpoint' = [t \in Tickets |-> EmptyThread]
        BY <1>4, <3>4, Zenon DEF Crash
      <4> QED
        BY <3>2, <4>1 DEF VerdictMatchesState
    <3> QED
      BY <3>3, <3>4
  <2> QED
    BY <2>3, <2>4 DEF VerdictInvariant
<1>5. CASE UNCHANGED <<checkpoint, req>>
  BY <1>5 DEF VerdictInvariant, VerdictMatchesState, HeldFacts, Holds
<1>6. CASE \E t \in Tickets : CreateTicket(t)
  BY <1>5, <1>6 DEF CreateTicket
<1> QED
  BY <1>2, <1>3, <1>4, <1>5, <1>6 DEF Next, vars

LEMMA InitVerdict == Init => VerdictInvariant
<1> SUFFICES ASSUME Init PROVE VerdictInvariant
  OBVIOUS
<1>1. Lines(NewState) = {}
  BY DEF Lines, NewState
<1>2. VerdictMatchesState
  BY <1>1 DEF Init, VerdictMatchesState, EmptyThread, Saved, HasVerdict
<1>3. HeldFacts
  BY DEF Init, Idle, HeldFacts, Holds
<1> QED
  BY <1>2, <1>3 DEF VerdictInvariant

\* As long as nobody claims, the verdict in the log of a thread and the rest of
\* its state are of one run, although every run and every modification stores the
\* whole state it holds: for any number of requests on one ticket, any faults and
\* both registries (supervisor.py, main.py:246).  With claims it takes requests
\* that do not overlap (SerialVerdicts).
THEOREM VerdictsMatchWithoutClaims ==
    ASSUME "claim" \notin Ops PROVE Spec => []VerdictMatchesState
<1> DEFINE Unclaimed == \A r \in Requests : req[r].op # "claim"
<1>1. Init => VerdictInvariant
  BY InitVerdict
<1>2. ServiceInvariant => Unclaimed
  BY DEF ServiceInvariant, TypeOK, RequestStates
<1>3. Unclaimed => \A r \in Requests : ClaimFits(r)
  BY DEF ClaimFits
<1>4. ServiceInvariant /\ VerdictInvariant /\ [Next]_vars => VerdictInvariant'
  BY <1>2, <1>3, VerdictStep
<1>5. VerdictInvariant => VerdictMatchesState
  BY DEF VerdictInvariant
<1> QED
  BY <1>1, <1>4, <1>5, Invariance, PTL DEF Spec

-----------------------------------------------------------------------------
(* Runs that overlap, on a ticket nobody edits *)

\* A run that has written its input and is not past its review, or has failed.
AtWork(r) == req[r].pc \in {"classify", "worker", "supervisor", "fail"}

\* Whatever run stored last in the thread of t: it has reviewed it, is still at
\* work on it, or was cut short.
LastWriter(t) ==
    checkpoint[t].complete =>
        \/ HasVerdict(checkpoint[t].values)
        \/ \E r \in Requests : req[r].ticket = t /\ AtWork(r)
        \/ RunCutShort(t)

\* A run past its input, and a ticket that shows done, have a thread.
HasThread(t) ==
    /\ registry[t].status = "done" => checkpoint[t].complete
    /\ \A r \in Requests :
           req[r].ticket = t /\ req[r].pc \in {"classify", "worker", "supervisor", "finish"} =>
               checkpoint[t].complete

\* A request asks for nothing before it begins and has its reply when it ends;
\* frames are sent by streams.
PlainRequests ==
    \A r \in Requests : /\ req[r].pc # "replied" => req[r].reply = "none"
                        /\ req[r].pc = "idle" => req[r].op = "none"
                        /\ req[r].pc \in StreamPCs => req[r].op = "stream"

OverlapInvariant ==
    /\ PlainRequests
    /\ \A t \in Tickets : ~EditAsked(t) => LastWriter(t) /\ HasThread(t)

\* What a step does to its request that stores nothing in the thread.
LEMMA QuietMoves ==
    ASSUME TypeOK, NEW r \in Requests, Step(r) \/ Disconnect(r), ~NodeStep(r), ~UpdatePuts(r)
    PROVE  /\ UNCHANGED checkpoint
           /\ req'[r].pc \notin {"classify", "worker", "supervisor", "finish"}
           /\ req'[r].pc = "replied" \/ req'[r].reply = req[r].reply
           /\ AtWork(r) => \/ req'[r].pc = "fail"
                           \/ req'[r].reply \in {"error", "500", "cancelled"}
<1>1. CASE Lookup(r)
  <2>1. ~AtWork(r) /\ UNCHANGED checkpoint
    BY <1>1 DEF Lookup, At, AtWork
  <2>2. CASE Registered(req[r].ticket)
    <3>1. req'[r].pc = FirstPC(req[r].op) /\ req'[r].reply = req[r].reply
      BY <1>1, <2>2 DEF Lookup, TypeOK, RequestStates
    <3>2. FirstPC(req[r].op) \notin {"classify", "worker", "supervisor", "finish"}
      BY DEF FirstPC
    <3> QED
      BY <2>1, <3>1, <3>2
  <2>3. CASE ~Registered(req[r].ticket)
    BY <1>1, <2>1, <2>3, AnswerTurn DEF Lookup
  <2> QED
    BY <2>2, <2>3
<1>2. CASE RunRaises(r)
  BY <1>2 DEF RunRaises, TypeOK, RequestStates
<1>3. CASE StoreRaises(r)
  BY <1>3, AnswerTurn DEF StoreRaises
<1>4. CASE Disconnect(r)
  BY <1>4, AnswerTurn DEF Disconnect
<1>5. CASE StreamStep(r)
  <2>1. CASE OpenReplay(r) \/ OpenRun(r)
    BY <2>1, GotoTurn DEF OpenReplay, OpenRun, At, AtWork
  <2>2. CASE RunBegin(r) \/ Finish(r)
    BY <2>2 DEF RunBegin, Finish, At, AtWork, TypeOK, RequestStates
  <2>3. CASE SendDone(r)
    BY <2>3, AnswerTurn, GotoTurn DEF SendDone, At, AtWork
  <2>4. CASE Fail(r)
    BY <2>4, AnswerTurn DEF Fail
  <2>5. CASE Replay(r)
    BY <2>5, AnswerTurn DEF Replay, At, AtWork
  <2> QED
    BY <1>5, <2>1, <2>2, <2>3, <2>4, <2>5 DEF StreamStep, NodeStep
<1>6. CASE ActionStep(r)
  <2>1. ~AtWork(r)
    BY <1>6 DEF ActionStep, ApproveTicket, Rescore, ReadLogs, UpdateReadsBase, UpdatePuts,
                ReadState, At, AtWork
  <2>2. CASE ApproveTicket(r) \/ ReadState(r)
    BY <2>1, <2>2, AnswerTurn DEF ApproveTicket, ReadState
  <2>3. CASE Rescore(r)
    BY <2>1, <2>3, AnswerTurn, GotoTurn DEF Rescore
  <2>4. CASE ReadLogs(r) /\ Thread(r).complete
    BY <2>1, <2>4 DEF ReadLogs, TypeOK, RequestStates
  <2>5. CASE ReadLogs(r) /\ ~Thread(r).complete
    BY <2>1, <2>5, AnswerTurn DEF ReadLogs
  <2>6. CASE UpdateReadsBase(r)
    BY <2>1, <2>6 DEF UpdateReadsBase, TypeOK, RequestStates
  <2> QED
    BY <1>6, <2>2, <2>3, <2>4, <2>5, <2>6 DEF ActionStep
<1> QED
  BY <1>1, <1>2, <1>3, <1>4, <1>5, <1>6 DEF Step

\* What a node leaves in the thread: a run at work, or a verdict.
LEMMA NodeMoves ==
    ASSUME ServiceInvariant, NEW r \in Requests, NodeStep(r)
    PROVE  /\ Turn(r) /\ req'[r].reply = req[r].reply /\ req[r].pc \in StreamPCs
           /\ UNCHANGED registry
           /\ checkpoint'[req[r].ticket].complete
           /\ \A t \in Tickets \ {req[r].ticket} : checkpoint'[t] = checkpoint[t]
           /\ \/ AtWork(r)'
              \/ HasVerdict(checkpoint'[req[r].ticket].values)
<1> DEFINE s == req[r].state.values
<1>1. /\ TypeOK /\ BusyOnTicket /\ s \in States
      /\ req[r].pc \in {"input", "classify", "worker", "supervisor"}
  BY DEF ServiceInvariant, TypeOK, RequestStates, Threads, NodeStep, RunInput, RunClassify,
         RunWorker, RunReview, At
<1>2. req[r].pc \in StreamPCs /\ req[r].pc \in Busy
  BY <1>1, BusyPCs DEF RunPCs, StreamPCs
<1>3. ASSUME NEW values, NEW next, NodeReturns(r, values, next),
             next \in {"classify", "worker", "supervisor"} \/ HasVerdict(values)
      PROVE  /\ Turn(r) /\ req'[r].reply = req[r].reply
             /\ UNCHANGED registry
             /\ checkpoint'[req[r].ticket].complete
             /\ \A t \in Tickets \ {req[r].ticket} : checkpoint'[t] = checkpoint[t]
             /\ AtWork(r)' \/ HasVerdict(checkpoint'[req[r].ticket].values)
  <2>1. /\ Turn(r) /\ req'[r].pc = next
        /\ checkpoint'[req[r].ticket] = Saved(TRUE, values)
        /\ \A t \in Tickets \ {req[r].ticket} : checkpoint'[t] = checkpoint[t]
    BY <1>1, <1>2, <1>3, NodeEffect
  <2>2. req'[r].reply = req[r].reply /\ UNCHANGED registry
    BY <1>1, <1>3, NodeTurn DEF NodeReturns
  <2> QED
    BY <1>3, <2>1, <2>2 DEF AtWork, Saved
<1>4. \E values, next : /\ NodeReturns(r, values, next)
                        /\ next \in {"classify", "worker", "supervisor"} \/ HasVerdict(values)
  <2>1. CASE RunInput(r)
    BY <2>1 DEF RunInput
  <2>2. CASE RunClassify(r)
    BY <2>2 DEF RunClassify
  <2>3. CASE RunWorker(r)
    BY <2>3 DEF RunWorker
  <2>4. CASE RunReview(r)
    <3> DEFINE u == SupervisorReview(s)
    <3>1. u.execution_logs = Append(s.execution_logs, Verdict(s))
      BY <1>1 DEF SupervisorReview, States
    <3>2. s.execution_logs \in Seq(LogLines) /\ Verdict(s) \in LogLines /\ Verdict(s) \in Verdicts
      BY <1>1 DEF States, Verdict, LogLines, LogTags, Verdicts
    <3>3. Lines(u) = Lines(s) \cup {Verdict(s)}
      <4> HIDE DEF u, s
      <4> QED
        BY <3>1, <3>2, LinesOfAppend
    <3>4. HasVerdict(SupervisorReview(s))
      BY <3>2, <3>3 DEF HasVerdict, Verdicts
    <3> QED
      BY <2>4, <3>4 DEF RunReview
  <2> QED
    BY <2>1, <2>2, <2>3, <2>4 DEF NodeStep
<1> QED
  BY <1>2, <1>3, <1>4

\* Only the end of a run makes a ticket done.
LEMMA OnlyFinishMakesDone ==
    ASSUME ServiceInvariant, NEW r \in Requests, Step(r) \/ Disconnect(r), NEW t \in Tickets,
           registry'[t].status = "done"
    PROVE  registry[t].status = "done" \/ (t = req[r].ticket /\ req[r].pc = "finish")
<1>1. [Next]_vars
  BY DEF Next
<1>2. CASE UNCHANGED registry
  BY <1>2
<1>3. CASE t # req[r].ticket
  BY <1>3, RequestSaves
<1>4. CASE t = req[r].ticket /\ ~UNCHANGED registry
  <2>1. OpenRun(r) \/ Finish(r) \/ Fail(r) \/ ApproveTicket(r)
    <3>1. CASE Lookup(r) \/ RunRaises(r) \/ StoreRaises(r) \/ Disconnect(r)
      BY <1>4, <3>1 DEF Lookup, RunRaises, StoreRaises, Disconnect
    <3>2. CASE StreamStep(r)
      BY <1>4, <3>2 DEF StreamStep, OpenReplay, RunBegin, RunInput, RunClassify, RunWorker,
                        RunReview, NodeReturns, SendDone, Replay
    <3>3. CASE ActionStep(r)
      BY <1>4, <3>3 DEF ActionStep, Rescore, ReadLogs, UpdateReadsBase, UpdatePuts, ReadState
    <3> QED
      BY <3>1, <3>2, <3>3 DEF Step
  <2>2. ASSUME NEW status, NEW approved, Save(r, status, approved)
        PROVE  registry'[t].status = status
    BY <1>4, <2>2 DEF Save, ServiceInvariant, TypeOK, Record
  <2>3. CASE Finish(r)
    BY <1>4, <2>3 DEF Finish, At
  <2>4. ~Finish(r) => registry'[t].status \in {"running", "error", "closed"}
    BY <2>1, <2>2 DEF OpenRun, Fail, ApproveTicket
  <2> QED
    BY <2>3, <2>4
<1> QED
  BY <1>2, <1>3, <1>4

\* A step of a request hands its thread on: the last writer is at work, has
\* reviewed it or was cut short.
LEMMA OwnThread ==
    ASSUME ServiceInvariant, PlainRequests, NEW r \in Requests, Step(r) \/ Disconnect(r),
           ~UpdatePuts(r), NEW t \in Tickets, t = req[r].ticket, LastWriter(t), HasThread(t)
    PROVE  LastWriter(t)' /\ HasThread(t)'
<1>1. Turn(r) /\ req[r].pc \in Busy /\ req[r].reply = "none" /\ req'[r].ticket = t
  BY RequestProceeds, BusyPCs DEF ServiceInvariant, Proceeds, BusyOnTicket, PlainRequests, Turn
<1>2. /\ checkpoint[t].complete => checkpoint'[t].complete
      /\ req'[r].pc \in {"classify", "worker", "supervisor", "finish"} => checkpoint'[t].complete
  <2>1. CASE NodeStep(r)
    BY <2>1, NodeMoves
  <2>2. CASE ~NodeStep(r)
    BY <2>2, QuietMoves DEF ServiceInvariant
  <2> QED
    BY <2>1, <2>2
<1>3. registry'[t].status = "done" => checkpoint'[t].complete
  BY <1>1, <1>2, OnlyFinishMakesDone DEF HasThread
<1>4. ASSUME NEW q \in Requests, req'[q].ticket = t,
             req'[q].pc \in {"classify", "worker", "supervisor", "finish"}
      PROVE  checkpoint'[t].complete
  BY <1>1, <1>2, <1>4 DEF HasThread, Turn
<1>5. RunCutShort(t) => RunCutShort(t)'
  BY <1>1 DEF RunCutShort, Turn
<1>6. (\E q \in Requests \ {r} : req[q].ticket = t /\ AtWork(q))
          => \E q \in Requests : req'[q].ticket = t /\ AtWork(q)'
  BY <1>1 DEF AtWork, Turn
<1>7. ASSUME checkpoint'[t].complete
      PROVE  \/ HasVerdict(checkpoint'[t].values)
             \/ \E q \in Requests : req'[q].ticket = t /\ AtWork(q)'
             \/ RunCutShort(t)'
  <2>1. CASE NodeStep(r)
    BY <1>1, <2>1, NodeMoves
  <2>2. CASE ~NodeStep(r)
    <3>1. UNCHANGED checkpoint
      BY <2>2, QuietMoves DEF ServiceInvariant
    <3>2. AtWork(r) => AtWork(r)' \/ req'[r].reply \in {"error", "500", "cancelled"}
      BY <2>2, QuietMoves DEF ServiceInvariant, AtWork
    <3>3. AtWork(r) => req[r].op = "stream"
      BY DEF AtWork, PlainRequests, StreamPCs, RunPCs
    <3>4. AtWork(r) => \/ RunCutShort(t)'
                       \/ \E q \in Requests : req'[q].ticket = t /\ AtWork(q)'
      BY <1>1, <3>2, <3>3 DEF RunCutShort, Turn
    <3> QED
      BY <1>5, <1>6, <1>7, <3>1, <3>4 DEF LastWriter
  <2> QED
    BY <2>1, <2>2
<1> QED
  BY <1>1, <1>3, <1>4, <1>7 DEF LastWriter, HasThread

LEMMA OverlapMove ==
    ASSUME ServiceInvariant, OverlapInvariant, NEW r \in Requests, Step(r) \/ Disconnect(r)
    PROVE  OverlapInvariant'
<1>1. Proceeds(r) /\ Turn(r) /\ req[r].pc \in Busy
  BY RequestProceeds DEF ServiceInvariant, Proceeds
<1>2. req'[r].pc = "replied" \/ req'[r].reply = req[r].reply
  <2>1. CASE UpdatePuts(r)
    BY <2>1 DEF UpdatePuts, ServiceInvariant, TypeOK, RequestStates
  <2>2. CASE NodeStep(r)
    BY <2>2, NodeMoves
  <2>3. CASE ~UpdatePuts(r) /\ ~NodeStep(r)
    BY <2>3, QuietMoves DEF ServiceInvariant
  <2> QED
    BY <2>1, <2>2, <2>3
<1>3. PlainRequests'
  BY <1>1, <1>2, BusyPCs DEF OverlapInvariant, PlainRequests, Turn, Proceeds
<1>4. ASSUME NEW t \in Tickets, ~EditAsked(t)' PROVE LastWriter(t)' /\ HasThread(t)'
  <2>1. ~EditAsked(t)
    BY <1>1, <1>4 DEF EditAsked, Turn
  <2>2. LastWriter(t) /\ HasThread(t)
    BY <2>1 DEF OverlapInvariant
  <2>3. CASE t = req[r].ticket
    <3>1. ~UpdatePuts(r)
      BY <2>1, <2>3 DEF EditAsked, UpdatePuts
    <3> QED
      BY <2>2, <2>3, <3>1, OwnThread DEF OverlapInvariant
  <2>4. CASE t # req[r].ticket
    <3>1. registry'[t] = registry[t] /\ checkpoint'[t] = checkpoint[t]
      BY <2>4, ElsewhereSame
    <3>2. \A q \in Requests : /\ req'[q].ticket = req[q].ticket
                              /\ req[q].ticket = t => req'[q] = req[q]
      BY <1>1, <2>4 DEF Turn
    <3>3. LastWriter(t)'
      BY <2>2, <3>1, <3>2 DEF LastWriter, RunCutShort, AtWork
    <3>4. HasThread(t)'
      BY <2>2, <3>1, <3>2 DEF HasThread
    <3> QED
      BY <3>3, <3>4
  <2> QED
    BY <2>3, <2>4
<1> QED
  BY <1>3, <1>4 DEF OverlapInvariant

LEMMA OverlapStep == ServiceInvariant /\ OverlapInvariant /\ [Next]_vars => OverlapInvariant'
<1> SUFFICES ASSUME ServiceInvariant, OverlapInvariant, [Next]_vars PROVE OverlapInvariant'
  OBVIOUS
<1>1. ASSUME NEW r \in Requests, Step(r) \/ Disconnect(r)
      PROVE  OverlapInvariant'
  BY <1>1, OverlapMove
<1>2. ASSUME NEW t \in Tickets, CreateTicket(t) PROVE OverlapInvariant'
  <2>1. /\ UNCHANGED <<checkpoint, req>>
        /\ \A u \in Tickets : registry'[u].status = "done" => registry[u].status = "done"
    BY <1>2 DEF CreateTicket, ServiceInvariant, TypeOK, Record
  <2> QED
    BY <2>1 DEF OverlapInvariant, LastWriter, AtWork, RunCutShort, EditAsked, HasThread,
                PlainRequests
<1>3. ASSUME NEW r \in Requests, NEW op \in Ops, NEW t \in Tickets, Receive(r, op, t)
      PROVE  OverlapInvariant'
  <2>1. /\ req[r].pc = "idle" /\ req'[r].pc = "get" /\ req'[r].reply = "none"
        /\ req'[r].op = op /\ req'[r].ticket = t
        /\ \A q \in Requests \ {r} : req'[q] = req[q]
        /\ UNCHANGED <<registry, checkpoint>>
    BY <1>3 DEF Receive, At, ServiceInvariant, TypeOK, Idle
  <2>2. req[r].reply = "none" /\ ~AtWork(r) /\ "get" \notin StreamPCs
    BY <2>1 DEF OverlapInvariant, PlainRequests, AtWork, StreamPCs, RunPCs
  <2>3. PlainRequests'
    BY <2>1, <2>2 DEF OverlapInvariant, PlainRequests
  <2>4. ASSUME NEW u \in Tickets, ~EditAsked(u)' PROVE LastWriter(u)' /\ HasThread(u)'
    <3>1. ~EditAsked(u)
      BY <2>1, <2>4 DEF EditAsked, OverlapInvariant, PlainRequests
    <3>2. RunCutShort(u) => RunCutShort(u)'
      BY <2>1, <2>2 DEF RunCutShort
    <3>3. (\E q \in Requests : req[q].ticket = u /\ AtWork(q))
              => \E q \in Requests : req'[q].ticket = u /\ AtWork(q)'
      BY <2>1, <2>2 DEF AtWork
    <3>4. LastWriter(u) /\ HasThread(u)
      BY <3>1 DEF OverlapInvariant
    <3>5. LastWriter(u)'
      BY <2>1, <3>2, <3>3, <3>4 DEF LastWriter
    <3>6. HasThread(u)'
      BY <2>1, <3>4 DEF HasThread
    <3> QED
      BY <3>5, <3>6
  <2> QED
    BY <2>3, <2>4 DEF OverlapInvariant
<1>4. CASE Crash
  <2>1. \A r \in Requests :
            /\ req'[r].pc \notin Busy
            /\ req'[r].op = req[r].op /\ req'[r].ticket = req[r].ticket
            /\ req[r].pc \in Busy => req'[r].pc = "replied" /\ req'[r].reply = "lost"
            /\ req[r].pc \notin Busy => req'[r] = req[r]
    BY <1>4, CrashAnswers DEF ServiceInvariant
  <2>2. /\ StreamPCs \subseteq Busy
        /\ {"classify", "worker", "supervisor", "finish", "fail"} \subseteq StreamPCs
    BY DEF Busy, StreamPCs, RunPCs
  <2>3. PlainRequests'
    BY <2>1, <2>2 DEF OverlapInvariant, PlainRequests
  <2>4. ASSUME NEW t \in Tickets, ~EditAsked(t)' PROVE LastWriter(t)' /\ HasThread(t)'
    <3>1. CASE Durable
      <4>1. UNCHANGED <<registry, checkpoint>>
        BY <1>4, <3>1, Zenon DEF Crash
      <4>2. ~EditAsked(t)
        BY <2>1, <2>4 DEF EditAsked
      <4>3. RunCutShort(t) => RunCutShort(t)'
        BY <2>1 DEF RunCutShort
      <4>4. (\E r \in Requests : req[r].ticket = t /\ AtWork(r)) => RunCutShort(t)'
        BY <2>1, <2>2 DEF RunCutShort, AtWork, OverlapInvariant, PlainRequests
      <4>5. LastWriter(t)'
        BY <4>1, <4>2, <4>3, <4>4 DEF OverlapInvariant, LastWriter
      <4>6. HasThread(t)'
        BY <2>1, <2>2, <4>1, <4>2 DEF OverlapInvariant, HasThread
      <4> QED
        BY <4>5, <4>6
    <3>2. CASE ~Durable
      <4>1. /\ registry' = [u \in Tickets |-> Absent]
            /\ checkpoint' = [u \in Tickets |-> EmptyThread]
        BY <1>4, <3>2, Zenon DEF Crash
      <4>2. registry'[t].status # "done" /\ ~checkpoint'[t].complete
        BY <4>1 DEF Absent, Record, EmptyThread, Saved
      <4> QED
        BY <2>1, <2>2, <4>2 DEF HasThread, LastWriter
    <3> QED
      BY <3>1, <3>2
  <2> QED
    BY <2>3, <2>4 DEF OverlapInvariant
<1>5. CASE UNCHANGED vars
  BY <1>5 DEF vars, OverlapInvariant, LastWriter, AtWork, RunCutShort, EditAsked, HasThread,
              PlainRequests
<1> QED
  BY <1>1, <1>2, <1>3, <1>4, <1>5 DEF Next

LEMMA InitOverlap == Init => OverlapInvariant
<1> SUFFICES ASSUME Init PROVE OverlapInvariant
  OBVIOUS
<1>1. \A t \in Tickets : registry[t].status # "done" /\ ~checkpoint[t].complete
  BY DEF Init, Absent, Record, EmptyThread, Saved
<1>2. \A r \in Requests : req[r].pc = "idle" /\ req[r].reply = "none" /\ req[r].op = "none"
  BY DEF Init, Idle
<1> QED
  BY <1>1, <1>2 DEF OverlapInvariant, LastWriter, HasThread, PlainRequests, StreamPCs, RunPCs

\* Any number of runs of one ticket may store their states over each other, in any
\* order and on either registry: once they have all come to their end, a ticket that
\* shows done and that nobody edited has the verdict of one of them, because whoever
\* stored last has reviewed what it stored (main.py:195-203).
THEOREM OverlappingRunsEndReviewed == Spec => []DoneIsReviewedAtLast
<1>1. OverlapInvariant => DoneIsReviewedAtLast
  <2> SUFFICES ASSUME OverlapInvariant, NEW t \in Tickets, registry[t].status = "done",
                      \A r \in Owners : req[r].ticket # t, ~RunCutShort(t), ~EditAsked(t)
               PROVE  checkpoint[t].complete /\ HasVerdict(checkpoint[t].values)
    BY DEF DoneIsReviewedAtLast
  <2>1. checkpoint[t].complete /\ LastWriter(t)
    BY DEF OverlapInvariant, HasThread
  <2>2. \A r \in Requests : req[r].ticket = t => ~AtWork(r)
    BY DEF Owners, OwnerPCs, RunPCs, AtWork
  <2> QED
    BY <2>1, <2>2 DEF LastWriter
<1> QED
  BY <1>1, InitOverlap, OverlapStep, Invariance, PTL DEF Spec

-----------------------------------------------------------------------------
(* Requests that wait for each other on a ticket *)

\* A ticket has at most one request in progress.
Alone ==
    \A q, r \in Requests :
        req[q].pc \in Busy /\ req[r].pc \in Busy /\ req[q].ticket = req[r].ticket => q = r

\* A thread that a done frame may carry.
Terminal(thread) == thread.complete /\ HasVerdict(thread.values)

\* What a request that is alone knows of its ticket.
KnowsTicket(r) ==
    LET thread == checkpoint[req[r].ticket]
    IN  /\ req[r].pc = "open" => /\ Rec(r) = registry[req[r].ticket]
                                 /\ Registered(req[r].ticket)
        /\ req[r].pc \in RunPCs => registry[req[r].ticket].status = "running"
        /\ req[r].pc \in {"input", "classify", "worker", "supervisor", "put"} =>
               req[r].state = thread
        /\ req[r].pc \in {"finish", "send_done", "replay"} => Terminal(thread)
        /\ req[r].pc = "rescore" => req[r].op = "modify"
        /\ req[r].pc \in {"read_base", "put"} /\ req[r].op = "claim" =>
               req[r].logs = Append(thread.values.execution_logs, r)

SerialInvariant ==
    /\ Alone
    /\ \A r \in Requests : KnowsTicket(r)
    /\ DoneCanBeReplayed

LEMMA PrefixByElements ==
    ASSUME NEW S, NEW s \in Seq(S), NEW u \in Seq(S), Len(s) <= Len(u),
           \A i \in 1 .. Len(s) : u[i] = s[i]
    PROVE  IsPrefix(s, u)
<1>1. Len(s) \in Nat /\ Len(u) \in Nat
  OBVIOUS
<1>2. SubSeq(s, 1, Len(s)) = SubSeq(u, 1, Len(s))
  BY <1>1
<1> QED
  BY <1>2 DEF IsPrefix

\* A log that is continued has the old one as a prefix.
LEMMA LongerLogs ==
    ASSUME NEW S, NEW s \in Seq(S)
    PROVE  /\ IsPrefix(s, s)
           /\ \A l \in S : IsPrefix(s, Append(s, l))
           /\ \A tags \in Seq(S) : IsPrefix(s, s \o tags)
<1>1. IsPrefix(s, s)
  BY PrefixByElements
<1>2. ASSUME NEW l \in S PROVE IsPrefix(s, Append(s, l))
  <2>1. /\ Append(s, l) \in Seq(S) /\ Len(s) <= Len(Append(s, l))
        /\ \A i \in 1 .. Len(s) : Append(s, l)[i] = s[i]
    OBVIOUS
  <2> QED
    BY <2>1, PrefixByElements
<1>3. ASSUME NEW tags \in Seq(S) PROVE IsPrefix(s, s \o tags)
  <2>1. /\ s \o tags \in Seq(S) /\ Len(s) <= Len(s \o tags)
        /\ \A i \in 1 .. Len(s) : (s \o tags)[i] = s[i]
    OBVIOUS
  <2> QED
    BY <2>1, PrefixByElements
<1> QED
  BY <1>1, <1>2, <1>3

\* What a step of r does to its ticket when what r knows of it is so.
SerialEffect(r) ==
    LET t   == req[r].ticket
        old == checkpoint[t].values.execution_logs
        new == checkpoint'[t].values.execution_logs
    IN  /\ KnowsTicket(r)'
        /\ registry'[t].status = "done" => Terminal(checkpoint'[t])
        /\ new # <<>> => IsPrefix(old, new)
        /\ req[r].reply # "done" /\ req'[r].reply = "done" => HasVerdict(Thread(r).values)

\* The pcs of a request about which KnowsTicket says something.
KnownPCs == {"open", "finish", "send_done", "replay", "rescore", "read_base", "put"} \cup RunPCs
LEMMA KnownPCsAreBusy == KnownPCs \subseteq Busy /\ "replied" \notin KnownPCs /\ "fail" \notin KnownPCs
                       /\ RunPCs = {"begin", "input", "classify", "worker", "supervisor"}
BY DEF KnownPCs, Busy, StreamPCs, ActionPCs, RunPCs

\* A request in progress whose ticket is as it knows it.
Informed(r) ==
    /\ ServiceInvariant /\ DoneCanBeReplayed /\ KnowsTicket(r)
    /\ req[r].pc \in Busy /\ req[r].ticket \in Tickets

\* Steps that leave the thread alone.
LEMMA SameThreadEffect ==
    ASSUME NEW r \in Requests, Informed(r), UNCHANGED checkpoint, KnowsTicket(r)',
           registry'[req[r].ticket].status = "done" =>
               \/ registry' = registry
               \/ Terminal(checkpoint[req[r].ticket]),
           req[r].reply # "done" /\ req'[r].reply = "done" => HasVerdict(Thread(r).values)
    PROVE  SerialEffect(r)
<1> DEFINE t == req[r].ticket
<1>1. registry'[t].status = "done" => Terminal(checkpoint[t])
  BY DEF Informed, DoneCanBeReplayed, Terminal
<1>2. checkpoint[t].values.execution_logs \in Seq(LogLines)
  BY DEF Informed, ServiceInvariant, TypeOK, Threads, States
<1> QED
  BY <1>1, <1>2, LongerLogs DEF SerialEffect

LEMMA AnswerEffect ==
    ASSUME NEW r \in Requests, Informed(r), UNCHANGED checkpoint,
           NEW reply, Answer(r, reply),
           registry' = registry \/ registry'[req[r].ticket].status # "done",
           reply = "done" => HasVerdict(Thread(r).values)
    PROVE  SerialEffect(r)
<1>1. req'[r].pc = "replied" /\ req'[r].reply = reply
  BY AnswerTurn DEF Informed, ServiceInvariant
<1>2. KnowsTicket(r)'
  BY <1>1, KnownPCsAreBusy DEF KnowsTicket, KnownPCs
<1> QED
  BY <1>1, <1>2, SameThreadEffect

\* A node of a run continues the log or starts it afresh, and the last one leaves
\* a verdict.
LEMMA NodeSerial ==
    ASSUME NEW r \in Requests, Informed(r), NodeStep(r)
    PROVE  SerialEffect(r)
<1> DEFINE t == req[r].ticket
           s == req[r].state.values
           logs == s.execution_logs
<1>1. /\ TypeOK /\ BusyOnTicket /\ t \in Tickets /\ req[r].pc \in Busy
      /\ KnowsTicket(r) /\ s \in States /\ logs \in Seq(LogLines)
  BY DEF Informed, ServiceInvariant, TypeOK, RequestStates, Threads, States
<1>2. req[r].pc \in {"input", "classify", "worker", "supervisor"}
  BY DEF NodeStep, RunInput, RunClassify, RunWorker, RunReview, At
<1>3. checkpoint[t] = req[r].state /\ registry[t].status = "running"
  BY <1>1, <1>2, KnownPCsAreBusy DEF KnowsTicket
<1>4. ASSUME NEW values \in States,
             NEW next \in {"classify", "worker", "supervisor", "finish"},
             NodeReturns(r, values, next),
             next = "finish" => HasVerdict(values),
             values.execution_logs # <<>> => IsPrefix(logs, values.execution_logs)
      PROVE  SerialEffect(r)
  <2>1. /\ Turn(r) /\ req'[r].pc = next /\ req'[r].state = Saved(TRUE, values)
        /\ checkpoint'[t] = Saved(TRUE, values) /\ req'[r].reply = req[r].reply
    BY <1>1, <1>4, NodeEffect, NodeTurn
  <2>2. UNCHANGED registry /\ req'[r].ticket = t
    BY <1>4, <2>1 DEF NodeReturns, Turn
  <2>3. KnowsTicket(r)'
    BY <1>3, <1>4, <2>1, <2>2 DEF KnowsTicket, Terminal, Saved
  <2>4. Saved(TRUE, values).values = values
    BY DEF Saved
  <2> QED
    BY <1>3, <1>4, <2>1, <2>2, <2>3, <2>4 DEF SerialEffect
<1>5. CASE RunInput(r)
  <2>1. NodeReturns(r, WriteInput(s), "classify")
    BY <1>5 DEF RunInput
  <2>2. WriteInput(s) \in States
    BY <1>1, WriteInputType
  <2>3. WriteInput(s).execution_logs = <<>>
    BY DEF WriteInput, NewState
  <2> QED
    BY <1>4, <2>1, <2>2, <2>3
<1>6. CASE RunClassify(r)
  <2>1. PICK values \in States, l \in LogLines :
            NodeReturns(r, values, "worker") /\ values.execution_logs = Append(logs, l)
    <3>1. "classified" \in LogLines /\ "classify_failed" \in LogLines
      BY DEF LogLines, LogTags
    <3>2. CASE NodeReturns(r, ClassifyFailed(s), "worker")
      <4>1. ClassifyFailed(s).execution_logs = Append(logs, "classify_failed")
        BY <1>1 DEF ClassifyFailed, States
      <4> QED
        BY <1>1, <3>1, <3>2, <4>1, ClassifyType
    <3>3. ASSUME NEW intent \in Intents, NEW score \in Scores,
                 NodeReturns(r, Classified(s, intent, score), "worker")
          PROVE  \E values \in States, l \in LogLines :
                     NodeReturns(r, values, "worker") /\ values.execution_logs = Append(logs, l)
      <4>1. Classified(s, intent, score).execution_logs = Append(logs, "classified")
        BY <1>1 DEF Classified, States
      <4> QED
        BY <1>1, <3>1, <3>3, <4>1, ClassifyType
    <3> QED
      BY <1>6, <3>2, <3>3 DEF RunClassify
  <2> QED
    BY <1>1, <1>4, <2>1, LongerLogs
<1>7. CASE RunWorker(r)
  <2>1. PICK context \in SUBSET {"chunks"} :
            \E c \in CombineConfidence(s.confidence_score, context # {}) :
                NodeReturns(r, Drafted(s, RouteByIntent(s), context, {}, c), "supervisor")
    BY <1>7 DEF RunWorker
  <2>2. PICK c \in CombineConfidence(s.confidence_score, context # {}) :
            NodeReturns(r, Drafted(s, RouteByIntent(s), context, {}, c), "supervisor")
    BY <2>1
  <2> DEFINE values == Drafted(s, RouteByIntent(s), context, {}, c)
  <2>3. c \in Int
    <3>1. s.confidence_score \in Int
      BY <1>1 DEF States
    <3> QED
      BY <2>2, <3>1, CombineBounds
  <2>4. values \in States
    BY <1>1, <2>3, RouteIsAWorker, DraftedType
  <2>5. values.execution_logs = logs \o DraftedTags(RouteByIntent(s))
    BY <1>1 DEF Drafted, States
  <2>6. DraftedTags(RouteByIntent(s)) \in Seq(LogLines)
    <3>1. DraftedTags(RouteByIntent(s)) \in Seq(LogTags) /\ LogTags \subseteq LogLines
      BY DraftedTagsType DEF LogLines
    <3> HIDE DEF LogTags
    <3> QED
      BY <3>1
  <2> HIDE DEF values
  <2> QED
    BY <1>1, <1>4, <2>2, <2>4, <2>5, <2>6, LongerLogs DEF values
<1>8. CASE RunReview(r)
  <2> DEFINE values == SupervisorReview(s)
  <2>1. values \in States /\ NodeReturns(r, values, "finish")
    BY <1>1, <1>8, SupervisorReviewType DEF RunReview
  <2>2. values.execution_logs = Append(logs, Verdict(s))
    BY <1>1 DEF SupervisorReview, States
  <2>3. Verdict(s) \in LogLines /\ Verdict(s) \in {"ESCALATE", "AUTO_APPROVED"}
    BY DEF Verdict, LogLines, LogTags
  <2> HIDE DEF values
  <2>4. Lines(values) = Lines(s) \cup {Verdict(s)}
    <3>1. s.execution_logs \in Seq(LogLines)
      BY <1>1
    <3> HIDE DEF s
    <3> QED
      BY <2>2, <2>3, <3>1, LinesOfAppend
  <2>5. HasVerdict(values)
    BY <2>3, <2>4 DEF HasVerdict
  <2> QED
    BY <1>1, <1>4, <2>1, <2>2, <2>3, <2>5, LongerLogs
<1> QED
  BY <1>5, <1>6, <1>7, <1>8 DEF NodeStep

\* The other steps of a stream.
LEMMA StreamSerial ==
    ASSUME NEW r \in Requests, Informed(r), StreamStep(r), ~NodeStep(r)
    PROVE  SerialEffect(r)
<1> DEFINE t == req[r].ticket
<1>1. /\ TypeOK /\ t \in Tickets /\ KnowsTicket(r)
      /\ req \in [Requests -> RequestStates] /\ registry \in [Tickets -> Records]
  BY DEF Informed, ServiceInvariant, TypeOK
<1>2. ASSUME NEW status, NEW approved, Save(r, status, approved)
      PROVE  registry'[t].status = status
  BY <1>1, <1>2 DEF Save, Record
<1>4. CASE OpenReplay(r)
  <2>1. req'[r].pc = "replay" /\ req'[r].reply = req[r].reply /\ req'[r].ticket = t
        /\ UNCHANGED <<registry, checkpoint>>
    BY <1>1, <1>4, GotoTurn DEF OpenReplay, Turn
  <2>2. Terminal(checkpoint[t])
    BY <1>1, <1>4 DEF OpenReplay, At, KnowsTicket, Informed, DoneCanBeReplayed, Terminal
  <2>3. KnowsTicket(r)'
    BY <2>1, <2>2, KnownPCsAreBusy DEF KnowsTicket
  <2> QED
    BY <2>1, <2>3, SameThreadEffect
<1>5. CASE OpenRun(r)
  <2>1. /\ req'[r].pc = "begin" /\ req'[r].reply = req[r].reply /\ req'[r].ticket = t
        /\ UNCHANGED checkpoint /\ registry'[t].status = "running"
    BY <1>1, <1>2, <1>5, GotoTurn DEF OpenRun, Turn
  <2>2. KnowsTicket(r)'
    BY <2>1, KnownPCsAreBusy DEF KnowsTicket
  <2> QED
    BY <2>1, <2>2, SameThreadEffect
<1>6. CASE RunBegin(r)
  <2>1. /\ req'[r].pc = "input" /\ req'[r].reply = req[r].reply /\ req'[r].ticket = t
        /\ req'[r].state = checkpoint[t]
        /\ UNCHANGED <<registry, checkpoint>> /\ req[r].pc = "begin"
    BY <1>1, <1>6 DEF RunBegin, Thread, At, RequestStates
  <2>2. KnowsTicket(r)'
    BY <1>1, <2>1, KnownPCsAreBusy DEF KnowsTicket
  <2> QED
    BY <2>1, <2>2, SameThreadEffect
<1>7. CASE Finish(r)
  <2>1. /\ req'[r].pc = "send_done" /\ req'[r].reply = req[r].reply /\ req'[r].ticket = t
        /\ UNCHANGED checkpoint /\ req[r].pc = "finish"
    BY <1>1, <1>7 DEF Finish, At, RequestStates
  <2>2. Terminal(checkpoint[t])
    BY <1>1, <2>1 DEF KnowsTicket
  <2>3. KnowsTicket(r)'
    BY <2>1, <2>2, KnownPCsAreBusy DEF KnowsTicket
  <2> QED
    BY <2>1, <2>2, <2>3, SameThreadEffect
<1>8. CASE SendDone(r) /\ Thread(r).complete
  <2>1. Answer(r, "done") /\ UNCHANGED <<registry, checkpoint>> /\ req[r].pc = "send_done"
    BY <1>8 DEF SendDone, At
  <2>2. HasVerdict(Thread(r).values)
    BY <1>1, <2>1 DEF KnowsTicket, Terminal, Thread
  <2> QED
    BY <2>1, <2>2, AnswerEffect
<1>9. CASE SendDone(r) /\ ~Thread(r).complete
  <2>1. /\ req'[r].pc = "fail" /\ req'[r].reply = req[r].reply /\ req'[r].ticket = t
        /\ UNCHANGED <<registry, checkpoint>>
    BY <1>1, <1>9, GotoTurn DEF SendDone, Turn
  <2>2. KnowsTicket(r)'
    BY <2>1, KnownPCsAreBusy DEF KnowsTicket, KnownPCs
  <2> QED
    BY <2>1, <2>2, SameThreadEffect
<1>10. CASE Fail(r)
  <2>1. Answer(r, "error") /\ UNCHANGED checkpoint /\ registry'[t].status = "error"
    BY <1>2, <1>10 DEF Fail
  <2> QED
    BY <2>1, AnswerEffect
<1>11. CASE Replay(r)
  <2>1. PICK reply \in {"done", "broken"} : Answer(r, reply)
    BY <1>11 DEF Replay
  <2>2. UNCHANGED <<registry, checkpoint>> /\ HasVerdict(Thread(r).values)
    BY <1>1, <1>11 DEF Replay, At, KnowsTicket, Terminal, Thread
  <2> QED
    BY <2>1, <2>2, AnswerEffect
<1> QED
  BY <1>4, <1>5, <1>6, <1>7, <1>8, <1>9, <1>10, <1>11 DEF StreamStep, NodeStep

\* The steps of GET, PATCH, claim and approve.  A patch stores what it read,
\* because nobody wrote in between.
LEMMA ActionSerial ==
    ASSUME NEW r \in Requests, Informed(r), ActionStep(r)
    PROVE  SerialEffect(r)
<1> DEFINE t == req[r].ticket
<1>1. /\ TypeOK /\ BusyOnTicket /\ t \in Tickets /\ KnowsTicket(r)
      /\ req \in [Requests -> RequestStates]
      /\ checkpoint[t] \in Threads /\ checkpoint[t].values \in States
  BY DEF Informed, ServiceInvariant, TypeOK, Threads
<1>2. CASE ApproveTicket(r)
  <2>1. Answer(r, "200") /\ UNCHANGED checkpoint /\ registry'[t].status = "closed"
    BY <1>1, <1>2 DEF ApproveTicket, Save, Record, TypeOK
  <2> QED
    BY <2>1, AnswerEffect
<1>3. CASE ReadState(r)
  <2>1. PICK reply \in {"200", "500"} : Answer(r, reply)
    BY <1>3 DEF ReadState
  <2> QED
    BY <1>3, <2>1, AnswerEffect DEF ReadState
<1>4. CASE Rescore(r)
  <2>1. UNCHANGED <<registry, checkpoint>> /\ req[r].pc = "rescore"
    BY <1>4 DEF Rescore, At
  <2>2. CASE Answer(r, "502")
    BY <2>1, <2>2, AnswerEffect
  <2>3. CASE Goto(r, "read_base")
    <3>1. /\ req'[r].pc = "read_base" /\ req'[r].reply = req[r].reply /\ req'[r].ticket = t
          /\ req'[r].op = "modify"
      BY <1>1, <2>1, <2>3, GotoTurn DEF Turn, KnowsTicket
    <3>2. KnowsTicket(r)'
      BY <3>1, KnownPCsAreBusy DEF KnowsTicket
    <3> QED
      BY <2>1, <3>1, <3>2, SameThreadEffect
  <2> QED
    BY <1>4, <2>2, <2>3 DEF Rescore
<1>5. CASE ReadLogs(r) /\ ~Thread(r).complete
  BY <1>5, AnswerEffect DEF ReadLogs
<1>6. CASE ReadLogs(r) /\ Thread(r).complete
  <2>1. /\ req'[r].pc = "read_base" /\ req'[r].reply = req[r].reply /\ req'[r].ticket = t
        /\ req'[r].logs = Append(checkpoint[t].values.execution_logs, r)
        /\ UNCHANGED <<registry, checkpoint>>
    BY <1>1, <1>6 DEF ReadLogs, Thread, RequestStates
  <2>2. KnowsTicket(r)'
    BY <2>1, KnownPCsAreBusy DEF KnowsTicket
  <2> QED
    BY <2>1, <2>2, SameThreadEffect
<1>7. CASE UpdateReadsBase(r)
  <2>1. /\ req'[r].pc = "put" /\ req'[r].reply = req[r].reply /\ req'[r].ticket = t
        /\ req'[r].op = req[r].op /\ req'[r].logs = req[r].logs /\ req'[r].state = checkpoint[t]
        /\ UNCHANGED <<registry, checkpoint>> /\ req[r].pc = "read_base"
    BY <1>1, <1>7 DEF UpdateReadsBase, Thread, At, RequestStates
  <2>2. KnowsTicket(r)'
    BY <1>1, <2>1, KnownPCsAreBusy DEF KnowsTicket
  <2> QED
    BY <2>1, <2>2, SameThreadEffect
<1>8. CASE UpdatePuts(r)
  <2> DEFINE base == req[r].state
             s    == checkpoint[t].values
  <2>1. /\ req'[r].pc = "read_state" /\ req'[r].ticket = t /\ req[r].pc = "put"
        /\ req'[r].reply = req[r].reply /\ UNCHANGED registry
    BY <1>1, <1>8 DEF UpdatePuts, At, RequestStates
  <2>2. base = checkpoint[t] /\ (req[r].op = "claim" => req[r].logs = Append(s.execution_logs, r))
    BY <1>1, <2>1, KnownPCsAreBusy DEF KnowsTicket
  <2>3. KnowsTicket(r)'
    BY <2>1, KnownPCsAreBusy DEF KnowsTicket
  <2>4. \E values : /\ checkpoint'[t] = Saved(checkpoint[t].complete, values)
                    /\ IsPrefix(s.execution_logs, values.execution_logs)
                    /\ HasVerdict(s) => HasVerdict(values)
    <3>1. s \in States /\ s.execution_logs \in Seq(LogLines) /\ r \in LogLines
      BY <1>1 DEF States, LogLines
    <3>2. CASE req[r].op = "modify"
      <4>1. PICK score : checkpoint'[t] = Saved(base.complete, Edited(base.values, r, score))
        BY <1>1, <1>8, <3>2, PatchEffect
      <4> DEFINE u == Edited(s, r, score)
      <4>2. u.execution_logs = s.execution_logs
        BY <3>1 DEF Edited, States
      <4>3. Lines(u) = Lines(s)
        BY <3>1, PatchIsCoherent
      <4>4. IsPrefix(s.execution_logs, u.execution_logs)
        BY <3>1, <4>2, LongerLogs
      <4>5. HasVerdict(s) => HasVerdict(u)
        BY <4>3 DEF HasVerdict
      <4>6. checkpoint'[t] = Saved(checkpoint[t].complete, u)
        BY <2>2, <4>1
      <4> HIDE DEF u
      <4> QED
        BY <4>4, <4>5, <4>6
    <3>3. CASE req[r].op = "claim"
      <4> DEFINE logs == Append(s.execution_logs, r)
      <4>1. checkpoint'[t] = Saved(checkpoint[t].complete, Claimed(s, logs))
        BY <1>1, <1>8, <2>2, <3>3, PatchEffect
      <4>2. Claimed(s, logs).execution_logs = logs
        BY <3>1 DEF Claimed, States
      <4>3. Lines(Claimed(s, logs)) = Lines(s) \cup {r}
        BY <3>1, PatchIsCoherent
      <4>4. IsPrefix(s.execution_logs, logs)
        BY <3>1, LongerLogs
      <4>5. HasVerdict(s) => HasVerdict(Claimed(s, logs))
        BY <4>3 DEF HasVerdict
      <4> HIDE DEF logs
      <4> QED
        BY <4>1, <4>2, <4>4, <4>5
    <3> QED
      BY <1>8, <3>2, <3>3 DEF UpdatePuts
  <2>5. PICK values : /\ checkpoint'[t] = Saved(checkpoint[t].complete, values)
                      /\ IsPrefix(s.execution_logs, values.execution_logs)
                      /\ HasVerdict(s) => HasVerdict(values)
    BY <2>4
  <2>6. checkpoint'[t].complete = checkpoint[t].complete /\ checkpoint'[t].values = values
    BY <2>5 DEF Saved
  <2>7. registry'[t].status = "done" => Terminal(checkpoint'[t])
    BY <1>1, <2>1, <2>5, <2>6 DEF Informed, DoneCanBeReplayed, Terminal
  <2> QED
    BY <2>1, <2>3, <2>5, <2>6, <2>7 DEF SerialEffect
<1> QED
  BY <1>2, <1>3, <1>4, <1>5, <1>6, <1>7, <1>8 DEF ActionStep

\* The lookup, and what goes wrong.
LEMMA LookupSerial ==
    ASSUME NEW r \in Requests, Informed(r), Lookup(r)
    PROVE  SerialEffect(r)
<1> DEFINE t == req[r].ticket
<1>1. CASE Registered(t)
  <2>1. /\ req'[r].pc = FirstPC(req[r].op) /\ req'[r].reply = req[r].reply
        /\ req'[r].ticket = t /\ req'[r].op = req[r].op
        /\ Durable => req'[r].rec = registry[t]
        /\ UNCHANGED <<registry, checkpoint>>
    BY <1>1 DEF Lookup, Informed, ServiceInvariant, TypeOK, RequestStates
  <2>2. /\ FirstPC(req[r].op) \in {"open", "close", "rescore", "read_logs", "read_state"}
        /\ FirstPC(req[r].op) = "rescore" => req[r].op = "modify"
    BY DEF FirstPC
  <2>3. KnowsTicket(r)'
    BY <1>1, <2>1, <2>2, KnownPCsAreBusy DEF KnowsTicket, Rec, Registered
  <2> QED
    BY <2>1, <2>3, SameThreadEffect
<1>2. CASE ~Registered(t)
  BY <1>2, AnswerEffect DEF Lookup
<1> QED
  BY <1>1, <1>2

LEMMA FaultSerial ==
    ASSUME NEW r \in Requests, Informed(r), RunRaises(r) \/ StoreRaises(r) \/ Disconnect(r)
    PROVE  SerialEffect(r)
<1>1. CASE RunRaises(r)
  <2>1. /\ req'[r].pc = "fail" /\ req'[r].reply = req[r].reply
        /\ UNCHANGED <<registry, checkpoint>>
    BY <1>1 DEF RunRaises, Informed, ServiceInvariant, TypeOK, RequestStates
  <2>2. KnowsTicket(r)'
    BY <2>1, KnownPCsAreBusy DEF KnowsTicket, KnownPCs
  <2> QED
    BY <2>1, <2>2, SameThreadEffect
<1>2. CASE StoreRaises(r)
  BY <1>2, AnswerEffect DEF StoreRaises
<1>3. CASE Disconnect(r)
  BY <1>3, AnswerEffect DEF Disconnect
<1> QED
  BY <1>1, <1>2, <1>3

LEMMA RequestSerial ==
    ASSUME NEW r \in Requests, ServiceInvariant, DoneCanBeReplayed, KnowsTicket(r),
           Step(r) \/ Disconnect(r)
    PROVE  Informed(r) /\ SerialEffect(r) /\ Turn(r)
<1>1. Turn(r) /\ req[r].pc \in Busy
  BY RequestProceeds DEF ServiceInvariant, Proceeds
<1>2. Informed(r)
  BY <1>1 DEF Informed, ServiceInvariant, BusyOnTicket
<1> QED
  BY <1>1, <1>2, NodeSerial, StreamSerial, ActionSerial, LookupSerial, FaultSerial
     DEF Step

\* A request that does not move keeps what it knows if its ticket stays the same.
LEMMA KnowledgeKept ==
    ASSUME NEW q \in Requests, KnowsTicket(q), req'[q] = req[q],
           req[q].pc \in Busy => /\ checkpoint'[req[q].ticket] = checkpoint[req[q].ticket]
                                 /\ registry'[req[q].ticket] = registry[req[q].ticket]
    PROVE  KnowsTicket(q)'
<1>1. CASE req[q].pc \in Busy
  BY <1>1 DEF KnowsTicket, Rec, Registered
<1>2. CASE req[q].pc \notin Busy
  <2>1. req'[q].pc \notin KnownPCs
    BY <1>2, KnownPCsAreBusy
  <2> QED
    BY <2>1, KnownPCsAreBusy DEF KnowsTicket, KnownPCs
<1> QED
  BY <1>1, <1>2

LEMMA SerialStep ==
    ASSUME IsFiniteSet(Requests), MaxInFlight = 1,
           ServiceInvariant, SerialInvariant, [Next]_vars
    PROVE  SerialInvariant'
<1>1. ASSUME NEW r \in Requests, Step(r) \/ Disconnect(r)
      PROVE  SerialInvariant'
  <2> DEFINE t == req[r].ticket
  <2>1. Informed(r) /\ SerialEffect(r) /\ Turn(r)
    BY <1>1, RequestSerial DEF SerialInvariant
  <2>2. \A u \in Tickets \ {t} : registry'[u] = registry[u] /\ checkpoint'[u] = checkpoint[u]
    BY <1>1, ElsewhereSame
  <2>3. Alone'
    BY <2>1 DEF Alone, SerialInvariant, Informed, Turn
  <2>4. ASSUME NEW q \in Requests PROVE KnowsTicket(q)'
    <3>1. CASE q = r
      BY <2>1, <3>1 DEF SerialEffect
    <3>2. CASE q # r
      <4>1. req'[q] = req[q] /\ KnowsTicket(q)
        BY <2>1, <3>2 DEF Turn, SerialInvariant
      <4>2. req[q].pc \in Busy => req[q].ticket \in Tickets \ {t}
        BY <2>1, <3>2 DEF Informed, SerialInvariant, Alone, ServiceInvariant, BusyOnTicket
      <4> QED
        BY <2>2, <4>1, <4>2, KnowledgeKept
    <3> QED
      BY <3>1, <3>2
  <2>5. DoneCanBeReplayed'
    BY <2>1, <2>2 DEF SerialEffect, SerialInvariant, DoneCanBeReplayed, Terminal
  <2> QED
    BY <2>3, <2>4, <2>5 DEF SerialInvariant
<1>2. ASSUME NEW r \in Requests, NEW op \in Ops, NEW t \in Tickets, Receive(r, op, t)
      PROVE  SerialInvariant'
  <2>1. InFlight(t) = {}
    <3>1. IsFiniteSet(InFlight(t))
      BY FS_Subset DEF InFlight
    <3>2. Cardinality(InFlight(t)) \in Nat /\ Cardinality(InFlight(t)) < 1
      BY <1>2, <3>1, FS_CardinalityType DEF Receive
    <3>3. Cardinality(InFlight(t)) = 0
      BY <3>2
    <3> QED
      BY <3>1, <3>3, FS_EmptySet
  <2>2. /\ req'[r].pc = "get" /\ req'[r].ticket = t
        /\ \A q \in Requests \ {r} : req'[q] = req[q]
        /\ UNCHANGED <<registry, checkpoint>>
    BY <1>2 DEF Receive, ServiceInvariant, TypeOK, Idle
  <2>3. Alone'
    BY <2>1, <2>2 DEF Alone, SerialInvariant, InFlight
  <2>4. ASSUME NEW q \in Requests PROVE KnowsTicket(q)'
    <3>1. CASE q = r
      BY <2>2, <3>1, KnownPCsAreBusy DEF KnowsTicket
    <3>2. CASE q # r
      BY <2>2, <3>2, KnowledgeKept DEF SerialInvariant
    <3> QED
      BY <3>1, <3>2
  <2>5. DoneCanBeReplayed'
    BY <2>2 DEF SerialInvariant, DoneCanBeReplayed
  <2> QED
    BY <2>3, <2>4, <2>5 DEF SerialInvariant
<1>3. ASSUME NEW t \in Tickets, CreateTicket(t)
      PROVE  SerialInvariant'
  <2>1. /\ UNCHANGED <<checkpoint, req>> /\ registry[t].status = "absent"
        /\ registry'[t].status = "pending"
        /\ \A u \in Tickets \ {t} : registry'[u] = registry[u]
    BY <1>3 DEF CreateTicket, Registered, Record, ServiceInvariant, TypeOK
  <2>2. ASSUME NEW q \in Requests PROVE KnowsTicket(q)'
    <3>1. KnowsTicket(q) /\ req'[q] = req[q]
      BY <2>1 DEF SerialInvariant
    <3>2. CASE req[q].ticket = t
      BY <2>1, <3>1, <3>2, KnownPCsAreBusy DEF KnowsTicket, Registered
    <3>3. CASE req[q].ticket # t
      BY <2>1, <3>1, <3>3, KnowledgeKept DEF ServiceInvariant, BusyOnTicket
    <3> QED
      BY <3>2, <3>3
  <2>3. DoneCanBeReplayed' /\ Alone'
    BY <2>1 DEF SerialInvariant, DoneCanBeReplayed, Alone
  <2> QED
    BY <2>2, <2>3 DEF SerialInvariant
<1>4. CASE Crash
  <2>1. \A q \in Requests : req'[q].pc \notin Busy
    BY <1>4, CrashAnswers DEF ServiceInvariant
  <2>2. Alone'
    BY <2>1 DEF Alone
  <2>3. ASSUME NEW q \in Requests PROVE KnowsTicket(q)'
    BY <2>1, KnownPCsAreBusy DEF KnowsTicket, KnownPCs
  <2>4. DoneCanBeReplayed'
    <3>1. CASE Durable
      <4>1. UNCHANGED <<registry, checkpoint>>
        BY <1>4, <3>1, Zenon DEF Crash
      <4> QED
        BY <4>1 DEF SerialInvariant, DoneCanBeReplayed
    <3>2. CASE ~Durable
      <4>1. registry' = [t \in Tickets |-> Absent]
        BY <1>4, <3>2, Zenon DEF Crash
      <4> QED
        BY <4>1 DEF DoneCanBeReplayed, Absent, Record
    <3> QED
      BY <3>1, <3>2
  <2> QED
    BY <2>2, <2>3, <2>4 DEF SerialInvariant
<1>5. CASE UNCHANGED vars
  BY <1>5 DEF vars, SerialInvariant, Alone, KnowsTicket, Rec, Registered, DoneCanBeReplayed
<1> QED
  BY <1>1, <1>2, <1>3, <1>4, <1>5 DEF Next

LEMMA InitSerial == Init => SerialInvariant
<1> SUFFICES ASSUME Init PROVE SerialInvariant
  OBVIOUS
<1>1. \A r \in Requests : req[r].pc = "idle"
  BY DEF Init, Idle
<1>2. "idle" \notin KnownPCs
  BY BusyPCs, KnownPCsAreBusy
<1>3. Alone
  BY <1>1, BusyPCs DEF Alone
<1>4. \A r \in Requests : KnowsTicket(r)
  BY <1>1, <1>2, KnownPCsAreBusy DEF KnowsTicket, KnownPCs
<1>5. DoneCanBeReplayed
  BY DEF Init, DoneCanBeReplayed, Absent, Record
<1> QED
  BY <1>3, <1>4, <1>5 DEF SerialInvariant

LEMMA SerialInvariance ==
    ASSUME IsFiniteSet(Requests), MaxInFlight = 1
    PROVE  Spec => [](ServiceInvariant /\ SerialInvariant)
<1>1. Init => SerialInvariant
  BY InitSerial
<1>2. ServiceInvariant /\ SerialInvariant /\ [Next]_vars => SerialInvariant'
  BY SerialStep
<1> QED
  BY <1>1, <1>2, Invariance, PTL DEF Spec

\* A ticket whose requests do not overlap, when it shows "done", has a reviewed
\* thread to replay, whatever faults and restarts come between the two stores
\* (main.py:174, 185).
THEOREM FinishedTicketsCanBeReplayed ==
    ASSUME IsFiniteSet(Requests), MaxInFlight = 1
    PROVE  Spec => []DoneCanBeReplayed
<1>1. SerialInvariant => DoneCanBeReplayed
  BY DEF SerialInvariant
<1> QED
  BY <1>1, SerialInvariance, PTL

\* What a step does to the threads and to the replies.
LEMMA SerialChanges ==
    ASSUME ServiceInvariant, SerialInvariant, [Next]_vars
    PROVE  /\ \A t \in Tickets :
                  LET old == checkpoint[t].values.execution_logs
                      new == checkpoint'[t].values.execution_logs
                  IN  new # <<>> => IsPrefix(old, new)
           /\ \A r \in Requests :
                  req[r].reply # "done" /\ req'[r].reply = "done" =>
                      HasVerdict(Thread(r).values)
<1> DEFINE old(t) == checkpoint[t].values.execution_logs
           new(t) == checkpoint'[t].values.execution_logs
           Grows(t) == new(t) # <<>> => IsPrefix(old(t), new(t))
           Told(r) == req[r].reply # "done" /\ req'[r].reply = "done" =>
                          HasVerdict(Thread(r).values)
<1>1. \A t \in Tickets : IsPrefix(old(t), old(t))
  <2>1. \A t \in Tickets : old(t) \in Seq(LogLines)
    BY DEF ServiceInvariant, TypeOK, Threads, States
  <2> QED
    BY <2>1, LongerLogs
<1>2. ASSUME NEW t \in Tickets, checkpoint'[t] = checkpoint[t] PROVE Grows(t)
  BY <1>1, <1>2
<1>3. ASSUME NEW r \in Requests, Step(r) \/ Disconnect(r)
      PROVE  /\ \A t \in Tickets : Grows(t)
             /\ \A q \in Requests : Told(q)
  <2>1. SerialEffect(r) /\ Turn(r)
    BY <1>3, RequestSerial DEF SerialInvariant
  <2>2. \A t \in Tickets \ {req[r].ticket} : checkpoint'[t] = checkpoint[t]
    BY <1>3, ElsewhereSame
  <2>3. \A t \in Tickets : Grows(t)
    BY <1>2, <2>1, <2>2 DEF SerialEffect
  <2>4. \A q \in Requests : Told(q)
    BY <2>1 DEF SerialEffect, Turn
  <2> QED
    BY <2>3, <2>4
<1>4. CASE \E t \in Tickets : CreateTicket(t)
  <2>1. UNCHANGED <<checkpoint, req>>
    BY <1>4 DEF CreateTicket
  <2> QED
    BY <1>2, <2>1
<1>5. ASSUME NEW r \in Requests, NEW op \in Ops, NEW t \in Tickets, Receive(r, op, t)
      PROVE  /\ \A u \in Tickets : Grows(u)
             /\ \A q \in Requests : Told(q)
  <2>1. /\ UNCHANGED checkpoint /\ req'[r].reply = "none"
        /\ \A q \in Requests \ {r} : req'[q] = req[q]
    BY <1>5 DEF Receive, ServiceInvariant, TypeOK, Idle
  <2> QED
    BY <1>2, <2>1
<1>6. CASE Crash
  <2>1. \A q \in Requests : Told(q)
    <3>1. \A q \in Requests : req'[q].reply = IF req[q].pc \in Busy THEN "lost" ELSE req[q].reply
      BY <1>6, CrashAnswers DEF ServiceInvariant
    <3> QED
      BY <3>1
  <2>2. ASSUME NEW t \in Tickets PROVE Grows(t)
    <3>1. CASE Durable
      <4>1. UNCHANGED checkpoint
        BY <1>6, <3>1, Zenon DEF Crash
      <4> QED
        BY <1>2, <4>1
    <3>2. CASE ~Durable
      <4>1. checkpoint' = [u \in Tickets |-> EmptyThread]
        BY <1>6, <3>2, Zenon DEF Crash
      <4>2. new(t) = <<>>
        BY <4>1 DEF EmptyThread, Saved, NewState
      <4> QED
        BY <4>2
    <3> QED
      BY <3>1, <3>2
  <2> QED
    BY <2>1, <2>2
<1>7. CASE UNCHANGED vars
  <2>1. UNCHANGED <<checkpoint, req>>
    BY <1>7 DEF vars
  <2> QED
    BY <1>2, <2>1
<1> QED
  BY <1>3, <1>4, <1>5, <1>6, <1>7 DEF Next

\* The state in a done frame is reviewed, for a run as for a replay, when requests
\* on a ticket do not overlap (main.py:131, 173).
THEOREM DoneFramesAreTerminal ==
    ASSUME IsFiniteSet(Requests), MaxInFlight = 1
    PROVE  Spec => DoneFrameIsTerminal
<1> DEFINE Told == \A r \in Requests :
                       req[r].reply # "done" /\ req'[r].reply = "done" =>
                           HasVerdict(Thread(r).values)
<1>1. ServiceInvariant /\ SerialInvariant /\ [Next]_vars => [Told]_vars
  BY SerialChanges
<1> QED
  BY <1>1, SerialInvariance, PTL DEF Spec, DoneFrameIsTerminal

\* The log of a thread whose requests do not overlap loses nothing but to a new
\* run: neither a modification nor a claim drops a line of it (main.py:246, 275).
THEOREM LogsOnlyGrow ==
    ASSUME IsFiniteSet(Requests), MaxInFlight = 1
    PROVE  Spec => LogsAppendOnly
<1> DEFINE Grow == \A t \in Tickets :
                       LET old == checkpoint[t].values.execution_logs
                           new == checkpoint'[t].values.execution_logs
                       IN  new # <<>> => IsPrefix(old, new)
<1>1. ServiceInvariant /\ SerialInvariant /\ [Next]_vars => [Grow]_vars
  BY SerialChanges
<1> QED
  BY <1>1, SerialInvariance, PTL DEF Spec, LogsAppendOnly

\* With claims too the verdict belongs to the state, when requests on a ticket do
\* not overlap: the marker goes into the log it was read with (main.py:275).
THEOREM SerialVerdicts ==
    ASSUME IsFiniteSet(Requests), MaxInFlight = 1
    PROVE  Spec => []VerdictMatchesState
<1>1. ServiceInvariant /\ SerialInvariant /\ VerdictInvariant => \A r \in Requests : ClaimFits(r)
  <2> SUFFICES ASSUME ServiceInvariant, SerialInvariant, VerdictInvariant,
                      NEW r \in Requests, req[r].pc = "put", req[r].op = "claim"
               PROVE  Coherent(Claimed(req[r].state.values, req[r].logs))
    BY DEF ClaimFits
  <2> DEFINE s == checkpoint[req[r].ticket].values
  <2>1. req[r].ticket \in Tickets
    BY DEF ServiceInvariant, BusyOnTicket, Busy, ActionPCs
  <2>2. req[r].state.values = s /\ req[r].logs = Append(s.execution_logs, r)
    BY DEF SerialInvariant, KnowsTicket
  <2>3. s \in States
    BY <2>1 DEF ServiceInvariant, TypeOK, Threads
  <2>4. Coherent(s)
    BY <2>1 DEF VerdictInvariant, VerdictMatchesState, Coherent
  <2> HIDE DEF s
  <2> QED
    BY <2>2, <2>3, <2>4, PatchIsCoherent
<1>2. ServiceInvariant /\ SerialInvariant /\ VerdictInvariant /\ [Next]_vars => VerdictInvariant'
  BY <1>1, VerdictStep
<1>3. Init => VerdictInvariant
  BY InitVerdict
<1>4. VerdictInvariant => VerdictMatchesState
  BY DEF VerdictInvariant
<1> QED
  BY <1>2, <1>3, <1>4, SerialInvariance, PTL DEF Spec
=============================================================================
