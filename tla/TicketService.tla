--------------------------- MODULE TicketService ---------------------------
(***************************************************************************)
(* The orchestrator's HTTP surface over one ticket registry and one        *)
(* checkpointer (app/main.py, app/persistence.py).  Each element of        *)
(* Requests is one HTTP request: a coroutine that runs from await to await *)
(* and interleaves with the others on the event loop.  A pc names the      *)
(* await a request is about to come back from.                             *)
(*                                                                         *)
(* Two stores.  The registry holds a TicketRecord per ticket.  In memory   *)
(* get() hands every request the SAME object, so an assignment to          *)
(* rec.status is seen by all; with Postgres get() builds a copy and save() *)
(* writes the copy's status and approved columns back.  The checkpointer   *)
(* holds the latest AgentState of the ticket's thread; a run carries its   *)
(* own channels and stores them whole after every node, aupdate_state      *)
(* reads the latest state and stores it whole with the patch applied.      *)
(***************************************************************************)
EXTENDS TriageNodes, FiniteSets, SequencesExt

CONSTANTS
    Tickets,        \* ticket ids
    Requests,       \* bound: the HTTP requests of a behaviour
    Durable,        \* TRUE: Postgres registry and checkpointer
    Ops,            \* the operations clients use
    MaxInFlight,    \* bound: requests in progress on one ticket
    Faults,         \* what may go wrong
    MaxFaults,      \* bound: how often
    Intents,        \* labels the classifier may answer with
    Scores          \* confidences it may answer with

AllOps == {"stream", "get", "approve", "modify", "claim"}
AllFaults == {"node", "store", "disconnect", "crash"}

ASSUME DurableAssumption == Durable \in BOOLEAN
ASSUME OpsAssumption == Ops \subseteq AllOps
ASSUME FaultsAssumption == Faults \subseteq AllFaults
ASSUME BoundsAssumption == MaxInFlight \in Nat /\ MaxFaults \in Nat
ASSUME ScoresAssumption == Scores \subseteq Int
\* Requests and Tickets are identifiers of their own, never a log line's tag.
ASSUME RequestsAssumption == Requests \cap LogTags = {}

VARIABLES
    registry,       \* ticket -> TicketRecord (status, approved)
    checkpoint,     \* ticket -> latest checkpoint of its thread
    req,            \* request -> where its coroutine is and what it holds
    faults,         \* faults so far
    abandoned       \* history: tickets one of whose runs was cut off

vars == <<registry, checkpoint, req, faults, abandoned>>

-----------------------------------------------------------------------------
(* State *)

Statuses == {"pending", "running", "done", "error", "closed"}

Record(status, approved) == [status |-> status, approved |-> approved]
Absent == Record("absent", FALSE)
Registered(t) == registry[t].status # "absent"

\* complete: the thread holds the ticket's identity (ticket_id, raw_issue_text,
\* company_id), without which AgentState(**values) does not validate.
Saved(complete, values) == [complete |-> complete, values |-> values]
EmptyThread == Saved(FALSE, NewState)

RunPCs == {"begin", "input", "classify", "worker", "supervisor"}
StreamPCs == {"open", "replay", "finish", "send_done", "fail"} \cup RunPCs
ActionPCs == {"close", "rescore", "read_logs", "read_base", "put", "read_state"}
Busy == {"get"} \cup StreamPCs \cup ActionPCs
\* Between the save of "running" and the save of "done" or "error".
OwnerPCs == RunPCs \cup {"finish", "fail"}

Idle == [op |-> "none", ticket |-> "none", pc |-> "idle", rec |-> Absent,
         state |-> EmptyThread, logs |-> <<>>, reply |-> "none"]

Owners == {r \in Requests : req[r].pc \in OwnerPCs}

InFlight(t) == {r \in Requests : req[r].pc \in Busy /\ req[r].ticket = t}

\* What the request sees when it reads its rec.
Rec(r) == IF Durable THEN req[r].rec ELSE registry[req[r].ticket]

Lines(s) == {s.execution_logs[i] : i \in 1 .. Len(s.execution_logs)}
HasVerdict(s) == Lines(s) \cap {"ESCALATE", "AUTO_APPROVED"} # {}

Init == /\ registry = [t \in Tickets |-> Absent]
        /\ checkpoint = [t \in Tickets |-> EmptyThread]
        /\ req = [r \in Requests |-> Idle]
        /\ faults = 0
        /\ abandoned = {}

-----------------------------------------------------------------------------
(* Steps of a request *)

At(r, pc) == req[r].pc = pc

Goto(r, pc) == req' = [req EXCEPT ![r].pc = pc]

\* The coroutine ends; what it held is garbage.
Answer(r, reply) ==
    req' = [req EXCEPT ![r] = [Idle EXCEPT !.op = req[r].op, !.ticket = req[r].ticket,
                                           !.pc = "replied", !.reply = reply]]

\* A mutation of Save: the UPDATE lists the status column only.
SaveStatusOnly(r, status, approved) ==
    registry' = [registry EXCEPT ![req[r].ticket].status = status]

\* rec.status = status (and approved), then _store.save(ticket_id, rec).
Save(r, status, approved) ==
    registry' = [registry EXCEPT ![req[r].ticket] = Record(status, approved)]

Put(r, saved) ==
    checkpoint' = [checkpoint EXCEPT ![req[r].ticket] = saved]

Thread(r) == checkpoint[req[r].ticket]

\* POST /tickets.  An id is a fresh uuid; a ticket that a restart has wiped out
\* of memory, with every request that knew it, may stand for the next one.
CreateTicket(t) ==
    /\ ~Registered(t)
    /\ registry' = [registry EXCEPT ![t] = Record("pending", FALSE)]
    /\ UNCHANGED <<checkpoint, req, faults, abandoned>>

Receive(r, op, t) ==
    /\ At(r, "idle")
    /\ Cardinality(InFlight(t)) < MaxInFlight
    /\ req' = [req EXCEPT ![r] = [Idle EXCEPT !.op = op, !.ticket = t, !.pc = "get"]]
    /\ UNCHANGED <<registry, checkpoint, faults, abandoned>>

FirstPC(op) == CASE op = "stream"  -> "open"
                 [] op = "approve" -> "close"
                 [] op = "modify"  -> "rescore"
                 [] op = "claim"   -> "read_logs"
                 [] OTHER          -> "read_state"

\* A mutation of Lookup: nobody answers for an unknown ticket.
LookupWaits(r) ==
    /\ At(r, "get")
    /\ Registered(req[r].ticket)
    /\ req' = [req EXCEPT ![r].pc = FirstPC(req[r].op),
                          ![r].rec = IF Durable THEN registry[req[r].ticket] ELSE Absent]
    /\ UNCHANGED <<registry, checkpoint, faults, abandoned>>

\* rec = await _store.get(ticket_id)
Lookup(r) ==
    /\ At(r, "get")
    /\ IF Registered(req[r].ticket)
       THEN req' = [req EXCEPT ![r].pc = FirstPC(req[r].op),
                               ![r].rec = IF Durable THEN registry[req[r].ticket] ELSE Absent]
       ELSE Answer(r, "404")
    /\ UNCHANGED <<registry, checkpoint, faults, abandoned>>

-----------------------------------------------------------------------------
(* GET /tickets/{id}/stream: the frames and the run behind them *)

\* A mutation of OpenReplay: a ticket that ended in error counts as finished.
OpenReplayEnded(r) ==
    /\ At(r, "open")
    /\ Rec(r).status \in {"done", "error"}
    /\ Goto(r, "replay")
    /\ UNCHANGED <<registry, checkpoint, faults, abandoned>>

\* After the open frame: a done ticket is replayed, any other is run.
OpenReplay(r) ==
    /\ At(r, "open")
    /\ Rec(r).status = "done"
    /\ Goto(r, "replay")
    /\ UNCHANGED <<registry, checkpoint, faults, abandoned>>

OpenRun(r) ==
    /\ At(r, "open")
    /\ Rec(r).status # "done"
    /\ Save(r, "running", Rec(r).approved)
    /\ Goto(r, "begin")
    /\ UNCHANGED <<checkpoint, faults, abandoned>>

\* astream loads the thread's latest checkpoint ...
RunBegin(r) ==
    /\ At(r, "begin")
    /\ req' = [req EXCEPT ![r].pc = "input", ![r].state = Thread(r)]
    /\ UNCHANGED <<registry, checkpoint, faults, abandoned>>

\* A node returns: its update goes into the run's channels and those, whole,
\* into the checkpointer.
NodeReturns(r, values, next) ==
    /\ req' = [req EXCEPT ![r].pc = next, ![r].state = Saved(TRUE, values)]
    /\ Put(r, Saved(TRUE, values))
    /\ UNCHANGED <<registry, faults, abandoned>>

\* ... and writes the input over it.
RunInput(r) ==
    /\ At(r, "input")
    /\ NodeReturns(r, WriteInput(req[r].state.values), "classify")

RunClassify(r) ==
    /\ At(r, "classify")
    /\ \/ NodeReturns(r, ClassifyFailed(req[r].state.values), "worker")
       \/ \E intent \in Intents, score \in Scores :
              NodeReturns(r, Classified(req[r].state.values, intent, score), "worker")

\* A mutation of RunWorker: the edge to supervisor_review is not wired.
RunWorkerToEnd(r) ==
    /\ At(r, "worker")
    /\ \E context \in {{}, {"chunks"}} :
           LET s == req[r].state.values
           IN  NodeReturns(r, Drafted(s, RouteByIntent(s), context, {}, s.confidence_score),
                           "finish")

\* The retrieval finds something or nothing; the facts are not followed here.
RunWorker(r) ==
    /\ At(r, "worker")
    /\ LET s == req[r].state.values
           worker == RouteByIntent(s)
       IN  \E context \in (IF worker = "lockout_agent" THEN {{}} ELSE {{}, {"chunks"}}) :
           \E c \in CombineConfidence(s.confidence_score, context # {}) :
               NodeReturns(r, Drafted(s, worker, context, {}, c), "supervisor")

\* A mutation of RunReview: a run that another one has overtaken is not reviewed.
RunReviewUnlessDone(r) ==
    /\ At(r, "supervisor")
    /\ IF registry[req[r].ticket].status = "done"
       THEN Goto(r, "finish") /\ UNCHANGED <<registry, checkpoint, faults, abandoned>>
       ELSE NodeReturns(r, SupervisorReview(req[r].state.values), "finish")

RunReview(r) ==
    /\ At(r, "supervisor")
    /\ NodeReturns(r, SupervisorReview(req[r].state.values), "finish")

\* Mutations of Finish: a misspelt status, a record built anew, no save.
FinishMisspelt(r) ==
    /\ At(r, "finish")
    /\ Save(r, "completed", Rec(r).approved)
    /\ req' = [req EXCEPT ![r].pc = "send_done", ![r].state = EmptyThread]
    /\ UNCHANGED <<checkpoint, faults, abandoned>>
FinishFresh(r) ==
    /\ At(r, "finish")
    /\ Save(r, "done", FALSE)
    /\ req' = [req EXCEPT ![r].pc = "send_done", ![r].state = EmptyThread]
    /\ UNCHANGED <<checkpoint, faults, abandoned>>
FinishUnsaved(r) ==
    /\ At(r, "finish")
    /\ req' = [req EXCEPT ![r].pc = "send_done", ![r].state = EmptyThread]
    /\ UNCHANGED <<registry, checkpoint, faults, abandoned>>

Finish(r) ==
    /\ At(r, "finish")
    /\ Save(r, "done", Rec(r).approved)
    /\ req' = [req EXCEPT ![r].pc = "send_done", ![r].state = EmptyThread]
    /\ UNCHANGED <<checkpoint, faults, abandoned>>

\* The done frame carries the thread's latest state; one that does not validate
\* raises inside the try block.
SendDone(r) ==
    /\ At(r, "send_done")
    /\ IF Thread(r).complete THEN Answer(r, "done") ELSE Goto(r, "fail")
    /\ UNCHANGED <<registry, checkpoint, faults, abandoned>>

\* A mutation of Fail: the error frame is sent, the status is not saved.
FailUnsaved(r) ==
    /\ At(r, "fail")
    /\ Answer(r, "error")
    /\ UNCHANGED <<registry, checkpoint, faults, abandoned>>

\* except Exception: save "error", send the error frame.
Fail(r) ==
    /\ At(r, "fail")
    /\ Save(r, "error", Rec(r).approved)
    /\ Answer(r, "error")
    /\ UNCHANGED <<checkpoint, faults, abandoned>>

\* The replay is outside the try block.
Replay(r) ==
    /\ At(r, "replay")
    /\ Answer(r, IF Thread(r).complete THEN "done" ELSE "broken")
    /\ UNCHANGED <<registry, checkpoint, faults, abandoned>>

-----------------------------------------------------------------------------
(* Operator actions *)

\* A mutation of ApproveTicket: the approved column is forgotten.
ApproveStatusOnly(r) ==
    /\ At(r, "close")
    /\ Save(r, "closed", Rec(r).approved)
    /\ Answer(r, "200")
    /\ UNCHANGED <<checkpoint, faults, abandoned>>

\* POST /tickets/{id}/approve
ApproveTicket(r) ==
    /\ At(r, "close")
    /\ Save(r, "closed", TRUE)
    /\ Answer(r, "200")
    /\ UNCHANGED <<checkpoint, faults, abandoned>>

\* PATCH /tickets/{id}: one call to the classifier, 502 when it fails.
Rescore(r) ==
    /\ At(r, "rescore")
    /\ Goto(r, "read_base") \/ Answer(r, "502")
    /\ UNCHANGED <<registry, checkpoint, faults, abandoned>>

\* POST /tickets/{id}/claim: the logs as they are now, plus the marker.
ReadLogs(r) ==
    /\ At(r, "read_logs")
    /\ IF Thread(r).complete
       THEN req' = [req EXCEPT ![r].pc = "read_base",
                               ![r].logs = Append(Thread(r).values.execution_logs, r)]
       ELSE Answer(r, "500")
    /\ UNCHANGED <<registry, checkpoint, faults, abandoned>>

\* aupdate_state reads the latest checkpoint ...
UpdateReadsBase(r) ==
    /\ At(r, "read_base")
    /\ req' = [req EXCEPT ![r].pc = "put", ![r].state = Thread(r)]
    /\ UNCHANGED <<registry, checkpoint, faults, abandoned>>

Edited(s, r, score) == [s EXCEPT !.agent_draft_response = Draft(r, {}),
                                 !.confidence_score = score]
\* A mutation of Claimed: the marker replaces the log.
ClaimedMarkerOnly(s, logs) == [s EXCEPT !.execution_logs = <<logs[Len(logs)]>>]
Claimed(s, logs) == [s EXCEPT !.execution_logs = logs]

\* ... and stores it with the patched fields.
UpdatePuts(r) ==
    /\ At(r, "put")
    /\ LET base == req[r].state
       IN  \/ /\ req[r].op = "modify"
              /\ \E score \in Scores :
                     Put(r, Saved(base.complete, Edited(base.values, r, score)))
           \/ /\ req[r].op = "claim"
              /\ Put(r, Saved(base.complete, Claimed(base.values, req[r].logs)))
    /\ req' = [req EXCEPT ![r].pc = "read_state", ![r].state = EmptyThread, ![r].logs = <<>>]
    /\ UNCHANGED <<registry, faults, abandoned>>

\* The body of GET, PATCH and claim: _final_state, a 500 if it does not validate.
ReadState(r) ==
    /\ At(r, "read_state")
    /\ Answer(r, IF Thread(r).complete THEN "200" ELSE "500")
    /\ UNCHANGED <<registry, checkpoint, faults, abandoned>>

-----------------------------------------------------------------------------
(* What goes wrong *)

Fault(kind) == /\ kind \in Faults
               /\ faults < MaxFaults
               /\ faults' = faults + 1

Abandon(r) ==
    abandoned' = IF r \in Owners THEN abandoned \cup {req[r].ticket} ELSE abandoned

\* A node, or with Postgres anything in the try block, raises.
RunRaises(r) ==
    /\ \/ req[r].pc \in {"classify", "worker"} /\ Fault("node")
       \/ /\ Durable /\ req[r].pc \in RunPCs \cup {"finish", "send_done"}
          /\ Fault("store")
    /\ req' = [req EXCEPT ![r].pc = "fail", ![r].state = EmptyThread]
    /\ UNCHANGED <<registry, checkpoint, abandoned>>

\* Postgres raises outside a try block: the request ends with a 500 or, once the
\* stream has begun, breaks off.  In the error path the run's status stays.
StoreRaises(r) ==
    /\ Durable
    /\ req[r].pc \in {"get", "open", "replay", "fail"} \cup (ActionPCs \ {"rescore"})
    /\ Fault("store")
    /\ Abandon(r)
    /\ Answer(r, "500")
    /\ UNCHANGED <<registry, checkpoint>>

\* The client goes away: the stream's task is cancelled where it is, and
\* CancelledError is not an Exception.
Disconnect(r) ==
    /\ req[r].pc \in StreamPCs
    /\ Fault("disconnect")
    /\ Abandon(r)
    /\ Answer(r, "cancelled")
    /\ UNCHANGED <<registry, checkpoint>>

\* The process dies and comes back; in memory nothing survives.
Crash ==
    /\ Fault("crash")
    /\ req' = [r \in Requests |->
                   IF req[r].pc \in Busy
                   THEN [Idle EXCEPT !.op = req[r].op, !.ticket = req[r].ticket,
                                     !.pc = "replied", !.reply = "lost"]
                   ELSE req[r]]
    /\ IF Durable
       THEN /\ abandoned' = abandoned \cup {req[r].ticket : r \in Owners}
            /\ UNCHANGED <<registry, checkpoint>>
       ELSE /\ registry' = [t \in Tickets |-> Absent]
            /\ checkpoint' = [t \in Tickets |-> EmptyThread]
            /\ abandoned' = {}

-----------------------------------------------------------------------------
StreamStep(r) == \/ OpenReplay(r) \/ OpenRun(r)
                 \/ RunBegin(r) \/ RunInput(r) \/ RunClassify(r) \/ RunWorker(r)
                 \/ RunReview(r) \/ Finish(r) \/ SendDone(r) \/ Fail(r) \/ Replay(r)

ActionStep(r) == \/ ApproveTicket(r) \/ Rescore(r) \/ ReadLogs(r)
                 \/ UpdateReadsBase(r) \/ UpdatePuts(r) \/ ReadState(r)

Step(r) == Lookup(r) \/ StreamStep(r) \/ ActionStep(r) \/ RunRaises(r) \/ StoreRaises(r)

Next == \/ \E t \in Tickets : CreateTicket(t)
        \/ \E r \in Requests, op \in Ops, t \in Tickets : Receive(r, op, t)
        \/ \E r \in Requests : Step(r) \/ Disconnect(r)
        \/ Crash

\* The event loop resumes every coroutine whose await has completed, and every
\* await completes or raises.
Fairness == \A r \in Requests : WF_vars(Step(r))

Spec == Init /\ [][Next]_vars /\ Fairness
-----------------------------------------------------------------------------
(* Properties *)

LogLines == LogTags \cup Requests
States == [ intent               : Intents \cup {NoIntent},
            retrieved_context    : SUBSET {"chunks"},
            agent_draft_response : [author : Workers \cup Requests \cup {Nobody},
                                    facts  : {{}}],
            confidence_score     : Int,
            requires_escalation  : BOOLEAN,
            execution_logs       : Seq(LogLines) ]
Threads == [complete : BOOLEAN, values : States]
Records == [status : Statuses, approved : BOOLEAN] \cup {Absent}
Replies == {"none", "404", "500", "502", "200", "done", "error", "broken", "cancelled", "lost"}
RequestStates == [ op     : Ops \cup {"none"},
                   ticket : Tickets \cup {"none"},
                   pc     : Busy \cup {"idle", "replied"},
                   rec    : Records,
                   state  : Threads,
                   logs   : Seq(LogLines),
                   reply  : Replies ]

\* The type of every variable.
TypeOK ==
    /\ registry \in [Tickets -> Records]
    /\ checkpoint \in [Tickets -> Threads]
    /\ req \in [Requests -> RequestStates]
    /\ faults \in Nat
    /\ abandoned \subseteq Tickets

\* A ticket that shows "running" is being run by some request, unless a run of
\* it was cut off: however streams, approvals and stale copies of the record
\* interleave, the last save of a run that ends replaces "running".
RunningIsOwned ==
    \A t \in Tickets :
        registry[t].status = "running" =>
            \/ \E r \in Owners : req[r].ticket = t
            \/ t \in abandoned

\* A closed ticket is approved, whichever of the concurrent saves of the two
\* columns came last.
ClosedIsApproved ==
    \A t \in Tickets : registry[t].status = "closed" => registry[t].approved

\* A ticket whose run finished has a reviewed thread to replay: the registry and
\* the checkpointer are written one after the other and a crash may come between.
DoneCanBeReplayed ==
    \A t \in Tickets :
        registry[t].status = "done" => /\ checkpoint[t].complete
                                       /\ HasVerdict(checkpoint[t].values)

\* Some stream of t ended before its run did.
RunCutShort(t) ==
    \E r \in Requests : /\ req[r].op = "stream" /\ req[r].ticket = t
                       /\ req[r].reply \in {"error", "500", "cancelled", "lost"}

\* Somebody asked for an edit or a claim of t.
EditAsked(t) ==
    \E r \in Requests : req[r].op \in {"modify", "claim"} /\ req[r].ticket = t

\* When several runs of a ticket have overlapped and all have come to their end, a
\* ticket that shows done has the verdict of one of them.  Nothing serialises the
\* runs: each stores its whole state after every node over what the others stored,
\* and a stream that looked the ticket up early starts a run after another one
\* has finished (main.py:177, 185, 195).
DoneIsReviewedAtLast ==
    \A t \in Tickets :
        /\ registry[t].status = "done"
        /\ \A r \in Owners : req[r].ticket # t
        /\ ~RunCutShort(t) /\ ~EditAsked(t)
        => checkpoint[t].complete /\ HasVerdict(checkpoint[t].values)

\* The verdict in the log and the rest of the state are of one run: the flag is
\* the verdict's, and what was auto-approved is grounded and not a lockout.
VerdictMatchesState ==
    \A t \in Tickets :
        LET s == checkpoint[t].values
        IN  HasVerdict(s) =>
                /\ s.requires_escalation = ("ESCALATE" \in Lines(s))
                /\ "AUTO_APPROVED" \in Lines(s) => /\ s.retrieved_context # {}
                                                   /\ s.intent # "lockout"

\* Nothing but the loss of the registry takes an operator's approval back.
ApprovalSticks ==
    [][\A t \in Tickets :
         registry[t].approved => registry'[t].approved \/ registry'[t] = Absent]_vars

\* The state in a done frame is terminal: the run it belongs to has been
\* reviewed (main.py:131, main.py:173).
DoneFrameIsTerminal ==
    [][\A r \in Requests :
         req[r].reply # "done" /\ req'[r].reply = "done" =>
             HasVerdict(Thread(r).values)]_vars

\* The log of a thread only grows, except when a new run starts it afresh.
LogsAppendOnly ==
    [][\A t \in Tickets :
         LET old == checkpoint[t].values.execution_logs
             new == checkpoint'[t].values.execution_logs
         IN  new # <<>> => IsPrefix(old, new)]_vars

\* While no run of the ticket is in progress, a claim in its log stays there.
ClaimsStayInLog ==
    [][\A t \in Tickets :
         (\A r \in Owners : req[r].ticket # t) =>
             Lines(checkpoint[t].values) \cap Requests
                 \subseteq Lines(checkpoint'[t].values)]_vars

\* The status of a closed ticket does not change any more.
ClosedIsFinal ==
    [][\A t \in Tickets :
         registry[t].status = "closed" => registry'[t].status \in {"closed", "absent"}]_vars

\* GET on a registered ticket never fails: the UI can re-hydrate from it.
GetRehydrates ==
    [][\A r \in Requests :
         At(r, "read_state") /\ req[r].op = "get" => req'[r].reply # "500"]_vars

\* Every request is answered or its connection is gone.
RequestsAreAnswered ==
    \A r \in Requests : req[r].pc \in Busy ~> req[r].pc = "replied"

\* A run does not stay "running" for ever, unless it was cut off.
RunningResolves ==
    \A t \in Tickets :
        registry[t].status = "running" ~> registry[t].status # "running" \/ t \in abandoned

\* A ticket advances from "running" to "done", "error" or "closed".
RunningAdvances ==
    \A t \in Tickets :
        registry[t].status = "running" ~> registry[t].status \in {"done", "error", "closed"}
=============================================================================
