-------------------------- MODULE LifecycleProofs --------------------------
(***************************************************************************)
(* The session over a durable service implements the documented life of a  *)
(* ticket (Lifecycle), no escalated ticket is approved, what is shown is   *)
(* what is stored, and done frames and verdicts are those of reviewed      *)
(* runs: for any number of tickets, requests and clicks and any faults.    *)
(***************************************************************************)
EXTENDS OpsCenterProofs

-----------------------------------------------------------------------------
(* What is known of a ticket beyond CenterInvariant *)

Flag(t) == checkpoint[t].values.requires_escalation

\* An operator's request on t is in progress.
Acts(r, t) == /\ req[r].op # "stream" /\ req[r].ticket = t
              /\ req[r].pc \in Busy

\* A request is answered once, and its operation tells where it gets to.
RequestFacts ==
    \A r \in Requests :
        /\ req[r].pc \in Busy => req[r].reply = "none"
        /\ req[r].pc \in ActionPCs => req[r].op # "stream"
        /\ req[r].pc = "close" => req[r].op = "approve"

\* Operators act on finished tickets, on which no stream is left.
ActsOnFinished ==
    \A r \in Requests, t \in Tickets :
        Acts(r, t) => /\ seen[t].status \in {"unknown", "done", "closed"}
                      /\ registry[t].status \in {"done", "closed"}
                      /\ \A s \in Requests : ~InStream(s, t)

\* A stream knows what the registry says of its ticket.
StreamFacts ==
    \A r \in Requests, t \in Tickets :
        InStream(r, t) =>
            /\ registry[t].status # "closed" /\ ~req[r].rec.approved
            /\ req[r].pc = "open" => req[r].rec = registry[t]
            /\ req[r].pc \in RunPCs \cup {"finish"} => registry[t].status = "running"
            /\ req[r].pc \in {"send_done", "replay"} => registry[t].status = "done"
            /\ req[r].pc = "fail" => registry[t].status \in {"running", "done"}

ApprovedIsClosed == \A t \in Tickets : registry[t].approved => registry[t].status = "closed"

\* What the session has seen of a ticket, the registry has seen too.
SeenIsSo ==
    \A t \in Tickets :
        /\ seen[t].status \in {"pending", "error"} => registry[t].status # "closed"
        /\ seen[t].status \in {"done", "closed"} => registry[t].status \in {"done", "closed"}
        /\ seen[t].status \in {"done", "closed"} =>
               seen[t].state.values.requires_escalation = Flag(t)

\* What the answer on its way to the script carries is still so.
AnswerIsSo ==
    script.at \in {"streaming", "calling"} /\ req[script.call].reply \in {"done", "200"} =>
        /\ script.body.values.requires_escalation = Flag(req[script.call].ticket)
        /\ registry[req[script.call].ticket].status \in {"done", "closed"}

\* Nobody approves, or has approved, what is flagged, and an update writes back
\* the flag that is there.
FlagsAreKept ==
    /\ \A r \in Requests, t \in Tickets :
           Acts(r, t) => /\ req[r].op = "approve" => ~Flag(t)
                         /\ req[r].pc = "put" =>
                                req[r].state.values.requires_escalation = Flag(t)
    /\ EscalationsAreNotApproved

TicketFacts == /\ RequestFacts /\ ActsOnFinished /\ StreamFacts /\ ApprovedIsClosed
               /\ SeenIsSo /\ AnswerIsSo /\ FlagsAreKept

LifeInvariant == CenterInvariant /\ TicketFacts

-----------------------------------------------------------------------------
(* What a step of a request does to its ticket *)

LEMMA PCs ==
    /\ {"get", "open", "replay", "finish", "send_done", "fail"} \cap RunPCs = {}
    /\ {"open", "replay", "finish", "send_done", "fail"} \cup RunPCs = StreamPCs
    /\ {"begin", "input", "classify", "worker", "supervisor"} = RunPCs
    /\ StreamPCs \cap ActionPCs = {} /\ "get" \notin StreamPCs /\ "get" \notin ActionPCs
    /\ "replied" \notin Busy /\ "replied" \notin ActionPCs
    /\ "close" \in ActionPCs
BY DEF RunPCs, StreamPCs, ActionPCs, Busy

\* Of a stream's request after its step: what StreamFacts says of it, and that a
\* done frame carries the state of a ticket that is done.
StreamEffect(r, t) ==
    /\ registry'[t].status # "closed" /\ ~registry'[t].approved
    /\ req'[r].pc \notin ActionPCs
    /\ req'[r].pc \in Busy =>
           /\ req'[r].reply = "none" /\ ~req'[r].rec.approved
           /\ req'[r].pc = "open" => req'[r].rec = registry'[t]
           /\ req'[r].pc \in RunPCs \cup {"finish"} => registry'[t].status = "running"
           /\ req'[r].pc \in {"send_done", "replay"} => registry'[t].status = "done"
           /\ req'[r].pc = "fail" => registry'[t].status \in {"running", "done"}
    /\ req'[r].reply \in {"done", "200"} =>
           registry'[t].status = "done" /\ UNCHANGED checkpoint

\* It is answered, and the registry stays.
LEMMA AnsweredEffect ==
    ASSUME TypeOK, NEW r \in Requests, NEW t \in Tickets, NEW reply, Answer(r, reply),
           UNCHANGED <<registry, checkpoint>>,
           registry[t].status # "closed", ~registry[t].approved,
           reply \in {"done", "200"} => registry[t].status = "done"
    PROVE  StreamEffect(r, t)
BY AnswerTurn, PCs DEF StreamEffect

LEMMA StreamHasEffect ==
    ASSUME Durable, LifeInvariant, NEW r \in Requests, NEW t \in Tickets, InStream(r, t),
           Step(r) \/ Disconnect(r)
    PROVE  StreamEffect(r, t)
<1>1. TypeOK /\ req[r].op = "stream" /\ req[r].ticket = t /\ req[r].pc \in Busy
  BY DEF LifeInvariant, CenterInvariant, CenterTypes, ServiceInvariant, InStream
<1>2. /\ registry[t].status # "closed" /\ ~req[r].rec.approved
      /\ req[r].reply = "none" /\ ~registry[t].approved
      /\ req[r].pc = "open" => req[r].rec = registry[t]
      /\ req[r].pc \in RunPCs \cup {"finish"} => registry[t].status = "running"
      /\ req[r].pc \in {"send_done", "replay"} => registry[t].status = "done"
      /\ req[r].pc = "fail" => registry[t].status \in {"running", "done"}
  BY <1>1 DEF LifeInvariant, TicketFacts, RequestFacts, StreamFacts, ApprovedIsClosed
<1>3. Registered(t)
  BY <1>1 DEF LifeInvariant, CenterInvariant, Core, KnownIsRegistered
<1>4. ASSUME NEW status, Save(r, status, Rec(r).approved)
      PROVE  registry'[t] = Record(status, FALSE)
  <2>1. req[r].rec.approved = FALSE
    <3>1. req[r].rec \in Records
      BY <1>1 DEF TypeOK, RequestStates
    <3>2. CASE req[r].rec \in [status : Statuses, approved : BOOLEAN]
      <4>1. req[r].rec.approved \in BOOLEAN
        BY <3>2
      <4> QED
        BY <1>2, <4>1
    <3>3. CASE req[r].rec = Absent
      BY <3>3 DEF Absent, Record
    <3> QED
      BY <3>1, <3>2, <3>3 DEF Records
  <2> QED
    BY <1>1, <1>2, <1>4, <2>1 DEF Save, Rec, TypeOK
<1>5. req \in [Requests -> RequestStates]
  BY <1>1 DEF TypeOK
<1>6. CASE Lookup(r)
  <2>1. req'[r] = [req[r] EXCEPT !.pc = "open", !.rec = registry[t]]
    BY <1>1, <1>3, <1>5, <1>6 DEF Lookup, FirstPC
  <2>2. req'[r].pc = "open" /\ req'[r].rec = registry[t] /\ req'[r].reply = "none"
    BY <1>2, <1>5, <2>1 DEF RequestStates
  <2>3. UNCHANGED registry
    BY <1>6 DEF Lookup
  <2> QED
    BY <1>2, <2>2, <2>3, PCs DEF StreamEffect
<1>7. CASE RunRaises(r)
  <2>1. /\ req'[r].pc = "fail" /\ req'[r].rec = req[r].rec /\ req'[r].reply = req[r].reply
        /\ UNCHANGED registry
        /\ req[r].pc \in RunPCs \cup {"finish", "send_done"}
    BY <1>5, <1>7, PCs DEF RunRaises, RequestStates
  <2> QED
    BY <1>2, <2>1, PCs DEF StreamEffect
<1>8. CASE StoreRaises(r) \/ Disconnect(r)
  BY <1>1, <1>2, <1>8, AnsweredEffect DEF StoreRaises, Disconnect
<1>9. CASE StreamStep(r)
  <2>1. CASE OpenReplay(r)
    <3>1. /\ req'[r].pc = "replay" /\ req'[r].rec = req[r].rec /\ req'[r].reply = req[r].reply
          /\ UNCHANGED registry /\ req[r].pc = "open" /\ req[r].rec.status = "done"
      BY <1>5, <2>1 DEF OpenReplay, Goto, Rec, At, RequestStates
    <3> QED
      BY <1>2, <3>1, PCs DEF StreamEffect
  <2>2. CASE OpenRun(r)
    <3>1. /\ req'[r].pc = "begin" /\ req'[r].rec = req[r].rec /\ req'[r].reply = req[r].reply
          /\ registry'[t] = Record("running", FALSE)
      BY <1>4, <1>5, <2>2 DEF OpenRun, Goto, RequestStates
    <3> QED
      BY <1>2, <3>1, PCs DEF StreamEffect, Record
  <2>3. CASE RunBegin(r) \/ RunInput(r) \/ RunClassify(r) \/ RunWorker(r) \/ RunReview(r)
    <3>1. /\ req'[r].pc \in RunPCs \cup {"finish"}
          /\ req'[r].rec = req[r].rec /\ req'[r].reply = req[r].reply
          /\ UNCHANGED registry /\ req[r].pc \in RunPCs
      <4>1. ASSUME NEW values, NEW next \in RunPCs \cup {"finish"}, NodeReturns(r, values, next)
            PROVE  /\ req'[r].pc = next
                   /\ req'[r].rec = req[r].rec /\ req'[r].reply = req[r].reply
                   /\ UNCHANGED registry
        BY <1>5, <4>1 DEF NodeReturns, RequestStates
      <4>2. CASE RunBegin(r)
        BY <1>5, <4>2, PCs DEF RunBegin, At, RequestStates
      <4>3. CASE RunInput(r)
        BY <4>1, <4>3, PCs DEF RunInput, At
      <4>4. CASE RunClassify(r)
        BY <4>1, <4>4, PCs DEF RunClassify, At
      <4>5. CASE RunWorker(r)
        <5>1. PICK values : NodeReturns(r, values, "supervisor")
          BY <4>5 DEF RunWorker
        <5> QED
          BY <4>1, <4>5, <5>1, PCs DEF RunWorker, At
      <4>6. CASE RunReview(r)
        BY <4>1, <4>6, PCs DEF RunReview, At
      <4> QED
        BY <2>3, <4>2, <4>3, <4>4, <4>5, <4>6
    <3> QED
      BY <1>2, <3>1, PCs DEF StreamEffect
  <2>4. CASE Finish(r)
    <3>1. /\ req'[r].pc = "send_done" /\ req'[r].rec = req[r].rec /\ req'[r].reply = req[r].reply
          /\ registry'[t] = Record("done", FALSE)
      BY <1>4, <1>5, <2>4 DEF Finish, RequestStates
    <3> QED
      BY <1>2, <3>1, PCs DEF StreamEffect, Record
  <2>5. CASE SendDone(r) /\ Thread(r).complete
    <3>1. Answer(r, "done") /\ UNCHANGED <<registry, checkpoint>> /\ req[r].pc = "send_done"
      BY <2>5 DEF SendDone, At
    <3> QED
      BY <1>1, <1>2, <3>1, AnsweredEffect
  <2>6. CASE SendDone(r) /\ ~Thread(r).complete
    <3>1. /\ req'[r].pc = "fail" /\ req'[r].rec = req[r].rec /\ req'[r].reply = req[r].reply
          /\ UNCHANGED registry /\ req[r].pc = "send_done"
      BY <1>5, <2>6 DEF SendDone, Goto, At, RequestStates
    <3> QED
      BY <1>2, <3>1, PCs DEF StreamEffect
  <2>7. CASE Fail(r)
    <3>1. registry'[t] = Record("error", FALSE) /\ req'[r].pc = "replied" /\ req'[r].reply = "error"
      BY <1>1, <1>4, <2>7, AnswerTurn DEF Fail
    <3> QED
      BY <3>1, PCs DEF StreamEffect, Record
  <2>8. CASE Replay(r)
    <3>1. PICK reply \in {"done", "broken"} : Answer(r, reply)
      BY <2>8 DEF Replay
    <3>2. UNCHANGED <<registry, checkpoint>> /\ req[r].pc = "replay"
      BY <2>8 DEF Replay, At
    <3> QED
      BY <1>1, <1>2, <3>1, <3>2, AnsweredEffect
  <2> QED
    BY <1>9, <2>1, <2>2, <2>3, <2>4, <2>5, <2>6, <2>7, <2>8 DEF StreamStep
<1>10. ~ActionStep(r)
  <2>1. req[r].pc \notin ActionPCs
    BY <1>1 DEF LifeInvariant, TicketFacts, RequestFacts
  <2> QED
    BY <2>1 DEF ActionStep, ApproveTicket, Rescore, ReadLogs, UpdateReadsBase, UpdatePuts,
                ReadState, At, ActionPCs
<1> QED
  BY <1>6, <1>7, <1>8, <1>9, <1>10 DEF Step

\* Of an operator's request after its step.
ActEffect(r, t) ==
    /\ \/ registry'[t] = registry[t]
       \/ req[r].op = "approve" /\ registry'[t] = Record("closed", TRUE)
    /\ Flag(t)' = Flag(t)
    /\ req'[r].pc \in Busy => req'[r].reply = "none"
    /\ req'[r].pc = "close" => req[r].op = "approve"
    /\ req'[r].pc = "put" => req'[r].state.values.requires_escalation = Flag(t)
    /\ req'[r].reply \in {"done", "200"} => UNCHANGED checkpoint

\* It moves on, or is answered, and stores nothing.
LEMMA GoneOnEffect ==
    ASSUME NEW r \in Requests, NEW t \in Tickets, UNCHANGED <<registry, checkpoint>>,
           req'[r].pc \in Busy => req'[r].reply = "none",
           req'[r].pc = "close" => req[r].op = "approve",
           req'[r].pc = "put" => req'[r].state.values.requires_escalation = Flag(t)
    PROVE  ActEffect(r, t)
BY DEF ActEffect, Flag

LEMMA ActHasEffect ==
    ASSUME Durable, LifeInvariant, NEW r \in Requests, NEW t \in Tickets, Acts(r, t),
           Step(r) \/ Disconnect(r)
    PROVE  ActEffect(r, t)
<1>1. TypeOK /\ req[r].op # "stream" /\ req[r].ticket = t /\ req[r].pc \in Busy
  BY DEF LifeInvariant, CenterInvariant, CenterTypes, ServiceInvariant, Acts
<1>2. /\ req[r].reply = "none"
      /\ req[r].pc = "close" => req[r].op = "approve"
      /\ req[r].pc = "put" => req[r].state.values.requires_escalation = Flag(t)
      /\ req[r].pc \notin StreamPCs
  BY <1>1 DEF LifeInvariant, TicketFacts, RequestFacts, FlagsAreKept, CenterInvariant, Core,
              OpTellsPC
<1>3. /\ req \in [Requests -> RequestStates] /\ checkpoint \in [Tickets -> Threads]
      /\ checkpoint[t] \in Threads /\ req[r].state \in Threads
  BY <1>1 DEF TypeOK, RequestStates
<1>4. ASSUME NEW reply, Answer(r, reply), UNCHANGED <<registry, checkpoint>>
      PROVE  ActEffect(r, t)
  BY <1>1, <1>4, AnswerTurn, PCs, GoneOnEffect
<1>5. CASE Lookup(r)
  <2>1. CASE Registered(t)
    <3>1. /\ req'[r].pc = FirstPC(req[r].op) /\ req'[r].reply = "none"
          /\ UNCHANGED <<registry, checkpoint>>
      BY <1>1, <1>2, <1>3, <1>5, <2>1 DEF Lookup, RequestStates
    <3>2. /\ FirstPC(req[r].op) = "close" => req[r].op = "approve"
          /\ FirstPC(req[r].op) # "put"
      BY DEF FirstPC
    <3> QED
      BY <3>1, <3>2, GoneOnEffect
  <2>2. CASE ~Registered(t)
    BY <1>1, <1>4, <1>5, <2>2 DEF Lookup
  <2> QED
    BY <2>1, <2>2
<1>6. CASE StoreRaises(r) \/ Disconnect(r)
  BY <1>4, <1>6 DEF StoreRaises, Disconnect
<1>7. ~StreamStep(r) /\ ~RunRaises(r)
  BY <1>1, <1>2, StreamProceeds, PCs DEF RunRaises
<1>8. CASE ActionStep(r)
  <2>1. CASE ApproveTicket(r)
    <3>1. /\ registry' = [registry EXCEPT ![t] = Record("closed", TRUE)]
          /\ UNCHANGED checkpoint /\ req[r].pc = "close"
          /\ req'[r].pc = "replied" /\ req'[r].reply = "200"
      BY <1>1, <2>1, AnswerTurn DEF ApproveTicket, Save, At
    <3>2. registry'[t] = Record("closed", TRUE)
      BY <1>1, <3>1 DEF TypeOK
    <3> QED
      BY <1>2, <3>1, <3>2, PCs DEF ActEffect, Flag
  <2>2. CASE Rescore(r)
    <3>1. CASE Goto(r, "read_base")
      <4>1. /\ req'[r].pc = "read_base" /\ req'[r].reply = "none"
            /\ UNCHANGED <<registry, checkpoint>>
        BY <1>1, <1>2, <2>2, <3>1, GotoTurn DEF Rescore
      <4> QED
        BY <4>1, GoneOnEffect
    <3> QED
      BY <1>4, <2>2, <3>1 DEF Rescore
  <2>3. CASE ReadLogs(r) /\ Thread(r).complete
    <3>1. /\ req'[r].pc = "read_base" /\ req'[r].reply = "none"
          /\ UNCHANGED <<registry, checkpoint>>
      BY <1>2, <1>3, <2>3 DEF ReadLogs, RequestStates
    <3> QED
      BY <3>1, GoneOnEffect
  <2>4. CASE ReadLogs(r) /\ ~Thread(r).complete
    BY <1>4, <2>4 DEF ReadLogs
  <2>5. CASE UpdateReadsBase(r)
    <3>1. /\ req'[r].pc = "put" /\ req'[r].reply = "none" /\ req'[r].state = checkpoint[t]
          /\ UNCHANGED <<registry, checkpoint>>
      BY <1>1, <1>2, <1>3, <2>5 DEF UpdateReadsBase, Thread, RequestStates
    <3> QED
      BY <3>1, GoneOnEffect DEF Flag
  <2>6. CASE UpdatePuts(r)
    <3>1. /\ req'[r].pc = "read_state" /\ req'[r].reply = "none" /\ UNCHANGED registry
          /\ req[r].pc = "put"
      BY <1>2, <1>3, <2>6 DEF UpdatePuts, At, RequestStates
    <3>2. req[r].state.values \in States
      BY <1>3 DEF Threads
    <3>3. PICK values : /\ checkpoint' = [checkpoint EXCEPT ![t] = Saved(req[r].state.complete, values)]
                        /\ values.requires_escalation = req[r].state.values.requires_escalation
      <4>1. \A score, logs :
                /\ Edited(req[r].state.values, r, score).requires_escalation
                       = req[r].state.values.requires_escalation
                /\ Claimed(req[r].state.values, logs).requires_escalation
                       = req[r].state.values.requires_escalation
        BY <3>2 DEF Edited, Claimed, States
      <4>2. \/ \E score \in Scores :
                   Put(r, Saved(req[r].state.complete, Edited(req[r].state.values, r, score)))
            \/ Put(r, Saved(req[r].state.complete, Claimed(req[r].state.values, req[r].logs)))
        BY <2>6 DEF UpdatePuts
      <4> QED
        BY <1>1, <4>1, <4>2 DEF Put
    <3>4. Flag(t)' = Flag(t)
      BY <1>2, <1>3, <3>1, <3>3 DEF Flag, Saved
    <3> QED
      BY <3>1, <3>4 DEF ActEffect
  <2>7. CASE ReadState(r)
    <3>1. PICK reply : Answer(r, reply)
      BY <2>7 DEF ReadState
    <3> QED
      BY <1>4, <2>7, <3>1 DEF ReadState
  <2> QED
    BY <1>8, <2>1, <2>2, <2>3, <2>4, <2>5, <2>6, <2>7 DEF ActionStep
<1> QED
  BY <1>5, <1>6, <1>7, <1>8 DEF Step

-----------------------------------------------------------------------------
(* Preservation: the service *)

\* What Serve does to the answer the script will take.
Carries(r) ==
    /\ script'.at = script.at /\ script'.call = script.call
    /\ r # script.call => script' = script
    /\ r = script.call /\ req'[r].reply \in {"done", "200"} => script'.body = Thread(r)

LEMMA ServeCarries ==
    ASSUME LifeInvariant, NEW r \in Requests, Serve(r)
    PROVE  Carries(r)
<1>1. script \in Scripts
  BY DEF LifeInvariant, CenterInvariant, CenterTypes, SessionTypeOK
<1> QED
  BY <1>1 DEF Serve, Carries, Scripts

LEMMA AwaitedTicket ==
    ASSUME LifeInvariant, script.at \in {"streaming", "calling"}
    PROVE  /\ script.call \in Requests /\ req[script.call].ticket \in Tickets
           /\ script.at = "streaming" => seen[req[script.call].ticket].status = "pending"
           /\ script.at = "calling" => seen[req[script.call].ticket].status = "done"
BY DEF LifeInvariant, CenterInvariant, CenterTypes, SessionTypeOK, Scripts, Core, StreamAwaited,
       CallAwaited

LEMMA StreamFactsKept ==
    ASSUME Durable, LifeInvariant, NEW r \in Requests, NEW t \in Tickets, InStream(r, t),
           Step(r) \/ Disconnect(r), UNCHANGED seen,
           Carries(r) \/ script'.at \notin {"streaming", "calling"}
    PROVE  TicketFacts'
<1> USE DEF LifeInvariant, CenterInvariant, CenterTypes
<1>1. StreamEffect(r, t)
  BY StreamHasEffect
<1>2. /\ Turn(r) /\ req'[r].pc \in Busy \cup {"replied"}
      /\ req[r].ticket = t /\ req[r].op = "stream"
  BY RequestProceeds DEF Proceeds, ServiceInvariant, InStream
<1>3. \A u \in Tickets \ {t} : registry'[u] = registry[u] /\ checkpoint'[u] = checkpoint[u]
  BY <1>2, ElsewhereSame
<1>4. /\ \A q \in Requests, u \in Tickets : InStream(q, u)' => InStream(q, u)
      /\ \A q \in Requests \ {r} : ~InStream(q, t)
  BY ServiceProgress DEF Core, OneStream
<1>5. \A q \in Requests, u \in Tickets : Acts(q, u)' => Acts(q, u) /\ q # r /\ u # t
  BY <1>2 DEF Turn, Acts, TicketFacts, ActsOnFinished
<1>6. seen[t].status \notin {"done", "closed"}
  BY DEF Core, StreamsAreWatched
<1>7. RequestFacts'
  BY <1>1, <1>2, PCs DEF Turn, StreamEffect, TicketFacts, RequestFacts
<1>8. ActsOnFinished'
  BY <1>3, <1>4, <1>5 DEF TicketFacts, ActsOnFinished
<1>9. StreamFacts'
  BY <1>1, <1>2, <1>3, <1>4 DEF Turn, StreamEffect, TicketFacts, StreamFacts, InStream
<1>10. ApprovedIsClosed'
  BY <1>1, <1>3 DEF StreamEffect, TicketFacts, ApprovedIsClosed
<1>11. SeenIsSo'
  BY <1>1, <1>3, <1>6 DEF StreamEffect, TicketFacts, SeenIsSo, Flag
<1>12. AnswerIsSo'
  <2> SUFFICES ASSUME Carries(r), script.at \in {"streaming", "calling"}
               PROVE  AnswerIsSo'
    BY DEF AnswerIsSo, Carries
  <2>1. PICK c \in Requests, u \in Tickets : c = script.call /\ u = req[c].ticket
    BY AwaitedTicket
  <2>2. req'[c].ticket = u
    BY <1>2, <2>1 DEF Turn
  <2> DEFINE Still == /\ script'.body.values.requires_escalation
                             = checkpoint'[u].values.requires_escalation
                      /\ registry'[u].status \in {"done", "closed"}
  <2>3. ASSUME c = r, req'[c].reply \in {"done", "200"}
        PROVE  Still
    BY <1>1, <1>2, <2>1, <2>2, <2>3 DEF StreamEffect, Carries, Thread
  <2>4. ASSUME c # r, req'[c].reply \in {"done", "200"}
        PROVE  Still
    <3>1. u # t
      BY <1>6, <2>1, <2>4, AwaitedTicket DEF Core, StreamsAreWatched
    <3>2. req'[c] = req[c] /\ script' = script
      BY <1>2, <2>1, <2>4 DEF Turn, Carries
    <3> QED
      BY <1>3, <2>1, <2>4, <3>1, <3>2 DEF TicketFacts, AnswerIsSo, Flag
  <2> QED
    BY <2>1, <2>2, <2>3, <2>4 DEF AnswerIsSo, Carries, Flag
<1>13. FlagsAreKept'
  <2>1. EscalationsAreNotApproved'
    BY <1>1, <1>3 DEF StreamEffect, TicketFacts, FlagsAreKept, EscalationsAreNotApproved
  <2> QED
    BY <1>2, <1>3, <1>5, <2>1 DEF Turn, TicketFacts, FlagsAreKept, Flag
<1> QED
  BY <1>7, <1>8, <1>9, <1>10, <1>11, <1>12, <1>13 DEF TicketFacts

LEMMA ActFactsKept ==
    ASSUME Durable, LifeInvariant, NEW r \in Requests, NEW t \in Tickets, Acts(r, t),
           Step(r) \/ Disconnect(r), UNCHANGED seen,
           Carries(r) \/ script'.at \notin {"streaming", "calling"}
    PROVE  TicketFacts'
<1> USE DEF LifeInvariant, CenterInvariant, CenterTypes
<1>1. ActEffect(r, t)
  BY ActHasEffect
<1>2. /\ Turn(r) /\ req'[r].pc \in Busy \cup {"replied"}
      /\ req[r].ticket = t /\ req[r].op # "stream"
  BY RequestProceeds DEF Proceeds, ServiceInvariant, Acts
<1>3. \A u \in Tickets \ {t} : registry'[u] = registry[u] /\ checkpoint'[u] = checkpoint[u]
  BY <1>2, ElsewhereSame
<1>4. /\ \A q \in Requests, u \in Tickets : InStream(q, u)' => InStream(q, u)
      /\ \A q \in Requests : ~InStream(q, t)
  BY ServiceProgress DEF TicketFacts, ActsOnFinished
<1>5. /\ \A q \in Requests, u \in Tickets : Acts(q, u)' => Acts(q, u)
      /\ \A u \in Tickets : Acts(r, u) => u = t
  BY <1>2 DEF Turn, Acts
<1>6. /\ registry[t].status \in {"done", "closed"} /\ registry'[t].status \in {"done", "closed"}
      /\ seen[t].status \in {"unknown", "done", "closed"}
  BY <1>1 DEF ActEffect, TicketFacts, ActsOnFinished, Record
<1>7. \A u \in Tickets : Flag(u)' = Flag(u)
  BY <1>1, <1>3 DEF ActEffect, Flag
<1>8. RequestFacts'
  BY <1>1, <1>2, PCs DEF Turn, ActEffect, TicketFacts, RequestFacts
<1>9. ActsOnFinished'
  BY <1>3, <1>4, <1>5, <1>6 DEF TicketFacts, ActsOnFinished
<1>10. StreamFacts'
  <2>1. \A q \in Requests, u \in Tickets : InStream(q, u)' => u # t /\ q # r /\ InStream(q, u)
    BY <1>2, <1>4 DEF InStream
  <2> QED
    BY <1>2, <1>3, <2>1 DEF Turn, TicketFacts, StreamFacts
<1>11. ApprovedIsClosed'
  BY <1>1, <1>3 DEF ActEffect, TicketFacts, ApprovedIsClosed, Record
<1>12. SeenIsSo'
  BY <1>3, <1>6, <1>7 DEF TicketFacts, SeenIsSo
<1>13. AnswerIsSo'
  <2> SUFFICES ASSUME Carries(r), script.at \in {"streaming", "calling"}
               PROVE  AnswerIsSo'
    BY DEF AnswerIsSo, Carries
  <2>1. PICK c \in Requests, u \in Tickets : c = script.call /\ u = req[c].ticket
    BY AwaitedTicket
  <2>2. req'[c].ticket = u
    BY <1>2, <2>1 DEF Turn
  <2> DEFINE Still == /\ script'.body.values.requires_escalation
                             = checkpoint'[u].values.requires_escalation
                      /\ registry'[u].status \in {"done", "closed"}
  <2>3. registry[u].status \in {"done", "closed"} => registry'[u].status \in {"done", "closed"}
    BY <1>3, <1>6
  <2>4. ASSUME c = r, req'[c].reply \in {"done", "200"}
        PROVE  Still
    BY <1>1, <1>2, <1>6, <2>1, <2>2, <2>4 DEF ActEffect, Carries, Thread
  <2>5. ASSUME c # r, req'[c].reply \in {"done", "200"}
        PROVE  Still
    <3>1. req'[c] = req[c] /\ script' = script
      BY <1>2, <2>1, <2>5 DEF Turn, Carries
    <3>2. /\ script.body.values.requires_escalation = Flag(u)
          /\ registry[u].status \in {"done", "closed"}
      BY <2>1, <2>5, <3>1 DEF TicketFacts, AnswerIsSo
    <3> QED
      BY <1>7, <2>3, <3>1, <3>2 DEF Flag
  <2> QED
    BY <2>1, <2>2, <2>4, <2>5 DEF AnswerIsSo, Carries, Flag
<1>14. FlagsAreKept'
  <2>1. EscalationsAreNotApproved'
    <3>1. req[r].op = "approve" => ~Flag(t)
      BY DEF TicketFacts, FlagsAreKept
    <3> QED
      BY <1>1, <1>3, <1>7, <3>1
         DEF ActEffect, TicketFacts, FlagsAreKept, EscalationsAreNotApproved, Flag
  <2>2. ASSUME NEW q \in Requests, NEW u \in Tickets, Acts(q, u)'
        PROVE  /\ req'[q].op = "approve" => ~Flag(u)'
               /\ req'[q].pc = "put" => req'[q].state.values.requires_escalation = Flag(u)'
    <3>1. Acts(q, u) /\ Flag(u)' = Flag(u)
      BY <1>5, <1>7, <2>2
    <3>2. CASE q # r
      BY <1>2, <3>1, <3>2 DEF Turn, TicketFacts, FlagsAreKept
    <3>3. CASE q = r
      BY <1>1, <1>2, <1>5, <3>1, <3>3 DEF Turn, ActEffect, TicketFacts, FlagsAreKept
    <3> QED
      BY <3>2, <3>3
  <2> QED
    BY <2>1, <2>2 DEF FlagsAreKept
<1> QED
  BY <1>8, <1>9, <1>10, <1>11, <1>12, <1>13, <1>14 DEF TicketFacts

LEMMA ServiceFactsKept ==
    ASSUME Durable, LifeInvariant, NEW r \in Requests, Step(r) \/ Disconnect(r), UNCHANGED seen,
           Carries(r) \/ script'.at \notin {"streaming", "calling"}
    PROVE  TicketFacts'
<1>1. req[r].ticket \in Tickets /\ req[r].pc \in Busy
  BY RequestSaves, RequestProceeds
     DEF LifeInvariant, CenterInvariant, CenterTypes, ServiceInvariant, Proceeds
<1>2. InStream(r, req[r].ticket) \/ Acts(r, req[r].ticket)
  BY <1>1 DEF InStream, Acts
<1> QED
  BY <1>1, <1>2, StreamFactsKept, ActFactsKept

-----------------------------------------------------------------------------
(* Preservation: the session *)

\* Nothing changes but where the script is, and it waits for nothing.
LEMMA PauseFactsKept ==
    ASSUME LifeInvariant, UNCHANGED <<registry, checkpoint, req, seen>>,
           script'.at \notin {"streaming", "calling"}
    PROVE  TicketFacts'
<1>1. \A r \in Requests, t \in Tickets : /\ InStream(r, t)' = InStream(r, t)
                                         /\ Acts(r, t)' = Acts(r, t)
  BY DEF InStream, Acts
<1>2. \A t \in Tickets : Flag(t)' = Flag(t)
  BY DEF Flag
<1>3. RequestFacts' /\ ActsOnFinished' /\ StreamFacts' /\ ApprovedIsClosed'
  BY <1>1 DEF LifeInvariant, TicketFacts, RequestFacts, ActsOnFinished, StreamFacts,
              ApprovedIsClosed
<1>4. SeenIsSo' /\ FlagsAreKept' /\ AnswerIsSo'
  BY <1>1, <1>2 DEF LifeInvariant, TicketFacts, SeenIsSo, FlagsAreKept, AnswerIsSo,
                    EscalationsAreNotApproved
<1> QED
  BY <1>3, <1>4 DEF TicketFacts

\* One record of the session changes, truthfully.
LEMMA SeenFactsKept ==
    ASSUME LifeInvariant, UNCHANGED <<registry, checkpoint, req>>,
           script'.at \notin {"streaming", "calling"},
           \A t \in Tickets :
               seen'[t] # seen[t] =>
                   /\ \A r \in Requests :
                          Acts(r, t) => seen'[t].status \in {"unknown", "done", "closed"}
                   /\ seen'[t].status \in {"pending", "error"} => registry[t].status # "closed"
                   /\ seen'[t].status \in {"done", "closed"} =>
                          /\ registry[t].status \in {"done", "closed"}
                          /\ seen'[t].state.values.requires_escalation = Flag(t)
    PROVE  TicketFacts'
<1>1. \A r \in Requests, t \in Tickets : /\ InStream(r, t)' = InStream(r, t)
                                         /\ Acts(r, t)' = Acts(r, t)
  BY DEF InStream, Acts
<1>2. \A t \in Tickets : Flag(t)' = Flag(t)
  BY DEF Flag
<1>3. RequestFacts' /\ StreamFacts' /\ ApprovedIsClosed'
  BY <1>1 DEF LifeInvariant, TicketFacts, RequestFacts, StreamFacts, ApprovedIsClosed
<1>4. FlagsAreKept' /\ AnswerIsSo'
  BY <1>1, <1>2 DEF LifeInvariant, TicketFacts, FlagsAreKept, AnswerIsSo,
                    EscalationsAreNotApproved
<1>5. ActsOnFinished'
  BY <1>1 DEF LifeInvariant, TicketFacts, ActsOnFinished
<1>6. SeenIsSo'
  BY <1>2 DEF LifeInvariant, TicketFacts, SeenIsSo
<1> QED
  BY <1>3, <1>4, <1>5, <1>6 DEF TicketFacts

LEMMA StreamEndFacts ==
    ASSUME LifeInvariant, EndStream \/ StreamTimesOut
    PROVE  TicketFacts'
<1>1. /\ UNCHANGED <<registry, checkpoint, req>> /\ script'.at = "panels"
      /\ script.at = "streaming" /\ selected \in Tickets
      /\ seen[selected].status = "pending" /\ req[script.call].ticket = selected
  BY DEF EndStream, StreamTimesOut, vars, Goes, Script, LifeInvariant, CenterInvariant, Core,
         StreamAwaited
<1>2. seen \in [Tickets -> Views]
  BY DEF LifeInvariant, CenterInvariant, CenterTypes, SessionTypeOK
<1>3. \A t \in Tickets : seen'[t] # seen[t] => t = selected
  BY <1>2 DEF EndStream, StreamTimesOut
<1>4. \A r \in Requests : ~Acts(r, selected)
  BY <1>1 DEF LifeInvariant, TicketFacts, ActsOnFinished
<1>5. registry[selected].status # "closed"
  BY <1>1 DEF LifeInvariant, TicketFacts, SeenIsSo
<1>6. seen'[selected].status \in {"done", "closed"} =>
          /\ registry[selected].status \in {"done", "closed"}
          /\ seen'[selected].state.values.requires_escalation = Flag(selected)
  <2>1. CASE EndStream /\ req[script.call].reply = "done"
    <3>1. seen'[selected].state = script.body
      BY <1>1, <1>2, <2>1 DEF EndStream, Views
    <3> QED
      BY <1>1, <2>1, <3>1 DEF LifeInvariant, TicketFacts, AnswerIsSo
  <2>2. CASE StreamTimesOut \/ (EndStream /\ req[script.call].reply # "done")
    BY <1>1, <1>2, <2>2 DEF EndStream, StreamTimesOut, Views
  <2> QED
    BY <2>1, <2>2
<1> QED
  BY <1>1, <1>3, <1>4, <1>5, <1>6, SeenFactsKept

LEMMA AcceptedFacts ==
    ASSUME LifeInvariant, Accepted
    PROVE  TicketFacts'
<1>1. PICK t0 \in Tickets : t0 = script.click.on
  BY DEF Accepted, LifeInvariant, CenterInvariant, Core, CallAwaited
<1>2. /\ UNCHANGED <<registry, checkpoint, req>> /\ script'.at = "map"
      /\ script.at = "calling" /\ seen[t0].status = "done" /\ req[script.call].ticket = t0
      /\ req[script.call].reply = "200"
  BY <1>1 DEF Accepted, vars, Script, LifeInvariant, CenterInvariant, Core, CallAwaited
<1>3. seen \in [Tickets -> Views]
  BY DEF LifeInvariant, CenterInvariant, CenterTypes, SessionTypeOK
<1>4. /\ \A t \in Tickets : seen'[t] # seen[t] => t = t0
      /\ seen'[t0] = Taken(seen[t0], script.click.kind, script.body)
  BY <1>1, <1>3 DEF Accepted
<1>5. /\ seen'[t0].status \in {"done", "closed"}
      /\ seen'[t0].state \in {seen[t0].state, script.body}
  <2>1. seen[t0] \in Views
    BY <1>3
  <2> QED
    BY <1>2, <1>4, <2>1 DEF Taken, Views
<1>6. /\ registry[t0].status \in {"done", "closed"}
      /\ seen[t0].state.values.requires_escalation = Flag(t0)
      /\ script.body.values.requires_escalation = Flag(t0)
  BY <1>2 DEF LifeInvariant, TicketFacts, SeenIsSo, AnswerIsSo
<1> QED
  BY <1>2, <1>4, <1>5, <1>6, SeenFactsKept

LEMMA SubmitFacts ==
    ASSUME LifeInvariant, NEW t \in Tickets, Submit(t)
    PROVE  TicketFacts'
<1>1. /\ registry' = [registry EXCEPT ![t] = Record("pending", FALSE)]
      /\ UNCHANGED <<checkpoint, req>> /\ script'.at = "map" /\ ~Registered(t)
  BY DEF Submit, CreateTicket, Goes, Script
<1>2. \A r \in Requests : ~Acts(r, t) /\ ~InStream(r, t)
  BY <1>1 DEF LifeInvariant, CenterInvariant, Core, KnownIsRegistered, Acts, InStream
<1>3. /\ registry'[t] = Record("pending", FALSE)
      /\ \A u \in Tickets \ {t} : registry'[u] = registry[u]
  BY <1>1 DEF LifeInvariant, CenterInvariant, CenterTypes, ServiceInvariant, TypeOK
<1>4. /\ \A u \in Tickets \ {t} : seen'[u] = seen[u]
      /\ seen'[t].status \in {"unknown", "pending"}
  <2>1. seen[t].status = "unknown"
    BY <1>1 DEF LifeInvariant, CenterInvariant, Core, KnownIsRegistered
  <2>2. CASE UNCHANGED seen
    BY <2>1, <2>2
  <2>3. CASE seen' = [seen EXCEPT ![t] = View("pending", EmptyThread, FALSE)]
    BY <2>3 DEF View, LifeInvariant, CenterInvariant, CenterTypes, SessionTypeOK
  <2> QED
    BY <2>2, <2>3 DEF Submit
<1>5. \A r \in Requests, u \in Tickets : /\ InStream(r, u)' = InStream(r, u)
                                         /\ Acts(r, u)' = Acts(r, u)
  BY <1>1 DEF InStream, Acts
<1>6. RequestFacts' /\ ApprovedIsClosed' /\ EscalationsAreNotApproved'
  BY <1>1, <1>3 DEF LifeInvariant, TicketFacts, RequestFacts, ApprovedIsClosed, FlagsAreKept,
                    EscalationsAreNotApproved, Record
<1>7. ActsOnFinished'
  BY <1>2, <1>3, <1>4, <1>5 DEF LifeInvariant, TicketFacts, ActsOnFinished
<1>8. StreamFacts'
  <2>1. \A r \in Requests, u \in Tickets :
            InStream(r, u)' => /\ InStream(r, u) /\ registry'[u] = registry[u]
                               /\ req'[r] = req[r]
    BY <1>1, <1>2, <1>3, <1>5
  <2> QED
    BY <2>1 DEF LifeInvariant, TicketFacts, StreamFacts
<1>9. SeenIsSo'
  BY <1>1, <1>3, <1>4 DEF LifeInvariant, TicketFacts, SeenIsSo, Flag, Record
<1>10. FlagsAreKept' /\ AnswerIsSo'
  BY <1>1, <1>5, <1>6 DEF LifeInvariant, TicketFacts, FlagsAreKept, AnswerIsSo, Flag
<1> QED
  BY <1>6, <1>7, <1>8, <1>9, <1>10 DEF TicketFacts

\* A stream is opened on a ticket nobody works on, a call is made on one that is
\* done and, if it is an approval, not flagged.
LEMMA CallFacts ==
    ASSUME LifeInvariant, OpenStream \/ Call
    PROVE  TicketFacts'
<1>1. PICK f \in Requests : f = Fresh /\ req[f].pc = "idle"
  BY FreshIsIdle DEF OpenStream, Call
<1>2. PICK op \in {"stream", "approve", "modify", "claim"}, t \in Tickets :
          /\ Receive(f, op, t)
          /\ op = "stream" => seen[t].status = "pending"
          /\ op # "stream" => seen[t].status = "done"
          /\ op = "approve" => ~seen[t].state.values.requires_escalation
  <2>1. CASE OpenStream
    <3>1. selected \in Tickets /\ seen[selected].status = "pending"
      BY <2>1 DEF OpenStream, Drives, LifeInvariant, CenterInvariant, CenterTypes, SessionTypeOK
    <3> QED
      BY <1>1, <2>1, <3>1 DEF OpenStream
  <2>2. CASE Call
    <3>1. /\ script.click.kind \in {"approve", "modify", "claim"}
          /\ script.click.on \in Tickets
      BY <2>2, OfferedClick DEF Call, LifeInvariant, CenterInvariant
    <3>2. seen[script.click.on].status = "done"
      BY <2>2, <3>1 DEF Call, Offered, LifeInvariant, CenterInvariant, Core, DraftMeansDone
    <3>3. script.click.kind = "approve" =>
              ~seen[script.click.on].state.values.requires_escalation
      BY <2>2 DEF Call, Offered, Escalated
    <3> QED
      BY <1>1, <2>2, <3>1, <3>2, <3>3 DEF Call
  <2> QED
    BY <2>1, <2>2
<1>3. /\ \A q \in Requests \ {f} : req'[q] = req[q]
      /\ req'[f].op = op /\ req'[f].ticket = t /\ req'[f].pc = "get" /\ req'[f].reply = "none"
      /\ req'[f].rec = Absent
      /\ UNCHANGED <<registry, checkpoint>>
  BY <1>2 DEF Receive, Idle, LifeInvariant, CenterInvariant, CenterTypes, ServiceInvariant, TypeOK
<1>4. /\ UNCHANGED seen /\ script'.call = f
  BY <1>1 DEF OpenStream, Call, LifeInvariant, CenterInvariant, CenterTypes, SessionTypeOK, Scripts
<1>5. "get" \notin ActionPCs /\ "get" \notin StreamPCs /\ "get" \notin RunPCs
  BY PCs
<1>6. /\ \A q \in Requests, u \in Tickets :
             InStream(q, u)' => \/ InStream(q, u) /\ q # f
                                \/ q = f /\ u = t /\ op = "stream"
      /\ \A q \in Requests, u \in Tickets :
             Acts(q, u)' => \/ Acts(q, u) /\ q # f
                            \/ q = f /\ u = t /\ op # "stream"
  BY <1>1, <1>3, BusyPCs DEF InStream, Acts
<1>7. /\ op = "stream" => \A q \in Requests : ~Acts(q, t)
      /\ op # "stream" => \A q \in Requests : ~InStream(q, t)
  BY <1>2 DEF LifeInvariant, CenterInvariant, Core, StreamsAreWatched, TicketFacts,
              ActsOnFinished
<1>8. RequestFacts'
  BY <1>3, <1>5, PCs DEF LifeInvariant, TicketFacts, RequestFacts
<1>9. ActsOnFinished'
  <2>1. op # "stream" => registry[t].status \in {"done", "closed"}
    BY <1>2 DEF LifeInvariant, TicketFacts, SeenIsSo
  <2> QED
    BY <1>2, <1>3, <1>4, <1>6, <1>7, <2>1 DEF LifeInvariant, TicketFacts, ActsOnFinished
<1>10. StreamFacts'
  <2>1. op = "stream" => registry[t].status # "closed"
    BY <1>2 DEF LifeInvariant, TicketFacts, SeenIsSo
  <2>2. ~Absent.approved
    BY DEF Absent, Record
  <2> QED
    BY <1>3, <1>5, <1>6, <2>1, <2>2 DEF LifeInvariant, TicketFacts, StreamFacts
<1>11. ApprovedIsClosed' /\ SeenIsSo' /\ EscalationsAreNotApproved'
  BY <1>3, <1>4 DEF LifeInvariant, TicketFacts, ApprovedIsClosed, SeenIsSo, FlagsAreKept,
                    EscalationsAreNotApproved, Flag
<1>12. AnswerIsSo'
  BY <1>3, <1>4 DEF AnswerIsSo
<1>13. FlagsAreKept'
  <2>1. op # "stream" => seen[t].state.values.requires_escalation = Flag(t)
    BY <1>2 DEF LifeInvariant, TicketFacts, SeenIsSo
  <2>2. \A u : Flag(u)' = Flag(u)
    BY <1>3 DEF Flag
  <2> QED
    BY <1>2, <1>3, <1>6, <1>11, <2>1, <2>2 DEF LifeInvariant, TicketFacts, FlagsAreKept
<1> QED
  BY <1>8, <1>9, <1>10, <1>11, <1>12, <1>13 DEF TicketFacts

LEMMA CrashFacts ==
    ASSUME Durable, LifeInvariant, ServiceCrash
    PROVE  TicketFacts'
<1>1. UNCHANGED <<registry, checkpoint, seen, script>>
  BY DEF ServiceCrash, Crash, session
<1>2. \A r \in Requests :
          /\ req'[r].pc \notin Busy /\ req'[r].pc \notin ActionPCs
          /\ req'[r].reply \in {"done", "200"} => req'[r] = req[r]
  BY BusyPCs DEF ServiceCrash, Crash, Idle, LifeInvariant, CenterInvariant, CenterTypes,
                 ServiceInvariant, TypeOK
<1>3. RequestFacts' /\ ActsOnFinished' /\ StreamFacts'
  BY <1>2, PCs DEF RequestFacts, ActsOnFinished, StreamFacts, Acts, InStream
<1>4. ApprovedIsClosed' /\ SeenIsSo' /\ FlagsAreKept'
  BY <1>1, <1>2 DEF LifeInvariant, TicketFacts, ApprovedIsClosed, SeenIsSo, FlagsAreKept,
                    EscalationsAreNotApproved, Flag, Acts
<1>5. AnswerIsSo'
  BY <1>1, <1>2, AwaitedTicket DEF LifeInvariant, TicketFacts, AnswerIsSo, Flag
<1> QED
  BY <1>3, <1>4, <1>5 DEF TicketFacts

\* A page that is loaded anew has seen nothing.
LEMMA ReloadFacts ==
    ASSUME LifeInvariant, Reload
    PROVE  TicketFacts'
<1>1. /\ UNCHANGED <<registry, checkpoint, req>> /\ script'.at = "idle"
      /\ \A t \in Tickets : seen'[t].status = "unknown"
  BY DEF Reload, vars, Resting, Script, Unknown, View
<1> QED
  BY <1>1, SeenFactsKept

-----------------------------------------------------------------------------
(* The invariant *)

LEMMA InitLifeInvariant == CenterInit => LifeInvariant
<1> SUFFICES ASSUME CenterInit PROVE LifeInvariant
  OBVIOUS
<1>1. /\ \A r \in Requests : /\ req[r].pc = "idle" /\ req[r].pc \notin Busy
                             /\ req[r].pc \notin ActionPCs
      /\ \A t \in Tickets : /\ seen[t].status = "unknown"
                            /\ registry[t].status = "absent" /\ ~registry[t].approved
      /\ script.at = "idle"
  BY BusyPCs DEF CenterInit, Init, Idle, Unknown, View, Absent, Record, Resting, Script
<1>2. RequestFacts /\ ActsOnFinished /\ StreamFacts /\ ApprovedIsClosed
  BY <1>1, PCs DEF RequestFacts, ActsOnFinished, StreamFacts, ApprovedIsClosed, Acts, InStream
<1>3. SeenIsSo /\ AnswerIsSo /\ FlagsAreKept
  BY <1>1 DEF SeenIsSo, AnswerIsSo, FlagsAreKept, EscalationsAreNotApproved, Acts
<1> QED
  BY <1>2, <1>3, InitCenterInvariant DEF LifeInvariant, TicketFacts

LEMMA LifeStepInvariant ==
    ASSUME Durable, LifeInvariant, [CenterNext]_centerVars
    PROVE  LifeInvariant'
<1>1. CenterInvariant'
  BY CenterStepInvariant DEF LifeInvariant
<1>2. CASE UNCHANGED centerVars
  <2>1. TicketFacts'
    BY <1>2 DEF centerVars, session, vars, LifeInvariant, TicketFacts, RequestFacts,
                ActsOnFinished, StreamFacts, ApprovedIsClosed, SeenIsSo, AnswerIsSo,
                FlagsAreKept, EscalationsAreNotApproved, Acts, InStream, Flag
  <2> QED
    BY <1>1, <2>1 DEF LifeInvariant
<1>3. CASE CenterNext
  <2>1. ASSUME \/ \E kind \in Kinds, t \in Tickets : Click(kind, t)
               \/ \E t \in Tickets : SubmitFails(t) \/ Select(t)
               \/ PassSidebar \/ ShowMap \/ ShowPanels \/ Refused \/ GiveUp
        PROVE  TicketFacts'
    <3>1. UNCHANGED <<registry, checkpoint, req, seen>>
      BY <2>1 DEF Click, Start, SubmitFails, Select, PassSidebar, ShowMap, ShowPanels, Refused,
                  GiveUp, vars
    <3>2. script'.at \in {"idle", "sidebar", "map", "panels"}
      BY <2>1 DEF Click, Start, SubmitFails, Select, PassSidebar, ShowMap, ShowPanels, Refused,
                  GiveUp, Goes, Resting, Script
    <3> QED
      BY <3>1, <3>2, PauseFactsKept
  <2>2. ASSUME NEW kind \in Kinds, NEW t \in Tickets, Interrupt(kind, t)
        PROVE  TicketFacts'
    <3>1. script'.at = "sidebar" /\ UNCHANGED seen
      BY <2>2 DEF Interrupt, Start, Script
    <3>2. CASE UNCHANGED vars
      BY <3>1, <3>2, PauseFactsKept DEF vars
    <3>3. CASE Disconnect(script.call)
      <4>1. script.call \in Requests
        BY <2>2, AwaitedTicket DEF Interrupt
      <4> QED
        BY <3>1, <3>3, <4>1, ServiceFactsKept
    <3> QED
      BY <2>2, <3>2, <3>3 DEF Interrupt
  <2>3. ASSUME NEW r \in Requests, Serve(r) \/ HangUp(r)
        PROVE  TicketFacts'
    <3>1. Step(r) \/ Disconnect(r)
      BY <2>3 DEF Serve, HangUp
    <3>2. UNCHANGED seen
      BY <2>3 DEF Serve, HangUp, session
    <3>3. Carries(r)
      <4>1. CASE HangUp(r)
        <5>1. req'[r].reply = "cancelled" /\ script' = script
          BY <4>1, AnswerTurn DEF HangUp, Disconnect, session, LifeInvariant, CenterInvariant,
                                  CenterTypes, ServiceInvariant
        <5> QED
          BY <5>1 DEF Carries
      <4> QED
        BY <2>3, <4>1, ServeCarries
    <3> QED
      BY <3>1, <3>2, <3>3, ServiceFactsKept
  <2>4. CASE Reload
    BY <1>1, <2>4, ReloadFacts DEF LifeInvariant
  <2>5. CASE \E t \in Tickets : Submit(t)
    BY <1>1, <2>5, SubmitFacts DEF LifeInvariant
  <2>6. CASE EndStream \/ StreamTimesOut \/ Accepted
    BY <1>1, <2>6, StreamEndFacts, AcceptedFacts DEF LifeInvariant
  <2>7. CASE OpenStream \/ Call
    BY <1>1, <2>7, CallFacts DEF LifeInvariant
  <2>8. CASE ServiceCrash
    BY <1>1, <2>8, CrashFacts DEF LifeInvariant
  <2>9. TicketFacts' => LifeInvariant'
    BY <1>1 DEF LifeInvariant
  <2> QED
    BY <1>3, <2>1, <2>2, <2>3, <2>4, <2>5, <2>6, <2>7, <2>8, <2>9 DEF CenterNext, ScriptStep
<1> QED
  BY <1>2, <1>3

-----------------------------------------------------------------------------
(* The refinement *)

Life == [t \in Tickets |-> registry[t].status]
Granted == {t \in Tickets : registry[t].approved}

\* What a save does to the abstract state.
LEMMA LifeOfSave ==
    ASSUME ServiceInvariant, NEW t \in Tickets, NEW status, NEW approved \in BOOLEAN,
           registry' = [registry EXCEPT ![t] = Record(status, approved)]
    PROVE  /\ Life' = [Life EXCEPT ![t] = status] /\ Life[t] = registry[t].status
           /\ approved => Granted' = Granted \cup {t}
           /\ ~approved /\ ~registry[t].approved => Granted' = Granted
<1>1. /\ registry'[t].status = status /\ registry'[t].approved = approved
      /\ \A u \in Tickets \ {t} : registry'[u] = registry[u]
  BY DEF ServiceInvariant, TypeOK, Record
<1>2. Life' = [Life EXCEPT ![t] = status] /\ Life[t] = registry[t].status
  <2>1. Life' = [u \in Tickets |-> IF u = t THEN status ELSE registry[u].status]
    BY <1>1 DEF Life
  <2>2. [Life EXCEPT ![t] = status]
            = [u \in Tickets |-> IF u = t THEN status ELSE registry[u].status]
    BY DEF Life
  <2> QED
    BY <2>1, <2>2 DEF Life
<1>3. /\ approved => Granted' = Granted \cup {t}
      /\ ~approved /\ ~registry[t].approved => Granted' = Granted
  BY <1>1 DEF Granted
<1> QED
  BY <1>2, <1>3

LifeStep == Documented!Next \/ UNCHANGED <<Life, Granted>>

LEMMA QuietLife == UNCHANGED registry => LifeStep
BY DEF LifeStep, Life, Granted

LEMMA StreamLife ==
    ASSUME Durable, LifeInvariant, NEW r \in Requests, NEW t \in Tickets, InStream(r, t),
           Step(r) \/ Disconnect(r)
    PROVE  LifeStep
<1> USE DEF LifeInvariant, CenterInvariant, CenterTypes
<1>1. /\ req[r].ticket = t /\ ~req[r].rec.approved /\ req[r].rec \in Records
      /\ registry[t].status \in {"pending", "running", "done", "error"}
      /\ ~registry[t].approved
      /\ req[r].pc = "open" => req[r].rec = registry[t]
      /\ req[r].pc = "finish" => registry[t].status = "running"
      /\ req[r].pc = "fail" => registry[t].status \in {"running", "done"}
  <2>1. registry[t].status \in Statuses
    <3>1. Registered(t) /\ registry[t] \in Records
      BY DEF Core, KnownIsRegistered, InStream, ServiceInvariant, TypeOK
    <3> QED
      BY <3>1 DEF Registered, Records, Absent, Record
  <2>2. req[r].rec \in Records
    BY DEF ServiceInvariant, TypeOK, RequestStates
  <2> QED
    BY <2>1, <2>2 DEF TicketFacts, StreamFacts, ApprovedIsClosed, InStream, Statuses
<1>2. ASSUME NEW status, Save(r, status, Rec(r).approved)
      PROVE  /\ Life' = [Life EXCEPT ![t] = status] /\ Life[t] = registry[t].status
             /\ Granted' = Granted
  <2>1. req[r].rec.approved = FALSE
    <3>1. CASE req[r].rec \in [status : Statuses, approved : BOOLEAN]
      <4>1. req[r].rec.approved \in BOOLEAN
        BY <3>1
      <4> QED
        BY <1>1, <4>1
    <3>2. CASE req[r].rec = Absent
      BY <3>2 DEF Absent, Record
    <3> QED
      BY <1>1, <3>1, <3>2 DEF Records
  <2>2. registry' = [registry EXCEPT ![t] = Record(status, FALSE)]
    BY <1>1, <1>2, <2>1 DEF Save, Rec
  <2> QED
    BY <1>1, <2>2, LifeOfSave
<1>3. CASE OpenRun(r)
  <2>1. /\ Save(r, "running", Rec(r).approved)
        /\ registry[t].status \in {"pending", "running", "error"}
    BY <1>1, <1>3 DEF OpenRun, At, Rec
  <2>2. Documented!Run(t)
    BY <1>2, <2>1 DEF Documented!Run, Documented!Advance, Life, Granted
  <2> QED
    BY <2>2 DEF LifeStep, Documented!Next
<1>4. CASE Finish(r)
  <2>1. Save(r, "done", Rec(r).approved) /\ registry[t].status = "running"
    BY <1>1, <1>4 DEF Finish, At
  <2>2. Documented!Complete(t)
    BY <1>2, <2>1 DEF Documented!Complete, Documented!Advance, Life, Granted
  <2> QED
    BY <2>2 DEF LifeStep, Documented!Next
<1>5. CASE Fail(r)
  <2>1. Save(r, "error", Rec(r).approved) /\ registry[t].status \in {"running", "done"}
    BY <1>1, <1>5 DEF Fail, At
  <2>2. Documented!Fail(t)
    BY <1>2, <2>1 DEF Documented!Fail, Documented!Advance, Life, Granted
  <2> QED
    BY <2>2 DEF LifeStep, Documented!Next
<1>6. ~ActionStep(r)
  <2>1. req[r].pc \notin ActionPCs
    BY DEF TicketFacts, RequestFacts, InStream
  <2> QED
    BY <2>1 DEF ActionStep, ApproveTicket, Rescore, ReadLogs, UpdateReadsBase, UpdatePuts,
                ReadState, At, ActionPCs
<1>7. UNCHANGED registry \/ OpenRun(r) \/ Finish(r) \/ Fail(r)
  BY <1>6 DEF Step, Lookup, RunRaises, StoreRaises, Disconnect, StreamStep, OpenReplay, RunBegin,
              RunInput, RunClassify, RunWorker, RunReview, NodeReturns, SendDone, Replay
<1> QED
  BY <1>3, <1>4, <1>5, <1>7, QuietLife

LEMMA ActLife ==
    ASSUME Durable, LifeInvariant, NEW r \in Requests, NEW t \in Tickets, Acts(r, t),
           Step(r) \/ Disconnect(r)
    PROVE  LifeStep
<1> USE DEF LifeInvariant, CenterInvariant, CenterTypes
<1>1. /\ req[r].ticket = t /\ registry[t].status \in {"done", "closed"}
      /\ registry[t].status = "closed" => registry[t].approved
  BY DEF Acts, TicketFacts, ActsOnFinished, ServiceInvariant, ClosedIsApproved
<1>2. CASE ApproveTicket(r)
  <2>1. registry' = [registry EXCEPT ![t] = Record("closed", TRUE)]
    BY <1>1, <1>2 DEF ApproveTicket, Save
  <2>2. /\ Life' = [Life EXCEPT ![t] = "closed"] /\ Life[t] = registry[t].status
        /\ Granted' = Granted \cup {t}
    BY <2>1, LifeOfSave
  <2>3. CASE registry[t].status = "done"
    <3>1. Documented!Approve(t)
      BY <2>2, <2>3 DEF Documented!Approve, Documented!Advance, Life, Granted
    <3> QED
      BY <3>1 DEF LifeStep, Documented!Next
  <2>4. CASE registry[t].status = "closed"
    <3>1. Life' = Life
      BY <2>2, <2>4 DEF Life
    <3>2. Granted' = Granted
      BY <1>1, <2>2, <2>4 DEF Granted
    <3> QED
      BY <3>1, <3>2 DEF LifeStep
  <2> QED
    BY <1>1, <2>3, <2>4
<1>3. UNCHANGED registry \/ ApproveTicket(r)
  <2>1. ~StreamStep(r)
    BY StreamProceeds DEF Acts, Core, OpTellsPC, ServiceInvariant
  <2> QED
    BY <2>1 DEF Step, Lookup, RunRaises, StoreRaises, Disconnect, ActionStep, Rescore, ReadLogs,
                UpdateReadsBase, UpdatePuts, ReadState
<1> QED
  BY <1>2, <1>3, QuietLife

LEMMA CenterLife ==
    ASSUME Durable, LifeInvariant, [CenterNext]_centerVars
    PROVE  LifeStep
<1>1. ASSUME NEW r \in Requests, Step(r) \/ Disconnect(r)
      PROVE  LifeStep
  <2>1. req[r].ticket \in Tickets /\ req[r].pc \in Busy
    BY <1>1, RequestSaves, RequestProceeds
       DEF LifeInvariant, CenterInvariant, CenterTypes, ServiceInvariant, Proceeds
  <2>2. InStream(r, req[r].ticket) \/ Acts(r, req[r].ticket)
    BY <2>1 DEF InStream, Acts
  <2> QED
    BY <1>1, <2>1, <2>2, StreamLife, ActLife
<1>2. ASSUME NEW t \in Tickets, CreateTicket(t)
      PROVE  LifeStep
  <2>1. /\ registry' = [registry EXCEPT ![t] = Record("pending", FALSE)]
        /\ registry[t].status = "absent"
    BY <1>2 DEF CreateTicket, Registered
  <2>2. ~registry[t].approved
    BY <2>1 DEF LifeInvariant, TicketFacts, ApprovedIsClosed
  <2>3. /\ Life' = [Life EXCEPT ![t] = "pending"] /\ Life[t] = "absent"
        /\ Granted' = Granted
    BY <2>1, <2>2, LifeOfSave DEF LifeInvariant, CenterInvariant, CenterTypes
  <2>4. Documented!Create(t)
    BY <2>3 DEF Documented!Create, Documented!Advance, Life, Granted
  <2> QED
    BY <2>4 DEF LifeStep, Documented!Next
<1>3. CASE Crash
  BY <1>3, QuietLife DEF Crash
<1>4. CASE \E r \in Requests, op \in Ops, t \in Tickets : Receive(r, op, t)
  BY <1>4, QuietLife DEF Receive
<1>5. CASE UNCHANGED vars
  BY <1>5, QuietLife DEF vars
<1>6. [Next]_vars
  BY CenterStepServes DEF LifeInvariant, CenterInvariant
<1> QED
  BY <1>1, <1>2, <1>3, <1>4, <1>5, <1>6 DEF Next

-----------------------------------------------------------------------------
(* Theorems *)

\* What the session, the requests and the two stores know of a ticket agree.
THEOREM LifeInvariance ==
    ASSUME Durable PROVE CenterSpec => []LifeInvariant
<1>1. CenterInit => LifeInvariant
  BY InitLifeInvariant
<1>2. LifeInvariant /\ [CenterNext]_centerVars => LifeInvariant'
  BY LifeStepInvariant
<1> QED
  BY <1>1, <1>2, PTL DEF CenterSpec

\* No escalated ticket is ever approved, whatever was given up, reloaded or cut
\* off between the look at its draft and the approval.
THEOREM EscalatedTicketsAreNotApproved ==
    ASSUME Durable PROVE CenterSpec => []EscalationsAreNotApproved
<1>1. LifeInvariant => EscalationsAreNotApproved
  BY DEF LifeInvariant, TicketFacts, FlagsAreKept
<1> QED
  BY <1>1, LifeInvariance, PTL

\* A session over a durable service implements the documented life of a ticket.
THEOREM LifecycleRefinement ==
    ASSUME Durable PROVE CenterSpec => ImplementsLifecycle
<1>1. CenterInit => Documented!Init
  BY DEF CenterInit, Init, Absent, Record, Documented!Init
<1>2. LifeInvariant /\ [CenterNext]_centerVars => [Documented!Next]_(Documented!vars)
  BY CenterLife DEF LifeStep, Life, Granted, Documented!vars
<1> QED
  BY <1>1, <1>2, LifeInvariance, PTL DEF CenterSpec, ImplementsLifecycle, Documented!Spec

-----------------------------------------------------------------------------
(* What the session shows of a finished ticket is what is stored *)

Shown(t) == seen[t].status \in {"done", "closed"} /\ t \notin unsure

\* Two copies of a state that differ by lines added to the second one's log.
Agree(mine, theirs) ==
    /\ [mine EXCEPT !.execution_logs = theirs.execution_logs] = theirs
    /\ IsPrefix(mine.execution_logs, theirs.execution_logs)

\* Nobody but the call on the screen works on a finished ticket all whose calls
\* have ended with a definite answer.
SoleAct ==
    \A r \in Requests, t \in Tickets :
        Acts(r, t) /\ Shown(t) => script.at = "calling" /\ script.call = r

\* So what that call has read is still so when it writes.
ActBase ==
    /\ \A r \in Requests : req[r].pc = "rescore" => req[r].op = "modify"
    /\ \A r \in Requests, t \in Tickets :
           Acts(r, t) /\ Shown(t) =>
               /\ req[r].pc = "put" => req[r].state = checkpoint[t]
               /\ req[r].op = "claim" /\ req[r].pc \in {"read_base", "put"} =>
                      req[r].logs = Append(checkpoint[t].values.execution_logs, r)

\* The state on its way to the script is the stored one.
BodyIsSo ==
    LET t == req[script.call].ticket
    IN  script.at \in {"streaming", "calling"} /\ req[script.call].reply \in {"done", "200"} =>
            t \in unsure \/ script.body = checkpoint[t]

\* The call on the screen may have stored a modification of t.
Written(t) ==
    /\ script.at = "calling" /\ script.click = Press("modify", t)
    /\ \/ req[script.call].pc = "read_state"
       \/ req[script.call].reply \notin {"none", "404", "502"}

CopiesAgree ==
    \A t \in Tickets :
        Shown(t) => Written(t) \/ Agree(seen[t].state.values, checkpoint[t].values)

ShownFacts == SoleAct /\ ActBase /\ BodyIsSo /\ CopiesAgree

LEMMA AgreeWithItself ==
    ASSUME NEW s \in States
    PROVE  Agree(s, s)
<1>1. [s EXCEPT !.execution_logs = s.execution_logs] = s
  BY DEF States
<1>2. s.execution_logs \in Seq(LogLines)
  BY DEF States
<1> QED
  BY <1>1, <1>2, LongerLogs DEF Agree

LEMMA PrefixOfAppend ==
    ASSUME NEW S, NEW s \in Seq(S), NEW u \in Seq(S), NEW l \in S, IsPrefix(s, u)
    PROVE  IsPrefix(s, Append(u, l))
<1>1. Len(s) \in Nat /\ Len(u) \in Nat /\ Len(s) <= Len(u)
  BY DEF IsPrefix
<1>2. ASSUME NEW i \in 1 .. Len(s) PROVE u[i] = s[i]
  <2>1. SubSeq(s, 1, Len(s)) = SubSeq(u, 1, Len(s))
    BY DEF IsPrefix
  <2>2. SubSeq(s, 1, Len(s))[i] = s[i] /\ SubSeq(u, 1, Len(s))[i] = u[i]
    BY <1>1, <1>2
  <2> QED
    BY <2>1, <2>2
<1>3. /\ Append(u, l) \in Seq(S) /\ Len(s) <= Len(Append(u, l))
      /\ \A i \in 1 .. Len(s) : Append(u, l)[i] = s[i]
  BY <1>1, <1>2
<1> QED
  BY <1>3, PrefixByElements

\* A claim adds a line to the stored copy.
LEMMA AgreeAfterClaim ==
    ASSUME NEW mine \in States, NEW theirs \in States, NEW r \in Requests, Agree(mine, theirs)
    PROVE  Agree(mine, Claimed(theirs, Append(theirs.execution_logs, r)))
<1> DEFINE logs == Append(theirs.execution_logs, r)
<1>1. /\ mine.execution_logs \in Seq(LogLines) /\ theirs.execution_logs \in Seq(LogLines)
      /\ r \in LogLines
  BY DEF States, LogLines
<1>2. IsPrefix(mine.execution_logs, logs)
  BY <1>1, PrefixOfAppend DEF Agree
<1> HIDE DEF logs
<1>3. Claimed(theirs, logs).execution_logs = logs
  BY DEF Claimed, States
<1>4. [mine EXCEPT !.execution_logs = logs] = Claimed(theirs, logs)
  <2>1. theirs = [mine EXCEPT !.execution_logs = theirs.execution_logs]
    BY DEF Agree
  <2>2. [theirs EXCEPT !.execution_logs = logs] = [mine EXCEPT !.execution_logs = logs]
    BY <2>1 DEF States
  <2> QED
    BY <2>2 DEF Claimed
<1>5. Agree(mine, Claimed(theirs, logs))
  BY <1>2, <1>3, <1>4 DEF Agree
<1> QED
  BY <1>5 DEF logs

\* Where the steps that read and write a thread lead from and to.
LEMMA ActPCs ==
    ASSUME TypeOK, NEW r \in Requests, Step(r) \/ Disconnect(r)
    PROVE  /\ req'[r].pc = "rescore" => req[r].op = "modify"
           /\ req'[r].pc = "read_base" => Rescore(r) \/ ReadLogs(r)
           /\ req[r].pc = "read_state" => req'[r].reply \in {"200", "500"}
<1> DEFINE Tells == /\ req'[r].pc = "rescore" => req[r].op = "modify"
                    /\ req'[r].pc = "read_base" => Rescore(r) \/ ReadLogs(r)
                    /\ req[r].pc = "read_state" => req'[r].reply \in {"200", "500"}
<1>1. CASE Lookup(r)
  <2>1. req[r].pc = "get"
    BY <1>1 DEF Lookup, At
  <2>2. CASE Registered(req[r].ticket)
    <3>1. req'[r].pc = FirstPC(req[r].op)
      BY <1>1, <2>2 DEF Lookup, TypeOK, RequestStates
    <3>2. /\ FirstPC(req[r].op) # "read_base"
          /\ FirstPC(req[r].op) = "rescore" => req[r].op = "modify"
      BY DEF FirstPC
    <3> QED
      BY <2>1, <3>1, <3>2
  <2>3. CASE ~Registered(req[r].ticket)
    BY <1>1, <2>1, <2>3, AnswerTurn DEF Lookup
  <2> QED
    BY <2>2, <2>3
<1>2. CASE StreamStep(r)
  <2>1. req[r].pc \in StreamPCs /\ req'[r].pc \in StreamPCs \cup {"replied"}
    <3>1. /\ req[r].pc \in StreamPCs
          /\ {"begin", "input", "classify", "worker", "supervisor", "finish", "fail", "replay",
              "send_done"} \subseteq StreamPCs
      BY <1>2, StreamProceeds, PCs
    <3>2. CASE NodeStep(r)
      <4>1. ASSUME NEW values, NEW next \in StreamPCs, NodeReturns(r, values, next)
            PROVE  req'[r].pc \in StreamPCs
        BY <4>1, NodeTurn
      <4>2. CASE RunInput(r)
        BY <3>1, <4>1, <4>2 DEF RunInput
      <4>3. CASE RunClassify(r)
        BY <3>1, <4>1, <4>3 DEF RunClassify
      <4>4. CASE RunWorker(r)
        <5>1. PICK values : NodeReturns(r, values, "supervisor")
          BY <4>4 DEF RunWorker
        <5> QED
          BY <3>1, <4>1, <5>1
      <4>5. CASE RunReview(r)
        BY <3>1, <4>1, <4>5 DEF RunReview
      <4> QED
        BY <3>1, <3>2, <4>2, <4>3, <4>4, <4>5 DEF NodeStep
    <3>3. CASE OpenReplay(r) \/ OpenRun(r)
      BY <3>1, <3>3, GotoTurn DEF OpenReplay, OpenRun
    <3>4. CASE RunBegin(r) \/ Finish(r)
      BY <3>1, <3>4 DEF RunBegin, Finish, TypeOK, RequestStates
    <3>5. CASE SendDone(r) \/ Fail(r) \/ Replay(r)
      BY <3>1, <3>5, AnswerTurn, GotoTurn DEF SendDone, Fail, Replay
    <3> QED
      BY <1>2, <3>1, <3>2, <3>3, <3>4, <3>5 DEF StreamStep, NodeStep
  <2>2. {"rescore", "read_base", "read_state"} \cap (StreamPCs \cup {"replied"}) = {}
    BY PCs DEF ActionPCs
  <2> QED
    BY <2>1, <2>2
<1>3. CASE RunRaises(r)
  <2>1. req'[r].pc = "fail" /\ req[r].pc # "read_state"
    BY <1>3, PCs DEF RunRaises, TypeOK, RequestStates, RunPCs
  <2> QED
    BY <2>1
<1>4. CASE StoreRaises(r)
  BY <1>4, AnswerTurn DEF StoreRaises
<1>5. CASE Disconnect(r)
  <2>1. req'[r].pc = "replied" /\ req[r].pc # "read_state"
    BY <1>5, AnswerTurn, PCs DEF Disconnect, ActionPCs
  <2> QED
    BY <2>1
<1>6. CASE ActionStep(r)
  <2>1. CASE ApproveTicket(r)
    <3>1. req'[r].pc = "replied" /\ req[r].pc = "close"
      BY <2>1, AnswerTurn DEF ApproveTicket, At
    <3> QED
      BY <3>1
  <2>2. CASE Rescore(r)
    <3>1. req'[r].pc \in {"replied", "read_base"} /\ req[r].pc = "rescore"
      BY <2>2, AnswerTurn, GotoTurn DEF Rescore, At
    <3> QED
      BY <2>2, <3>1
  <2>3. CASE ReadLogs(r)
    <3>1. req'[r].pc \in {"replied", "read_base"} /\ req[r].pc = "read_logs"
      <4>1. CASE Thread(r).complete
        BY <2>3, <4>1 DEF ReadLogs, At, TypeOK, RequestStates
      <4>2. CASE ~Thread(r).complete
        BY <2>3, <4>2, AnswerTurn DEF ReadLogs, At
      <4> QED
        BY <4>1, <4>2
    <3> QED
      BY <2>3, <3>1
  <2>4. CASE UpdateReadsBase(r) \/ UpdatePuts(r)
    <3>1. req'[r].pc \in {"put", "read_state"} /\ req[r].pc \in {"read_base", "put"}
      BY <2>4 DEF UpdateReadsBase, UpdatePuts, At, TypeOK, RequestStates
    <3> QED
      BY <3>1
  <2>5. CASE ReadState(r)
    BY <2>5, AnswerTurn DEF ReadState
  <2> QED
    BY <1>6, <2>1, <2>2, <2>3, <2>4, <2>5 DEF ActionStep
<1> QED
  BY <1>1, <1>2, <1>3, <1>4, <1>5, <1>6 DEF Step

\* The call on the screen, at work on a ticket that is shown: what it reads is
\* current, and what it stores is the session's copy but for the log, unless it
\* is a modification.
LEMMA ActShown ==
    ASSUME Durable, LifeInvariant, ShownFacts, NEW r \in Requests, NEW t \in Tickets,
           Acts(r, t), Shown(t), Step(r) \/ Disconnect(r)
    PROVE  /\ req'[r].pc = "put" => req'[r].state = checkpoint'[t]
           /\ req[r].op = "claim" /\ req'[r].pc \in {"read_base", "put"} =>
                  req'[r].logs = Append(checkpoint'[t].values.execution_logs, r)
           /\ \/ /\ checkpoint'[t] = checkpoint[t]
                 /\ req[r].pc = "read_state" => req'[r].reply \in {"200", "500"}
              \/ req[r].op = "modify" /\ req'[r].pc = "read_state"
              \/ \A mine \in States :
                     Agree(mine, checkpoint[t].values) => Agree(mine, checkpoint'[t].values)
<1> DEFINE s == checkpoint[t].values
<1>1. /\ TypeOK /\ BusyOnTicket /\ req[r].ticket = t /\ req[r].op # "stream"
      /\ req[r].pc \in Busy /\ req[r].pc \notin StreamPCs
      /\ req \in [Requests -> RequestStates] /\ s \in States
  BY DEF Acts, LifeInvariant, CenterInvariant, CenterTypes, ServiceInvariant, TypeOK, Threads,
         Core, OpTellsPC
<1>2. /\ req[r].pc = "put" => req[r].state = checkpoint[t]
      /\ req[r].op = "claim" /\ req[r].pc \in {"read_base", "put"} =>
             req[r].logs = Append(s.execution_logs, r)
      /\ req[r].pc = "rescore" => req[r].op = "modify"
  BY DEF ShownFacts, ActBase
<1>3. ~NodeStep(r)
  <2>1. {"input", "classify", "worker", "supervisor"} \subseteq StreamPCs
    BY PCs
  <2> QED
    BY <1>1, <2>1 DEF NodeStep, RunInput, RunClassify, RunWorker, RunReview, At
<1>4. CASE UpdateReadsBase(r)
  <2>1. /\ req'[r].pc = "put" /\ req'[r].state = checkpoint[t] /\ req'[r].logs = req[r].logs
        /\ UNCHANGED checkpoint /\ req[r].pc = "read_base"
    BY <1>1, <1>4 DEF UpdateReadsBase, Thread, At, RequestStates
  <2> QED
    BY <1>2, <2>1
<1>5. CASE UpdatePuts(r)
  <2>1. req'[r].pc = "read_state" /\ req[r].pc = "put"
    BY <1>1, <1>5 DEF UpdatePuts, At, RequestStates
  <2>2. CASE req[r].op = "modify"
    BY <2>1, <2>2
  <2>3. CASE req[r].op = "claim"
    <3> DEFINE logs == Append(s.execution_logs, r)
    <3>1. checkpoint'[t] = Saved(req[r].state.complete, Claimed(req[r].state.values, req[r].logs))
      BY <1>1, <1>5, <2>3, PatchEffect
    <3>2. checkpoint'[t].values = Claimed(s, logs)
      <4>1. req[r].logs = logs /\ req[r].state.values = s
        BY <1>2, <2>1, <2>3
      <4> HIDE DEF logs, s
      <4> QED
        BY <3>1, <4>1 DEF Saved
    <3>3. \A mine \in States : Agree(mine, s) => Agree(mine, Claimed(s, logs))
      BY <1>1, AgreeAfterClaim
    <3> HIDE DEF logs
    <3> QED
      BY <2>1, <3>2, <3>3
  <2> QED
    BY <1>5, <2>2, <2>3 DEF UpdatePuts
<1>6. CASE ~UpdateReadsBase(r) /\ ~UpdatePuts(r)
  <2>1. UNCHANGED checkpoint /\ req'[r].pc # "put"
    BY <1>1, <1>3, <1>6, OtherSteps
  <2>2. req[r].pc = "read_state" => req'[r].reply \in {"200", "500"}
    BY <1>1, ActPCs
  <2>3. ASSUME req[r].op = "claim", req'[r].pc = "read_base"
        PROVE  req'[r].logs = Append(s.execution_logs, r)
    <3>1. ReadLogs(r)
      BY <1>1, <1>2, <2>3, ActPCs DEF Rescore, At
    <3>2. Thread(r).complete
      <4>1. CASE ~Thread(r).complete
        BY <1>1, <2>3, <3>1, <4>1, AnswerTurn DEF ReadLogs
      <4> QED
        BY <4>1
    <3> QED
      BY <1>1, <3>1, <3>2 DEF ReadLogs, Thread, RequestStates
  <2> QED
    BY <2>1, <2>2, <2>3
<1> QED
  BY <1>4, <1>5, <1>6

\* A step of the service, while the script waits or has just left its stream.
LEMMA ServiceShown ==
    ASSUME Durable, LifeInvariant, ShownFacts, NEW r \in Requests, Step(r) \/ Disconnect(r),
           UNCHANGED <<seen, unsure>>,
           \/ Carries(r) /\ script'.click = script.click
           \/ script.at = "streaming" /\ script'.at = "sidebar"
    PROVE  ShownFacts'
<1> DEFINE t == req[r].ticket
<1>1. /\ TypeOK /\ Turn(r) /\ t \in Tickets /\ req[r].pc \in Busy
      /\ req'[r].pc \in Busy \cup {"replied"} /\ req[r].reply = "none"
  BY RequestSaves, RequestProceeds
     DEF LifeInvariant, CenterInvariant, CenterTypes, ServiceInvariant, Proceeds, TicketFacts,
         RequestFacts
<1>2. \A u \in Tickets \ {t} : checkpoint'[u] = checkpoint[u]
  BY ElsewhereSame DEF LifeInvariant, CenterInvariant, CenterTypes
<1>3. \A u \in Tickets : Shown(u)' = Shown(u)
  BY DEF Shown
<1>4. \A q \in Requests, u \in Tickets : Acts(q, u)' => Acts(q, u)
  BY <1>1 DEF Turn, Acts
<1>5. Shown(t) => /\ Acts(r, t) /\ script.at = "calling" /\ script.call = r
                  /\ Carries(r) /\ script'.click = script.click
  <2> SUFFICES ASSUME Shown(t) PROVE Acts(r, t)
    BY <1>1 DEF ShownFacts, SoleAct
  <2>1. ~InStream(r, t)
    BY <1>1 DEF Shown, LifeInvariant, CenterInvariant, Core, StreamsAreWatched
  <2> QED
    BY <1>1, <2>1 DEF InStream, Acts
<1>6. SoleAct'
  BY <1>3, <1>4 DEF ShownFacts, SoleAct, Carries
<1>7. ActBase'
  <2>1. \A q \in Requests : req'[q].pc = "rescore" => req'[q].op = "modify"
    BY <1>1, ActPCs DEF ShownFacts, ActBase, Turn
  <2>2. ASSUME NEW q \in Requests, NEW u \in Tickets, Acts(q, u)', Shown(u)'
        PROVE  /\ req'[q].pc = "put" => req'[q].state = checkpoint'[u]
               /\ req'[q].op = "claim" /\ req'[q].pc \in {"read_base", "put"} =>
                      req'[q].logs = Append(checkpoint'[u].values.execution_logs, q)
    <3>1. Acts(q, u) /\ Shown(u) /\ script.call = q
      BY <1>3, <1>4, <2>2 DEF ShownFacts, SoleAct
    <3>2. CASE q = r
      <4>1. u = t
        BY <3>1, <3>2 DEF Acts
      <4>2. /\ req'[r].pc = "put" => req'[r].state = checkpoint'[t]
            /\ req[r].op = "claim" /\ req'[r].pc \in {"read_base", "put"} =>
                   req'[r].logs = Append(checkpoint'[t].values.execution_logs, r)
        BY <1>1, <3>1, <3>2, <4>1, ActShown
      <4>3. req'[r].op = req[r].op
        BY <1>1 DEF Turn
      <4> QED
        BY <3>2, <4>1, <4>2, <4>3
    <3>3. CASE q # r
      <4>1. checkpoint'[u] = checkpoint[u] /\ req'[q] = req[q]
        BY <1>1, <1>2, <1>5, <3>1, <3>3 DEF Turn
      <4>2. /\ req[q].pc = "put" => req[q].state = checkpoint[u]
            /\ req[q].op = "claim" /\ req[q].pc \in {"read_base", "put"} =>
                   req[q].logs = Append(checkpoint[u].values.execution_logs, q)
        BY <3>1 DEF ShownFacts, ActBase
      <4> QED
        BY <4>1, <4>2, Zenon
    <3> QED
      BY <3>2, <3>3
  <2> QED
    BY <2>1, <2>2 DEF ActBase
<1>8. BodyIsSo'
  <2> SUFFICES ASSUME Carries(r), script.at \in {"streaming", "calling"}
               PROVE  BodyIsSo'
    BY DEF BodyIsSo, Carries
  <2>1. PICK c \in Requests, u \in Tickets : c = script.call /\ u = req[c].ticket
    BY AwaitedTicket
  <2>2. req'[c].ticket = u
    BY <1>1, <2>1 DEF Turn
  <2>3. ASSUME c = r, req'[c].reply \in {"done", "200"}
        PROVE  script'.body = checkpoint'[u]
    <3>1. UNCHANGED checkpoint
      <4>1. CASE InStream(r, t)
        BY <1>1, <2>3, <4>1, StreamHasEffect DEF StreamEffect
      <4>2. CASE Acts(r, t)
        BY <1>1, <2>3, <4>2, ActHasEffect DEF ActEffect
      <4> QED
        BY <1>1, <4>1, <4>2 DEF InStream, Acts
    <3> QED
      BY <2>1, <2>3, <3>1 DEF Carries, Thread
  <2>4. ASSUME c # r, req'[c].reply \in {"done", "200"}, u \notin unsure
        PROVE  script'.body = checkpoint'[u]
    <3>1. req'[c] = req[c] /\ script' = script
      BY <1>1, <2>1, <2>4 DEF Turn, Carries
    <3>2. u # t
      <4>1. CASE script.at = "streaming"
        <5>1. seen[u].status = "pending" /\ script.call # r
          BY <2>1, <2>4, <4>1, AwaitedTicket
        <5>2. ~InStream(r, u) /\ ~Acts(r, u)
          BY <5>1 DEF LifeInvariant, CenterInvariant, Core, StreamsAreWatched, TicketFacts,
                      ActsOnFinished
        <5> QED
          BY <1>1, <5>2 DEF InStream, Acts
      <4>2. CASE script.at = "calling"
        <5>1. seen[u].status = "done"
          BY <2>1, <4>2, AwaitedTicket
        <5>2. Shown(u)
          BY <2>4, <5>1 DEF Shown
        <5> QED
          BY <1>5, <2>1, <2>4, <5>2
      <4> QED
        BY <4>1, <4>2
    <3> QED
      BY <1>2, <2>1, <2>4, <3>1, <3>2 DEF ShownFacts, BodyIsSo
  <2> QED
    BY <2>1, <2>2, <2>3, <2>4 DEF BodyIsSo, Carries
<1>9. CopiesAgree'
  <2> SUFFICES ASSUME NEW u \in Tickets, Shown(u)
               PROVE  Written(u)' \/ Agree(seen[u].state.values, checkpoint'[u].values)
    BY <1>3 DEF CopiesAgree
  <2>1. Written(u) \/ Agree(seen[u].state.values, checkpoint[u].values)
    BY DEF ShownFacts, CopiesAgree
  <2>2. CASE u # t
    <3>1. checkpoint'[u] = checkpoint[u]
      BY <1>2, <2>2
    <3>2. ASSUME Written(u) PROVE Written(u)'
      <4>1. /\ script.at = "calling" /\ script.call \in Requests
            /\ script.click.on = u /\ req[script.call].ticket = u
        BY <3>2, AwaitedTicket DEF Written, Press, LifeInvariant, CenterInvariant, Core, CallAwaited
      <4>2. script.call # r
        BY <2>2, <4>1
      <4>3. req'[script.call] = req[script.call] /\ script' = script
        BY <1>1, <4>1, <4>2 DEF Turn, Carries
      <4> QED
        BY <3>2, <4>3 DEF Written
    <3> QED
      BY <2>1, <3>1, <3>2
  <2>3. CASE u = t
    <3>1. /\ Acts(r, t) /\ script.at = "calling" /\ script.call = r
          /\ script'.at = "calling" /\ script'.call = r /\ script'.click = script.click
      BY <1>5, <2>3 DEF Carries
    <3>2. script.click.kind = req[r].op /\ script.click.on = t /\ script.click \in Presses
      BY <3>1 DEF LifeInvariant, CenterInvariant, CenterTypes, SessionTypeOK, Scripts, Core,
                  CallAwaited
    <3>3. seen[t].state.values \in States
      BY <1>1 DEF LifeInvariant, CenterInvariant, CenterTypes, SessionTypeOK, Views, Threads
    <3>4. CASE req[r].op = "modify" /\ req'[r].pc = "read_state"
      <4>1. script.click = Press("modify", t)
        BY <3>2, <3>4 DEF Presses, Press, NoClick
      <4> QED
        BY <2>3, <3>1, <3>4, <4>1 DEF Written
    <3>5. ASSUME checkpoint'[t] = checkpoint[t],
                 req[r].pc = "read_state" => req'[r].reply \in {"200", "500"}
          PROVE  Written(u)' \/ Agree(seen[u].state.values, checkpoint'[u].values)
      <4>1. ASSUME Written(u) PROVE Written(u)'
        BY <1>1, <3>1, <3>5, <4>1 DEF Written
      <4> QED
        BY <2>1, <2>3, <3>5, <4>1
    <3>6. ASSUME \A mine \in States :
                     Agree(mine, checkpoint[t].values) => Agree(mine, checkpoint'[t].values)
          PROVE  Written(u)' \/ Agree(seen[u].state.values, checkpoint'[u].values)
      <4>1. CASE Agree(seen[u].state.values, checkpoint[u].values)
        BY <2>3, <3>3, <3>6, <4>1
      <4>2. CASE Written(u) /\ req[r].pc = "read_state"
        <5>1. req'[r].reply \in {"200", "500"}
          BY <1>1, <4>2, ActPCs
        <5> QED
          BY <3>1, <4>2, <5>1 DEF Written
      <4> QED
        BY <1>1, <2>1, <3>1, <4>1, <4>2 DEF Written
    <3> QED
      BY <1>1, <2>3, <3>1, <3>4, <3>5, <3>6, ActShown
  <2> QED
    BY <2>2, <2>3
<1> QED
  BY <1>6, <1>7, <1>8, <1>9 DEF ShownFacts

\* A shown ticket that the script does not wait for, or not any more.
LEMMA SettledTicket ==
    ASSUME LifeInvariant, ShownFacts, NEW t \in Tickets, Shown(t),
           \/ script.at # "calling" \/ script.click.on # t
           \/ ~Waiting(script.call) /\ ~Written(t)
    PROVE  /\ \A r \in Requests : ~Acts(r, t)
           /\ Agree(seen[t].state.values, checkpoint[t].values)
<1>1. ASSUME NEW r \in Requests, Acts(r, t) PROVE FALSE
  <2>1. script.at = "calling" /\ script.call = r
    BY <1>1 DEF ShownFacts, SoleAct
  <2>2. script.click.on = t /\ Waiting(script.call)
    BY <1>1, <2>1 DEF Acts, Waiting, LifeInvariant, CenterInvariant, Core, CallAwaited
  <2> QED
    BY <2>1, <2>2
<1>2. ~Written(t)
  BY DEF Written, Press
<1> QED
  BY <1>1, <1>2 DEF ShownFacts, CopiesAgree

\* The session goes on to where it waits for nothing, and what it shows then is
\* settled.
LEMMA SettledShown ==
    ASSUME ShownFacts, UNCHANGED <<checkpoint, req>>,
           script'.at \notin {"streaming", "calling"},
           \A t \in Tickets :
               Shown(t)' => /\ \A r \in Requests : ~Acts(r, t)
                            /\ Agree(seen'[t].state.values, checkpoint[t].values)
    PROVE  ShownFacts'
<1>1. \A r \in Requests, t \in Tickets : Acts(r, t)' = Acts(r, t)
  BY DEF Acts
<1>2. SoleAct' /\ BodyIsSo' /\ CopiesAgree'
  BY <1>1 DEF SoleAct, BodyIsSo, CopiesAgree
<1>3. ActBase'
  BY <1>1 DEF ShownFacts, ActBase
<1> QED
  BY <1>2, <1>3 DEF ShownFacts

LEMMA PauseShown ==
    ASSUME LifeInvariant, ShownFacts,
           \/ \E kind \in Kinds, t \in Tickets : Click(kind, t)
           \/ \E t \in Tickets : SubmitFails(t) \/ Select(t)
           \/ PassSidebar \/ ShowMap \/ ShowPanels \/ Refused \/ GiveUp
    PROVE  ShownFacts'
<1>1. UNCHANGED <<checkpoint, req, seen>>
  BY DEF Click, Start, SubmitFails, Select, PassSidebar, ShowMap, ShowPanels, Refused, GiveUp,
         vars
<1>2. script'.at \in {"idle", "sidebar", "map", "panels"}
  BY DEF Click, Start, SubmitFails, Select, PassSidebar, ShowMap, ShowPanels, Refused, GiveUp,
         Goes, Resting, Script
<1>3. ASSUME NEW t \in Tickets, Shown(t)'
      PROVE  /\ Shown(t)
             /\ \/ script.at # "calling" \/ script.click.on # t
                \/ ~Waiting(script.call) /\ ~Written(t)
  <2>1. CASE Refused
    <3>1. /\ unsure' = IF req[script.call].reply \in {"404", "502"} THEN unsure
                       ELSE unsure \cup {script.click.on}
          /\ ~Waiting(script.call)
      BY <2>1 DEF Refused
    <3>2. "read_state" \in Busy
      BY DEF Busy, ActionPCs
    <3>3. req[script.call].reply \in {"404", "502"} => ~Written(t)
      BY <3>1, <3>2 DEF Written, Waiting
    <3> QED
      BY <1>1, <1>3, <3>1, <3>3 DEF Shown
  <2>2. CASE GiveUp
    BY <1>1, <1>3, <2>2 DEF GiveUp, Shown
  <2>3. CASE ~Refused /\ ~GiveUp
    <3>1. script.at # "calling" /\ UNCHANGED unsure
      BY <2>3 DEF Click, Start, SubmitFails, Select, Pressed, PassSidebar, ShowMap, ShowPanels
    <3> QED
      BY <1>1, <1>3, <3>1 DEF Shown
  <2> QED
    BY <2>1, <2>2, <2>3
<1>4. ASSUME NEW t \in Tickets, Shown(t)'
      PROVE  /\ \A r \in Requests : ~Acts(r, t)
             /\ Agree(seen[t].state.values, checkpoint[t].values)
  BY <1>3, <1>4, SettledTicket
<1> QED
  BY <1>1, <1>2, <1>4, SettledShown

\* The done frame's state is the stored one, and nobody has acted on it yet.
LEMMA StreamEndShown ==
    ASSUME LifeInvariant, ShownFacts, EndStream \/ StreamTimesOut
    PROVE  ShownFacts'
<1>1. PICK t0 \in Tickets : t0 = selected /\ seen[t0].status = "pending"
  BY DEF EndStream, StreamTimesOut, LifeInvariant, CenterInvariant, Core, StreamAwaited
<1>2. /\ UNCHANGED <<checkpoint, req, unsure>> /\ script'.at = "panels"
      /\ script.at = "streaming" /\ req[script.call].ticket = t0
      /\ seen \in [Tickets -> Views] /\ checkpoint[t0].values \in States
  BY <1>1 DEF EndStream, StreamTimesOut, vars, Goes, Script, LifeInvariant, CenterInvariant, Core,
         StreamAwaited, CenterTypes, SessionTypeOK, ServiceInvariant, TypeOK, Threads
<1>3. \A t \in Tickets \ {t0} : seen'[t] = seen[t]
  BY <1>1, <1>2 DEF EndStream, StreamTimesOut
<1>4. Shown(t0)' =>
          /\ \A r \in Requests : ~Acts(r, t0)
          /\ Agree(seen'[t0].state.values, checkpoint[t0].values)
  <2>1. \A r \in Requests : ~Acts(r, t0)
    BY <1>1 DEF LifeInvariant, TicketFacts, ActsOnFinished
  <2>2. CASE EndStream /\ req[script.call].reply = "done"
    <3>1. seen'[t0].state = script.body
      BY <1>1, <1>2, <2>2 DEF EndStream, Views
    <3>2. t0 \notin unsure => script.body = checkpoint[t0]
      BY <1>2, <2>2 DEF ShownFacts, BodyIsSo
    <3>3. Agree(checkpoint[t0].values, checkpoint[t0].values)
      BY <1>2, AgreeWithItself
    <3> QED
      BY <1>2, <2>1, <3>1, <3>2, <3>3 DEF Shown
  <2>3. CASE StreamTimesOut \/ (EndStream /\ req[script.call].reply # "done")
    <3>1. seen'[t0].status = "error"
      BY <1>1, <1>2, <2>3 DEF EndStream, StreamTimesOut, Views
    <3> QED
      BY <3>1 DEF Shown
  <2> QED
    BY <2>2, <2>3
<1>5. ASSUME NEW t \in Tickets, t # t0, Shown(t)'
      PROVE  /\ \A r \in Requests : ~Acts(r, t)
             /\ Agree(seen'[t].state.values, checkpoint[t].values)
  <2>1. Shown(t) /\ seen'[t] = seen[t]
    BY <1>2, <1>3, <1>5 DEF Shown
  <2> QED
    BY <1>2, <2>1, SettledTicket
<1> QED
  BY <1>2, <1>4, <1>5, SettledShown

\* The answer to a modification is taken; of an approval and of a claim the
\* session keeps its copy, which they left alone but for the log.
LEMMA AcceptedShown ==
    ASSUME LifeInvariant, ShownFacts, Accepted
    PROVE  ShownFacts'
<1>1. PICK t0 \in Tickets : t0 = script.click.on
  BY DEF Accepted, LifeInvariant, CenterInvariant, Core, CallAwaited
<1>2. /\ UNCHANGED <<checkpoint, req, unsure>> /\ script'.at = "map"
      /\ script.at = "calling" /\ seen[t0].status = "done" /\ req[script.call].ticket = t0
      /\ req[script.call].reply = "200" /\ script.call \in Requests
      /\ script.click.kind \in {"approve", "modify", "claim"}
  BY <1>1, AwaitedTicket DEF Accepted, vars, Script, LifeInvariant, CenterInvariant, Core,
                             CallAwaited
<1>3. seen \in [Tickets -> Views] /\ checkpoint[t0].values \in States
  BY DEF LifeInvariant, CenterInvariant, CenterTypes, SessionTypeOK, ServiceInvariant, TypeOK,
         Threads
<1>4. ~Waiting(script.call)
  BY <1>2 DEF Waiting, LifeInvariant, TicketFacts, RequestFacts
<1>5. /\ \A t \in Tickets \ {t0} : seen'[t] = seen[t]
      /\ seen'[t0] = Taken(seen[t0], script.click.kind, script.body)
  BY <1>1, <1>3 DEF Accepted
<1>6. Shown(t0)' =>
          /\ \A r \in Requests : ~Acts(r, t0)
          /\ Agree(seen'[t0].state.values, checkpoint[t0].values)
  <2> SUFFICES ASSUME t0 \notin unsure
               PROVE  /\ \A r \in Requests : ~Acts(r, t0)
                      /\ Agree(seen'[t0].state.values, checkpoint[t0].values)
    BY <1>2 DEF Shown
  <2>1. Shown(t0)
    BY <1>2 DEF Shown
  <2>2. \A r \in Requests : ~Acts(r, t0)
    BY <1>4, <2>1 DEF ShownFacts, SoleAct, Acts, Waiting
  <2>3. CASE script.click.kind = "modify"
    <3>1. seen'[t0].state = script.body
      <4>1. seen[t0] \in Views
        BY <1>3
      <4> QED
        BY <1>5, <2>3, <4>1 DEF Taken, Views
    <3>2. script.body = checkpoint[t0]
      BY <1>2 DEF ShownFacts, BodyIsSo
    <3> QED
      BY <1>3, <2>2, <3>1, <3>2, AgreeWithItself
  <2>4. CASE script.click.kind # "modify"
    <3>1. seen'[t0].state = seen[t0].state
      <4>1. seen[t0] \in Views
        BY <1>3
      <4> QED
        BY <1>2, <1>5, <2>4, <4>1 DEF Taken, Views
    <3>2. ~Written(t0)
      BY <2>4 DEF Written, Press
    <3> QED
      BY <2>1, <2>2, <3>1, <3>2 DEF ShownFacts, CopiesAgree
  <2> QED
    BY <2>3, <2>4
<1>7. ASSUME NEW t \in Tickets, t # t0, Shown(t)'
      PROVE  /\ \A r \in Requests : ~Acts(r, t)
             /\ Agree(seen'[t].state.values, checkpoint[t].values)
  <2>1. Shown(t) /\ seen'[t] = seen[t]
    BY <1>2, <1>5, <1>7 DEF Shown
  <2> QED
    BY <1>1, <1>7, <2>1, SettledTicket
<1> QED
  BY <1>2, <1>6, <1>7, SettledShown

\* Nothing is shown of a new ticket, nor after a reload.
LEMMA SubmitShown ==
    ASSUME LifeInvariant, ShownFacts, NEW t \in Tickets, Submit(t)
    PROVE  ShownFacts'
<1>1. UNCHANGED <<checkpoint, req, unsure>> /\ script'.at = "map" /\ script.at = "sidebar"
  BY DEF Submit, CreateTicket, Pressed, Goes, Script
<1>2. /\ \A u \in Tickets \ {t} : seen'[u] = seen[u]
      /\ seen'[t] = seen[t] \/ seen'[t].status = "pending"
  BY DEF Submit, View, LifeInvariant, CenterInvariant, CenterTypes, SessionTypeOK
<1>3. ASSUME NEW u \in Tickets, Shown(u)'
      PROVE  /\ \A r \in Requests : ~Acts(r, u)
             /\ Agree(seen'[u].state.values, checkpoint[u].values)
  <2>1. Shown(u) /\ seen'[u] = seen[u]
    BY <1>1, <1>2, <1>3 DEF Shown
  <2> QED
    BY <1>1, <2>1, SettledTicket
<1> QED
  BY <1>1, <1>3, SettledShown

LEMMA ReloadShown ==
    ASSUME LifeInvariant, ShownFacts, Reload
    PROVE  ShownFacts'
<1>1. /\ UNCHANGED <<checkpoint, req>> /\ script'.at = "idle"
      /\ \A t \in Tickets : seen'[t].status = "unknown"
  BY DEF Reload, vars, Resting, Script, Unknown, View
<1> QED
  BY <1>1, SettledShown DEF Shown

\* A call is made on a settled ticket and has read nothing yet.
LEMMA CallShown ==
    ASSUME LifeInvariant, ShownFacts, OpenStream \/ Call
    PROVE  ShownFacts'
<1>1. PICK f \in Requests : f = Fresh /\ req[f].pc = "idle"
  BY FreshIsIdle DEF OpenStream, Call
<1>2. PICK op, t : Receive(f, op, t) /\ (OpenStream => op = "stream")
  BY <1>1 DEF OpenStream, Call
<1>3. /\ \A q \in Requests \ {f} : req'[q] = req[q]
      /\ req'[f].op = op /\ req'[f].ticket = t /\ req'[f].pc = "get" /\ req'[f].reply = "none"
      /\ UNCHANGED <<checkpoint, seen, unsure>>
  BY <1>2 DEF Receive, Idle, LifeInvariant, CenterInvariant, CenterTypes, ServiceInvariant, TypeOK,
              OpenStream, Call
<1>4. /\ script.at \in {"map", "panels"}
      /\ script'.call = f /\ (Call => script'.at = "calling")
  BY <1>1 DEF OpenStream, Call, LifeInvariant, CenterInvariant, CenterTypes, SessionTypeOK, Scripts
<1>5. \A u \in Tickets : Shown(u)' = Shown(u)
  BY <1>3 DEF Shown
<1>6. ASSUME NEW u \in Tickets, Shown(u)
      PROVE  /\ \A r \in Requests : ~Acts(r, u)
             /\ Agree(seen[u].state.values, checkpoint[u].values)
  BY <1>4, <1>6, SettledTicket
<1>7. \A q \in Requests, u \in Tickets :
          Acts(q, u)' /\ Shown(u)' => q = f /\ op # "stream"
  BY <1>3, <1>5, <1>6 DEF Acts
<1>8. SoleAct'
  BY <1>2, <1>4, <1>7 DEF SoleAct
<1>9. ActBase'
  BY <1>3, <1>7 DEF ShownFacts, ActBase
<1>10. BodyIsSo'
  BY <1>3, <1>4 DEF BodyIsSo
<1>11. CopiesAgree'
  BY <1>3, <1>5, <1>6 DEF CopiesAgree
<1> QED
  BY <1>8, <1>9, <1>10, <1>11 DEF ShownFacts

\* After a restart the answer to a call that was under way is lost.
LEMMA CrashShown ==
    ASSUME Durable, LifeInvariant, ShownFacts, ServiceCrash
    PROVE  ShownFacts'
<1>1. UNCHANGED <<checkpoint, seen, script, unsure>>
  <2>1. UNCHANGED <<seen, script, unsure>>
    BY Zenon DEF ServiceCrash, session
  <2>2. UNCHANGED checkpoint
    BY Zenon DEF ServiceCrash, Crash
  <2> QED
    BY <2>1, <2>2
<1>2. \A r \in Requests :
          /\ req'[r].pc \notin Busy /\ req'[r].ticket = req[r].ticket
          /\ req'[r].reply = IF req[r].pc \in Busy THEN "lost" ELSE req[r].reply
          /\ req[r].pc \notin Busy => req'[r] = req[r]
  BY CrashAnswers DEF ServiceCrash, LifeInvariant, CenterInvariant, CenterTypes, ServiceInvariant
<1>3. "rescore" \in Busy /\ "read_state" \in Busy
  BY DEF Busy, ActionPCs
<1>4. SoleAct' /\ ActBase'
  BY <1>2, <1>3 DEF SoleAct, ActBase, Acts
<1>5. BodyIsSo'
  BY <1>1, <1>2, AwaitedTicket DEF ShownFacts, BodyIsSo
<1>6. CopiesAgree'
  <2>1. ASSUME NEW t \in Tickets, Written(t) PROVE Written(t)'
    <3>1. script.call \in Requests /\ script.at = "calling"
      BY <2>1, AwaitedTicket DEF Written
    <3>2. CASE req[script.call].pc \in Busy
      BY <1>1, <1>2, <2>1, <3>1, <3>2 DEF Written
    <3>3. CASE req[script.call].pc \notin Busy
      BY <1>1, <1>2, <2>1, <3>1, <3>3 DEF Written
    <3> QED
      BY <3>2, <3>3
  <2> QED
    BY <1>1, <2>1 DEF ShownFacts, CopiesAgree, Shown
<1> QED
  BY <1>4, <1>5, <1>6 DEF ShownFacts

LEMMA InitShown == CenterInit => ShownFacts
<1> SUFFICES ASSUME CenterInit PROVE ShownFacts
  OBVIOUS
<1>1. /\ \A t \in Tickets : seen[t].status = "unknown"
      /\ script.at = "idle" /\ \A r \in Requests : req[r].pc = "idle"
  BY DEF CenterInit, Init, Idle, Unknown, View, Resting, Script
<1>2. "idle" \notin Busy
  BY DEF Busy, StreamPCs, RunPCs, ActionPCs
<1> QED
  BY <1>1, <1>2 DEF ShownFacts, SoleAct, ActBase, BodyIsSo, CopiesAgree, Shown, Acts

LEMMA InterruptShown ==
    ASSUME Durable, LifeInvariant, ShownFacts, NEW kind \in Kinds, NEW t \in Tickets,
           Interrupt(kind, t)
    PROVE  ShownFacts'
<1>1. script.at = "streaming" /\ script'.at = "sidebar" /\ UNCHANGED <<seen, unsure>>
  BY DEF Interrupt, Start, Script
<1>2. CASE UNCHANGED vars
  <2>1. ASSUME NEW u \in Tickets, Shown(u)'
        PROVE  /\ \A r \in Requests : ~Acts(r, u)
               /\ Agree(seen'[u].state.values, checkpoint[u].values)
    <3>1. Shown(u)
      BY <1>1, <2>1 DEF Shown
    <3> QED
      BY <1>1, <3>1, SettledTicket
  <2> QED
    BY <1>1, <1>2, <2>1, SettledShown DEF vars
<1>3. CASE Disconnect(script.call)
  <2>1. script.call \in Requests
    BY <1>1, AwaitedTicket
  <2> QED
    BY <1>1, <1>3, <2>1, ServiceShown
<1> QED
  BY <1>2, <1>3 DEF Interrupt

LEMMA ShownStep ==
    ASSUME Durable, LifeInvariant, ShownFacts, [CenterNext]_centerVars
    PROVE  ShownFacts'
<1>1. CASE UNCHANGED centerVars
  BY <1>1 DEF centerVars, session, vars, ShownFacts, SoleAct, ActBase, BodyIsSo, CopiesAgree,
              Shown, Acts, Written
<1>2. ASSUME \/ \E kind \in Kinds, t \in Tickets : Click(kind, t)
             \/ \E t \in Tickets : SubmitFails(t) \/ Select(t)
             \/ PassSidebar \/ ShowMap \/ ShowPanels \/ Refused \/ GiveUp
      PROVE  ShownFacts'
  BY <1>2, PauseShown
<1>3. ASSUME NEW r \in Requests, Serve(r) \/ HangUp(r)
      PROVE  ShownFacts'
  <2>1. (Step(r) \/ Disconnect(r)) /\ UNCHANGED <<seen, unsure>>
    BY <1>3 DEF Serve, HangUp, session
  <2>2. Carries(r) /\ script'.click = script.click
    <3>1. CASE HangUp(r)
      <4>1. req'[r].reply = "cancelled" /\ script' = script
        BY <3>1, AnswerTurn DEF HangUp, Disconnect, session, LifeInvariant, CenterInvariant,
                                CenterTypes, ServiceInvariant
      <4> QED
        BY <4>1 DEF Carries
    <3>2. CASE Serve(r)
      <4>1. script'.click = script.click
        <5>1. script \in Scripts
          BY DEF LifeInvariant, CenterInvariant, CenterTypes, SessionTypeOK
        <5> QED
          BY <3>2, <5>1 DEF Serve, Scripts
      <4> QED
        BY <3>2, <4>1, ServeCarries
    <3> QED
      BY <1>3, <3>1, <3>2
  <2> QED
    BY <2>1, <2>2, ServiceShown
<1> QED
  BY <1>1, <1>2, <1>3, InterruptShown, ReloadShown, SubmitShown, StreamEndShown, AcceptedShown,
     CallShown, CrashShown DEF CenterNext, ScriptStep

LEMMA ShownInvariance == ASSUME Durable PROVE CenterSpec => []ShownFacts
<1>1. LifeInvariant /\ ShownFacts /\ [CenterNext]_centerVars => ShownFacts'
  BY ShownStep
<1> QED
  BY <1>1, InitShown, LifeInvariance, PTL DEF CenterSpec

\* What the operator sees of a finished ticket is what a durable service stores,
\* up to log lines added since, unless the outcome of one of the session's calls on
\* it is unknown: whatever other clicks, faults and restarts there were
\* (agent_map.py:82, draft_panel.py:71).
THEOREM ShownStatesAreServed ==
    ASSUME Durable
    PROVE  CenterSpec => []ShownIsServed
<1>1. ShownFacts => ShownIsServed
  <2> SUFFICES ASSUME ShownFacts, NEW t \in Tickets \ unsure,
                      seen[t].status \in {"done", "closed"}, script.at # "calling"
               PROVE  Agree(seen[t].state.values, checkpoint[t].values)
    BY DEF ShownIsServed, Agree
  <2> QED
    BY DEF ShownFacts, CopiesAgree, Shown, Written
<1> QED
  BY <1>1, ShownInvariance, PTL

-----------------------------------------------------------------------------
(* What a session never makes the service do *)

FoundVerdicts(logs) == {logs[i] : i \in 1 .. Len(logs)} \cap Verdicts

\* What operators' calls leave alone of a thread: the verdict and what it is about.
SameReview(a, b) ==
    /\ a.complete = b.complete
    /\ a.values.intent = b.values.intent
    /\ a.values.requires_escalation = b.values.requires_escalation
    /\ a.values.retrieved_context = b.values.retrieved_context
    /\ FoundVerdicts(a.values.execution_logs) = FoundVerdicts(b.values.execution_logs)

\* The only stream of a ticket finds it as it has left it.
RunsKnow == \A r \in Requests, t \in Tickets : InStream(r, t) => KnowsTicket(r)

\* An operator's call may hold what another one has changed since, but nothing of
\* another run.
ActsFit ==
    \A r \in Requests, t \in Tickets :
        Acts(r, t) =>
            /\ req[r].pc = "put" => SameReview(req[r].state, checkpoint[t])
            /\ req[r].op = "claim" /\ req[r].pc \in {"read_base", "put"} =>
                   FoundVerdicts(req[r].logs)
                       = FoundVerdicts(checkpoint[t].values.execution_logs)

FinishedIsReviewed ==
    \A t \in Tickets : registry[t].status \in {"done", "closed"} => Terminal(checkpoint[t])

ReviewFacts == RunsKnow /\ ActsFit /\ FinishedIsReviewed /\ VerdictInvariant

\* What an operator's call reads and stores.
LEMMA ActReview ==
    ASSUME LifeInvariant, ShownFacts, ReviewFacts, NEW r \in Requests, NEW t \in Tickets,
           Acts(r, t), Step(r) \/ Disconnect(r)
    PROVE  /\ SameReview(checkpoint'[t], checkpoint[t])
           /\ req'[r].pc = "put" => SameReview(req'[r].state, checkpoint'[t])
           /\ req[r].op = "claim" /\ req'[r].pc \in {"read_base", "put"} =>
                  FoundVerdicts(req'[r].logs)
                      = FoundVerdicts(checkpoint'[t].values.execution_logs)
<1>1. /\ TypeOK /\ BusyOnTicket /\ req[r].ticket = t /\ req[r].op # "stream"
      /\ req[r].pc \in Busy /\ req[r].pc \notin StreamPCs
      /\ req \in [Requests -> RequestStates] /\ checkpoint[t].values \in States
      /\ req[r].state.values \in States
  BY DEF Acts, LifeInvariant, CenterInvariant, CenterTypes, ServiceInvariant, TypeOK, Threads,
         Core, OpTellsPC, RequestStates
<1>2. /\ req[r].pc = "put" => SameReview(req[r].state, checkpoint[t])
      /\ req[r].op = "claim" /\ req[r].pc \in {"read_base", "put"} =>
             FoundVerdicts(req[r].logs) = FoundVerdicts(checkpoint[t].values.execution_logs)
      /\ req[r].pc = "rescore" => req[r].op = "modify"
  BY DEF ReviewFacts, ActsFit, ShownFacts, ActBase
<1>3. ~NodeStep(r)
  <2>1. {"input", "classify", "worker", "supervisor"} \subseteq StreamPCs
    BY PCs
  <2> QED
    BY <1>1, <2>1 DEF NodeStep, RunInput, RunClassify, RunWorker, RunReview, At
<1>4. CASE UpdateReadsBase(r)
  <2>1. /\ req'[r].pc = "put" /\ req'[r].state = checkpoint[t] /\ req'[r].logs = req[r].logs
        /\ UNCHANGED checkpoint /\ req[r].pc = "read_base"
    BY <1>1, <1>4 DEF UpdateReadsBase, Thread, At, RequestStates
  <2> QED
    BY <1>2, <2>1 DEF SameReview
<1>5. CASE UpdatePuts(r)
  <2> DEFINE base == req[r].state
  <2>1. req'[r].pc = "read_state" /\ req[r].pc = "put"
    BY <1>1, <1>5 DEF UpdatePuts, At, RequestStates
  <2>2. ASSUME NEW values, checkpoint'[t] = Saved(base.complete, values),
               values.intent = base.values.intent,
               values.requires_escalation = base.values.requires_escalation,
               values.retrieved_context = base.values.retrieved_context,
               FoundVerdicts(values.execution_logs)
                   = FoundVerdicts(checkpoint[t].values.execution_logs)
        PROVE  SameReview(checkpoint'[t], checkpoint[t])
    BY <1>2, <2>1, <2>2 DEF SameReview, Saved
  <2>3. CASE req[r].op = "modify"
    <3>1. PICK score : checkpoint'[t] = Saved(base.complete, Edited(base.values, r, score))
      BY <1>1, <1>5, <2>3, PatchEffect
    <3> DEFINE values == Edited(base.values, r, score)
    <3>2. /\ values.intent = base.values.intent
          /\ values.requires_escalation = base.values.requires_escalation
          /\ values.retrieved_context = base.values.retrieved_context
          /\ values.execution_logs = base.values.execution_logs
      BY <1>1 DEF Edited, States
    <3> HIDE DEF values
    <3>3. FoundVerdicts(values.execution_logs)
              = FoundVerdicts(checkpoint[t].values.execution_logs)
      BY <1>2, <2>1, <3>2 DEF SameReview
    <3>4. checkpoint'[t] = Saved(base.complete, values)
      BY <3>1 DEF values
    <3> QED
      BY <2>1, <2>2, <3>2, <3>3, <3>4
  <2>4. CASE req[r].op = "claim"
    <3> DEFINE values == Claimed(base.values, req[r].logs)
    <3>1. checkpoint'[t] = Saved(base.complete, values)
      BY <1>1, <1>5, <2>4, PatchEffect
    <3>2. /\ values.intent = base.values.intent
          /\ values.requires_escalation = base.values.requires_escalation
          /\ values.retrieved_context = base.values.retrieved_context
          /\ values.execution_logs = req[r].logs
      BY <1>1 DEF Claimed, States
    <3> HIDE DEF values
    <3> QED
      BY <1>2, <2>1, <2>2, <2>4, <3>1, <3>2
  <2> QED
    BY <1>5, <2>3, <2>4 DEF UpdatePuts
<1>6. CASE ~UpdateReadsBase(r) /\ ~UpdatePuts(r)
  <2>1. UNCHANGED checkpoint /\ req'[r].pc # "put"
    BY <1>1, <1>3, <1>6, OtherSteps
  <2>2. ASSUME req[r].op = "claim", req'[r].pc = "read_base"
        PROVE  FoundVerdicts(req'[r].logs)
                   = FoundVerdicts(checkpoint[t].values.execution_logs)
    <3> DEFINE logs == checkpoint[t].values.execution_logs
    <3>1. ReadLogs(r)
      BY <1>1, <1>2, <2>2, ActPCs DEF Rescore, At
    <3>2. Thread(r).complete
      <4>1. CASE ~Thread(r).complete
        BY <1>1, <2>2, <3>1, <4>1, AnswerTurn DEF ReadLogs
      <4> QED
        BY <4>1
    <3>3. req'[r].logs = Append(logs, r)
      BY <1>1, <3>1, <3>2 DEF ReadLogs, Thread, RequestStates
    <3>4. logs \in Seq(LogLines) /\ r \in LogLines /\ r \notin Verdicts
      BY <1>1, RequestsAssumption DEF States, LogLines, LogTags, Verdicts
    <3> HIDE DEF logs
    <3>5. FoundVerdicts(Append(logs, r)) = FoundVerdicts(logs)
      BY <3>4 DEF FoundVerdicts
    <3> QED
      BY <3>3, <3>5 DEF logs
  <2> QED
    BY <2>1, <2>2 DEF SameReview
<1> QED
  BY <1>4, <1>5, <1>6

LEMMA ServiceReview ==
    ASSUME Durable, LifeInvariant, ShownFacts, ReviewFacts, NEW r \in Requests,
           Step(r) \/ Disconnect(r)
    PROVE  /\ RunsKnow' /\ ActsFit' /\ FinishedIsReviewed'
           /\ req[r].reply # "done" /\ req'[r].reply = "done" => HasVerdict(Thread(r).values)
<1> DEFINE t == req[r].ticket
<1>1. /\ ServiceInvariant /\ TypeOK /\ Turn(r) /\ t \in Tickets /\ req[r].pc \in Busy
  BY RequestSaves, RequestProceeds
     DEF LifeInvariant, CenterInvariant, CenterTypes, ServiceInvariant, Proceeds
<1>2. \A u \in Tickets \ {t} : registry'[u] = registry[u] /\ checkpoint'[u] = checkpoint[u]
  BY ElsewhereSame DEF LifeInvariant, CenterInvariant, CenterTypes
<1>3. \A q \in Requests, u \in Tickets : /\ Acts(q, u)' => Acts(q, u)
                                         /\ InStream(q, u)' => InStream(q, u)
  BY <1>1 DEF Turn, Acts, InStream
<1>4. CASE InStream(r, t)
  <2>1. KnowsTicket(r) /\ DoneCanBeReplayed
    BY <1>1, <1>4 DEF ReviewFacts, RunsKnow, FinishedIsReviewed, Terminal, DoneCanBeReplayed
  <2>2. SerialEffect(r)
    BY <1>1, <2>1, RequestSerial
  <2>3. /\ \A q \in Requests \ {r} : ~InStream(q, t)
        /\ \A q \in Requests : ~Acts(q, t)
    BY <1>1, <1>4 DEF LifeInvariant, CenterInvariant, Core, OneStream, TicketFacts,
                      ActsOnFinished
  <2>4. registry'[t].status # "closed"
    BY <1>1, <1>4, StreamHasEffect DEF StreamEffect
  <2>5. RunsKnow'
    <3> SUFFICES ASSUME NEW q \in Requests, NEW u \in Tickets, InStream(q, u)'
                 PROVE  KnowsTicket(q)'
      BY DEF RunsKnow
    <3>1. CASE q = r
      BY <2>2, <3>1 DEF SerialEffect
    <3>2. CASE q # r
      <4>1. InStream(q, u) /\ u # t /\ req'[q] = req[q] /\ req[q].ticket = u
        BY <1>1, <1>3, <2>3, <3>2 DEF Turn, InStream
      <4>2. KnowsTicket(q)
        BY <4>1 DEF ReviewFacts, RunsKnow
      <4> QED
        BY <1>2, <4>1, <4>2, KnowledgeKept
    <3> QED
      BY <3>1, <3>2
  <2>6. ActsFit'
    <3>1. \A q \in Requests, u \in Tickets :
              Acts(q, u)' => /\ Acts(q, u) /\ req'[q] = req[q]
                             /\ checkpoint'[u] = checkpoint[u]
      BY <1>1, <1>2, <1>3, <1>4, <2>3 DEF Turn, Acts, InStream
    <3> QED
      BY <3>1 DEF ReviewFacts, ActsFit
  <2>7. FinishedIsReviewed'
    BY <1>2, <2>2, <2>4 DEF SerialEffect, ReviewFacts, FinishedIsReviewed
  <2> QED
    BY <2>2, <2>5, <2>6, <2>7 DEF SerialEffect
<1>5. CASE Acts(r, t)
  <2>1. /\ SameReview(checkpoint'[t], checkpoint[t])
        /\ req'[r].pc = "put" => SameReview(req'[r].state, checkpoint'[t])
        /\ req[r].op = "claim" /\ req'[r].pc \in {"read_base", "put"} =>
               FoundVerdicts(req'[r].logs)
                   = FoundVerdicts(checkpoint'[t].values.execution_logs)
    BY <1>1, <1>5, ActReview
  <2>2. registry[t].status \in {"done", "closed"} /\ \A q \in Requests : ~InStream(q, t)
    BY <1>1, <1>5 DEF LifeInvariant, TicketFacts, ActsOnFinished
  <2>3. RunsKnow'
    <3> SUFFICES ASSUME NEW q \in Requests, NEW u \in Tickets, InStream(q, u)'
                 PROVE  KnowsTicket(q)'
      BY DEF RunsKnow
    <3>1. InStream(q, u) /\ u # t /\ q # r /\ req[q].ticket = u
      BY <1>3, <2>2 DEF InStream
    <3>2. KnowsTicket(q) /\ req'[q] = req[q]
      BY <1>1, <3>1 DEF Turn, ReviewFacts, RunsKnow
    <3> QED
      BY <1>2, <3>1, <3>2, KnowledgeKept
  <2>4. Terminal(checkpoint[t])
    BY <1>1, <2>2 DEF ReviewFacts, FinishedIsReviewed
  <2>5. Terminal(checkpoint'[t])
    <3>1. \A u : HasVerdict(u) <=> FoundVerdicts(u.execution_logs) # {}
      BY DEF HasVerdict, Lines, FoundVerdicts, Verdicts
    <3> QED
      BY <2>1, <2>4, <3>1 DEF SameReview, Terminal
  <2>6. FinishedIsReviewed'
    BY <1>2, <2>5 DEF ReviewFacts, FinishedIsReviewed
  <2>7. ActsFit'
    <3> SUFFICES ASSUME NEW q \in Requests, NEW u \in Tickets, Acts(q, u)'
                 PROVE  /\ req'[q].pc = "put" => SameReview(req'[q].state, checkpoint'[u])
                        /\ req'[q].op = "claim" /\ req'[q].pc \in {"read_base", "put"} =>
                               FoundVerdicts(req'[q].logs)
                                   = FoundVerdicts(checkpoint'[u].values.execution_logs)
      BY DEF ActsFit
    <3>1. Acts(q, u)
      BY <1>3
    <3>2. CASE q = r
      BY <1>1, <2>1, <3>1, <3>2 DEF Turn, Acts
    <3>3. CASE q # r
      <4>1. /\ req'[q] = req[q]
            /\ req[q].pc = "put" => SameReview(req[q].state, checkpoint[u])
            /\ req[q].op = "claim" /\ req[q].pc \in {"read_base", "put"} =>
                   FoundVerdicts(req[q].logs)
                       = FoundVerdicts(checkpoint[u].values.execution_logs)
        BY <1>1, <3>1, <3>3 DEF Turn, ReviewFacts, ActsFit
      <4>2. u # t => checkpoint'[u] = checkpoint[u]
        BY <1>2
      <4> QED
        BY <2>1, <4>1, <4>2 DEF SameReview
    <3> QED
      BY <3>2, <3>3
  <2> QED
    BY <2>3, <2>4, <2>6, <2>7 DEF Terminal, Thread
<1> QED
  BY <1>1, <1>4, <1>5 DEF InStream, Acts

\* A claim's marker is put into a log that fits the state it is stored with.
LEMMA ClaimsFit ==
    ASSUME LifeInvariant, ReviewFacts, NEW r \in Requests
    PROVE  ClaimFits(r)
<1> SUFFICES ASSUME req[r].pc = "put", req[r].op = "claim"
             PROVE  Coherent(Claimed(req[r].state.values, req[r].logs))
  BY DEF ClaimFits
<1> DEFINE s == checkpoint[req[r].ticket].values
           b == req[r].state.values
           u == Claimed(b, req[r].logs)
<1>1. Acts(r, req[r].ticket) /\ req[r].ticket \in Tickets
  BY DEF Acts, Busy, ActionPCs, LifeInvariant, CenterInvariant, CenterTypes, ServiceInvariant,
         BusyOnTicket
<1>2. b \in States
  BY DEF LifeInvariant, CenterInvariant, CenterTypes, ServiceInvariant, TypeOK, RequestStates,
         Threads
<1>3. /\ u.intent = s.intent /\ u.requires_escalation = s.requires_escalation
      /\ u.retrieved_context = s.retrieved_context
      /\ FoundVerdicts(u.execution_logs) = FoundVerdicts(s.execution_logs)
  <2>1. /\ u.intent = b.intent /\ u.requires_escalation = b.requires_escalation
        /\ u.retrieved_context = b.retrieved_context /\ u.execution_logs = req[r].logs
    BY <1>2 DEF Claimed, States
  <2> HIDE DEF u
  <2> QED
    BY <1>1, <2>1 DEF ReviewFacts, ActsFit, SameReview
<1>4. Coherent(s)
  BY <1>1 DEF ReviewFacts, VerdictInvariant, VerdictMatchesState, Coherent
<1> HIDE DEF s, u
<1>5. ASSUME NEW w
      PROVE  /\ HasVerdict(w) <=> FoundVerdicts(w.execution_logs) # {}
             /\ \A l \in Verdicts : l \in Lines(w) <=> l \in FoundVerdicts(w.execution_logs)
  BY DEF HasVerdict, Lines, FoundVerdicts, Verdicts
<1>6. /\ HasVerdict(u) <=> HasVerdict(s)
      /\ \A l \in Verdicts : l \in Lines(u) <=> l \in Lines(s)
  BY <1>3, <1>5
<1>7. Coherent(u)
  BY <1>3, <1>4, <1>6 DEF Coherent, Verdicts
<1> QED
  BY <1>7 DEF u

LEMMA InitReview == CenterInit => ReviewFacts
<1> SUFFICES ASSUME CenterInit PROVE ReviewFacts
  OBVIOUS
<1>1. /\ \A r \in Requests : req[r].pc = "idle"
      /\ \A t \in Tickets : registry[t].status = "absent"
  BY DEF CenterInit, Init, Idle, Absent, Record
<1>2. "idle" \notin Busy
  BY DEF Busy, StreamPCs, RunPCs, ActionPCs
<1>3. VerdictInvariant
  BY InitVerdict DEF CenterInit
<1> QED
  BY <1>1, <1>2, <1>3 DEF ReviewFacts, RunsKnow, ActsFit, FinishedIsReviewed, InStream, Acts

LEMMA ReviewStep ==
    ASSUME Durable, LifeInvariant, ShownFacts, ReviewFacts, [CenterNext]_centerVars
    PROVE  ReviewFacts'
<1>1. [Next]_vars /\ ServiceInvariant
  BY CenterStepServes DEF LifeInvariant, CenterInvariant, CenterTypes
<1>2. VerdictInvariant'
  BY <1>1, ClaimsFit, VerdictStep DEF ReviewFacts
<1>3. ASSUME \A q \in Requests : req'[q].pc \notin Busy \/ req'[q].pc = "get" \/ req'[q] = req[q],
             \A q \in Requests : req'[q] = req[q] /\ req[q].pc \in Busy =>
                 /\ checkpoint'[req[q].ticket] = checkpoint[req[q].ticket]
                 /\ registry'[req[q].ticket] = registry[req[q].ticket],
             UNCHANGED checkpoint,
             \A t \in Tickets : registry'[t] = registry[t] \/ registry'[t].status = "pending"
      PROVE  ReviewFacts'
  <2>1. RunsKnow'
    <3> SUFFICES ASSUME NEW q \in Requests, NEW t \in Tickets, InStream(q, t)'
                 PROVE  KnowsTicket(q)'
      BY DEF RunsKnow
    <3>1. CASE req'[q].pc = "get"
      BY <3>1, KnownPCsAreBusy DEF KnowsTicket
    <3>2. CASE req'[q] = req[q]
      <4>1. InStream(q, t)
        BY <3>2 DEF InStream
      <4> QED
        BY <1>3, <3>2, <4>1, KnowledgeKept DEF ReviewFacts, RunsKnow
    <3> QED
      BY <1>3, <3>1, <3>2 DEF InStream
  <2>2. ActsFit'
    <3>1. \A q \in Requests, t \in Tickets :
              Acts(q, t)' => req'[q].pc = "get" \/ (Acts(q, t) /\ req'[q] = req[q])
      BY <1>3 DEF Acts
    <3> QED
      BY <1>3, <3>1 DEF ReviewFacts, ActsFit
  <2>3. FinishedIsReviewed'
    BY <1>3 DEF ReviewFacts, FinishedIsReviewed
  <2> QED
    BY <1>2, <2>1, <2>2, <2>3 DEF ReviewFacts
<1>4. ASSUME NEW r \in Requests, Step(r) \/ Disconnect(r) PROVE ReviewFacts'
  BY <1>2, <1>4, ServiceReview DEF ReviewFacts
<1>5. ASSUME NEW r \in Requests, NEW op \in Ops, NEW t \in Tickets, Receive(r, op, t)
      PROVE  ReviewFacts'
  <2>1. /\ \A q \in Requests \ {r} : req'[q] = req[q]
        /\ req'[r].pc = "get" /\ UNCHANGED <<registry, checkpoint>>
    BY <1>1, <1>5 DEF Receive, ServiceInvariant, TypeOK, Idle
  <2> QED
    BY <1>3, <2>1
<1>6. ASSUME NEW t \in Tickets, CreateTicket(t) PROVE ReviewFacts'
  <2>1. /\ UNCHANGED <<checkpoint, req>> /\ registry'[t].status = "pending"
        /\ \A u \in Tickets \ {t} : registry'[u] = registry[u]
    BY <1>1, <1>6 DEF CreateTicket, Record, ServiceInvariant, TypeOK
  <2>2. \A q \in Requests : req[q].pc \in Busy => req[q].ticket \in Tickets \ {t}
    BY <1>1, <1>6 DEF CreateTicket, ServiceInvariant, BusyOnTicket, LifeInvariant,
                      CenterInvariant, Core, KnownIsRegistered
  <2> QED
    BY <1>3, <2>1, <2>2
<1>7. CASE Crash
  <2>1. \A q \in Requests : req'[q].pc \notin Busy
    BY <1>1, <1>7, CrashAnswers DEF ServiceInvariant
  <2>2. UNCHANGED <<registry, checkpoint>>
    BY <1>7, Zenon DEF Crash
  <2> QED
    BY <1>3, <2>1, <2>2
<1>8. CASE UNCHANGED vars
  BY <1>3, <1>8 DEF vars
<1> QED
  BY <1>1, <1>4, <1>5, <1>6, <1>7, <1>8 DEF Next

LEMMA ReviewInvariance ==
    ASSUME Durable PROVE CenterSpec => [](LifeInvariant /\ ShownFacts /\ ReviewFacts)
<1>1. LifeInvariant /\ ShownFacts /\ ReviewFacts /\ [CenterNext]_centerVars => ReviewFacts'
  BY ReviewStep
<1> QED
  BY <1>1, InitReview, LifeInvariance, ShownInvariance, PTL DEF CenterSpec

\* Whatever the clicks, faults and restarts, a ticket of one session that is done
\* in a durable registry has a reviewed thread to replay: the session never lets
\* a second run start over it (main.py:174, 185, agent_map.py:83).
THEOREM SessionTicketsCanBeReplayed ==
    ASSUME Durable
    PROVE  CenterSpec => []DoneCanBeReplayed
<1>1. ReviewFacts => DoneCanBeReplayed
  BY DEF ReviewFacts, FinishedIsReviewed, DoneCanBeReplayed, Terminal
<1> QED
  BY <1>1, ReviewInvariance, PTL

\* And the verdict in its log is that of its state: two operator calls of the
\* session may overlap after a timeout, but never one and a run (main.py:275).
THEOREM SessionVerdicts ==
    ASSUME Durable
    PROVE  CenterSpec => []VerdictMatchesState
<1>1. ReviewFacts => VerdictMatchesState
  BY DEF ReviewFacts, VerdictInvariant
<1> QED
  BY <1>1, ReviewInvariance, PTL

\* And every done frame the service sends the session carries a reviewed state
\* (main.py:131, 173).
THEOREM SessionDoneFrames ==
    ASSUME Durable
    PROVE  CenterSpec => DoneFrameIsTerminal
<1> DEFINE Told == \A r \in Requests :
                       req[r].reply # "done" /\ req'[r].reply = "done" =>
                           HasVerdict(Thread(r).values)
<1>1. LifeInvariant /\ ShownFacts /\ ReviewFacts /\ [CenterNext]_centerVars => [Told]_vars
  <2> SUFFICES ASSUME LifeInvariant, ShownFacts, ReviewFacts, [CenterNext]_centerVars
               PROVE  [Told]_vars
    OBVIOUS
  <2>1. [Next]_vars /\ ServiceInvariant
    BY CenterStepServes DEF LifeInvariant, CenterInvariant, CenterTypes
  <2>2. ASSUME NEW r \in Requests, Step(r) \/ Disconnect(r) PROVE Told
    <3>1. Turn(r)
      BY <2>1, <2>2, RequestProceeds DEF ServiceInvariant, Proceeds
    <3> QED
      BY <2>2, <3>1, ServiceReview DEF Turn
  <2>3. CASE \E t \in Tickets : CreateTicket(t)
    BY <2>3 DEF CreateTicket
  <2>4. ASSUME NEW r \in Requests, NEW op \in Ops, NEW t \in Tickets, Receive(r, op, t)
        PROVE  Told
    <3>1. req'[r].reply = "none" /\ \A q \in Requests \ {r} : req'[q] = req[q]
      BY <2>1, <2>4 DEF Receive, ServiceInvariant, TypeOK, Idle
    <3> QED
      BY <3>1
  <2>5. CASE Crash
    <3>1. \A q \in Requests : req'[q].reply = IF req[q].pc \in Busy THEN "lost" ELSE req[q].reply
      BY <2>1, <2>5, CrashAnswers DEF ServiceInvariant
    <3> QED
      BY <3>1
  <2> QED
    BY <2>1, <2>2, <2>3, <2>4, <2>5 DEF Next
<1> QED
  BY <1>1, ReviewInvariance, PTL DEF CenterSpec, DoneFrameIsTerminal
=============================================================================
