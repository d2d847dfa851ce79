-------------------------- MODULE OpsCenterProofs --------------------------
(***************************************************************************)
(* OpsCenter over a durable service, for any number of tickets, requests   *)
(* and clicks and any faults: the session drives the service only through  *)
(* its operations, a ticket is run by one request at a time, and what the  *)
(* session shows as closed is closed and approved in the registry.         *)
(***************************************************************************)
EXTENDS OpsCenter, TicketServiceProofs

-----------------------------------------------------------------------------
(* The session drives the service through its operations only *)

CenterTypes == ServiceInvariant /\ SessionTypeOK

LEMMA FreshIsIdle ==
    ASSUME Unused # {}
    PROVE  Fresh \in Requests /\ req[Fresh].pc = "idle"
BY DEF Unused, Fresh, At

LEMMA OfferedClick ==
    ASSUME CenterTypes, Offered(script.click.kind, script.click.on)
    PROVE  /\ script.click.kind \in {"approve", "modify", "claim"}
           /\ script.click.on \in Tickets
BY DEF Offered, CenterTypes, SessionTypeOK, Scripts, Presses, NoClick, Press

\* Every step of the composition is one of the service or leaves it alone.
LEMMA CenterStepServes ==
    ASSUME CenterTypes, [CenterNext]_centerVars
    PROVE  [Next]_vars
<1>1. CASE UNCHANGED centerVars
  BY <1>1 DEF centerVars
<1>2. ASSUME NEW kind \in Kinds, NEW t \in Tickets, Click(kind, t) \/ Interrupt(kind, t)
      PROVE  [Next]_vars
  <2>1. CASE UNCHANGED vars
    BY <2>1
  <2>2. CASE script.at = "streaming" /\ Disconnect(script.call)
    <3>1. script.call \in Requests
      BY <2>2 DEF CenterTypes, SessionTypeOK, Scripts
    <3> QED
      BY <2>2, <3>1 DEF Next
  <2> QED
    BY <1>2, <2>1, <2>2 DEF Click, Interrupt
<1>3. CASE OpenStream
  <2>1. selected \in Tickets /\ "stream" \in Ops
    BY <1>3, SessionOpsAssumption DEF OpenStream, Drives, CenterTypes, SessionTypeOK
  <2>2. Fresh \in Requests
    BY <1>3, FreshIsIdle DEF OpenStream
  <2> QED
    BY <1>3, <2>1, <2>2 DEF OpenStream, Next
<1>4. CASE Call
  <2>1. script.click.kind \in Ops /\ script.click.on \in Tickets
    BY <1>4, OfferedClick, SessionOpsAssumption DEF Call
  <2>2. Fresh \in Requests
    BY <1>4, FreshIsIdle DEF Call
  <2> QED
    BY <1>4, <2>1, <2>2 DEF Call, Next
<1>5. CASE \E t \in Tickets : Submit(t)
  BY <1>5 DEF Submit, Next
<1>6. CASE \E t \in Tickets : SubmitFails(t) \/ Select(t)
  BY <1>6 DEF SubmitFails, Select
<1>7. CASE PassSidebar \/ ShowMap \/ EndStream \/ StreamTimesOut \/ ShowPanels
           \/ Accepted \/ Refused \/ GiveUp \/ Reload
  BY <1>7 DEF PassSidebar, ShowMap, EndStream, StreamTimesOut, ShowPanels, Accepted, Refused,
              GiveUp, Reload
<1>8. CASE \E r \in Requests : Serve(r) \/ HangUp(r)
  BY <1>8 DEF Serve, HangUp, Next
<1>9. CASE ServiceCrash
  BY <1>9 DEF ServiceCrash, Next
<1> QED
  BY <1>1, <1>2, <1>3, <1>4, <1>5, <1>6, <1>7, <1>8, <1>9 DEF CenterNext, ScriptStep

-----------------------------------------------------------------------------
(* Types *)

LEMMA ScriptType ==
    ASSUME NEW at \in Places, NEW click \in Presses
    PROVE  /\ Script(at, click) \in Scripts
           /\ at \notin {"streaming", "calling"} =>
                  (Script(at, click).at \in {"streaming", "calling"}
                       <=> Script(at, click).call # "none")
BY EmptyThreadType DEF Script, Scripts

LEMMA RestingType ==
    /\ Resting \in Scripts
    /\ Resting.at \in {"streaming", "calling"} <=> Resting.call # "none"
<1>1. NoClick \in Presses /\ "idle" \in Places
  BY DEF Presses, Places
<1> QED
  BY <1>1, ScriptType DEF Resting

LEMMA GoesType ==
    ASSUME SessionTypeOK, NEW at \in Places \ {"streaming", "calling"}, Goes(at)
    PROVE  script' \in Scripts /\ (script'.at \in {"streaming", "calling"} <=> script'.call # "none")
<1>1. script.click \in Presses
  BY DEF SessionTypeOK, Scripts
<1> QED
  BY <1>1, ScriptType DEF Goes

LEMMA ViewType ==
    ASSUME NEW status \in SessionStatuses, NEW state \in Threads, NEW claimed \in BOOLEAN
    PROVE  View(status, state, claimed) \in Views
BY DEF View, Views

\* The steps of the session that leave the service alone.
LEMMA SessionStepTypes ==
    ASSUME SessionTypeOK, script.at = "calling" => script.click.on \in Tickets,
           \/ \E kind \in Kinds, t \in Tickets : Start(kind, t)
           \/ Reload
           \/ \E t \in Tickets : Submit(t) \/ SubmitFails(t) \/ Select(t)
           \/ PassSidebar \/ ShowMap \/ EndStream \/ StreamTimesOut
           \/ ShowPanels \/ Accepted \/ Refused \/ GiveUp
    PROVE  SessionTypeOK'
<1> USE DEF SessionTypeOK
<1>1. {"sidebar", "map", "panels"} \subseteq Places \ {"streaming", "calling"}
  BY DEF Places
<1>2. /\ {"unknown", "pending", "done", "error", "closed"} \subseteq SessionStatuses
      /\ EmptyThread \in Threads /\ script.body \in Threads
  BY EmptyThreadType DEF SessionStatuses, Scripts
<1>3. Unknown \in Views /\ View("pending", EmptyThread, FALSE) \in Views
  BY <1>2, ViewType DEF Unknown
<1>4. ASSUME clicks < MaxClicks, clicks' = clicks + 1
      PROVE  clicks' \in 0 .. MaxClicks
  BY <1>4, ClicksAssumption
<1>5. ASSUME NEW kind \in Kinds, NEW t \in Tickets, Start(kind, t)
      PROVE  SessionTypeOK'
  <2>1. Press(kind, t) \in Presses
    BY DEF Press, Presses
  <2> QED
    BY <1>1, <1>4, <1>5, <2>1, ScriptType DEF Start, Clickable
<1>6. CASE Reload
  BY <1>3, <1>4, <1>6, RestingType DEF Reload
<1>7. ASSUME NEW t \in Tickets, Submit(t) \/ SubmitFails(t) \/ Select(t)
      PROVE  SessionTypeOK'
  BY <1>1, <1>3, <1>7, GoesType DEF Submit, SubmitFails, Select
<1>8. CASE PassSidebar \/ ShowMap
  BY <1>1, <1>8, GoesType DEF PassSidebar, ShowMap
<1>9. CASE EndStream \/ StreamTimesOut
  <2>1. seen' \in [Tickets -> Views]
    BY <1>2, <1>9 DEF EndStream, StreamTimesOut, Views
  <2> QED
    BY <1>1, <1>9, <2>1, GoesType DEF EndStream, StreamTimesOut
<1>10. CASE ShowPanels
  BY <1>10, RestingType DEF ShowPanels
<1>11. CASE Refused \/ GiveUp
  BY <1>11, RestingType DEF Refused, GiveUp
<1>12. CASE Accepted
  <2>1. \A view \in Views : Taken(view, script.click.kind, script.body) \in Views
    BY <1>2 DEF Taken, Views
  <2>2. seen' \in [Tickets -> Views]
    BY <1>12, <2>1 DEF Accepted
  <2>3. NoClick \in Presses
    BY DEF Presses
  <2> QED
    BY <1>1, <1>12, <2>2, <2>3, ScriptType DEF Accepted
<1> QED
  BY <1>5, <1>6, <1>7, <1>8, <1>9, <1>10, <1>11, <1>12

-----------------------------------------------------------------------------
(* The inductive invariant *)

InStream(r, t) == /\ req[r].op = "stream" /\ req[r].ticket = t
                  /\ req[r].pc \in Busy

\* The operation of a request tells where it can be.
OpTellsPC ==
    \A r \in Requests :
        /\ req[r].pc \in StreamPCs => req[r].op = "stream"
        /\ req[r].op = "approve" /\ req[r].pc \in Busy => req[r].pc \in {"get", "close"}

\* Whatever the session or a request knows of is in the durable registry.
KnownIsRegistered ==
    /\ \A t \in Tickets : seen[t].status # "unknown" => Registered(t)
    /\ \A r \in Requests : req[r].pc \in Busy => Registered(req[r].ticket)

\* A draft is shown of a finished ticket only.
DraftMeansDone ==
    \A t \in Tickets : seen[t].state.complete => seen[t].status \in {"done", "closed"}

\* What the script waits for.
StreamAwaited ==
    script.at = "streaming" =>
        /\ selected \in Tickets /\ seen[selected].status = "pending"
        /\ req[script.call].op = "stream" /\ req[script.call].ticket = selected

CallAwaited ==
    script.at = "calling" =>
        /\ script.click.kind \in {"approve", "modify", "claim"}
        /\ script.click.on \in Tickets /\ seen[script.click.on].status = "done"
        /\ req[script.call].op = script.click.kind
        /\ req[script.call].ticket = script.click.on
        /\ script.click.kind = "approve" /\ req[script.call].reply = "200" =>
               registry[script.click.on] = Record("closed", TRUE)

\* Nobody runs a ticket the session shows as done or closed, and a pending one
\* is run by the stream on the screen only.
StreamsAreWatched ==
    \A t \in Tickets, r \in Requests :
        InStream(r, t) /\ seen[t].status \in {"pending", "done", "closed"} =>
            seen[t].status = "pending" /\ script.at = "streaming" /\ script.call = r

OneStream ==
    \A t \in Tickets, r, s \in Requests : InStream(r, t) /\ InStream(s, t) => r = s

Core == /\ OpTellsPC /\ KnownIsRegistered /\ DraftMeansDone
        /\ StreamAwaited /\ CallAwaited
        /\ StreamsAreWatched /\ OneStream /\ ClosedInSessionIsClosed

CenterInvariant == CenterTypes /\ Core

\* The parts that speak of the service alone do not change with the session.
LEMMA ServiceSame ==
    ASSUME Core, UNCHANGED <<registry, req>>
    PROVE  OpTellsPC' /\ OneStream' /\ \A r, t : InStream(r, t)' = InStream(r, t)
BY DEF Core, OpTellsPC, OneStream, InStream

\* A step of the session that leaves what it has seen alone, and waits for
\* nothing afterwards, must not leave a stream behind.
LEMMA MoveOn ==
    ASSUME Core, UNCHANGED <<registry, req, seen>>,
           script'.at \notin {"streaming", "calling"},
           script.at # "streaming" \/ ~Waiting(script.call)
    PROVE  Core'
<1>1. StreamsAreWatched'
  BY ServiceSame DEF Core, StreamsAreWatched, InStream, Waiting
<1>2. KnownIsRegistered' /\ DraftMeansDone' /\ ClosedInSessionIsClosed'
  BY DEF Core, KnownIsRegistered, Registered, DraftMeansDone, ClosedInSessionIsClosed
<1>3. StreamAwaited' /\ CallAwaited'
  BY DEF StreamAwaited, CallAwaited
<1> QED
  BY <1>1, <1>2, <1>3, ServiceSame DEF Core

LEMMA QuietSessionCore ==
    ASSUME CenterTypes, Core,
           \/ \E kind \in Kinds, t \in Tickets : Click(kind, t)
           \/ \E t \in Tickets : SubmitFails(t) \/ Select(t)
           \/ PassSidebar \/ ShowMap \/ ShowPanels \/ Refused \/ GiveUp
    PROVE  Core'
<1>1. UNCHANGED <<registry, req, seen>>
  BY DEF Click, Start, SubmitFails, Select, PassSidebar, ShowMap, ShowPanels, Refused, GiveUp,
         vars
<1>2. script'.at \in {"idle", "sidebar", "map", "panels"}
  BY DEF Click, Start, SubmitFails, Select, PassSidebar, ShowMap, ShowPanels, Refused, GiveUp,
         Goes, Resting, Script
<1>3. script.at # "streaming"
  BY DEF Click, Start, SubmitFails, Select, Pressed, PassSidebar, ShowMap, ShowPanels, Refused,
         GiveUp
<1> QED
  BY <1>1, <1>2, <1>3, MoveOn

LEMMA ReloadCore ==
    ASSUME CenterTypes, Core, Reload
    PROVE  Core'
<1>1. UNCHANGED <<registry, req>> /\ script'.at = "idle"
  BY DEF Reload, vars, Resting, Script
<1>2. \A t \in Tickets : seen'[t].status = "unknown" /\ seen'[t].state.complete = FALSE
  BY DEF Reload, Unknown, View, EmptyThread, Saved
<1>3. /\ KnownIsRegistered' /\ DraftMeansDone' /\ ClosedInSessionIsClosed'
      /\ StreamsAreWatched'
  BY <1>1, <1>2 DEF Core, KnownIsRegistered, Registered, DraftMeansDone,
                    ClosedInSessionIsClosed, StreamsAreWatched
<1>4. StreamAwaited' /\ CallAwaited'
  BY <1>1 DEF StreamAwaited, CallAwaited
<1> QED
  BY <1>1, <1>3, <1>4, ServiceSame DEF Core

\* The record of the selected ticket changes from pending to the stream's result.
LEMMA StreamEndCore ==
    ASSUME CenterTypes, Core, EndStream \/ StreamTimesOut
    PROVE  Core'
<1>1. /\ script.at = "streaming" /\ selected \in Tickets
      /\ seen[selected].status = "pending" /\ ~seen[selected].state.complete
      /\ req[script.call].op = "stream" /\ req[script.call].ticket = selected
  BY DEF EndStream, StreamTimesOut, Core, StreamAwaited, DraftMeansDone
<1>2. UNCHANGED <<registry, req>> /\ script'.at = "panels"
  BY DEF EndStream, StreamTimesOut, vars, Goes, Script
<1>3. \A t \in Tickets \ {selected} : seen'[t] = seen[t]
  BY DEF EndStream, StreamTimesOut, CenterTypes, SessionTypeOK
<1>4. /\ seen'[selected].state.complete => seen'[selected].status = "done"
      /\ \/ seen'[selected].status = "error"
         \/ seen'[selected].status = "done" /\ ~Waiting(script.call)
  <2>1. seen \in [Tickets -> Views]
    BY DEF CenterTypes, SessionTypeOK
  <2>2. CASE EndStream /\ req[script.call].reply = "done"
    BY <1>1, <2>1, <2>2 DEF EndStream, Views
  <2>3. CASE StreamTimesOut \/ (EndStream /\ req[script.call].reply # "done")
    BY <1>1, <2>1, <2>3 DEF EndStream, StreamTimesOut, Views
  <2> QED
    BY <2>2, <2>3
<1>5. DraftMeansDone' /\ KnownIsRegistered' /\ ClosedInSessionIsClosed'
  BY <1>1, <1>2, <1>3, <1>4
     DEF Core, DraftMeansDone, KnownIsRegistered, Registered, ClosedInSessionIsClosed
<1>6. StreamsAreWatched'
  <2>1. \A t \in Tickets \ {selected}, r \in Requests :
            ~(InStream(r, t) /\ seen[t].status \in {"pending", "done", "closed"})
    BY <1>1 DEF Core, StreamsAreWatched, InStream
  <2>2. \A r \in Requests : InStream(r, selected) => Waiting(script.call)
    BY <1>1 DEF Core, StreamsAreWatched, InStream, Waiting
  <2> QED
    BY <1>2, <1>3, <1>4, <2>1, <2>2, ServiceSame DEF StreamsAreWatched
<1>7. StreamAwaited' /\ CallAwaited'
  BY <1>2 DEF StreamAwaited, CallAwaited
<1> QED
  BY <1>2, <1>5, <1>6, <1>7, ServiceSame DEF Core

\* An accepted call: the record was done, and if it was an approval the registry
\* says so.
LEMMA AcceptedCore ==
    ASSUME CenterTypes, Core, Accepted
    PROVE  Core'
<1> DEFINE on == script.click.on
           view == Taken(seen[on], script.click.kind, script.body)
<1>1. /\ script.at = "calling" /\ on \in Tickets /\ seen[on].status = "done"
      /\ script.click.kind = "approve" => registry[on] = Record("closed", TRUE)
  BY DEF Accepted, Core, CallAwaited
<1>2. UNCHANGED <<registry, req>> /\ script'.at = "map"
  BY DEF Accepted, vars, Script
<1>3. /\ view.status \in {"done", "closed"}
      /\ view.status = "closed" => script.click.kind = "approve"
  <2>1. seen[on] \in Views
    BY <1>1 DEF CenterTypes, SessionTypeOK
  <2> QED
    BY <1>1, <2>1 DEF Taken, Views
<1>4. seen' = [seen EXCEPT ![on] = view]
  BY DEF Accepted
<1>5. PICK t0 \in Tickets : t0 = on
  BY <1>1
<1>6. PICK v0 : v0 = view
  OBVIOUS
<1> HIDE DEF on, view
<1>7. seen'[t0] = v0 /\ \A t \in Tickets \ {t0} : seen'[t] = seen[t]
  BY <1>4, <1>5, <1>6 DEF CenterTypes, SessionTypeOK
<1>8. ClosedInSessionIsClosed' /\ DraftMeansDone' /\ KnownIsRegistered'
  BY <1>1, <1>2, <1>3, <1>5, <1>6, <1>7
     DEF Core, ClosedInSessionIsClosed, DraftMeansDone, KnownIsRegistered, Registered
<1>9. StreamsAreWatched'
  BY <1>1, <1>2, <1>3, <1>5, <1>6, <1>7, ServiceSame DEF Core, StreamsAreWatched, InStream
<1>10. StreamAwaited' /\ CallAwaited'
  BY <1>2 DEF StreamAwaited, CallAwaited
<1> QED
  BY <1>2, <1>8, <1>9, <1>10, ServiceSame DEF Core

\* A new ticket is in nobody's hands.
LEMMA SubmitCore ==
    ASSUME CenterTypes, Core, NEW t \in Tickets, Submit(t)
    PROVE  Core'
<1>1. /\ ~Registered(t)
      /\ registry' = [registry EXCEPT ![t] = Record("pending", FALSE)]
      /\ UNCHANGED req
  BY DEF Submit, CreateTicket
<1>2. /\ seen[t].status = "unknown"
      /\ \A r \in Requests : req[r].pc \in Busy => req[r].ticket # t
  BY <1>1 DEF Core, KnownIsRegistered
<1>3. script.at = "sidebar" /\ script'.at = "map"
  BY DEF Submit, Pressed, Goes, Script
<1>4. /\ Registered(t)' /\ \A u \in Tickets \ {t} : registry'[u] = registry[u]
      /\ \A u \in Tickets : Registered(u) => Registered(u)'
  BY <1>1 DEF Registered, Record, CenterTypes, ServiceInvariant, TypeOK
<1>5. /\ \A u \in Tickets \ {t} : seen'[u] = seen[u]
      /\ seen'[t].status \in {"unknown", "pending"}
      /\ seen'[t].state.complete => seen[t].state.complete
  <2>1. CASE UNCHANGED seen
    BY <1>2, <2>1
  <2>2. CASE seen' = [seen EXCEPT ![t] = View("pending", EmptyThread, FALSE)]
    BY <2>2 DEF View, EmptyThread, Saved, CenterTypes, SessionTypeOK
  <2> QED
    BY <2>1, <2>2 DEF Submit
<1>6. KnownIsRegistered' /\ DraftMeansDone' /\ ClosedInSessionIsClosed'
  <2>1. \A r \in Requests : req[r].pc \in Busy => req[r].ticket \in Tickets
    BY DEF CenterTypes, ServiceInvariant, BusyOnTicket
  <2> QED
    BY <1>1, <1>2, <1>4, <1>5, <2>1
       DEF Core, KnownIsRegistered, DraftMeansDone, ClosedInSessionIsClosed
<1>7. StreamsAreWatched' /\ OneStream' /\ OpTellsPC'
  BY <1>1, <1>2, <1>3, <1>5 DEF Core, StreamsAreWatched, OneStream, OpTellsPC, InStream
<1>8. StreamAwaited' /\ CallAwaited'
  BY <1>3 DEF StreamAwaited, CallAwaited
<1> QED
  BY <1>6, <1>7, <1>8 DEF Core

-----------------------------------------------------------------------------
(* Calls *)

LEMMA ReceiveEffect ==
    ASSUME TypeOK, NEW r \in Requests, NEW op, NEW t, Receive(r, op, t)
    PROVE  /\ \A q \in Requests \ {r} : req'[q] = req[q]
           /\ req'[r].op = op /\ req'[r].ticket = t /\ req'[r].pc = "get"
           /\ req'[r].reply = "none"
           /\ UNCHANGED registry
BY DEF Receive, TypeOK, Idle

LEMMA OpenStreamCore ==
    ASSUME CenterTypes, Core, OpenStream
    PROVE  Core'
<1>1. PICK f \in Requests : f = Fresh /\ req[f].pc = "idle"
  BY FreshIsIdle DEF OpenStream
<1>2. PICK t \in Tickets : t = selected /\ seen[t].status = "pending"
  BY DEF OpenStream, Drives, CenterTypes, SessionTypeOK
<1>3. /\ \A q \in Requests \ {f} : req'[q] = req[q]
      /\ req'[f].op = "stream" /\ req'[f].ticket = t /\ req'[f].pc = "get"
      /\ UNCHANGED <<registry, seen, selected>>
  BY <1>1, <1>2, ReceiveEffect DEF OpenStream, CenterTypes, ServiceInvariant
<1>4. script.at = "map" /\ script'.at = "streaming" /\ script'.call = f
  BY <1>1 DEF OpenStream, CenterTypes, SessionTypeOK, Scripts
<1>5. \A r \in Requests, u \in Tickets :
          InStream(r, u)' => \/ InStream(r, u) /\ r # f
                             \/ r = f /\ u = t
  BY <1>3 DEF InStream
<1>6. \A r \in Requests : ~InStream(r, t)
  BY <1>2, <1>4 DEF Core, StreamsAreWatched
<1>7. StreamsAreWatched'
  BY <1>2, <1>3, <1>4, <1>5 DEF Core, StreamsAreWatched
<1>8. OneStream'
  BY <1>5, <1>6 DEF Core, OneStream
<1>9. OpTellsPC' /\ KnownIsRegistered'
  <2>1. "get" \notin StreamPCs
    BY DEF StreamPCs, RunPCs
  <2> QED
    BY <1>2, <1>3, <2>1 DEF Core, OpTellsPC, KnownIsRegistered, Registered
<1>10. DraftMeansDone' /\ ClosedInSessionIsClosed'
  BY <1>3 DEF Core, DraftMeansDone, ClosedInSessionIsClosed
<1>11. StreamAwaited' /\ CallAwaited'
  BY <1>2, <1>3, <1>4 DEF StreamAwaited, CallAwaited
<1> QED
  BY <1>7, <1>8, <1>9, <1>10, <1>11 DEF Core

LEMMA CallCore ==
    ASSUME CenterTypes, Core, Call
    PROVE  Core'
<1>1. PICK f \in Requests : f = Fresh /\ req[f].pc = "idle"
  BY FreshIsIdle DEF Call
<1>2. PICK kind \in {"approve", "modify", "claim"}, t \in Tickets :
          kind = script.click.kind /\ t = script.click.on
  BY OfferedClick DEF Call
<1>3. seen[t].status = "done"
  BY <1>2 DEF Call, Offered, Core, DraftMeansDone
<1>4. /\ \A q \in Requests \ {f} : req'[q] = req[q]
      /\ req'[f].op = kind /\ req'[f].ticket = t /\ req'[f].pc = "get"
      /\ req'[f].reply = "none"
      /\ UNCHANGED <<registry, seen>>
  BY <1>1, <1>2, ReceiveEffect DEF Call, CenterTypes, ServiceInvariant
<1>5. /\ script.at = "panels" /\ script'.at = "calling" /\ script'.call = f
      /\ script'.click = script.click
  BY <1>1 DEF Call, CenterTypes, SessionTypeOK, Scripts
<1>6. \A r \in Requests, u \in Tickets : InStream(r, u)' => InStream(r, u)
  BY <1>2, <1>4 DEF InStream
<1>7. StreamsAreWatched' /\ OneStream'
  BY <1>4, <1>5, <1>6 DEF Core, StreamsAreWatched, OneStream
<1>8. OpTellsPC' /\ KnownIsRegistered'
  <2>1. "get" \notin StreamPCs
    BY DEF StreamPCs, RunPCs
  <2> QED
    BY <1>2, <1>3, <1>4, <2>1 DEF Core, OpTellsPC, KnownIsRegistered, Registered
<1>9. DraftMeansDone' /\ ClosedInSessionIsClosed'
  BY <1>4 DEF Core, DraftMeansDone, ClosedInSessionIsClosed
<1>10. StreamAwaited' /\ CallAwaited'
  BY <1>2, <1>3, <1>4, <1>5 DEF StreamAwaited, CallAwaited
<1> QED
  BY <1>7, <1>8, <1>9, <1>10 DEF Core

-----------------------------------------------------------------------------
(* The service's own steps *)

\* No save reopens a ticket the session shows as done or closed: nobody runs it.
LEMMA ClosedStays ==
    ASSUME CenterTypes, Core, NEW r \in Requests, Step(r) \/ Disconnect(r),
           NEW t \in Tickets, seen[t].status \in {"done", "closed"},
           registry[t] = Record("closed", TRUE)
    PROVE  registry'[t] = Record("closed", TRUE)
<1>1. /\ \A u \in Tickets \ {req[r].ticket} : registry'[u] = registry[u]
      /\ \/ UNCHANGED registry
         \/ req[r].pc \in StreamPCs
         \/ registry'[req[r].ticket] = Record("closed", TRUE)
  BY RequestSaves DEF CenterTypes
<1>2. req[r].pc \in StreamPCs => req[r].ticket # t
  BY BusyPCs DEF Core, OpTellsPC, StreamsAreWatched, InStream
<1> QED
  BY <1>1, <1>2

\* What a step of the service does to the part of Core that does not speak of
\* the script.
LEMMA ServiceProgress ==
    ASSUME CenterTypes, Core, NEW r \in Requests, Step(r) \/ Disconnect(r), UNCHANGED seen
    PROVE  /\ OpTellsPC' /\ OneStream' /\ KnownIsRegistered'
           /\ DraftMeansDone' /\ ClosedInSessionIsClosed'
           /\ \A q \in Requests, t \in Tickets : InStream(q, t)' => InStream(q, t)
<1>1. Proceeds(r)
  BY RequestProceeds DEF CenterTypes, ServiceInvariant
<1>2. OpTellsPC'
  <2>1. "replied" \notin Busy /\ "close" \in Busy
    BY BusyPCs DEF Busy, ActionPCs
  <2> QED
    BY <1>1, <2>1 DEF Proceeds, Turn, Core, OpTellsPC
<1>3. \A q \in Requests, t \in Tickets : InStream(q, t)' => InStream(q, t)
  BY <1>1 DEF Proceeds, Turn, InStream
<1>4. OneStream'
  BY <1>3 DEF Core, OneStream
<1>5. KnownIsRegistered'
  <2>1. \A t \in Tickets : Registered(t) => Registered(t)'
    BY RequestSaves DEF CenterTypes
  <2>2. \A q \in Requests : req[q].pc \in Busy => req[q].ticket \in Tickets
    BY DEF CenterTypes, ServiceInvariant, BusyOnTicket
  <2>3. \A q \in Requests : /\ req'[q].ticket = req[q].ticket
                            /\ req'[q].pc \in Busy => req[q].pc \in Busy
    BY <1>1 DEF Proceeds, Turn
  <2>4. \A t \in Tickets : seen'[t].status # "unknown" => Registered(t)'
    BY <2>1 DEF Core, KnownIsRegistered
  <2>5. ASSUME NEW q \in Requests, req'[q].pc \in Busy
        PROVE  Registered(req[q].ticket)'
    <3>1. PICK t \in Tickets : t = req[q].ticket /\ Registered(t)
      BY <2>2, <2>3, <2>5 DEF Core, KnownIsRegistered
    <3>2. Registered(t)' /\ t = req'[q].ticket
      BY <2>1, <2>3, <3>1
    <3> QED
      BY <3>2 DEF Registered
  <2> QED
    BY <2>4, <2>5 DEF KnownIsRegistered
<1>6. DraftMeansDone' /\ ClosedInSessionIsClosed'
  BY ClosedStays DEF Core, DraftMeansDone, ClosedInSessionIsClosed
<1> QED
  BY <1>2, <1>3, <1>4, <1>5, <1>6

LEMMA ServeCore ==
    ASSUME CenterTypes, Core, NEW r \in Requests, Serve(r) \/ HangUp(r)
    PROVE  Core'
<1>1. Step(r) \/ Disconnect(r)
  BY DEF Serve, HangUp
<1>2. /\ UNCHANGED <<seen, selected>>
      /\ script'.at = script.at /\ script'.call = script.call /\ script'.click = script.click
  BY DEF Serve, HangUp, session, CenterTypes, SessionTypeOK, Scripts
<1>3. Proceeds(r)
  BY <1>1, RequestProceeds DEF CenterTypes, ServiceInvariant
<1>4. StreamsAreWatched'
  BY <1>1, <1>2, ServiceProgress DEF Core, StreamsAreWatched
<1>5. StreamAwaited'
  BY <1>2, <1>3 DEF Core, StreamAwaited, Proceeds, Turn, CenterTypes, SessionTypeOK, Scripts
<1>6. CallAwaited'
  <2> SUFFICES ASSUME script.at = "calling" PROVE CallAwaited'
    BY <1>2 DEF CallAwaited
  <2>1. PICK c \in Requests : c = script.call
    BY DEF CenterTypes, SessionTypeOK, Scripts
  <2>2. PICK t \in Tickets :
            /\ t = script.click.on /\ seen[t].status = "done"
            /\ req[c].op = script.click.kind /\ req[c].ticket = t
            /\ script.click.kind = "approve" /\ req[c].reply = "200" =>
                   registry[t] = Record("closed", TRUE)
    BY <2>1 DEF Core, CallAwaited
  <2>3. req'[c].op = req[c].op /\ req'[c].ticket = req[c].ticket
    BY <1>3 DEF Proceeds, Turn
  <2>4. ASSUME script.click.kind = "approve", req'[c].reply = "200"
        PROVE  registry'[t] = Record("closed", TRUE)
    <3>1. CASE req[c].reply = "200"
      BY <1>1, <2>2, <2>4, <3>1, ClosedStays
    <3>2. CASE req[c].reply # "200"
      <4>1. c = r /\ ApproveTicket(r)
        BY <1>3, <2>2, <2>4, <3>2 DEF Proceeds, Turn, Core, OpTellsPC
      <4> QED
        BY <1>1, <2>2, <4>1, RequestSaves DEF CenterTypes
    <3> QED
      BY <3>1, <3>2
  <2>5. script.click.kind \in {"approve", "modify", "claim"}
    BY DEF Core, CallAwaited
  <2> QED
    BY <1>2, <2>1, <2>2, <2>3, <2>4, <2>5 DEF CallAwaited
<1> QED
  BY <1>1, <1>2, <1>4, <1>5, <1>6, ServiceProgress DEF Core

\* The generator is closed before the script starts again: its stream is gone.
LEMMA InterruptCore ==
    ASSUME CenterTypes, Core, NEW kind \in Kinds, NEW t \in Tickets, Interrupt(kind, t)
    PROVE  Core'
<1>1. script.at = "streaming" /\ script'.at = "sidebar" /\ UNCHANGED <<seen, selected>>
  BY DEF Interrupt, Start, Script
<1>2. CASE ~Waiting(script.call)
  BY <1>1, <1>2, MoveOn DEF Interrupt, vars
<1>3. CASE Waiting(script.call)
  <2>1. PICK c \in Requests : c = script.call
    BY <1>1 DEF CenterTypes, SessionTypeOK, Scripts
  <2>2. Disconnect(c)
    BY <1>3, <2>1 DEF Interrupt
  <2>3. req'[c].pc \notin Busy
    BY <2>2, AnswerTurn, BusyPCs DEF Disconnect, CenterTypes, ServiceInvariant
  <2>4. StreamsAreWatched'
    BY <1>1, <2>1, <2>2, <2>3, ServiceProgress DEF Core, StreamsAreWatched, InStream
  <2>5. StreamAwaited' /\ CallAwaited'
    BY <1>1 DEF StreamAwaited, CallAwaited
  <2> QED
    BY <1>1, <2>2, <2>4, <2>5, ServiceProgress DEF Core
<1> QED
  BY <1>2, <1>3

\* A restart keeps the stores and ends every request.
LEMMA CrashCore ==
    ASSUME Durable, CenterTypes, Core, ServiceCrash
    PROVE  Core'
<1>1. UNCHANGED <<registry, seen, selected, script>>
  BY DEF ServiceCrash, Crash, session
<1>2. \A r \in Requests :
          /\ req'[r].op = req[r].op /\ req'[r].ticket = req[r].ticket
          /\ req'[r].pc \notin Busy
          /\ req'[r].reply = "200" => req[r].reply = "200"
  BY BusyPCs DEF ServiceCrash, Crash, Idle, CenterTypes, ServiceInvariant, TypeOK
<1>3. OpTellsPC' /\ StreamsAreWatched' /\ OneStream'
  BY <1>2, BusyPCs DEF OpTellsPC, StreamsAreWatched, OneStream, InStream
<1>4. KnownIsRegistered' /\ DraftMeansDone' /\ ClosedInSessionIsClosed'
  BY <1>1, <1>2
     DEF Core, KnownIsRegistered, Registered, DraftMeansDone, ClosedInSessionIsClosed
<1>5. script.at \in {"streaming", "calling"} => script.call \in Requests
  BY DEF CenterTypes, SessionTypeOK, Scripts
<1>6. StreamAwaited' /\ CallAwaited'
  BY <1>1, <1>2, <1>5 DEF Core, StreamAwaited, CallAwaited
<1> QED
  BY <1>3, <1>4, <1>6 DEF Core

-----------------------------------------------------------------------------
(* Types again: the steps that go to the service *)

LEMMA ServingStepTypes ==
    ASSUME CenterTypes,
           \/ OpenStream \/ Call \/ ServiceCrash
           \/ \E r \in Requests : Serve(r) \/ HangUp(r)
    PROVE  SessionTypeOK'
<1> USE DEF CenterTypes, SessionTypeOK
<1>1. CASE OpenStream \/ Call
  <2>1. PICK f \in Requests : f = Fresh
    BY <1>1, FreshIsIdle DEF OpenStream, Call
  <2>2. PICK at \in {"streaming", "calling"} : script' = [script EXCEPT !.at = at, !.call = f]
    BY <1>1, <2>1 DEF OpenStream, Call
  <2>3. script' \in Scripts /\ script'.at = at /\ script'.call = f
    BY <2>2 DEF Scripts, Places
  <2>4. f # "none"
    BY NamesAssumption
  <2>5. UNCHANGED <<seen, selected, clicks, unsure>>
    BY <1>1 DEF OpenStream, Call
  <2> QED
    BY <2>3, <2>4, <2>5
<1>2. ASSUME NEW r \in Requests, Serve(r)
      PROVE  SessionTypeOK'
  <2>1. Thread(r) \in Threads /\ EmptyThread \in Threads
    <3>1. req[r].pc \in Busy
      BY <1>2, RequestProceeds DEF Serve, ServiceInvariant, Proceeds
    <3> QED
      BY <3>1, ThreadType, EmptyThreadType DEF ServiceInvariant
  <2>2. script' \in Scripts /\ script'.at = script.at /\ script'.call = script.call
    <3>1. CASE r # script.call
      BY <1>2, <3>1 DEF Serve
    <3>2. CASE r = script.call
      <4>1. PICK live \in BOOLEAN, body \in Threads :
                script' = [script EXCEPT !.live = live, !.body = body]
        <5> DEFINE l == script.live \/ req'[r].pc = "worker"
                   b == IF req'[r].reply \in {"done", "200"} THEN Thread(r) ELSE EmptyThread
        <5>1. script' = [script EXCEPT !.live = l, !.body = b]
          BY <1>2, <3>2 DEF Serve
        <5>2. l \in BOOLEAN
          BY DEF Scripts
        <5>3. b \in Threads
          BY <2>1
        <5> HIDE DEF l, b
        <5> QED
          BY <5>1, <5>2, <5>3
      <4> QED
        BY <4>1 DEF Scripts
    <3> QED
      BY <3>1, <3>2
  <2> QED
    BY <1>2, <2>2 DEF Serve
<1>3. CASE ServiceCrash \/ \E r \in Requests : HangUp(r)
  BY <1>3 DEF ServiceCrash, HangUp, session
<1> QED
  BY <1>1, <1>2, <1>3

-----------------------------------------------------------------------------
(* Theorems *)

LEMMA InitCenterInvariant == CenterInit => CenterInvariant
<1> SUFFICES ASSUME CenterInit PROVE CenterInvariant
  OBVIOUS
<1>1. ServiceInvariant
  BY InitInvariant DEF CenterInit
<1>2. /\ \A r \in Requests : req[r].pc \notin Busy /\ req[r].pc \notin StreamPCs
      /\ \A t \in Tickets : seen[t].status = "unknown" /\ seen[t].state.complete = FALSE
      /\ script.at = "idle"
  BY BusyPCs DEF CenterInit, Init, Idle, Unknown, View, EmptyThread, Saved, Resting, Script
<1>3. SessionTypeOK
  <2>1. Unknown \in Views
    BY EmptyThreadType, ViewType DEF Unknown, SessionStatuses
  <2>2. 0 \in 0 .. MaxClicks
    BY ClicksAssumption
  <2> QED
    BY <2>1, <2>2, RestingType DEF CenterInit, SessionTypeOK
<1>4. OpTellsPC /\ KnownIsRegistered /\ DraftMeansDone /\ StreamAwaited /\ CallAwaited
  BY <1>2 DEF OpTellsPC, KnownIsRegistered, DraftMeansDone, StreamAwaited, CallAwaited
<1>5. StreamsAreWatched /\ OneStream /\ ClosedInSessionIsClosed
  BY <1>2 DEF StreamsAreWatched, OneStream, ClosedInSessionIsClosed, InStream
<1> QED
  BY <1>1, <1>3, <1>4, <1>5 DEF CenterInvariant, CenterTypes, Core

LEMMA CenterStepInvariant ==
    ASSUME Durable, CenterInvariant, [CenterNext]_centerVars
    PROVE  CenterInvariant'
<1> USE DEF CenterInvariant
<1>1. ServiceInvariant'
  BY CenterStepServes, StepInvariant DEF CenterTypes
<1>2. CASE UNCHANGED centerVars
  <2>1. SessionTypeOK'
    BY <1>2 DEF centerVars, session, CenterTypes, SessionTypeOK
  <2>2. Core'
    BY <1>2 DEF centerVars, session, vars, Core, OpTellsPC, KnownIsRegistered, Registered,
                DraftMeansDone, StreamAwaited, CallAwaited, StreamsAreWatched, OneStream,
                InStream, ClosedInSessionIsClosed
  <2> QED
    BY <1>1, <2>1, <2>2 DEF CenterTypes
<1>3. CASE CenterNext
  <2>1. script.at = "calling" => script.click.on \in Tickets
    BY DEF Core, CallAwaited
  <2>2. ASSUME NEW kind \in Kinds, NEW t \in Tickets, Click(kind, t) \/ Interrupt(kind, t)
        PROVE  SessionTypeOK' /\ Core'
    <3>1. Start(kind, t)
      BY <2>2 DEF Click, Interrupt
    <3> QED
      BY <2>1, <2>2, <3>1, SessionStepTypes, QuietSessionCore, InterruptCore DEF CenterTypes
  <2>3. CASE Reload
    BY <1>1, <2>1, <2>3, SessionStepTypes, ReloadCore DEF CenterTypes
  <2>4. ASSUME NEW t \in Tickets, Submit(t) \/ SubmitFails(t) \/ Select(t)
        PROVE  SessionTypeOK' /\ Core'
    BY <2>1, <2>4, SessionStepTypes, QuietSessionCore, SubmitCore DEF CenterTypes
  <2>5. CASE PassSidebar \/ ShowMap \/ ShowPanels \/ Refused \/ GiveUp
    BY <1>1, <2>1, <2>5, SessionStepTypes, QuietSessionCore DEF CenterTypes
  <2>6. CASE EndStream \/ StreamTimesOut
    BY <1>1, <2>1, <2>6, SessionStepTypes, StreamEndCore DEF CenterTypes
  <2>7. CASE Accepted
    BY <1>1, <2>1, <2>7, SessionStepTypes, AcceptedCore DEF CenterTypes
  <2>8. CASE OpenStream \/ Call
    BY <1>1, <2>8, ServingStepTypes, OpenStreamCore, CallCore DEF CenterTypes
  <2>9. CASE \E r \in Requests : Serve(r) \/ HangUp(r)
    BY <1>1, <2>9, ServingStepTypes, ServeCore DEF CenterTypes
  <2>10. CASE ServiceCrash
    BY <1>1, <2>10, ServingStepTypes, CrashCore DEF CenterTypes
  <2> QED
    BY <1>1, <1>3, <2>2, <2>3, <2>4, <2>5, <2>6, <2>7, <2>8, <2>9, <2>10
       DEF CenterNext, ScriptStep, CenterTypes
<1> QED
  BY <1>2, <1>3

\* Over a durable service the session and the service keep the invariant, whatever
\* is clicked, given up, cut off or restarted.
THEOREM CenterInvariance ==
    ASSUME Durable PROVE CenterSpec => []CenterInvariant
<1>1. CenterInit => CenterInvariant
  BY InitCenterInvariant
<1>2. CenterInvariant /\ [CenterNext]_centerVars => CenterInvariant'
  BY CenterStepInvariant
<1> QED
  BY <1>1, <1>2, PTL DEF CenterSpec

\* A session uses the service only as TicketService lets any client: every safety
\* property of the service's next-state relation holds of the composition.
THEOREM SessionIsAClient ==
    ASSUME Durable PROVE CenterSpec => Init /\ [][Next]_vars
<1>1. CenterInit => Init
  BY DEF CenterInit
<1>2. CenterInvariant /\ [CenterNext]_centerVars => [Next]_vars
  BY CenterStepServes DEF CenterInvariant
<1> QED
  BY <1>1, <1>2, CenterInvariance, PTL DEF CenterSpec

\* Every variable of the session keeps its type, and the script waits for a
\* request exactly when it is in a call.
THEOREM SessionTypeCorrectness ==
    ASSUME Durable PROVE CenterSpec => []SessionTypeOK
<1>1. CenterInvariant => SessionTypeOK
  BY DEF CenterInvariant, CenterTypes
<1> QED
  BY <1>1, CenterInvariance, PTL

\* However often the operator clicks during a stream, reloads the page or lets it
\* time out, no ticket is run twice at a time.
THEOREM TicketsAreRunOnce ==
    ASSUME Durable PROVE CenterSpec => []OneRunAtATime
<1>1. CenterInvariant => OneRunAtATime
  <2> SUFFICES ASSUME CenterInvariant, NEW r \in Owners, NEW s \in Owners,
                      req[r].ticket = req[s].ticket
               PROVE  r = s
    BY DEF OneRunAtATime
  <2>1. /\ r \in Requests /\ req[r].pc \in StreamPCs /\ req[r].pc \in Busy
        /\ s \in Requests /\ req[s].pc \in StreamPCs /\ req[s].pc \in Busy
    BY BusyPCs DEF Owners
  <2>2. req[r].ticket \in Tickets
    BY <2>1 DEF CenterInvariant, CenterTypes, ServiceInvariant, BusyOnTicket
  <2>3. InStream(r, req[r].ticket) /\ InStream(s, req[r].ticket)
    BY <2>1 DEF CenterInvariant, Core, OpTellsPC, InStream
  <2> QED
    BY <2>1, <2>2, <2>3 DEF CenterInvariant, Core, OneStream
<1> QED
  BY <1>1, CenterInvariance, PTL

\* What the session shows as closed is closed and approved in the registry and
\* is not reopened by a run's late save, nor by an approval the session gave up on.
THEOREM ClosedTicketsStayClosed ==
    ASSUME Durable PROVE CenterSpec => []ClosedInSessionIsClosed
<1>1. CenterInvariant => ClosedInSessionIsClosed
  BY DEF CenterInvariant, Core
<1> QED
  BY <1>1, CenterInvariance, PTL

=============================================================================
