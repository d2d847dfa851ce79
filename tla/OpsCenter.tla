----------------------------- MODULE OpsCenter -----------------------------
(***************************************************************************)
(* One session of the operations center (services/ui) over the service of  *)
(* TicketService.  A session is a Streamlit script that is run again from  *)
(* the top after every click: sidebar, agent map, draft panel and queue.   *)
(* The script blocks in its HTTP calls; a click meanwhile takes effect at  *)
(* the next call of a Streamlit widget, which throws the running script    *)
(* away.  The session keeps its own picture of every ticket and never asks *)
(* the service for it (get_state has no caller).                           *)
(***************************************************************************)
EXTENDS TicketService

CONSTANT MaxClicks      \* bound: clicks and page reloads of a behaviour

ASSUME ClicksAssumption == MaxClicks \in Nat
ASSUME SessionOpsAssumption == {"stream", "approve", "modify", "claim"} \subseteq Ops
ASSUME NamesAssumption == "none" \notin Requests \cup Tickets

VARIABLES
    seen,       \* ticket -> the session's record of it (st.session_state["tickets"])
    selected,   \* st.session_state["selected"]
    script,     \* where the script is and what it holds
    clicks,     \* clicks so far
    unsure      \* history: tickets with an operator call whose outcome is unknown

session == <<seen, selected, script, clicks, unsure>>
centerVars == <<vars, session>>

-----------------------------------------------------------------------------
(* State *)

\* "unknown": no record.  state: the last AgentState received, None if incomplete.
View(status, state, claimed) == [status |-> status, state |-> state, claimed |-> claimed]
Unknown == View("unknown", EmptyThread, FALSE)

Kinds == {"submit", "select", "approve", "modify", "claim"}
Press(kind, t) == [kind |-> kind, on |-> t]
NoClick == Press("none", "none")

\* call: the request waited for; live: a node frame of it has been drawn;
\* body: the state its answer carries.
Script(at, click) == [at |-> at, click |-> click, call |-> "none",
                      live |-> FALSE, body |-> EmptyThread]
Resting == Script("idle", NoClick)
Goes(at) == script' = Script(at, script.click)

CenterInit == /\ Init
              /\ seen = [t \in Tickets |-> Unknown]
              /\ selected = "none"
              /\ script = Resting
              /\ clicks = 0
              /\ unsure = {}

Waiting(r) == req[r].pc \in Busy
Escalated(t) == seen[t].state.values.requires_escalation
\* A mutation of Drives: whatever is not closed is driven.
DrivesUnclosed == selected # "none" /\ seen[selected].status # "closed"

\* A pending record is what makes the agent map open a stream.
Drives == selected # "none" /\ seen[selected].status = "pending"

\* A script run makes at most two calls.
Unused == {r \in Requests : At(r, "idle")}
Fresh == CHOOSE r \in Unused : TRUE

-----------------------------------------------------------------------------
(* Clicks *)

\* The page may be that of an earlier run; whether a button still exists is
\* found out when the script gets to it.
Clickable(kind, t) ==
    /\ clicks < MaxClicks
    /\ Cardinality(Unused) >= 2
    /\ kind = "submit" <=> (seen[t] = Unknown /\ ~Registered(t))
    /\ kind # "submit" => seen[t] # Unknown

Start(kind, t) ==
    /\ Clickable(kind, t)
    /\ script' = Script("sidebar", Press(kind, t))
    /\ clicks' = clicks + 1
    /\ UNCHANGED <<seen, selected, unsure>>

Click(kind, t) ==
    /\ script.at = "idle"
    /\ Start(kind, t)
    /\ UNCHANGED vars

\* A mutation of Interrupt: the abandoned stream's connection stays open.
InterruptKeepsStream(kind, t) ==
    /\ script.at = "streaming"
    /\ script.live
    /\ UNCHANGED vars
    /\ Start(kind, t)

\* A click while the agent map draws node frames: the script is thrown away, and
\* with it the generator that holds the connection.  The close is taken to reach
\* the service, and to cancel the run there, before the next script's first call.
Interrupt(kind, t) ==
    /\ script.at = "streaming"
    /\ script.live
    /\ IF Waiting(script.call) THEN Disconnect(script.call) ELSE UNCHANGED vars
    /\ Start(kind, t)

\* The page is loaded again: an empty session.  The old one's script runs on
\* until it next touches a widget; nobody sees what it gets.
Reload ==
    /\ clicks < MaxClicks
    /\ seen' = [t \in Tickets |-> Unknown]
    /\ selected' = "none"
    /\ script' = Resting
    /\ clicks' = clicks + 1
    /\ UNCHANGED <<unsure, vars>>

-----------------------------------------------------------------------------
(* The script, from the top *)

Pressed(kind, t) == script.at = "sidebar" /\ script.click = Press(kind, t)

\* POST /tickets, and its answer arrives or is lost.
Submit(t) ==
    /\ Pressed("submit", t)
    /\ CreateTicket(t)
    /\ \/ /\ seen' = [seen EXCEPT ![t] = View("pending", EmptyThread, FALSE)]
          /\ selected' = t
       \/ UNCHANGED <<seen, selected>>
    /\ Goes("map")
    /\ UNCHANGED <<clicks, unsure>>

SubmitFails(t) ==
    /\ Pressed("submit", t)
    /\ Goes("map")
    /\ UNCHANGED <<seen, selected, clicks, unsure, vars>>

\* Only the active group has buttons.
Select(t) ==
    /\ Pressed("select", t)
    /\ selected' = IF seen[t].status = "closed" THEN selected ELSE t
    /\ Goes("map")
    /\ UNCHANGED <<seen, clicks, unsure, vars>>

PassSidebar ==
    /\ script.at = "sidebar"
    /\ script.click.kind \notin {"submit", "select"}
    /\ Goes("map")
    /\ UNCHANGED <<seen, selected, clicks, unsure, vars>>

\* agent_map.render: a pending ticket is driven, any other is shown.
OpenStream ==
    /\ script.at = "map"
    /\ Drives
    /\ Unused # {}
    /\ Receive(Fresh, "stream", selected)
    /\ script' = [script EXCEPT !.at = "streaming", !.call = Fresh]
    /\ UNCHANGED <<seen, selected, clicks, unsure>>

ShowMap ==
    /\ script.at = "map"
    /\ ~Drives
    /\ Goes("panels")
    /\ UNCHANGED <<seen, selected, clicks, unsure, vars>>

\* A mutation of EndStream: only a frame changes the record, an exception does not.
EndStreamByFrame ==
    /\ script.at = "streaming"
    /\ ~Waiting(script.call)
    /\ seen' = CASE req[script.call].reply = "done" ->
                        [seen EXCEPT ![selected].status = "done", ![selected].state = script.body]
                 [] req[script.call].reply = "error" ->
                        [seen EXCEPT ![selected].status = "error"]
                 [] OTHER -> seen
    /\ Goes("panels")
    /\ UNCHANGED <<selected, clicks, unsure, vars>>

\* The done frame's state is taken; an error frame, an answer that is no event
\* stream and a connection that breaks off are all an error.
EndStream ==
    /\ script.at = "streaming"
    /\ ~Waiting(script.call)
    /\ seen' = IF req[script.call].reply = "done"
               THEN [seen EXCEPT ![selected].status = "done", ![selected].state = script.body]
               ELSE [seen EXCEPT ![selected].status = "error"]
    /\ Goes("panels")
    /\ UNCHANGED <<selected, clicks, unsure, vars>>

\* A mutation of StreamTimesOut: a status nothing else in the session knows.
StreamTimesOutFailed ==
    /\ script.at = "streaming"
    /\ Waiting(script.call)
    /\ seen' = [seen EXCEPT ![selected].status = "failed"]
    /\ Goes("panels")
    /\ UNCHANGED <<selected, clicks, unsure, vars>>

\* Nothing arrives for the read timeout.  The service is not told: what stalled
\* the connection keeps its end from it too.
StreamTimesOut ==
    /\ script.at = "streaming"
    /\ Waiting(script.call)
    /\ seen' = [seen EXCEPT ![selected].status = "error"]
    /\ Goes("panels")
    /\ UNCHANGED <<selected, clicks, unsure, vars>>

\* A mutation of Offered: Approve is drawn for every ticket with a draft.
OfferedAlways(kind, t) ==
    /\ kind \in {"approve", "modify", "claim"}
    /\ seen[t].state.complete
    /\ seen[t].status # "closed"
    /\ kind \in {"approve", "modify"} => t = selected
    /\ kind = "claim" => Escalated(t) /\ ~seen[t].claimed

\* The buttons of draft_panel.render and escalation_queue.render.
Offered(kind, t) ==
    /\ kind \in {"approve", "modify", "claim"}
    /\ seen[t].state.complete
    /\ seen[t].status # "closed"
    /\ kind \in {"approve", "modify"} => t = selected
    /\ kind = "approve" => ~Escalated(t)
    /\ kind = "claim" => Escalated(t) /\ ~seen[t].claimed

Call ==
    /\ script.at = "panels"
    /\ Offered(script.click.kind, script.click.on)
    /\ Unused # {}
    /\ Receive(Fresh, script.click.kind, script.click.on)
    /\ script' = [script EXCEPT !.at = "calling", !.call = Fresh]
    /\ UNCHANGED <<seen, selected, clicks, unsure>>

ShowPanels ==
    /\ script.at = "panels"
    /\ ~Offered(script.click.kind, script.click.on)
    /\ script' = Resting
    /\ UNCHANGED <<seen, selected, clicks, unsure, vars>>

-----------------------------------------------------------------------------
(* The answer to an operator call *)

\* A mutation of Taken: the answer to PATCH is not read.
TakenUnread(view, kind, body) ==
    CASE kind = "approve" -> [view EXCEPT !.status = "closed"]
      [] kind = "claim"   -> [view EXCEPT !.claimed = TRUE]
      [] OTHER            -> view

Taken(view, kind, body) ==
    CASE kind = "approve" -> [view EXCEPT !.status = "closed"]
      [] kind = "claim"   -> [view EXCEPT !.claimed = TRUE]
      [] OTHER            -> [view EXCEPT !.state = body]

\* A success ends in st.rerun(): a run without a click.
Accepted ==
    /\ script.at = "calling"
    /\ req[script.call].reply = "200"
    /\ seen' = [seen EXCEPT ![script.click.on] = Taken(@, script.click.kind, script.body)]
    /\ script' = Script("map", NoClick)
    /\ UNCHANGED <<selected, clicks, unsure, vars>>

\* A 404 and a 502 are sent before anything is written; of a 500 and of a broken
\* connection the session cannot tell.
Refused ==
    /\ script.at = "calling"
    /\ ~Waiting(script.call)
    /\ req[script.call].reply # "200"
    /\ unsure' = IF req[script.call].reply \in {"404", "502"} THEN unsure
                 ELSE unsure \cup {script.click.on}
    /\ script' = Resting
    /\ UNCHANGED <<seen, selected, clicks, vars>>

\* A mutation of GiveUp: the record is closed before the answer is known.
GiveUpClosed ==
    /\ script.at = "calling"
    /\ Waiting(script.call)
    /\ unsure' = unsure \cup {script.click.on}
    /\ seen' = [seen EXCEPT ![script.click.on] = Taken(@, script.click.kind, @.state)]
    /\ script' = Resting
    /\ UNCHANGED <<selected, clicks, vars>>

\* The 10 s timeout; the service goes on with the request.
GiveUp ==
    /\ script.at = "calling"
    /\ Waiting(script.call)
    /\ unsure' = unsure \cup {script.click.on}
    /\ script' = Resting
    /\ UNCHANGED <<seen, selected, clicks, vars>>

-----------------------------------------------------------------------------
(* The service, and the connection to it *)

Serve(r) ==
    /\ Step(r)
    /\ script' = IF r # script.call THEN script
                 ELSE [script EXCEPT !.live = @ \/ req'[r].pc = "worker",
                                     !.body = IF req'[r].reply \in {"done", "200"}
                                              THEN Thread(r) ELSE EmptyThread]
    /\ UNCHANGED <<seen, selected, clicks, unsure>>

\* A stream breaks off, or one that nobody reads any more is closed.
HangUp(r) == Disconnect(r) /\ UNCHANGED session

ServiceCrash == Crash /\ UNCHANGED session

-----------------------------------------------------------------------------
ScriptStep == \/ \E t \in Tickets : Submit(t) \/ SubmitFails(t) \/ Select(t)
              \/ PassSidebar \/ OpenStream \/ ShowMap
              \/ EndStream \/ StreamTimesOut
              \/ Call \/ ShowPanels \/ Accepted \/ Refused \/ GiveUp

CenterNext == \/ \E kind \in Kinds, t \in Tickets : Click(kind, t) \/ Interrupt(kind, t)
              \/ Reload
              \/ ScriptStep
              \/ \E r \in Requests : Serve(r) \/ HangUp(r)
              \/ ServiceCrash

\* The script runner and the event loop both go on.
CenterFairness == /\ WF_centerVars(ScriptStep)
                  /\ \A r \in Requests : WF_centerVars(Serve(r))

CenterSpec == CenterInit /\ [][CenterNext]_centerVars /\ CenterFairness
-----------------------------------------------------------------------------
(* Properties *)

SessionStatuses == {"unknown", "pending", "done", "error", "closed"}
Places == {"idle", "sidebar", "map", "streaming", "panels", "calling"}

Views == [status : SessionStatuses, state : Threads, claimed : BOOLEAN]
Presses == [kind : Kinds, on : Tickets] \cup {NoClick}
Scripts == [at : Places, click : Presses, call : Requests \cup {"none"},
            live : BOOLEAN, body : Threads]

\* The type of every variable of the session; it waits in a call and nowhere else.
SessionTypeOK ==
    /\ seen \in [Tickets -> Views]
    /\ selected \in Tickets \cup {"none"}
    /\ script \in Scripts
    /\ script.at \in {"streaming", "calling"} <=> script.call # "none"
    /\ clicks \in 0 .. MaxClicks
    /\ unsure \subseteq Tickets

\* A ticket is run by one request at a time.  The service does not see to it
\* (main.py:185 runs whatever is not done); it is the session that opens the next
\* stream of a ticket only after the last one is gone.
OneRunAtATime ==
    \A r, s \in Owners : req[r].ticket = req[s].ticket => r = s

\* No escalated ticket is approved (draft_panel.py:6).  The approve endpoint does
\* not look; the panel decides on the state the session holds.
EscalationsAreNotApproved ==
    \A t \in Tickets : registry[t].approved => ~checkpoint[t].values.requires_escalation

\* What the operator sees of a finished ticket is what the service stores, up to
\* log lines added since: replays, modifications and claims keep the two copies
\* together as long as every call ended with a definite answer
\* (agent_map.py:82, draft_panel.py:71).
ShownIsServed ==
    \A t \in Tickets \ unsure :
        seen[t].status \in {"done", "closed"} /\ script.at # "calling" =>
            LET mine == seen[t].state.values
                theirs == checkpoint[t].values
            IN  /\ [mine EXCEPT !.execution_logs = theirs.execution_logs] = theirs
                /\ IsPrefix(mine.execution_logs, theirs.execution_logs)

\* A ticket in the sidebar's Closed group is closed and approved in the registry,
\* and stays so: no late save of a run reopens it.
ClosedInSessionIsClosed ==
    \A t \in Tickets : seen[t].status = "closed" => registry[t] = Record("closed", TRUE)

\* The selected ticket does not stay pending: whatever breaks, each script run
\* that finds it so drives it to a result or to an error, or is interrupted by a
\* click that starts another.
TicketsSettle ==
    \A t \in Tickets : selected = t /\ seen[t].status = "pending"
                           ~> selected # t \/ seen[t].status # "pending"

\* The registry keeps to the documented life of a ticket: what the service does
\* not see to, that a closed ticket is not run again and that a run's stale copy
\* of the record does not take the approval back, the session's order of calls does.
Documented == INSTANCE Lifecycle
                  WITH life <- [t \in Tickets |-> registry[t].status],
                       granted <- {t \in Tickets : registry[t].approved}
ImplementsLifecycle == Documented!Spec

\* "Could not re-evaluate (kept prior draft)" (draft_panel.py:75): a modification
\* that was not accepted has left the stored draft alone.
RefusedChangesNothing ==
    \A t \in Tickets :
        seen[t].status = "done" /\ script.at = "idle" /\ InFlight(t) = {} =>
            checkpoint[t].values.agent_draft_response = seen[t].state.values.agent_draft_response
=============================================================================
