# Verification of the ESTC triage copilot

TLA+ models of the code under `src/ESTC/estc`, the TLC runs that check them and
the theorems about them that TLAPS checks. Paths below are relative to
`src/ESTC/estc`; `main.py` is `services/orchestrator/app/main.py`.

## The system

A support ticket is registered over HTTP, driven through a LangGraph state
machine while its progress is streamed to the client, and then approved, edited
or claimed by an operator.

| component | state it keeps | operations |
|---|---|---|
| Triage graph (`services/orchestrator/graph`) | one `AgentState` per thread (ticket), in the checkpointer | `classify`, `route_by_intent`, four workers, `supervisor_review`, `astream_ticket`, `run_ticket` |
| Draft generation (`graph/llm.py`) | a cached chat model | `combine_confidence`, `draft_reply` |
| Orchestrator service (`main.py`) | the active graph, the store, the pool | create, stream, get, approve, modify, claim; lifespan |
| Registry (`app/persistence.py`) | `TicketRecord` per ticket: status, approved | `create`, `get`, `save`, in memory or in Postgres |
| Retriever and ingest (`rag/`) | a Chroma collection, cached handle and centroids | `retrieve`, `aretrieve`, `route_query`, `run_ingest` |
| Postgres tools, GitHub tools (`services/mcp_*`) | a lazily opened pool; a client singleton | customer and subscription lookups; issue, commit and deployment lookups |
| Classifier API (`services/classifier_api`) | a model singleton behind a lock | `/classify`, `/healthz` |
| Middleware (`shared/`) | token buckets; a request-id context variable | rate limit, API key, request id |
| Operations center (`services/ui`) | per-session view of the tickets | submit, stream, approve, modify, claim |
| Training, evaluation, data, deployment | none at run time | offline scripts, images, SQL |

How they interact. The service calls the graph in its own event loop
(`astream_ticket`), the graph's nodes call the classifier over HTTP and the
tools, the retriever and the model as awaits. Service and graph share two stores
that are written independently: the registry (status, approved) and the
checkpointer (everything else). The UI sees only HTTP and the SSE frames.

What is hard in this code:

- *Interleaving.* Every endpoint is a coroutine; nothing serialises the requests
  of one ticket, two streams included. In memory all of them hold the same
  `TicketRecord` object; with Postgres each holds its own copy and `save` writes
  both columns back.
- *Read, await, write.* A stream decides on a record it read before its first
  frame and saves it after the run; a claim reads the log and writes the list
  back; `aupdate_state` reads a checkpoint and stores it whole.
- *Failure.* The classifier is retried and then degraded; tools, retrieval and
  stores raise; a client that goes away cancels its stream; the process restarts
  between any two writes.
- *Re-runs.* A thread keeps its checkpoint; a second run writes its input over it.
- *Numbers.* Confidence is clamped, multiplied and rounded before it meets 0.70.

What makes each part correct:

- graph: nothing leaves unescalated that was not classified, grounded, confident
  and no lockout; the final state tells of one run; facts survive the model; the
  retry budget holds; every run decides or fails;
- service: a running ticket is being run, a closed ticket is approved, an
  approval stays, overlapping runs of a ticket end in a reviewed thread, the done
  frame shows a reviewed state, the log only grows, every request is answered;
- retriever, ingest: the nearest parents of the right domain, each once, and as
  many as asked for when the over-fetch can find them; a reported index is
  complete, and racing rebuilds leave one behind;
- start-up: the service boots whatever Postgres does, a record and its thread stay
  in one place, and a model that could not be loaded is found later;
- rate limiter: requests let pass in a window never exceed burst plus refill, and
  a refused attempt costs nothing;
- UI: one run of a ticket at a time, what the session shows of a ticket is what
  the service stores, what it shows as closed is closed, and no escalated ticket
  is approved.

## Modules

`TriageNodes` — the `AgentState` channels and what each node writes to them, as
pure operators: `Classified` and `ClassifyFailed` (`nodes/classify.py`),
`RouteByIntent` (`router.py`), `CombineConfidence` (`llm.py:36-45`), `Drafted`
(the four workers), `Escalates`, `SupervisorReview` (`supervisor.py`). Text is
abstracted: context is the set of indices that returned a chunk, a draft is its
author and the facts it states, a log line is its tag. A confidence is an integer
count of 10^-5, so that `round(x, 4)` can be seen; which way a decimal tie goes
depends on the binary expansion of the float, so both neighbours are allowed.

`Triage` — the abstract promise: a ticket is pending, then auto-approved,
escalated or failed, and the decision is one its evidence allows.

`TriageGraph` — one thread of the compiled graph (`graph/build.py`), await by
await. `node` and `step` name where the run is, `st` is the checkpoint, `attempt`
and `waited` the retry loop, `work` the worker's locals; `seed` and `runs` are
history. A worker's tool, retrieval and draft are separate steps; any tool or
retrieval may raise (`WorkerRaises`), the checkpointer too. `RunAgain` is a
second `astream` on the thread. `ImplementsPromise` maps it to `Triage`.

`TicketService` — the endpoints of `main.py` over `persistence.py` and the
checkpointer. Each element of `Requests` is one HTTP request, its `pc` the await
it is about to come back from; `rec` is its copy of the record, `state` the
channels of its run or the base of its `aupdate_state`, `logs` the list a claim
carries. `Durable` selects the registry: `Rec(r)` is the shared record in memory
and the request's own copy with Postgres. Each node of a run is one step here;
its inner awaits are in `TriageGraph`, and only the classification, whether
context was found and the confidence are followed. `RunRaises`, `StoreRaises`,
`Disconnect` and `Crash` are what goes wrong; a restart in memory loses
everything. `abandoned` is history: the tickets one of whose runs was cut off.

`KnowledgeBase` — the collection `estc` between `rag/ingest.py` and
`rag/retriever.py`. An ingest is read, drop (`Delete`), `Create`, `Add` batch by
batch, `Report`, with a `Crash` between any two; several may run at once. A
lookup is `GetCollection`, `Route` when no index was given, `Count` and `Query`,
each a call that other threads and processes interleave with; `handle` and
`centroids` are the two caches of the process, which only `Restart` clears.
Embedding and distances are an order of all chunks, chosen by the query
(`Rankings`); what a query finds is a set of places in it (`Matches`, `Nearest`),
and the loop that turns children into parents is a recursive function of the
place it has got to (`Deduplicate`).

`Gateway` — the three middlewares of `shared/` in the order `main.py:92-97` gives
them: request id, rate limit, API key. They do not await, so a request crosses
them in one step (`Throttle`, `Pass` or `Bypass`); the application answers
(`Respond`) or raises (`Raise`) later. `buckets` is `_buckets`; tokens are counted
in sixtieths, so that the refill per second is the integer `PerMin`, and time
passes in whole seconds: the code's floats differ from this by rounding only.
`window` and `admittedAt` are history: what passed since a moment an observer
chose (`Observe`), and when an address last passed.

`OpsCenter` — one operator's session of `services/ui` over `TicketService`, which
it extends: every step of the service's requests is a step here (`Serve`), and
requests are made by the session alone. A Streamlit script runs from the top
after every click: `script.at` is where it is (sidebar, agent map, panels, or in
a call), `script.click` the one button that was pressed, `script.call` the
request it waits for, `seen` the records of `st.session_state`. `Submit`,
`Select` and `PassSidebar` are `app.py`'s sidebar; `OpenStream`, `EndStream`,
`StreamTimesOut` and `ShowMap` are `agent_map.render`; `Call`, `Accepted`,
`Refused`, `GiveUp` and `ShowPanels` are the buttons of `draft_panel.py` and
`escalation_queue.py`. A click while the map draws frames throws the script and
its stream away (`Interrupt`), `Reload` throws the session away. `unsure` is
history: tickets with an operator call of which the session cannot know whether
it was carried out.

`Lifecycle` — the abstract life of a ticket: pending, running, done or error,
closed when approved, and nothing after that. `OpsCenter` implements it
(`ImplementsLifecycle`) although `TicketService` alone does not (see below): the
service leaves the order of calls to its client, and the session keeps to it.

`Startup` — the lifespans: the classifier with or without its model, the
orchestrator on Postgres or in memory, through `build_postgres_persistence` step
by step, and restarts between which Postgres and the model's files come and go.
A ticket's whole life is one step here (`Finish`): its record goes to `store`,
its thread to `saver`, and the question is whether the two ever part.

`KnowledgeBase` and `Gateway` stand beside the others: the workers of `TriageGraph` see a lookup
as one await that finds chunks, none, or raises, all of which `KnowledgeBase`
can answer, and the requests of `TicketService` are those that `Gateway` lets in.

`MCTriageGraph`, `MCTicketService`, `MCOpsCenter`, `MCStartup`, `MCKnowledgeBase`,
`MCGateway` — the instances TLC checks. `TriageNodesProofs`, `TriageGraphProofs`,
`TicketServiceProofs`, `OpsCenterProofs`, `LifecycleProofs`, `StartupProofs`,
`KnowledgeBaseProofs`, `GatewayProofs` — the proofs.

Beside some definitions stands a *mutation* of it (`WriteInputKeepsLogs`,
`FailUnsaved`, ...): the same code with a plausible bug. Nothing uses them; put in
the place of the definition, each makes one of the checked properties fail, which
is how we know the property depends on the code. `PROJECT.json` lists the pairs.

### Code outside the repository

LangGraph, modelled from how the code uses it:

- a node's update and the checkpoint that holds it are one step. Between a node's
  return and its checkpoint LangGraph has awaits of its own, but they belong to
  the same run, and another request sees the thread only through the checkpoint;
- writing a run's input skips a `None` whose field defaults to `None`: `intent`
  and `agent_draft_response` of an earlier run stay until a node overwrites them,
  all other channels are reset (`WriteInput`). No property holds because of the
  two that stay: they are overwritten by `classify` and by the worker;
- `aupdate_state` reads the latest checkpoint and then stores it with the patch;
- the values of an empty thread are `{}`, on which `AgentState(**values)` raises.

chromadb, as `rag/` uses it: a collection has an identity besides its name; a
handle keeps to the identity, and every call on the handle of a dropped
collection raises; `delete_collection` of an absent name raises (and `ingest.py`
swallows it), `create_collection` of a taken name raises; calls are atomic and
`query` returns the nearest `n_results` matches and refuses zero. The search is
taken to be exact. Starlette: an exception that no handler takes crosses the
user's middlewares, and `ServerErrorMiddleware`, outside all of them, answers 500.

Streamlit, as `services/ui` uses it: a click is one button, and the script runs
from the top with it; a click while a script runs takes effect at the next call
of an `st` function, by a `RerunException`, which is no `Exception` and so passes
the `except` of `agent_map.py:91`; leaving the loop closes the generator and with
it the connection, before the next script starts. That the service has noticed the
close and cancelled the run by then is an assumption: `Interrupt` does both in one
step, where the code has a message on its way and no more than the next script's
first call to overtake it. `OneRunAtATime` rests on it. While the script waits in
an HTTP call it makes no `st` call, so it is not interrupted there; a stream is,
between node frames. Buttons are those of the page on the screen, which may be
older than the session's records: whether one still has an effect is decided when
the new script reaches it. `agent_map.render` is a fragment, but has no widget
that would run it alone. httpx: an event stream that breaks off raises; the 30 s
read timeout of a stream is reached only when the transport stalls, because
sse-starlette sends a ping every 15 s, and then the service is not told either;
the 10 s timeout of a call leaves the service working on it.

psycopg: `pool.open()` does not wait for a connection, the first use of one does,
and raises when Postgres does not answer. `Swap` is one step because nothing awaits between
`main.py:80` and `:81`, and because `build_graph`, which compiles there what it has
compiled at import, is taken not to raise. Compose starts the orchestrator when
the classifier and Postgres are healthy, and takes an HTTP status of 200 for
healthy.

The classifier answers with any label of `Intents` and any score of `Scores`; the
model states any subset of the facts; tools and retrieval find something or not.

## Runs

| run | shows | bounds |
|---|---|---|
| `graph` | `TypeOK`, `RunInvariant`, `AutoApprovalIsEarned`, `FinalStateTellsTheRun`, `FactsSurvive`, `RetryBudget`, `ConfidenceNeverRises`, and that the run implements `Triage` with its liveness | all labels and an unknown one; scores 0, 0.69994, 0.69995, 0.69996, 1.0; two runs of the thread |
| `service_memory` | `RunningIsOwned`, `ClosedIsApproved`, `ApprovalSticks` | three concurrent requests of any kind on one ticket, two faults, in memory |
| `service_durable` | `VerdictMatchesState`, `DoneIsReviewedAtLast` | three concurrent requests other than claims, one fault, Postgres |
| `service_serial` | `DoneCanBeReplayed`, `DoneFrameIsTerminal`, `LogsAppendOnly` | four requests of any kind, one at a time, two faults, Postgres |
| `service_live` | `TypeOK`, `RunningIsOwned`, `ClosedIsApproved`, `RequestsAreAnswered`, `RunningResolves` | two concurrent requests of any kind, two faults, Postgres |
| `operations` | `SessionTypeOK`, `OneRunAtATime`, `EscalationsAreNotApproved`, `ShownIsServed`, `ClosedInSessionIsClosed`, `TicketsSettle`, and that the session implements `Lifecycle` | one session, one ticket, four requests, four clicks or reloads, two faults, Postgres; a billing and a lockout label |
| `startup` | `TypeOK`, `RecordsHaveThreads`, `Boots`, `ModelRecovers` | two tickets; four outages, repairs, stops |
| `knowledge_base` | `TypeOK`, `ReportedIndexIsWhole`, `RaceLeavesAnIndex`, `HitsAreTheBest`, `OverFetchSuffices` | two ingests of a corpus of six or of three chunks, batches of three, one killed; two lookups of two hits, two rankings; one restart |
| `gateway` | `TypeOK`, `RateIsBounded`, `RejectionIsRecent` | four requests from two addresses, two per minute, 60 s in steps of 15, a required key |

Why the bounds are enough. Tickets share nothing but the stores, which are keyed
by ticket, so one ticket shows everything. Lost updates take one reader and one
writer between its read and its write; three requests add one that profits from
the outcome (approve, run, re-open). Two scores that differ only in magnitude
behave alike up to the threshold, the tie and the clamp; the scores sit on both
sides of each. A thread remembers only its last checkpoint, so two runs show what
an earlier run can leak. The serial run allows four requests because its
properties are about sequences: run, claim or edit, fail, run again.
Two ingests are what it takes to drop each other's collection, and a batch of
three (the code's 64) splits the larger corpus, so that a lookup can see half of
it. The over-fetch is twice `k` where the code has four times: with a corpus of
two parents that already lets one parent's children crowd out the other's, which
is the case the factor is there for. An allowance of two per minute has bursts,
refusals and partial refills of half a token within four requests; addresses share
nothing, the second is there to show it. Four clicks are the shortest session with
a submission, a modification, an approval and one click too many, and with four
requests each of them may be a call; larger instances were checked once, without
error: two tickets with four clicks and one fault (safety, 5.2 million states),
and five requests with five clicks and two faults (1.75 million). Four events let
Postgres go, a start fall back, Postgres return and the orchestrator restart.
`CHECK_DEADLOCK FALSE` because a behaviour ends when every request has ended.

Properties that hold only under a restriction, and where they fail:

- `VerdictMatchesState` is checked with overlapping requests but without claims:
  a claim that overlaps a run writes the earlier run's log into the new one's
  state.
- `DoneFrameIsTerminal` and `LogsAppendOnly` need requests that do not overlap:
  with two streams of one ticket the done frame of the first carries the
  unreviewed state of the second's run, and of two claims one marker is lost.
  Under one session of the UI the former holds although requests overlap, because
  the session never streams a ticket twice at once (see Proofs).
- `OverFetchSuffices` says when the comment at `retriever.py:120` ("Over-fetch
  children so de-dup by parent can still return k hits") is right: if k - 1
  parents have fewer than `OverFetch * k` children between them, and the count was
  not taken of a half-built collection.
- `ReportedIndexIsWhole` is about the collection that has the name. One that was
  killed while adding keeps the name and answers with what it has.
- `DoneIsReviewedAtLast` is the part of this that overlapping streams keep: once
  all runs have come to their end, a ticket that shows done is reviewed. It leaves
  out tickets one of whose streams failed or was cut off, because there it fails
  with two streams: one finishes, the other writes its input over the reviewed
  thread and its client goes away, and the ticket that shows done has nothing to
  replay. It leaves out edited tickets too (`EditAsked`): an edit or a claim may
  store a state that was read before the last review.
- A stream opened before another one finishes runs the finished ticket again with
  Postgres, on its stale copy of the record (`main.py:177` and `:185`), and in
  memory a finished ticket is run again once it is closed or in error. No property
  forbids it; `DoneIsReviewedAtLast` says what is left when such a run has ended.
- `ApprovalSticks` holds in memory only: `approval_lost` refutes it with Postgres.
- The session's properties are about one session over Postgres. With the
  in-memory registry a restart takes the ticket away and the session does not
  notice; a second session could stream the same ticket only by knowing its id,
  which the UI gives it no way to.
- `ShownIsServed` leaves out tickets in `unsure`: `kept_prior_draft` shows what
  happens to one.

### Runs that refute what the documentation says

| run | the code does | the text says |
|---|---|---|
| `approval_lost` | with Postgres a run saves `approved = false` over an approval given meanwhile | `persistence.py:8` "behaviourally identical, just non-durable" |
| `kept_prior_draft` | a PATCH that fails or is given up after it has stored the draft: the session keeps the old one | `services/ui/components/draft_panel.py:75` "Could not re-evaluate (kept prior draft)" |
| `stale_handle` | a cached handle outlives the collection: after a rebuild every lookup raises until the orchestrator restarts | `retriever.py:66` "Lazy singleton handle to the persisted ``estc`` collection" |

Eight more statements of the documentation are written down as definitions that
no run checks, because TLC refutes them by behaviours as short as these:

- `ClosedIsFinal` (`TicketService`): the stream of a closed ticket runs it again;
  `persistence.py:19` gives "pending -> running -> done|error|closed".
- `DoneFrameIsTerminal` (`TicketService`) when requests overlap, as above;
  `main.py:131` calls it the "Terminal state".
- `BugDraftCitesIssue` (`TriageGraph`): when both searches come back empty the
  bug draft has no issue number; `bug_agent.py:26`: "guarantee at least one ref".
- `ClaimsStayInLog` (`TicketService`): two claims race, each reads the log, appends
  and writes it back; one marker is lost. `agent_state.py:29`: "Append-only audit
  trail".
- `GetRehydrates` (`TicketService`): GET of a ticket that was not run is a 500,
  since an empty thread is no `AgentState`; `main.py:224`: "lets the UI re-hydrate
  after a page refresh". No code calls `get_state`, so the UI never does.
- `RunningAdvances` (`TicketService`): a disconnect leaves the ticket running, since
  `CancelledError` is no `Exception` (`main.py:208`); `persistence.py:19`: status
  "advances".
- `HealthyMeansReady` (`Startup`): the classifier answers its probe with 200 with or
  without a model, and `docker-compose.yml:23` looks at the status only; the comment
  at `classifier_api/app/main.py:29` has the health check reflect a ready model.
- `EveryResponseIsTagged` (`Gateway`): the 500 of an unhandled exception is sent
  outside `RequestIdMiddleware`; `main.py:94` and the README promise the header
  on every response.

### Fairness

`TriageGraph` assumes weak fairness of the run's steps together: every await in
the graph completes or raises. The code justifies it where it waits: the
classifier's client has a 5 s timeout, the retry loop is bounded, tools and
retrieval end or raise, and a model call that never returned would be the
provider's client hanging beyond its own timeout. `TicketService` assumes weak
fairness of each request's steps: the event loop resumes every coroutine whose
await has completed. Requests, disconnects and restarts are never assumed to
happen. `OpsCenter` assumes that of the service's requests and weak fairness of
the script's steps together: a script that was started runs on, every call of it
ends by an answer, a failure or a timeout, all of which the code sets. Clicks are
not assumed. `Startup` assumes that a start goes on (every step of it ends or
raises) and that compose probes the classifier, as its 10 s interval says;
outages, repairs and restarts are never assumed. `KnowledgeBase` and `Gateway`
have safety properties only and assume none.

## Proofs

All theorems hold for every value of the constants under the assumptions the
modules name: integer scores (`ScoresAssumption`), any labels, any number of
tickets, requests, runs, faults, ingests, lookups and corpora, any allowance.

`TriageNodesProofs` bounds the arithmetic: `Round4Bounds`, `CombineBounds`, and
from them `UngroundedIsBelowThreshold` (0.65 is enough, whatever the classifier
answered) and `GroundedMeetsThreshold` (rounding moves the threshold by at most
half of the fourth decimal).

`TriageGraphProofs`. None of the properties is inductive: that an end state is
earned depends on what was true when the worker drafted, and that on classify.
`RunInvariant` says per node what is known there (`ClassifyInv`, `WorkerInv`,
`DraftedInv`, `ReviewInv`, with `RetryInv` for the loop), and has one lemma per
group of actions. From it follow `TypeCorrectness`, `AutoApprovalSafety`,
`FinalStateCoherence`, `AssertedFactsSurvive`, `RetryIsBounded`,
`ConfidenceIsMonotone`, and
`SafetyRefinement`: every step of the run is a step of `Triage` or a stutter.

`TicketServiceProofs`. `ServiceInvariant` adds to the type and to the two state
properties that a busy request names a ticket, so that a save hits the record.
`OwnedStep` is the core: a step keeps `RunningIsOwned` if the request goes on
owning the ticket it shows as running, or leaves the record alone without having
owned it; `QuietStep` and `SavingStep` reduce every action to it. It gives
`RunningTicketsAreOwned` and `ClosedTicketsAreApproved` for both registries, and
for the in-memory one `ApprovalSticksInMemory`, because there a save carries the
approval of that very moment. `OverlappingRunsEndReviewed` holds of both, for
any number of overlapping requests of any kind: its invariant follows the *last
writer* of the thread of a ticket nobody edits (`LastWriter`): it has reviewed what
it stored, is still at work, or was cut short. That a ticket which shows done has a
thread at all is `HasThread`.
`RequestProceeds`, `RequestSaves` and `ElsewhereSame` sum up what a step of a
request does, to itself and to other tickets; the proofs of the session use them
too.

Five theorems of the service need a restriction, the one its run has.
`VerdictsMatchWithoutClaims`, for any number of overlapping streams, reads,
approvals and edits: a request writes a whole state, so it is enough that the
state it *holds* is coherent whatever has become of the thread. `HeldFacts` says
so at each await: before the worker nothing of an earlier run is left
(`Unworked`), before the supervisor what it is about to approve is grounded and no
lockout (`Unreviewed`), and an edit stores a coherent state. A claim, which writes
lines read from one state into another, is what breaks this.
With one request in
flight at a time (`MaxInFlight = 1`, finitely many `Requests`, since their number
in flight is a cardinality) claims are covered as well: `SerialInvariant` has that
a ticket has one request in progress (`Alone`), and what that one knows
(`KnowsTicket`): its record and state are the stored ones, and when it is about to
finish or to send the done frame the thread is reviewed (`Terminal`). It gives
`FinishedTicketsCanBeReplayed`, `SerialVerdicts`, and with `SerialChanges`, which
bounds what a step does to a thread, `DoneFramesAreTerminal` and `LogsOnlyGrow`.

`OpsCenterProofs`, for a durable registry. `SessionIsAClient` is the bridge: every
step of the session leaves the service alone or is one of its operations, so
what is proved of the service holds under the session. `CenterInvariant` is the
argument that calls do not overlap where it matters: a request of a stream that
is still busy is the one the script waits for, or else the ticket is no longer
pending in the session, so no further stream of it is opened
(`StreamsAreWatched`, `OneStream`); a draft in the session means the run is over
(`DraftMeansDone`), so approvals and edits meet no run. `TicketsAreRunOnce` and
`ClosedTicketsStayClosed` follow.

`LifecycleProofs` adds what the refinement needs of each ticket (`TicketFacts`):
what a request that acts on a ticket or streams it knows of the record it holds,
that an approved ticket is closed, and that the flag the session saw is the one
the thread has (`SeenIsSo`, `AnswerIsSo`, `FlagsAreKept`). From it
`EscalatedTicketsAreNotApproved`, and `LifecycleRefinement`: every step is a step
of `Lifecycle` or a stutter.

That the session's copy is the stored one (`ShownStatesAreServed`) rests on a
ticket that is not in `unsure` having no operator's call in progress but the one
on the screen (`SoleAct`): what that call has read is then still so when it writes
(`ActBase`), the answer on its way to the script is the stored state (`BodyIsSo`),
and the copies differ only while a modification was stored and its answer not yet
taken (`Written` in `CopiesAgree`).

A session also restores what the service promises only to requests that do not
overlap, though under it they do: a call that was given up goes on in the service
while the next one is made. `ReviewFacts` has that the one stream of a ticket
finds it as it left it (`RunsKnow`), and that an operator's call, whose base another
one may have changed since, holds nothing of another run (`ActsFit`: same verdict,
flag, context and intent as the thread, `SameReview`). So
`SessionTicketsCanBeReplayed`, `SessionVerdicts` and `SessionDoneFrames` hold of
`CenterSpec`. `LogsAppendOnly` does not: of a call that was given up and the next
one, either can lose the other's line.

`StartupProofs`. `RecordsKeepTheirThreads` rests on `store` and `saver` being the
same home at every moment, which `Swap` keeps, and on a pool
being held just then.

`KnowledgeBaseProofs`. That a reported index is whole needs `AddedInOrder`: a
collection is at any moment the head of its builder's corpus, as long as its
length says. That racing ingests leave an index needs `LiveIsOwned` (whoever has
the name is adding, has reported or was killed) and `DropIsFollowed` (if nobody
has it and somebody got as far as dropping, somebody is about to create, or was
killed). With the types these are `IndexInvariance`, and `ReportedIndexStaysWhole`
and `SomeIngestSurvives` follow, for any batch size and any number of ingests.

For a lookup the work is in the loop. `LoopIsDefined` shows that the recursive
function exists, `TurnOfTheLoop` that one turn keeps `HitsUpTo`: the hits are
parents of the children seen so far, all of them unless there are `K`, and before
each come exactly the parents that are nearer; `CountingUp` (a set that has 0 and,
with each number, the next one has them all, from the least number it would lack)
carries it to the end. `NearestAreFetched` says that a query leaves no nearer child
out and returns all children or `n_results`. `FewParentsFit` is the arithmetic of
the over-fetch: the children of fewer than `K` parents, each with so few that `K - 1`
times as many are less than `OverFetch * K`, are themselves fewer than that
(`PlacesFit` counts them, `NextShare` adds them up). `AnswerIsRight` puts these
together, and `SearchInvariant` carries it, with the types and the fact that a
lookup under way has its ranking and its handle, over the steps:
`KnowledgeBaseTypes`, `LookupsFindTheBest`, `OverFetchIsEnough`. The assumptions are
that a chunk has one of the two domains, which `rag/ingest.py:87-90` gives it, and
that a ranking names no chunk twice.

`GatewayProofs`. `LimiterInvariant` is a budget read in both directions. `Paid`:
what a window has let pass plus the tokens now is at most the capacity plus the
refill since the window began; `AllowanceHolds` is what remains without the
tokens. `Kept`: since the last admission no refill has been lost, so the tokens
are at least that refill, up to the capacity; `RefusalsAreFree` follows, since a
refusal needs less than one token. Both count tokens as they would be refilled
now, so that the passing of time keeps them without touching a bucket
(`TickStep`), and so does a refusal, which stores just that number.

Only model-checked: the liveness properties (`RequestsAreAnswered`,
`RunningResolves`, `TicketsSettle`, `Boots`, `ModelRecovers`, and
`ImplementsPromise` beyond its safety part), since the prover reasons neither about
fairness nor about `ENABLED`. Every other property of the passing runs is a theorem,
under the restriction its run has or a weaker one.

## Not modelled

- Wording of prompts, templates and frames; SSE framing; layout of the UI, the
  confidence badge and the parsing of a customer's tier for display.
- The agent map's timeline. (It is rebuilt from the log when the session has none,
  by `_hydrate_from_logs`, `agent_map.py:35-46`, which knows no tag of
  `lockout_agent`, so that row is missing; only display depends on it.)
- The classifier's inference, training, evaluation and data generation: numerics.
- Configuration and tracing: environment variables read at start.
- `list_delinquent_accounts`, the commit and the deployment tool: nothing in the
  graph calls them, and they keep no state. The Postgres tools' lazy pool
  (`mcp_postgres/server.py:54`) looks like a race of two first callers, but
  `AsyncConnectionPool.open()` does not wait and gives way to nobody there.
- The pool that is left open when a start falls back (`persistence.py:109`):
  nothing uses it again.
- Images and SQL: configuration.

## Plan

Done: all modules above with their runs and theorems. Left, in this order:

1. Several sessions of the UI over one service.
2. Proofs: what of the session's theorems holds for the in-memory registry between
   two restarts.
