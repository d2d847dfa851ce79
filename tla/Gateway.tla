------------------------------ MODULE Gateway ------------------------------
(* The three pure-ASGI middlewares in front of the ticket endpoints: request  *)
(* id, then rate limit, then API key, then the application (app/main.py).     *)
(*                                                                            *)
(* A request crosses the stack without awaiting, so all three middlewares are *)
(* one step; what it awaits is the application.  The limiter's tokens are     *)
(* counted in sixtieths, which makes its refill of PerMin / 60 tokens per     *)
(* second the integer PerMin, and time passes in whole seconds.               *)
(*                                                                            *)
(* The environment variables are read on every request; here they keep their  *)
(* value (PerMin =< 0 and ~KeyRequired are the disabled middlewares).         *)
EXTENDS Integers

CONSTANTS
    Addresses,    \* what _client_ip makes of a request
    Requests,     \* identities of HTTP requests, each used once
    PerMin,       \* ESTC_RATE_LIMIT_PER_MIN, 0 when it is no integer
    KeyRequired,  \* whether ESTC_API_KEY is set
    Delays,       \* how many seconds may pass in one step
    MaxTime       \* bound on the clock

ASSUME GatewayAssumption ==
    /\ PerMin \in Int
    /\ KeyRequired \in BOOLEAN
    /\ Delays \subseteq Nat
    /\ MaxTime \in Nat

VARIABLES
    now,          \* time.monotonic()
    buckets,      \* _buckets: tokens and time of the last refill, by address
    request,      \* where each request comes from and how it stands
    window,       \* history: what passed since a moment an observer chose
    admittedAt    \* history: when the limiter last passed a request of a

limiter == <<buckets, window, admittedAt>>
vars == <<now, buckets, request, window, admittedAt>>

Paths == {"/healthz", "/docs", "/tickets"}
OneToken == 60
Capacity == OneToken * PerMin
Enabled == PerMin > 0

Answers == {"200", "401", "429", "500"}
Statuses == {"unsent", "in app"} \cup Answers
RequestStates == [from : Addresses, status : Statuses, tagged : BOOLEAN]

TypeOK ==
    /\ now \in Nat
    /\ DOMAIN buckets \subseteq Addresses
    /\ \A a \in DOMAIN buckets :
          /\ buckets[a] \in [tokens : Nat, last : Nat]
          /\ buckets[a].tokens =< Capacity
          /\ buckets[a].last =< now
    /\ request \in [Requests -> RequestStates]
    /\ window \in [start : Nat, passed : [Addresses -> Nat]]
    /\ window.start =< now
    /\ admittedAt \in [Addresses -> Nat]
    /\ \A a \in Addresses : admittedAt[a] =< now

-----------------------------------------------------------------------------
(* The limiter. *)

Least(x, y) == IF x =< y THEN x ELSE y

Bucket(a) ==
    IF a \in DOMAIN buckets THEN buckets[a] ELSE [tokens |-> Capacity, last |-> now]

(* The tokens of an address now: refilled for the time since the last visit. *)
Tokens(a) == Least(Capacity, Bucket(a).tokens + (now - Bucket(a).last) * PerMin)

Store(a, tokens) ==
    buckets' = [b \in DOMAIN buckets \cup {a} |->
                  IF b = a THEN [tokens |-> tokens, last |-> now] ELSE buckets[b]]

Exempt(path) == path = "/healthz"
Limited(path) == Enabled /\ ~Exempt(path)

(* Not the code: the time of a refusal is kept, the refill up to it is not. *)
RefuseForgetsRefill(a) ==
    Tokens(a) < OneToken /\ Store(a, Bucket(a).tokens) /\ UNCHANGED <<window, admittedAt>>

(* _allow, returning False: the bucket is refilled, nothing is taken. *)
Refuse(a) ==
    Tokens(a) < OneToken /\ Store(a, Tokens(a)) /\ UNCHANGED <<window, admittedAt>>

(* Not the code: the bucket's clock is not advanced when a token is taken. *)
AllowKeepsClock(a) ==
    /\ Tokens(a) >= OneToken
    /\ buckets' = [b \in DOMAIN buckets \cup {a} |->
                     IF b = a THEN [tokens |-> Tokens(a) - OneToken, last |-> Bucket(a).last]
                     ELSE buckets[b]]
    /\ window' = [window EXCEPT !.passed[a] = @ + 1]
    /\ admittedAt' = [admittedAt EXCEPT ![a] = now]

(* Not the code: any fraction of a token is enough. *)
AllowOnAnyFraction(a) ==
    /\ Tokens(a) > 0
    /\ Store(a, Tokens(a) - OneToken)
    /\ window' = [window EXCEPT !.passed[a] = @ + 1]
    /\ admittedAt' = [admittedAt EXCEPT ![a] = now]

(* _allow, returning True. *)
Allow(a) ==
    /\ Tokens(a) >= OneToken
    /\ Store(a, Tokens(a) - OneToken)
    /\ window' = [window EXCEPT !.passed[a] = @ + 1]
    /\ admittedAt' = [admittedAt EXCEPT ![a] = now]

-----------------------------------------------------------------------------
(* A request. *)

(* An answer that goes through send_wrapper, which adds X-Request-ID. *)
Answer(r, status) ==
    request' = [request EXCEPT ![r] = [@ EXCEPT !.status = status, !.tagged = TRUE]]

Enter(r) == request' = [request EXCEPT ![r] = [@ EXCEPT !.status = "in app"]]

(* ApiKeyMiddleware: 401, or on to the application. *)
Open(path) == path \in {"/healthz", "/docs"}
Authorise(r, path, keyed) ==
    IF KeyRequired /\ ~Open(path) /\ ~keyed THEN Answer(r, "401") ELSE Enter(r)

(* A request the limiter refuses.  The key is not looked at. *)
Throttle(r, path) ==
    /\ request[r].status = "unsent"
    /\ Limited(path)
    /\ Refuse(request[r].from)
    /\ Answer(r, "429")
    /\ UNCHANGED now

(* A request the limiter charges and hands on. *)
Pass(r, path, keyed) ==
    /\ request[r].status = "unsent"
    /\ Limited(path)
    /\ Allow(request[r].from)
    /\ Authorise(r, path, keyed)
    /\ UNCHANGED now

(* A request the limiter does not look at. *)
Bypass(r, path, keyed) ==
    /\ request[r].status = "unsent"
    /\ ~Limited(path)
    /\ Authorise(r, path, keyed)
    /\ UNCHANGED <<now, limiter>>

(* The application starts a response of its own, an HTTPException included. *)
Respond(r) ==
    /\ request[r].status = "in app"
    /\ Answer(r, "200")
    /\ UNCHANGED <<now, limiter>>

(* An exception leaves the application before a response started: it crosses  *)
(* the three middlewares, which only clean up, and Starlette's outermost      *)
(* ServerErrorMiddleware answers with the server's own send.                  *)
Raise(r) ==
    /\ request[r].status = "in app"
    /\ request' = [request EXCEPT ![r] = [@ EXCEPT !.status = "500"]]
    /\ UNCHANGED <<now, limiter>>

Tick ==
    /\ \E d \in Delays : now + d =< MaxTime /\ now' = now + d
    /\ UNCHANGED <<request, limiter>>

(* An observer starts to count what the limiter lets pass from each address. *)
Observe ==
    /\ window' = [start |-> now, passed |-> [a \in Addresses |-> 0]]
    /\ UNCHANGED <<now, buckets, request, admittedAt>>

Init ==
    /\ now = 0
    /\ buckets = [a \in {} |-> [tokens |-> 0, last |-> 0]]
    /\ \E from \in [Requests -> Addresses] :
          request = [r \in Requests |->
                       [from |-> from[r], status |-> "unsent", tagged |-> FALSE]]
    /\ window = [start |-> 0, passed |-> [a \in Addresses |-> 0]]
    /\ admittedAt = [a \in Addresses |-> 0]

Receive(r) ==
    \E path \in Paths, keyed \in BOOLEAN :
       Throttle(r, path) \/ Pass(r, path, keyed) \/ Bypass(r, path, keyed)

Next ==
    \/ \E r \in Requests : Receive(r) \/ Respond(r) \/ Raise(r)
    \/ Observe
    \/ Tick

Spec == Init /\ [][Next]_vars

-----------------------------------------------------------------------------
(* Properties. *)

(* Over any stretch of time, whoever starts to count and whenever, an address *)
(* gets past the limiter at most its PerMin requests of burst plus PerMin per *)
(* minute elapsed, whether or not the key check turns them away afterwards.   *)
(* This is what ratelimit.py calls the per-minute allowance.                  *)
RateIsBounded ==
    Enabled => \A a \in Addresses :
       OneToken * window.passed[a] =< Capacity + PerMin * (now - window.start)

(* A 429 is only ever given to an address that the limiter let pass less than *)
(* 60 / PerMin seconds ago: refused attempts, however many, do not push the   *)
(* next admission further away, and no address pays for another's requests.   *)
RejectionIsRecent ==
    [][\A r \in Requests :
          request[r].status = "unsent" /\ request'[r].status = "429"
             => (now - admittedAt[request[r].from]) * PerMin < OneToken]_vars

(* main.py:94 and README.md:104: every response carries an X-Request-ID. *)
EveryResponseIsTagged ==
    \A r \in Requests : request[r].status \in Answers => request[r].tagged

-----------------------------------------------------------------------------
(* What the proofs rest on: what a window has let pass is paid for out of its *)
(* first bucket and the refill since, and since the last admission the refill *)
(* has been kept in full, up to the capacity.                                 *)
Paid == \A a \in Addresses :
    OneToken * window.passed[a] + Tokens(a) =< Capacity + PerMin * (now - window.start)
Kept == \A a \in Addresses :
    Least(Capacity, PerMin * (now - admittedAt[a])) =< Tokens(a)
LimiterInvariant == TypeOK /\ (Enabled => Paid /\ Kept)
=============================================================================
