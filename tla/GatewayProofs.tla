--------------------------- MODULE GatewayProofs ---------------------------
(* For every allowance, every set of addresses and requests and every clock:  *)
(* the limiter's budget over any stretch of time, and that refusals are free. *)
(* Tokens only change when time passes, when a bucket is stored and when it   *)
(* is charged, so the invariant is one budget equation in each direction.     *)
EXTENDS Gateway, TLAPS

(* The smaller of two integers, as the provers see it. *)
LEMMA LeastFacts ==
    ASSUME NEW x \in Int, NEW y \in Int
    PROVE  /\ Least(x, y) \in Int
           /\ Least(x, y) =< x
           /\ Least(x, y) =< y
           /\ Least(x, y) = x \/ Least(x, y) = y
  BY DEF Least

(* Multiplying the elapsed seconds by the rate distributes over a delay. *)
LEMMA Elapsed ==
    ASSUME NEW p \in Nat, NEW t \in Int, NEW s \in Int, NEW d \in Nat
    PROVE  /\ (t + d - s) * p = (t - s) * p + d * p
           /\ p * (t + d - s) = p * (t - s) + p * d
           /\ d * p = p * d
           /\ p * d \in Nat
  OBVIOUS

LEMMA ElapsedType ==
    ASSUME NEW p \in Nat, NEW t \in Int, NEW s \in Int, s =< t
    PROVE  (t - s) * p \in Nat /\ p * (t - s) \in Nat /\ (t - s) * p = p * (t - s)
  <1>1. t - s \in Nat
    OBVIOUS
  <1> QED BY <1>1

LEMMA CapacityType == Enabled => PerMin \in Nat /\ Capacity \in Nat /\ Capacity >= OneToken
  BY GatewayAssumption DEF Enabled, Capacity, OneToken

(* A bucket, stored or not yet, holds no more than the capacity. *)
LEMMA TokensType ==
    ASSUME TypeOK, Enabled, NEW a \in Addresses
    PROVE  /\ Bucket(a).tokens \in Nat /\ Bucket(a).tokens =< Capacity
           /\ Bucket(a).last \in Nat /\ Bucket(a).last =< now
           /\ Tokens(a) \in Nat /\ Tokens(a) =< Capacity
  <1>1. /\ Bucket(a).tokens \in Nat /\ Bucket(a).tokens =< Capacity
        /\ Bucket(a).last \in Nat /\ Bucket(a).last =< now
    <2>1. CASE a \in DOMAIN buckets
      BY <2>1 DEF TypeOK, Bucket
    <2>2. CASE a \notin DOMAIN buckets
      BY <2>2, CapacityType DEF TypeOK, Bucket
    <2> QED BY <2>1, <2>2
  <1>2. (now - Bucket(a).last) * PerMin \in Nat
    BY <1>1, CapacityType, ElapsedType DEF TypeOK
  <1> QED BY <1>1, <1>2, CapacityType DEF Tokens, Least

(* Storing a bucket fixes its tokens now and touches no other address. *)
LEMMA StoreTokens ==
    ASSUME TypeOK, Enabled, NEW a \in Addresses,
           NEW t \in Nat, t =< Capacity, Store(a, t), now' = now
    PROVE  /\ DOMAIN buckets' \subseteq Addresses
           /\ \A b \in DOMAIN buckets' : /\ buckets'[b] \in [tokens : Nat, last : Nat]
                                         /\ buckets'[b].tokens =< Capacity
                                         /\ buckets'[b].last =< now'
           /\ Tokens(a)' = t
           /\ \A b \in Addresses \ {a} : Tokens(b)' = Tokens(b)
  <1>1. /\ DOMAIN buckets' = DOMAIN buckets \cup {a}
        /\ buckets'[a] = [tokens |-> t, last |-> now]
        /\ \A b \in DOMAIN buckets \ {a} : buckets'[b] = buckets[b]
    BY DEF Store
  <1>2. now \in Nat /\ now - now = 0 /\ 0 * PerMin = 0 /\ t + 0 = t
    BY CapacityType DEF TypeOK
  <1>3. Tokens(a)' = t
    BY <1>1, <1>2, CapacityType DEF Tokens, Bucket, Least, Capacity
  <1>4. ASSUME NEW b \in Addresses \ {a} PROVE Tokens(b)' = Tokens(b)
    <2>1. Bucket(b)' = Bucket(b)
      BY <1>1 DEF Bucket, Capacity
    <2> QED BY <2>1 DEF Tokens, Capacity
  <1>5. DOMAIN buckets' \subseteq Addresses
    BY <1>1 DEF TypeOK
  <1>6. ASSUME NEW b \in DOMAIN buckets'
        PROVE  /\ buckets'[b] \in [tokens : Nat, last : Nat]
               /\ buckets'[b].tokens =< Capacity
               /\ buckets'[b].last =< now'
    <2>1. CASE b = a
      BY <2>1, <1>1, <1>2
    <2>2. CASE b # a
      BY <2>2, <1>1 DEF TypeOK
    <2> QED BY <2>1, <2>2
  <1> QED BY <1>3, <1>4, <1>5, <1>6

-----------------------------------------------------------------------------
(* What an answer, an entry or an error does to the table of requests. *)
LEMMA RequestMoves ==
    ASSUME TypeOK, NEW r \in Requests, NEW s \in Statuses, NEW t \in BOOLEAN,
           request' = [request EXCEPT ![r] = [@ EXCEPT !.status = s, !.tagged = t]]
    PROVE  request' \in [Requests -> RequestStates]
  <1>1. request[r] \in RequestStates
    BY DEF TypeOK
  <1>2. [request[r] EXCEPT !.status = s] \in RequestStates
    BY <1>1 DEF RequestStates
  <1>3. [[request[r] EXCEPT !.status = s] EXCEPT !.tagged = t] \in RequestStates
    BY <1>2 DEF RequestStates
  <1>4. [request[r] EXCEPT !.status = s, !.tagged = t]
          = [[request[r] EXCEPT !.status = s] EXCEPT !.tagged = t]
    BY <1>1 DEF RequestStates
  <1> QED BY <1>3, <1>4 DEF TypeOK

LEMMA AnswerType ==
    ASSUME TypeOK, NEW r \in Requests, NEW s \in Answers, Answer(r, s)
    PROVE  request' \in [Requests -> RequestStates]
  BY RequestMoves DEF Answer, Statuses

LEMMA EnterType ==
    ASSUME TypeOK, NEW r \in Requests, NEW s \in Statuses,
           request' = [request EXCEPT ![r] = [@ EXCEPT !.status = s]]
    PROVE  request' \in [Requests -> RequestStates]
  <1>1. [request[r] EXCEPT !.status = s] \in RequestStates
    BY DEF TypeOK, RequestStates
  <1> QED BY <1>1 DEF TypeOK

LEMMA AuthoriseType ==
    ASSUME TypeOK, NEW r \in Requests, NEW path, NEW keyed, Authorise(r, path, keyed)
    PROVE  request' \in [Requests -> RequestStates]
  <1>1. CASE Answer(r, "401")
    BY <1>1, AnswerType DEF Answers
  <1>2. CASE Enter(r)
    BY <1>2, EnterType DEF Enter, Statuses
  <1> QED BY <1>1, <1>2 DEF Authorise

LEMMA SenderType ==
    ASSUME TypeOK, NEW r \in Requests
    PROVE  request[r].from \in Addresses
  BY DEF TypeOK, RequestStates

-----------------------------------------------------------------------------
(* The invariant, action by action. *)

LEMMA InitInvariant == Init => LimiterInvariant
  <1> SUFFICES ASSUME Init PROVE LimiterInvariant
    OBVIOUS
  <1>1. TypeOK
    <2>1. now \in Nat /\ window \in [start : Nat, passed : [Addresses -> Nat]] /\ window.start =< now
      BY DEF Init
    <2>2. admittedAt \in [Addresses -> Nat] /\ \A a \in Addresses : admittedAt[a] =< now
      BY DEF Init
    <2>3. request \in [Requests -> RequestStates]
      BY DEF Init, RequestStates, Statuses
    <2>4. DOMAIN buckets = {}
      BY DEF Init
    <2> QED BY <2>1, <2>2, <2>3, <2>4 DEF TypeOK
  <1>2. ASSUME Enabled, NEW a \in Addresses
        PROVE  /\ OneToken * window.passed[a] + Tokens(a)
                     =< Capacity + PerMin * (now - window.start)
               /\ Least(Capacity, PerMin * (now - admittedAt[a])) =< Tokens(a)
    <2>1. now = 0 /\ window.passed[a] = 0 /\ window.start = 0 /\ admittedAt[a] = 0
      BY DEF Init
    <2>2. 0 - 0 = 0 /\ PerMin * 0 = 0 /\ OneToken * 0 = 0
      BY <1>2, CapacityType DEF OneToken
    <2>3. Tokens(a) \in Nat /\ Tokens(a) =< Capacity
      BY <1>1, <1>2, TokensType
    <2> QED BY <2>1, <2>2, <2>3, CapacityType, <1>2 DEF Least
  <1> QED BY <1>1, <1>2 DEF LimiterInvariant, Paid, Kept

(* Nothing the limiter keeps moves. *)
LEMMA LimiterStill ==
    ASSUME LimiterInvariant, UNCHANGED <<now, limiter>>,
           request' \in [Requests -> RequestStates]
    PROVE  LimiterInvariant'
  <1>1. \A a : Bucket(a)' = Bucket(a)
    BY DEF Bucket, limiter, Capacity
  <1>2. \A a : Tokens(a)' = Tokens(a)
    BY <1>1 DEF Tokens, Capacity
  <1>3. TypeOK'
    BY DEF LimiterInvariant, TypeOK, limiter, Capacity
  <1>4. Paid' <=> Paid
    BY <1>2 DEF Paid, limiter, Capacity
  <1>5. Kept' <=> Kept
    BY <1>2 DEF Kept, limiter, Capacity
  <1> QED BY <1>3, <1>4, <1>5 DEF LimiterInvariant, Enabled

LEMMA ThrottleStep ==
    ASSUME LimiterInvariant, NEW r \in Requests, NEW path, Throttle(r, path)
    PROVE  LimiterInvariant'
  <1> PICK a \in Addresses : a = request[r].from
    BY SenderType DEF LimiterInvariant
  <1>0. TypeOK /\ Enabled /\ Paid /\ Kept /\ a \in Addresses
    BY DEF LimiterInvariant, Throttle, Limited
  <1>1. Tokens(a) \in Nat /\ Tokens(a) =< Capacity
    BY <1>0, TokensType
  <1>2. Store(a, Tokens(a)) /\ UNCHANGED <<now, window, admittedAt>>
    BY DEF Throttle, Refuse
  <1>3. /\ DOMAIN buckets' \subseteq Addresses
        /\ \A b \in DOMAIN buckets' : /\ buckets'[b] \in [tokens : Nat, last : Nat]
                                      /\ buckets'[b].tokens =< Capacity
                                      /\ buckets'[b].last =< now'
        /\ \A b \in Addresses : Tokens(b)' = Tokens(b)
    BY <1>0, <1>1, <1>2, StoreTokens
  <1>4. request' \in [Requests -> RequestStates]
    BY <1>0, AnswerType DEF Throttle, Answers
  <1>5. TypeOK'
    BY <1>0, <1>2, <1>3, <1>4 DEF TypeOK, Capacity
  <1>6. Paid'
    BY <1>0, <1>2, <1>3 DEF Paid, Capacity
  <1>7. Kept'
    BY <1>0, <1>2, <1>3 DEF Kept, Capacity
  <1> QED BY <1>5, <1>6, <1>7 DEF LimiterInvariant

LEMMA PassStep ==
    ASSUME LimiterInvariant, NEW r \in Requests, NEW path, NEW keyed, Pass(r, path, keyed)
    PROVE  LimiterInvariant'
  <1> PICK a \in Addresses : a = request[r].from
    BY SenderType DEF LimiterInvariant
  <1> PICK t : t = Tokens(a) - OneToken
    OBVIOUS
  <1>0. TypeOK /\ Enabled /\ Paid /\ Kept /\ a \in Addresses
    BY DEF LimiterInvariant, Pass, Limited
  <1>1. /\ Tokens(a) \in Nat /\ Tokens(a) =< Capacity /\ Tokens(a) >= OneToken
        /\ Store(a, t) /\ now' = now
        /\ window' = [window EXCEPT !.passed[a] = @ + 1]
        /\ admittedAt' = [admittedAt EXCEPT ![a] = now]
    BY <1>0, TokensType DEF Pass, Allow
  <1>2. t \in Nat /\ t =< Capacity /\ Tokens(a) = t + OneToken
    BY <1>0, <1>1, CapacityType DEF OneToken
  <1>3. /\ DOMAIN buckets' \subseteq Addresses
        /\ \A b \in DOMAIN buckets' : /\ buckets'[b] \in [tokens : Nat, last : Nat]
                                      /\ buckets'[b].tokens =< Capacity
                                      /\ buckets'[b].last =< now'
        /\ Tokens(a)' = t
        /\ \A b \in Addresses \ {a} : Tokens(b)' = Tokens(b)
    BY <1>0, <1>1, <1>2, StoreTokens
  <1>4. request' \in [Requests -> RequestStates]
    BY <1>0, AuthoriseType DEF Pass
  <1>5. /\ window' \in [start : Nat, passed : [Addresses -> Nat]]
        /\ window'.start = window.start
        /\ window'.passed[a] = window.passed[a] + 1
        /\ \A b \in Addresses \ {a} : window'.passed[b] = window.passed[b]
    BY <1>0, <1>1 DEF TypeOK
  <1>6. /\ admittedAt' \in [Addresses -> Nat]
        /\ admittedAt'[a] = now
        /\ \A b \in Addresses \ {a} : admittedAt'[b] = admittedAt[b]
    BY <1>0, <1>1 DEF TypeOK
  <1>7. TypeOK'
    BY <1>0, <1>1, <1>3, <1>4, <1>5, <1>6 DEF TypeOK, Capacity
  <1>8. ASSUME NEW b \in Addresses
        PROVE  OneToken * window'.passed[b] + Tokens(b)'
                  =< Capacity + PerMin * (now' - window'.start)
    <2>1. CASE b = a
      <3>1. window.passed[a] \in Nat
        BY <1>0 DEF TypeOK
      <3>2. OneToken * (window.passed[a] + 1) + t = OneToken * window.passed[a] + Tokens(a)
        BY <3>1, <1>1, <1>2 DEF OneToken
      <3>3. OneToken * window.passed[a] + Tokens(a)
               =< Capacity + PerMin * (now - window.start)
        BY <1>0 DEF Paid
      <3> QED BY <2>1, <3>2, <3>3, <1>1, <1>3, <1>5
    <2>2. CASE b # a
      BY <2>2, <1>0, <1>1, <1>3, <1>5 DEF Paid
    <2> QED BY <2>1, <2>2
  <1>9. ASSUME NEW b \in Addresses
        PROVE  Least(Capacity, PerMin * (now' - admittedAt'[b])) =< Tokens(b)'
    <2>1. CASE b = a
      <3>1. now \in Nat /\ now - now = 0 /\ PerMin * 0 = 0
        BY <1>0, CapacityType DEF TypeOK
      <3>2. Least(Capacity, 0) = 0
        BY <1>0, CapacityType DEF Least, OneToken
      <3>3. PerMin * (now' - admittedAt'[a]) = 0
        BY <3>1, <1>1, <1>6
      <3>4. Least(Capacity, PerMin * (now' - admittedAt'[a])) = 0
        BY <3>2, <3>3
      <3>5. Tokens(a)' = t
        BY <1>3
      <3>6. 0 =< t
        <4>1. t \in Nat
          BY <1>2
        <4> QED BY <4>1
      <3> QED BY <2>1, <3>4, <3>5, <3>6
    <2>2. CASE b # a
      BY <2>2, <1>0, <1>1, <1>3, <1>6 DEF Kept
    <2> QED BY <2>1, <2>2
  <1> QED BY <1>7, <1>8, <1>9 DEF LimiterInvariant, Paid, Kept, Capacity

LEMMA ObserveStep ==
    ASSUME LimiterInvariant, Observe
    PROVE  LimiterInvariant'
  <1>1. /\ window'.start = now /\ \A a \in Addresses : window'.passed[a] = 0
        /\ UNCHANGED <<now, buckets, request, admittedAt>>
    BY DEF Observe
  <1>2. TypeOK'
    BY <1>1 DEF LimiterInvariant, TypeOK, Observe, Capacity
  <1>3. \A a : Bucket(a)' = Bucket(a)
    BY <1>1 DEF Bucket, Capacity
  <1>4. \A a : Tokens(a)' = Tokens(a)
    BY <1>1, <1>3 DEF Tokens, Capacity
  <1>5. ASSUME Enabled PROVE Paid'
    <2> SUFFICES ASSUME NEW a \in Addresses
                 PROVE  OneToken * window'.passed[a] + Tokens(a)'
                           =< Capacity + PerMin * (now' - window'.start)
      BY DEF Paid, Capacity
    <2>1. Tokens(a) \in Nat /\ Tokens(a) =< Capacity
      BY <1>5, TokensType DEF LimiterInvariant
    <2>2. OneToken * 0 = 0 /\ now - now = 0 /\ PerMin * 0 = 0
      BY <1>5, CapacityType DEF OneToken, LimiterInvariant, TypeOK
    <2> QED BY <2>1, <2>2, <1>1, <1>4, <1>5, CapacityType
  <1>6. ASSUME Enabled PROVE Kept'
    BY <1>6, <1>1, <1>4 DEF LimiterInvariant, Kept, Capacity
  <1> QED BY <1>2, <1>5, <1>6 DEF LimiterInvariant, Enabled

LEMMA TickStep ==
    ASSUME LimiterInvariant, Tick
    PROVE  LimiterInvariant'
  <1>a. PICK d \in Delays : now' = now + d
    BY DEF Tick
  <1>0. d \in Nat /\ now' = now + d /\ UNCHANGED <<request, limiter>> /\ TypeOK
    BY <1>a, GatewayAssumption DEF Tick, LimiterInvariant
  <1>1. TypeOK'
    BY <1>0 DEF TypeOK, limiter, Capacity
  <1>2. ASSUME Enabled, NEW a \in Addresses
        PROVE  /\ OneToken * window'.passed[a] + Tokens(a)'
                     =< Capacity + PerMin * (now' - window'.start)
               /\ Least(Capacity, PerMin * (now' - admittedAt'[a])) =< Tokens(a)'
    <2> DEFINE x == Bucket(a).tokens + (now - Bucket(a).last) * PerMin
               y == PerMin * d
               z == PerMin * (now - admittedAt[a])
               w == PerMin * (now - window.start)
    <2>1. PerMin \in Nat /\ Capacity \in Nat
      BY <1>2, CapacityType
    <2>2. /\ Bucket(a).tokens \in Nat /\ Bucket(a).tokens =< Capacity
          /\ Bucket(a).last \in Nat /\ Bucket(a).last =< now
      BY <1>0, <1>2, TokensType
    <2>3. /\ now \in Nat /\ window.start \in Nat /\ window.start =< now
          /\ window.passed[a] \in Nat /\ admittedAt[a] \in Nat /\ admittedAt[a] =< now
      BY <1>0 DEF TypeOK
    <2>4. x \in Nat /\ y \in Nat /\ z \in Nat /\ w \in Nat
      <3>1. (now - Bucket(a).last) * PerMin \in Nat
        BY <2>1, <2>2, <2>3, ElapsedType
      <3>2. z \in Nat
        BY <2>1, <2>3, ElapsedType
      <3>3. w \in Nat
        BY <2>1, <2>3, ElapsedType
      <3>4. y \in Nat
        BY <2>1, <1>0
      <3> QED BY <3>1, <3>2, <3>3, <3>4, <2>2
    <2>5. Tokens(a) = Least(Capacity, x)
      BY DEF Tokens
    <2>6. /\ PerMin * (now' - admittedAt'[a]) = z + y
          /\ PerMin * (now' - window'.start) = w + y
      <3>1. PerMin * (now + d - admittedAt[a]) = z + y
        BY <1>0, <2>1, <2>3, Elapsed
      <3>2. PerMin * (now + d - window.start) = w + y
        BY <1>0, <2>1, <2>3, Elapsed
      <3>3. /\ now' - admittedAt'[a] = now + d - admittedAt[a]
            /\ now' - window'.start = now + d - window.start
        <4>1. admittedAt' = admittedAt /\ window' = window
          BY <1>0 DEF limiter
        <4> QED BY <4>1, <1>0, <2>3
      <3> HIDE DEF y, z, w
      <3> QED BY <3>1, <3>2, <3>3
    <2>7. \/ Tokens(a)' = Least(Capacity, x + y)
          \/ a \notin DOMAIN buckets /\ Tokens(a)' = Capacity
      <3>1. CASE a \in DOMAIN buckets
        <4>1. Bucket(a)' = Bucket(a)
          BY <3>1, <1>0 DEF Bucket, limiter
        <4>2. (now' - Bucket(a).last) * PerMin = (now - Bucket(a).last) * PerMin + y
          <5>1. (now + d - Bucket(a).last) * PerMin
                  = (now - Bucket(a).last) * PerMin + d * PerMin /\ d * PerMin = y
            BY <1>0, <2>1, <2>2, <2>3, Elapsed
          <5>2. now' - Bucket(a).last = now + d - Bucket(a).last
            BY <1>0, <2>2, <2>3
          <5> HIDE DEF y
          <5> QED BY <5>1, <5>2
        <4>3. (now - Bucket(a).last) * PerMin \in Nat
          BY <2>1, <2>2, <2>3, ElapsedType
        <4>4. Bucket(a).tokens + ((now - Bucket(a).last) * PerMin + y) = x + y
          BY <4>3, <2>2, <2>4
        <4>5. Tokens(a)' = Least(Capacity, Bucket(a).tokens + (now' - Bucket(a).last) * PerMin)
          BY <4>1 DEF Tokens, Capacity
        <4> HIDE DEF x, y
        <4> QED BY <4>2, <4>4, <4>5
      <3>2. CASE a \notin DOMAIN buckets
        <4>1. Bucket(a)' = [tokens |-> Capacity, last |-> now']
          BY <3>2, <1>0 DEF Bucket, limiter, Capacity
        <4>2. now' - now' = 0 /\ 0 * PerMin = 0 /\ Capacity + 0 = Capacity
          BY <1>0, <2>1, <2>3
        <4> QED BY <3>2, <4>1, <4>2 DEF Tokens, Capacity, Least
      <3> QED BY <3>1, <3>2
    <2>8. /\ OneToken * window.passed[a] + Least(Capacity, x) =< Capacity + w
          /\ Least(Capacity, z) =< Least(Capacity, x)
      BY <1>2, <2>5 DEF LimiterInvariant, Paid, Kept
    <2>9. a \notin DOMAIN buckets => x = Capacity
      <3> HAVE a \notin DOMAIN buckets
      <3>1. Bucket(a) = [tokens |-> Capacity, last |-> now]
        BY DEF Bucket
      <3>2. now - now = 0 /\ 0 * PerMin = 0 /\ Capacity + 0 = Capacity
        BY <2>1, <2>3
      <3> QED BY <3>1, <3>2
    <2>10. Tokens(a)' = Least(Capacity, x + y)
      <3>1. Least(Capacity, Capacity + y) = Capacity
        BY <2>1, <2>4 DEF Least
      <3>2. a \notin DOMAIN buckets => Least(Capacity, x + y) = Capacity
        BY <2>9, <3>1
      <3> QED BY <2>7, <3>2
    <2>11. OneToken * window.passed[a] \in Nat
      BY <2>3 DEF OneToken
    <2>12. window'.passed[a] = window.passed[a]
      BY <1>0 DEF limiter
    <2> HIDE DEF x, y, z, w
    <2>13. OneToken * window.passed[a] + Least(Capacity, x + y) =< Capacity + (w + y)
      BY <2>1, <2>4, <2>8, <2>11 DEF Least
    <2>14. Least(Capacity, z + y) =< Least(Capacity, x + y)
      BY <2>1, <2>4, <2>8 DEF Least
    <2> QED BY <2>6, <2>10, <2>12, <2>13, <2>14
  <1> QED BY <1>1, <1>2 DEF LimiterInvariant, Paid, Kept, Enabled, Capacity

LEMMA NextInvariant == LimiterInvariant /\ [Next]_vars => LimiterInvariant'
  <1> SUFFICES ASSUME LimiterInvariant, [Next]_vars PROVE LimiterInvariant'
    OBVIOUS
  <1>0. TypeOK
    BY DEF LimiterInvariant
  <1>1. ASSUME NEW r \in Requests, NEW path \in Paths, Throttle(r, path)
        PROVE  LimiterInvariant'
    BY <1>1, ThrottleStep
  <1>2. ASSUME NEW r \in Requests, NEW path \in Paths, NEW keyed \in BOOLEAN,
               Pass(r, path, keyed)
        PROVE  LimiterInvariant'
    BY <1>2, PassStep
  <1>3. ASSUME NEW r \in Requests, NEW path \in Paths, NEW keyed \in BOOLEAN,
               Bypass(r, path, keyed)
        PROVE  LimiterInvariant'
    BY <1>0, <1>3, AuthoriseType, LimiterStill DEF Bypass
  <1>4. ASSUME NEW r \in Requests, Respond(r) PROVE LimiterInvariant'
    BY <1>0, <1>4, AnswerType, LimiterStill DEF Respond, Answers
  <1>5. ASSUME NEW r \in Requests, Raise(r) PROVE LimiterInvariant'
    BY <1>0, <1>5, EnterType, LimiterStill DEF Raise, Statuses, Answers
  <1>6. CASE Observe
    BY <1>6, ObserveStep
  <1>7. CASE Tick
    BY <1>7, TickStep
  <1>8. CASE UNCHANGED vars
    BY <1>0, <1>8, LimiterStill DEF vars, limiter, TypeOK
  <1> QED BY <1>1, <1>2, <1>3, <1>4, <1>5, <1>6, <1>7, <1>8 DEF Next, Receive

-----------------------------------------------------------------------------
(* The limiter's invariant: buckets hold what was not spent and was refilled. *)
THEOREM LimiterInvariance == Spec => []LimiterInvariant
  BY InitInvariant, NextInvariant, PTL DEF Spec

(* Type correctness, with the capacity as the ceiling of every bucket. *)
THEOREM GatewayTypes == Spec => []TypeOK
  <1>1. LimiterInvariant => TypeOK
    BY DEF LimiterInvariant
  <1> QED BY <1>1, LimiterInvariance, PTL

(* For every allowance and every stretch of time an observer may choose, an   *)
(* address passes at most its burst and the refill since (ratelimit.py).      *)
THEOREM AllowanceHolds == Spec => []RateIsBounded
  <1>1. LimiterInvariant => RateIsBounded
    <2> SUFFICES ASSUME LimiterInvariant, Enabled, NEW a \in Addresses
                 PROVE  OneToken * window.passed[a] =< Capacity + PerMin * (now - window.start)
      BY DEF RateIsBounded
    <2>1. OneToken * window.passed[a] + Tokens(a) =< Capacity + PerMin * (now - window.start)
      BY DEF LimiterInvariant, Paid
    <2>2. Tokens(a) \in Nat
      BY TokensType DEF LimiterInvariant
    <2>3. OneToken * window.passed[a] \in Nat
      BY DEF LimiterInvariant, TypeOK, OneToken
    <2>4. PerMin * (now - window.start) \in Nat /\ Capacity \in Nat
      BY CapacityType, ElapsedType DEF LimiterInvariant, TypeOK
    <2> QED BY <2>1, <2>2, <2>3, <2>4
  <1> QED BY <1>1, LimiterInvariance, PTL

(* A refused address was let pass less than one token's refill ago, whatever  *)
(* it attempted since.                                                        *)
THEOREM RefusalsAreFree == Spec => RejectionIsRecent
  <1>1. ASSUME LimiterInvariant, [Next]_vars, NEW r \in Requests,
               request[r].status = "unsent", request'[r].status = "429"
        PROVE  (now - admittedAt[request[r].from]) * PerMin < OneToken
    <2>0. TypeOK
      BY <1>1 DEF LimiterInvariant
    <2>1. PICK path \in Paths : Throttle(r, path)
      <3>1. \A q \in Requests : request[q] \in RequestStates
        BY <2>0 DEF TypeOK
      <3>2. ASSUME NEW q \in Requests, NEW path \in Paths, Throttle(q, path)
            PROVE  Throttle(r, path)
        <4>1. q = r
          BY <1>1, <2>0, <3>2 DEF Throttle, Answer, TypeOK
        <4> QED BY <4>1, <3>2
      <3>3. ASSUME NEW q \in Requests, NEW path, NEW keyed, Authorise(q, path, keyed)
            PROVE  FALSE
        <4>1. CASE Answer(q, "401")
          BY <4>1, <1>1, <2>0, <3>1 DEF Answer, TypeOK, RequestStates
        <4>2. CASE Enter(q)
          BY <4>2, <1>1, <2>0, <3>1 DEF Enter, TypeOK, RequestStates
        <4> QED BY <3>3, <4>1, <4>2 DEF Authorise
      <3>4. ASSUME NEW q \in Requests, Respond(q) \/ Raise(q) PROVE FALSE
        BY <1>1, <2>0, <3>1, <3>4 DEF Respond, Raise, Answer, TypeOK, RequestStates
      <3>5. CASE Observe \/ Tick \/ UNCHANGED vars
        BY <1>1, <3>5 DEF Observe, Tick, vars
      <3> QED BY <1>1, <3>2, <3>3, <3>4, <3>5 DEF Next, Receive, Pass, Bypass
    <2> DEFINE a == request[r].from
    <2>2. Enabled /\ Tokens(a) < OneToken /\ a \in Addresses
      BY <2>0, <2>1, SenderType DEF Throttle, Refuse, Limited
    <2>3. Least(Capacity, PerMin * (now - admittedAt[a])) =< Tokens(a)
      BY <1>1, <2>2 DEF LimiterInvariant, Kept
    <2>4. Tokens(a) \in Nat /\ Capacity \in Nat /\ Capacity >= OneToken /\ PerMin \in Nat
      BY <2>0, <2>2, TokensType, CapacityType
    <2>5. /\ PerMin * (now - admittedAt[a]) \in Nat
          /\ PerMin * (now - admittedAt[a]) = (now - admittedAt[a]) * PerMin
      BY <2>0, <2>2, <2>4, ElapsedType DEF TypeOK
    <2> QED BY <2>2, <2>3, <2>4, <2>5 DEF Least, OneToken
  <1>2. LimiterInvariant /\ [Next]_vars =>
           [\A r \in Requests :
              request[r].status = "unsent" /\ request'[r].status = "429"
                => (now - admittedAt[request[r].from]) * PerMin < OneToken]_vars
    BY <1>1
  <1> QED BY <1>2, LimiterInvariance, PTL DEF Spec, RejectionIsRecent
=============================================================================
