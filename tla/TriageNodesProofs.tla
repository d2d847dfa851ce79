------------------------- MODULE TriageNodesProofs -------------------------
(***************************************************************************)
(* Facts about the node operators of TriageNodes, for every confidence a   *)
(* classifier could answer with.                                           *)
(***************************************************************************)
EXTENDS TriageNodes, TLAPS

\* round(x, 4): the result is a multiple of 10^-4 and off by at most half of it.
LEMMA Round4Bounds ==
    ASSUME NEW x \in Int, NEW r \in Round4(x)
    PROVE  /\ r \in Int
           /\ \E k \in Int : r = 10 * k
           /\ 100 * r <= x + 500
           /\ x <= 100 * r + 500
<1>1. x \div 1000 \in Int
  BY SMT
<1>2. r = 10 * (x \div 1000) \/ r = 10 * (x \div 1000 + 1)
  BY <1>1, SMT DEF Round4
<1>3. 100 * r - x <= 500 /\ x - 100 * r <= 500
  BY DEF Round4
<1>4. \E k \in Int : r = 10 * k
  BY <1>1, <1>2
<1> QED
  BY <1>3, <1>4, SMT

\* combine_confidence: never negative, never above 1.0, and with context it is
\* the classifier's confidence up to the rounding of the fourth decimal.
LEMMA CombineBounds ==
    ASSUME NEW c \in Int, NEW hasContext \in BOOLEAN,
           NEW r \in CombineConfidence(c, hasContext)
    PROVE  /\ r \in Int
           /\ \E k \in Int : r = 10 * k
           /\ 0 <= r /\ r <= Unit
           /\ r <= Clamp(c) + RoundingSlack
           /\ hasContext => Clamp(c) <= r + RoundingSlack
<1> DEFINE p == GroundingPercent(hasContext)
           x == Clamp(c) * p
<1>1. Clamp(c) \in Int /\ 0 <= Clamp(c) /\ Clamp(c) <= Unit
  BY SMT DEF Clamp, Unit
<1>2. p \in {65, 100} /\ (hasContext => p = 100)
  BY DEF GroundingPercent
<1> HIDE DEF p
<1>3. x \in Int /\ 0 <= x /\ x <= 100 * Clamp(c) /\ (hasContext => x = 100 * Clamp(c))
  <2>1. CASE p = 65
    BY <1>1, <1>2, <2>1, SMT
  <2>2. CASE p = 100
    BY <1>1, <1>2, <2>2, SMT
  <2> QED
    BY <1>2, <2>1, <2>2
<1>4. r \in Round4(x)
  BY DEF CombineConfidence, p
<1> HIDE DEF x
<1>5. /\ r \in Int
      /\ \E k \in Int : r = 10 * k
      /\ 100 * r <= x + 500
      /\ x <= 100 * r + 500
  BY <1>3, <1>4, Round4Bounds
<1>6. PICK k \in Int : r = 10 * k
  BY <1>5
<1>7. 0 <= r
  BY <1>3, <1>5, <1>6, SMT
<1>8. r <= Clamp(c) + RoundingSlack
  BY <1>1, <1>3, <1>5, SMT DEF RoundingSlack
<1>9. r <= Unit
  BY <1>1, <1>6, <1>8, SMT DEF Unit, RoundingSlack
<1>10. hasContext => Clamp(c) <= r + RoundingSlack
  BY <1>1, <1>3, <1>5, SMT DEF RoundingSlack
<1> QED
  BY <1>5, <1>7, <1>8, <1>9, <1>10

\* NO_CONTEXT_PENALTY: whatever the classifier answered, a draft without context
\* stays below the supervisor's threshold.
THEOREM UngroundedIsBelowThreshold ==
    ASSUME NEW c \in Int, NEW r \in CombineConfidence(c, FALSE)
    PROVE  r < CONFIDENCE_THRESHOLD
<1> DEFINE x == Clamp(c) * 65
<1>1. x \in Int /\ x <= 6500000
  BY SMT DEF Clamp, Unit
<1>2. r \in Round4(x)
  BY DEF CombineConfidence, GroundingPercent
<1> HIDE DEF x
<1>3. r \in Int /\ 100 * r <= x + 500
  BY <1>1, <1>2, Round4Bounds
<1> QED
  BY <1>1, <1>3, SMT DEF CONFIDENCE_THRESHOLD

\* With context, the rounded confidence reaches the threshold exactly when the
\* classifier's does, but for the tie at 0.69995.
THEOREM GroundedMeetsThreshold ==
    ASSUME NEW c \in Int, NEW r \in CombineConfidence(c, TRUE)
    PROVE  /\ r >= CONFIDENCE_THRESHOLD => c >= CONFIDENCE_THRESHOLD - RoundingSlack
           /\ r < CONFIDENCE_THRESHOLD => c <= CONFIDENCE_THRESHOLD - RoundingSlack
<1>1. PICK k \in Int : r = 10 * k
  BY CombineBounds
<1>2. r <= Clamp(c) + RoundingSlack /\ Clamp(c) <= r + RoundingSlack
  BY CombineBounds
<1>3. Clamp(c) >= CONFIDENCE_THRESHOLD - RoundingSlack <=> c >= CONFIDENCE_THRESHOLD - RoundingSlack
  BY SMT DEF Clamp, CONFIDENCE_THRESHOLD, Unit, RoundingSlack
<1>4. Clamp(c) <= CONFIDENCE_THRESHOLD - RoundingSlack <=> c <= CONFIDENCE_THRESHOLD - RoundingSlack
  BY SMT DEF Clamp, CONFIDENCE_THRESHOLD, Unit, RoundingSlack
<1>5. Clamp(c) \in Int
  BY SMT DEF Clamp, Unit
<1> QED
  BY <1>1, <1>2, <1>3, <1>4, <1>5, SMT DEF CONFIDENCE_THRESHOLD, RoundingSlack

\* An outage is scored 0.0, and no grounding lifts that over the threshold.
LEMMA OutageIsBelowThreshold ==
    ASSUME NEW hasContext \in BOOLEAN, NEW r \in CombineConfidence(0, hasContext)
    PROVE  r < CONFIDENCE_THRESHOLD
<1>1. r \in Int /\ r <= Clamp(0) + RoundingSlack
  BY CombineBounds
<1> QED
  BY <1>1, SMT DEF Clamp, Unit, CONFIDENCE_THRESHOLD, RoundingSlack

\* route_by_intent only dispatches to the workers wired into the graph
\* (build.py:45), and the lockout agent gets the lockouts and nothing else.
LEMMA RouteIsAWorker ==
    ASSUME NEW s
    PROVE  /\ RouteByIntent(s) \in Workers
           /\ RouteByIntent(s) = "lockout_agent" <=> s.intent = "lockout"
BY DEF RouteByIntent, Workers

\* The lines a worker appends are log lines.
LEMMA DraftedTagsType ==
    ASSUME NEW worker
    PROVE  DraftedTags(worker) \in Seq(LogTags)
<1>1. /\ <<"billing_drafted">> \in Seq(LogTags)
      /\ <<"bug_drafted">> \in Seq(LogTags)
      /\ <<"lockout_escalated">> \in Seq(LogTags)
  BY DEF LogTags
<1>2. <<"feature_logged", "feature_ticket">> \in Seq(LogTags)
  BY DEF LogTags
<1> QED
  BY <1>1, <1>2, Zenon DEF DraftedTags
=============================================================================
