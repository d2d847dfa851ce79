------------------------ MODULE KnowledgeBaseProofs ------------------------
(* For any number of ingests and lookups, corpora, rankings, batch sizes, K   *)
(* and over-fetch: what the collection holds once an ingest has reported,     *)
(* that racing ingests leave one, and that a lookup answers with the nearest  *)
(* parents and enough of them.  Lookups and restarts of the orchestrator only *)
(* read the index, so each conjunct of IndexInvariant is carried over the six *)
(* steps of an ingest; the loop of retrieve is reasoned about by counting up  *)
(* the places of the ranking.                                                 *)
EXTENDS KnowledgeBase, SequenceTheorems, FiniteSetTheorems, WellFoundedInduction, TLAPS

USE DEF None

LEMMA InitIndex == Init => IndexInvariant
  <1> SUFFICES ASSUME Init PROVE IndexInvariant
    OBVIOUS
  <1>1. <<>> \in Seq(Chunks) /\ Len(<<>>) = 0
    OBVIOUS
  <1>2. IndexTypes
    BY <1>1 DEF Init, IndexTypes, IngestSteps
  <1>3. SubSeq(<<>>, 1, 0) = <<>>
    BY SubSeqEmpty
  <1>4. AddedInOrder
    BY <1>1, <1>3 DEF Init, AddedInOrder
  <1>5. LiveIsOwned
    BY KnowledgeBaseAssumption DEF Init, LiveIsOwned
  <1>6. DropIsFollowed
    BY DEF Init, DropIsFollowed, Dropping
  <1> QED BY <1>2, <1>4, <1>5, <1>6 DEF IndexInvariant

(* A step that only moves one ingest from one step to another. *)
LEMMA MovedTypes ==
    ASSUME IndexTypes, NEW i \in Ingests, NEW step \in IngestSteps, GoTo(i, step)
    PROVE  /\ ingest' \in [Ingests -> [step : IngestSteps, corpus : Seq(Chunks)]]
           /\ ingest'[i].step = step
           /\ \A j \in Ingests : ingest'[j].corpus = ingest[j].corpus
           /\ \A j \in Ingests \ {i} : ingest'[j] = ingest[j]
  BY DEF IndexTypes, GoTo

(* Reading, splitting and embedding the files. *)
LEMMA LoadStep ==
    ASSUME IndexInvariant, NEW i \in Ingests, Load(i)
    PROVE  IndexInvariant'
  <1>0. IndexTypes /\ ingest[i].step = "idle" /\ UNCHANGED <<live, content>>
    BY DEF IndexInvariant, Load, index
  <1>1. content[i] = <<>>
    BY <1>0 DEF IndexInvariant, AddedInOrder
  <1>2. PICK corpus \in Seq(Chunks), step \in {"reset", "raised"} :
           /\ ingest'[i] = [step |-> step, corpus |-> corpus]
           /\ \A j \in Ingests \ {i} : ingest'[j] = ingest[j]
           /\ ingest' \in [Ingests -> [step : IngestSteps, corpus : Seq(Chunks)]]
    <2>1. CASE \E corpus \in Corpora :
                  ingest' = [ingest EXCEPT ![i] = [step |-> "reset", corpus |-> corpus]]
      <3>1. PICK corpus \in Corpora :
                  ingest' = [ingest EXCEPT ![i] = [step |-> "reset", corpus |-> corpus]]
        BY <2>1
      <3>2. corpus \in Seq(Chunks)
        BY KnowledgeBaseAssumption
      <3>3. [step |-> "reset", corpus |-> corpus] \in [step : IngestSteps, corpus : Seq(Chunks)]
        BY <3>2 DEF IngestSteps
      <3> QED BY <3>1, <3>2, <3>3, <1>0 DEF IndexTypes
    <2>2. CASE GoTo(i, "raised")
      <3>1. ingest[i].corpus \in Seq(Chunks)
        BY <1>0 DEF IndexTypes
      <3>2. [step |-> "raised", corpus |-> ingest[i].corpus]
               \in [step : IngestSteps, corpus : Seq(Chunks)]
        BY <3>1 DEF IngestSteps
      <3>3. ingest'[i] = [step |-> "raised", corpus |-> ingest[i].corpus]
        BY <2>2, <1>0 DEF IndexTypes, GoTo
      <3> QED BY <2>2, <3>1, <3>2, <3>3, <1>0 DEF IndexTypes, GoTo, IngestSteps
    <2> QED BY <2>1, <2>2 DEF Load
  <1>3. IndexTypes'
    BY <1>0, <1>2 DEF IndexTypes
  <1>4. AddedInOrder'
    <2>1. /\ Len(content'[i]) = 0 /\ content'[i] = <<>>
          /\ SubSeq(ingest'[i].corpus, 1, 0) = <<>>
          /\ 0 =< Len(ingest'[i].corpus)
      BY <1>0, <1>1, <1>2, SubSeqEmpty
    <2>2. ASSUME NEW j \in Ingests \ {i}
          PROVE  content'[j] = content[j] /\ ingest'[j] = ingest[j]
      BY <1>0, <1>2
    <2>3. ingest'[i].step \notin {"done", "rejected"}
      BY <1>2
    <2>4. AddedInOrder
      BY DEF IndexInvariant
    <2> QED BY <2>1, <2>2, <2>3, <2>4 DEF AddedInOrder
  <1>5. LiveIsOwned'
    BY <1>0, <1>2 DEF IndexInvariant, LiveIsOwned
  <1>6. DropIsFollowed'
    <2> SUFFICES ASSUME live' = None, NEW j \in Ingests, ingest'[j].step \in Dropping
                 PROVE  \E k \in Ingests : ingest'[k].step \in {"create", "crashed"}
      BY DEF DropIsFollowed
    <2>1. j # i
      BY <1>2 DEF Dropping
    <2>2. PICK k \in Ingests : ingest[k].step \in {"create", "crashed"}
      BY <1>0, <1>2, <2>1 DEF IndexInvariant, DropIsFollowed
    <2>3. k # i
      BY <1>0, <2>2
    <2> QED BY <1>2, <2>2, <2>3
  <1> QED BY <1>3, <1>4, <1>5, <1>6 DEF IndexInvariant

(* Dropping whatever has the name. *)
LEMMA DeleteStep ==
    ASSUME IndexInvariant, NEW i \in Ingests, Delete(i)
    PROVE  IndexInvariant'
  <1>0. /\ IndexTypes /\ ingest[i].step = "reset" /\ UNCHANGED content /\ live' = None
        /\ ingest' \in [Ingests -> [step : IngestSteps, corpus : Seq(Chunks)]]
        /\ ingest'[i].step = "create"
        /\ \A j \in Ingests : ingest'[j].corpus = ingest[j].corpus
        /\ \A j \in Ingests \ {i} : ingest'[j] = ingest[j]
    BY MovedTypes DEF IndexInvariant, Delete, IngestSteps
  <1>1. IndexTypes'
    BY <1>0 DEF IndexTypes
  <1>2. AddedInOrder'
    BY <1>0 DEF IndexInvariant, AddedInOrder
  <1>3. LiveIsOwned'
    BY <1>0, KnowledgeBaseAssumption DEF LiveIsOwned
  <1>4. DropIsFollowed'
    BY <1>0 DEF DropIsFollowed
  <1> QED BY <1>1, <1>2, <1>3, <1>4 DEF IndexInvariant

(* Taking the name, or raising because it is taken. *)
LEMMA CreateStep ==
    ASSUME IndexInvariant, NEW i \in Ingests, Create(i)
    PROVE  IndexInvariant'
  <1>0. PICK step \in {"adding", "raised"} :
        /\ IndexTypes /\ ingest[i].step = "create" /\ UNCHANGED content
        /\ \/ step = "adding" /\ live' = i
           \/ step = "raised" /\ live # None /\ live' = live
        /\ ingest' \in [Ingests -> [step : IngestSteps, corpus : Seq(Chunks)]]
        /\ ingest'[i].step = step
        /\ \A j \in Ingests : ingest'[j].corpus = ingest[j].corpus
        /\ \A j \in Ingests \ {i} : ingest'[j] = ingest[j]
    <2>1. CASE live = None /\ live' = i /\ GoTo(i, "adding")
      BY <2>1, MovedTypes DEF IndexInvariant, Create, IngestSteps
    <2>2. CASE live # None /\ live' = live /\ GoTo(i, "raised")
      BY <2>2, MovedTypes DEF IndexInvariant, Create, IngestSteps
    <2> QED BY <2>1, <2>2 DEF Create
  <1>1. IndexTypes'
    BY <1>0 DEF IndexTypes
  <1>2. AddedInOrder'
    BY <1>0 DEF IndexInvariant, AddedInOrder
  <1>3. LiveIsOwned'
    BY <1>0, KnowledgeBaseAssumption DEF IndexInvariant, LiveIsOwned
  <1>4. DropIsFollowed'
    BY <1>0, KnowledgeBaseAssumption DEF DropIsFollowed
  <1> QED BY <1>1, <1>2, <1>3, <1>4 DEF IndexInvariant

(* A batch that follows the head of the corpus extends the head. *)
LEMMA BatchExtends ==
    ASSUME IndexTypes, AddedInOrder, NEW i \in Ingests,
           Len(content[i]) < Len(ingest[i].corpus)
    PROVE  LET corpus == ingest[i].corpus
               longer == content[i] \o NextBatch(i)
           IN  /\ longer \in Seq(Chunks)
               /\ Len(longer) =< Len(corpus)
               /\ longer = SubSeq(corpus, 1, Len(longer))
  <1> DEFINE corpus == ingest[i].corpus
             start == Len(content[i])
             end == Least(start + Batch, Len(corpus))
             longer == content[i] \o NextBatch(i)
  <1>1. corpus \in Seq(Chunks) /\ content[i] \in Seq(Chunks)
    BY DEF IndexTypes
  <1>2. start \in Nat /\ Len(corpus) \in Nat /\ start < Len(corpus) /\ Batch \in Nat \ {0}
    BY <1>1, KnowledgeBaseAssumption
  <1>3. end \in start .. Len(corpus) /\ start \in 1 - 1 .. Len(corpus) /\ 1 \in 1 .. Len(corpus) + 1
    BY <1>2 DEF Least
  <1>4. content[i] = SubSeq(corpus, 1, start)
    BY DEF AddedInOrder
  <1>5. NextBatch(i) = SubSeq(corpus, start + 1, end)
    BY DEF NextBatch
  <1> HIDE DEF corpus, start, end
  <1>6. SubSeq(corpus, 1, start) \o SubSeq(corpus, start + 1, end) = SubSeq(corpus, 1, end)
    BY <1>1, <1>3, ConcatAdjacentSubSeq
  <1>7. longer = SubSeq(corpus, 1, end)
    BY <1>4, <1>5, <1>6
  <1>8. \A p \in 1 .. end : corpus[p] \in Chunks
    BY <1>1, <1>2, <1>3
  <1>9. SubSeq(corpus, 1, end) \in Seq(Chunks) /\ Len(SubSeq(corpus, 1, end)) = end
    <2>1. end \in Int /\ 1 \in Int /\ 0 =< end
      BY <1>2, <1>3
    <2>2. /\ SubSeq(corpus, 1, end) \in Seq(Chunks)
          /\ Len(SubSeq(corpus, 1, end)) = IF 1 =< end THEN end - 1 + 1 ELSE 0
      BY <1>8, <2>1, SubSeqProperties
    <2> QED BY <2>1, <2>2
  <1>10. /\ longer \in Seq(Chunks) /\ Len(longer) = end /\ end =< Len(corpus)
         /\ longer = SubSeq(corpus, 1, Len(longer))
    BY <1>2, <1>3, <1>7, <1>9
  <1> QED BY <1>10 DEF corpus

(* Adding a batch, or raising because the collection was dropped. *)
LEMMA AddStep ==
    ASSUME IndexInvariant, NEW i \in Ingests, Add(i)
    PROVE  IndexInvariant'
  <1>0. IndexTypes /\ AddedInOrder /\ ingest[i].step = "adding" /\ UNCHANGED live
    BY DEF IndexInvariant, Add
  <1>1. CASE live = i
    <2>1. /\ content' = [content EXCEPT ![i] = content[i] \o NextBatch(i)]
          /\ UNCHANGED ingest
      BY <1>1 DEF Add
    <2>2. /\ content[i] \o NextBatch(i) \in Seq(Chunks)
          /\ Len(content[i] \o NextBatch(i)) =< Len(ingest[i].corpus)
          /\ content[i] \o NextBatch(i)
                = SubSeq(ingest[i].corpus, 1, Len(content[i] \o NextBatch(i)))
      BY <1>0, BatchExtends DEF Add
    <2>3. /\ content' \in [Ingests -> Seq(Chunks)]
          /\ content'[i] = content[i] \o NextBatch(i)
          /\ \A j \in Ingests \ {i} : content'[j] = content[j]
      BY <1>0, <2>1, <2>2 DEF IndexTypes
    <2>4. IndexTypes'
      BY <1>0, <2>1, <2>3 DEF IndexTypes
    <2>5. AddedInOrder'
      BY <1>0, <2>1, <2>2, <2>3 DEF AddedInOrder
    <2>6. LiveIsOwned' /\ DropIsFollowed'
      BY <1>0, <2>1 DEF IndexInvariant, LiveIsOwned, DropIsFollowed
    <2> QED BY <2>4, <2>5, <2>6 DEF IndexInvariant
  <1>2. CASE live # i
    <2>1. /\ UNCHANGED content
          /\ ingest' \in [Ingests -> [step : IngestSteps, corpus : Seq(Chunks)]]
          /\ ingest'[i].step = "raised"
          /\ \A j \in Ingests : ingest'[j].corpus = ingest[j].corpus
          /\ \A j \in Ingests \ {i} : ingest'[j] = ingest[j]
      BY <1>0, <1>2, MovedTypes DEF Add, IngestSteps
    <2>2. IndexTypes'
      BY <1>0, <2>1 DEF IndexTypes
    <2>3. AddedInOrder'
      BY <1>0, <2>1 DEF AddedInOrder
    <2>4. LiveIsOwned'
      BY <1>0, <1>2, <2>1 DEF IndexInvariant, LiveIsOwned
    <2>5. DropIsFollowed'
      BY <1>0, <2>1 DEF IndexInvariant, DropIsFollowed, Dropping
    <2> QED BY <2>2, <2>3, <2>4, <2>5 DEF IndexInvariant
  <1> QED BY <1>1, <1>2

(* The report, with or without enough chunks. *)
LEMMA ReportStep ==
    ASSUME IndexInvariant, NEW i \in Ingests, Report(i)
    PROVE  IndexInvariant'
  <1>0. IndexTypes /\ AddedInOrder /\ ingest[i].step = "adding" /\ UNCHANGED <<live, content>>
    BY DEF IndexInvariant, Report, index
  <1>1. PICK step \in {"done", "rejected"} : GoTo(i, step)
    BY DEF Report
  <1>2. /\ ingest' \in [Ingests -> [step : IngestSteps, corpus : Seq(Chunks)]]
        /\ ingest'[i].step = step
        /\ \A j \in Ingests : ingest'[j].corpus = ingest[j].corpus
        /\ \A j \in Ingests \ {i} : ingest'[j] = ingest[j]
    BY <1>0, <1>1, MovedTypes DEF IngestSteps
  <1>3. Len(content[i]) = Len(ingest[i].corpus)
    <2>1. Len(content[i]) \in Nat /\ Len(ingest[i].corpus) \in Nat
      BY <1>0 DEF IndexTypes
    <2> QED BY <1>0, <2>1 DEF Report, AddedInOrder
  <1>4. IndexTypes'
    BY <1>0, <1>2 DEF IndexTypes
  <1>5. AddedInOrder'
    BY <1>0, <1>2, <1>3 DEF AddedInOrder
  <1>6. LiveIsOwned'
    BY <1>0, <1>2 DEF IndexInvariant, LiveIsOwned
  <1>7. DropIsFollowed'
    BY <1>0, <1>2 DEF IndexInvariant, DropIsFollowed, Dropping
  <1> QED BY <1>4, <1>5, <1>6, <1>7 DEF IndexInvariant

(* An ingest killed midway. *)
LEMMA CrashStep ==
    ASSUME IndexInvariant, NEW i \in Ingests, Crash(i)
    PROVE  IndexInvariant'
  <1>0. /\ IndexTypes /\ ingest[i].step \in {"reset", "create", "adding"}
        /\ UNCHANGED <<live, content>>
        /\ ingest' \in [Ingests -> [step : IngestSteps, corpus : Seq(Chunks)]]
        /\ ingest'[i].step = "crashed"
        /\ \A j \in Ingests : ingest'[j].corpus = ingest[j].corpus
        /\ \A j \in Ingests \ {i} : ingest'[j] = ingest[j]
    BY MovedTypes DEF IndexInvariant, Crash, index, IngestSteps
  <1>1. IndexTypes'
    BY <1>0 DEF IndexTypes
  <1>2. AddedInOrder'
    BY <1>0 DEF IndexInvariant, AddedInOrder
  <1>3. LiveIsOwned'
    BY <1>0 DEF IndexInvariant, LiveIsOwned
  <1>4. DropIsFollowed'
    BY <1>0 DEF DropIsFollowed
  <1> QED BY <1>1, <1>2, <1>3, <1>4 DEF IndexInvariant

(* Lookups, restarts and stuttering leave the index and the ingests alone. *)
LEMMA IndexStill ==
    ASSUME IndexInvariant, UNCHANGED <<live, content, ingest>>
    PROVE  IndexInvariant'
  BY DEF IndexInvariant, IndexTypes, AddedInOrder, LiveIsOwned, DropIsFollowed

LEMMA NextIndex == IndexInvariant /\ [Next]_vars => IndexInvariant'
  <1> SUFFICES ASSUME IndexInvariant, [Next]_vars PROVE IndexInvariant'
    OBVIOUS
  <1>1. ASSUME NEW i \in Ingests, Ingesting(i) PROVE IndexInvariant'
    BY <1>1, LoadStep, DeleteStep, CreateStep, AddStep, ReportStep, CrashStep DEF Ingesting
  <1>2. ASSUME NEW q \in Lookups, Retrieving(q) PROVE IndexInvariant'
    BY <1>2, IndexStill DEF Retrieving, Call, GetCollection, Route, Count, Query, index
  <1>3. CASE Restart
    BY <1>3, IndexStill DEF Restart, index
  <1>4. CASE UNCHANGED vars
    BY <1>4, IndexStill DEF vars, index
  <1> QED BY <1>1, <1>2, <1>3, <1>4 DEF Next

-----------------------------------------------------------------------------
(* The index invariant, for any number of ingests at once. *)
THEOREM IndexInvariance == Spec => []IndexInvariant
  BY InitIndex, NextIndex, PTL DEF Spec

(* A collection that has all of its builder's corpus is that corpus. *)
LEMMA WholeWhenReported ==
    ASSUME IndexInvariant, NEW i \in Ingests, ingest[i].step \in {"done", "rejected"}
    PROVE  content[i] = ingest[i].corpus
  <1>1. /\ Len(content[i]) = Len(ingest[i].corpus)
        /\ content[i] = SubSeq(ingest[i].corpus, 1, Len(content[i]))
    BY DEF IndexInvariant, AddedInOrder
  <1>2. ingest[i].corpus \in Seq(Chunks)
    BY DEF IndexInvariant, IndexTypes
  <1> QED BY <1>1, <1>2, SubSeqFull

(* For every batch size and corpus, a reported collection that still has the  *)
(* name holds every chunk once and in order.                                  *)
THEOREM ReportedIndexStaysWhole == Spec => []ReportedIndexIsWhole
  <1>1. IndexInvariant => ReportedIndexIsWhole
    BY WholeWhenReported DEF ReportedIndexIsWhole
  <1> QED BY <1>1, IndexInvariance, PTL

(* However many ingests race, once they have ended and none was killed the    *)
(* name belongs to a complete collection.                                     *)
THEOREM SomeIngestSurvives == Spec => []RaceLeavesAnIndex
  <1>1. IndexInvariant => RaceLeavesAnIndex
    <2> SUFFICES ASSUME IndexInvariant,
                        \A i \in Ingests : ingest[i].step \notin {"create", "adding", "crashed"},
                        \E i \in Ingests : ingest[i].step \in Dropping
                 PROVE  live # None /\ content[live] = ingest[live].corpus
      BY DEF RaceLeavesAnIndex
    <2>1. live # None
      BY DEF IndexInvariant, DropIsFollowed
    <2>2. live \in Ingests
      BY <2>1 DEF IndexInvariant, IndexTypes
    <2>3. ingest[live].step \in {"done", "rejected"}
      BY <2>2 DEF IndexInvariant, LiveIsOwned
    <2> QED BY <2>1, <2>2, <2>3, WholeWhenReported
  <1> QED BY <1>1, IndexInvariance, PTL

-----------------------------------------------------------------------------
(* The loop of retrieve, one place of the ranking after the other. *)

LEMMA LeastNatural ==
    ASSUME NEW S \in SUBSET Nat, S # {}
    PROVE  \E n \in S : \A m \in S : n =< m
  <1> DEFINE R == {ss \in Nat \X Nat : ss[1] < ss[2]}
  <1>1. IsWellFoundedOn(R, Nat)
    BY NatLessThanWellFounded DEF OpToRel
  <1>2. \A m, n \in Nat : m < n => <<m, n>> \in R
    OBVIOUS
  <1> HIDE DEF R
  <1>3. PICK n \in S : \A m \in S : ~ (<<m, n>> \in R)
    BY <1>1, WFMin, Zenon
  <1>4. ASSUME NEW m \in S PROVE n =< m
    <2>1. m \in Nat /\ n \in Nat
      OBVIOUS
    <2>2. ~ (m < n)
      BY <1>2, <1>3, <2>1, Zenon
    <2> QED BY <2>1, <2>2
  <1> QED BY <1>4

LEMMA FirstNumbers ==
    ASSUME NEW m \in Nat
    PROVE  IsFiniteSet(1..m) /\ Cardinality(1..m) = m
  BY FS_Interval

LEMMA CountingUp ==
    ASSUME NEW m \in Nat, NEW S, 0 \in S, \A n \in 0..(m - 1) : n \in S => n + 1 \in S
    PROVE  0..m \subseteq S
  <1> DEFINE Missing == {n \in 0..m : n \notin S}
  <1> SUFFICES ASSUME Missing # {} PROVE FALSE
    OBVIOUS
  <1>0. Missing \in SUBSET Nat
    OBVIOUS
  <1> HIDE DEF Missing
  <1>1. PICK n \in Missing : \A k \in Missing : n =< k
    BY <1>0, LeastNatural
  <1>2. n \in 1..m /\ n - 1 \in 0..(m - 1) /\ n - 1 \notin Missing
    BY <1>1 DEF Missing
  <1> QED BY <1>1, <1>2 DEF Missing

(* The loop of retrieve is a function of the place it has got to. *)
After(ranking, children, hits, p) ==
    IF p = 0 THEN <<>>
    ELSE IF p \in children THEN AddHit(hits[p - 1], ranking[p]) ELSE hits[p - 1]

LEMMA LoopIsDefined ==
    ASSUME NEW ranking \in Seq(Chunks), NEW children
    PROVE  \E hits : /\ hits = [p \in 0..Len(ranking) |-> After(ranking, children, hits, p)]
                     /\ Deduplicate(ranking, children) = hits[Len(ranking)]
  <1> DEFINE N == Len(ranking)
             S == {n \in 0..N : \E h : h = [p \in 0..n |-> After(ranking, children, h, p)]}
  <1>0. N \in Nat
    OBVIOUS
  <1> HIDE DEF N
  <1>1. 0 \in S
    <2> DEFINE h == [p \in 0..0 |-> <<>>]
    <2>1. h = [p \in 0..0 |-> After(ranking, children, h, p)]
      BY DEF After
    <2> QED BY <2>1, <1>0
  <1>2. ASSUME NEW n \in 0..(N - 1), n \in S
        PROVE  n + 1 \in S
    <2>1. PICK h : h = [p \in 0..n |-> After(ranking, children, h, p)]
      BY <1>2
    <2> DEFINE g == [p \in 0..(n + 1) |-> IF p = n + 1 THEN After(ranking, children, h, n + 1) ELSE h[p]]
    <2>2. ASSUME NEW p \in 0..(n + 1)
          PROVE  After(ranking, children, g, p) = After(ranking, children, h, p)
      <3>1. p # 0 => p - 1 \in 0..n /\ g[p - 1] = h[p - 1]
        OBVIOUS
      <3> HIDE DEF g
      <3> QED BY <3>1 DEF After
    <2>3. ASSUME NEW p \in 0..(n + 1)
          PROVE  g[p] = After(ranking, children, g, p)
      <3>1. CASE p = n + 1
        BY <2>2, <3>1
      <3>2. CASE p # n + 1
        <4>1. p \in 0..n /\ g[p] = h[p]
          BY <3>2
        <4>2. h[p] = After(ranking, children, h, p)
          BY <2>1, <4>1
        <4> QED BY <4>1, <4>2, <2>2
      <3> QED BY <3>1, <3>2
    <2>4. g = [p \in 0..(n + 1) |-> After(ranking, children, g, p)]
      BY <2>3
    <2> HIDE DEF g
    <2> QED BY <2>4, <1>0
  <1>3. N \in S
    <2> HIDE DEF S
    <2>1. 0..N \subseteq S
      BY <1>0, <1>1, <1>2, CountingUp
    <2> QED BY <2>1, <1>0
  <1>4. PICK h : h = [p \in 0..N |-> After(ranking, children, h, p)]
    BY <1>3
  <1> DEFINE hits == CHOOSE f : f = [p \in 0..N |-> After(ranking, children, f, p)]
  <1>5. hits = [p \in 0..N |-> After(ranking, children, hits, p)]
    BY <1>4
  <1>6. Deduplicate(ranking, children) = hits[N]
    BY DEF Deduplicate, After, N
  <1> QED BY <1>5, <1>6 DEF N

AllParents == {chunk.parent : chunk \in Chunks}
UpTo(children, p) == {o \in children : o =< p}

(* What the hits are when the loop has passed place p, where places are the   *)
(* matching children and children those of them that were fetched.            *)
HitsUpTo(hits, p, ranking, places, children) ==
    /\ hits \in Seq(AllParents) /\ Len(hits) =< K
    /\ \A i \in 1..Len(hits) : hits[i] \in Parents(ranking, UpTo(children, p))
    /\ Len(hits) < K => \A parent \in Parents(ranking, UpTo(children, p)) :
                           \E i \in 1..Len(hits) : hits[i] = parent
    /\ \A i \in 1..Len(hits), parent \in Parents(ranking, places) :
          Nearness(ranking, places, parent) < Nearness(ranking, places, hits[i])
             <=> \E j \in 1..(i - 1) : hits[j] = parent

(* A fetch takes the nearest: children leave no nearer place out.             *)
Fetched(ranking, places, children) ==
    /\ ranking \in Seq(Chunks)
    /\ places \in SUBSET (1..Len(ranking))
    /\ children \in SUBSET places
    /\ \A p \in children, o \in places : o < p => o \in children

LEMMA NearnessIsLeast ==
    ASSUME NEW ranking \in Seq(Chunks), NEW places \in SUBSET (1..Len(ranking)),
           NEW parent \in Parents(ranking, places)
    PROVE  LET n == Nearness(ranking, places, parent)
           IN  /\ n \in places /\ ranking[n].parent = parent
               /\ \A o \in places : ranking[o].parent = parent => n =< o
  <1> DEFINE S == {p \in places : ranking[p].parent = parent}
  <1>0. places \in SUBSET Nat
    OBVIOUS
  <1>1. S \in SUBSET Nat /\ S # {}
    BY <1>0 DEF Parents
  <1>2. PICK n \in S : \A m \in S : n =< m
    <2> HIDE DEF S
    <2> QED BY <1>1, LeastNatural
  <1>3. \E p \in places : /\ ranking[p].parent = parent
                          /\ \A o \in places : ranking[o].parent = parent => p =< o
    BY <1>2
  <1> QED BY <1>3 DEF Nearness

LEMMA ParentsGrow ==
    ASSUME NEW ranking \in Seq(Chunks), NEW children \in SUBSET (1..Len(ranking)), NEW p \in Nat
    PROVE  /\ p + 1 \in children => Parents(ranking, UpTo(children, p + 1)) =
                  Parents(ranking, UpTo(children, p)) \cup {ranking[p + 1].parent}
           /\ p + 1 \notin children => Parents(ranking, UpTo(children, p + 1)) =
                  Parents(ranking, UpTo(children, p))
  <1>0. children \in SUBSET Nat
    OBVIOUS
  <1>1. UpTo(children, p + 1) =
              IF p + 1 \in children THEN UpTo(children, p) \cup {p + 1} ELSE UpTo(children, p)
    <2>1. \A o \in children : o =< p + 1 <=> o =< p \/ o = p + 1
      BY <1>0
    <2> QED BY <2>1 DEF UpTo
  <1> QED BY <1>1, Zenon DEF Parents

(* One turn of the loop. *)
LEMMA TurnOfTheLoop ==
    ASSUME NEW ranking, NEW places, NEW children, Fetched(ranking, places, children),
           NEW hits, NEW p \in 0..(Len(ranking) - 1), HitsUpTo(hits, p, ranking, places, children)
    PROVE  HitsUpTo(IF p + 1 \in children THEN AddHit(hits, ranking[p + 1]) ELSE hits,
                    p + 1, ranking, places, children)
  <1> DEFINE x == ranking[p + 1].parent
             before == Parents(ranking, UpTo(children, p))
             now == Parents(ranking, UpTo(children, p + 1))
             near(parent) == Nearness(ranking, places, parent)
  <1>0. /\ ranking \in Seq(Chunks) /\ places \in SUBSET (1..Len(ranking))
        /\ children \in SUBSET places /\ children \in SUBSET (1..Len(ranking))
        /\ p \in Nat /\ p + 1 \in 1..Len(ranking) /\ K \in Nat \ {0}
        /\ hits \in Seq(AllParents) /\ places \in SUBSET Nat
    BY KnowledgeBaseAssumption DEF Fetched, HitsUpTo
  <1>1. /\ p + 1 \in children => now = before \cup {x}
        /\ p + 1 \notin children => now = before
    BY <1>0, ParentsGrow, Zenon
  <1>2. CASE p + 1 \notin children
    <2>1. now = before
      BY <1>1, <1>2
    <2>2. HitsUpTo(hits, p + 1, ranking, places, children)
      <3> HIDE DEF now, before
      <3> QED BY <2>1 DEF HitsUpTo, now, before
    <2> QED BY <1>2, <2>2
  <1>3. CASE p + 1 \in children /\ Len(hits) >= K
    <2>1. AddHit(hits, ranking[p + 1]) = hits
      BY <1>3 DEF AddHit
    <2>2. before \subseteq now /\ ~ (Len(hits) < K)
      BY <1>0, <1>1, <1>3
    <2>3. HitsUpTo(hits, p + 1, ranking, places, children)
      <3> HIDE DEF now, before
      <3> QED BY <2>2 DEF HitsUpTo, now, before
    <2> QED BY <1>3, <2>1, <2>3
  <1>4. CASE p + 1 \in children /\ Len(hits) < K /\ x \in Range(hits)
    <2>1. AddHit(hits, ranking[p + 1]) = hits
      BY <1>4 DEF AddHit
    <2>2. PICK i \in 1..Len(hits) : hits[i] = x
      BY <1>0, <1>4 DEF Range
    <2> QED BY <1>1, <1>4, <2>1, <2>2 DEF HitsUpTo
  <1>5. CASE p + 1 \in children /\ Len(hits) < K /\ x \notin Range(hits)
    <2>1. AddHit(hits, ranking[p + 1]) = Append(hits, x)
      <3>1. ~ (Len(hits) >= K) /\ Len(hits) \in Nat
        BY <1>0, <1>5
      <3> QED BY <1>5, <3>1, Zenon DEF AddHit
    <2>2. x \in AllParents
      <3>1. ranking[p + 1] \in Chunks
        BY <1>0
      <3> QED BY <3>1 DEF AllParents
    <2> DEFINE longer == Append(hits, x)
    <2>3. /\ longer \in Seq(AllParents) /\ Len(longer) = Len(hits) + 1 /\ Len(hits) \in Nat
          /\ \A i \in 1..Len(hits) : longer[i] = hits[i]
          /\ longer[Len(hits) + 1] = x
      BY <1>0, <2>2
    <2>4. \A parent : parent \in before <=> \E i \in 1..Len(hits) : hits[i] = parent
      BY <1>5 DEF HitsUpTo
    <2>5. x \notin before
      BY <1>0, <1>5, <2>4 DEF Range
    <2>6. \A o \in places : o =< p => o \in UpTo(children, p)
      <3> SUFFICES ASSUME NEW o \in places, o =< p PROVE o \in children
        BY DEF UpTo
      <3>1. o \in Nat /\ o < p + 1
        BY <1>0
      <3> QED BY <1>5, <3>1 DEF Fetched
    <2>7. near(x) = p + 1
      <3>1. p + 1 \in places /\ x \in Parents(ranking, places)
        BY <1>0, <1>5 DEF Parents
      <3>2. /\ near(x) \in places /\ ranking[near(x)].parent = x /\ near(x) =< p + 1
        BY <1>0, <3>1, NearnessIsLeast
      <3>3. near(x) =< p => x \in before
        BY <3>2, <2>6 DEF Parents
      <3>4. near(x) \in Nat
        BY <3>2, <1>0, Zenon
      <3> HIDE DEF near
      <3> QED BY <3>2, <3>3, <3>4, <2>5, <1>0
    <2>8. ASSUME NEW parent \in Parents(ranking, places)
          PROVE  near(parent) < p + 1 <=> parent \in before
      <3>1. /\ near(parent) \in places /\ ranking[near(parent)].parent = parent
            /\ \A o \in places : ranking[o].parent = parent => near(parent) =< o
        BY <1>0, NearnessIsLeast
      <3>2. near(parent) \in Nat
        BY <3>1, <1>0, Zenon
      <3> HIDE DEF near
      <3>3. ASSUME near(parent) < p + 1 PROVE parent \in before
        <4>1. near(parent) \in UpTo(children, p)
          BY <3>1, <3>2, <3>3, <2>6, <1>0
        <4> QED BY <4>1, <3>1 DEF Parents
      <3>4. ASSUME parent \in before PROVE near(parent) < p + 1
        <4>1. PICK o \in UpTo(children, p) : ranking[o].parent = parent
          BY <3>4 DEF Parents
        <4>2. o \in places /\ o =< p /\ o \in Nat
          BY <1>0, <4>1 DEF UpTo
        <4> QED BY <3>1, <3>2, <4>1, <4>2, <1>0
      <3> QED BY <3>3, <3>4
    <2> HIDE DEF longer, near, before, now, x
    <2>9. \A i \in 1..Len(longer) : longer[i] \in now
      <3>1. \A i \in 1..Len(hits) : hits[i] \in before
        BY <2>4
      <3> QED BY <1>1, <1>5, <2>3, <3>1
    <2>10. \A parent \in now : \E i \in 1..Len(longer) : longer[i] = parent
      <3> SUFFICES ASSUME NEW parent \in now PROVE \E i \in 1..Len(longer) : longer[i] = parent
        OBVIOUS
      <3>1. CASE parent = x
        BY <2>3, <3>1
      <3>2. CASE parent \in before
        <4>1. PICK i \in 1..Len(hits) : hits[i] = parent
          BY <2>4, <3>2
        <4> QED BY <4>1, <2>3
      <3> QED BY <1>1, <1>5, <3>1, <3>2
    <2>11. ASSUME NEW i \in 1..Len(longer), NEW parent \in Parents(ranking, places)
           PROVE  near(parent) < near(longer[i]) <=> \E j \in 1..(i - 1) : longer[j] = parent
      <3>1. CASE i \in 1..Len(hits)
        <4>1. near(parent) < near(hits[i]) <=> \E j \in 1..(i - 1) : hits[j] = parent
          BY <3>1 DEF HitsUpTo, near
        <4>2. longer[i] = hits[i] /\ \A j \in 1..(i - 1) : longer[j] = hits[j]
          <5>1. \A j \in 1..(i - 1) : j \in 1..Len(hits)
            BY <2>3, <3>1
          <5> QED BY <2>3, <3>1, <5>1
        <4> QED BY <4>1, <4>2
      <3>2. CASE i = Len(hits) + 1
        <4>1. i - 1 = Len(hits) /\ longer[i] = x /\ \A j \in 1..(i - 1) : longer[j] = hits[j]
          BY <2>3, <3>2
        <4>2. near(parent) < p + 1 <=> \E j \in 1..(i - 1) : hits[j] = parent
          BY <4>1, <2>4, <2>8
        <4> QED BY <4>1, <4>2, <2>7
      <3> QED BY <2>3, <3>1, <3>2
    <2>12. Len(longer) =< K
      BY <1>0, <1>5, <2>3
    <2>13. HitsUpTo(longer, p + 1, ranking, places, children)
      BY <2>3, <2>9, <2>10, <2>11, <2>12 DEF HitsUpTo, near, now
    <2> QED BY <1>5, <2>1, <2>13 DEF longer
  <1> QED BY <1>0, <1>2, <1>3, <1>4, <1>5

(* What the loop answers. *)
LEMMA DeduplicateIsRight ==
    ASSUME NEW ranking, NEW places, NEW children, Fetched(ranking, places, children)
    PROVE  HitsUpTo(Deduplicate(ranking, children), Len(ranking), ranking, places, children)
  <1>0. ranking \in Seq(Chunks) /\ Len(ranking) \in Nat
    BY DEF Fetched
  <1>1. PICK hits : /\ hits = [p \in 0..Len(ranking) |-> After(ranking, children, hits, p)]
                    /\ Deduplicate(ranking, children) = hits[Len(ranking)]
    BY <1>0, LoopIsDefined
  <1> DEFINE S == {p \in 0..Len(ranking) : HitsUpTo(hits[p], p, ranking, places, children)}
  <1>2. 0 \in S
    <2>1. hits[0] = <<>>
      BY <1>0, <1>1 DEF After
    <2>2. UpTo(children, 0) = {}
      <3>1. \A o \in children : o \in 1..Len(ranking)
        BY DEF Fetched
      <3>2. \A o \in children : ~ (o =< 0)
        BY <1>0, <3>1
      <3> QED BY <3>2 DEF UpTo
    <2>3. Parents(ranking, {}) = {}
      BY DEF Parents
    <2>4. <<>> \in Seq(AllParents) /\ Len(<<>>) = 0 /\ 0 =< K
      BY KnowledgeBaseAssumption
    <2>5. HitsUpTo(hits[0], 0, ranking, places, children)
      BY <2>1, <2>2, <2>3, <2>4 DEF HitsUpTo
    <2> QED BY <2>5, <1>0
  <1>3. ASSUME NEW p \in 0..(Len(ranking) - 1), p \in S PROVE p + 1 \in S
    <2>1. p + 1 \in 0..Len(ranking) /\ p + 1 # 0 /\ (p + 1) - 1 = p
      BY <1>0
    <2>2. hits[p + 1] = After(ranking, children, hits, p + 1)
      BY <1>1, <2>1
    <2>3. hits[p + 1] = IF p + 1 \in children THEN AddHit(hits[p], ranking[p + 1]) ELSE hits[p]
      BY <2>1, <2>2 DEF After
    <2> QED BY <1>3, <2>1, <2>3, TurnOfTheLoop
  <1>4. Len(ranking) \in S
    <2> HIDE DEF S
    <2>1. 0..Len(ranking) \subseteq S
      BY <1>0, <1>2, <1>3, CountingUp
    <2> QED BY <1>0, <2>1
  <1> QED BY <1>1, <1>4

(* A query answers with the nearest, and with all or enough of them.          *)
LEMMA NearestAreFetched ==
    ASSUME NEW ranking \in Seq(Chunks), NEW places \in SUBSET (1..Len(ranking)), NEW n \in Nat
    PROVE  /\ Fetched(ranking, places, Nearest(places, n))
           /\ IsFiniteSet(places)
           /\ \/ Nearest(places, n) = places
              \/ n =< Cardinality(Nearest(places, n)) /\ n < Cardinality(places)
  <1> DEFINE children == Nearest(places, n)
  <1>0. /\ places \in SUBSET Nat /\ Len(ranking) \in Nat
        /\ children = {p \in places : Cardinality(UpTo(places, p)) =< n}
        /\ children \subseteq places
    BY DEF Nearest, UpTo
  <1>1. IsFiniteSet(places)
    <2>1. IsFiniteSet(1..Len(ranking))
      BY <1>0, FS_Interval
    <2> QED BY <2>1, FS_Subset
  <1>2. \A p \in Nat : IsFiniteSet(UpTo(places, p)) /\ Cardinality(UpTo(places, p)) \in Nat
    <2> TAKE p \in Nat
    <2>1. UpTo(places, p) \in SUBSET places
      BY DEF UpTo
    <2>2. IsFiniteSet(UpTo(places, p))
      BY <1>1, <2>1, FS_Subset
    <2> QED BY <2>2, FS_CardinalityType
  <1> HIDE DEF children
  <1>3. ASSUME NEW p \in children, NEW o \in places, o < p
        PROVE  o \in children
    <2>1. p \in Nat /\ o \in Nat
      BY <1>0
    <2>2. UpTo(places, o) \in SUBSET UpTo(places, p)
      <3>1. \A k \in places : k =< o => k =< p
        BY <1>0, <1>3, <2>1
      <3> QED BY <3>1 DEF UpTo
    <2>3. Cardinality(UpTo(places, o)) =< Cardinality(UpTo(places, p))
      BY <1>2, <2>1, <2>2, FS_Subset
    <2>4. Cardinality(UpTo(places, p)) =< n
      BY <1>0
    <2>5. Cardinality(UpTo(places, o)) =< n
      BY <1>2, <2>1, <2>3, <2>4
    <2> QED BY <1>0, <2>5
  <1>4. ASSUME children # places
        PROVE  n =< Cardinality(children) /\ n < Cardinality(places)
    <2> DEFINE missing == places \ children
    <2>1. missing \in SUBSET Nat /\ missing # {}
      BY <1>0, <1>4
    <2>2. PICK m \in missing : \A o \in missing : m =< o
      <3> HIDE DEF missing
      <3> QED BY <2>1, LeastNatural
    <2>3. UpTo(places, m) = children \cup {m}
      <3>1. ASSUME NEW o \in places, o =< m PROVE o \in children \cup {m}
        <4>1. m \in Nat /\ o \in Nat
          BY <1>0, <2>2
        <4> QED BY <2>2, <3>1, <4>1
      <3>2. ASSUME NEW o \in children PROVE o \in places /\ o =< m
        <4>1. o \in Nat /\ m \in Nat /\ m \notin children
          BY <1>0, <2>2
        <4>2. ~ (m < o)
          BY <1>3, <2>2, <4>1
        <4> QED BY <1>0, <4>1, <4>2
      <3>3. m \in places /\ m =< m
        BY <1>0, <2>2
      <3> QED BY <3>1, <3>2, <3>3 DEF UpTo
    <2>4. IsFiniteSet(children) /\ m \notin children /\ m \in places /\ m \in Nat
      BY <1>0, <1>1, <2>2, FS_Subset
    <2>5. Cardinality(children \cup {m}) = Cardinality(children) + 1
      BY <2>4, FS_AddElement
    <2>6. Cardinality(children) \in Nat /\ Cardinality(places) \in Nat
      BY <1>1, <2>4, FS_CardinalityType
    <2>7. ~ (Cardinality(children \cup {m}) =< n)
      BY <1>0, <2>3, <2>4
    <2>8. Cardinality(children \cup {m}) =< Cardinality(places)
      <3>1. children \cup {m} \in SUBSET places
        BY <1>0, <2>4
      <3> QED BY <1>1, <3>1, FS_Subset
    <2> QED BY <2>5, <2>6, <2>7, <2>8
  <1>5. Fetched(ranking, places, children)
    BY <1>0, <1>3 DEF Fetched
  <1> QED BY <1>1, <1>4, <1>5 DEF children

(* A ranking names a chunk once: places that stand for chunks of a collection *)
(* are no more than those chunks.                                             *)
LEMMA PlacesFit ==
    ASSUME NEW ranking \in Seq(Chunks), IsInjective(ranking),
           NEW places \in SUBSET (1..Len(ranking)),
           NEW chunks \in Seq(Chunks), NEW T \in SUBSET (1..Len(chunks)),
           \A p \in places : \E o \in T : chunks[o] = ranking[p]
    PROVE  /\ IsFiniteSet(T) /\ IsFiniteSet(places)
           /\ Cardinality(places) =< Cardinality(T)
  <1>1. IsFiniteSet(T)
    <2>1. IsFiniteSet(1..Len(chunks))
      BY FS_Interval
    <2> QED BY <2>1, FS_Subset
  <1> DEFINE f == [p \in places |-> CHOOSE o \in T : chunks[o] = ranking[p]]
  <1>2. \A p \in places : f[p] \in T /\ chunks[f[p]] = ranking[p]
    OBVIOUS
  <1>3. f \in [places -> T]
    BY <1>2
  <1> HIDE DEF f
  <1>4. IsInjective(f)
    <2> SUFFICES ASSUME NEW a \in places, NEW b \in places, f[a] = f[b] PROVE a = b
      BY <1>3 DEF IsInjective
    <2>1. ranking[a] = ranking[b]
      BY <1>2
    <2>2. a \in DOMAIN ranking /\ b \in DOMAIN ranking
      OBVIOUS
    <2> QED BY <2>1, <2>2 DEF IsInjective
  <1>5. f \in Injection(places, T)
    BY <1>3, <1>4 DEF Injection
  <1> QED BY <1>1, <1>5, FS_Injection

LEMMA ParentsAreFinite ==
    ASSUME NEW ranking, NEW places, IsFiniteSet(places)
    PROVE  IsFiniteSet(Parents(ranking, places)) /\ Cardinality(Parents(ranking, places)) \in Nat
  <1> DEFINE f == [p \in places |-> ranking[p].parent]
  <1>1. f \in Surjection(places, Parents(ranking, places))
    BY DEF Surjection, Parents
  <1>2. IsFiniteSet(Parents(ranking, places))
    BY <1>1, FS_Surjection
  <1> QED BY <1>2, FS_CardinalityType

(* Each parent is hit once.                                                   *)
LEMMA HitsAreDistinct ==
    ASSUME NEW ranking, NEW places, NEW children, Fetched(ranking, places, children),
           NEW hits, HitsUpTo(hits, Len(ranking), ranking, places, children)
    PROVE  /\ hits \in Injection(1..Len(hits), Parents(ranking, children))
           /\ Parents(ranking, children) \subseteq Parents(ranking, places)
           /\ Parents(ranking, UpTo(children, Len(ranking))) = Parents(ranking, children)
  <1>0. /\ ranking \in Seq(Chunks) /\ places \in SUBSET (1..Len(ranking))
        /\ children \in SUBSET places /\ hits \in Seq(AllParents)
    BY DEF Fetched, HitsUpTo
  <1>1. UpTo(children, Len(ranking)) = children
    <2>1. \A o \in children : o =< Len(ranking)
      BY <1>0
    <2> QED BY <2>1 DEF UpTo
  <1>2. Parents(ranking, children) \subseteq Parents(ranking, places)
    BY <1>0 DEF Parents
  <1>3. \A i \in 1..Len(hits) : hits[i] \in Parents(ranking, children)
    BY <1>1 DEF HitsUpTo
  <1>4. ASSUME NEW i \in 1..Len(hits), NEW j \in 1..Len(hits), i < j
        PROVE  hits[i] # hits[j]
    <2>1. hits[i] \in Parents(ranking, places)
      BY <1>2, <1>3
    <2>2. i \in 1..(j - 1)
      BY <1>0, <1>4
    <2>3. Nearness(ranking, places, hits[i]) < Nearness(ranking, places, hits[j])
      BY <2>1, <2>2 DEF HitsUpTo
    <2>4. Nearness(ranking, places, hits[i]) \in Nat
      <3>1. Nearness(ranking, places, hits[i]) \in places
        BY <1>0, <2>1, NearnessIsLeast, Zenon
      <3>2. places \in SUBSET Nat
        BY <1>0
      <3> QED BY <3>1, <3>2, Zenon
    <2>5. ASSUME hits[i] = hits[j] PROVE FALSE
      <3> DEFINE n == Nearness(ranking, places, hits[i])
      <3>1. n < n
        BY <2>3, <2>5
      <3>2. n \in Nat
        BY <2>4
      <3> HIDE DEF n
      <3> QED BY <3>1, <3>2
    <2> QED BY <2>5
  <1>5. IsInjective(hits)
    <2> SUFFICES ASSUME NEW i \in 1..Len(hits), NEW j \in 1..Len(hits), hits[i] = hits[j]
                 PROVE  i = j
      BY <1>0 DEF IsInjective
    <2>1. ~ (i < j) /\ ~ (j < i)
      BY <1>4
    <2> QED BY <1>0, <2>1
  <1>6. hits \in [1..Len(hits) -> Parents(ranking, children)]
    BY <1>0, <1>3
  <1> QED BY <1>1, <1>2, <1>5, <1>6 DEF Injection

(* If i parents have a children between them, J * c =< D for the next one's c *)
(* children, then the bound i * D on J * a grows with i; at i =< J it says a  *)
(* is at most D.                                                              *)
LEMMA NextShare ==
    ASSUME NEW J \in Nat, NEW D \in Nat, NEW a \in Nat, NEW b \in Nat, NEW c \in Nat, NEW i \in Nat,
           J * a =< i * D, J * c =< D, b =< a + c
    PROVE  J * b =< (i + 1) * D
  <1>1. J * b =< J * (a + c)
    <2>1. PICK d \in Nat : a + c = b + d
      <3>1. a + c - b \in Nat /\ a + c = b + (a + c - b)
        OBVIOUS
      <3> QED BY <3>1
    <2>2. J * (a + c) = J * b + J * d
      BY <2>1
    <2>3. J * d \in Nat /\ J * b \in Nat
      OBVIOUS
    <2> QED BY <2>2, <2>3
  <1>2. J * (a + c) = J * a + J * c /\ (i + 1) * D = i * D + D
    OBVIOUS
  <1>3. J * a \in Nat /\ J * c \in Nat /\ i * D \in Nat /\ J * b \in Nat
    OBVIOUS
  <1> QED BY <1>1, <1>2, <1>3

LEMMA AllShares ==
    ASSUME NEW J \in Nat, NEW D \in Nat, NEW a \in Nat, NEW i \in Nat,
           J * a =< i * D, i =< J, J # 0
    PROVE  a =< D
  <1> SUFFICES ASSUME a > D PROVE FALSE
    OBVIOUS
  <1>1. PICK d \in Nat : a = D + 1 + d
    <2>1. a - D - 1 \in Nat /\ a = D + 1 + (a - D - 1)
      OBVIOUS
    <2> QED BY <2>1
  <1>2. PICK e \in Nat : J = i + e
    <2>1. J - i \in Nat /\ J = i + (J - i)
      OBVIOUS
    <2> QED BY <2>1
  <1>3. J * a = J * D + J + J * d
    BY <1>1
  <1>4. J * D = i * D + e * D
    BY <1>2
  <1>5. e * D \in Nat /\ J * d \in Nat /\ i * D \in Nat /\ J * D \in Nat
    OBVIOUS
  <1> QED BY <1>3, <1>4, <1>5

(* Fewer than K parents cannot use up an over-fetch of OverFetch * K children *)
(* when K - 1 times the children of each is less.                             *)
LEMMA FewParentsFit ==
    ASSUME NEW ranking, NEW places, NEW children, Fetched(ranking, places, children),
           IsInjective(ranking), NEW chunks \in Seq(Chunks),
           \A p \in places : ranking[p] \in Range(chunks),
           \A chunk \in Range(chunks) :
              (K - 1) * Cardinality(ChildrenOf(chunk.parent, chunks)) < OverFetch * K,
           NEW hits \in Seq(AllParents), Len(hits) < K,
           \A p \in children : \E i \in 1..Len(hits) : hits[i] = ranking[p].parent
    PROVE  Cardinality(children) < OverFetch * K
  <1> DEFINE J == K - 1
             D == OverFetch * K - 1
             Of(i) == {p \in children : ranking[p].parent = hits[i]}
             First(i) == {p \in children : \E j \in 1..i : ranking[p].parent = hits[j]}
             S == {i \in 0..Len(hits) : J * Cardinality(First(i)) =< i * D}
  <1>0. /\ ranking \in Seq(Chunks) /\ places \in SUBSET (1..Len(ranking)) /\ children \in SUBSET places
        /\ J \in Nat /\ Len(hits) \in Nat
    BY KnowledgeBaseAssumption DEF Fetched
  <1>1. OverFetch * K \in Nat /\ OverFetch * K >= 1 /\ D \in Nat
    <2>1. PICK o \in Nat, k \in Nat : OverFetch = o + 1 /\ K = k + 1
      <3>1. OverFetch - 1 \in Nat /\ K - 1 \in Nat /\ OverFetch = (OverFetch - 1) + 1 /\ K = (K - 1) + 1
        BY KnowledgeBaseAssumption
      <3> QED BY <3>1
    <2>2. OverFetch * K = o * k + o + k + 1 /\ o * k \in Nat
      BY <2>1
    <2> QED BY <2>1, <2>2
  <1>2. IsFiniteSet(children) /\ Cardinality(children) \in Nat
    <2>1. IsFiniteSet(1..Len(ranking))
      BY <1>0, FS_Interval
    <2>2. children \in SUBSET (1..Len(ranking))
      BY <1>0
    <2>3. IsFiniteSet(children)
      BY <2>1, <2>2, FS_Subset
    <2> QED BY <2>3, FS_CardinalityType
  <1>3. \A T \in SUBSET children : IsFiniteSet(T) /\ Cardinality(T) \in Nat
    BY <1>2, FS_Subset, FS_CardinalityType
  <1>4. ASSUME NEW i \in 1..Len(hits)
        PROVE  Of(i) \in SUBSET children /\ J * Cardinality(Of(i)) =< D
    <2>0. Of(i) \in SUBSET children
      OBVIOUS
    <2>1. CASE Of(i) = {}
      <3>1. Cardinality(Of(i)) = 0
        BY <2>1, FS_EmptySet
      <3>2. J * 0 = 0 /\ 0 =< D
        BY <1>0, <1>1
      <3> HIDE DEF Of, J, D
      <3> QED BY <2>0, <3>1, <3>2
    <2>2. CASE Of(i) # {}
      <3>1. PICK p \in Of(i) : TRUE
        BY <2>2
      <3>2. ranking[p] \in Range(chunks) /\ ranking[p].parent = hits[i]
        BY <1>0, <3>1
      <3> DEFINE T == ChildrenOf(hits[i], chunks)
      <3>3. J * Cardinality(T) < OverFetch * K
        BY <3>2
      <3>4. T \in SUBSET (1..Len(chunks))
        BY DEF ChildrenOf
      <3>5. \A o \in Of(i) : \E k \in T : chunks[k] = ranking[o]
        <4> TAKE o \in Of(i)
        <4>1. o \in places /\ ranking[o].parent = hits[i]
          BY <1>0
        <4>2. PICK k \in DOMAIN chunks : chunks[k] = ranking[o]
          BY <4>1 DEF Range
        <4> QED BY <4>1, <4>2 DEF ChildrenOf
      <3>6. Of(i) \in SUBSET (1..Len(ranking))
        BY <1>0, <2>0
      <3> HIDE DEF T, Of, J
      <3>7. IsFiniteSet(T) /\ Cardinality(Of(i)) =< Cardinality(T)
        BY <1>0, <3>4, <3>5, <3>6, PlacesFit, Zenon
      <3>8. Cardinality(T) \in Nat /\ Cardinality(Of(i)) \in Nat
        BY <1>3, <2>0, <3>7, FS_CardinalityType
      <3>9. PICK d \in Nat : Cardinality(T) = Cardinality(Of(i)) + d
        <4>1. Cardinality(T) - Cardinality(Of(i)) \in Nat
          BY <3>7, <3>8
        <4> QED BY <3>8, <4>1
      <3>10. /\ J * Cardinality(T) = J * Cardinality(Of(i)) + J * d
             /\ J * d \in Nat /\ J * Cardinality(Of(i)) \in Nat
        <4>1. PICK c \in Nat : c = Cardinality(Of(i))
          BY <3>8
        <4>2. /\ J * (c + d) = J * c + J * d
              /\ J * d \in Nat /\ J * c \in Nat
          BY <1>0
        <4> QED BY <3>9, <4>1, <4>2
      <3>11. PICK x \in Nat, y \in Nat, m \in Nat :
                /\ x = J * Cardinality(Of(i)) /\ y = J * d /\ m = OverFetch * K
        BY <1>1, <3>10
      <3>12. x + y < m /\ m \in Nat /\ D = m - 1
        BY <3>3, <3>10, <3>11
      <3>13. x =< D
        BY <3>12
      <3> HIDE DEF D
      <3> QED BY <2>0, <3>11, <3>13 DEF Of
    <2> QED BY <2>1, <2>2
  <1>5. 0 \in S
    <2>1. First(0) = {}
      OBVIOUS
    <2>2. Cardinality(First(0)) = 0
      BY <2>1, FS_EmptySet
    <2>3. J * 0 =< 0 * D
      BY <1>0, <1>1
    <2> HIDE DEF First, J, D
    <2> QED BY <2>2, <2>3, <1>0
  <1>6. ASSUME NEW i \in 0..(Len(hits) - 1), i \in S PROVE i + 1 \in S
    <2>1. i + 1 \in 1..Len(hits) /\ i \in Nat /\ i + 1 \in 0..Len(hits)
      BY <1>0
    <2>2. First(i + 1) = First(i) \cup Of(i + 1)
      <3>1. \A j : j \in 1..(i + 1) <=> j \in 1..i \/ j = i + 1
        BY <2>1
      <3> QED BY <3>1
    <2>3. First(i) \in SUBSET children /\ Of(i + 1) \in SUBSET children /\ First(i + 1) \in SUBSET children
      OBVIOUS
    <2>4. J * Cardinality(First(i)) =< i * D
      BY <1>6
    <2> HIDE DEF First, Of
    <2>5. Cardinality(First(i + 1)) =< Cardinality(First(i)) + Cardinality(Of(i + 1))
      <3>1. First(i) \cap Of(i + 1) \in SUBSET children
        BY <2>3
      <3>2. Cardinality(First(i) \cap Of(i + 1)) \in Nat
        BY <1>3, <3>1
      <3>3. Cardinality(First(i + 1)) = Cardinality(First(i)) + Cardinality(Of(i + 1))
                                           - Cardinality(First(i) \cap Of(i + 1))
        BY <1>3, <2>2, <2>3, FS_Union, Zenon
      <3>4. Cardinality(First(i)) \in Nat /\ Cardinality(Of(i + 1)) \in Nat
        BY <1>3, <2>3
      <3> QED BY <3>2, <3>3, <3>4
    <2>6. J * Cardinality(Of(i + 1)) =< D
      BY <1>4, <2>1
    <2> HIDE DEF J, D
    <2>7. J * Cardinality(First(i + 1)) =< (i + 1) * D
      BY <1>0, <1>1, <1>3, <2>1, <2>3, <2>4, <2>5, <2>6, NextShare
    <2> QED BY <2>1, <2>7
  <1>7. J * Cardinality(children) =< Len(hits) * D
    <2>1. Len(hits) \in S
      <3> HIDE DEF S, First, J, D
      <3>1. 0..Len(hits) \subseteq S
        BY <1>0, <1>5, <1>6, CountingUp
      <3> QED BY <1>0, <3>1
    <2>2. First(Len(hits)) = children
      OBVIOUS
    <2> QED BY <2>1, <2>2
  <1>8. CASE J = 0
    <2>1. Len(hits) = 0
      BY <1>0, <1>8
    <2>2. children = {}
      BY <2>1
    <2> QED BY <2>2, <1>1, FS_EmptySet
  <1>9. CASE J # 0
    <2>1. Len(hits) =< J
      BY <1>0, KnowledgeBaseAssumption
    <2>2. Cardinality(children) =< D
      <3> HIDE DEF J, D
      <3> QED BY <1>0, <1>1, <1>2, <1>7, <1>9, <2>1, AllShares
    <2> QED BY <2>2, <1>1, <1>2
  <1> QED BY <1>8, <1>9

-----------------------------------------------------------------------------
(* What a lookup answers. *)

BestHits(r) == BestFirst(r.hits, r.ranking, Matches(r.ranking, r.domain, r.seen))
EnoughHits(r) ==
    /\ r.count >= OverFetch * K \/ r.count = Len(r.seen)
    /\ \A chunk \in Range(r.seen) :
          (K - 1) * Cardinality(ChildrenOf(chunk.parent, r.seen)) < OverFetch * K
    => Len(r.hits) =
          Least(K, Cardinality(Parents(r.ranking, Matches(r.ranking, r.domain, r.seen))))

LEMMA AnswerIsRight ==
    ASSUME NEW r, r.ranking \in Seq(Chunks), IsInjective(r.ranking),
           r.seen \in Seq(Chunks), r.count \in Nat,
           r.hits = Deduplicate(r.ranking,
                       Nearest(Matches(r.ranking, r.domain, r.seen), FetchSize(r.count)))
    PROVE  /\ r.hits \in Seq(AllParents) /\ Len(r.hits) =< K
           /\ BestHits(r) /\ EnoughHits(r)
  <1> DEFINE ranking == r.ranking
             chunks == r.seen
             hits == r.hits
             n == FetchSize(r.count)
             places == Matches(ranking, r.domain, chunks)
             children == Nearest(places, n)
  <1>0. /\ places \in SUBSET (1..Len(ranking))
        /\ \A p \in places : ranking[p] \in Range(chunks)
        /\ K \in Nat /\ OverFetch \in Nat /\ OverFetch * K \in Nat
        /\ ranking \in Seq(Chunks) /\ Len(ranking) \in Nat
        /\ chunks \in Seq(Chunks) /\ Len(chunks) \in Nat
        /\ IsInjective(ranking)
    BY KnowledgeBaseAssumption DEF Matches
  <1>1. n \in Nat /\ (n = OverFetch * K \/ (n = r.count /\ r.count < OverFetch * K))
    BY <1>0 DEF FetchSize, Least
  <1> HIDE DEF n
  <1> HIDE DEF places, ranking, chunks, hits
  <1>2. /\ Fetched(ranking, places, children)
        /\ IsFiniteSet(places)
        /\ \/ children = places
           \/ n =< Cardinality(children) /\ n < Cardinality(places)
    BY <1>0, <1>1, NearestAreFetched
  <1> HIDE DEF children
  <1>3. hits = Deduplicate(ranking, children)
    BY DEF n, places, children, ranking, chunks, hits
  <1>4. HitsUpTo(hits, Len(ranking), ranking, places, children)
    BY <1>2, <1>3, DeduplicateIsRight
  <1>5. hits \in Seq(AllParents) /\ Len(hits) =< K /\ Len(hits) \in Nat
    BY <1>4 DEF HitsUpTo
  <1>6. /\ hits \in Injection(1..Len(hits), Parents(ranking, children))
        /\ Parents(ranking, children) \subseteq Parents(ranking, places)
        /\ Parents(ranking, UpTo(children, Len(ranking))) = Parents(ranking, children)
    BY <1>2, <1>4, HitsAreDistinct
  <1>7. BestHits(r)
    <2>1. \A i \in 1..Len(hits) : hits[i] \in Parents(ranking, places)
      BY <1>6 DEF Injection
    <2>2. ASSUME NEW i \in 1..Len(hits)
          PROVE  {parent \in Parents(ranking, places) :
                    Nearness(ranking, places, parent) < Nearness(ranking, places, hits[i])}
                   = {hits[j] : j \in 1..(i - 1)}
      <3>1. \A j \in 1..(i - 1) : hits[j] \in Parents(ranking, places)
        BY <1>5, <2>1
      <3>2. \A parent \in Parents(ranking, places) :
               Nearness(ranking, places, parent) < Nearness(ranking, places, hits[i])
                  <=> \E j \in 1..(i - 1) : hits[j] = parent
        BY <1>4 DEF HitsUpTo
      <3> QED BY <3>1, <3>2, Zenon
    <2>3. DOMAIN hits = 1..Len(hits)
      BY <1>5
    <2>4. BestFirst(hits, ranking, places)
      BY <2>1, <2>2, <2>3 DEF BestFirst, Range
    <2> QED BY <2>4 DEF BestHits, places, ranking, chunks, hits
  <1>8. EnoughHits(r)
    <2> DEFINE all == Parents(ranking, places)
    <2> SUFFICES ASSUME r.count >= OverFetch * K \/ r.count = Len(chunks),
                        \A chunk \in Range(chunks) :
                           (K - 1) * Cardinality(ChildrenOf(chunk.parent, chunks)) < OverFetch * K
                 PROVE  Len(hits) = Least(K, Cardinality(all))
      BY DEF EnoughHits, places, ranking, chunks, hits
    <2>1. IsFiniteSet(all) /\ Cardinality(all) \in Nat
      BY <1>2, ParentsAreFinite
    <2>2. IsFiniteSet(1..Len(hits)) /\ Cardinality(1..Len(hits)) = Len(hits)
      BY <1>5, FirstNumbers, Zenon
    <2>3. hits \in Injection(1..Len(hits), all)
      BY <1>6 DEF Injection
    <2> HIDE DEF all
    <2>4. Len(hits) =< Cardinality(all)
      BY <2>1, <2>2, <2>3, FS_Injection
    <2>5. CASE Len(hits) = K
      BY <2>1, <2>4, <2>5, <1>0 DEF Least
    <2>6. CASE Len(hits) < K
      <3>1. \A parent \in Parents(ranking, children) : \E i \in 1..Len(hits) : hits[i] = parent
        BY <1>4, <1>6, <2>6 DEF HitsUpTo
      <3>2. children = places
        <4>1. SUFFICES ASSUME children # places PROVE FALSE
          OBVIOUS
        <4>2. n =< Cardinality(children) /\ n < Cardinality(places)
          BY <1>2, <4>1
        <4>3. \A p \in children : \E i \in 1..Len(hits) : hits[i] = ranking[p].parent
          BY <3>1 DEF Parents
        <4>4. Cardinality(children) < OverFetch * K
          BY <1>0, <1>2, <1>5, <2>6, <4>3, FewParentsFit
        <4>5. Cardinality(places) =< Len(chunks) /\ Cardinality(places) \in Nat
          <5>1. \A p \in places : \E o \in 1..Len(chunks) : chunks[o] = ranking[p]
            <6> TAKE p \in places
            <6>1. PICK o \in DOMAIN chunks : chunks[o] = ranking[p]
              BY <1>0, Zenon DEF Range
            <6>2. DOMAIN chunks = 1..Len(chunks)
              BY <1>0
            <6> QED BY <6>1, <6>2
          <5>2. Cardinality(places) =< Cardinality(1..Len(chunks))
            <6>1. 1..Len(chunks) \in SUBSET (1..Len(chunks))
              OBVIOUS
            <6> QED BY <1>0, <5>1, <6>1, PlacesFit, Zenon
          <5>3. Cardinality(1..Len(chunks)) = Len(chunks)
            BY <1>0, FirstNumbers, Zenon
          <5>4. Cardinality(places) \in Nat
            BY <1>2, FS_CardinalityType
          <5> QED BY <5>2, <5>3, <5>4
        <4>6. Cardinality(children) \in Nat
          <5>1. children \in SUBSET places
            BY <1>2 DEF Fetched
          <5> QED BY <1>2, <5>1, FS_Subset, FS_CardinalityType
        <4> QED BY <1>0, <1>1, <4>2, <4>4, <4>5, <4>6
      <3>3. hits \in Surjection(1..Len(hits), all)
        BY <2>3, <3>1, <3>2 DEF Injection, Surjection, all
      <3>4. Len(hits) = Cardinality(all)
        BY <2>1, <2>2, <2>3, <3>3, FS_Injection
      <3> QED BY <2>1, <2>6, <3>4, <1>0 DEF Least
    <2> QED BY <1>0, <1>5, <2>5, <2>6
  <1> QED BY <1>5, <1>7, <1>8 DEF hits

-----------------------------------------------------------------------------
(* What is known of a lookup. *)

LookupRecords ==
    [step : LookupSteps, domain : Domains \cup {AnyIndex}, ranking : Rankings \cup {<<>>},
     on : Ingests \cup {None}, count : Nat, hits : Seq(AllParents), seen : Seq(Chunks)]

(* A lookup under way has its query's ranking, and from the second call on a  *)
(* handle; one that has answered has answered well.                           *)
LookupOK(r) ==
    /\ r \in LookupRecords /\ Len(r.hits) =< K
    /\ r.step \in {"collection", "route", "count", "query"} => r.ranking \in Rankings
    /\ r.step \in {"route", "count", "query"} => r.on \in Ingests
    /\ r.step = "answered" => BestHits(r) /\ EnoughHits(r)

LookupsOK ==
    /\ lookup \in [Lookups -> LookupRecords]
    /\ \A q \in Lookups : LookupOK(lookup[q])

CachesOK ==
    /\ handle \in Ingests \cup {None}
    /\ centroids \in [known : BOOLEAN, domains : SUBSET Domains]
    /\ crashes \in Nat /\ restarts \in Nat
    /\ \A i \in Ingests : ingest[i].corpus \in Corpora \cup {<<>>}

SearchInvariant == IndexInvariant /\ LookupsOK /\ CachesOK

LEMMA LookupMoves ==
    ASSUME LookupsOK, NEW q \in Lookups, NEW r, LookupOK(r), lookup' = [lookup EXCEPT ![q] = r]
    PROVE  LookupsOK'
  <1>1. r \in LookupRecords
    BY DEF LookupOK
  <1>2. lookup' \in [Lookups -> LookupRecords]
    BY <1>1 DEF LookupsOK
  <1>3. \A o \in Lookups : lookup'[o] = IF o = q THEN r ELSE lookup[o]
    BY DEF LookupsOK
  <1>4. \A o \in Lookups : LookupOK(lookup'[o])
    BY <1>3 DEF LookupsOK
  <1>5. \A o \in Lookups : LookupOK(lookup[o])'
    BY <1>4 DEF LookupOK, BestHits, EnoughHits
  <1> QED BY <1>2, <1>5 DEF LookupsOK

(* A call that raises, or is lost with the process. *)
LEMMA EndedIsOK ==
    ASSUME NEW r, LookupOK(r), NEW step \in {"raised", "lost"}
    PROVE  LookupOK([r EXCEPT !.step = step])
  <1>1. [r EXCEPT !.step = step] \in LookupRecords
    BY DEF LookupOK, LookupRecords, LookupSteps
  <1>2. /\ [r EXCEPT !.step = step].step = step
        /\ [r EXCEPT !.step = step].hits = r.hits
    BY DEF LookupOK, LookupRecords
  <1> QED BY <1>1, <1>2 DEF LookupOK

LEMMA FailsIsOK ==
    ASSUME LookupsOK, NEW q \in Lookups, Fails(q)
    PROVE  LookupsOK'
  <1>1. LookupOK([lookup[q] EXCEPT !.step = "raised"])
    BY EndedIsOK DEF LookupsOK
  <1>2. lookup' = [lookup EXCEPT ![q] = [lookup[q] EXCEPT !.step = "raised"]]
    BY DEF Fails, LookupsOK
  <1> QED BY <1>1, <1>2, LookupMoves

LEMMA CallStep ==
    ASSUME LookupsOK, NEW q \in Lookups, Call(q)
    PROVE  LookupsOK'
  <1>1. PICK domain \in Domains \cup {AnyIndex}, ranking \in Rankings :
          lookup' = [lookup EXCEPT ![q].step = "collection", ![q].domain = domain,
                                   ![q].ranking = ranking]
    BY DEF Call
  <1> DEFINE r == [lookup[q] EXCEPT !.step = "collection", !.domain = domain, !.ranking = ranking]
  <1>2. lookup' = [lookup EXCEPT ![q] = r]
    BY <1>1 DEF LookupsOK
  <1>3. lookup[q] \in LookupRecords /\ Len(lookup[q].hits) =< K
    BY DEF LookupsOK, LookupOK
  <1>4. /\ r \in LookupRecords /\ r.hits = lookup[q].hits
        /\ r.step = "collection" /\ r.ranking \in Rankings
    BY <1>3 DEF LookupRecords, LookupSteps
  <1>5. LookupOK(r)
    BY <1>3, <1>4 DEF LookupOK
  <1> QED BY <1>2, <1>5, LookupMoves

LEMMA GetCollectionStep ==
    ASSUME IndexTypes, CachesOK, LookupsOK, NEW q \in Lookups, GetCollection(q)
    PROVE  LookupsOK' /\ handle' \in Ingests \cup {None}
  <1> DEFINE found == IF handle # None THEN handle ELSE live
             step == IF lookup[q].domain = AnyIndex THEN "route" ELSE "count"
             r == [lookup[q] EXCEPT !.on = found, !.step = step]
  <1>0. found \in Ingests \cup {None}
    BY DEF IndexTypes, CachesOK
  <1>1. CASE found = None
    <2>1. Fails(q) /\ handle' = handle
      BY <1>1 DEF GetCollection
    <2> QED BY <2>1, FailsIsOK DEF CachesOK
  <1>2. CASE found # None
    <2>1. /\ handle' = found
          /\ lookup' = [lookup EXCEPT ![q].on = found, ![q].step = step]
          /\ lookup[q].step = "collection"
      BY <1>2 DEF GetCollection
    <2>2. lookup' = [lookup EXCEPT ![q] = r]
      BY <2>1 DEF LookupsOK
    <2>3. /\ lookup[q] \in LookupRecords /\ Len(lookup[q].hits) =< K
          /\ lookup[q].ranking \in Rankings
      BY <2>1 DEF LookupsOK, LookupOK
    <2>4. found \in Ingests /\ step \in {"route", "count"}
      BY <1>0, <1>2
    <2> HIDE DEF found, step
    <2>5. /\ r \in LookupRecords /\ r.hits = lookup[q].hits /\ r.ranking = lookup[q].ranking
          /\ r.step = step /\ r.on = found
      BY <2>3, <2>4 DEF LookupRecords, LookupSteps
    <2>6. LookupOK(r)
      BY <2>3, <2>4, <2>5 DEF LookupOK
    <2> QED BY <2>1, <2>2, <2>4, <2>6, LookupMoves
  <1> QED BY <1>1, <1>2

LEMMA DomainsOfChunks ==
    ASSUME IndexTypes, NEW i \in Ingests
    PROVE  DomainsIn(i) \subseteq Domains
  <1>1. content[i] \in Seq(Chunks)
    BY DEF IndexTypes
  <1>2. Range(content[i]) \subseteq Chunks
    BY <1>1 DEF Range
  <1> QED BY <1>2, KnowledgeBaseAssumption DEF DomainsIn

LEMMA RouteStep ==
    ASSUME IndexTypes, CachesOK, LookupsOK, NEW q \in Lookups, Route(q)
    PROVE  LookupsOK' /\ centroids' \in [known : BOOLEAN, domains : SUBSET Domains]
  <1> DEFINE i == lookup[q].on
             domains == IF centroids.known THEN centroids.domains ELSE DomainsIn(i)
  <1>0. /\ lookup[q].step = "route" /\ lookup[q] \in LookupRecords /\ Len(lookup[q].hits) =< K
        /\ lookup[q].ranking \in Rankings /\ i \in Ingests
    BY DEF Route, LookupsOK, LookupOK
  <1>1. CASE ~centroids.known /\ i # live
    <2>1. Fails(q) /\ centroids' = centroids
      BY <1>1 DEF Route
    <2> QED BY <2>1, FailsIsOK DEF CachesOK
  <1>2. CASE ~(~centroids.known /\ i # live)
    <2>1. domains \in SUBSET Domains
      BY <1>0, DomainsOfChunks DEF CachesOK
    <2>2. /\ centroids' = [known |-> TRUE, domains |-> domains]
          /\ \E domain \in NearestDomain(domains) :
                lookup' = [lookup EXCEPT ![q].domain = domain, ![q].step = "count"]
      BY <1>2 DEF Route
    <2> HIDE DEF domains
    <2>3. PICK domain \in NearestDomain(domains) :
                lookup' = [lookup EXCEPT ![q].domain = domain, ![q].step = "count"]
      BY <2>2
    <2>4. domain \in Domains
      BY <2>1 DEF NearestDomain, Domains
    <2> DEFINE r == [lookup[q] EXCEPT !.domain = domain, !.step = "count"]
    <2>5. lookup' = [lookup EXCEPT ![q] = r]
      BY <2>3 DEF LookupsOK
    <2>6. /\ r \in LookupRecords /\ r.hits = lookup[q].hits /\ r.ranking = lookup[q].ranking
          /\ r.step = "count" /\ r.on = i
      BY <1>0, <2>4 DEF LookupRecords, LookupSteps
    <2>7. LookupOK(r)
      BY <1>0, <2>6 DEF LookupOK
    <2> QED BY <2>1, <2>2, <2>5, <2>7, LookupMoves
  <1> QED BY <1>1, <1>2

LEMMA CountStep ==
    ASSUME IndexTypes, LookupsOK, NEW q \in Lookups, Count(q)
    PROVE  LookupsOK'
  <1> DEFINE i == lookup[q].on
             r == [lookup[q] EXCEPT !.count = Len(content[i]), !.step = "query"]
  <1>0. /\ lookup[q].step = "count" /\ lookup[q] \in LookupRecords /\ Len(lookup[q].hits) =< K
        /\ lookup[q].ranking \in Rankings /\ i \in Ingests
    BY DEF Count, LookupsOK, LookupOK
  <1>1. CASE i # live
    BY <1>1, FailsIsOK DEF Count
  <1>2. CASE i = live
    <2>1. lookup' = [lookup EXCEPT ![q].count = Len(content[i]), ![q].step = "query"]
      BY <1>2 DEF Count
    <2>2. lookup' = [lookup EXCEPT ![q] = r]
      BY <2>1 DEF LookupsOK
    <2>3. Len(content[i]) \in Nat
      <3>1. content[i] \in Seq(Chunks)
        BY <1>0 DEF IndexTypes
      <3> QED BY <3>1
    <2>4. /\ r \in LookupRecords /\ r.hits = lookup[q].hits /\ r.ranking = lookup[q].ranking
          /\ r.step = "query" /\ r.on = i
      BY <1>0, <2>3 DEF LookupRecords, LookupSteps
    <2>5. LookupOK(r)
      BY <1>0, <2>4 DEF LookupOK
    <2> QED BY <2>2, <2>5, LookupMoves
  <1> QED BY <1>1, <1>2

LEMMA QueryStep ==
    ASSUME IndexTypes, LookupsOK, NEW q \in Lookups, Query(q)
    PROVE  LookupsOK'
  <1> DEFINE old == lookup[q]
             i == old.on
             hits == Deduplicate(old.ranking,
                        Nearest(Matches(old.ranking, old.domain, content[i]), FetchSize(old.count)))
             r == [old EXCEPT !.hits = hits, !.seen = content[i], !.step = "answered"]
  <1>0. /\ old.step = "query" /\ old \in LookupRecords
        /\ old.ranking \in Rankings /\ i \in Ingests
    BY DEF Query, LookupsOK, LookupOK
  <1>1. CASE i # live \/ FetchSize(old.count) = 0
    BY <1>1, FailsIsOK DEF Query
  <1>2. CASE ~(i # live \/ FetchSize(old.count) = 0)
    <2>1. lookup' = [lookup EXCEPT ![q].hits = hits, ![q].seen = content[i], ![q].step = "answered"]
      BY <1>2 DEF Query
    <2>2. lookup' = [lookup EXCEPT ![q] = r]
      BY <2>1 DEF LookupsOK
    <2>3. content[i] \in Seq(Chunks)
      BY <1>0 DEF IndexTypes
    <2>4. old.ranking \in Seq(Chunks) /\ IsInjective(old.ranking)
      BY <1>0, KnowledgeBaseAssumption
    <2>5. /\ r.hits = hits /\ r.seen = content[i] /\ r.step = "answered"
          /\ r.ranking = old.ranking /\ r.domain = old.domain /\ r.count = old.count
          /\ r.count \in Nat
      <3> HIDE DEF hits
      <3> QED BY <1>0 DEF LookupRecords
    <2> HIDE DEF r
    <2>6. /\ r.hits \in Seq(AllParents) /\ Len(r.hits) =< K
          /\ BestHits(r) /\ EnoughHits(r)
      BY <2>3, <2>4, <2>5, AnswerIsRight
    <2>7. hits \in Seq(AllParents)
      BY <2>5, <2>6
    <2>8. r \in LookupRecords
      <3> HIDE DEF hits
      <3> QED BY <1>0, <2>3, <2>7 DEF LookupRecords, LookupSteps, r
    <2>9. LookupOK(r)
      BY <2>5, <2>6, <2>8 DEF LookupOK
    <2> QED BY <2>2, <2>9, LookupMoves
  <1> QED BY <1>1, <1>2

LEMMA RestartStep ==
    ASSUME CachesOK, LookupsOK, Restart
    PROVE  LookupsOK' /\ CachesOK'
  <1>1. /\ handle' = None /\ centroids' = NotComputed /\ restarts' = restarts + 1
        /\ crashes' = crashes /\ ingest' = ingest
    BY DEF Restart
  <1>2. NotComputed \in [known : BOOLEAN, domains : SUBSET Domains]
    BY DEF NotComputed
  <1>3. CachesOK'
    BY <1>1, <1>2 DEF CachesOK
  <1>4. ASSUME NEW q \in Lookups
        PROVE  LookupOK(lookup'[q]) /\ lookup'[q] \in LookupRecords
    <2>1. LookupOK(lookup[q])
      BY DEF LookupsOK
    <2>2. lookup'[q] = lookup[q] \/ lookup'[q] = [lookup[q] EXCEPT !.step = "lost"]
      BY DEF Restart
    <2>3. LookupOK([lookup[q] EXCEPT !.step = "lost"])
      BY <2>1, EndedIsOK
    <2>4. LookupOK(lookup'[q])
      BY <2>1, <2>2, <2>3
    <2> QED BY <2>4 DEF LookupOK
  <1>5. lookup' = [q \in Lookups |-> lookup'[q]]
    BY DEF Restart
  <1>6. lookup' \in [Lookups -> LookupRecords]
    BY <1>4, <1>5
  <1>7. \A q \in Lookups : LookupOK(lookup[q])'
    BY <1>4 DEF LookupOK, BestHits, EnoughHits
  <1> QED BY <1>3, <1>6, <1>7 DEF LookupsOK

(* An ingest touches no lookup, and its corpus is one of the files'. *)
LEMMA IngestingCaches ==
    ASSUME IndexTypes, CachesOK, LookupsOK, NEW i \in Ingests, Ingesting(i)
    PROVE  CachesOK' /\ LookupsOK'
  <1>1. lookup' = lookup /\ handle' = handle /\ centroids' = centroids /\ restarts' = restarts
    BY DEF Ingesting, Load, Delete, Create, Add, Report, Crash, caches, bounds
  <1>2. crashes' = crashes \/ crashes' = crashes + 1
    BY DEF Ingesting, Load, Delete, Create, Add, Report, Crash, caches, bounds
  <1>3. \A j \in Ingests : ingest'[j].corpus = ingest[j].corpus \/ ingest'[j].corpus \in Corpora
    <2>1. CASE Load(i)
      <3>1. CASE GoTo(i, "raised")
        BY <3>1 DEF GoTo, IndexTypes
      <3>2. CASE \E corpus \in Corpora :
                    ingest' = [ingest EXCEPT ![i] = [step |-> "reset", corpus |-> corpus]]
        BY <3>2 DEF IndexTypes
      <3> QED BY <2>1, <3>1, <3>2 DEF Load
    <2>2. CASE \E step \in IngestSteps : GoTo(i, step)
      BY <2>2 DEF GoTo, IndexTypes
    <2>3. CASE ingest' = ingest
      BY <2>3
    <2>4. Load(i) \/ (\E step \in IngestSteps : GoTo(i, step)) \/ ingest' = ingest
      BY DEF Ingesting, Delete, Create, Add, Report, Crash, IngestSteps
    <2> QED BY <2>1, <2>2, <2>3, <2>4
  <1>4. CachesOK'
    BY <1>1, <1>2, <1>3 DEF CachesOK
  <1>5. LookupsOK'
    BY <1>1 DEF LookupsOK, LookupOK, BestHits, EnoughHits
  <1> QED BY <1>4, <1>5

LEMMA InitSearch == Init => SearchInvariant
  <1> SUFFICES ASSUME Init PROVE LookupsOK /\ CachesOK
    BY InitIndex DEF SearchInvariant
  <1>0. <<>> \in Seq(AllParents) /\ <<>> \in Seq(Chunks) /\ Len(<<>>) = 0 /\ 0 =< K
    BY KnowledgeBaseAssumption
  <1>1. NotComputed \in [known : BOOLEAN, domains : SUBSET Domains]
    BY DEF NotComputed
  <1>2. CachesOK
    BY <1>1 DEF Init, CachesOK
  <1> DEFINE r == [step |-> "idle", domain |-> AnyIndex, ranking |-> <<>>,
                   on |-> None, count |-> 0, hits |-> <<>>, seen |-> <<>>]
  <1>3. r \in LookupRecords
    BY <1>0 DEF LookupRecords, LookupSteps
  <1>4. LookupOK(r)
    BY <1>0, <1>3 DEF LookupOK
  <1>5. lookup = [q \in Lookups |-> r]
    BY DEF Init
  <1> HIDE DEF r
  <1>6. LookupsOK
    BY <1>3, <1>4, <1>5 DEF LookupsOK
  <1> QED BY <1>2, <1>6

LEMMA NextSearch == SearchInvariant /\ [Next]_vars => SearchInvariant'
  <1> SUFFICES ASSUME SearchInvariant, [Next]_vars PROVE LookupsOK' /\ CachesOK'
    BY NextIndex DEF SearchInvariant
  <1>0. IndexTypes /\ LookupsOK /\ CachesOK
    BY DEF SearchInvariant, IndexInvariant
  <1>1. CASE UNCHANGED vars
    <2>1. /\ lookup' = lookup /\ handle' = handle /\ centroids' = centroids
          /\ restarts' = restarts /\ crashes' = crashes /\ ingest' = ingest
      BY <1>1 DEF vars, caches, bounds
    <2> QED BY <1>0, <2>1 DEF CachesOK, LookupsOK, LookupOK, BestHits, EnoughHits
  <1>2. ASSUME NEW i \in Ingests, Ingesting(i) PROVE LookupsOK' /\ CachesOK'
    BY <1>0, <1>2, IngestingCaches
  <1>3. ASSUME NEW q \in Lookups, Retrieving(q) PROVE LookupsOK' /\ CachesOK'
    <2>1. ingest' = ingest /\ crashes' = crashes /\ restarts' = restarts
      BY <1>3 DEF Retrieving, Call, GetCollection, Route, Count, Query, bounds
    <2>2. CASE Call(q)
      <3>1. handle' = handle /\ centroids' = centroids
        BY <2>2 DEF Call, caches
      <3> QED BY <1>0, <2>1, <2>2, <3>1, CallStep DEF CachesOK
    <2>3. CASE GetCollection(q)
      <3>1. centroids' = centroids
        BY <2>3 DEF GetCollection
      <3> QED BY <1>0, <2>1, <2>3, <3>1, GetCollectionStep DEF CachesOK
    <2>4. CASE Route(q)
      <3>1. handle' = handle
        BY <2>4 DEF Route
      <3> QED BY <1>0, <2>1, <2>4, <3>1, RouteStep DEF CachesOK
    <2>5. CASE Count(q)
      <3>1. handle' = handle /\ centroids' = centroids
        BY <2>5 DEF Count, caches
      <3> QED BY <1>0, <2>1, <2>5, <3>1, CountStep DEF CachesOK
    <2>6. CASE Query(q)
      <3>1. handle' = handle /\ centroids' = centroids
        BY <2>6 DEF Query, caches
      <3> QED BY <1>0, <2>1, <2>6, <3>1, QueryStep DEF CachesOK
    <2> QED BY <1>3, <2>2, <2>3, <2>4, <2>5, <2>6 DEF Retrieving
  <1>4. CASE Restart
    BY <1>0, <1>4, RestartStep
  <1> QED BY <1>1, <1>2, <1>3, <1>4 DEF Next

(* For any number of lookups, ingests and restarts, any rankings, K and       *)
(* over-fetch: what is known of lookups and caches holds at all times.        *)
THEOREM SearchInvariance == Spec => []SearchInvariant
  BY InitSearch, NextSearch, PTL DEF Spec

(* Every variable of the knowledge base keeps its type. *)
THEOREM KnowledgeBaseTypes == Spec => []TypeOK
  <1>1. SearchInvariant => TypeOK
    <2> SUFFICES ASSUME SearchInvariant PROVE TypeOK
      OBVIOUS
    <2>0. IndexTypes /\ LookupsOK /\ CachesOK
      BY DEF SearchInvariant, IndexInvariant
    <2>1. \A i \in Ingests : ingest[i].step \in IngestSteps
      BY <2>0 DEF IndexTypes
    <2>2. \A q \in Lookups :
             /\ lookup[q].step \in LookupSteps
             /\ lookup[q].domain \in Domains \cup {AnyIndex}
             /\ lookup[q].on \in Ingests \cup {None}
             /\ lookup[q].count \in Nat
             /\ Len(lookup[q].hits) =< K
      BY <2>0 DEF LookupsOK, LookupOK, LookupRecords
    <2> QED BY <2>0, <2>1, <2>2 DEF TypeOK, IndexTypes, CachesOK
  <1> QED BY <1>1, SearchInvariance, PTL

(* Whatever ingests and restarts overlap with it, a lookup that answers       *)
(* answers with the parents of the nearest children of the collection it      *)
(* searched, each once and in order (retriever.py:130).                       *)
THEOREM LookupsFindTheBest == Spec => []HitsAreTheBest
  <1>1. SearchInvariant => HitsAreTheBest
    BY DEF SearchInvariant, LookupsOK, LookupOK, HitsAreTheBest, Answered, BestHits, Candidates
  <1> QED BY <1>1, SearchInvariance, PTL

(* For every K and factor, the over-fetch is enough for K hits when K - 1     *)
(* parents cannot use it up (retriever.py:120).                               *)
THEOREM OverFetchIsEnough == Spec => []OverFetchSuffices
  <1>1. SearchInvariant => OverFetchSuffices
    BY DEF SearchInvariant, LookupsOK, LookupOK, OverFetchSuffices, Answered, EnoughHits, Candidates
  <1> QED BY <1>1, SearchInvariance, PTL
=============================================================================
