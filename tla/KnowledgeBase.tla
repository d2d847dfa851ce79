--------------------------- MODULE KnowledgeBase ---------------------------
(* The Chroma collection "estc" between the program that rebuilds it          *)
(* (rag/ingest.py, run by hand in a process of its own, several at a time if  *)
(* several people do) and the orchestrator that searches it (rag/retriever.py,*)
(* one worker thread per lookup).  Both open the same directory; chromadb     *)
(* serialises its calls, nothing serialises the callers.                      *)
(*                                                                            *)
(* chromadb is external: a collection has an identity besides its name, and   *)
(* every call on the handle of a dropped one raises.  An ingest creates at    *)
(* most one collection, so its own identity serves for the collection's.  The *)
(* search is taken to be exact.  A chunk is a child with its metadata.        *)
EXTENDS Integers, Sequences, Functions, FiniteSets

CONSTANTS
    Ingests,      \* runs of rag/ingest.py
    Lookups,      \* calls of retrieve
    Chunks,       \* children: their parent, their number in it, their domain
    Corpora,      \* the chunk sequences the markdown files may split into
    Rankings,     \* orders of the chunks by distance to a query, nearest first
    Batch,        \* _ADD_BATCH
    MinChunks,    \* the count below which ingest's main program fails
    K,            \* the k of retrieve
    OverFetch,    \* children fetched for each hit wanted, 4 in the code
    MaxCrashes,   \* bound on ingests killed midway
    MaxRestarts   \* bound on restarts of the orchestrator

None == "none"
Billing == "billing"
Technical == "technical"
Domains == {Billing, Technical}
AnyIndex == "any"

ASSUME KnowledgeBaseAssumption ==
    /\ None \notin Ingests
    /\ \A chunk \in Chunks : chunk.domain \in Domains
    /\ Corpora \subseteq Seq(Chunks)
    /\ \A ranking \in Rankings : ranking \in Seq(Chunks) /\ IsInjective(ranking)
    /\ Batch \in Nat \ {0}
    /\ MinChunks \in Nat
    /\ K \in Nat \ {0}
    /\ OverFetch \in Nat \ {0}

VARIABLES
    live,         \* the ingest whose collection is named "estc", or None
    content,      \* what each ingest added to the collection it created
    ingest,       \* the runs of the ingest
    handle,       \* cached result of _get_collection, or None
    centroids,    \* cached result of _domain_centroids
    lookup,       \* the calls of retrieve
    crashes, restarts

index == <<live, content>>
caches == <<handle, centroids>>
bounds == <<crashes, restarts>>
vars == <<live, content, ingest, caches, lookup, bounds>>

NotComputed == [known |-> FALSE, domains |-> {}]

IngestSteps == {"idle", "reset", "create", "adding", "done", "rejected", "raised", "crashed"}
LookupSteps == {"idle", "collection", "route", "count", "query", "answered", "raised", "lost"}

TypeOK ==
    /\ live \in Ingests \cup {None}
    /\ content \in [Ingests -> Seq(Chunks)]
    /\ \A i \in Ingests : ingest[i].step \in IngestSteps /\ ingest[i].corpus \in Corpora \cup {<<>>}
    /\ handle \in Ingests \cup {None}
    /\ centroids \in [known : BOOLEAN, domains : SUBSET Domains]
    /\ \A q \in Lookups :
          /\ lookup[q].step \in LookupSteps
          /\ lookup[q].domain \in Domains \cup {AnyIndex}
          /\ lookup[q].on \in Ingests \cup {None}
          /\ lookup[q].count \in Nat
          /\ Len(lookup[q].hits) =< K
    /\ crashes \in Nat /\ restarts \in Nat

-----------------------------------------------------------------------------
(* run_ingest *)

GoTo(i, step) == ingest' = [ingest EXCEPT ![i].step = step]

(* Read, split and embed the files; no file at all raises FileNotFoundError. *)
Load(i) ==
    /\ ingest[i].step = "idle"
    /\ \/ \E corpus \in Corpora : ingest' = [ingest EXCEPT ![i] = [step |-> "reset", corpus |-> corpus]]
       \/ GoTo(i, "raised")
    /\ UNCHANGED <<index, caches, lookup, bounds>>

(* _reset_collection, first call: drop whatever has the name; nothing having  *)
(* it raises, and the exception is swallowed.                                 *)
Delete(i) ==
    /\ ingest[i].step = "reset"
    /\ live' = None
    /\ GoTo(i, "create")
    /\ UNCHANGED <<content, caches, lookup, bounds>>

(* Not the code: a refused create cleans up before it raises. *)
CreateOrCleanUp(i) ==
    /\ ingest[i].step = "create"
    /\ IF live = None THEN live' = i /\ GoTo(i, "adding") ELSE live' = None /\ GoTo(i, "raised")
    /\ UNCHANGED <<content, caches, lookup, bounds>>

(* _reset_collection, second call: create_collection refuses a taken name. *)
Create(i) ==
    /\ ingest[i].step = "create"
    /\ IF live = None THEN live' = i /\ GoTo(i, "adding")
                      ELSE GoTo(i, "raised") /\ UNCHANGED live
    /\ UNCHANGED <<content, caches, lookup, bounds>>

Least(x, y) == IF x =< y THEN x ELSE y

(* Not the code: batches that overlap by one chunk. *)
NextBatchOverlaps(i) ==
    LET start == Len(content[i]) IN
    SubSeq(ingest[i].corpus, IF start = 0 THEN 1 ELSE start,
           Least(start + Batch, Len(ingest[i].corpus)))

NextBatch(i) ==
    LET start == Len(content[i]) IN
    SubSeq(ingest[i].corpus, start + 1, Least(start + Batch, Len(ingest[i].corpus)))

(* One turn of the loop: add a batch to the collection created above, which   *)
(* raises when another ingest has dropped it.                                 *)
Add(i) ==
    /\ ingest[i].step = "adding"
    /\ Len(content[i]) < Len(ingest[i].corpus)
    /\ IF live = i THEN /\ content' = [content EXCEPT ![i] = @ \o NextBatch(i)]
                        /\ UNCHANGED ingest
                   ELSE GoTo(i, "raised") /\ UNCHANGED content
    /\ UNCHANGED <<live, caches, lookup, bounds>>

(* The report; the main program then fails if there are too few chunks.  The  *)
(* previous collection is gone either way.                                    *)
Report(i) ==
    /\ ingest[i].step = "adding"
    /\ Len(content[i]) >= Len(ingest[i].corpus)
    /\ GoTo(i, IF Len(ingest[i].corpus) < MinChunks THEN "rejected" ELSE "done")
    /\ UNCHANGED <<index, caches, lookup, bounds>>

(* The process is killed, or the disk fills up, between two calls. *)
Crash(i) ==
    /\ ingest[i].step \in {"reset", "create", "adding"}
    /\ crashes < MaxCrashes
    /\ GoTo(i, "crashed")
    /\ crashes' = crashes + 1
    /\ UNCHANGED <<index, caches, lookup, restarts>>

-----------------------------------------------------------------------------
(* retrieve *)

Fails(q) == lookup' = [lookup EXCEPT ![q].step = "raised"]

Call(q) ==
    /\ lookup[q].step = "idle"
    /\ \E domain \in Domains \cup {AnyIndex}, ranking \in Rankings :
          lookup' = [lookup EXCEPT ![q].step = "collection", ![q].domain = domain,
                                   ![q].ranking = ranking]
    /\ UNCHANGED <<index, ingest, caches, bounds>>

(* _get_collection: the first success is kept for the life of the process;    *)
(* looking up the name and caching the handle are one step here.              *)
GetCollection(q) ==
    /\ lookup[q].step = "collection"
    /\ LET found == IF handle # None THEN handle ELSE live IN
       IF found = None THEN Fails(q) /\ UNCHANGED handle
       ELSE /\ handle' = found
            /\ lookup' = [lookup EXCEPT ![q].on = found,
                  ![q].step = IF lookup[q].domain = AnyIndex THEN "route" ELSE "count"]
    /\ UNCHANGED <<index, ingest, centroids, bounds>>

DomainsIn(i) == {chunk.domain : chunk \in Range(content[i])}

(* Not the code: the fallback names the index instead of its domain. *)
NearestToIndex(domains) == IF domains = {} THEN {"kb_technical"} ELSE domains

(* Any domain that has a centroid may be the nearest to the query; without    *)
(* centroids it is the technical one.                                         *)
NearestDomain(domains) == IF domains = {} THEN {Technical} ELSE domains

(* route_query over _domain_centroids, which are computed once.               *)
Route(q) ==
    /\ lookup[q].step = "route"
    /\ LET i == lookup[q].on
           domains == IF centroids.known THEN centroids.domains ELSE DomainsIn(i) IN
       IF ~centroids.known /\ i # live THEN Fails(q) /\ UNCHANGED centroids
       ELSE /\ centroids' = [known |-> TRUE, domains |-> domains]
            /\ \E domain \in NearestDomain(domains) :
                  lookup' = [lookup EXCEPT ![q].domain = domain, ![q].step = "count"]
    /\ UNCHANGED <<index, ingest, handle, bounds>>

Count(q) ==
    /\ lookup[q].step = "count"
    /\ LET i == lookup[q].on IN
       IF i # live THEN Fails(q)
       ELSE lookup' = [lookup EXCEPT ![q].count = Len(content[i]), ![q].step = "query"]
    /\ UNCHANGED <<index, ingest, caches, bounds>>

(* Not the code: as many children as hits are wanted. *)
FetchSizeBare(count) == Least(K, count)

(* n_results *)
FetchSize(count) == Least(OverFetch * K, count)

(* collection.query: the children of the domain that are in the collection,   *)
(* by their place in the ranking, and the n nearest of them.                  *)
Matches(ranking, domain, chunks) ==
    {p \in DOMAIN ranking : ranking[p] \in Range(chunks) /\ ranking[p].domain = domain}
Nearest(matches, n) ==
    {p \in matches : Cardinality({o \in matches : o =< p}) =< n}

(* Not the code: one hit per child. *)
AddHitPerChild(hits, chunk) ==
    IF Len(hits) >= K THEN hits ELSE Append(hits, chunk.parent)

(* The loop over the children: one hit per parent, until there are k. *)
AddHit(hits, chunk) ==
    IF Len(hits) >= K \/ chunk.parent \in Range(hits) THEN hits
    ELSE Append(hits, chunk.parent)
Deduplicate(ranking, children) ==
    LET hits[p \in 0..Len(ranking)] ==
            IF p = 0 THEN <<>>
            ELSE IF p \in children THEN AddHit(hits[p - 1], ranking[p]) ELSE hits[p - 1]
    IN hits[Len(ranking)]

(* Between the count and this call the collection may have grown, or gone;    *)
(* chromadb refuses n_results = 0.                                            *)
Query(q) ==
    /\ lookup[q].step = "query"
    /\ LET i == lookup[q].on
           n == FetchSize(lookup[q].count)
           ranking == lookup[q].ranking
           matches == Matches(ranking, lookup[q].domain, content[i]) IN
       IF i # live \/ n = 0 THEN Fails(q)
       ELSE lookup' = [lookup EXCEPT ![q].hits = Deduplicate(ranking, Nearest(matches, n)),
                                     ![q].seen = content[i],
                                     ![q].step = "answered"]
    /\ UNCHANGED <<index, ingest, caches, bounds>>

(* The orchestrator restarts: its caches go, and so do the calls under way. *)
Restart ==
    /\ restarts < MaxRestarts
    /\ restarts' = restarts + 1
    /\ handle' = None /\ centroids' = NotComputed
    /\ lookup' = [q \in Lookups |->
          IF lookup[q].step \in {"collection", "route", "count", "query"}
          THEN [lookup[q] EXCEPT !.step = "lost"] ELSE lookup[q]]
    /\ UNCHANGED <<index, ingest, crashes>>

Init ==
    /\ live = None
    /\ content = [i \in Ingests |-> <<>>]
    /\ ingest = [i \in Ingests |-> [step |-> "idle", corpus |-> <<>>]]
    /\ handle = None /\ centroids = NotComputed
    /\ lookup = [q \in Lookups |-> [step |-> "idle", domain |-> AnyIndex, ranking |-> <<>>,
                                    on |-> None, count |-> 0, hits |-> <<>>, seen |-> <<>>]]
    /\ crashes = 0 /\ restarts = 0

Ingesting(i) == Load(i) \/ Delete(i) \/ Create(i) \/ Add(i) \/ Report(i) \/ Crash(i)
Retrieving(q) == Call(q) \/ GetCollection(q) \/ Route(q) \/ Count(q) \/ Query(q)

Next ==
    \/ \E i \in Ingests : Ingesting(i)
    \/ \E q \in Lookups : Retrieving(q)
    \/ Restart

Spec == Init /\ [][Next]_vars

-----------------------------------------------------------------------------
(* Properties. *)

(* When an ingest has reported and its collection still has the name, the     *)
(* collection holds its corpus, every chunk once and in order, whatever other *)
(* ingests did meanwhile: ingest.py's "re-ingesting never duplicates chunks". *)
ReportedIndexIsWhole ==
    \A i \in Ingests : live = i /\ ingest[i].step \in {"done", "rejected"}
                          => content[i] = ingest[i].corpus

(* Ingests that race and drop each other's collections, some of them raising, *)
(* still leave one complete index behind once all of those that got as far as *)
(* dropping have ended, provided none was killed midway.                      *)
Dropping == {"create", "adding", "done", "rejected"}
RaceLeavesAnIndex ==
    /\ \A i \in Ingests : ingest[i].step \notin {"create", "adding", "crashed"}
    /\ \E i \in Ingests : ingest[i].step \in Dropping
    => live # None /\ content[live] = ingest[live].corpus

Answered(q) == lookup[q].step = "answered"

(* The children of its domain in the collection that a lookup searched, their *)
(* parents, and how near a parent is: as near as its nearest child.           *)
Candidates(q) == Matches(lookup[q].ranking, lookup[q].domain, lookup[q].seen)
Parents(ranking, places) == {ranking[p].parent : p \in places}
Nearness(ranking, places, parent) ==
    CHOOSE p \in places : /\ ranking[p].parent = parent
                          /\ \A o \in places : ranking[o].parent = parent => p =< o

(* The hits are parents, and before each come exactly those that are nearer.  *)
BestFirst(hits, ranking, places) ==
    /\ Range(hits) \subseteq Parents(ranking, places)
    /\ \A i \in DOMAIN hits :
          {parent \in Parents(ranking, places) :
              Nearness(ranking, places, parent) < Nearness(ranking, places, hits[i])}
            = {hits[j] : j \in 1..(i - 1)}

(* What a lookup answers is the head of the ideal answer over the collection  *)
(* it searched: parents of its domain, each once, nearest first and none      *)
(* nearer left out.                                                           *)
HitsAreTheBest ==
    \A q \in Lookups : Answered(q) => BestFirst(lookup[q].hits, lookup[q].ranking, Candidates(q))

(* The over-fetch of retriever.py:120 is enough for k hits when K - 1 parents *)
(* cannot use it up, and the count was not taken of a half-built collection.  *)
ChildrenOf(parent, chunks) == {p \in DOMAIN chunks : chunks[p].parent = parent}
OverFetchSuffices ==
    \A q \in Lookups :
       /\ Answered(q)
       /\ lookup[q].count >= OverFetch * K \/ lookup[q].count = Len(lookup[q].seen)
       /\ \A chunk \in Range(lookup[q].seen) :
             (K - 1) * Cardinality(ChildrenOf(chunk.parent, lookup[q].seen)) < OverFetch * K
       => Len(lookup[q].hits) = Least(K, Cardinality(Parents(lookup[q].ranking, Candidates(q))))

(* retriever.py:66: the cached handle is one "to the persisted estc           *)
(* collection".                                                               *)
HandleIsPersisted == handle # None /\ live # None => handle = live

-----------------------------------------------------------------------------
(* What the proofs rest on. *)
IndexTypes ==
    /\ live \in Ingests \cup {None}
    /\ content \in [Ingests -> Seq(Chunks)]
    /\ ingest \in [Ingests -> [step : IngestSteps, corpus : Seq(Chunks)]]

(* A collection only ever holds the head of its builder's corpus. *)
AddedInOrder ==
    \A i \in Ingests :
       /\ Len(content[i]) =< Len(ingest[i].corpus)
       /\ content[i] = SubSeq(ingest[i].corpus, 1, Len(content[i]))
       /\ ingest[i].step \in {"idle", "reset", "create"} => content[i] = <<>>
       /\ ingest[i].step \in {"done", "rejected"} => Len(content[i]) = Len(ingest[i].corpus)

(* Whoever has the name is still adding, has reported, or was killed. *)
LiveIsOwned ==
    \A i \in Ingests : live = i => ingest[i].step \in {"adding", "done", "rejected", "crashed"}

(* Unless an ingest was killed, a dropped name is about to be taken again. *)
DropIsFollowed ==
    (live = None /\ \E i \in Ingests : ingest[i].step \in Dropping)
       => \E i \in Ingests : ingest[i].step \in {"create", "crashed"}

IndexInvariant == IndexTypes /\ AddedInOrder /\ LiveIsOwned /\ DropIsFollowed
=============================================================================
