------------------------ MODULE CrawlPipelineProofs -------------------------
(***************************************************************************)
(* Theorems about CrawlPipeline for any site, any options, any number of   *)
(* workers and of user commands: the shape of its state, the blocking      *)
(* stop, the turns that tell one crawl from another, and the view that     *)
(* follows the model.                                                      *)
(*                                                                         *)
(* clearDataImpl resets the counters, then waits for the model, then       *)
(* resets the store. The proofs follow the turn of everything that is on   *)
(* its way through these three steps.                                      *)
(***************************************************************************)

EXTENDS CrawlPipeline, FiniteSetTheorems, SequenceTheorems, TLAPS

(***************************************************************************)
(* Sequences: where elements of a kind are, and how many there are.        *)
(***************************************************************************)

(* The places of a queue that hold one of the given elements.              *)
Places(q, kind) == {i \in DOMAIN q : q[i] \in kind}

(* A queue's places are finitely many.                                     *)
LEMMA PlacesFinite ==
  ASSUME NEW T, NEW q \in Seq(T), NEW kind
  PROVE  /\ IsFiniteSet(Places(q, kind)) /\ Cardinality(Places(q, kind)) \in Nat
         /\ Places(q, kind) = {} <=> Cardinality(Places(q, kind)) = 0
<1>1. Len(q) \in Nat /\ DOMAIN q = 1..Len(q)
  OBVIOUS
<1>2. IsFiniteSet(1..Len(q))
  BY <1>1, FS_Interval
<1>3. Places(q, kind) \in SUBSET (1..Len(q))
  BY <1>1 DEF Places
<1> QED
  BY <1>2, <1>3, FS_Subset, FS_CardinalityType, FS_EmptySet

(* An element joins a queue at its end.                                    *)
LEMMA PlacesAppend ==
  ASSUME NEW T, NEW q \in Seq(T), NEW e \in T, NEW kind
  PROVE  /\ Places(Append(q, e), kind)
              = IF e \in kind THEN Places(q, kind) \union {Len(q) + 1}
                ELSE Places(q, kind)
         /\ Cardinality(Places(Append(q, e), kind))
              = Cardinality(Places(q, kind)) + (IF e \in kind THEN 1 ELSE 0)
<1>1. /\ Len(q) \in Nat /\ DOMAIN q = 1..Len(q)
      /\ DOMAIN Append(q, e) = 1..(Len(q) + 1)
      /\ \A i \in 1..Len(q) : Append(q, e)[i] = q[i]
      /\ Append(q, e)[Len(q) + 1] = e
  OBVIOUS
<1>2. Places(Append(q, e), kind)
        = IF e \in kind THEN Places(q, kind) \union {Len(q) + 1}
          ELSE Places(q, kind)
  BY <1>1 DEF Places
<1>3. Len(q) + 1 \notin Places(q, kind)
  BY <1>1 DEF Places
<1>4. IsFiniteSet(Places(q, kind)) /\ Cardinality(Places(q, kind)) \in Nat
  BY PlacesFinite
<1>5. Cardinality(Places(q, kind) \union {Len(q) + 1})
        = Cardinality(Places(q, kind)) + 1
  BY <1>3, <1>4, FS_AddElement
<1> QED
  BY <1>2, <1>4, <1>5

(* A queue is its head and, one place further on each, its tail.           *)
LEMMA PlacesTail ==
  ASSUME NEW T, NEW q \in Seq(T), q # <<>>, NEW kind
  PROVE  /\ Places(q, kind)
              = {i + 1 : i \in Places(Tail(q), kind)}
                  \union (IF Head(q) \in kind THEN {1} ELSE {})
         /\ Cardinality(Places(q, kind))
              = Cardinality(Places(Tail(q), kind))
                  + (IF Head(q) \in kind THEN 1 ELSE 0)
<1> DEFINE t == Tail(q)
           P == Places(t, kind)
           R == {i + 1 : i \in P}
           f == [i \in P |-> i + 1]
<1>1. /\ Len(q) \in Nat /\ Len(q) >= 1 /\ DOMAIN q = 1..Len(q)
      /\ t \in Seq(T) /\ DOMAIN t = 1..(Len(q) - 1)
      /\ \A i \in 1..(Len(q) - 1) : t[i] = q[i + 1]
      /\ Head(q) = q[1]
  OBVIOUS
<1>2. P \subseteq Nat \ {0}
  BY <1>1 DEF Places
<1>3. Places(q, kind) = R \union (IF Head(q) \in kind THEN {1} ELSE {})
  <2>1. ASSUME NEW k \in Places(q, kind)
        PROVE  k \in R \union (IF Head(q) \in kind THEN {1} ELSE {})
    <3>1. CASE k = 1
      BY <1>1, <2>1, <3>1 DEF Places
    <3>2. CASE k # 1
      <4>1. k - 1 \in P /\ k = (k - 1) + 1
        BY <1>1, <2>1, <3>2 DEF Places
      <4> QED
        BY <4>1
    <3> QED
      BY <3>1, <3>2
  <2>2. ASSUME NEW i \in P PROVE i + 1 \in Places(q, kind)
    BY <1>1, <2>2 DEF Places
  <2>3. Head(q) \in kind => 1 \in Places(q, kind)
    BY <1>1 DEF Places
  <2> QED
    BY <2>1, <2>2, <2>3
<1>4. IsFiniteSet(P) /\ Cardinality(P) \in Nat
  BY <1>1, PlacesFinite
<1>5. ExistsBijection(P, R)
  <2>1. f \in [P -> R] /\ \A a, b \in P : f[a] = f[b] => a = b
    BY <1>2
  <2>2. \A b \in R : \E a \in P : f[a] = b
    OBVIOUS
  <2> QED
    BY <2>1, <2>2 DEF ExistsBijection, Bijection, Injection, Surjection, IsInjective
<1>6. IsFiniteSet(R) /\ Cardinality(R) = Cardinality(P)
  BY <1>4, <1>5, FS_Bijection
<1>7. 1 \notin R
  BY <1>2
<1>8. Cardinality(R \union {1}) = Cardinality(P) + 1
  BY <1>4, <1>6, <1>7, FS_AddElement
<1>9. CASE Head(q) \in kind
  BY <1>3, <1>8, <1>9
<1>10. CASE Head(q) \notin kind
  <2>1. R \union {} = R
    OBVIOUS
  <2> QED
    BY <1>3, <1>4, <1>6, <1>10, <2>1
<1> QED
  BY <1>9, <1>10, <1>3

(* Two sequences one after the other.                                      *)
LEMMA PlacesConcat ==
  ASSUME NEW T, NEW s \in Seq(T), NEW t \in Seq(T), NEW kind
  PROVE  /\ Places(s \o t, kind)
              = Places(s, kind) \union {Len(s) + i : i \in Places(t, kind)}
         /\ Cardinality(Places(s \o t, kind))
              = Cardinality(Places(s, kind)) + Cardinality(Places(t, kind))
<1> DEFINE c == s \o t
           P == Places(t, kind)
           R == {Len(s) + i : i \in P}
           f == [i \in P |-> Len(s) + i]
<1>1. /\ Len(s) \in Nat /\ DOMAIN s = 1..Len(s)
      /\ Len(t) \in Nat /\ DOMAIN t = 1..Len(t)
      /\ DOMAIN c = 1..(Len(s) + Len(t))
      /\ \A i \in 1..Len(s) : c[i] = s[i]
      /\ \A i \in 1..Len(t) : c[Len(s) + i] = t[i]
  OBVIOUS
<1>2. P \subseteq Nat \ {0}
  BY <1>1 DEF Places
<1>3. Places(c, kind) = Places(s, kind) \union R
  <2>1. ASSUME NEW k \in Places(c, kind)
        PROVE  k \in Places(s, kind) \union R
    <3>1. CASE k <= Len(s)
      BY <1>1, <2>1, <3>1 DEF Places
    <3>2. CASE k > Len(s)
      <4>1. k - Len(s) \in P /\ k = Len(s) + (k - Len(s))
        BY <1>1, <2>1, <3>2 DEF Places
      <4> QED
        BY <4>1
    <3> QED
      BY <1>1, <3>1, <3>2 DEF Places
  <2>2. Places(s, kind) \subseteq Places(c, kind)
    BY <1>1 DEF Places
  <2>3. ASSUME NEW i \in P PROVE Len(s) + i \in Places(c, kind)
    BY <1>1, <2>3 DEF Places
  <2> QED
    BY <2>1, <2>2, <2>3
<1>4. /\ IsFiniteSet(P) /\ Cardinality(P) \in Nat
      /\ IsFiniteSet(Places(s, kind)) /\ Cardinality(Places(s, kind)) \in Nat
  BY <1>1, PlacesFinite
<1>5. ExistsBijection(P, R)
  <2>1. f \in [P -> R] /\ \A a, b \in P : f[a] = f[b] => a = b
    BY <1>1, <1>2
  <2>2. \A b \in R : \E a \in P : f[a] = b
    OBVIOUS
  <2> QED
    BY <2>1, <2>2 DEF ExistsBijection, Bijection, Injection, Surjection, IsInjective
<1>6. IsFiniteSet(R) /\ Cardinality(R) = Cardinality(P)
  BY <1>4, <1>5, FS_Bijection
<1>7. Places(s, kind) \intersect R = {}
  BY <1>1, <1>2 DEF Places
<1>8. Cardinality(Places(s, kind) \union R)
        = Cardinality(Places(s, kind)) + Cardinality(R)
            - Cardinality(Places(s, kind) \intersect R)
  BY <1>4, <1>6, FS_Union, Zenon
<1>9. Cardinality(Places(s, kind) \intersect R) = 0
  BY <1>7, FS_EmptySet, Zenon
<1> QED
  BY <1>3, <1>4, <1>6, <1>8, <1>9

(* Queues of events, an event at the end of one and one taken from it.     *)
LEMMA EventsAppend ==
  ASSUME NEW T, NEW q \in Seq(T), NEW e \in T, NEW name
  PROVE  /\ Append(q, e) \in Seq(T) /\ Len(q) \in Nat
         /\ EventsAt(q, name) \subseteq 1..Len(q)
         /\ \A i \in 1..Len(q) : Append(q, e)[i] = q[i]
         /\ Append(q, e)[Len(q) + 1] = e
         /\ EventsAt(Append(q, e), name)
              = IF e.event = name THEN EventsAt(q, name) \union {Len(q) + 1}
                ELSE EventsAt(q, name)
         /\ Counted(q, name) \in Nat
         /\ Counted(Append(q, e), name)
              = Counted(q, name) + (IF e.event = name THEN 1 ELSE 0)
<1> DEFINE kind == {x \in T : x.event = name}
<1>1. /\ Append(q, e) \in Seq(T) /\ Len(q) \in Nat /\ DOMAIN q = 1..Len(q)
      /\ DOMAIN Append(q, e) = 1..(Len(q) + 1)
      /\ \A i \in 1..Len(q) : Append(q, e)[i] = q[i] /\ q[i] \in T
      /\ Append(q, e)[Len(q) + 1] = e
  OBVIOUS
<1>2. EventsAt(q, name) = Places(q, kind)
  BY <1>1 DEF EventsAt, Places
<1>3. EventsAt(Append(q, e), name) = Places(Append(q, e), kind)
  BY <1>1 DEF EventsAt, Places
<1>4. e \in kind <=> e.event = name
  OBVIOUS
<1> HIDE DEF kind
<1>5. /\ Places(Append(q, e), kind)
              = IF e \in kind THEN Places(q, kind) \union {Len(q) + 1}
                ELSE Places(q, kind)
      /\ Cardinality(Places(Append(q, e), kind))
              = Cardinality(Places(q, kind)) + (IF e \in kind THEN 1 ELSE 0)
      /\ Cardinality(Places(q, kind)) \in Nat
  BY PlacesAppend, PlacesFinite
<1>6. EventsAt(q, name) \subseteq 1..Len(q)
  BY <1>1 DEF EventsAt
<1> QED
  BY <1>1, <1>2, <1>3, <1>4, <1>5, <1>6 DEF Counted

(* A queue served: its rest and its head.                                  *)
LEMMA EventsTail ==
  ASSUME NEW T, NEW q \in Seq(T), q # <<>>, NEW name
  PROVE  /\ Tail(q) \in Seq(T) /\ Head(q) \in T /\ Head(q) = q[1]
         /\ Len(q) \in Nat /\ Len(q) >= 1 /\ DOMAIN q = 1..Len(q)
         /\ EventsAt(Tail(q), name) \subseteq 1..(Len(q) - 1)
         /\ \A i \in 1..(Len(q) - 1) : Tail(q)[i] = q[i + 1]
         /\ EventsAt(q, name)
              = {i + 1 : i \in EventsAt(Tail(q), name)}
                  \union (IF Head(q).event = name THEN {1} ELSE {})
         /\ Counted(Tail(q), name) \in Nat
         /\ Counted(q, name)
              = Counted(Tail(q), name) + (IF Head(q).event = name THEN 1 ELSE 0)
<1> DEFINE kind == {x \in T : x.event = name}
           t == Tail(q)
<1>1. /\ t \in Seq(T) /\ Len(q) \in Nat /\ DOMAIN q = 1..Len(q)
      /\ Len(q) >= 1 /\ DOMAIN t = 1..(Len(q) - 1)
      /\ Head(q) \in T /\ Head(q) = q[1]
      /\ \A i \in 1..(Len(q) - 1) : t[i] = q[i + 1] /\ t[i] \in T
      /\ \A i \in 1..Len(q) : q[i] \in T
  OBVIOUS
<1> HIDE DEF t
<1>2. EventsAt(q, name) = Places(q, kind)
  BY <1>1 DEF EventsAt, Places
<1>3. EventsAt(t, name) = Places(t, kind)
  BY <1>1 DEF EventsAt, Places
<1>4. Head(q) \in kind <=> Head(q).event = name
  BY <1>1
<1> HIDE DEF kind
<1>5. /\ Places(q, kind)
              = {i + 1 : i \in Places(t, kind)}
                  \union (IF Head(q) \in kind THEN {1} ELSE {})
      /\ Cardinality(Places(q, kind))
              = Cardinality(Places(t, kind)) + (IF Head(q) \in kind THEN 1 ELSE 0)
      /\ Cardinality(Places(t, kind)) \in Nat
  BY <1>1, PlacesTail, PlacesFinite DEF t
<1>6. EventsAt(t, name) \subseteq 1..(Len(q) - 1)
  BY <1>1 DEF EventsAt
<1> QED
  BY <1>1, <1>2, <1>3, <1>4, <1>5, <1>6 DEF Counted, t

-----------------------------------------------------------------------------
(***************************************************************************)
(* The shape of the state.                                                 *)
(***************************************************************************)

SharedShape ==
  {turnaround, workersProcessedLinksCount, modelControllerCrawledLinksCount,
   modelControllerAcceptedLinksCount, sequencedDataCollectionLinksCount}
    \subseteq Nat

(* Any part of a finite set of requests has a size.                        *)
LEMMA RequestsFinite ==
  ASSUME NEW S \in SUBSET Requests
  PROVE  IsFiniteSet(S) /\ Cardinality(S) \in Nat
BY StoreAssumption, FS_Subset, FS_CardinalityType

(* What the store's methods make of its lists and counters is well typed.  *)
LEMMA StoreShapeKept ==
  ASSUME StoreShape,
         \/ UNCHANGED storeVars
         \/ \E urls \in SUBSET Requests : addUrlList(urls)
         \/ \E r \in Requests : extractUrl(r) \/ addCrawledUrl(r)
                                 \/ activeRequestReceived(r)
         \/ clear
  PROVE  StoreShape'
<1> USE DEF StoreShape
<1>1. CASE UNCHANGED storeVars
  BY <1>1 DEF storeVars, listVars, optionVars, counterVars
<1>2. ASSUME NEW urls \in SUBSET Requests, addUrlList(urls) PROVE StoreShape'
  <2>1. PICK added \in SUBSET NewLinks(urls) :
          /\ pendingUrlList' = pendingUrlList \union added
          /\ downloaderPendingLinksCount' =
               downloaderPendingLinksCount + Cardinality(added)
    BY <1>2 DEF addUrlList
  <2>2. added \in SUBSET Requests
    BY <1>2, <2>1 DEF NewLinks
  <2>3. Cardinality(added) \in Nat
    BY <2>2, RequestsFinite
  <2> QED
    BY <1>2, <2>1, <2>2, <2>3 DEF addUrlList, optionVars
<1>3. ASSUME NEW r \in Requests, extractUrl(r) PROVE StoreShape'
  BY <1>3 DEF extractUrl, optionVars, IncrementGuardExt
<1>4. ASSUME NEW r \in Requests, addCrawledUrl(r) PROVE StoreShape'
  BY <1>4 DEF addCrawledUrl, optionVars, IncrementGuardExt
<1>5. ASSUME NEW r \in Requests, activeRequestReceived(r) PROVE StoreShape'
  BY <1>5 DEF activeRequestReceived, optionVars, counterVars
<1>6. CASE clear
  BY <1>6 DEF clear, optionVars
<1> QED
  BY <1>1, <1>2, <1>3, <1>4, <1>5, <1>6

(* A page as calls of one kind, one for each.                              *)
LEMMA CallsTyped ==
  ASSUME NEW name \in {"extract", "emitResult", "count", "claimHop", "claimBlocked"},
         NEW pages \in Seq(Requests)
  PROVE  /\ Calls(name, pages) \in Seq(CallRecords)
         /\ Len(Calls(name, pages)) = Len(pages)
         /\ \A i \in 1..Len(pages) :
              Calls(name, pages)[i] = [name |-> name, page |-> pages[i]]
<1>1. Len(pages) \in Nat /\ \A i \in 1..Len(pages) : pages[i] \in Requests
  OBVIOUS
<1>2. \A i \in 1..Len(pages) : [name |-> name, page |-> pages[i]] \in CallRecords
  BY <1>1 DEF CallRecords
<1> QED
  BY <1>1, <1>2 DEF Calls

(* The calls a page makes for its lists of links.                          *)
LEMMA AddLinksTyped ==
  ASSUME NEW r \in Requests
  PROVE  /\ AddLinks(r) \in Seq(CallRecords)
         /\ Len(AddLinks(r)) = Len(Links[r]) /\ Len(Links[r]) \in Nat
         /\ \A i \in 1..Len(Links[r]) :
              AddLinks(r)[i] = [name |-> "addLinks", page |-> r, links |-> Links[r][i]]
<1>1. /\ Len(Links[r]) \in Nat
      /\ \A i \in 1..Len(Links[r]) : Links[r][i] \in SUBSET Requests
  <2> DEFINE lists == (SUBSET Requests) \ {{}}
  <2>1. Links[r] \in Seq(lists)
    BY PipelineAssumption, Zenon
  <2>2. lists \subseteq SUBSET Requests
    OBVIOUS
  <2> HIDE DEF lists
  <2>3. Len(Links[r]) \in Nat /\ \A i \in 1..Len(Links[r]) : Links[r][i] \in lists
    BY <2>1
  <2> QED
    BY <2>2, <2>3
<1>2. \A i \in 1..Len(Links[r]) :
        [name |-> "addLinks", page |-> r, links |-> Links[r][i]] \in CallRecords
  BY <1>1 DEF CallRecords
<1> QED
  BY <1>1, <1>2 DEF AddLinks

(* What a worker has to do for a page is a sequence of calls.              *)
LEMMA HandlingTyped ==
  ASSUME NEW r \in Requests
  PROVE  /\ handlePage(r) \in Seq(CallRecords) /\ handlePage(r) # <<>>
         /\ handleResponseData(r) \in Seq(CallRecords)
         /\ handleResponseData(r) # <<>>
<1>1. /\ Blocked[r] \in Seq(Requests) /\ Hops[r] \in Seq(Requests)
      /\ <<r>> \in Seq(Requests) /\ Len(<<r>>) = 1
  BY PipelineAssumption
<1>2. /\ AddLinks(r) \in Seq(CallRecords)
      /\ Calls("emitResult", <<r>>) \in Seq(CallRecords)
      /\ Len(Calls("emitResult", <<r>>)) = 1
      /\ Calls("count", <<r>>) \in Seq(CallRecords)
      /\ Calls("extract", <<r>>) \in Seq(CallRecords)
      /\ Len(Calls("extract", <<r>>)) = 1
      /\ Calls("claimBlocked", Blocked[r]) \in Seq(CallRecords)
      /\ Calls("claimHop", Hops[r]) \in Seq(CallRecords)
  BY <1>1, CallsTyped, AddLinksTyped
<1>3. handlePage(r) \in Seq(CallRecords) /\ Len(handlePage(r)) > 0
  <2> DEFINE a == AddLinks(r) \o Calls("emitResult", <<r>>)
             b == a \o Calls("count", <<r>>)
  <2>1. a \in Seq(CallRecords) /\ Len(a) > 0
    <3>1. /\ a \in Seq(CallRecords)
          /\ Len(a) = Len(AddLinks(r)) + Len(Calls("emitResult", <<r>>))
      BY <1>2, ConcatProperties, Zenon
    <3>2. Len(AddLinks(r)) \in Nat
      BY <1>2, LenProperties
    <3>3. Len(Calls("emitResult", <<r>>)) = 1
      BY <1>2, Zenon
    <3>4. Len(a) = Len(AddLinks(r)) + 1
      BY <3>1, <3>3, Zenon
    <3>5. Len(a) > 0
      <4> HIDE DEF a
      <4> QED
        BY <3>2, <3>4
    <3> QED
      BY <3>1, <3>5, Zenon
  <2>2. b \in Seq(CallRecords) /\ Len(b) > 0
    <3> HIDE DEF a
    <3> QED
      BY <1>2, <2>1
  <2> HIDE DEF b
  <2>3. b \o Calls("claimBlocked", Blocked[r]) \in Seq(CallRecords)
        /\ Len(b \o Calls("claimBlocked", Blocked[r])) > 0
    BY <1>2, <2>2
  <2> QED
    BY <2>3 DEF handlePage, a, b
<1>4. /\ handleResponseData(r) \in Seq(CallRecords)
      /\ Len(handleResponseData(r)) > 0
  BY <1>2, <1>3 DEF handleResponseData
<1> QED
  BY <1>3, <1>4

(* extractUrlAndDownload starts at most one download.                      *)
LEMMA ExtractTyped ==
  ASSUME PipelineTypeOK, NEW w \in Workers, extractUrlAndDownload(w)
  PROVE  /\ StoreShape'
         /\ requester' \in [Workers -> Downloads]
         /\ inFlight' \in [Workers -> SUBSET Downloads]
         /\ extractDue' \in [Workers -> BOOLEAN]
<1> USE DEF PipelineTypeOK, WorkerShape
<1>1. \/ UNCHANGED <<requester, inFlight, storeVars>>
      \/ \E r \in pendingUrlList :
           /\ extractUrl(r)
           /\ requester' = [requester EXCEPT ![w] = [page |-> r, turn |-> turnaround]]
           /\ inFlight' = [inFlight EXCEPT ![w] =
                             @ \union {[page |-> r, turn |-> turnaround]}]
  BY DEF extractUrlAndDownload
<1>2. extractDue' \in [Workers -> BOOLEAN]
  BY DEF extractUrlAndDownload
<1>3. CASE UNCHANGED <<requester, inFlight, storeVars>>
  BY <1>2, <1>3, StoreShapeKept
<1>4. ASSUME NEW r \in pendingUrlList, extractUrl(r),
             requester' = [requester EXCEPT ![w] = [page |-> r, turn |-> turnaround]],
             inFlight' = [inFlight EXCEPT ![w] =
                            @ \union {[page |-> r, turn |-> turnaround]}]
      PROVE  /\ StoreShape'
             /\ requester' \in [Workers -> Downloads]
             /\ inFlight' \in [Workers -> SUBSET Downloads]
  <2>1. r \in Requests /\ [page |-> r, turn |-> turnaround] \in Downloads
    BY DEF StoreShape, Downloads
  <2>2. StoreShape'
    BY <1>4, <2>1, StoreShapeKept
  <2> QED
    BY <1>4, <2>1, <2>2
<1> QED
  BY <1>1, <1>2, <1>3, <1>4

(* What is left of a worker's calls is typed and idle when nothing is left.*)
LEMMA ContinueTyped ==
  ASSUME WorkerShape, NEW w \in Workers, job[w] # NoJob,
         NEW calls \in Seq(CallRecords), Continue(w, calls)
  PROVE  /\ job' \in [Workers -> [turn : Int, calls : Seq(CallRecords)]]
         /\ \A v \in Workers : job'[v] = NoJob \/ job'[v].calls # <<>>
         /\ Head(job[w].calls) \in CallRecords
         /\ Tail(job[w].calls) \in Seq(CallRecords)
<1> USE DEF WorkerShape
<1>1. job[w].calls \in Seq(CallRecords) /\ job[w].calls # <<>> /\ job[w].turn \in Int
  OBVIOUS
<1>2. Head(job[w].calls) \in CallRecords /\ Tail(job[w].calls) \in Seq(CallRecords)
  BY <1>1
<1> DEFINE rest == calls \o Tail(job[w].calls)
<1>3. rest \in Seq(CallRecords)
  BY <1>2
<1>4. job' = [job EXCEPT ![w] = IF rest = <<>> THEN NoJob
                                ELSE [turn |-> job[w].turn, calls |-> rest]]
  BY DEF Continue
<1> HIDE DEF rest
<1>5. [turn |-> job[w].turn, calls |-> rest] \in [turn : Int, calls : Seq(CallRecords)]
  BY <1>1, <1>3
<1>6. NoJob \in [turn : Int, calls : Seq(CallRecords)]
  BY DEF NoJob
<1>7. [turn |-> job[w].turn, calls |-> rest].calls = rest
  BY <1>1
<1> QED
  BY <1>2, <1>4, <1>5, <1>6, <1>7

(* Whatever event a worker takes, its queue stays a queue.                 *)
LEMMA EventTyped ==
  ASSUME WorkerShape, NEW w \in Workers, NEW name, Receives(w, name)
  PROVE  /\ Head(workerQueue[w]) \in WorkerEvents
         /\ Head(workerQueue[w]).event = name
         /\ workerQueue[w] \in Seq(WorkerEvents)
         /\ Tail(workerQueue[w]) \in Seq(WorkerEvents)
         /\ [workerQueue EXCEPT ![w] = Tail(@)] \in [Workers -> Seq(WorkerEvents)]
         /\ name = "pageLoaded" =>
              /\ Head(workerQueue[w]).load \in Downloads
              /\ Head(workerQueue[w]).load.page \in Requests
              /\ Head(workerQueue[w]).load.turn \in Int
<1>1. workerQueue[w] \in Seq(WorkerEvents) /\ workerQueue[w] # <<>>
  BY DEF WorkerShape, Receives
<1>2. Head(workerQueue[w]) \in WorkerEvents /\ Tail(workerQueue[w]) \in Seq(WorkerEvents)
  BY <1>1
<1>3. Head(workerQueue[w]).event = name
  BY DEF Receives
<1>4. name = "pageLoaded" => Head(workerQueue[w]).load \in Downloads
  BY <1>2, <1>3 DEF WorkerEvents
<1> QED
  BY <1>1, <1>2, <1>3, <1>4 DEF WorkerShape, Downloads

(* Every step of a worker keeps the shape.                                 *)
LEMMA WorkerTyped ==
  ASSUME PipelineTypeOK, NEW w \in Workers, Worker(w) \/ LoadingDone(w)
  PROVE  PipelineTypeOK'
<1> USE DEF PipelineTypeOK
<1>a. ASSUME UNCHANGED mainVars PROVE MainShape'
  BY <1>a DEF mainVars, userVars, MainShape
<1>b. ASSUME UNCHANGED modelVars PROVE ModelShape'
  BY <1>b DEF modelVars, ModelShape
<1>1. CASE ExtractDue(w)
  BY <1>1, <1>a, <1>b, ExtractTyped DEF ExtractDue, WorkerShape, sharedVars
<1>2. CASE LoadingDone(w)
  <2>1. PICK load \in inFlight[w] :
          /\ inFlight' = [inFlight EXCEPT ![w] = @ \ {load}]
          /\ workerQueue' = [workerQueue EXCEPT
               ![w] = Append(@, [event |-> "pageLoaded", load |-> load])]
    BY <1>2 DEF LoadingDone
  <2>2. load \in Downloads /\ [event |-> "pageLoaded", load |-> load] \in WorkerEvents
    BY DEF WorkerShape, WorkerEvents
  <2>3. NoLoad \in Downloads
    BY PipelineAssumption DEF NoLoad, Downloads
  <2>4. workerQueue' \in [Workers -> Seq(WorkerEvents)]
    BY <2>1, <2>2 DEF WorkerShape
  <2>5. inFlight' \in [Workers -> SUBSET Downloads]
    BY <2>1 DEF WorkerShape
  <2>6. requester' \in [Workers -> Downloads]
    BY <1>2, <2>3 DEF LoadingDone, WorkerShape
  <2>7. StoreShape'
    BY <1>2, StoreShapeKept DEF LoadingDone
  <2> QED
    BY <1>2, <1>a, <1>b, <2>4, <2>5, <2>6, <2>7 DEF LoadingDone, WorkerShape, sharedVars
<1>3. CASE onLoadingDone(w)
  <2> DEFINE load == Head(workerQueue[w]).load
  <2>1. /\ workerQueue' \in [Workers -> Seq(WorkerEvents)]
        /\ load.page \in Requests /\ load.turn \in Int
    BY <1>3, EventTyped DEF onLoadingDone, Event
  <2>2. \/ UNCHANGED <<storeVars, job>>
        \/ /\ activeRequestReceived(load.page)
           /\ job' = [job EXCEPT ![w] =
                [turn |-> load.turn, calls |-> handleResponseData(load.page)]]
    BY <1>3 DEF onLoadingDone
  <2>3. StoreShape'
    BY <2>1, <2>2, StoreShapeKept
  <2>4. /\ job' \in [Workers -> [turn : Int, calls : Seq(CallRecords)]]
        /\ \A v \in Workers : job'[v] = NoJob \/ job'[v].calls # <<>>
    <3> DEFINE new == [turn |-> load.turn, calls |-> handleResponseData(load.page)]
    <3>1. /\ new \in [turn : Int, calls : Seq(CallRecords)]
          /\ new.calls # <<>>
      BY <2>1, HandlingTyped
    <3>2. UNCHANGED job \/ job' = [job EXCEPT ![w] = new]
      BY <2>2
    <3> HIDE DEF new
    <3> QED
      BY <3>1, <3>2 DEF WorkerShape
  <2> QED
    BY <1>3, <1>a, <1>b, <2>1, <2>3, <2>4 DEF onLoadingDone, WorkerShape, sharedVars
<1>4. CASE start(w)
  <2>1. workerQueue' \in [Workers -> Seq(WorkerEvents)]
    BY <1>4, EventTyped DEF start, Event
  <2>2. /\ Calls("extract", <<StartPage>>) \in Seq(CallRecords)
        /\ Calls("extract", <<StartPage>>) # <<>>
    <3>1. <<StartPage>> \in Seq(Requests) /\ Len(<<StartPage>>) = 1
      BY PipelineAssumption
    <3>2. /\ Calls("extract", <<StartPage>>) \in Seq(CallRecords)
          /\ Len(Calls("extract", <<StartPage>>)) = 1
      BY <3>1, CallsTyped
    <3> QED
      BY <3>2
  <2>3. /\ job' \in [Workers -> [turn : Int, calls : Seq(CallRecords)]]
        /\ \A v \in Workers : job'[v] = NoJob \/ job'[v].calls # <<>>
    <3> DEFINE new == [turn |-> -1, calls |-> Calls("extract", <<StartPage>>)]
    <3>1. /\ new \in [turn : Int, calls : Seq(CallRecords)]
          /\ new.calls # <<>>
      BY <2>2
    <3>2. job' = [job EXCEPT ![w] = new]
      BY <1>4 DEF start
    <3> HIDE DEF new
    <3> QED
      BY <3>1, <3>2 DEF WorkerShape
  <2>4. StoreShape'
    BY <1>4, StoreShapeKept DEF start
  <2> QED
    BY <1>4, <1>a, <1>b, <2>1, <2>3, <2>4 DEF start, WorkerShape, sharedVars
<1>5. CASE stop(w)
  <2>1. /\ [workerQueue EXCEPT ![w] = Tail(@)] \in [Workers -> Seq(WorkerEvents)]
        /\ [event |-> "stop"] \in WorkerEvents
    BY <1>5, EventTyped DEF stop, WorkerEvents
  <2>2. workerQueue' \in [Workers -> Seq(WorkerEvents)]
    <3>1. CASE w < WorkerCount
      <4>1. w + 1 \in Workers /\ w + 1 # w
        BY <3>1, PipelineAssumption DEF Workers
      <4>2. workerQueue' = [[workerQueue EXCEPT ![w] = Tail(@)] EXCEPT
                              ![w + 1] = Append(@, [event |-> "stop"])]
        BY <1>5, <3>1, <4>1 DEF stop
      <4> DEFINE tailed == [workerQueue EXCEPT ![w] = Tail(@)]
      <4>3. tailed[w + 1] \in Seq(WorkerEvents)
        BY <2>1, <4>1
      <4>4. workerQueue' = [tailed EXCEPT ![w + 1] = Append(tailed[w + 1], [event |-> "stop"])]
        BY <4>2
      <4>5. tailed \in [Workers -> Seq(WorkerEvents)] /\ [event |-> "stop"] \in WorkerEvents
        BY <2>1
      <4> HIDE DEF tailed
      <4> QED
        BY <4>3, <4>4, <4>5, AppendProperties
    <3>2. CASE ~(w < WorkerCount)
      BY <1>5, <2>1, <3>2 DEF stop
    <3> QED
      BY <3>1, <3>2
  <2>3. StoreShape'
    BY <1>5, StoreShapeKept DEF stop
  <2>4. MainShape'
    BY <1>5 DEF stop, MainShape, userVars
  <2>5. SharedShape'
    BY <1>5 DEF stop, sharedVars, SharedShape
  <2>6. isRunning' \in [Workers -> BOOLEAN]
    BY <1>5 DEF stop, WorkerShape
  <2>7. WorkerShape'
    BY <1>5, <2>2, <2>6 DEF stop, WorkerShape
  <2>8. ModelShape'
    BY <1>5, <1>b DEF stop
  <2> QED
    BY <2>3, <2>4, <2>5, <2>7, <2>8 DEF SharedShape
<1>6. CASE workerClear(w)
  <2>1. workerQueue' \in [Workers -> Seq(WorkerEvents)]
    BY <1>6, EventTyped DEF workerClear, Event
  <2>2. NoLoad \in Downloads
    BY PipelineAssumption DEF NoLoad, Downloads
  <2>3. StoreShape'
    BY <1>6, StoreShapeKept DEF workerClear
  <2>4. requester' \in [Workers -> Downloads]
    BY <1>6, <2>2 DEF workerClear, WorkerShape
  <2> QED
    BY <1>6, <1>a, <1>b, <2>1, <2>3, <2>4 DEF workerClear, WorkerShape
<1>c. <<>> \in Seq(CallRecords)
  OBVIOUS
<1>7. CASE extract(w)
  <2>1. /\ job' \in [Workers -> [turn : Int, calls : Seq(CallRecords)]]
        /\ \A v \in Workers : job'[v] = NoJob \/ job'[v].calls # <<>>
    BY <1>7, <1>c, ContinueTyped DEF extract, Call
  <2> QED
    BY <1>7, <1>a, <1>b, <2>1, ExtractTyped DEF extract, WorkerShape, sharedVars
<1>8. CASE addLinks(w)
  <2>1. /\ job' \in [Workers -> [turn : Int, calls : Seq(CallRecords)]]
        /\ \A v \in Workers : job'[v] = NoJob \/ job'[v].calls # <<>>
        /\ Head(job[w].calls) \in CallRecords
    BY <1>8, <1>c, ContinueTyped DEF addLinks, Call
  <2>2. Head(job[w].calls).links \in SUBSET Requests
    BY <1>8, <2>1 DEF addLinks, Call, CallRecords
  <2>3. StoreShape'
    BY <1>8, <2>2, StoreShapeKept DEF addLinks
  <2> QED
    BY <1>8, <1>a, <1>b, <2>1, <2>3 DEF addLinks, WorkerShape, sharedVars
<1>d. ASSUME Head(job[w].calls) \in CallRecords PROVE CalledPage(w) \in Requests
  BY <1>d DEF CallRecords, CalledPage
<1>9. CASE emitResult(w)
  <2>1. /\ job' \in [Workers -> [turn : Int, calls : Seq(CallRecords)]]
        /\ \A v \in Workers : job'[v] = NoJob \/ job'[v].calls # <<>>
        /\ Head(job[w].calls) \in CallRecords
    BY <1>9, <1>c, ContinueTyped DEF emitResult, Call
  <2>2. [event |-> "result", page |-> CalledPage(w), turn |-> job[w].turn] \in ModelEvents
    BY <1>d, <2>1 DEF ModelEvents, WorkerShape
  <2>3. ModelShape'
    BY <1>9, <2>2 DEF emitResult, ModelShape
  <2>4. StoreShape'
    BY <1>9, StoreShapeKept DEF emitResult
  <2> QED
    BY <1>9, <1>a, <2>1, <2>3, <2>4 DEF emitResult, WorkerShape, sharedVars
<1>10. CASE count(w)
  <2>1. /\ job' \in [Workers -> [turn : Int, calls : Seq(CallRecords)]]
        /\ \A v \in Workers : job'[v] = NoJob \/ job'[v].calls # <<>>
    BY <1>10, <1>c, ContinueTyped DEF count, Call
  <2>2. StoreShape'
    BY <1>10, StoreShapeKept DEF count
  <2> QED
    BY <1>10, <1>a, <1>b, <2>1, <2>2 DEF count, WorkerShape
<1>11. CASE claimHop(w) \/ claimBlocked(w)
  <2>1. Head(job[w].calls) \in CallRecords
    BY <1>11 DEF claimHop, claimBlocked, Call, WorkerShape
  <2>2. CalledPage(w) \in Requests
    BY <1>d, <2>1
  <2>3. PICK calls \in Seq(CallRecords) : Continue(w, calls)
    <3>1. handlePage(CalledPage(w)) \in Seq(CallRecords)
      BY <2>2, HandlingTyped
    <3>2. Calls("emitResult", <<CalledPage(w)>>) \o Calls("count", <<CalledPage(w)>>)
            \in Seq(CallRecords)
      <4>1. <<CalledPage(w)>> \in Seq(Requests)
        BY <2>2
      <4>2. /\ Calls("emitResult", <<CalledPage(w)>>) \in Seq(CallRecords)
            /\ Calls("count", <<CalledPage(w)>>) \in Seq(CallRecords)
        BY <4>1, CallsTyped
      <4> QED
        BY <4>2, ConcatProperties
    <3> QED
      BY <1>11, <1>c, <3>1, <3>2 DEF claimHop, claimBlocked
  <2>4. /\ job' \in [Workers -> [turn : Int, calls : Seq(CallRecords)]]
        /\ \A v \in Workers : job'[v] = NoJob \/ job'[v].calls # <<>>
    BY <1>11, <2>3, ContinueTyped DEF claimHop, claimBlocked, Call
  <2>5. StoreShape'
    BY <1>11, <2>2, StoreShapeKept DEF claimHop, claimBlocked
  <2> QED
    BY <1>11, <1>a, <1>b, <2>4, <2>5 DEF claimHop, claimBlocked, WorkerShape, sharedVars
<1> QED
  BY <1>1, <1>2, <1>3, <1>4, <1>5, <1>6, <1>7, <1>8, <1>9, <1>10, <1>11 DEF Worker

(* The model controller takes events of its queue.                         *)
LEMMA ModelEventTyped ==
  ASSUME ModelShape, NEW name, ModelEvent(name)
  PROVE  /\ modelQueue \in Seq(ModelEvents) /\ modelQueue # <<>>
         /\ modelQueue' = Tail(modelQueue) /\ modelQueue' \in Seq(ModelEvents)
         /\ Head(modelQueue) \in ModelEvents /\ Head(modelQueue).event = name
         /\ name = "result" =>
              /\ Head(modelQueue).page \in Requests /\ Head(modelQueue).turn \in Int
              /\ PageUrl[Head(modelQueue).page] \in Urls
<1>1. /\ modelQueue \in Seq(ModelEvents) /\ modelQueue # <<>>
      /\ modelQueue' = Tail(modelQueue) /\ Head(modelQueue).event = name
  BY DEF ModelShape, ModelEvent
<1>2. Head(modelQueue) \in ModelEvents /\ Tail(modelQueue) \in Seq(ModelEvents)
  BY <1>1
<1>3. name = "result" =>
        Head(modelQueue).page \in Requests /\ Head(modelQueue).turn \in Int
  BY <1>1, <1>2 DEF ModelEvents
<1> QED
  BY <1>1, <1>2, <1>3 DEF Urls

(* Every step of the model controller keeps the shape.                     *)
LEMMA ModelTyped ==
  ASSUME PipelineTypeOK, Model
  PROVE  PipelineTypeOK'
<1> USE DEF PipelineTypeOK
<1>a. ASSUME UNCHANGED mainVars PROVE MainShape'
  BY <1>a DEF mainVars, userVars, MainShape
<1>b. ASSUME UNCHANGED workerVars PROVE WorkerShape'
  BY <1>b DEF workerVars, WorkerShape
<1>c. ASSUME UNCHANGED storeVars PROVE StoreShape'
  BY <1>c, StoreShapeKept
<1>1. CASE handleWorkerResult
  <2>1. ModelShape'
    <3>1. /\ modelQueue' \in Seq(ModelEvents)
          /\ Head(modelQueue).turn \in Int
          /\ PageUrl[Head(modelQueue).page] \in Urls
      BY <1>1, ModelEventTyped DEF handleWorkerResult
    <3> QED
      BY <1>1, <3>1 DEF handleWorkerResult, ModelShape
  <2> QED
    BY <1>1, <1>a, <1>b, <1>c, <2>1 DEF handleWorkerResult, sharedVars
<1>2. CASE modelAdd
  <2>1. modelPc \in [call : {"add", "accept", "count"}, url : Urls, turn : Int]
    BY <1>2 DEF modelAdd, ModelShape, Idle
  <2>2. [event |-> "added", url |-> modelPc.url, turn |-> modelPc.turn] \in MainEvents
    BY <2>1 DEF MainEvents
  <2>3. mainQueue' \in Seq(MainEvents)
    BY <1>2, <2>2 DEF modelAdd, MainShape
  <2>4. MainShape'
    BY <1>2, <2>3 DEF modelAdd, MainShape, userVars
  <2>5. ModelShape'
    BY <1>2, <2>1 DEF modelAdd, ModelShape
  <2> QED
    BY <1>2, <1>b, <1>c, <2>4, <2>5 DEF modelAdd, sharedVars
<1>3. CASE modelAccept
  <2>1. modelPc \in [call : {"add", "accept", "count"}, url : Urls, turn : Int]
    BY <1>3 DEF modelAccept, ModelShape, Idle
  <2>2. ModelShape'
    BY <1>3, <2>1 DEF modelAccept, ModelShape
  <2> QED
    BY <1>3, <1>a, <1>b, <1>c, <2>2 DEF modelAccept
<1>4. CASE modelCount
  <2>1. ModelShape'
    BY <1>4 DEF modelCount, ModelShape
  <2> QED
    BY <1>4, <1>a, <1>b, <1>c, <2>1 DEF modelCount
<1>5. CASE modelClear
  <2>1. modelQueue' \in Seq(ModelEvents)
    BY <1>5, ModelEventTyped DEF modelClear
  <2>2. ModelShape'
    BY <1>5, <2>1 DEF modelClear, ModelShape
  <2>3. mainQueue' \in Seq(MainEvents)
    BY <1>5 DEF modelClear, MainShape, MainEvents
  <2>4. MainShape'
    BY <1>5, <2>3 DEF modelClear, MainShape, userVars
  <2> QED
    BY <1>5, <1>b, <1>c, <2>2, <2>4 DEF modelClear
<1> QED
  BY <1>1, <1>2, <1>3, <1>4, <1>5 DEF Model

(* The main thread takes signals of its queue.                             *)
LEMMA MainEventTyped ==
  ASSUME MainShape, NEW name, MainEvent(name)
  PROVE  /\ mainQueue \in Seq(MainEvents) /\ mainQueue # <<>>
         /\ mainQueue' = Tail(mainQueue) /\ mainQueue' \in Seq(MainEvents)
         /\ Head(mainQueue) \in MainEvents /\ Head(mainQueue).event = name
         /\ name = "added" =>
              Head(mainQueue).url \in Urls /\ Head(mainQueue).turn \in Int
<1>1. /\ mainQueue \in Seq(MainEvents) /\ mainQueue # <<>>
      /\ mainQueue' = Tail(mainQueue) /\ Head(mainQueue).event = name
  BY DEF MainShape, MainEvent
<1>2. Head(mainQueue) \in MainEvents /\ Tail(mainQueue) \in Seq(MainEvents)
  BY <1>1
<1> QED
  BY <1>1, <1>2 DEF MainEvents

(* A stop reaches the queue of the first worker.                           *)
LEMMA BeginStopTyped ==
  ASSUME WorkerShape, NEW pc, BeginStop(pc)
  PROVE  /\ workerQueue' \in [Workers -> Seq(WorkerEvents)]
         /\ state' = "Pause" /\ mainPc' = pc
<1>1. 1 \in Workers /\ [event |-> "stop"] \in WorkerEvents
  BY PipelineAssumption DEF Workers, WorkerEvents
<1> QED
  BY <1>1 DEF BeginStop, WorkerShape

(* A signal queued to every worker keeps the shape of the queues.          *)
LEMMA BroadcastTyped ==
  ASSUME WorkerShape, NEW name \in {"start", "stop", "clear"},
         workerQueue' = [w \in Workers |-> Append(workerQueue[w], [event |-> name])]
  PROVE  workerQueue' \in [Workers -> Seq(WorkerEvents)]
BY DEF WorkerShape, WorkerEvents

(* Every step of the main thread and of the user keeps the shape.          *)
LEMMA MainTyped ==
  ASSUME PipelineTypeOK, User \/ MainStep
  PROVE  PipelineTypeOK'
<1> USE DEF PipelineTypeOK
<1>a. ASSUME UNCHANGED modelVars PROVE ModelShape'
  BY <1>a DEF modelVars, ModelShape
<1>b. ASSUME UNCHANGED workerVars PROVE WorkerShape'
  BY <1>b DEF workerVars, WorkerShape
<1>c. ASSUME UNCHANGED storeVars PROVE StoreShape'
  BY <1>c, StoreShapeKept
<1>d. ASSUME UNCHANGED <<isRunning, requester, inFlight, extractDue, job>>,
             workerQueue' \in [Workers -> Seq(WorkerEvents)]
      PROVE  WorkerShape'
  BY <1>d DEF WorkerShape
<1>1. CASE startCrawling
  <2>1. StoreShape'
    <3>1. {StartPage} \in SUBSET Requests
      BY PipelineAssumption
    <3> QED
      BY <1>1, <3>1, StoreShapeKept DEF startCrawling
  <2>2. workerQueue' \in [Workers -> Seq(WorkerEvents)]
    BY <1>1, BroadcastTyped DEF startCrawling
  <2>3. extractDue' \in [Workers -> BOOLEAN]
    BY <1>1 DEF startCrawling, WorkerShape
  <2>4. WorkerShape'
    BY <1>1, <2>2, <2>3 DEF startCrawling, WorkerShape
  <2>5. MainShape'
    <3>1. /\ state' = "Working" /\ crawlingFinished' = FALSE
          /\ session' \in {"none", "unnamed", "named"} /\ starts' \in Nat
          /\ UNCHANGED <<mainPc, snapshot, mainQueue, sequencedStorage, stops, clears>>
      BY <1>1 DEF startCrawling, MainShape
    <3> QED
      BY <3>1 DEF MainShape
  <2> QED
    BY <1>1, <1>a, <2>1, <2>4, <2>5 DEF startCrawling, sharedVars
<1>2. CASE stopCrawling
  <2>1. WorkerShape' /\ state' = "Pause" /\ mainPc' = "stop"
    BY <1>2, <1>d, BeginStopTyped DEF stopCrawling
  <2>2. MainShape'
    BY <1>2, <2>1 DEF stopCrawling, MainShape
  <2> QED
    BY <1>2, <1>a, <1>c, <2>1, <2>2 DEF stopCrawling, sharedVars
<1>3. CASE clearData
  <2>1. StoreShape'
    BY <1>3 DEF clearData, clearDataImpl, StoreShape, listVars, optionVars
  <2>2. MainShape'
    <3>1. /\ crawlingFinished' = FALSE /\ mainPc' = "clearModel"
          /\ session' \in {"none", "unnamed", "named"} /\ clears' \in Nat
          /\ UNCHANGED <<state, snapshot, mainQueue, sequencedStorage, starts, stops>>
      BY <1>3 DEF clearData, clearDataImpl, MainShape
    <3> QED
      BY <3>1 DEF MainShape
  <2>3. ModelShape'
    <3>1. [event |-> "clear"] \in ModelEvents
      BY DEF ModelEvents
    <3> QED
      BY <1>3, <3>1 DEF clearData, clearDataImpl, ModelShape
  <2> QED
    BY <1>3, <1>b, <2>1, <2>2, <2>3 DEF clearData, clearDataImpl
<1>4. CASE MainQueue
  <2>1. /\ mainQueue' \in Seq(MainEvents)
        /\ Head(mainQueue).event = "added" => Head(mainQueue).url \in Urls
    BY <1>4, MainEventTyped DEF MainQueue, addParsedPage, onDataCleared
  <2>2. sequencedStorage' \subseteq Urls
    BY <1>4, <2>1 DEF MainQueue, addParsedPage, onDataCleared, MainShape, MainEvent
  <2>3. MainShape'
    BY <1>4, <2>1, <2>2 DEF MainQueue, addParsedPage, onDataCleared, MainShape, userVars
  <2> QED
    BY <1>4, <1>a, <1>b, <1>c, <2>3 DEF MainQueue, addParsedPage, onDataCleared
<1>5. CASE onAboutCrawlingState
  <2>1. MainShape'
    BY <1>5 DEF onAboutCrawlingState, MainShape, userVars
  <2> QED
    BY <1>5, <1>a, <1>b, <1>c, <2>1 DEF onAboutCrawlingState, sharedVars
<1>6. CASE loadCounter
  <2>1. Len(Loads) = 8 /\ \A i \in 1..8 : Loads[i] \in Int
    BY DEF Loads, StoreShape
  <2>2. snapshot' \in Seq(Int)
    <3>1. /\ Len(snapshot) < Len(Loads) /\ snapshot \in Seq(Int)
          /\ snapshot' = Append(snapshot, Loads[Len(snapshot) + 1])
      BY <1>6 DEF loadCounter, MainShape
    <3>2. Len(snapshot) + 1 \in 1..8
      <4>1. Len(snapshot) \in Nat
        BY <3>1
      <4>2. Len(snapshot) < 8
        BY <2>1, <3>1, Zenon
      <4> QED
        BY <4>1, <4>2
    <3>3. Loads[Len(snapshot) + 1] \in Int
      BY <2>1, <3>2
    <3> QED
      BY <3>1, <3>3, AppendProperties
  <2>3. MainShape'
    BY <1>6, <2>2 DEF loadCounter, MainShape, userVars
  <2> QED
    BY <1>6, <1>a, <1>b, <1>c, <2>3 DEF loadCounter, sharedVars
<1>7. CASE decideCrawlingEnded
  <2>1. CASE BeginStop("endStop")
    <3>1. WorkerShape' /\ state' = "Pause" /\ mainPc' = "endStop"
      BY <1>7, <1>d, <2>1, BeginStopTyped DEF decideCrawlingEnded
    <3>2. MainShape'
      BY <1>7, <3>1 DEF decideCrawlingEnded, MainShape, userVars
    <3> QED
      BY <1>7, <1>a, <1>c, <3>1, <3>2 DEF decideCrawlingEnded, sharedVars
  <2>2. CASE mainPc' = "idle" /\ UNCHANGED <<state, workerQueue>>
    <3>1. MainShape'
      BY <1>7, <2>2 DEF decideCrawlingEnded, MainShape, userVars
    <3>2. WorkerShape'
      BY <1>7, <2>2 DEF decideCrawlingEnded, WorkerShape
    <3> QED
      BY <1>7, <1>a, <1>c, <3>1, <3>2 DEF decideCrawlingEnded, sharedVars
  <2> QED
    BY <1>7, <2>1, <2>2 DEF decideCrawlingEnded
<1>8. CASE crawlerFinished
  <2>1. MainShape'
    BY <1>8 DEF crawlerFinished, MainShape, userVars
  <2> QED
    BY <1>8, <1>a, <1>b, <1>c, <2>1 DEF crawlerFinished, sharedVars
<1>9. CASE clearStore
  <2>1. StoreShape'
    BY <1>9, StoreShapeKept DEF clearStore
  <2>2. WorkerShape'
    BY <1>9, <1>d, BroadcastTyped DEF clearStore
  <2>3. MainShape'
    BY <1>9 DEF clearStore, MainShape, userVars
  <2> QED
    BY <1>9, <1>a, <2>1, <2>2, <2>3 DEF clearStore, sharedVars
<1> QED
  BY <1>1, <1>2, <1>3, <1>4, <1>5, <1>6, <1>7, <1>8, <1>9 DEF User, MainStep

(* The shape holds at first.                                               *)
LEMMA InitTyped == Init => PipelineTypeOK
<1> SUFFICES ASSUME Init PROVE PipelineTypeOK
  OBVIOUS
<1>1. NoLoad \in Downloads /\ NoJob \in [turn : Int, calls : Seq(CallRecords)]
  BY PipelineAssumption DEF NoLoad, Downloads, NoJob
<1>2. limitCrawledLinksCount \in Int /\ isTrialLicense \in BOOLEAN
  BY StoreAssumption, PipelineAssumption DEF Init
<1>3. StoreShape
  BY <1>2 DEF Init, EmptyStore, StoreShape
<1>5. MainShape
  <2>1. /\ state = "Pending" /\ crawlingFinished = FALSE /\ session = "none"
        /\ mainPc = "idle" /\ sequencedStorage = {}
        /\ {starts, stops, clears} \subseteq Nat
    BY DEF Init
  <2>2. snapshot \in Seq(Int) /\ mainQueue \in Seq(MainEvents)
    BY DEF Init
  <2> QED
    BY <2>1, <2>2 DEF MainShape
<1>4. WorkerShape
  BY <1>1 DEF Init, WorkerShape
<1> QED
  BY <1>3, <1>4, <1>5 DEF Init, PipelineTypeOK, ModelShape

(* The shape is kept by every step.                                        *)
LEMMA NextTyped == PipelineTypeOK /\ [Next]_pipelineVars => PipelineTypeOK'
<1> SUFFICES ASSUME PipelineTypeOK, [Next]_pipelineVars PROVE PipelineTypeOK'
  OBVIOUS
<1>1. CASE UNCHANGED pipelineVars
  BY <1>1, StoreShapeKept
     DEF pipelineVars, mainVars, userVars, sharedVars, workerVars, modelVars,
         PipelineTypeOK, MainShape, WorkerShape, ModelShape
<1> QED
  BY <1>1, WorkerTyped, ModelTyped, MainTyped DEF Next, AtRest

(* The shape of the state, and that no counter of a thread ever drops      *)
(* below zero, for any site, any number of workers and of user commands.   *)
THEOREM PipelineTypeCorrect == Spec => []PipelineTypeOK
BY InitTyped, NextTyped, PTL DEF Spec

-----------------------------------------------------------------------------
(***************************************************************************)
(* The blocking stop goes through the workers one by one.                  *)
(***************************************************************************)

Stops(w) == EventsAt(workerQueue[w], "stop")

(* The places in the queue of a worker that start it.                      *)
Starts(w) == EventsAt(workerQueue[w], "start")

(* A worker that extracts nothing and will not begin to.                   *)
Quiet(w) == ~isRunning[w] /\ Starts(w) = {} /\ Stops(w) = {}

(* One stop, behind every start.                                           *)
StopLast(queue) ==
  \E k \in EventsAt(queue, "stop") :
    EventsAt(queue, "stop") = {k} /\ \A i \in EventsAt(queue, "start") : i < k

(* The stop has reached worker s.                                          *)
StopReaches(s) ==
  /\ \A v \in Workers : v < s => Quiet(v)
  /\ \A v \in Workers : v # s => Stops(v) = {}
  /\ StopLast(workerQueue[s])

(* The main thread is blocked by a stop.                                   *)
Stopping == mainPc \in {"stop", "endStop"}

(* What clearing the data, closing a project and loading one begin with.   *)
ClearBegins == mainPc = "idle" /\ state # "Working" /\ clearDataImpl

(* The model is told to clear while the main thread waits for it to.       *)
ClearInv ==
  IF mainPc = "clearModel"
  THEN \E k \in DOMAIN modelQueue : EventsAt(modelQueue, "clear") = {k}
  ELSE EventsAt(modelQueue, "clear") = {}

(* The main thread waits while a stop is under way, and where none is, no  *)
(* worker of a crawler that does not work is about to run.                 *)
ControlInv ==
  /\ Stopping => \E s \in Workers : StopReaches(s)
  /\ ~Stopping => \A w \in Workers : Stops(w) = {}
  /\ ~Stopping /\ state # "Working" => \A w \in Workers : Quiet(w)
  /\ mainPc # "idle" => (state = "Working" <=> mainPc = "load")

(* An event taken: the places of the others, one by one.                   *)
LEMMA EventsShift ==
  ASSUME NEW T, NEW q \in Seq(T), q # <<>>, NEW name
  PROVE  /\ \A i \in EventsAt(Tail(q), name) :
              /\ i \in Nat /\ i # 0 /\ i \in DOMAIN Tail(q)
              /\ i + 1 \in EventsAt(q, name) /\ Tail(q)[i] = q[i + 1]
         /\ \A k \in EventsAt(q, name) :
              /\ k \in Nat
              /\ \/ k = 1 /\ Head(q).event = name
                 \/ k # 1 /\ k - 1 \in EventsAt(Tail(q), name)
         /\ Head(q).event = name <=> 1 \in EventsAt(q, name)
         /\ Head(q) = q[1] /\ 1 \in DOMAIN q
<1>1. /\ Tail(q) \in Seq(T) /\ Len(q) \in Nat /\ Len(q) >= 1
      /\ DOMAIN q = 1..Len(q) /\ DOMAIN Tail(q) = 1..(Len(q) - 1)
      /\ \A i \in 1..(Len(q) - 1) : Tail(q)[i] = q[i + 1]
      /\ Head(q) = q[1]
  OBVIOUS
<1> DEFINE t == Tail(q)
<1> HIDE DEF t
<1>2. \A i \in EventsAt(t, name) :
              /\ i \in Nat /\ i # 0 /\ i \in DOMAIN t
              /\ i + 1 \in EventsAt(q, name) /\ t[i] = q[i + 1]
  BY <1>1 DEF EventsAt, t
<1>3. ASSUME NEW k \in EventsAt(q, name), k # 1
      PROVE  k \in Nat /\ k - 1 \in EventsAt(t, name)
  <2>1. k - 1 \in 1..(Len(q) - 1) /\ k = (k - 1) + 1 /\ q[k].event = name /\ k \in Nat
    BY <1>1, <1>3 DEF EventsAt
  <2> QED
    BY <1>1, <2>1 DEF EventsAt, t
<1>4. Head(q).event = name <=> 1 \in EventsAt(q, name)
  BY <1>1 DEF EventsAt
<1> QED
  BY <1>1, <1>2, <1>3, <1>4 DEF t

(* What a worker's queue has of starts and stops after an event was taken. *)
LEMMA StopTail ==
  ASSUME NEW q \in Seq(WorkerEvents), q # <<>>
  PROVE  /\ EventsAt(q, "stop") = {} => EventsAt(Tail(q), "stop") = {}
         /\ EventsAt(q, "start") = {} => EventsAt(Tail(q), "start") = {}
         /\ Head(q).event = "start" => EventsAt(q, "start") # {}
         /\ Head(q).event = "stop" => EventsAt(q, "stop") # {}
         /\ StopLast(q) /\ Head(q).event # "stop" => StopLast(Tail(q))
         /\ StopLast(q) /\ Head(q).event = "stop" =>
              EventsAt(Tail(q), "stop") = {} /\ EventsAt(Tail(q), "start") = {}
<1> DEFINE S == EventsAt(Tail(q), "stop")
           R == EventsAt(Tail(q), "start")
<1>1. /\ \A i \in S : i \in Nat /\ i + 1 \in EventsAt(q, "stop")
      /\ \A i \in R : i \in Nat /\ i + 1 \in EventsAt(q, "start")
      /\ \A k \in EventsAt(q, "stop") :
           k \in Nat /\ ((k = 1 /\ Head(q).event = "stop") \/ k - 1 \in S)
      /\ Head(q).event = "start" <=> 1 \in EventsAt(q, "start")
      /\ Head(q).event = "stop" <=> 1 \in EventsAt(q, "stop")
      /\ 0 \notin S /\ 0 \notin R
  BY EventsShift
<1> HIDE DEF S, R
<1>2. EventsAt(q, "stop") = {} => S = {}
  BY <1>1
<1>3. EventsAt(q, "start") = {} => R = {}
  BY <1>1
<1>4. /\ Head(q).event = "start" => EventsAt(q, "start") # {}
      /\ Head(q).event = "stop" => EventsAt(q, "stop") # {}
  BY <1>1
<1>5. ASSUME StopLast(q), Head(q).event # "stop"
      PROVE  StopLast(Tail(q))
  <2>1. PICK k : /\ EventsAt(q, "stop") = {k}
                 /\ \A i \in EventsAt(q, "start") : i < k
    BY <1>5 DEF StopLast
  <2>2. k \in Nat /\ k - 1 \in S
    BY <1>1, <1>5, <2>1
  <2>3. ASSUME NEW i \in S PROVE i = k - 1
    BY <1>1, <2>1, <2>2, <2>3
  <2>4. S = {k - 1}
    BY <2>2, <2>3
  <2>5. ASSUME NEW i \in R PROVE i < k - 1
    <3>1. i \in Nat /\ i + 1 < k
      BY <1>1, <2>1, <2>5
    <3> QED
      BY <2>2, <3>1
  <2> QED
    BY <2>4, <2>5 DEF StopLast, S, R
<1>6. ASSUME StopLast(q), Head(q).event = "stop"
      PROVE  S = {} /\ R = {}
  <2>1. PICK k : /\ EventsAt(q, "stop") = {k}
                 /\ \A i \in EventsAt(q, "start") : i < k
    BY <1>6 DEF StopLast
  <2>2. k = 1
    BY <1>1, <1>6, <2>1
  <2>3. ASSUME NEW i \in S PROVE FALSE
    <3>1. i + 1 = 1 /\ i \in Nat
      BY <1>1, <2>1, <2>2, <2>3
    <3> QED
      BY <1>1, <2>3, <3>1
  <2>4. ASSUME NEW i \in R PROVE FALSE
    <3>1. i + 1 < 1 /\ i \in Nat
      BY <1>1, <2>1, <2>2, <2>4
    <3> QED
      BY <3>1
  <2> QED
    BY <2>3, <2>4
<1> QED
  BY <1>2, <1>3, <1>4, <1>5, <1>6 DEF S, R

(* A queue that gets an event: its stops and starts.                       *)
LEMMA StopAppend ==
  ASSUME NEW q \in Seq(WorkerEvents), NEW e \in WorkerEvents
  PROVE  /\ e.event # "stop" => EventsAt(Append(q, e), "stop") = EventsAt(q, "stop")
         /\ e.event # "start" => EventsAt(Append(q, e), "start") = EventsAt(q, "start")
         /\ e.event = "stop" /\ EventsAt(q, "stop") = {} => StopLast(Append(q, e))
<1>1. /\ \A name : EventsAt(Append(q, e), name)
                     = IF e.event = name THEN EventsAt(q, name) \union {Len(q) + 1}
                       ELSE EventsAt(q, name)
      /\ EventsAt(q, "start") \subseteq 1..Len(q) /\ Len(q) \in Nat
  <2>1. ASSUME NEW name
        PROVE  EventsAt(Append(q, e), name)
                 = IF e.event = name THEN EventsAt(q, name) \union {Len(q) + 1}
                   ELSE EventsAt(q, name)
    BY EventsAppend
  <2>2. EventsAt(q, "start") \subseteq 1..Len(q) /\ Len(q) \in Nat
    BY EventsAppend, Zenon
  <2> QED
    BY <2>1, <2>2
<1>2. e.event = "stop" /\ EventsAt(q, "stop") = {}
        => /\ EventsAt(Append(q, e), "stop") = {Len(q) + 1}
           /\ \A i \in EventsAt(Append(q, e), "start") : i < Len(q) + 1
  BY <1>1
<1> QED
  BY <1>1, <1>2 DEF StopLast

(* A step after which worker w is no more about to run or to stop.         *)
Milder(w) ==
  /\ Stops(w) = {} => Stops(w)' = {}
  /\ Quiet(w) => Quiet(w)'
  /\ StopLast(workerQueue[w]) => StopLast(workerQueue[w])'

(* ControlInv needs less of queues that are milder.                        *)
LEMMA ControlMilder ==
  ASSUME ControlInv, \A w \in Workers : Milder(w), Stopping' = Stopping,
         state' # "Working" => state # "Working" \/ Stopping,
         (mainPc # "idle" => (state = "Working" <=> mainPc = "load"))'
  PROVE  ControlInv'
<1>1. Stopping => \E s \in Workers : StopReaches(s)'
  <2> SUFFICES ASSUME Stopping PROVE \E s \in Workers : StopReaches(s)'
    OBVIOUS
  <2>1. PICK s \in Workers : StopReaches(s)
    BY DEF ControlInv
  <2>2. StopReaches(s)'
    BY <2>1 DEF StopReaches, Milder
  <2> QED
    BY <2>2
<1>2. ~Stopping => \A w \in Workers : Stops(w)' = {}
  BY DEF ControlInv, Milder
<1>3. ~Stopping /\ state' # "Working" => \A w \in Workers : Quiet(w)'
  BY DEF ControlInv, Milder
<1> QED
  BY <1>1, <1>2, <1>3 DEF ControlInv

(* Queues left alone, and those that get other events, are milder.         *)
LEMMA MilderQueues ==
  ASSUME PipelineTypeOK, NEW w \in Workers
  PROVE  /\ UNCHANGED <<isRunning, workerQueue>> => \A v \in Workers : Milder(v)
         /\ \A e \in WorkerEvents :
              /\ workerQueue' = [workerQueue EXCEPT ![w] = Append(@, e)]
              /\ e.event \notin {"start", "stop"} /\ UNCHANGED isRunning
              => \A v \in Workers : Milder(v)
<1> USE DEF Milder, Quiet, Stops, Starts
<1>a. ASSUME NEW v \in Workers, workerQueue'[v] = workerQueue[v], isRunning'[v] = isRunning[v]
      PROVE  Milder(v)
  BY <1>a
<1>b. /\ workerQueue \in [Workers -> Seq(WorkerEvents)]
      /\ isRunning \in [Workers -> BOOLEAN]
  BY DEF PipelineTypeOK, WorkerShape
<1>1. ASSUME UNCHANGED <<isRunning, workerQueue>>, NEW v \in Workers PROVE Milder(v)
  BY <1>1
<1>2. ASSUME NEW e \in WorkerEvents, e.event \notin {"start", "stop"},
             workerQueue' = [workerQueue EXCEPT ![w] = Append(@, e)],
             UNCHANGED isRunning, NEW v \in Workers
      PROVE  Milder(v)
  <2>1. CASE v # w
    BY <1>2, <1>a, <1>b, <2>1
  <2>2. CASE v = w
    <3>1. workerQueue[v] \in Seq(WorkerEvents) /\ workerQueue'[v] = Append(workerQueue[v], e)
      BY <1>2, <1>b, <2>2
    <3>2. /\ EventsAt(workerQueue'[v], "stop") = EventsAt(workerQueue[v], "stop")
          /\ EventsAt(workerQueue'[v], "start") = EventsAt(workerQueue[v], "start")
      BY <1>2, <3>1, StopAppend
    <3> QED
      BY <1>2, <3>2 DEF StopLast
  <2> QED
    BY <2>1, <2>2
<1> QED
  BY <1>1, <1>2

(* A queue whose event is served is milder, unless the event is a stop.    *)
LEMMA MilderEvent ==
  ASSUME PipelineTypeOK, NEW w \in Workers, NEW name, Event(w, name), name # "stop",
         \/ isRunning' = isRunning
         \/ name = "start" /\ isRunning' = [isRunning EXCEPT ![w] = TRUE]
  PROVE  \A v \in Workers : Milder(v)
<1> SUFFICES ASSUME NEW v \in Workers PROVE Milder(v)
  OBVIOUS
<1> USE DEF Milder, Quiet, Stops, Starts
<1>a. workerQueue'[v] = workerQueue[v] /\ isRunning'[v] = isRunning[v] => Milder(v)
  OBVIOUS
<1>b. /\ workerQueue \in [Workers -> Seq(WorkerEvents)]
      /\ isRunning \in [Workers -> BOOLEAN]
  BY DEF PipelineTypeOK, WorkerShape
<1>0. workerQueue' = [workerQueue EXCEPT ![w] = Tail(@)]
  BY DEF Event
<1>1. CASE v # w
  <2>1. workerQueue'[v] = workerQueue[v] /\ isRunning'[v] = isRunning[v]
    BY <1>b, <1>0, <1>1
  <2> QED
    BY <1>a, <2>1
<1>2. CASE v = w
  <2>1. /\ workerQueue[v] \in Seq(WorkerEvents) /\ workerQueue'[v] = Tail(workerQueue[v])
        /\ workerQueue[v] # <<>> /\ Head(workerQueue[v]).event = name
    BY <1>b, <1>0, <1>2 DEF Event, Receives
  <2> DEFINE q == workerQueue[v]
  <2>2. /\ EventsAt(q, "stop") = {} => EventsAt(Tail(q), "stop") = {}
        /\ EventsAt(q, "start") = {} => EventsAt(Tail(q), "start") = {}
        /\ name = "start" => EventsAt(q, "start") # {}
        /\ StopLast(q) => StopLast(Tail(q))
    BY <2>1, StopTail
  <2> HIDE DEF q
  <2>3. Tail(q) = workerQueue'[v]
    BY <2>1 DEF q
  <2> QED
    BY <1>b, <2>2, <2>3 DEF q
<1> QED
  BY <1>1, <1>2

(* Who takes the signal to clear finds the main thread waiting.            *)
LEMMA ClearHead ==
  ASSUME modelQueue \in Seq(ModelEvents), ClearInv, modelQueue # <<>>,
         Head(modelQueue).event = "clear"
  PROVE  mainPc = "clearModel" /\ EventsAt(Tail(modelQueue), "clear") = {}
<1> DEFINE S == EventsAt(Tail(modelQueue), "clear")
<1>1. /\ \A i \in S : i \in Nat /\ i # 0 /\ i + 1 \in EventsAt(modelQueue, "clear")
      /\ 1 \in EventsAt(modelQueue, "clear")
  BY EventsShift
<1>2. EventsAt(modelQueue, "clear") = {1} /\ mainPc = "clearModel"
  BY <1>1 DEF ClearInv
<1>3. S = {}
  <2> HIDE DEF S
  <2>1. \A i \in S : i + 1 = 1 /\ i # 0 /\ i \in Nat
    BY <1>1, <1>2
  <2> QED
    BY <2>1
<1> QED
  BY <1>2, <1>3

(* A signal joins or leaves the queue that is not the one to clear.        *)
LEMMA ClearElsewhere ==
  ASSUME modelQueue \in Seq(ModelEvents), ClearInv, mainPc' = "clearModel" <=> mainPc = "clearModel",
         \/ modelQueue' = modelQueue
         \/ \E e \in ModelEvents : e.event # "clear" /\ modelQueue' = Append(modelQueue, e)
         \/ modelQueue # <<>> /\ Head(modelQueue).event # "clear" /\ modelQueue' = Tail(modelQueue)
  PROVE  ClearInv'
<1>1. CASE modelQueue' = modelQueue
  BY <1>1 DEF ClearInv
<1>2. ASSUME NEW e \in ModelEvents, e.event # "clear", modelQueue' = Append(modelQueue, e)
      PROVE  ClearInv'
  <2>1. EventsAt(modelQueue', "clear") = EventsAt(modelQueue, "clear")
    BY <1>2, EventsAppend
  <2>2. DOMAIN modelQueue \subseteq DOMAIN modelQueue'
    BY <1>2
  <2> QED
    BY <2>1, <2>2 DEF ClearInv
<1>3. ASSUME modelQueue # <<>>, Head(modelQueue).event # "clear", modelQueue' = Tail(modelQueue)
      PROVE  ClearInv'
  <2> DEFINE S == EventsAt(modelQueue', "clear")
  <2>2. /\ \A i \in S : i \in DOMAIN modelQueue' /\ i + 1 \in EventsAt(modelQueue, "clear") /\ i \in Nat
        /\ \A k \in EventsAt(modelQueue, "clear") : k \in Nat /\ k - 1 \in S
    <3> DEFINE t == Tail(modelQueue)
    <3>1. /\ \A i \in EventsAt(t, "clear") :
               i \in DOMAIN t /\ i + 1 \in EventsAt(modelQueue, "clear") /\ i \in Nat
          /\ \A k \in EventsAt(modelQueue, "clear") : k \in Nat /\ k - 1 \in EventsAt(t, "clear")
      BY <1>3, EventsShift
    <3>2. modelQueue' = t
      BY <1>3
    <3> HIDE DEF t
    <3> QED
      BY <3>1, <3>2
  <2> HIDE DEF S
  <2>3. ASSUME NEW k, EventsAt(modelQueue, "clear") = {k} PROVE S = {k - 1} /\ k - 1 \in DOMAIN modelQueue'
    <3>1. k \in Nat /\ k - 1 \in S
      BY <2>2, <2>3
    <3>2. ASSUME NEW i \in S PROVE i = k - 1
      BY <2>2, <2>3, <3>1
    <3> QED
      BY <2>2, <3>1, <3>2
  <2>4. EventsAt(modelQueue, "clear") = {} => S = {}
    BY <2>2
  <2>5. CASE mainPc = "clearModel"
    <3>1. PICK k : EventsAt(modelQueue, "clear") = {k}
      BY <2>5 DEF ClearInv
    <3>2. S = {k - 1} /\ k - 1 \in DOMAIN modelQueue'
      BY <2>3, <3>1
    <3> QED
      BY <2>5, <3>2 DEF ClearInv, S
  <2>6. CASE mainPc # "clearModel"
    BY <2>4, <2>6 DEF ClearInv, S
  <2> QED
    BY <2>5, <2>6
<1> QED
  BY <1>1, <1>2, <1>3

(* A clear is in the queue of the model exactly while the main thread      *)
(* waits for it.                                                           *)
LEMMA ClearKept ==
  ASSUME PipelineTypeOK, ClearInv, ControlInv, [Next]_pipelineVars \/ ClearBegins
  PROVE  ClearInv'
<1>a. modelQueue \in Seq(ModelEvents)
  BY DEF PipelineTypeOK, ModelShape
<1>1. ASSUME modelQueue' = modelQueue, mainPc' = "clearModel" <=> mainPc = "clearModel"
      PROVE  ClearInv'
  BY <1>1, <1>a, ClearElsewhere
<1>2. ASSUME NEW w \in Workers, emitResult(w) PROVE ClearInv'
  <2> DEFINE e == [event |-> "result", page |-> CalledPage(w), turn |-> job[w].turn]
  <2>1. modelQueue' = Append(modelQueue, e) /\ mainPc' = mainPc
    BY <1>2 DEF emitResult, mainVars
  <2>2. Head(job[w].calls) \in CallRecords
    BY <1>2 DEF emitResult, Call, PipelineTypeOK, WorkerShape
  <2>3. e \in ModelEvents /\ e.event # "clear"
    BY <2>2 DEF CallRecords, CalledPage, ModelEvents, PipelineTypeOK, WorkerShape
  <2> QED
    BY <1>a, <2>1, <2>3, ClearElsewhere
<1>3. CASE handleWorkerResult
  BY <1>3, <1>a, ClearElsewhere DEF handleWorkerResult, ModelEvent, mainVars
<1>4. CASE modelClear
  <2>1. EventsAt(Tail(modelQueue), "clear") = {}
    BY <1>4, <1>a, ClearHead DEF modelClear, ModelEvent
  <2>2. modelQueue' = Tail(modelQueue) /\ mainPc' = "clearStore"
    BY <1>4 DEF modelClear, ModelEvent
  <2> QED
    BY <2>1, <2>2 DEF ClearInv
<1>5. ASSUME clearDataImpl, mainPc # "clearModel" PROVE ClearInv'
  <2>1. [event |-> "clear"] \in ModelEvents
    BY DEF ModelEvents
  <2>2. modelQueue' = Append(modelQueue, [event |-> "clear"]) /\ mainPc' = "clearModel"
    BY <1>5 DEF clearDataImpl
  <2>3. EventsAt(modelQueue', "clear") = {Len(modelQueue) + 1}
    BY <1>5, <1>a, <2>1, <2>2, EventsAppend DEF ClearInv
  <2>4. Len(modelQueue) + 1 \in DOMAIN modelQueue'
    BY <1>a, <2>2
  <2> QED
    BY <2>2, <2>3, <2>4 DEF ClearInv
<1>6. CASE clearData \/ ClearBegins
  BY <1>5, <1>6 DEF clearData, ClearBegins
<1>7. ASSUME NEW w \in Workers, stop(w) PROVE ClearInv'
  <2>1. Stops(w) # {}
    <3>1. workerQueue[w] \in Seq(WorkerEvents) /\ workerQueue[w] # <<>> /\ Head(workerQueue[w]).event = "stop"
      BY <1>7 DEF stop, Receives, PipelineTypeOK, WorkerShape
    <3> QED
      BY <3>1, StopTail DEF Stops
  <2>2. mainPc \in {"stop", "endStop"}
    BY <2>1 DEF ControlInv, Stopping
  <2>3. mainPc' # "clearModel" /\ modelQueue' = modelQueue
    BY <1>7, <2>2 DEF stop, modelVars
  <2> QED
    BY <1>1, <2>2, <2>3
<1>8. ASSUME NEW w \in Workers, 
             \/ ExtractDue(w) \/ LoadingDone(w) \/ onLoadingDone(w) \/ start(w) \/ workerClear(w)
             \/ extract(w) \/ addLinks(w) \/ count(w)
             \/ claimHop(w) \/ claimBlocked(w)
      PROVE  ClearInv'
  BY <1>1, <1>8 DEF ExtractDue, LoadingDone, onLoadingDone, start, workerClear, extract,
                addLinks, count, claimHop, claimBlocked, mainVars, modelVars
<1>9. CASE modelAdd \/ modelAccept \/ modelCount
  BY <1>1, <1>9 DEF modelAdd, modelAccept, modelCount, mainVars
<1>10. CASE MainQueue \/ startCrawling \/ UNCHANGED pipelineVars
  BY <1>1, <1>10 DEF MainQueue, addParsedPage, onDataCleared, MainEvent, startCrawling,
                     modelVars, mainVars, pipelineVars
<1>11. CASE onAboutCrawlingState \/ loadCounter \/ crawlerFinished \/ clearStore
  BY <1>1, <1>11 DEF onAboutCrawlingState, loadCounter, crawlerFinished, clearStore, modelVars
<1>12. CASE stopCrawling \/ decideCrawlingEnded
  BY <1>1, <1>12 DEF stopCrawling, decideCrawlingEnded, BeginStop, modelVars
<1> QED
  BY <1>2, <1>3, <1>4, <1>6, <1>7, <1>8, <1>9, <1>10, <1>11, <1>12
     DEF Next, User, MainStep, Model, Worker, AtRest

(* The blocking stop leaves every worker quiet.                            *)
LEMMA ControlKept ==
  ASSUME PipelineTypeOK, ClearInv, ControlInv, [Next]_pipelineVars \/ ClearBegins
  PROVE  ControlInv'
<1> USE DEF Stopping
<1>a. workerQueue \in [Workers -> Seq(WorkerEvents)] /\ isRunning \in [Workers -> BOOLEAN]
  BY DEF PipelineTypeOK, WorkerShape
<1>b. 1 \in Workers /\ Workers \subseteq Nat /\ \A w \in Workers : w >= 1 /\ w <= WorkerCount
  BY PipelineAssumption DEF Workers
<1>c. [event |-> "stop"] \in WorkerEvents /\ [event |-> "start"] \in WorkerEvents
        /\ [event |-> "clear"] \in WorkerEvents
  BY DEF WorkerEvents
<1>1. ASSUME UNCHANGED <<mainPc, state>>, \A w \in Workers : Milder(w)
      PROVE  ControlInv'
  <2>1. Stopping' = Stopping
    BY <1>1
  <2>2. (mainPc # "idle" => (state = "Working" <=> mainPc = "load"))'
    BY <1>1 DEF ControlInv
  <2> QED
    BY <1>1, <2>1, <2>2, ControlMilder
<1>2. ASSUME NEW w \in Workers,
             \/ ExtractDue(w) \/ LoadingDone(w) \/ onLoadingDone(w) \/ start(w) \/ workerClear(w)
             \/ extract(w) \/ addLinks(w) \/ emitResult(w) \/ count(w)
             \/ claimHop(w) \/ claimBlocked(w)
      PROVE  ControlInv'
  <2>1. UNCHANGED <<mainPc, state>>
    BY <1>2 DEF ExtractDue, LoadingDone, onLoadingDone, start, workerClear, extract,
                addLinks, emitResult, count, claimHop, claimBlocked, mainVars
  <2>2. CASE LoadingDone(w)
    <3>1. PICK load \in inFlight[w] : workerQueue' = [workerQueue EXCEPT
               ![w] = Append(@, [event |-> "pageLoaded", load |-> load])]
      BY <2>2 DEF LoadingDone
    <3>2. [event |-> "pageLoaded", load |-> load] \in WorkerEvents
      BY DEF WorkerEvents, PipelineTypeOK, WorkerShape
    <3>3. UNCHANGED isRunning
      BY <2>2 DEF LoadingDone
    <3> QED
      BY <1>1, <2>1, <3>1, <3>2, <3>3, MilderQueues
  <2>3. CASE onLoadingDone(w) \/ workerClear(w) \/ start(w)
    <3>1. \/ Event(w, "pageLoaded") /\ isRunning' = isRunning
          \/ Event(w, "clear") /\ isRunning' = isRunning
          \/ Event(w, "start") /\ isRunning' = [isRunning EXCEPT ![w] = TRUE]
      BY <2>3 DEF onLoadingDone, workerClear, start
    <3>2. CASE Event(w, "start") /\ isRunning' = [isRunning EXCEPT ![w] = TRUE]
      <4>1. \A v \in Workers : Milder(v)
        BY <3>2, MilderEvent
      <4> QED
        BY <1>1, <2>1, <4>1
    <3>3. CASE Event(w, "pageLoaded") /\ isRunning' = isRunning
      <4>1. \A v \in Workers : Milder(v)
        BY <3>3, MilderEvent
      <4> QED
        BY <1>1, <2>1, <4>1
    <3>4. CASE Event(w, "clear") /\ isRunning' = isRunning
      <4>1. \A v \in Workers : Milder(v)
        BY <3>4, MilderEvent
      <4> QED
        BY <1>1, <2>1, <4>1
    <3> QED
      BY <3>1, <3>2, <3>3, <3>4
  <2>4. CASE UNCHANGED <<isRunning, workerQueue>>
    BY <1>1, <2>1, <2>4, MilderQueues
  <2> QED
    BY <1>2, <2>2, <2>3, <2>4 DEF ExtractDue, extract,
                addLinks, emitResult, count, claimHop, claimBlocked
<1>3. ASSUME NEW w \in Workers, stop(w) PROVE ControlInv'
  <2> DEFINE q == workerQueue[w]
  <2>1. /\ q \in Seq(WorkerEvents) /\ q # <<>> /\ Head(q).event = "stop"
    BY <1>3, <1>a DEF stop, Receives
  <2>2. Stops(w) # {}
    BY <2>1, StopTail DEF Stops
  <2>3. Stopping
    BY <2>2 DEF ControlInv
  <2>4. PICK s \in Workers : StopReaches(s)
    BY <2>3 DEF ControlInv
  <2>5. w = s
    BY <2>2, <2>4 DEF StopReaches
  <2>6. StopLast(q)
    BY <2>4, <2>5 DEF StopReaches
  <2>7. EventsAt(Tail(q), "stop") = {} /\ EventsAt(Tail(q), "start") = {}
    BY <2>1, <2>6, StopTail
  <2>8. state # "Working" /\ state' = state
    BY <1>3, <2>3 DEF ControlInv, stop
  <2>9. isRunning' = [isRunning EXCEPT ![w] = FALSE]
    BY <1>3 DEF stop
  <2>10. ASSUME workerQueue'[w] = Tail(q) PROVE Quiet(w)'
    BY <2>7, <2>9, <2>10, <1>a DEF Quiet, Stops, Starts
  <2>11. CASE w < WorkerCount
    <3>1. w + 1 \in Workers /\ w + 1 # w
      BY <2>11, PipelineAssumption DEF Workers
    <3>2. workerQueue' = [workerQueue EXCEPT ![w] = Tail(@),
                                ![w + 1] = Append(@, [event |-> "stop"])]
      BY <1>3, <2>11 DEF stop
    <3>3. /\ workerQueue'[w] = Tail(q)
          /\ workerQueue'[w + 1] = Append(workerQueue[w + 1], [event |-> "stop"])
          /\ \A v \in Workers : v # w /\ v # w + 1 => workerQueue'[v] = workerQueue[v]
      BY <3>1, <3>2, <1>a
    <3>4. Quiet(w)'
      BY <2>10, <3>3
    <3>5. Stops(w + 1) = {}
      BY <2>4, <2>5, <3>1 DEF StopReaches
    <3>6. StopLast(workerQueue'[w + 1])
      <4>1. workerQueue[w + 1] \in Seq(WorkerEvents)
        BY <1>a, <3>1
      <4> QED
        BY <1>c, <3>3, <3>5, <4>1, StopAppend DEF Stops
    <3>7. ASSUME NEW v \in Workers, v < w PROVE Quiet(v)'
      <4>1. Quiet(v) /\ v # w /\ v # w + 1
        BY <1>b, <2>4, <2>5, <3>7 DEF StopReaches
      <4> QED
        BY <3>3, <4>1, <2>9, <1>a DEF Quiet, Stops, Starts
    <3>8. ASSUME NEW v \in Workers, v # w + 1 PROVE Stops(v)' = {}
      <4>1. CASE v = w
        BY <3>4, <4>1 DEF Quiet
      <4>2. CASE v # w
        BY <2>4, <2>5, <3>3, <3>8, <4>2 DEF StopReaches, Stops
      <4> QED
        BY <4>1, <4>2
    <3>9. StopReaches(w + 1)'
      <4>1. \A v \in Workers : v < w + 1 => v = w \/ v < w
        BY <1>b
      <4> QED
        BY <3>4, <3>6, <3>7, <3>8, <4>1 DEF StopReaches
    <3>10. mainPc' = mainPc
      BY <1>3, <2>11 DEF stop
    <3> QED
      BY <2>3, <2>8, <3>1, <3>9, <3>10 DEF ControlInv
  <2>12. CASE ~(w < WorkerCount)
    <3>1. workerQueue' = [workerQueue EXCEPT ![w] = Tail(@)]
           /\ mainPc' = IF mainPc = "endStop" THEN "endStopped" ELSE "idle"
      BY <1>3, <2>12 DEF stop
    <3>2. Quiet(w)'
      BY <2>10, <3>1, <1>a
    <3>3. ASSUME NEW v \in Workers, v # w PROVE Quiet(v)'
      <4>1. Quiet(v)
        <5>1. v < w
          BY <1>b, <2>12, <3>3, PipelineAssumption DEF Workers
        <5> QED
          BY <2>4, <2>5, <5>1 DEF StopReaches
      <4>2. workerQueue'[v] = workerQueue[v] /\ isRunning'[v] = isRunning[v]
        BY <3>1, <3>3, <2>9, <1>a
      <4> QED
        BY <4>1, <4>2 DEF Quiet, Stops, Starts
    <3>4. \A v \in Workers : Quiet(v)'
      BY <3>2, <3>3
    <3>5. ~Stopping' /\ mainPc' # "load"
      BY <3>1
    <3> QED
      BY <2>8, <3>4, <3>5 DEF ControlInv, Quiet
  <2> QED
    BY <2>11, <2>12
<1>4. ASSUME UNCHANGED <<isRunning, workerQueue>>,
             ~Stopping, ~Stopping',
             state' # "Working" => state # "Working",
             (mainPc # "idle" => (state = "Working" <=> mainPc = "load"))'
      PROVE  ControlInv'
  <2>1. \A w \in Workers : Milder(w)
    BY <1>4, <1>b, MilderQueues
  <2> QED
    BY <1>4, <2>1, ControlMilder
<1>5. ASSUME NEW pc, pc \in {"stop", "endStop"}, BeginStop(pc), ~Stopping, UNCHANGED isRunning
      PROVE  ControlInv'
  <2>1. \A v \in Workers : Stops(v) = {}
    BY <1>5 DEF ControlInv
  <2>2. /\ workerQueue'[1] = Append(workerQueue[1], [event |-> "stop"])
        /\ \A v \in Workers : v # 1 => workerQueue'[v] = workerQueue[v]
    BY <1>5, <1>a, <1>b DEF BeginStop
  <2>3. StopLast(workerQueue'[1])
    BY <1>a, <1>b, <1>c, <2>1, <2>2, StopAppend DEF Stops
  <2>4. StopReaches(1)'
    <3>1. \A v \in Workers : v # 1 => Stops(v)' = {}
      BY <2>1, <2>2 DEF Stops
    <3>2. \A v \in Workers : ~(v < 1)
      BY <1>b
    <3> QED
      BY <2>3, <3>1, <3>2 DEF StopReaches
  <2> QED
    BY <1>5, <1>b, <2>4 DEF ControlInv, BeginStop
<1>6. CASE startCrawling
  <2>1. /\ mainPc = "idle" /\ mainPc' = "idle" /\ state' = "Working"
        /\ workerQueue' = [w \in Workers |-> Append(workerQueue[w], [event |-> "start"])]
    BY <1>6 DEF startCrawling
  <2>2. ASSUME NEW v \in Workers PROVE Stops(v)' = {}
    BY <1>a, <1>c, <2>1, StopAppend DEF Stops, ControlInv
  <2> QED
    BY <2>1, <2>2 DEF ControlInv
<1>7. CASE stopCrawling
  BY <1>5, <1>7 DEF stopCrawling
<1>8. CASE decideCrawlingEnded
  <2>1. mainPc = "load" /\ ~Stopping /\ UNCHANGED isRunning
    BY <1>8 DEF decideCrawlingEnded
  <2>2. CASE BeginStop("endStop")
    BY <1>5, <2>1, <2>2
  <2>3. CASE mainPc' = "idle" /\ UNCHANGED <<state, workerQueue>>
    BY <1>4, <2>1, <2>3
  <2> QED
    BY <1>8, <2>2, <2>3 DEF decideCrawlingEnded
<1>9. CASE clearStore
  <2>1. /\ mainPc = "clearStore" /\ mainPc' = "idle" /\ UNCHANGED isRunning
        /\ workerQueue' = [w \in Workers |-> Append(workerQueue[w], [event |-> "clear"])]
    BY <1>9 DEF clearStore
  <2>2. ASSUME NEW v \in Workers PROVE Quiet(v)'
    <3>1. Quiet(v)
      BY <2>1 DEF ControlInv
    <3>2. Stops(v)' = Stops(v) /\ Starts(v)' = Starts(v)
      BY <1>a, <1>c, <2>1, StopAppend DEF Stops, Starts
    <3> QED
      BY <2>1, <3>1, <3>2 DEF Quiet
  <2> QED
    BY <2>1, <2>2 DEF ControlInv, Quiet
<1>10. CASE onAboutCrawlingState \/ loadCounter \/ crawlerFinished
  BY <1>4, <1>10 DEF onAboutCrawlingState, loadCounter, crawlerFinished, workerVars, ControlInv
<1>11. CASE clearData \/ ClearBegins
  <2>1. clearDataImpl /\ mainPc = "idle" /\ state # "Working"
    BY <1>11 DEF clearData, ClearBegins
  <2> QED
    BY <1>4, <2>1 DEF clearDataImpl, workerVars
<1>12. CASE MainQueue \/ handleWorkerResult \/ modelAdd \/ modelAccept \/ modelCount
            \/ UNCHANGED pipelineVars
  <2>1. UNCHANGED <<mainPc, state>> /\ UNCHANGED <<isRunning, workerQueue>>
    BY <1>12 DEF MainQueue, addParsedPage, onDataCleared, MainEvent, handleWorkerResult, modelAdd,
                 modelAccept, modelCount, mainVars, workerVars, pipelineVars
  <2> QED
    BY <1>1, <1>b, <2>1, MilderQueues
<1>13. CASE modelClear
  <2>1. mainPc = "clearModel" /\ mainPc' = "clearStore" /\ UNCHANGED <<state, workerVars>>
    BY <1>13, ModelEventTyped, ClearHead DEF modelClear, PipelineTypeOK
  <2> QED
    BY <1>4, <2>1 DEF workerVars, ControlInv
<1> QED
  BY <1>2, <1>3, <1>6, <1>7, <1>8, <1>9, <1>10, <1>11, <1>12, <1>13
     DEF Next, User, MainStep, Model, Worker, AtRest

(* Both hold at first.                                                     *)
LEMMA ControlInit == Init => ClearInv /\ ControlInv
<1> SUFFICES ASSUME Init PROVE ClearInv /\ ControlInv
  OBVIOUS
<1>1. ClearInv
  BY DEF Init, ClearInv, EventsAt
<1>2. \A w \in Workers : Quiet(w)
  BY DEF Init, Quiet, Stops, Starts, EventsAt
<1> QED
  BY <1>1, <1>2 DEF Init, ControlInv, Stopping, Quiet

(* At all times a blocking stop is on its way through the workers, one     *)
(* after the other, or none of them has one.                               *)
THEOREM StopControl == Spec => [](ClearInv /\ ControlInv)
<1>1. ClearInv /\ ControlInv /\ PipelineTypeOK /\ [Next]_pipelineVars
        => (ClearInv /\ ControlInv)'
  BY ClearKept, ControlKept
<1> QED
  BY <1>1, ControlInit, PipelineTypeCorrect, PTL DEF Spec

(* A step that a stopped crawler takes starts no download.                 *)
LEMMA QuietStartsNothing ==
  ASSUME PipelineTypeOK, ControlInv, [Next]_pipelineVars,
         state # "Working", mainPc = "idle", NEW v \in Workers
  PROVE  inFlight'[v] \subseteq inFlight[v]
<1>a. \A w \in Workers : ~isRunning[w]
  BY DEF ControlInv, Stopping, Quiet
<1>b. inFlight \in [Workers -> SUBSET Downloads]
  BY DEF PipelineTypeOK, WorkerShape
<1>1. ASSUME NEW w \in Workers, extractUrlAndDownload(w) PROVE inFlight' = inFlight
  BY <1>1, <1>a DEF extractUrlAndDownload, canPullLoading
<1>2. ASSUME NEW w \in Workers, LoadingDone(w) PROVE inFlight'[v] \subseteq inFlight[v]
  BY <1>2, <1>b DEF LoadingDone
<1>3. ASSUME NEW w \in Workers, Worker(w) PROVE inFlight' = inFlight
  BY <1>1, <1>3 DEF Worker, ExtractDue, extract, onLoadingDone, start, stop, workerClear,
                    addLinks, emitResult, count, claimHop, claimBlocked
<1>4. CASE Model \/ UNCHANGED pipelineVars
  BY <1>4 DEF Model, handleWorkerResult, modelAdd, modelAccept, modelCount, modelClear,
              pipelineVars, workerVars
<1>5. CASE MainStep
  BY <1>5 DEF MainStep, MainQueue, addParsedPage, onDataCleared, onAboutCrawlingState,
              loadCounter, decideCrawlingEnded, crawlerFinished, clearStore, workerVars
<1>6. CASE User
  BY <1>6 DEF User, startCrawling, stopCrawling, clearData, clearDataImpl, workerVars
<1> QED
  BY <1>2, <1>3, <1>4, <1>5, <1>6 DEF Next, AtRest

(* While the main thread is told that the crawler has stopped, no worker   *)
(* starts a download, whatever the site and however many the workers.      *)
THEOREM StoppedStartsNothing == Spec => StoppedStartNothing
<1>1. PipelineTypeOK /\ ControlInv /\ [Next]_pipelineVars
        => [state # "Working" /\ mainPc = "idle" /\ state' # "Working" =>
              \A w \in Workers : inFlight'[w] \subseteq inFlight[w]]_pipelineVars
  BY QuietStartsNothing
<1> QED
  BY <1>1, StopControl, PipelineTypeCorrect, PTL DEF Spec, StoppedStartNothing

-----------------------------------------------------------------------------
(***************************************************************************)
(* Turns: nothing under way is of a turn to come, and once the data is     *)
(* being cleared, nothing is of the present one.                           *)
(***************************************************************************)

(* The events of that name which the queue holds are all in kind.          *)
Within(queue, name, kind) == \A i \in EventsAt(queue, name) : queue[i] \in kind

(* What holds of all events of a name, as the queue grows and is served.   *)
LEMMA WithinQueue ==
  ASSUME NEW T, NEW q \in Seq(T), NEW name, NEW kind, Within(q, name, kind)
  PROVE  /\ \A e \in T : (e.event = name => e \in kind) => Within(Append(q, e), name, kind)
         /\ q # <<>> => Within(Tail(q), name, kind)
         /\ q # <<>> /\ Head(q).event = name => Head(q) \in kind
<1>1. ASSUME NEW e \in T, e.event = name => e \in kind
      PROVE  Within(Append(q, e), name, kind)
  <2> DEFINE a == Append(q, e)
  <2>1. /\ EventsAt(a, name) \subseteq EventsAt(q, name) \union {Len(q) + 1}
        /\ EventsAt(q, name) \subseteq 1..Len(q)
        /\ Len(q) + 1 \in EventsAt(a, name) => e.event = name
        /\ \A i \in 1..Len(q) : a[i] = q[i]
        /\ a[Len(q) + 1] = e
    <3>1. Len(q) \in Nat /\ Len(q) + 1 \notin EventsAt(q, name)
      BY EventsAppend DEF EventsAt
    <3> QED
      BY <3>1, EventsAppend
  <2> HIDE DEF a
  <2>2. Within(a, name, kind)
    BY <1>1, <2>1 DEF Within
  <2> QED
    BY <2>2 DEF a
<1>2. ASSUME q # <<>> PROVE Within(Tail(q), name, kind)
  <2>1. \A i \in EventsAt(Tail(q), name) :
          i + 1 \in EventsAt(q, name) /\ Tail(q)[i] = q[i + 1]
    BY <1>2, EventsShift
  <2> DEFINE t == Tail(q)
  <2> HIDE DEF t
  <2>2. Within(t, name, kind)
    BY <2>1 DEF Within, t
  <2> QED
    BY <2>2 DEF t
<1>3. ASSUME q # <<>>, Head(q).event = name PROVE Head(q) \in kind
  <2>1. 1 \in EventsAt(q, name) /\ Head(q) = q[1]
    BY <1>3, EventsShift
  <2> QED
    BY <2>1 DEF Within
<1> QED
  BY <1>1, <1>2, <1>3

(* The downloads, the answers and the results of the turns up to t.        *)
TurnLoads(t) == {d \in Downloads : d.turn <= t}
TurnAnswers(t) == [event : {"pageLoaded"}, load : TurnLoads(t)]
TurnResults(t) == {e \in ModelEvents : e.event = "result" /\ e.turn <= t}

(* All that is under way at the workers and to the model is of those       *)
(* turns.                                                                  *)
TurnsUpTo(t) ==
  /\ \A w \in Workers :
       /\ inFlight[w] \subseteq TurnLoads(t)
       /\ Within(workerQueue[w], "pageLoaded", TurnAnswers(t))
       /\ job[w].turn <= t
  /\ Within(modelQueue, "result", TurnResults(t))

(* The main thread is in the middle of clearDataImpl.                      *)
Clearing == mainPc \in {"clearModel", "clearStore"}

(* Nothing is of a turn to come, and once the counters are reset nothing   *)
(* is of the present turn, not even the page the model has in hand while   *)
(* it is not yet cleared.                                                  *)
TurnInv ==
  /\ TurnsUpTo(turnaround) /\ (Clearing => TurnsUpTo(turnaround - 1))
  /\ modelPc # Idle =>
       modelPc.turn <= turnaround - (IF mainPc = "clearModel" THEN 1 ELSE 0)

(* The turns of what is under way grow only where a worker that runs       *)
(* starts a download.                                                      *)
LEMMA TurnsKept ==
  ASSUME PipelineTypeOK, NEW t \in Int, t >= -1, TurnsUpTo(t),
         t = turnaround \/ \A w \in Workers : ~isRunning[w],
         [Next]_pipelineVars \/ ClearBegins
  PROVE  TurnsUpTo(t)'
<1>a. /\ inFlight \in [Workers -> SUBSET Downloads]
      /\ workerQueue \in [Workers -> Seq(WorkerEvents)]
      /\ job \in [Workers -> [turn : Int, calls : Seq(CallRecords)]]
      /\ modelQueue \in Seq(ModelEvents) /\ turnaround \in Int
      /\ pendingUrlList \subseteq Requests
  BY DEF PipelineTypeOK, WorkerShape, ModelShape, StoreShape
<1>b. \A w \in Workers :
       /\ inFlight[w] \subseteq TurnLoads(t)
       /\ Within(workerQueue[w], "pageLoaded", TurnAnswers(t))
       /\ job[w].turn <= t
  BY DEF TurnsUpTo
<1>c. Within(modelQueue, "result", TurnResults(t))
  BY DEF TurnsUpTo
<1>d. ASSUME \A w \in Workers : inFlight'[w] \subseteq TurnLoads(t),
             \A w \in Workers : Within(workerQueue'[w], "pageLoaded", TurnAnswers(t)),
             \A w \in Workers : job'[w].turn <= t,
             Within(modelQueue', "result", TurnResults(t))
      PROVE  TurnsUpTo(t)'
  BY <1>d DEF TurnsUpTo, TurnLoads, TurnAnswers, TurnResults, Within
<1>e. ASSUME NEW w \in Workers, NEW name, Event(w, name)
      PROVE  \A v \in Workers : Within(workerQueue'[v], "pageLoaded", TurnAnswers(t))
  <2>1. /\ workerQueue'[w] = Tail(workerQueue[w]) /\ workerQueue[w] # <<>>
        /\ \A v \in Workers : v # w => workerQueue'[v] = workerQueue[v]
    BY <1>a, <1>e DEF Event, Receives
  <2>2. Within(workerQueue'[w], "pageLoaded", TurnAnswers(t))
    BY <1>a, <1>b, <2>1, WithinQueue
  <2> QED
    BY <1>b, <2>1, <2>2
<1>f. ASSUME NEW w \in Workers, NEW calls, Continue(w, calls)
      PROVE  \A v \in Workers : job'[v].turn <= t
  <2> DEFINE rest == calls \o Tail(job[w].calls)
  <2>1. job' = [job EXCEPT ![w] = IF rest = <<>> THEN NoJob
                              ELSE [turn |-> job[w].turn, calls |-> rest]]
    BY <1>f DEF Continue
  <2> HIDE DEF rest
  <2>2. \A v \in Workers : v # w => job'[v] = job[v]
    BY <2>1, <1>a
  <2>3. job'[w].turn = job[w].turn \/ job'[w].turn = -1
    BY <2>1, <1>a DEF NoJob
  <2> QED
    BY <1>a, <1>b, <2>2, <2>3
<1>g. ASSUME NEW w \in Workers, extractUrlAndDownload(w)
      PROVE  \A v \in Workers : inFlight'[v] \subseteq TurnLoads(t)
  <2>1. CASE inFlight' = inFlight
    BY <1>b, <2>1
  <2>2. CASE inFlight' # inFlight
    <3>1. PICK r \in pendingUrlList :
            /\ isRunning[w]
            /\ inFlight' = [inFlight EXCEPT ![w] = @ \union {[page |-> r, turn |-> turnaround]}]
      BY <1>g, <2>2 DEF extractUrlAndDownload, canPullLoading
    <3>2. [page |-> r, turn |-> turnaround] \in TurnLoads(t)
      BY <1>a, <3>1 DEF TurnLoads, Downloads
    <3> QED
      BY <1>a, <1>b, <3>1, <3>2
  <2> QED
    BY <2>1, <2>2
<1>1. ASSUME NEW w \in Workers, ExtractDue(w) PROVE TurnsUpTo(t)'
  BY <1>1, <1>b, <1>c, <1>d, <1>g DEF ExtractDue, modelVars
<1>2. ASSUME NEW w \in Workers, LoadingDone(w) PROVE TurnsUpTo(t)'
  <2>1. PICK load \in inFlight[w] :
          /\ inFlight' = [inFlight EXCEPT ![w] = @ \ {load}]
          /\ workerQueue' = [workerQueue EXCEPT
               ![w] = Append(@, [event |-> "pageLoaded", load |-> load])]
    BY <1>2 DEF LoadingDone
  <2>2. /\ [event |-> "pageLoaded", load |-> load] \in WorkerEvents
        /\ [event |-> "pageLoaded", load |-> load] \in TurnAnswers(t)
    BY <1>a, <1>b, <2>1 DEF WorkerEvents, TurnAnswers
  <2>3. /\ workerQueue'[w] = Append(workerQueue[w], [event |-> "pageLoaded", load |-> load])
        /\ \A v \in Workers : v # w => workerQueue'[v] = workerQueue[v]
    BY <1>a, <2>1
  <2>4. Within(workerQueue'[w], "pageLoaded", TurnAnswers(t))
    BY <1>a, <1>b, <2>2, <2>3, WithinQueue
  <2>5. \A v \in Workers : inFlight'[v] \subseteq TurnLoads(t)
    BY <1>a, <1>b, <2>1
  <2> QED
    BY <1>2, <1>b, <1>c, <1>d, <2>3, <2>4, <2>5 DEF LoadingDone, modelVars
<1>3. ASSUME NEW w \in Workers, onLoadingDone(w) PROVE TurnsUpTo(t)'
  <2>1. Head(workerQueue[w]).load.turn <= t
    <3>1. workerQueue[w] # <<>> /\ Head(workerQueue[w]).event = "pageLoaded"
      BY <1>3 DEF onLoadingDone, Event, Receives
    <3>2. Head(workerQueue[w]) \in TurnAnswers(t)
      BY <1>a, <1>b, <3>1, WithinQueue
    <3> QED
      BY <3>2 DEF TurnAnswers, TurnLoads
  <2>2. \A v \in Workers : job'[v].turn <= t
    <3> DEFINE calls == handleResponseData(Head(workerQueue[w]).load.page)
               new == [turn |-> Head(workerQueue[w]).load.turn, calls |-> calls]
    <3>1. job' = job \/ job' = [job EXCEPT ![w] = new]
      BY <1>3 DEF onLoadingDone
    <3>2. new.turn <= t
      BY <2>1
    <3> HIDE DEF new
    <3> QED
      BY <1>a, <1>b, <3>1, <3>2
  <2> QED
    BY <1>3, <1>b, <1>c, <1>d, <1>e, <2>2 DEF onLoadingDone, modelVars
<1>4. ASSUME NEW w \in Workers, start(w) PROVE TurnsUpTo(t)'
  <2>1. \A v \in Workers : job'[v].turn <= t
    BY <1>4, <1>a, <1>b DEF start
  <2> QED
    BY <1>4, <1>b, <1>c, <1>d, <1>e, <2>1 DEF start, modelVars
<1>5. ASSUME NEW w \in Workers, stop(w) PROVE TurnsUpTo(t)'
  <2>1. workerQueue[w] \in Seq(WorkerEvents) /\ workerQueue[w] # <<>>
    BY <1>5, <1>a DEF stop, Receives
  <2> DEFINE tailed == [workerQueue EXCEPT ![w] = Tail(@)]
  <2>2. tailed \in [Workers -> Seq(WorkerEvents)]
    BY <1>a, <2>1
  <2>3. \A v \in Workers : Within(tailed[v], "pageLoaded", TurnAnswers(t))
    <3>1. Within(Tail(workerQueue[w]), "pageLoaded", TurnAnswers(t))
      BY <1>b, <2>1, WithinQueue
    <3> QED
      BY <1>a, <1>b, <3>1
  <2>4. \A v \in Workers : \/ workerQueue'[v] = tailed[v]
                           \/ workerQueue'[v] = Append(tailed[v], [event |-> "stop"])
    <3>1. \/ workerQueue' = tailed
          \/ workerQueue' = [workerQueue EXCEPT ![w] = Tail(@),
                                ![w + 1] = Append(@, [event |-> "stop"])]
      BY <1>5 DEF stop
    <3>2. w + 1 # w
      BY DEF Workers
    <3> QED
      BY <1>a, <3>1, <3>2
  <2> HIDE DEF tailed
  <2>5. [event |-> "stop"] \in WorkerEvents
    BY DEF WorkerEvents
  <2>6. ASSUME NEW v \in Workers PROVE Within(workerQueue'[v], "pageLoaded", TurnAnswers(t))
    <3>1. Within(Append(tailed[v], [event |-> "stop"]), "pageLoaded", TurnAnswers(t))
      BY <2>2, <2>3, <2>5, WithinQueue
    <3> QED
      BY <2>3, <2>4, <3>1
  <2> QED
    BY <1>5, <1>b, <1>c, <1>d, <2>6 DEF stop, modelVars
<1>6. ASSUME NEW w \in Workers, workerClear(w) PROVE TurnsUpTo(t)'
  BY <1>6, <1>b, <1>c, <1>d, <1>e DEF workerClear, modelVars
<1>7. ASSUME NEW w \in Workers, extract(w) PROVE TurnsUpTo(t)'
  BY <1>7, <1>b, <1>c, <1>d, <1>f, <1>g DEF extract, modelVars
<1>8. ASSUME NEW w \in Workers, addLinks(w) \/ count(w) \/ claimHop(w) \/ claimBlocked(w)
      PROVE  TurnsUpTo(t)'
  BY <1>8, <1>b, <1>c, <1>d, <1>f DEF addLinks, count, claimHop, claimBlocked, modelVars
<1>9. ASSUME NEW w \in Workers, emitResult(w) PROVE TurnsUpTo(t)'
  <2> DEFINE e == [event |-> "result", page |-> CalledPage(w), turn |-> job[w].turn]
  <2>1. Head(job[w].calls) \in CallRecords
    BY <1>9 DEF emitResult, Call, PipelineTypeOK, WorkerShape
  <2>2. e \in ModelEvents /\ e.event = "result" /\ e.turn = job[w].turn
    BY <1>a, <2>1 DEF CallRecords, CalledPage, ModelEvents
  <2>3. e \in TurnResults(t) /\ modelQueue' = Append(modelQueue, e)
    BY <1>9, <1>b, <2>2 DEF TurnResults, emitResult
  <2> HIDE DEF e
  <2>4. Within(modelQueue', "result", TurnResults(t))
    BY <1>a, <1>c, <2>2, <2>3, WithinQueue
  <2> QED
    BY <1>9, <1>b, <1>d, <1>f, <2>4 DEF emitResult
<1>10. ASSUME workerVars' = workerVars, Within(modelQueue', "result", TurnResults(t))
       PROVE  TurnsUpTo(t)'
  BY <1>10, <1>b, <1>d DEF workerVars
<1>11. CASE Model
  <2>1. \/ modelQueue' = modelQueue
        \/ modelQueue # <<>> /\ modelQueue' = Tail(modelQueue)
    <3>1. CASE handleWorkerResult \/ modelClear
      BY <3>1 DEF handleWorkerResult, modelClear, ModelEvent
    <3>2. modelAdd => modelQueue' = modelQueue
      BY Zenon DEF modelAdd
    <3>3. modelAccept => modelQueue' = modelQueue
      BY DEF modelAccept
    <3>4. modelCount => modelQueue' = modelQueue
      BY DEF modelCount
    <3> QED
      BY <1>11, <3>1, <3>2, <3>3, <3>4 DEF Model
  <2>2. Within(modelQueue', "result", TurnResults(t))
    <3>1. modelQueue # <<>> => Within(Tail(modelQueue), "result", TurnResults(t))
      BY <1>a, <1>c, WithinQueue
    <3> QED
      BY <1>c, <2>1, <3>1
  <2>3. workerVars' = workerVars
    BY <1>11 DEF Model, handleWorkerResult, modelAdd, modelAccept, modelCount, modelClear
  <2> QED
    BY <1>10, <2>2, <2>3
<1>12. CASE clearData \/ ClearBegins
  <2>1. [event |-> "clear"] \in ModelEvents
    BY DEF ModelEvents
  <2>2. modelQueue' = Append(modelQueue, [event |-> "clear"]) /\ workerVars' = workerVars
    BY <1>12 DEF clearData, ClearBegins, clearDataImpl
  <2>3. Within(modelQueue', "result", TurnResults(t))
    BY <1>a, <1>c, <2>1, <2>2, WithinQueue
  <2> QED
    BY <1>10, <2>2, <2>3
<1>13. ASSUME modelQueue' = modelQueue, inFlight' = inFlight, job' = job,
              NEW name \in {"start", "stop", "clear"},
              \A v \in Workers : \/ workerQueue'[v] = workerQueue[v]
                                 \/ workerQueue'[v] = Append(workerQueue[v], [event |-> name])
       PROVE  TurnsUpTo(t)'
  <2>1. [event |-> name] \in WorkerEvents
    BY DEF WorkerEvents
  <2>2. ASSUME NEW v \in Workers PROVE Within(workerQueue'[v], "pageLoaded", TurnAnswers(t))
    <3>1. Within(Append(workerQueue[v], [event |-> name]), "pageLoaded", TurnAnswers(t))
      BY <1>a, <1>b, <2>1, WithinQueue
    <3> QED
      BY <1>13, <1>b, <3>1
  <2> QED
    BY <1>13, <1>b, <1>c, <1>d, <2>2
<1>14. CASE startCrawling
  BY <1>13, <1>14 DEF startCrawling, modelVars
<1>15. CASE stopCrawling \/ decideCrawlingEnded
  <2>1. \/ workerQueue' = workerQueue
        \/ workerQueue' = [workerQueue EXCEPT ![1] = Append(@, [event |-> "stop"])]
    BY <1>15 DEF stopCrawling, decideCrawlingEnded, BeginStop
  <2>2. \A v \in Workers : \/ workerQueue'[v] = workerQueue[v]
                           \/ workerQueue'[v] = Append(workerQueue[v], [event |-> "stop"])
    BY <2>1, <1>a
  <2> QED
    BY <1>13, <1>15, <2>2 DEF stopCrawling, decideCrawlingEnded, modelVars
<1>16. CASE clearStore
  BY <1>13, <1>16 DEF clearStore, modelVars
<1>17. CASE MainQueue \/ onAboutCrawlingState \/ loadCounter \/ crawlerFinished
              \/ UNCHANGED pipelineVars
  BY <1>10, <1>17, <1>c DEF MainQueue, addParsedPage, onDataCleared, onAboutCrawlingState,
        loadCounter, crawlerFinished, modelVars, pipelineVars
<1> QED
  BY <1>1, <1>2, <1>3, <1>4, <1>5, <1>6, <1>7, <1>8, <1>9, <1>11, <1>12, <1>14, <1>15,
     <1>16, <1>17 DEF Next, User, MainStep, Worker, AtRest

(* Only the data being cleared begins to be so.                            *)
LEMMA ClearingBegins ==
  ASSUME PipelineTypeOK, ClearInv, ControlInv, [Next]_pipelineVars \/ ClearBegins
  PROVE  /\ Clearing' => Clearing \/ ClearBegins
         /\ turnaround' # turnaround => ClearBegins
         /\ mainPc' = "clearModel" => mainPc = "clearModel" \/ ClearBegins
         /\ mainPc = "clearModel" => mainPc' = "clearModel" \/ modelClear
<1> USE DEF Clearing
<1>0. CASE ClearBegins
  BY <1>0 DEF ClearBegins

<1>1. ASSUME NEW w \in Workers, stop(w)
      PROVE  mainPc \in {"stop", "endStop"} /\ mainPc' \in {"stop", "endStop", "endStopped", "idle"}
             /\ turnaround' = turnaround
  <2>1. workerQueue[w] \in Seq(WorkerEvents) /\ workerQueue[w] # <<>> /\ Head(workerQueue[w]).event = "stop"
    BY <1>1 DEF stop, Receives, PipelineTypeOK, WorkerShape
  <2>2. Stops(w) # {}
    BY <2>1, StopTail DEF Stops
  <2>3. mainPc \in {"stop", "endStop"}
    BY <2>2 DEF ControlInv, Stopping
  <2> QED
    BY <1>1, <2>3 DEF stop, sharedVars
<1>2. ASSUME NEW w \in Workers,
             \/ ExtractDue(w) \/ LoadingDone(w) \/ onLoadingDone(w) \/ start(w) \/ workerClear(w)
             \/ extract(w) \/ addLinks(w) \/ emitResult(w) \/ count(w)
             \/ claimHop(w) \/ claimBlocked(w)
      PROVE  mainPc' = mainPc /\ turnaround' = turnaround
  BY <1>2 DEF ExtractDue, LoadingDone, onLoadingDone, start, workerClear, extract,
              addLinks, emitResult, count, claimHop, claimBlocked, mainVars, sharedVars
<1>3. CASE handleWorkerResult \/ modelAdd \/ modelAccept \/ modelCount \/ UNCHANGED pipelineVars
  <2>1. mainPc' = mainPc /\ turnaround' = turnaround
    BY <1>3 DEF handleWorkerResult, modelAdd, modelAccept, modelCount, mainVars, sharedVars,
                pipelineVars
  <2> QED
    BY <2>1
<1>4. CASE modelClear
  <2>1. mainPc = "clearModel" /\ mainPc' = "clearStore" /\ turnaround' = turnaround
    BY <1>4, ClearHead DEF modelClear, ModelEvent, PipelineTypeOK, ModelShape
  <2> QED
    BY <1>4, <2>1
<1>5. CASE MainStep
  <2>1. mainPc # "clearModel" /\ mainPc' \notin {"clearModel", "clearStore"} /\ turnaround' = turnaround
    <3>1. CASE MainQueue
      BY <3>1 DEF MainQueue, addParsedPage, onDataCleared, MainEvent
    <3>2. CASE onAboutCrawlingState \/ loadCounter \/ crawlerFinished \/ clearStore
      BY <3>2 DEF onAboutCrawlingState, loadCounter, crawlerFinished, clearStore, sharedVars
    <3>3. CASE decideCrawlingEnded
      BY <3>3 DEF decideCrawlingEnded, BeginStop, sharedVars
    <3> QED
      BY <1>5, <3>1, <3>2, <3>3 DEF MainStep
  <2> QED
    BY <2>1
<1>6. CASE startCrawling \/ stopCrawling
  <2>1. mainPc = "idle" /\ mainPc' \notin {"clearModel", "clearStore"} /\ turnaround' = turnaround
    BY <1>6 DEF startCrawling, stopCrawling, BeginStop, sharedVars
  <2> QED
    BY <2>1
<1>7. CASE clearData
  <2>1. ClearBegins
    BY <1>7 DEF clearData, ClearBegins
  <2> QED
    BY <1>0, <2>1
<1> QED
  BY <1>0, <1>1, <1>2, <1>3, <1>4, <1>5, <1>6, <1>7 DEF Next, User, Worker, Model, AtRest

(* The turns stay in their bounds.                                         *)
LEMMA TurnKept ==
  ASSUME PipelineTypeOK, ClearInv, ControlInv, TurnInv, [Next]_pipelineVars \/ ClearBegins
  PROVE  TurnInv'
<1>a. turnaround \in Nat /\ modelQueue \in Seq(ModelEvents)
  BY DEF PipelineTypeOK, ModelShape
<1>1. TurnsUpTo(turnaround)'
  <2>1. PICK t \in Int : t = turnaround
    BY <1>a
  <2>2. TurnsUpTo(t)'
    BY <1>a, <2>1, TurnsKept DEF TurnInv
  <2>3. CASE turnaround' = turnaround
    BY <2>1, <2>2, <2>3 DEF TurnsUpTo
  <2>4. CASE turnaround' # turnaround
    <3>1. turnaround' = t + 1
      BY <2>1, <2>4, ClearingBegins DEF ClearBegins, clearDataImpl
    <3>2. \A d \in Downloads : d.turn <= t => d.turn <= t + 1
      BY DEF Downloads
    <3>3. TurnLoads(t) \subseteq TurnLoads(t + 1)
      BY <3>2 DEF TurnLoads
    <3>4. TurnAnswers(t) \subseteq TurnAnswers(t + 1)
      BY <3>3 DEF TurnAnswers
    <3>5. TurnResults(t) \subseteq TurnResults(t + 1)
      <4>1. \A e \in ModelEvents : e.event = "result" => e.turn \in Int
        BY DEF ModelEvents
      <4> QED
        BY <4>1 DEF TurnResults
    <3>6. \A w \in Workers : job'[w].turn <= t => job'[w].turn <= t + 1
      <4>1. job' \in [Workers -> [turn : Int, calls : Seq(CallRecords)]]
        BY NextTyped, <2>4, ClearingBegins DEF PipelineTypeOK, WorkerShape, ClearBegins, clearDataImpl, workerVars
      <4> QED
        BY <4>1
    <3> QED
      BY <2>2, <3>1, <3>3, <3>4, <3>5, <3>6 DEF TurnsUpTo, Within
  <2> QED
    BY <2>3, <2>4
<1>2. Clearing' => TurnsUpTo(turnaround - 1)'
  <2>1. CASE ClearBegins
    <3>1. PICK t \in Int : t = turnaround
      BY <1>a
    <3>2. TurnsUpTo(t)'
      BY <1>a, <3>1, TurnsKept DEF TurnInv
    <3>3. turnaround' - 1 = t
      BY <1>a, <2>1, <3>1 DEF ClearBegins, clearDataImpl
    <3> QED
      BY <3>2, <3>3 DEF TurnsUpTo
  <2>2. CASE Clearing /\ ~ClearBegins
    <3>1. PICK t \in Int : t = turnaround - 1
      BY <1>a
    <3>2. \A w \in Workers : ~isRunning[w]
      BY <2>2 DEF ControlInv, Stopping, Clearing, Quiet
    <3>3. TurnsUpTo(t)'
      BY <1>a, <2>2, <3>1, <3>2, TurnsKept DEF TurnInv
    <3>4. turnaround' - 1 = t
      BY <2>2, <3>1, ClearingBegins
    <3> QED
      BY <3>3, <3>4 DEF TurnsUpTo
  <2> QED
    BY <2>1, <2>2, ClearingBegins
<1>3. (modelPc # Idle =>
        modelPc.turn <= turnaround - (IF mainPc = "clearModel" THEN 1 ELSE 0))'
  <2>1. CASE ClearBegins
    <3>1. /\ modelPc' = modelPc /\ mainPc = "idle" /\ mainPc' = "clearModel"
          /\ turnaround' = turnaround + 1
      BY <2>1 DEF ClearBegins, clearDataImpl
    <3> QED
      BY <1>a, <3>1 DEF TurnInv, Idle
  <2>2. CASE handleWorkerResult /\ ~ClearBegins
    <3> DEFINE e == Head(modelQueue)
    <3>1. modelQueue # <<>> /\ e.event = "result" /\ mainPc' = mainPc /\ turnaround' = turnaround
      BY <2>2 DEF handleWorkerResult, ModelEvent, mainVars, sharedVars
    <3>2. Clearing => e \in TurnResults(turnaround - 1)
      BY <1>a, <3>1, WithinQueue DEF TurnInv, TurnsUpTo
    <3>3. modelPc' # Idle => e.turn = turnaround /\ modelPc'.turn = e.turn
      BY <2>2 DEF handleWorkerResult, AcceptsResult
    <3>4. modelPc' # Idle => mainPc # "clearModel"
      BY <1>a, <3>2, <3>3 DEF TurnResults, Clearing
    <3> QED
      BY <1>a, <3>1, <3>3, <3>4 DEF Idle
  <2>3. CASE modelClear
    BY <2>3 DEF modelClear, ModelEvent
  <2>4. CASE ~handleWorkerResult /\ ~modelClear /\ ~ClearBegins
    <3>1. modelPc' # Idle => modelPc # Idle /\ modelPc'.turn = modelPc.turn
      <4>1. CASE modelAdd
        BY <4>1 DEF modelAdd, Idle, PipelineTypeOK, ModelShape
      <4>2. CASE modelAccept
        BY <4>2 DEF modelAccept, Idle, PipelineTypeOK, ModelShape
      <4>3. CASE modelCount
        BY <4>3 DEF modelCount
      <4>4. CASE modelPc' = modelPc
        BY <4>4 DEF Idle
      <4>5. modelPc' = modelPc \/ modelAdd \/ modelAccept \/ modelCount
        <5>1. ASSUME NEW w \in Workers, Worker(w) \/ LoadingDone(w) PROVE modelPc' = modelPc
          BY <5>1 DEF Worker, ExtractDue, LoadingDone, onLoadingDone, start, stop, workerClear, extract,
              addLinks, emitResult, count, claimHop, claimBlocked, modelVars
        <5>2. CASE MainStep
          BY <5>2 DEF MainStep, MainQueue, addParsedPage, onDataCleared, onAboutCrawlingState,
              loadCounter, decideCrawlingEnded, crawlerFinished, clearStore, modelVars
        <5>3. CASE User
          BY <5>3 DEF User, startCrawling, stopCrawling, clearData, clearDataImpl, modelVars
        <5>4. CASE UNCHANGED pipelineVars
          BY <5>4 DEF pipelineVars, modelVars
        <5> QED
          BY <2>4, <5>1, <5>2, <5>3, <5>4 DEF Next, Model, AtRest
      <4> QED
        BY <4>1, <4>2, <4>3, <4>4, <4>5
    <3>2. turnaround' = turnaround /\ (mainPc' = "clearModel" <=> mainPc = "clearModel")
      BY <2>4, ClearingBegins
    <3> QED
      BY <3>1, <3>2 DEF TurnInv, Idle
  <2> QED
    BY <2>1, <2>2, <2>3, <2>4
<1> QED
  BY <1>1, <1>2, <1>3 DEF TurnInv, Idle

-----------------------------------------------------------------------------
(***************************************************************************)
(* The view and the model.                                                 *)
(***************************************************************************)

(* The pages added after the last clear whose signal is on its way.        *)
FreshIn(queue) ==
  {i \in EventsAt(queue, "added") : \A k \in EventsAt(queue, "cleared") : k < i}
FreshUrls(queue) == {queue[i].url : i \in FreshIn(queue)}

(* What will be left of the view when all clears under way have arrived.   *)
Shown(queue, storage) == IF EventsAt(queue, "cleared") = {} THEN storage ELSE {}

(* The view and the fresh signals are the model's storage between them.    *)
ViewSplit ==
  /\ crawledStorage = Shown(mainQueue, sequencedStorage) \union FreshUrls(mainQueue)
  /\ Shown(mainQueue, sequencedStorage) \intersect FreshUrls(mainQueue) = {}
  /\ \A i, j \in FreshIn(mainQueue) : mainQueue[i].url = mainQueue[j].url => i = j

(* The fresh signals are those of the present turn.                        *)
FreshTurns ==
  \A i \in EventsAt(mainQueue, "added") :
    /\ mainQueue[i].turn <= turnaround
    /\ mainQueue[i].turn = turnaround <=>
         (i \in FreshIn(mainQueue) /\ mainPc # "clearModel")

(* The counters of the model and of the view are the sizes of their        *)
(* storages, once the model is cleared and the view as well.               *)
ViewCounters ==
  mainPc # "clearModel" =>
    /\ modelControllerAcceptedLinksCount + (IF modelPc.call = "accept" THEN 1 ELSE 0)
         = Cardinality(crawledStorage)
    /\ modelPc # Idle => modelPc.turn = turnaround
    /\ EventsAt(mainQueue, "cleared") = {} =>
         sequencedDataCollectionLinksCount = Cardinality(sequencedStorage)

(* What the view shows follows from the storage of the model.              *)
ViewInv ==
  /\ ViewSplit /\ FreshTurns /\ ViewCounters
  /\ modelPc.call = "add" => modelPc.url \notin crawledStorage

(* The fresh signals of a queue that gets one more.                        *)
LEMMA FreshAppend ==
  ASSUME NEW q \in Seq(MainEvents), NEW e \in MainEvents
  PROVE  /\ Len(q) \in Nat /\ FreshIn(q) \subseteq 1..Len(q)
         /\ EventsAt(q, "added") \subseteq 1..Len(q)
         /\ \A i \in 1..Len(q) : Append(q, e)[i] = q[i]
         /\ Append(q, e)[Len(q) + 1] = e
         /\ e.event = "added" =>
              /\ EventsAt(Append(q, e), "cleared") = EventsAt(q, "cleared")
              /\ EventsAt(Append(q, e), "added") = EventsAt(q, "added") \union {Len(q) + 1}
              /\ FreshIn(Append(q, e)) = FreshIn(q) \union {Len(q) + 1}
              /\ FreshUrls(Append(q, e)) = FreshUrls(q) \union {e.url}
         /\ e.event = "cleared" =>
              /\ EventsAt(Append(q, e), "cleared") # {}
              /\ EventsAt(Append(q, e), "added") = EventsAt(q, "added")
              /\ FreshIn(Append(q, e)) = {} /\ FreshUrls(Append(q, e)) = {}
<1> DEFINE a == Append(q, e)
           n == Len(q) + 1
<1>1. /\ Len(q) \in Nat
      /\ EventsAt(q, "cleared") \subseteq 1..Len(q) /\ EventsAt(q, "added") \subseteq 1..Len(q)
      /\ \A i \in 1..Len(q) : a[i] = q[i]
      /\ a[n] = e
  BY EventsAppend
<1>2. /\ EventsAt(a, "cleared") = IF e.event = "cleared" THEN EventsAt(q, "cleared") \union {n}
                                  ELSE EventsAt(q, "cleared")
      /\ EventsAt(a, "added") = IF e.event = "added" THEN EventsAt(q, "added") \union {n}
                                  ELSE EventsAt(q, "added")
  BY EventsAppend
<1> HIDE DEF a
<1>3. FreshIn(q) \subseteq 1..Len(q)
  BY <1>1 DEF FreshIn
<1>4. ASSUME e.event = "added"
      PROVE  /\ EventsAt(a, "cleared") = EventsAt(q, "cleared")
             /\ EventsAt(a, "added") = EventsAt(q, "added") \union {n}
             /\ FreshIn(a) = FreshIn(q) \union {n}
             /\ FreshUrls(a) = FreshUrls(q) \union {e.url}
  <2>1. /\ EventsAt(a, "cleared") = EventsAt(q, "cleared")
        /\ EventsAt(a, "added") = EventsAt(q, "added") \union {n}
    BY <1>2, <1>4
  <2>2. \A k \in EventsAt(q, "cleared") : k < n
    BY <1>1
  <2>3. FreshIn(a) = FreshIn(q) \union {n}
    BY <2>1, <2>2 DEF FreshIn
  <2>4. FreshUrls(a) = FreshUrls(q) \union {e.url}
    BY <1>1, <1>3, <2>3 DEF FreshUrls
  <2> QED
    BY <2>1, <2>3, <2>4
<1>5. ASSUME e.event = "cleared"
      PROVE  /\ EventsAt(a, "cleared") # {}
             /\ EventsAt(a, "added") = EventsAt(q, "added")
             /\ FreshIn(a) = {} /\ FreshUrls(a) = {}
  <2>1. n \in EventsAt(a, "cleared") /\ EventsAt(a, "added") = EventsAt(q, "added")
    BY <1>2, <1>5
  <2>2. \A i \in EventsAt(q, "added") : ~(n < i)
    BY <1>1
  <2>3. FreshIn(a) = {}
    BY <2>1, <2>2 DEF FreshIn
  <2> QED
    BY <2>1, <2>3 DEF FreshUrls
<1> QED
  BY <1>1, <1>3, <1>4, <1>5 DEF a

(* The fresh signals of a queue whose head is taken.                       *)
LEMMA FreshTail ==
  ASSUME NEW q \in Seq(MainEvents), q # <<>>
  PROVE  /\ \A i \in FreshIn(Tail(q)) :
              i \in Nat /\ i # 0 /\ i + 1 \in FreshIn(q) /\ Tail(q)[i] = q[i + 1]
         /\ \A k \in FreshIn(q) :
              /\ k \in Nat
              /\ \/ k = 1 /\ Head(q).event = "added" /\ EventsAt(q, "cleared") = {}
                 \/ k # 1 /\ k - 1 \in FreshIn(Tail(q))
         /\ Head(q).event = "added" /\ EventsAt(q, "cleared") = {} => 1 \in FreshIn(q)
         /\ FreshUrls(q) = FreshUrls(Tail(q))
              \union (IF Head(q).event = "added" /\ EventsAt(q, "cleared") = {}
                      THEN {Head(q).url} ELSE {})
<1> DEFINE t == Tail(q)
<1>1. /\ \A i \in EventsAt(t, "cleared") :
           i \in Nat /\ i # 0 /\ i + 1 \in EventsAt(q, "cleared")
      /\ \A k \in EventsAt(q, "cleared") :
           k \in Nat /\ ((k = 1 /\ Head(q).event = "cleared") \/ k - 1 \in EventsAt(t, "cleared"))
  BY EventsShift
<1>2. /\ \A i \in EventsAt(t, "added") :
           i \in Nat /\ i # 0 /\ i + 1 \in EventsAt(q, "added") /\ t[i] = q[i + 1]
      /\ \A k \in EventsAt(q, "added") :
           k \in Nat /\ ((k = 1 /\ Head(q).event = "added") \/ (k # 1 /\ k - 1 \in EventsAt(t, "added")))
      /\ Head(q).event = "added" <=> 1 \in EventsAt(q, "added")
      /\ Head(q) = q[1]
  BY EventsShift
<1> HIDE DEF t
<1>3. ASSUME NEW i \in FreshIn(t)
      PROVE  i \in Nat /\ i # 0 /\ i + 1 \in FreshIn(q) /\ t[i] = q[i + 1]
  <2>1. i \in EventsAt(t, "added") /\ \A k \in EventsAt(t, "cleared") : k < i
    BY <1>3 DEF FreshIn
  <2>2. i \in Nat /\ i # 0 /\ i + 1 \in EventsAt(q, "added") /\ t[i] = q[i + 1]
    BY <1>2, <2>1
  <2>3. ASSUME NEW k \in EventsAt(q, "cleared") PROVE k < i + 1
    <3>1. k \in Nat /\ (k = 1 \/ k - 1 < i)
      BY <1>1, <2>1, <2>3
    <3> QED
      BY <2>2, <3>1
  <2> QED
    BY <2>2, <2>3 DEF FreshIn
<1>4. ASSUME NEW k \in FreshIn(q)
      PROVE  /\ k \in Nat
             /\ \/ k = 1 /\ Head(q).event = "added" /\ EventsAt(q, "cleared") = {}
                \/ k # 1 /\ k - 1 \in FreshIn(t)
  <2>1. k \in EventsAt(q, "added") /\ \A c \in EventsAt(q, "cleared") : c < k
    BY <1>4 DEF FreshIn
  <2>2. CASE k = 1
    <3>1. Head(q).event = "added"
      BY <1>2, <2>1, <2>2
    <3>2. ASSUME NEW c \in EventsAt(q, "cleared") PROVE FALSE
      <4>1. c \in Nat /\ c < 1
        BY <1>1, <2>1, <2>2, <3>2
      <4>2. c - 1 \in EventsAt(t, "cleared")
        BY <1>1, <3>2, <4>1
      <4> QED
        BY <1>1, <4>1, <4>2
    <3> QED
      BY <2>2, <3>1, <3>2
  <2>3. CASE k # 1
    <3>1. k \in Nat /\ k - 1 \in EventsAt(t, "added")
      BY <1>2, <2>1, <2>3
    <3>2. ASSUME NEW c \in EventsAt(t, "cleared") PROVE c < k - 1
      <4>1. c \in Nat /\ c + 1 < k
        BY <1>1, <2>1, <3>2
      <4> QED
        BY <3>1, <4>1
    <3>3. k - 1 \in FreshIn(t)
      BY <3>1, <3>2 DEF FreshIn
    <3> QED
      BY <2>3, <3>1, <3>3
  <2> QED
    BY <2>2, <2>3
<1>5. Head(q).event = "added" /\ EventsAt(q, "cleared") = {} => 1 \in FreshIn(q)
  BY <1>2 DEF FreshIn
<1>6. ASSUME NEW u \in FreshUrls(q)
      PROVE  \/ u \in FreshUrls(t)
             \/ Head(q).event = "added" /\ EventsAt(q, "cleared") = {} /\ u = Head(q).url
  <2>1. PICK k \in FreshIn(q) : u = q[k].url
    BY <1>6 DEF FreshUrls
  <2>2. CASE k # 1
    <3>1. k \in Nat /\ k - 1 \in FreshIn(t)
      BY <1>4, <2>2
    <3>2. t[k - 1] = q[(k - 1) + 1] /\ (k - 1) + 1 = k
      BY <1>3, <3>1
    <3>3. t[k - 1].url = u
      BY <2>1, <3>2
    <3> QED
      BY <3>1, <3>3 DEF FreshUrls
  <2>3. CASE k = 1
    BY <1>2, <1>4, <2>1, <2>3
  <2> QED
    BY <2>2, <2>3
<1>7. FreshUrls(t) \subseteq FreshUrls(q)
  BY <1>3 DEF FreshUrls
<1>8. Head(q).event = "added" /\ EventsAt(q, "cleared") = {} => Head(q).url \in FreshUrls(q)
  BY <1>2, <1>5 DEF FreshUrls
<1>9. FreshUrls(q) = FreshUrls(t)
              \union (IF Head(q).event = "added" /\ EventsAt(q, "cleared") = {}
                      THEN {Head(q).url} ELSE {})
  BY <1>6, <1>7, <1>8
<1> QED
  BY <1>3, <1>4, <1>5, <1>9 DEF t

(* The urls of a site are finitely many, and so are those of any storage.  *)
LEMMA UrlsFinite ==
  ASSUME NEW S \in SUBSET Urls
  PROVE  IsFiniteSet(S) /\ Cardinality(S) \in Nat
<1> DEFINE f == [r \in Requests |-> PageUrl[r]]
<1>1. f \in Surjection(Requests, Urls)
  BY DEF Surjection, Urls
<1>2. IsFiniteSet(Urls)
  BY <1>1, StoreAssumption, FS_Surjection
<1> QED
  BY <1>2, FS_Subset, FS_CardinalityType

(* The pages, signals, turn and counters that ViewInv speaks about.        *)
viewVars == <<crawledStorage, mainQueue, sequencedStorage, turnaround, modelPc,
              modelControllerAcceptedLinksCount, sequencedDataCollectionLinksCount>>

(* Steps that touch neither the storages nor the signals between them.     *)
LEMMA ViewUntouched ==
  ASSUME ViewInv, UNCHANGED viewVars,
         mainPc' = "clearModel" <=> mainPc = "clearModel"
  PROVE  ViewInv'
BY DEF ViewInv, ViewSplit, FreshTurns, ViewCounters, viewVars

(* A page joins the model's storage and a signal says so.                  *)
LEMMA ViewAdd ==
  ASSUME PipelineTypeOK, TurnInv, ViewInv, modelAdd
  PROVE  ViewInv'
<1> DEFINE e == [event |-> "added", url |-> modelPc.url, turn |-> modelPc.turn]
           n == Len(mainQueue) + 1
<1>a. /\ mainQueue \in Seq(MainEvents) /\ turnaround \in Nat
      /\ crawledStorage \in SUBSET Urls /\ modelControllerAcceptedLinksCount \in Nat
  BY DEF PipelineTypeOK, MainShape, ModelShape
<1>b. /\ modelPc \in [call : {"add", "accept", "count"}, url : Urls, turn : Int]
      /\ modelPc # Idle /\ modelPc.call = "add"
  BY DEF modelAdd, PipelineTypeOK, ModelShape, Idle
<1>c. /\ crawledStorage' = crawledStorage \union {modelPc.url}
      /\ mainQueue' = Append(mainQueue, e)
      /\ modelPc' = [modelPc EXCEPT !.call = "accept"]
      /\ UNCHANGED <<mainPc, sequencedStorage, turnaround, modelControllerAcceptedLinksCount,
                     sequencedDataCollectionLinksCount>>
  BY DEF modelAdd, sharedVars
<1>d. e \in MainEvents /\ e.event = "added" /\ e.url = modelPc.url /\ e.turn = modelPc.turn
  BY <1>b DEF MainEvents
<1> HIDE DEF e
<1>e. /\ Len(mainQueue) \in Nat /\ FreshIn(mainQueue) \subseteq 1..Len(mainQueue)
      /\ EventsAt(mainQueue, "added") \subseteq 1..Len(mainQueue)
      /\ \A i \in 1..Len(mainQueue) : mainQueue'[i] = mainQueue[i]
      /\ mainQueue'[n] = e
      /\ EventsAt(mainQueue', "cleared") = EventsAt(mainQueue, "cleared")
      /\ EventsAt(mainQueue', "added") = EventsAt(mainQueue, "added") \union {n}
      /\ FreshIn(mainQueue') = FreshIn(mainQueue) \union {n}
      /\ FreshUrls(mainQueue') = FreshUrls(mainQueue) \union {modelPc.url}
  BY <1>a, <1>c, <1>d, FreshAppend
<1>f. modelPc.url \notin crawledStorage
  BY <1>b DEF ViewInv
<1>1. ViewSplit'
  <2>1. crawledStorage = Shown(mainQueue, sequencedStorage) \union FreshUrls(mainQueue)
        /\ Shown(mainQueue, sequencedStorage) \intersect FreshUrls(mainQueue) = {}
    BY DEF ViewInv, ViewSplit
  <2>2. Shown(mainQueue', sequencedStorage') = Shown(mainQueue, sequencedStorage)
    BY <1>c, <1>e DEF Shown
  <2>3. /\ crawledStorage' = Shown(mainQueue', sequencedStorage') \union FreshUrls(mainQueue')
        /\ Shown(mainQueue', sequencedStorage') \intersect FreshUrls(mainQueue') = {}
    BY <1>c, <1>e, <1>f, <2>1, <2>2
  <2>4. ASSUME NEW i \in FreshIn(mainQueue'), NEW j \in FreshIn(mainQueue'),
               mainQueue'[i].url = mainQueue'[j].url
        PROVE  i = j
    <3>1. \A k \in FreshIn(mainQueue) : mainQueue'[k] = mainQueue[k]
                                         /\ mainQueue[k].url \in crawledStorage
      BY <1>e, <2>1 DEF FreshUrls
    <3>2. mainQueue'[n].url \notin crawledStorage
      BY <1>d, <1>e, <1>f
    <3>3. \A k, l \in FreshIn(mainQueue) : mainQueue[k].url = mainQueue[l].url => k = l
      BY DEF ViewInv, ViewSplit
    <3> QED
      BY <1>e, <2>4, <3>1, <3>2, <3>3
  <2> QED
    BY <2>3, <2>4 DEF ViewSplit
<1>2. FreshTurns'
  <2>1. ASSUME NEW i \in EventsAt(mainQueue, "added")
        PROVE  /\ mainQueue'[i].turn <= turnaround'
               /\ mainQueue'[i].turn = turnaround' <=>
                    (i \in FreshIn(mainQueue') /\ mainPc' # "clearModel")
    <3>1. mainQueue'[i] = mainQueue[i] /\ (i \in FreshIn(mainQueue') <=> i \in FreshIn(mainQueue))
      BY <1>e
    <3> QED
      BY <1>c, <3>1 DEF ViewInv, FreshTurns
  <2>2. /\ mainQueue'[n].turn <= turnaround'
        /\ mainQueue'[n].turn = turnaround' <=> (n \in FreshIn(mainQueue') /\ mainPc' # "clearModel")
    <3>1. mainQueue'[n].turn = modelPc.turn /\ n \in FreshIn(mainQueue')
      BY <1>d, <1>e
    <3>2. /\ modelPc.turn <= turnaround /\ modelPc.turn \in Int
          /\ mainPc = "clearModel" => modelPc.turn <= turnaround - 1
      BY <1>a, <1>b DEF TurnInv
    <3>3. mainPc # "clearModel" => modelPc.turn = turnaround
      BY <1>b DEF ViewInv, ViewCounters
    <3> QED
      BY <1>a, <1>c, <3>1, <3>2, <3>3
  <2> QED
    BY <1>e, <2>1, <2>2 DEF FreshTurns
<1>3. ViewCounters'
  <2>1. IsFiniteSet(crawledStorage) /\ Cardinality(crawledStorage) \in Nat
    BY <1>a, UrlsFinite
  <2>2. Cardinality(crawledStorage') = Cardinality(crawledStorage) + 1
    BY <1>c, <1>f, <2>1, FS_AddElement
  <2>3. modelPc'.call = "accept" /\ modelPc'.turn = modelPc.turn
    BY <1>b, <1>c
  <2>4. mainPc # "clearModel" => modelControllerAcceptedLinksCount = Cardinality(crawledStorage)
    BY <1>a, <1>b DEF ViewInv, ViewCounters
  <2>5. mainPc # "clearModel" => modelPc.turn = turnaround
    BY <1>b DEF ViewInv, ViewCounters
  <2>6. mainPc # "clearModel" /\ EventsAt(mainQueue, "cleared") = {} =>
         sequencedDataCollectionLinksCount = Cardinality(sequencedStorage)
    BY DEF ViewInv, ViewCounters
  <2> QED
    BY <1>c, <1>e, <2>2, <2>3, <2>4, <2>5, <2>6 DEF ViewCounters
<1>4. modelPc'.call # "add"
  BY <1>b, <1>c
<1> QED
  BY <1>1, <1>2, <1>3, <1>4 DEF ViewInv

(* The model's storage is emptied, and a signal says so.                   *)
LEMMA ViewModelClear ==
  ASSUME PipelineTypeOK, ClearInv, TurnInv, ViewInv, modelClear
  PROVE  ViewInv'
<1> DEFINE e == [event |-> "cleared"]
<1>a. mainQueue \in Seq(MainEvents) /\ modelQueue \in Seq(ModelEvents)
  BY DEF PipelineTypeOK, MainShape, ModelShape
<1>b. e \in MainEvents /\ e.event = "cleared"
  BY DEF MainEvents
<1>c. /\ crawledStorage' = {} /\ mainQueue' = Append(mainQueue, e)
      /\ modelControllerAcceptedLinksCount' = 0 /\ modelPc' = Idle /\ modelPc = Idle
      /\ mainPc' = "clearStore" /\ UNCHANGED <<turnaround>>
  BY DEF modelClear, ModelEvent
<1>d. mainPc = "clearModel"
  BY <1>a, ClearHead DEF modelClear, ModelEvent
<1> HIDE DEF e
<1>e. /\ EventsAt(mainQueue, "added") \subseteq 1..Len(mainQueue)
      /\ \A i \in 1..Len(mainQueue) : mainQueue'[i] = mainQueue[i]
      /\ EventsAt(mainQueue', "cleared") # {}
      /\ EventsAt(mainQueue', "added") = EventsAt(mainQueue, "added")
      /\ FreshIn(mainQueue') = {} /\ FreshUrls(mainQueue') = {}
  BY <1>a, <1>b, <1>c, FreshAppend
<1>1. ViewSplit'
  BY <1>c, <1>e DEF ViewSplit, Shown
<1>2. FreshTurns'
  BY <1>c, <1>d, <1>e DEF FreshTurns, ViewInv
<1>3. ViewCounters'
  BY <1>c, <1>e, FS_EmptySet DEF ViewCounters, Idle
<1> QED
  BY <1>1, <1>2, <1>3, <1>c DEF ViewInv, Idle

(* The main thread takes a signal.                                         *)
LEMMA ViewTaken ==
  ASSUME PipelineTypeOK, ViewInv, MainQueue
  PROVE  ViewInv'
<1> DEFINE t == Tail(mainQueue)
           h == Head(mainQueue)
<1>a. /\ mainQueue \in Seq(MainEvents) /\ mainQueue # <<>> /\ mainPc = "idle" /\ mainPc' = "idle"
      /\ mainQueue' = t /\ turnaround \in Nat /\ sequencedStorage \in SUBSET Urls
      /\ sequencedDataCollectionLinksCount \in Nat
      /\ UNCHANGED <<crawledStorage, turnaround, modelPc, modelControllerAcceptedLinksCount>>
  BY DEF MainQueue, addParsedPage, onDataCleared, MainEvent, modelVars, PipelineTypeOK, MainShape
<1>b. /\ crawledStorage = Shown(mainQueue, sequencedStorage) \union FreshUrls(mainQueue)
      /\ Shown(mainQueue, sequencedStorage) \intersect FreshUrls(mainQueue) = {}
  BY DEF ViewInv, ViewSplit
<1>c. /\ \A i \in FreshIn(t) : i \in Nat /\ i # 0 /\ i + 1 \in FreshIn(mainQueue) /\ t[i] = mainQueue[i + 1]
      /\ \A k \in FreshIn(mainQueue) : k \in Nat /\ (k # 1 => k - 1 \in FreshIn(t))
      /\ 1 \in FreshIn(mainQueue) <=> (h.event = "added" /\ EventsAt(mainQueue, "cleared") = {})
      /\ FreshUrls(mainQueue) = FreshUrls(t)
              \union (IF h.event = "added" /\ EventsAt(mainQueue, "cleared") = {}
                      THEN {h.url} ELSE {})
  BY <1>a, FreshTail
<1>d. /\ \A i \in EventsAt(t, "added") :
           i \in Nat /\ i # 0 /\ i + 1 \in EventsAt(mainQueue, "added") /\ t[i] = mainQueue[i + 1]
      /\ \A i \in EventsAt(t, "cleared") : i \in Nat /\ i # 0 /\ i + 1 \in EventsAt(mainQueue, "cleared")
      /\ \A k \in EventsAt(mainQueue, "cleared") :
           \/ k = 1 /\ h.event = "cleared"
           \/ k # 1 /\ k - 1 \in EventsAt(t, "cleared")
      /\ h.event = "cleared" <=> 1 \in EventsAt(mainQueue, "cleared")
      /\ h.event = "added" <=> 1 \in EventsAt(mainQueue, "added")
      /\ h = mainQueue[1]
  BY <1>a, EventsShift
<1> HIDE DEF t, h
<1>e. ASSUME NEW i \in FreshIn(t), NEW j \in FreshIn(t), t[i].url = t[j].url
      PROVE  i = j
  <2>1. i + 1 = j + 1 /\ i \in Nat /\ j \in Nat
    BY <1>c, <1>e DEF ViewInv, ViewSplit
  <2> QED
    BY <2>1
<1>f. FreshTurns'
  <2>1. ASSUME NEW i \in EventsAt(t, "added")
        PROVE  /\ t[i].turn <= turnaround
               /\ t[i].turn = turnaround <=> i \in FreshIn(t)
    <3>1. /\ i \in Nat /\ i # 0 /\ i + 1 \in EventsAt(mainQueue, "added")
          /\ t[i] = mainQueue[i + 1]
      BY <1>d
    <3>2. i \in FreshIn(t) <=> i + 1 \in FreshIn(mainQueue)
      <4>1. i + 1 # 1 /\ (i + 1) - 1 = i
        BY <3>1
      <4> QED
        BY <1>c, <4>1
    <3> QED
      BY <1>a, <3>1, <3>2 DEF ViewInv, FreshTurns
  <2> QED
    BY <1>a, <2>1 DEF FreshTurns
<1>1. CASE h.event = "added" /\ EventsAt(mainQueue, "cleared") = {}
  <2>1. h.turn = turnaround
    BY <1>a, <1>c, <1>d, <1>1 DEF ViewInv, FreshTurns
  <2>2. /\ sequencedStorage' = sequencedStorage \union {h.url}
        /\ sequencedDataCollectionLinksCount' = sequencedDataCollectionLinksCount + 1
    BY <1>1, <2>1 DEF MainQueue, addParsedPage, onDataCleared, MainEvent, h
  <2>3. EventsAt(t, "cleared") = {}
    BY <1>d, <1>1
  <2>4. h.url \notin FreshUrls(t)
    <3> SUFFICES ASSUME NEW i \in FreshIn(t), t[i].url = h.url PROVE FALSE
      BY DEF FreshUrls
    <3>1. i + 1 \in FreshIn(mainQueue) /\ mainQueue[i + 1].url = mainQueue[1].url /\ 1 \in FreshIn(mainQueue)
      BY <1>c, <1>d, <1>1
    <3>2. i + 1 = 1 /\ i \in Nat /\ i # 0
      BY <1>c, <3>1 DEF ViewInv, ViewSplit
    <3> QED
      BY <3>2
  <2>5. h.url \notin sequencedStorage
    BY <1>b, <1>c, <1>1 DEF Shown
  <2>6. IsFiniteSet(sequencedStorage) /\ Cardinality(sequencedStorage) \in Nat
    BY <1>a, UrlsFinite
  <2>7. Cardinality(sequencedStorage') = Cardinality(sequencedStorage) + 1
    BY <2>2, <2>5, <2>6, FS_AddElement
  <2>8. sequencedDataCollectionLinksCount = Cardinality(sequencedStorage)
    BY <1>a, <1>1 DEF ViewInv, ViewCounters
  <2>9. ViewSplit'
    BY <1>a, <1>b, <1>c, <1>e, <1>1, <2>2, <2>3, <2>4 DEF ViewSplit, Shown
  <2>10. ViewCounters'
    BY <1>a, <2>2, <2>7, <2>8 DEF ViewInv, ViewCounters
  <2> QED
    BY <1>a, <1>f, <2>9, <2>10 DEF ViewInv
<1>2. CASE h.event = "added" /\ EventsAt(mainQueue, "cleared") # {}
  <2>1. h.turn # turnaround
    BY <1>a, <1>c, <1>d, <1>2 DEF ViewInv, FreshTurns
  <2>2. UNCHANGED <<sequencedStorage, sequencedDataCollectionLinksCount>>
    BY <1>2, <2>1 DEF MainQueue, addParsedPage, onDataCleared, MainEvent, h
  <2>3. EventsAt(t, "cleared") # {}
    BY <1>d, <1>2
  <2>4. FreshUrls(t) = FreshUrls(mainQueue)
    BY <1>c, <1>2
  <2>5. ViewSplit'
    BY <1>a, <1>b, <1>e, <1>2, <2>2, <2>3, <2>4 DEF ViewSplit, Shown
  <2>6. ViewCounters'
    BY <1>a, <2>3 DEF ViewInv, ViewCounters
  <2> QED
    BY <1>a, <1>f, <2>5, <2>6 DEF ViewInv
<1>3. CASE h.event = "cleared"
  <2>1. sequencedStorage' = {} /\ sequencedDataCollectionLinksCount' = 0
    BY <1>3 DEF MainQueue, addParsedPage, onDataCleared, MainEvent, h
  <2>2. EventsAt(mainQueue, "cleared") # {}
    BY <1>d, <1>3
  <2>3. FreshUrls(t) = FreshUrls(mainQueue)
    BY <1>c, <1>3
  <2>4. ViewSplit'
    BY <1>a, <1>b, <1>e, <2>1, <2>2, <2>3 DEF ViewSplit, Shown
  <2>5. ViewCounters'
    BY <1>a, <2>1, FS_EmptySet DEF ViewInv, ViewCounters
  <2> QED
    BY <1>a, <1>f, <2>4, <2>5 DEF ViewInv
<1> QED
  BY <1>1, <1>2, <1>3 DEF MainQueue, addParsedPage, onDataCleared, MainEvent, h

(* Every step keeps the view and the model together.                       *)
LEMMA ViewKept ==
  ASSUME PipelineTypeOK, ClearInv, ControlInv, TurnInv, ViewInv,
         [Next]_pipelineVars \/ ClearBegins
  PROVE  ViewInv'
<1>a. /\ mainQueue \in Seq(MainEvents) /\ modelQueue \in Seq(ModelEvents)
      /\ turnaround \in Nat /\ crawledStorage \in SUBSET Urls
      /\ modelControllerAcceptedLinksCount \in Nat
  BY DEF PipelineTypeOK, MainShape, ModelShape
<1>1. CASE ClearBegins
  <2>1. /\ mainPc = "idle" /\ mainPc' = "clearModel" /\ turnaround' = turnaround + 1
        /\ UNCHANGED <<mainQueue, sequencedStorage, modelPc, crawledStorage>>
    BY <1>1 DEF ClearBegins, clearDataImpl
  <2>2. ViewSplit'
    BY <2>1 DEF ViewInv, ViewSplit
  <2>3. FreshTurns'
    <3>1. \A i \in EventsAt(mainQueue, "added") : mainQueue[i].turn \in Int
      BY <1>a DEF EventsAt, MainEvents
    <3> QED
      BY <1>a, <2>1, <3>1 DEF ViewInv, FreshTurns
  <2> QED
    BY <2>1, <2>2, <2>3 DEF ViewInv, ViewCounters
<1>2. CASE modelAdd
  BY <1>2, ViewAdd
<1>3. CASE modelClear
  BY <1>3, ViewModelClear
<1>4. CASE MainQueue
  BY <1>4, ViewTaken
<1>5. CASE handleWorkerResult
  <2> DEFINE result == Head(modelQueue)
  <2>1. /\ modelPc = Idle
        /\ modelPc' = IF ~AcceptsResult(result) THEN Idle
                  ELSE [call |-> IF result.page \in Filtered
                                    \/ PageUrl[result.page] \in crawledStorage
                                 THEN "count" ELSE "add",
                        url |-> PageUrl[result.page], turn |-> result.turn]
        /\ UNCHANGED <<mainPc, mainQueue, sequencedStorage, turnaround, crawledStorage,
                       modelControllerAcceptedLinksCount, sequencedDataCollectionLinksCount>>
    BY <1>5 DEF handleWorkerResult, ModelEvent, mainVars, sharedVars
  <2> HIDE DEF result
  <2>2. /\ modelPc.call # "accept" /\ modelPc'.call # "accept"
        /\ modelPc' # Idle => modelPc'.turn = turnaround
        /\ modelPc'.call = "add" => modelPc'.url \notin crawledStorage
    BY <2>1 DEF Idle, AcceptsResult
  <2>3. ViewSplit' /\ FreshTurns'
    BY <2>1 DEF ViewInv, ViewSplit, FreshTurns
  <2>4. ViewCounters'
    <3>1. mainPc # "clearModel" =>
            /\ modelControllerAcceptedLinksCount + 0 = Cardinality(crawledStorage)
            /\ EventsAt(mainQueue, "cleared") = {} =>
                 sequencedDataCollectionLinksCount = Cardinality(sequencedStorage)
      BY <2>2 DEF ViewInv, ViewCounters
    <3> QED
      BY <2>1, <2>2, <3>1 DEF ViewCounters, Idle
  <2> QED
    BY <2>1, <2>2, <2>3, <2>4 DEF ViewInv
<1>6. CASE modelAccept
  <2>1. /\ modelPc \in [call : {"add", "accept", "count"}, url : Urls, turn : Int]
        /\ modelPc # Idle /\ modelPc.call = "accept"
    BY <1>6 DEF modelAccept, PipelineTypeOK, ModelShape, Idle
  <2>2. /\ modelControllerAcceptedLinksCount' = modelControllerAcceptedLinksCount + 1
        /\ modelPc' = [modelPc EXCEPT !.call = "count"]
        /\ UNCHANGED <<mainPc, mainQueue, sequencedStorage, turnaround, crawledStorage,
                       sequencedDataCollectionLinksCount>>
    BY <1>6 DEF modelAccept, mainVars
  <2>3. modelPc'.call = "count" /\ modelPc'.turn = modelPc.turn
    BY <2>1, <2>2
  <2>4. ViewSplit' /\ FreshTurns'
    BY <2>2 DEF ViewInv, ViewSplit, FreshTurns
  <2>5. ViewCounters'
    BY <1>a, <2>1, <2>2, <2>3 DEF ViewInv, ViewCounters
  <2> QED
    BY <2>3, <2>4, <2>5 DEF ViewInv
<1>7. CASE modelCount
  <2>1. /\ modelPc.call = "count" /\ modelPc' = Idle
        /\ UNCHANGED <<mainPc, mainQueue, sequencedStorage, turnaround, crawledStorage,
                       modelControllerAcceptedLinksCount, sequencedDataCollectionLinksCount>>
    BY <1>7 DEF modelCount, mainVars
  <2>2. ViewSplit' /\ FreshTurns'
    BY <2>1 DEF ViewInv, ViewSplit, FreshTurns
  <2>3. ViewCounters'
    BY <1>a, <2>1 DEF ViewInv, ViewCounters, Idle
  <2> QED
    BY <2>1, <2>2, <2>3 DEF ViewInv, Idle
<1>8. ASSUME NEW w \in Workers, Worker(w) \/ LoadingDone(w), ~ClearBegins
      PROVE  ViewInv'
  <2>1. UNCHANGED viewVars
    BY <1>8 DEF Worker, ExtractDue, LoadingDone, onLoadingDone, start, stop, workerClear, extract,
       addLinks, emitResult, count, claimHop, claimBlocked, modelVars, mainVars, sharedVars, viewVars
  <2>2. mainPc' = "clearModel" <=> mainPc = "clearModel"
    <3>1. ~modelClear \/ mainPc' = "clearStore"
      BY DEF modelClear
    <3>2. mainPc = "clearModel" => mainPc' = "clearModel"
      <4>1. CASE stop(w)
        <5>1. workerQueue[w] \in Seq(WorkerEvents) /\ workerQueue[w] # <<>>
                /\ Head(workerQueue[w]).event = "stop"
          BY <4>1 DEF stop, Receives, PipelineTypeOK, WorkerShape
        <5>2. Stops(w) # {}
          BY <5>1, StopTail DEF Stops
        <5> QED
          BY <5>2 DEF ControlInv, Stopping
      <4>2. CASE ~stop(w)
        BY <1>8, <4>2 DEF Worker, ExtractDue, LoadingDone, onLoadingDone, start, workerClear, extract,
           addLinks, emitResult, count, claimHop, claimBlocked, mainVars
      <4> QED
        BY <4>1, <4>2
    <3>3. [Next]_pipelineVars
      BY <1>8 DEF Next
    <3> QED
      BY <1>8, <3>2, <3>3, ClearingBegins
  <2> QED
    BY <2>1, <2>2, ViewUntouched
<1>9. CASE onAboutCrawlingState \/ loadCounter \/ decideCrawlingEnded \/ crawlerFinished
             \/ clearStore \/ startCrawling \/ stopCrawling
  <2>1. UNCHANGED viewVars
    BY <1>9 DEF onAboutCrawlingState, loadCounter, decideCrawlingEnded, crawlerFinished, clearStore,
       startCrawling, stopCrawling, modelVars, mainVars, sharedVars, viewVars
  <2>2. mainPc' # "clearModel" /\ mainPc # "clearModel"
    BY <1>9 DEF onAboutCrawlingState, loadCounter, decideCrawlingEnded, crawlerFinished, clearStore,
       startCrawling, stopCrawling, BeginStop
  <2> QED
    BY <2>1, <2>2, ViewUntouched
<1>10. CASE UNCHANGED pipelineVars
  BY <1>10, ViewUntouched DEF pipelineVars, mainVars, sharedVars, modelVars, viewVars
<1>11. CASE clearData
  BY <1>1, <1>11 DEF clearData, ClearBegins
<1> QED
  BY <1>1, <1>2, <1>3, <1>4, <1>5, <1>6, <1>7, <1>8, <1>9, <1>10, <1>11
     DEF Next, User, MainStep, Model, AtRest

(* Both hold at first.                                                     *)
LEMMA ViewInit == Init => TurnInv /\ ViewInv
<1> SUFFICES ASSUME Init PROVE TurnInv /\ ViewInv
  OBVIOUS
<1>1. TurnInv
  <2>1. TurnsUpTo(turnaround) /\ ~Clearing /\ modelPc = Idle
    BY DEF Init, TurnsUpTo, Clearing, Within, EventsAt, NoJob
  <2> QED
    BY <2>1 DEF TurnInv
<1>2. ViewInv
  <2>1. EventsAt(mainQueue, "added") = {} /\ EventsAt(mainQueue, "cleared") = {}
    BY DEF Init, EventsAt
  <2>2. FreshIn(mainQueue) = {} /\ FreshUrls(mainQueue) = {}
    BY <2>1 DEF FreshIn, FreshUrls
  <2>3. ViewSplit /\ FreshTurns
    BY <2>1, <2>2 DEF Init, ViewSplit, FreshTurns, Shown
  <2>4. ViewCounters
    BY FS_EmptySet DEF Init, ViewCounters, Idle
  <2> QED
    BY <2>3, <2>4 DEF Init, ViewInv, Idle
<1> QED
  BY <1>1, <1>2

(* No clear waits in the view's queue: then what is under way is fresh.    *)
LEMMA ViewAgrees == PipelineTypeOK /\ ViewInv => ViewMatchesModel
<1> SUFFICES ASSUME PipelineTypeOK, ViewInv, mainPc \notin {"clearModel", "clearStore"},
                    Counted(mainQueue, "cleared") = 0
             PROVE  LET underWay == {i \in DOMAIN mainQueue : mainQueue[i].turn = turnaround} IN
       /\ crawledStorage = sequencedStorage
            \union {mainQueue[i].url : i \in underWay}
       /\ modelControllerAcceptedLinksCount + (IF modelPc.call = "accept" THEN 1 ELSE 0)
            = Cardinality(crawledStorage)
       /\ sequencedDataCollectionLinksCount = Cardinality(sequencedStorage)
  BY DEF ViewMatchesModel
<1> DEFINE underWay == {i \in DOMAIN mainQueue : mainQueue[i].turn = turnaround}
<1>1. mainQueue \in Seq(MainEvents)
  BY DEF PipelineTypeOK, MainShape
<1>2. EventsAt(mainQueue, "cleared") = {}
  <2>1. Len(mainQueue) \in Nat /\ EventsAt(mainQueue, "cleared") \subseteq 1..Len(mainQueue)
    BY <1>1 DEF EventsAt
  <2>2. IsFiniteSet(EventsAt(mainQueue, "cleared"))
    <3>1. IsFiniteSet(1..Len(mainQueue))
      BY <2>1, FS_Interval
    <3> QED
      BY <2>1, <3>1, FS_Subset
  <2> QED
    BY <2>2, FS_EmptySet DEF Counted
<1>3. underWay = FreshIn(mainQueue)
  <2>1. \A i \in DOMAIN mainQueue : i \in EventsAt(mainQueue, "added")
    <3>1. \A i \in DOMAIN mainQueue : mainQueue[i] \in MainEvents
      BY <1>1
    <3> QED
      BY <1>2, <3>1 DEF EventsAt, MainEvents
  <2>2. FreshIn(mainQueue) = EventsAt(mainQueue, "added")
    BY <1>2 DEF FreshIn
  <2>3. \A i \in EventsAt(mainQueue, "added") : i \in DOMAIN mainQueue
    BY DEF EventsAt
  <2>4. \A i \in EventsAt(mainQueue, "added") : mainQueue[i].turn = turnaround
    BY <2>2 DEF ViewInv, FreshTurns
  <2> QED
    BY <2>1, <2>2, <2>3, <2>4
<1>4. {mainQueue[i].url : i \in underWay} = FreshUrls(mainQueue)
  BY <1>3 DEF FreshUrls
<1> QED
  BY <1>2, <1>4 DEF ViewInv, ViewSplit, ViewCounters, Shown

(* The view and the model agree on the pages of the current crawl, save    *)
(* for the signals on their way, for any site and any clears.              *)
THEOREM ViewFollowsModel == Spec => []ViewMatchesModel
<1>1. Init => TurnInv /\ ViewInv
  BY ViewInit
<1>2. /\ PipelineTypeOK /\ ClearInv /\ ControlInv
      /\ TurnInv /\ ViewInv /\ [Next]_pipelineVars
      => (TurnInv /\ ViewInv)'
  BY TurnKept, ViewKept
<1> QED
  BY <1>1, <1>2, PipelineTypeCorrect, StopControl, ViewAgrees, PTL DEF Spec

=============================================================================
