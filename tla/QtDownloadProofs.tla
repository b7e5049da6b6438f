-------------------------- MODULE QtDownloadProofs --------------------------
(***************************************************************************)
(* What QtDownload's properties say holds for any requests, any urls, any  *)
(* limits of redirects and any number of changes of the options. Only      *)
(* EveryRequestAnswered, which supposes fairness, is left to the runs.     *)
(*                                                                         *)
(* The inductive invariant says where each request is: it queues, or it is *)
(* active, or it was answered, once; and it has no hops before it is       *)
(* active. Every step is one of seven kinds (StepKinds): whatever ends a   *)
(* reply ends it by Respond or by followRedirect.                          *)
(***************************************************************************)

EXTENDS QtDownload, FiniteSetTheorems, TLAPS

Answered == {r \in Requests : answers[r] = 1}

(* A request is in one place.                                              *)
InOnePlace ==
  /\ \A i, j \in DOMAIN requesterQueue :
       requesterQueue[i] = requesterQueue[j] => i = j
  /\ Queued \intersect activeRequests = {}
  /\ (Queued \union activeRequests) \intersect Answered = {}
  /\ asked = Queued \union activeRequests \union Answered
  /\ \A r \in Requests : answers[r] \in {0, 1}

HopsAfterLoad ==
  \A r \in Requests \ activeRequests : answers[r] = 0 => hopsChain[r] = <<>>

QtInv == QtTypeOK /\ InOnePlace /\ HopsAfterLoad /\ RedirectLimitKept

-----------------------------------------------------------------------------
(***************************************************************************)
(* Sequences, and the kinds of steps.                                      *)
(***************************************************************************)

(* A queue with one more element at its end.                               *)
LEMMA Appended ==
  ASSUME NEW T, NEW q \in Seq(T), NEW e \in T, e \notin {q[i] : i \in DOMAIN q},
         \A i, j \in DOMAIN q : q[i] = q[j] => i = j
  PROVE  /\ {Append(q, e)[i] : i \in DOMAIN Append(q, e)}
              = {q[i] : i \in DOMAIN q} \union {e}
         /\ \A i, j \in DOMAIN Append(q, e) : Append(q, e)[i] = Append(q, e)[j] => i = j
<1> DEFINE a == Append(q, e)
<1>1. /\ a \in Seq(T) /\ DOMAIN q = 1..Len(q) /\ DOMAIN a = 1..(Len(q) + 1)
      /\ Len(q) \in Nat /\ a[Len(q) + 1] = e
      /\ \A i \in 1..Len(q) : a[i] = q[i]
  OBVIOUS
<1> HIDE DEF a
<1>2. {a[i] : i \in DOMAIN a} = {q[i] : i \in DOMAIN q} \union {e}
  <2>1. \A x : x \in {a[i] : i \in DOMAIN a} <=> x \in {q[i] : i \in DOMAIN q} \union {e}
    BY <1>1
  <2> QED
    BY <2>1
<1>3. ASSUME NEW i \in DOMAIN a, NEW j \in DOMAIN a, a[i] = a[j]
      PROVE  i = j
  BY <1>1, <1>3
<1> QED
  BY <1>1, <1>2, <1>3 DEF a

(* A queue without its first element.                                      *)
LEMMA Taken ==
  ASSUME NEW T, NEW q \in Seq(T), q # <<>>,
         \A i, j \in DOMAIN q : q[i] = q[j] => i = j
  PROVE  /\ Head(q) \in T /\ Tail(q) \in Seq(T)
         /\ Head(q) \in {q[i] : i \in DOMAIN q}
         /\ {Tail(q)[i] : i \in DOMAIN Tail(q)} = {q[i] : i \in DOMAIN q} \ {Head(q)}
         /\ \A i, j \in DOMAIN Tail(q) : Tail(q)[i] = Tail(q)[j] => i = j
<1> DEFINE t == Tail(q)
<1>1. /\ t \in Seq(T) /\ DOMAIN q = 1..Len(q) /\ DOMAIN t = 1..(Len(q) - 1)
      /\ Len(q) \in Nat /\ Len(q) >= 1 /\ Head(q) = q[1] /\ Head(q) \in T
      /\ \A i \in 1..(Len(q) - 1) : t[i] = q[i + 1]
  OBVIOUS
<1> HIDE DEF t
<1>2. {t[i] : i \in DOMAIN t} = {q[i] : i \in DOMAIN q} \ {Head(q)}
  <2>1. ASSUME NEW i \in DOMAIN t PROVE t[i] \in {q[k] : k \in DOMAIN q} \ {Head(q)}
    <3>1. i + 1 \in DOMAIN q /\ 1 \in DOMAIN q /\ i + 1 # 1 /\ t[i] = q[i + 1]
      BY <1>1
    <3> QED
      BY <1>1, <3>1
  <2>2. ASSUME NEW k \in DOMAIN q, q[k] # Head(q) PROVE q[k] \in {t[i] : i \in DOMAIN t}
    <3>1. k - 1 \in DOMAIN t /\ t[k - 1] = q[k]
      BY <1>1, <2>2
    <3> QED
      BY <3>1
  <2> QED
    BY <2>1, <2>2
<1>3. ASSUME NEW i \in DOMAIN t, NEW j \in DOMAIN t, t[i] = t[j] PROVE i = j
  <2>1. i + 1 \in DOMAIN q /\ j + 1 \in DOMAIN q /\ q[i + 1] = q[j + 1]
    BY <1>1, <1>3
  <2>2. i + 1 = j + 1
    BY <2>1
  <2> QED
    BY <1>1, <2>2
<1>4. Head(q) \in {q[i] : i \in DOMAIN q}
  <2>1. 1 \in DOMAIN q
    BY <1>1
  <2> QED
    BY <1>1, <2>1
<1> QED
  BY <1>1, <1>2, <1>3, <1>4 DEF t

(* The same of the queue of the requesters.                                *)
LEMMA QueueAppended ==
  ASSUME QtTypeOK, InOnePlace, NEW r \in Requests \ Queued,
         requesterQueue' = Append(requesterQueue, r)
  PROVE  /\ Queued' = Queued \union {r}
         /\ \A i, j \in DOMAIN requesterQueue' :
              requesterQueue'[i] = requesterQueue'[j] => i = j
<1>1. /\ requesterQueue \in Seq(Requests) /\ r \in Requests
      /\ r \notin {requesterQueue[i] : i \in DOMAIN requesterQueue}
      /\ \A i, j \in DOMAIN requesterQueue :
           requesterQueue[i] = requesterQueue[j] => i = j
  BY DEF QtTypeOK, Queued, InOnePlace
<1>2. /\ {Append(requesterQueue, r)[i] : i \in DOMAIN Append(requesterQueue, r)}
            = {requesterQueue[i] : i \in DOMAIN requesterQueue} \union {r}
      /\ \A i, j \in DOMAIN Append(requesterQueue, r) :
           Append(requesterQueue, r)[i] = Append(requesterQueue, r)[j] => i = j
  BY <1>1, Appended, Zenon
<1> QED
  BY <1>2, Zenon DEF Queued

(* A request taken from the head of the queue.                             *)
LEMMA QueueTaken ==
  ASSUME QtTypeOK, InOnePlace, requesterQueue # <<>>,
         requesterQueue' = Tail(requesterQueue)
  PROVE  /\ Head(requesterQueue) \in Queued /\ Head(requesterQueue) \in Requests
         /\ Queued' = Queued \ {Head(requesterQueue)}
         /\ \A i, j \in DOMAIN requesterQueue' :
              requesterQueue'[i] = requesterQueue'[j] => i = j
<1>1. requesterQueue \in Seq(Requests)
  BY DEF QtTypeOK
<1>2. \A i, j \in DOMAIN requesterQueue : requesterQueue[i] = requesterQueue[j] => i = j
  BY DEF InOnePlace
<1>3. /\ Head(requesterQueue) \in Requests
      /\ Head(requesterQueue) \in {requesterQueue[i] : i \in DOMAIN requesterQueue}
      /\ {Tail(requesterQueue)[i] : i \in DOMAIN Tail(requesterQueue)}
            = {requesterQueue[i] : i \in DOMAIN requesterQueue} \ {Head(requesterQueue)}
      /\ \A i, j \in DOMAIN Tail(requesterQueue) :
           Tail(requesterQueue)[i] = Tail(requesterQueue)[j] => i = j
  BY <1>1, <1>2, Taken, Zenon
<1> QED
  BY <1>3, Zenon DEF Queued

(* What is not in a queued call's way stays as it is. *)
AllButCalls == <<requesterQueue, activeRequests, hopsChain, replyVars, unprocessed,
                 activeReplies, optionVars, asked, answers, overtaken>>

Continues(r) ==
  /\ r \in unprocessed /\ header[r] \in Urls /\ ~TooManyRedirections(r)
  /\ urlsInChain(r, header[r]) <= 2 /\ followRedirect(r)

SetOptions ==
  \/ \E on \in BOOLEAN : setPauseRange(on) \/ setTimeout(on)
  \/ \E redirects \in Redirects : setMaxRedirects(redirects)

(* Whatever ends a reply, the request is answered or goes on.              *)
LEMMA StepKinds ==
  ASSUME QtTypeOK, [Next]_downloadVars
  PROVE  \/ \E r \in Requests : handleRequest(r)
         \/ onTimerTicked
         \/ \E r \in Requests : headersArrive(r)
         \/ \E r \in Requests : Continues(r)
         \/ \E S \in SUBSET unprocessed :
              Respond(S) /\ metaDataCalls' \subseteq metaDataCalls
         \/ UNCHANGED AllButCalls /\ metaDataCalls' \subseteq metaDataCalls
         \/ SetOptions
<1>1. ASSUME NEW r \in Requests, urlDownloaded(r)
      PROVE  \/ Continues(r)
             \/ Respond({r}) /\ UNCHANGED metaDataCalls /\ r \in unprocessed
  BY <1>1 DEF urlDownloaded, Followed, Continues
<1>2. ASSUME NEW r \in Requests, NEW n \in 1..replyNumber[r], metaDataChanged(r, n)
      PROVE  /\ metaDataCalls' \subseteq metaDataCalls
             /\ \/ Respond({r}) /\ r \in unprocessed
                \/ UNCHANGED AllButCalls
  BY <1>2 DEF metaDataChanged, isReplyProcessed, AllButCalls
<1>3. ASSUME NEW S \in SUBSET activeReplies, onTimeoutTimerTicked(S)
      PROVE  Respond(S) /\ UNCHANGED metaDataCalls /\ S \in SUBSET unprocessed
  BY <1>3 DEF onTimeoutTimerTicked, QtTypeOK
<1>4. CASE UNCHANGED downloadVars
  BY <1>4 DEF downloadVars, AllButCalls
<1>5. CASE \E r \in Requests : urlDownloaded(r)
  <2>1. PICK r \in Requests : urlDownloaded(r)
    BY <1>5
  <2> QED
    BY <1>1, <2>1
<1>6. CASE \E r \in Requests : \E n \in 1..replyNumber[r] : metaDataChanged(r, n)
  <2>0. PICK r \in Requests : \E n \in 1..replyNumber[r] : metaDataChanged(r, n)
    BY <1>6
  <2>1. PICK n \in 1..replyNumber[r] : metaDataChanged(r, n)
    BY <2>0
  <2>2. r \in unprocessed => {r} \in SUBSET unprocessed
    OBVIOUS
  <2> QED
    BY <1>2, <2>1, <2>2
<1>7. CASE \E S \in SUBSET activeReplies : onTimeoutTimerTicked(S)
  BY <1>3, <1>7
<1> QED
  BY <1>4, <1>5, <1>6, <1>7 DEF Next, SetOptions

-----------------------------------------------------------------------------
(***************************************************************************)
(* The invariant.                                                          *)
(***************************************************************************)

LEMMA TypeStep ==
  ASSUME QtInv, [Next]_downloadVars
  PROVE  QtTypeOK'
<1> USE DownloadAssumption DEF QtInv, QtTypeOK, replyVars, optionVars
<1>1. ASSUME NEW r \in Requests, load(r)
      PROVE  /\ activeRequests' \subseteq Requests
             /\ replyNumber' \in [Requests -> Nat]
             /\ unprocessed' = activeRequests'
             /\ activeReplies' \subseteq Timed
             /\ activeReplies' = unprocessed' \intersect Timed
  BY <1>1 DEF load
<1>2. ASSUME NEW r \in Requests, handleRequest(r) PROVE QtTypeOK'
  <2>1. CASE load(r) /\ UNCHANGED requesterQueue
    BY <1>1, <1>2, <2>1 DEF handleRequest, load
  <2>2. CASE requesterQueue' = Append(requesterQueue, r)
    BY <1>2, <2>2 DEF handleRequest, load
  <2> QED
    BY <1>2, <2>1, <2>2 DEF handleRequest
<1>3. CASE onTimerTicked
  <2>1. Head(requesterQueue) \in Requests /\ requesterQueue' \in Seq(Requests)
    BY <1>3, Taken DEF onTimerTicked, InOnePlace
  <2> QED
    BY <1>1, <1>3, <2>1 DEF onTimerTicked, load
<1>4. ASSUME NEW r \in Requests, headersArrive(r) PROVE QtTypeOK'
  <2>1. header' \in [Requests -> Headers \union Urls]
    BY <1>4 DEF headersArrive
  <2>2. metaDataCalls' \subseteq Requests \X Nat
    BY <1>4 DEF headersArrive
  <2> QED
    BY <1>4, <2>1, <2>2 DEF headersArrive
<1>5. ASSUME NEW r \in Requests, Continues(r) PROVE QtTypeOK'
  <2>1. /\ hopsChain' \in [Requests -> Seq(Urls)]
        /\ replyUrl' \in [Requests -> Urls] /\ replyNumber' \in [Requests -> Nat]
        /\ header' \in [Requests -> Headers \union Urls]
    BY <1>5 DEF Continues, followRedirect, Headers
  <2> QED
    BY <1>5, <2>1 DEF Continues, followRedirect
<1>6. ASSUME NEW S \in SUBSET unprocessed, Respond(S), metaDataCalls' \subseteq metaDataCalls
      PROVE  QtTypeOK'
  <2>1. hopsChain' \in [Requests -> Seq(Urls)] /\ answers' \in [Requests -> Nat]
    BY <1>6 DEF Respond
  <2> QED
    BY <1>6, <2>1 DEF Respond
<1>7. CASE UNCHANGED AllButCalls /\ metaDataCalls' \subseteq metaDataCalls
  BY <1>7 DEF AllButCalls
<1>8. CASE SetOptions
  BY <1>8 DEF SetOptions, setPauseRange, setTimeout, setMaxRedirects, AtStart
<1> QED
  BY <1>2, <1>3, <1>4, <1>5, <1>6, <1>7, <1>8, StepKinds

(* Every step leaves a request in at most one place.                       *)
LEMMA PlaceStep ==
  ASSUME QtInv, [Next]_downloadVars
  PROVE  InOnePlace' /\ HopsAfterLoad'
<1> USE DEF QtInv, QtTypeOK, InOnePlace, HopsAfterLoad, Queued, Answered, replyVars, optionVars
<1>1. ASSUME NEW r \in Requests, handleRequest(r) PROVE InOnePlace' /\ HopsAfterLoad'
  <2>1. r \notin Queued /\ r \notin activeRequests /\ r \notin Answered
    BY <1>1 DEF handleRequest
  <2>2. CASE load(r) /\ UNCHANGED requesterQueue
    BY <1>1, <2>1, <2>2 DEF handleRequest, load
  <2>3. CASE /\ requesterQueue' = Append(requesterQueue, r)
             /\ UNCHANGED <<activeRequests, hopsChain, answers>>
    <3>1. /\ Queued' = Queued \union {r}
          /\ \A i, j \in DOMAIN requesterQueue' :
               requesterQueue'[i] = requesterQueue'[j] => i = j
      BY <1>1, <2>1, <2>3, QueueAppended
    <3> HIDE DEF Queued
    <3>2. /\ UNCHANGED <<activeRequests, hopsChain, answers>> /\ asked' = asked \union {r}
      BY <1>1, <2>3 DEF handleRequest
    <3> QED
      BY <2>1, <3>1, <3>2
  <2> QED
    BY <1>1, <2>2, <2>3 DEF handleRequest
<1>2. CASE onTimerTicked
  <2>1. /\ Head(requesterQueue) \in Queued /\ Head(requesterQueue) \in Requests
        /\ Queued' = Queued \ {Head(requesterQueue)}
        /\ \A i, j \in DOMAIN requesterQueue' :
             requesterQueue'[i] = requesterQueue'[j] => i = j
    BY <1>2, QueueTaken DEF onTimerTicked
  <2> HIDE DEF Queued
  <2>2. /\ activeRequests' = activeRequests \union {Head(requesterQueue)}
        /\ UNCHANGED <<hopsChain, answers, asked>>
    BY <1>2 DEF onTimerTicked, load
  <2> QED
    BY <2>1, <2>2
<1>3. ASSUME NEW r \in Requests, Continues(r) PROVE InOnePlace' /\ HopsAfterLoad'
  <2>1. /\ r \in activeRequests
        /\ UNCHANGED <<requesterQueue, activeRequests, answers, asked>>
        /\ hopsChain' = [hopsChain EXCEPT ![r] = Append(@, replyUrl[r])]
    BY <1>3 DEF Continues, followRedirect
  <2>2. \A q \in Requests \ activeRequests : hopsChain'[q] = hopsChain[q]
    BY <2>1
  <2> QED
    BY <2>1, <2>2
<1>4. ASSUME NEW S \in SUBSET unprocessed, Respond(S) PROVE InOnePlace' /\ HopsAfterLoad'
  <2>1. /\ S \subseteq activeRequests /\ activeRequests' = activeRequests \ S
        /\ UNCHANGED <<requesterQueue, asked>>
        /\ \A r \in S : answers'[r] = answers[r] + 1
        /\ \A r \in Requests \ S : answers'[r] = answers[r] /\ hopsChain'[r] = hopsChain[r]
    BY <1>4 DEF Respond
  <2>2. \A r \in S : answers[r] = 0 /\ answers'[r] = 1
    BY <2>1
  <2>3. Answered' = Answered \union S
    BY <2>1, <2>2
  <2>4. Queued' = Queued
    BY <2>1
  <2>5. InOnePlace'
    <3>1. \A r \in Requests : answers'[r] \in {0, 1}
      BY <2>1, <2>2
    <3> HIDE DEF Answered, Queued
    <3> QED
      BY <2>1, <2>3, <2>4, <3>1
  <2>6. HopsAfterLoad'
    BY <2>1, <2>2
  <2> QED
    BY <2>5, <2>6
<1>5. CASE UNCHANGED <<requesterQueue, activeRequests, hopsChain, answers, asked>>
  BY <1>5
<1> QED
  BY <1>1, <1>2, <1>3, <1>4, <1>5, StepKinds
     DEF AllButCalls, SetOptions, setPauseRange, setTimeout, setMaxRedirects, AtStart,
         headersArrive

(* Every step leaves the hops of a request within its limit.               *)
LEMMA LimitStep ==
  ASSUME QtInv, [Next]_downloadVars
  PROVE  RedirectLimitKept'
<1> USE DownloadAssumption DEF QtInv, QtTypeOK, RedirectLimitKept, replyVars, optionVars
<1>0. /\ \A r \in Requests : Len(hopsChain[r]) \in Nat
      /\ maxRedirects \in Nat /\ activeRequests \subseteq Requests
  OBVIOUS
<1>1. ASSUME NEW r \in Requests, r \notin activeRequests, answers[r] = 0, load(r)
      PROVE  RedirectLimitKept'
  <2>1. Len(hopsChain[r]) = 0
    BY <1>1 DEF HopsAfterLoad
  <2> QED
    BY <1>0, <1>1, <2>1 DEF load
<1>2. CASE \E r \in Requests : handleRequest(r)
  <2>1. PICK r \in Requests : handleRequest(r)
    BY <1>2
  <2>2. r \notin activeRequests /\ answers[r] = 0
    BY <2>1 DEF handleRequest, InOnePlace, Answered
  <2> QED
    BY <1>1, <2>1, <2>2 DEF handleRequest
<1>3. CASE onTimerTicked
  <2>1. Head(requesterQueue) \in Requests /\ Head(requesterQueue) \in Queued
    BY <1>3, QueueTaken DEF onTimerTicked
  <2>2. Head(requesterQueue) \notin activeRequests /\ answers[Head(requesterQueue)] = 0
    BY <2>1 DEF InOnePlace, Answered
  <2> QED
    BY <1>1, <1>3, <2>1, <2>2 DEF onTimerTicked
<1>4. ASSUME NEW r \in Requests, Continues(r) PROVE RedirectLimitKept'
  <2>1. /\ UNCHANGED <<activeRequests, maxRedirects, overtaken>>
        /\ \A q \in Requests \ {r} : hopsChain'[q] = hopsChain[q]
        /\ Len(hopsChain'[r]) = Len(hopsChain[r]) + 1
        /\ maxRedirects > 0 => Len(hopsChain[r]) # maxRedirects
    BY <1>4 DEF Continues, followRedirect, TooManyRedirections
  <2>2. ASSUME maxRedirects > 0, NEW q \in activeRequests \ overtaken
        PROVE  Len(hopsChain'[q]) <= maxRedirects
    <3>1. Len(hopsChain[q]) <= maxRedirects
      BY <2>2
    <3>2. CASE q = r
      BY <1>0, <2>1, <2>2, <3>1, <3>2
    <3> QED
      BY <1>0, <2>1, <3>1, <3>2
  <2> QED
    BY <2>1, <2>2
<1>5. ASSUME NEW S \in SUBSET unprocessed, Respond(S) PROVE RedirectLimitKept'
  <2>1. /\ activeRequests' = activeRequests \ S /\ UNCHANGED <<maxRedirects, overtaken>>
        /\ \A q \in Requests \ S : hopsChain'[q] = hopsChain[q]
    BY <1>5 DEF Respond
  <2> QED
    BY <1>0, <2>1
<1>6. ASSUME NEW redirects \in Redirects, setMaxRedirects(redirects)
      PROVE  RedirectLimitKept'
  <2>1. /\ UNCHANGED <<activeRequests, hopsChain>> /\ maxRedirects' = redirects
        /\ redirects \in Nat
        /\ overtaken' = overtaken \union
             {r \in activeRequests : redirects > 0 /\ redirects < Len(hopsChain[r])}
    BY <1>6 DEF setMaxRedirects, AtStart
  <2> QED
    BY <1>0, <2>1
<1>7. CASE UNCHANGED <<activeRequests, hopsChain, maxRedirects, overtaken>>
  BY <1>7
<1> QED
  BY <1>2, <1>3, <1>4, <1>5, <1>6, <1>7, StepKinds
     DEF AllButCalls, SetOptions, setPauseRange, setTimeout, AtStart, headersArrive

(* The invariant holds in every state.                                     *)
LEMMA QtInvHolds == Spec => []QtInv
<1>1. Init => QtInv
  <2>1. ASSUME Init PROVE QtInv
    <3>1. Queued = {} /\ Answered = {} /\ DOMAIN requesterQueue = {}
      BY <2>1 DEF Init, Queued, Answered
    <3>2. QtTypeOK
      BY <2>1, DownloadAssumption DEF Init, QtTypeOK, Headers
    <3> QED
      BY <2>1, <3>1, <3>2
         DEF Init, QtInv, InOnePlace, HopsAfterLoad, RedirectLimitKept
  <2> QED
    BY <2>1
<1>2. QtInv /\ [Next]_downloadVars => QtInv'
  BY TypeStep, PlaceStep, LimitStep DEF QtInv
<1> QED
  BY <1>1, <1>2, PTL DEF Spec

-----------------------------------------------------------------------------
(***************************************************************************)
(* How often a url is asked for. The reply at hand is counted too, since   *)
(* processReply adds its hop only after it has looked at the chain.        *)
(***************************************************************************)

Visits(q, url) == Cardinality({i \in DOMAIN q : q[i] = url})

VisitsBounded ==
  \A r \in Requests, url \in Urls :
    /\ Visits(hopsChain[r], url) <= 4
    /\ r \in activeRequests /\ replyUrl[r] = url => Visits(hopsChain[r], url) <= 3

(* One more hop is one more visit of its url, and of no other.             *)
LEMMA VisitsAppended ==
  ASSUME NEW T, NEW q \in Seq(T), NEW e \in T, NEW url
  PROVE  /\ Visits(q, url) \in Nat
         /\ e = url => Visits(Append(q, e), url) = Visits(q, url) + 1
         /\ e # url => Visits(Append(q, e), url) = Visits(q, url)
<1> DEFINE a == Append(q, e)
           l == Len(q)
           S == {i \in DOMAIN q : q[i] = url}
           A == {i \in DOMAIN a : a[i] = url}
<1>1. /\ l \in Nat /\ DOMAIN q = 1..l /\ DOMAIN a = 1..(l + 1) /\ a[l + 1] = e
      /\ \A i \in 1..l : a[i] = q[i]
  OBVIOUS
<1> HIDE DEF a, l
<1>2. l + 1 \notin 1..l /\ 1..(l + 1) = 1..l \union {l + 1}
  BY <1>1
<1>3. IsFiniteSet(1..l)
  BY <1>1, FS_Interval
<1>4. S \in SUBSET (1..l) /\ l + 1 \notin S
  BY <1>1, <1>2
<1>5. IsFiniteSet(S) /\ Cardinality(S) \in Nat
  BY <1>3, <1>4, FS_Subset, FS_CardinalityType
<1>6. /\ e = url => A = S \union {l + 1}
      /\ e # url => A = S
  BY <1>1, <1>2
<1> HIDE DEF S, A
<1>7. Cardinality(S \union {l + 1}) = Cardinality(S) + 1
  BY <1>4, <1>5, FS_AddElement
<1>8. Visits(q, url) = Cardinality(S) /\ Visits(a, url) = Cardinality(A)
  BY DEF Visits, S, A
<1>9. /\ e = url => Visits(a, url) = Visits(q, url) + 1
      /\ e # url => Visits(a, url) = Visits(q, url)
  BY <1>6, <1>7, <1>8
<1> QED
  BY <1>5, <1>8, <1>9 DEF a

(* A chain without hops has visited nothing.                               *)
LEMMA NoVisits == ASSUME NEW url PROVE Visits(<<>>, url) = 0
<1>1. {i \in DOMAIN <<>> : <<>>[i] = url} = {}
  OBVIOUS
<1> QED
  BY <1>1, FS_EmptySet DEF Visits

(* Every step leaves no url visited too often: a redirect to a url is      *)
(* followed when two visits are counted, the reply at hand may be a third, *)
(* and the redirect is the last.                                           *)
LEMMA VisitsStep ==
  ASSUME QtInv, VisitsBounded, [Next]_downloadVars
  PROVE  VisitsBounded'
<1> USE DEF VisitsBounded, replyVars, optionVars
<1>0. /\ hopsChain \in [Requests -> Seq(Urls)] /\ replyUrl \in [Requests -> Urls]
      /\ unprocessed = activeRequests /\ activeRequests \subseteq Requests
      /\ \A r \in Requests : header[r] \in Urls => header[r] # "none"
  BY DownloadAssumption DEF QtInv, QtTypeOK, Headers
<1>1. \A r \in Requests, url \in Urls : Visits(hopsChain[r], url) \in Nat
  BY <1>0, VisitsAppended
<1>2. ASSUME NEW r \in Requests, r \notin activeRequests, answers[r] = 0, load(r)
      PROVE  VisitsBounded'
  <2>1. \A url : Visits(hopsChain[r], url) = 0
    BY <1>2, NoVisits DEF QtInv, HopsAfterLoad
  <2> QED
    BY <1>2, <2>1 DEF load
<1>3. CASE \E r \in Requests : handleRequest(r)
  <2>1. PICK r \in Requests : handleRequest(r)
    BY <1>3
  <2>2. r \notin activeRequests /\ answers[r] = 0
    BY <2>1 DEF handleRequest, QtInv, InOnePlace, Answered
  <2>3. \/ load(r)
        \/ UNCHANGED <<activeRequests, hopsChain, replyUrl>>
    BY <2>1 DEF handleRequest
  <2>4. CASE UNCHANGED <<activeRequests, hopsChain, replyUrl>>
    BY <2>4
  <2> QED
    BY <1>2, <2>2, <2>3, <2>4
<1>4. CASE onTimerTicked
  <2>1. Head(requesterQueue) \in Requests /\ Head(requesterQueue) \in Queued
    BY <1>4, QueueTaken DEF onTimerTicked, QtInv
  <2>2. Head(requesterQueue) \notin activeRequests /\ answers[Head(requesterQueue)] = 0
    BY <2>1 DEF QtInv, InOnePlace, Answered
  <2> QED
    BY <1>2, <1>4, <2>1, <2>2 DEF onTimerTicked
<1>5. ASSUME NEW r \in Requests, Continues(r) PROVE VisitsBounded'
  <2> DEFINE next == header[r]
             now == replyUrl[r]
             chain == hopsChain[r]
  <2>1. /\ activeRequests' = activeRequests /\ r \in activeRequests
        /\ \A q \in Requests \ {r} : hopsChain'[q] = hopsChain[q] /\ replyUrl'[q] = replyUrl[q]
        /\ hopsChain'[r] = Append(chain, now) /\ replyUrl'[r] = next
        /\ now \in Urls /\ next \in Urls /\ chain \in Seq(Urls)
    BY <1>0, <1>5 DEF Continues, followRedirect
  <2>2. Visits(chain, next) <= 2 /\ Visits(chain, now) <= 3
    <3>1. Visits(chain, next) <= 2
      BY <1>5 DEF Continues, urlsInChain, Visits
    <3>2. Visits(chain, now) <= 3
      BY <2>1
    <3> QED
      BY <3>1, <3>2
  <2>3. ASSUME NEW url \in Urls
        PROVE  /\ Visits(chain, url) \in Nat /\ Visits(chain, url) <= 4
               /\ now = url => Visits(Append(chain, now), url) = Visits(chain, url) + 1
               /\ now # url => Visits(Append(chain, now), url) = Visits(chain, url)
    BY <2>1, VisitsAppended
  <2> HIDE DEF next, now, chain
  <2>4. ASSUME NEW url \in Urls
        PROVE  /\ Visits(hopsChain'[r], url) <= 4
               /\ next = url => Visits(hopsChain'[r], url) <= 3
    <3>1. CASE now = url
      BY <2>1, <2>2, <2>3, <3>1
    <3>2. CASE now # url
      BY <2>1, <2>2, <2>3, <3>2
    <3> QED
      BY <3>1, <3>2
  <2> QED
    BY <2>1, <2>4
<1>6. ASSUME NEW S \in SUBSET unprocessed, Respond(S) PROVE VisitsBounded'
  <2>1. /\ activeRequests' = activeRequests \ S /\ UNCHANGED replyUrl
        /\ \A q \in Requests \ S : hopsChain'[q] = hopsChain[q]
        /\ \A q \in S : hopsChain'[q] = Append(hopsChain[q], replyUrl[q])
    BY <1>0, <1>6 DEF Respond
  <2>2. ASSUME NEW q \in S, NEW url \in Urls
        PROVE  Visits(hopsChain'[q], url) <= 4
    <3>1. q \in Requests /\ q \in activeRequests /\ replyUrl[q] \in Urls
      BY <1>0
    <3>2. /\ replyUrl[q] = url
               => Visits(hopsChain'[q], url) = Visits(hopsChain[q], url) + 1
          /\ replyUrl[q] # url => Visits(hopsChain'[q], url) = Visits(hopsChain[q], url)
      <4>1. hopsChain[q] \in Seq(Urls) /\ hopsChain'[q] = Append(hopsChain[q], replyUrl[q])
        BY <1>0, <2>1, <3>1
      <4> QED
        BY <3>1, <4>1, VisitsAppended
    <3>3. /\ Visits(hopsChain[q], url) \in Nat /\ Visits(hopsChain[q], url) <= 4
          /\ replyUrl[q] = url => Visits(hopsChain[q], url) <= 3
      BY <1>1, <3>1
    <3> QED
      BY <3>2, <3>3
  <2> QED
    BY <1>0, <2>1, <2>2
<1>7. CASE \/ \E r \in Requests : headersArrive(r)
           \/ UNCHANGED AllButCalls
           \/ SetOptions
  <2>1. UNCHANGED <<activeRequests, hopsChain, replyUrl>>
    BY <1>7 DEF AllButCalls, SetOptions, setPauseRange, setTimeout, setMaxRedirects, AtStart,
                headersArrive
  <2> QED
    BY <2>1
<1> HIDE DEF VisitsBounded
<1> QED
  BY <1>3, <1>4, <1>5, <1>6, <1>7, StepKinds DEF QtInv

(* The bound holds in every state.                                         *)
LEMMA VisitsHold == Spec => []VisitsBounded
<1>1. Init => VisitsBounded
  BY NoVisits DEF Init, VisitsBounded
<1>2. QtInv /\ VisitsBounded /\ [Next]_downloadVars => VisitsBounded'
  BY VisitsStep
<1> QED
  BY <1>1, <1>2, QtInvHolds, PTL DEF Spec

-----------------------------------------------------------------------------
(***************************************************************************)
(* The theorems.                                                           *)
(***************************************************************************)

(* A request that waits for an answer has its requester and a reply that   *)
(* may still end, in whatever order replies end, time out, have headers    *)
(* and are redirected.                                                     *)
THEOREM QtTypeCorrect == Spec => []QtTypeOK
<1>1. QtInv => QtTypeOK
  BY DEF QtInv
<1> QED
  BY <1>1, QtInvHolds, PTL

(* No request follows more redirects than the option says, unless the      *)
(* option was set below what it had followed.                              *)
THEOREM RedirectsLimited == Spec => []RedirectLimitKept
<1>1. QtInv => RedirectLimitKept
  BY DEF QtInv
<1> QED
  BY <1>1, QtInvHolds, PTL

(* Whatever a server answers, and whatever the limit is set to, a chain of *)
(* redirects asks for no url more than four times.                         *)
THEOREM RedirectsBounded == Spec => []RedirectsEnd
<1>1. VisitsBounded => RedirectsEnd
  BY DEF VisitsBounded, Visits, RedirectsEnd
<1> QED
  BY <1>1, VisitsHold, PTL

(* Every step is a request, an answer, or nothing that a worker can see.   *)
LEMMA StepIsAnswersStep ==
  ASSUME QtInv, [Next]_downloadVars
  PROVE  [Handler!Ask \/ Handler!Answer]_(Handler!answersVars)
<1> DEFINE waiting == Queued \union activeRequests
<1>0. InOnePlace
  BY DEF QtInv
<1> USE DEF Handler!Ask, Handler!Answer, Handler!answersVars
<1>1. ASSUME NEW r \in Requests, handleRequest(r)
      PROVE  Handler!Ask
  <2>1. r \notin Queued \union activeRequests \union Answered
    BY <1>0, <1>1 DEF handleRequest, InOnePlace
  <2>2. /\ Queued' \union activeRequests' = Queued \union activeRequests \union {r}
        /\ answers' = answers
    <3>1. CASE load(r) /\ UNCHANGED requesterQueue
      BY <3>1 DEF load, Queued
    <3>2. CASE /\ requesterQueue' = Append(requesterQueue, r)
               /\ UNCHANGED <<activeRequests, answers>>
      <4>1. Queued' = Queued \union {r}
        BY <1>0, <2>1, <3>2, QueueAppended DEF QtInv
      <4> QED
        BY <3>2, <4>1
    <3> QED
      BY <1>1, <3>1, <3>2 DEF handleRequest
  <2> QED
    BY <2>1, <2>2 DEF Answered
<1>2. CASE onTimerTicked
  <2>1. /\ Head(requesterQueue) \in Queued
        /\ Queued' = Queued \ {Head(requesterQueue)}
    BY <1>0, <1>2, QueueTaken DEF onTimerTicked, QtInv
  <2>2. /\ activeRequests' = activeRequests \union {Head(requesterQueue)}
        /\ answers' = answers
    BY <1>2 DEF onTimerTicked, load
  <2>3. Queued' \union activeRequests' = Queued \union activeRequests
    BY <2>1, <2>2
  <2> QED
    BY <2>2, <2>3
<1>3. ASSUME NEW S \in SUBSET unprocessed, Respond(S) PROVE Handler!Answer
  <2>1. /\ S \subseteq activeRequests /\ S \subseteq Requests
        /\ activeRequests' = activeRequests \ S /\ Queued' = Queued
        /\ \A r \in S : answers'[r] = answers[r] + 1
        /\ \A r \in Requests \ S : answers'[r] = answers[r]
    BY <1>3 DEF Respond, QtInv, QtTypeOK, Queued
  <2>2. \A r \in S : answers[r] = 0 /\ answers'[r] = 1
    BY <1>0, <2>1 DEF InOnePlace, Answered
  <2>3. {r \in Requests : answers'[r] = 1} = {r \in Requests : answers[r] = 1} \union S
    BY <2>1, <2>2
  <2>4. Queued' \union activeRequests' = (Queued \union activeRequests) \ S
    BY <1>0, <2>1 DEF InOnePlace
  <2>5. S \in SUBSET (Queued \union activeRequests)
    BY <2>1
  <2> QED
    BY <2>3, <2>4, <2>5
<1>4. CASE UNCHANGED <<requesterQueue, activeRequests, answers>>
  BY <1>4 DEF Queued
<1> QED
  BY <1>1, <1>2, <1>3, <1>4, StepKinds
     DEF QtInv, AllButCalls, SetOptions, setPauseRange, setTimeout, setMaxRedirects,
         AtStart, headersArrive, Continues, followRedirect

(* The handler implements AnswersOnce: whatever ends a reply, and whatever *)
(* options are set meanwhile, no request is answered twice, or unasked.    *)
THEOREM HandlerAnswersOnce == Spec => AnsweredOnce
<1>1. Init => Handler!AnswersInit
  BY DEF Init, Handler!AnswersInit, Queued
<1>2. QtInv /\ [Next]_downloadVars
        => [Handler!Ask \/ Handler!Answer]_(Handler!answersVars)
  BY StepIsAnswersStep
<1> QED
  BY <1>1, <1>2, QtInvHolds, PTL DEF Spec, AnsweredOnce, Handler!AnswersSpec
=============================================================================
