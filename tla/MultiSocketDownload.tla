------------------------- MODULE MultiSocketDownload -------------------------
(***************************************************************************)
(* The page loader and the download handler of the application: a worker   *)
(* with many requests at once, and the one thread that drives libcurl for  *)
(* every worker.                                                           *)
(*                                                                         *)
(*   worker   MultiRequestPageLoader: the requests it waits for            *)
(*     |  ^   a vector of messages per thread, newest first, drained by    *)
(*     v  |   a timer                                                      *)
(*   handler  MultiSocketDownloadHandler: pending, active, paused          *)
(*     |  ^   queued Qt calls, oldest first                                *)
(*     v  |                                                                *)
(*   libcurl  MultiSocketLoader: transfers by request id                   *)
(*                                                                         *)
(* A requester is an object that lives as long as a shared pointer to it;  *)
(* the lists of requesters to pause, to unpause and to reset are raw       *)
(* pointers, so addresses are part of the model. What a server answers is  *)
(* either a redirect or an end. Page contents are left out, as are the     *)
(* reload of a page and the throttle of canPullLoading.                    *)
(***************************************************************************)

EXTENDS Integers, SequencesExt, FiniteSetsExt

CONSTANTS
  Requesters,    (* Requester objects, each for one page.                  *)
  Addresses,     (* Where they are allocated.                              *)
  maxParallelConnections, maxRedirects,
  PauseRanges,   (* Whether the user may set a pause between requests.     *)
  CurlRefreshes, (* Whether curl_multi_add_handle gets to count transfers: *)
                 (* it may call back before it returns.                    *)
  MaxStops, MaxClears  (* Bounds of the model on the user's commands.      *)

None == "none"
Messages == [type : {"download", "answer"}, requester : Requesters]
       \cup [type : {"pause", "unpause", "reset", "resetDone"},
             requesters : SUBSET Addresses]

ASSUME DownloadAssumption ==
  /\ IsFiniteSet(Requesters)
  /\ None \notin Addresses
  /\ maxParallelConnections \in Nat \ {0} /\ maxRedirects \in Nat \ {0}
  /\ PauseRanges \subseteq BOOLEAN /\ PauseRanges # {}
  /\ CurlRefreshes \subseteq BOOLEAN /\ CurlRefreshes # {}
  /\ MaxStops \in Nat /\ MaxClears \in Nat

VARIABLES
  (* The worker's thread.                                                  *)
  running, activeRequesters, onAboutClearData,
  messages,          (* m_messages of its dispatcher.                      *)
  dispatching,       (* In the loop of ThreadMessageDispatcher::execute.   *)
  (* The handler's thread.                                                 *)
  handlerQueue, pauseRange, requesterQueue,
  pendingRequesters, pausedRequesters,
  activeIds,         (* m_activeRequesters: id of the first request to     *)
                     (* its requester, held weakly.                        *)
  parentOf,          (* m_redirectRequestIdToParentId.                     *)
  redirectsOf,       (* m_parentIdToRedirectIds.                           *)
  (* libcurl and MultiSocketLoader.                                        *)
  transfers, stillRunning, requestCounter,
  actionDue,         (* A call of doAction is queued.                      *)
  (* Bookkeeping of the model.                                             *)
  address,           (* Where a requester was allocated.                   *)
  answered,          (* Requesters whose page was given to the worker.     *)
  stops, clears

workerVars == <<running, activeRequesters, onAboutClearData, dispatching,
                address, answered, stops, clears>>
curlVars == <<transfers, stillRunning, requestCounter, actionDue>>
mapVars == <<activeIds, parentOf, redirectsOf>>
waitVars == <<pauseRange, requesterQueue, pendingRequesters, pausedRequesters>>
vars == <<workerVars, messages, handlerQueue, waitVars, mapVars, curlVars>>

------------------------------------------------------------------------------
(* Requesters, their life and their ids                                    *)

RequesterOf(m) == IF m.type \in {"download", "answer"} THEN {m.requester} ELSE {}

(* Somebody holds a shared pointer: the loader, a message, a queued call,  *)
(* or the queue of the pause between requests.                             *)
Alive(r) ==
  \/ r \in activeRequesters \cup onAboutClearData \cup ToSet(requesterQueue)
  \/ \E m \in ToSet(messages) : r \in RequesterOf(m)
  \/ \E e \in ToSet(handlerQueue) : e.type = "download" /\ e.requester = r

LiveRequesters == {r \in Requesters : Alive(r)}
FreeAddresses == Addresses \ {address[r] : r \in LiveRequesters}

(* m_activeRequesters.keys(): raw pointers.                                *)
keys == {address[r] : r \in activeRequesters}

(* The request, the one it was redirected from, and so on.                 *)
Ancestry(id) ==
  LET up[i \in Nat] ==
        IF i \in DOMAIN parentOf THEN {i} \cup up[parentOf[i]] ELSE {i}
  IN  up[id]

parentIdFor(id) ==
  IF id \in DOMAIN parentOf
  THEN CHOOSE i \in Ancestry(id) : i \notin DOMAIN parentOf
  ELSE -1

actualRequesterId(id) == IF id \in DOMAIN activeIds THEN id ELSE parentIdFor(id)

(* The requesters a loaded resource may belong to: none or one.            *)
requesterById(id) ==
  {r \in Requesters : /\ actualRequesterId(id) \in DOMAIN activeIds
                      /\ r = activeIds[actualRequesterId(id)] /\ Alive(r)}

Without(f, S) == [i \in DOMAIN f \ S |-> f[i]]
With(f, i, x) == [j \in DOMAIN f \cup {i} |-> IF j = i THEN x ELSE f[j]]

(* The elements of a queue that are in S, in their order.                  *)
Kept(q, S) ==
  LET kept[i \in 0..Len(q)] ==
        IF i = 0 THEN <<>>
        ELSE IF q[i] \in S THEN Append(kept[i - 1], q[i]) ELSE kept[i - 1]
  IN  kept[Len(q)]

(* The id that the handler takes for the current transfer of a request.    *)
currentIdOf(id) == IF id \in DOMAIN redirectsOf THEN Last(redirectsOf[id]) ELSE id

(* requestIndexesToPause and intersectActiveRequestIndexes, for requesters *)
(* at the given addresses.                                                 *)
requestIndexes(A) ==
  {currentIdOf(id) : id \in {i \in DOMAIN activeIds :
                       Alive(activeIds[i]) /\ address[activeIds[i]] \in A}}

(* removeRequestIndexesChain for each of the ids.                          *)
removeRequestIndexesChain(ids) ==
  LET chain == (UNION {Ancestry(id) : id \in ids}) \cap DOMAIN parentOf IN
  /\ parentOf' = Without(parentOf, chain)
  /\ redirectsOf' = Without(redirectsOf, {parentIdFor(id) : id \in ids})

------------------------------------------------------------------------------
(* The worker's thread                                                     *)

Init ==
  /\ running = FALSE /\ activeRequesters = {} /\ onAboutClearData = {}
  /\ messages = <<>> /\ dispatching = FALSE
  /\ handlerQueue = <<>> /\ pauseRange = FALSE /\ requesterQueue = <<>>
  /\ pendingRequesters = <<>> /\ pausedRequesters = {}
  /\ activeIds = <<>> /\ parentOf = <<>> /\ redirectsOf = <<>>
  /\ transfers = <<>> /\ stillRunning = 0 /\ requestCounter = 0
  /\ actionDue = FALSE
  /\ address = [r \in Requesters |-> None] /\ answered = {}
  /\ stops = 0 /\ clears = 0

(* performLoading, after the messages that were posted so far.             *)
performLoadingAfter(posted) ==
  \E r \in Requesters, a \in FreeAddresses :
    /\ address[r] = None
    /\ address' = [address EXCEPT ![r] = a]
    /\ activeRequesters' = activeRequesters \cup {r}
    /\ messages' = Append(posted, [type |-> "download", requester |-> r])

performLoading ==
  /\ running /\ ~dispatching
  /\ performLoadingAfter(messages)
  /\ UNCHANGED <<running, onAboutClearData, dispatching, answered, stops, clears,
                 handlerQueue, waitVars, mapVars, curlVars>>

(* The messages after setReceiveState has posted its request.              *)
unpauseAllPausedDownloads == Append(messages, [type |-> "unpause", requesters |-> keys])
pauseAllActiveDownloads == Append(messages, [type |-> "pause", requesters |-> keys])

(* start: receive pages, unpause, and load the next url if there is one.   *)
start ==
  /\ ~running /\ ~dispatching
  /\ running' = TRUE
  /\ \/ messages' = unpauseAllPausedDownloads /\ UNCHANGED <<activeRequesters, address>>
     \/ performLoadingAfter(unpauseAllPausedDownloads)
  /\ UNCHANGED <<onAboutClearData, dispatching, answered, stops, clears,
                 handlerQueue, waitVars, mapVars, curlVars>>

stop ==
  /\ running /\ ~dispatching /\ stops < MaxStops
  /\ running' = FALSE /\ stops' = stops + 1
  /\ messages' = pauseAllActiveDownloads
  /\ UNCHANGED <<activeRequesters, onAboutClearData, dispatching, address,
                 answered, clears, handlerQueue, waitVars, mapVars, curlVars>>

clear ==
  /\ ~running /\ ~dispatching /\ clears < MaxClears
  /\ clears' = clears + 1
  /\ messages' = Append(messages, [type |-> "reset", requesters |-> keys])
  /\ onAboutClearData' = activeRequesters
  /\ activeRequesters' = {}
  /\ UNCHANGED <<running, dispatching, address, answered, stops, handlerQueue,
                 waitVars, mapVars, curlVars>>

timerEvent ==
  /\ ~dispatching /\ messages # <<>>
  /\ dispatching' = TRUE
  /\ UNCHANGED <<running, activeRequesters, onAboutClearData, address, answered,
                 stops, clears, messages, handlerQueue, waitVars, mapVars, curlVars>>

(* One turn of the loop of execute: the newest message goes first.         *)
extractMessage ==
  /\ dispatching
  /\ LET message == Last(messages) IN
     \/ /\ message.type = "answer"
        /\ activeRequesters' = activeRequesters \ {message.requester}
        /\ answered' = answered \cup {message.requester}
        /\ UNCHANGED <<onAboutClearData, handlerQueue>>
     \/ /\ message.type = "resetDone"
        /\ onAboutClearData' = {}
        /\ UNCHANGED <<activeRequesters, answered, handlerQueue>>
     \/ /\ message.type \notin {"answer", "resetDone"}
        /\ handlerQueue' = Append(handlerQueue, message)
        /\ UNCHANGED <<activeRequesters, onAboutClearData, answered>>
  /\ messages' = Front(messages)
  /\ dispatching' = (messages' # <<>>)
  /\ UNCHANGED <<running, address, stops, clears, waitVars, mapVars, curlVars>>

------------------------------------------------------------------------------
(* The handler's thread: transfers of libcurl                              *)

(* get and head: a new transfer; the count of transfers moves when libcurl *)
(* calls back before curl_multi_add_handle returns.                        *)
get(hop, others, running_) ==
  /\ requestCounter' = requestCounter + 1
  /\ transfers' = With(others, requestCounter, [paused |-> FALSE, hop |-> hop])
  /\ \E refreshed \in CurlRefreshes :
       stillRunning' = IF refreshed THEN Cardinality(DOMAIN transfers') ELSE running_

(* load, after the other variables of the handler have come to the values  *)
(* given: the queue of pending requesters, the paused ones, the transfers  *)
(* and libcurl's count of them.                                            *)
load(r, pending, paused, others, running_) ==
  IF running_ >= maxParallelConnections \/ address[r] \in paused
  THEN /\ pendingRequesters' = Append(pending, r)
       /\ transfers' = others /\ stillRunning' = running_
       /\ UNCHANGED <<activeIds, requestCounter>>
  ELSE /\ pendingRequesters' = pending
       /\ activeIds' = With(activeIds, requestCounter, r)
       /\ get(1, others, running_)

(* A mutant of loadFirstUnpaused: who is loaded stays pending.             *)
loadFirstUnpausedStays(paused, others, running_) ==
  LET live == Kept(pendingRequesters, LiveRequesters)
      unpaused == {i \in DOMAIN live : address[live[i]] \notin paused}
  IN  IF unpaused = {}
      THEN /\ pendingRequesters' = live
           /\ transfers' = others /\ stillRunning' = running_
           /\ UNCHANGED <<activeIds, requestCounter>>
      ELSE load(live[Min(unpaused)], live, paused, others, running_)

(* extractFirstUnpausedRequester followed by load, or nothing to load.     *)
loadFirstUnpaused(paused, others, running_) ==
  LET live == Kept(pendingRequesters, LiveRequesters)
      unpaused == {i \in DOMAIN live : address[live[i]] \notin paused}
  IN  IF unpaused = {}
      THEN /\ pendingRequesters' = live
           /\ transfers' = others /\ stillRunning' = running_
           /\ UNCHANGED <<activeIds, requestCounter>>
      ELSE load(live[Min(unpaused)], RemoveAt(live, Min(unpaused)), paused,
                others, running_)

(* onCurrentParallelTransfersCountChanged.                                 *)
onCountChanged(others, running_) ==
  IF running_ >= maxParallelConnections
  THEN /\ transfers' = others /\ stillRunning' = running_
       /\ UNCHANGED <<activeIds, pendingRequesters, requestCounter>>
  ELSE loadFirstUnpaused(pausedRequesters, others, running_)

(* checkMultiInfo: a queued signal for each transfer that is done, in      *)
(* libcurl's order.                                                        *)
loadedSignals(ids) ==
  [i \in DOMAIN ids |-> [type |-> "loaded", id |-> ids[i],
                         hop |-> transfers[ids[i]].hop]]
emitLoaded(done) ==
  \E ids \in SetToSeqs(done) : handlerQueue' = handlerQueue \o loadedSignals(ids)

(* A socket of some transfer is ready: a call of doAction is queued.       *)
socketFunctionCallback ==
  /\ transfers # <<>> /\ ~actionDue
  /\ actionDue' = TRUE
  /\ UNCHANGED <<workerVars, messages, handlerQueue, waitVars, mapVars,
                 transfers, stillRunning, requestCounter>>

(* doAction: some transfers are done, a paused one by its timeout. Whether *)
(* the count has changed decides whether somebody pending may go on.       *)
doAction(done) ==
  LET others == Without(transfers, done)
      count == Cardinality(DOMAIN others)
  IN  /\ actionDue
      /\ IF count # stillRunning
         THEN onCountChanged(others, count)
         ELSE /\ transfers' = others
              /\ UNCHANGED <<stillRunning, activeIds, pendingRequesters, requestCounter>>
      /\ emitLoaded(done)
      /\ actionDue' = (stillRunning' > 0)
      /\ UNCHANGED <<workerVars, messages, pauseRange, requesterQueue,
                     pausedRequesters, parentOf, redirectsOf>>

(* timeoutAction: transfers that end by libcurl's timer, such as one whose *)
(* host has no address. It counts too, but tells nobody.                   *)
timeoutAction(done) ==
  LET others == Without(transfers, done) IN
  /\ transfers # <<>>
  /\ transfers' = others
  /\ stillRunning' = Cardinality(DOMAIN others)
  /\ emitLoaded(done)
  /\ UNCHANGED <<workerVars, messages, waitVars, mapVars, requestCounter, actionDue>>

------------------------------------------------------------------------------
(* The handler's thread: queued calls                                      *)

handleDownload(r) ==
  /\ IF pauseRange
     THEN /\ requesterQueue' = Append(requesterQueue, r)
          /\ UNCHANGED <<pendingRequesters, activeIds, transfers, stillRunning,
                         requestCounter>>
     ELSE /\ load(r, pendingRequesters, pausedRequesters, transfers, stillRunning)
          /\ UNCHANGED requesterQueue
  /\ UNCHANGED <<messages, pausedRequesters, parentOf, redirectsOf>>

SetPaused(ids, flag) ==
  transfers' = [id \in DOMAIN transfers |->
                  IF id \in ids THEN [transfers[id] EXCEPT !.paused = flag]
                  ELSE transfers[id]]

pauseRequesters(A) ==
  /\ pausedRequesters' = pausedRequesters \cup A
  /\ SetPaused(requestIndexes(pausedRequesters'), TRUE)
  /\ UNCHANGED <<messages, requesterQueue, pendingRequesters, mapVars,
                 stillRunning, requestCounter>>

unpauseRequesters(A) ==
  LET ids == requestIndexes(A) IN
  /\ pausedRequesters' = pausedRequesters \ A
  /\ IF ids = {}
     THEN loadFirstUnpaused(pausedRequesters', transfers, stillRunning)
     ELSE /\ SetPaused(ids, FALSE)
          /\ stillRunning' = IF ids \cap DOMAIN transfers = {} THEN stillRunning
                             ELSE Cardinality(DOMAIN transfers)
          /\ UNCHANGED <<pendingRequesters, activeIds, requestCounter>>
  /\ UNCHANGED <<messages, requesterQueue, parentOf, redirectsOf>>

(* A mutant of resetRequesters: it drops whatever is pending.              *)
resetRequestersDropsPending(A) ==
  LET ids == requestIndexes(A) IN
  /\ pausedRequesters' = pausedRequesters \ A
  /\ pendingRequesters' = <<>>
  /\ transfers' = Without(transfers, ids)
  /\ activeIds' = Without(activeIds, ids)
  /\ removeRequestIndexesChain(ids)
  /\ messages' = Append(messages, [type |-> "resetDone", requesters |-> {}])
  /\ UNCHANGED <<requesterQueue, stillRunning, requestCounter>>

(* resetConnection takes a transfer from libcurl and leaves its count.     *)
resetRequesters(A) ==
  LET ids == requestIndexes(A) IN
  /\ pausedRequesters' = pausedRequesters \ A
  /\ pendingRequesters' =
       Kept(pendingRequesters, {r \in LiveRequesters : address[r] \notin A})
  /\ transfers' = Without(transfers, ids)
  /\ activeIds' = Without(activeIds, ids)
  /\ removeRequestIndexesChain(ids)
  /\ messages' = Append(messages, [type |-> "resetDone", requesters |-> {}])
  /\ UNCHANGED <<requesterQueue, stillRunning, requestCounter>>

removeLoadedResourceAssociatedData(id) ==
  /\ activeIds' = Without(activeIds, {IF id \in DOMAIN parentOf THEN parentIdFor(id)
                                      ELSE id})
  /\ removeRequestIndexesChain({id})

(* Mutants of followLocation: the binding is the wrong way round; there is *)
(* none.                                                                   *)
followLocationSwapped(id, hop) ==
  /\ get(hop + 1, transfers, stillRunning)
  /\ parentOf' = With(parentOf, id, requestCounter)
  /\ redirectsOf' = With(redirectsOf, requestCounter, <<id>>)
  /\ UNCHANGED <<messages, pausedRequesters, activeIds>>

followLocationUnbound(id, hop) ==
  /\ get(hop + 1, transfers, stillRunning)
  /\ UNCHANGED <<messages, pausedRequesters, mapVars>>

(* followLocation: the redirect is a request of its own, bound to the one  *)
(* that was just loaded, which is loaded once and so has one redirect.     *)
followLocation(id, hop) ==
  /\ get(hop + 1, transfers, stillRunning)
  /\ parentOf' = With(parentOf, requestCounter, id)
  /\ redirectsOf' = With(redirectsOf, id, <<requestCounter>>)
  /\ UNCHANGED <<messages, pausedRequesters, activeIds>>

onUrlLoaded(id, hop) ==
  /\ \/ \E r \in requesterById(id) :
          \/ hop # maxRedirects /\ followLocation(id, hop)
          \/ /\ messages' = Append(messages, [type |-> "answer", requester |-> r])
             /\ pausedRequesters' = pausedRequesters \ {address[r]}
             /\ removeLoadedResourceAssociatedData(id)
             /\ UNCHANGED <<transfers, stillRunning, requestCounter>>
     \/ /\ requesterById(id) = {}
        /\ removeLoadedResourceAssociatedData(id)
        /\ UNCHANGED <<messages, pausedRequesters, transfers, stillRunning,
                       requestCounter>>
  /\ UNCHANGED <<requesterQueue, pendingRequesters>>

handleRequest ==
  /\ handlerQueue # <<>>
  /\ handlerQueue' = Tail(handlerQueue)
  /\ LET event == Head(handlerQueue) IN
     \/ event.type = "download" /\ handleDownload(event.requester)
     \/ event.type = "pause" /\ pauseRequesters(event.requesters)
     \/ event.type = "unpause" /\ unpauseRequesters(event.requesters)
     \/ event.type = "reset" /\ resetRequesters(event.requesters)
     \/ event.type = "loaded" /\ onUrlLoaded(event.id, event.hop)
  /\ UNCHANGED <<workerVars, pauseRange, actionDue>>

(* The timer of the pause between requests.                                *)
onTimerTicked ==
  /\ pauseRange /\ requesterQueue # <<>>
  /\ requesterQueue' = Tail(requesterQueue)
  /\ load(Head(requesterQueue), pendingRequesters, pausedRequesters, transfers,
          stillRunning)
  /\ UNCHANGED <<workerVars, messages, handlerQueue, pauseRange, pausedRequesters,
                 parentOf, redirectsOf, actionDue>>

(* setPauseRange and resetPauseRange: the main thread calls them at the    *)
(* start of a crawl, before it starts the workers.                         *)
setPauseRange ==
  /\ ~running
  /\ pauseRange' \in PauseRanges
  /\ UNCHANGED <<workerVars, messages, handlerQueue, requesterQueue,
                 pendingRequesters, pausedRequesters, mapVars, curlVars>>

------------------------------------------------------------------------------

Worker == start \/ performLoading \/ stop \/ clear
Dispatcher == timerEvent \/ extractMessage
Curl == \/ socketFunctionCallback
        \/ \E done \in SUBSET DOMAIN transfers : doAction(done) \/ timeoutAction(done)

Next == Worker \/ Dispatcher \/ Curl \/ handleRequest \/ onTimerTicked \/ setPauseRange

Spec == Init /\ [][Next]_vars

------------------------------------------------------------------------------
(* Properties                                                              *)

Ids == 0..(requestCounter - 1)
loadedIds == {e.id : e \in {q \in ToSet(handlerQueue) : q.type = "loaded"}}

(* What the handler's thread has queued.                                   *)
Events == {m \in Messages : m.type \notin {"answer", "resetDone"}}
       \cup [type : {"loaded"}, id : Nat, hop : 1..maxRedirects]

DownloadTypeOK ==
  /\ running \in BOOLEAN /\ dispatching \in BOOLEAN
  /\ activeRequesters \subseteq Requesters /\ onAboutClearData \subseteq Requesters
  /\ messages \in Seq(Messages) /\ (dispatching => messages # <<>>)
  /\ handlerQueue \in Seq(Events) /\ loadedIds \subseteq Ids
  /\ pauseRange \in BOOLEAN
  /\ requesterQueue \in Seq(Requesters) /\ pendingRequesters \in Seq(Requesters)
  /\ pausedRequesters \subseteq Addresses
  /\ requestCounter \in Nat
  /\ activeIds \in [DOMAIN activeIds -> Requesters] /\ DOMAIN activeIds \subseteq Ids
  /\ \A id \in DOMAIN parentOf : id \in Ids /\ parentOf[id] \in 0..(id - 1)
  /\ \A id \in DOMAIN redirectsOf : id \in Ids /\ redirectsOf[id] \in Seq(Ids)
  /\ transfers \in [DOMAIN transfers -> [paused : BOOLEAN, hop : 1..maxRedirects]]
  /\ DOMAIN transfers \subseteq Ids
  /\ stillRunning \in 0..Cardinality(Ids) /\ actionDue \in BOOLEAN
  /\ address \in [Requesters -> Addresses \cup {None}]
  /\ answered \subseteq Requesters
  /\ stops \in 0..MaxStops /\ clears \in 0..MaxClears

(* How often a request is on its way, from the message that asks for it to *)
(* the message that answers it.                                            *)
Times(q, kind) == Cardinality({i \in DOMAIN q : q[i] \in kind})
ownedBy(r, id) == /\ actualRequesterId(id) \in DOMAIN activeIds
                  /\ activeIds[actualRequesterId(id)] = r
ownIds(r) == {id \in DOMAIN transfers \cup loadedIds : ownedBy(r, id)}
Places(r) ==
  Times(messages, [type : {"download", "answer"}, requester : {r}])
  + Times(handlerQueue, [type : {"download"}, requester : {r}])
  + Times(requesterQueue, {r}) + Times(pendingRequesters, {r})
  + Cardinality(ownIds(r))

(* A request that the worker waits for is in exactly one place: neither    *)
(* redirects nor pauses, queues or resets of others lose it. A second      *)
(* clear lets go of what the first one has still to reset, so that the     *)
(* reset may meet a requester of the next crawl at the same address.       *)
NothingLost == clears <= 1 => \A r \in activeRequesters : Places(r) = 1

(* No request, cleared or not, is loaded or answered twice.                *)
NothingTwice == \A r \in Requesters :
                  Places(r) + (IF r \in answered THEN 1 ELSE 0) <= 1

(* As long as nothing was cleared, everything libcurl loads belongs to a   *)
(* requester the handler still knows.                                      *)
OrphansOnlyAfterClear ==
  clears = 0 => \A id \in DOMAIN transfers \cup loadedIds : requesterById(id) # {}

(* Nothing is queued or loading, and no timer has anything to do.          *)
NothingDue == /\ messages = <<>> /\ handlerQueue = <<>>
              /\ transfers = <<>> /\ ~actionDue
              /\ (pauseRange => requesterQueue = <<>>)

(* A running worker does not wait for a handler that has nothing to do:    *)
(* "can stay in the sleeping state" is what unpauseRequesters guards       *)
(* against.                                                                *)
NeverAsleep == running /\ NothingDue => activeRequesters = {}
==============================================================================
