---------------------------- MODULE CrawlPipeline ----------------------------
(***************************************************************************)
(* A crawl from its start to "Program has ended crawling": the crawler on  *)
(* the main thread, the worker threads with their page loaders, and the    *)
(* model controller on its own thread.                                     *)
(*                                                                         *)
(* The threads share the link store and the counters of CrawlerSharedState *)
(* and otherwise talk by queued Qt signals. A queue per receiver keeps     *)
(* their order. The three threads move a page along:                       *)
(*                                                                         *)
(*   store --extract--> loader --loaded--> worker --result--> model        *)
(*         --added--> main thread (what the user sees)                     *)
(*                                                                         *)
(* and each end of the pipe has a counter. Every 100 ms the main thread    *)
(* reads the counters, one load at a time, and ends the crawl when they    *)
(* agree. Each counter is one atomic variable; nothing makes a worker's    *)
(* calls one step together, so every access to shared state is an action.  *)
(*                                                                         *)
(* The loader is the one with a single request (QtPageLoader); the one     *)
(* with many is in MultiSocketDownload. Left out here: the checks before   *)
(* a crawl, project files (see ProjectRoundTrip), the refresh of a page.   *)
(***************************************************************************)

EXTENDS UniqueLinkStore, SequencesExt

CONSTANTS
  WorkerCount,     (* m_workers: worker threads, numbered from one.        *)
  StartPage,       (* options: startCrawlingPage.                          *)
  Links,           (* Links[r]: the lists the page of r adds to the store, *)
                   (* none of them empty: html links, images, other.       *)
  Blocked,         (* Blocked[r]: links of r that robots.txt blocks, or    *)
                   (* that are too long, as a sequence.                    *)
  Hops,            (* Hops[r]: the redirects of r after its first hop.     *)
  PageUrl,         (* PageUrl[r]: the url of r, for GET and HEAD alike.    *)
  Filtered,        (* Requests whose resource type the options leave out.  *)
  Licences,        (* Answers of isTrialLicense; fixed during a crawl.     *)
  MaxAdditionalPending, (* maxAdditionalPendingCount of the page loader.   *)
  MaxStarts, MaxStops, MaxClears  (* Bounds of the model on user commands. *)

Workers == 1..WorkerCount
NoLoad == [page |-> StartPage, turn |-> -1]

ASSUME PipelineAssumption ==
  /\ WorkerCount \in Nat \ {0}
  /\ StartPage \in Requests
  /\ DOMAIN Links = Requests
  /\ \A r \in Requests : Links[r] \in Seq((SUBSET Requests) \ {{}})
  /\ DOMAIN Blocked = Requests /\ \A r \in Requests : Blocked[r] \in Seq(Requests)
  /\ DOMAIN Hops = Requests /\ \A r \in Requests : Hops[r] \in Seq(Requests)
  /\ DOMAIN PageUrl = Requests
  /\ Filtered \subseteq Requests
  /\ Licences \subseteq BOOLEAN
  /\ MaxAdditionalPending \in Nat
  /\ MaxStarts \in Nat /\ MaxStops \in Nat /\ MaxClears \in Nat

VARIABLES
  (* Main thread: Crawler and SequencedDataCollection.                     *)
  state, crawlingFinished,
  mainPc,        (* What the main thread is in the middle of.              *)
  snapshot,      (* The counters onAboutCrawlingState has read so far.     *)
  mainQueue,     (* Queued signals for the main thread.                    *)
  sequencedStorage,  (* The urls shown: the Crawled storage of the view.   *)
  session,       (* m_session: "none", or whether it has a custom name.    *)
  starts, stops, clears, (* User commands so far.                          *)
  (* CrawlerSharedState, but for the two counters of the store.            *)
  turnaround, workersProcessedLinksCount,
  modelControllerCrawledLinksCount, modelControllerAcceptedLinksCount,
  sequencedDataCollectionLinksCount,
  (* Workers and their loaders.                                            *)
  isRunning,
  requester,     (* The loader's requester, or NoLoad.                     *)
  inFlight,      (* The requests the downloader will answer to the worker: *)
                 (* it holds them though the loader may have let them go.  *)
  extractDue,    (* A queued urlAdded, or the armed deferred timer.        *)
  workerQueue,
  job,           (* What is left of onLoadingDone: its turn and its calls. *)
  (* The model controller's thread.                                        *)
  modelQueue,
  modelPc,
  crawledStorage (* The urls in its Crawled storage.                       *)

userVars   == <<session, starts, stops, clears>>
mainVars   == <<state, crawlingFinished, mainPc, snapshot, mainQueue,
                sequencedStorage, userVars>>
sharedVars == <<turnaround, workersProcessedLinksCount,
                modelControllerCrawledLinksCount,
                modelControllerAcceptedLinksCount,
                sequencedDataCollectionLinksCount>>
workerVars == <<isRunning, requester, inFlight, extractDue, workerQueue, job>>
modelVars  == <<modelQueue, modelPc, crawledStorage>>
pipelineVars == <<storeVars, mainVars, sharedVars, workerVars, modelVars>>

Idle == [call |-> "none"]
NoJob == [turn |-> -1, calls |-> <<>>]

Init ==
  (* The options and the licence are chosen before the crawl.              *)
  /\ EmptyStore /\ limitCrawledLinksCount \in Limits /\ isTrialLicense \in Licences
  /\ state = "Pending" /\ crawlingFinished = FALSE
  /\ mainPc = "idle" /\ snapshot = <<>> /\ mainQueue = <<>>
  /\ sequencedStorage = {}
  /\ session = "none" /\ starts = 0 /\ stops = 0 /\ clears = 0
  /\ turnaround = 0 /\ workersProcessedLinksCount = 0
  /\ modelControllerCrawledLinksCount = 0
  /\ modelControllerAcceptedLinksCount = 0
  /\ sequencedDataCollectionLinksCount = 0
  /\ isRunning = [w \in Workers |-> FALSE]
  /\ requester = [w \in Workers |-> NoLoad]
  /\ inFlight = [w \in Workers |-> {}]
  /\ extractDue = [w \in Workers |-> FALSE]
  /\ workerQueue = [w \in Workers |-> <<>>]
  /\ job = [w \in Workers |-> NoJob]
  /\ modelQueue = <<>> /\ modelPc = Idle /\ crawledStorage = {}

-----------------------------------------------------------------------------
(***************************************************************************)
(* Workers.                                                                *)
(***************************************************************************)

Calls(name, pages) == [i \in 1..Len(pages) |-> [name |-> name, page |-> pages[i]]]

(* schedulePageResourcesLoading: a call of the store for every list.       *)
AddLinks(r) ==
  [i \in 1..Len(Links[r]) |->
     [name |-> "addLinks", page |-> r, links |-> Links[r][i]]]

(* A mutant of handlePage: counts the page before it emits the result. *)
handlePageCountsFirst(r) ==
  AddLinks(r) \o Calls("count", <<r>>) \o Calls("emitResult", <<r>>)
    \o Calls("claimBlocked", Blocked[r])

(* handlePage, for a page that is this worker's to handle.                 *)
handlePage(r) ==
  AddLinks(r) \o Calls("emitResult", <<r>>) \o Calls("count", <<r>>)
    \o Calls("claimBlocked", Blocked[r])

(* onLoadingDone after the turnaround check: the next download, then every *)
(* page of the redirect chain.                                             *)
handleResponseData(r) ==
  Calls("extract", <<r>>) \o handlePage(r) \o Calls("claimHop", Hops[r])

additionalPendingCount ==
  LET over(a, b) == IF a > b THEN a - b ELSE 0 IN
    over(downloaderCrawledLinksCount, modelControllerCrawledLinksCount)
      + over(modelControllerAcceptedLinksCount, sequencedDataCollectionLinksCount)

(* A mutant of canPullLoading: the bound itself is too many. *)
canPullBelow(w) ==
  /\ requester[w] = NoLoad /\ isRunning[w]
  /\ additionalPendingCount < MaxAdditionalPending

canPullLoading(w) ==
  /\ requester[w] = NoLoad /\ isRunning[w]
  /\ additionalPendingCount <= MaxAdditionalPending

(* Without page refreshes: nothing when stopped, the timer when the loader *)
(* cannot take more, else the next pending url if there is one.            *)
extractUrlAndDownload(w) ==
  \/ /\ ~isRunning[w]
     /\ extractDue' = [extractDue EXCEPT ![w] = FALSE]
     /\ UNCHANGED <<requester, inFlight, storeVars>>
  \/ /\ isRunning[w] /\ ~canPullLoading(w)
     /\ extractDue' = [extractDue EXCEPT ![w] = TRUE]
     /\ UNCHANGED <<requester, inFlight, storeVars>>
  \/ /\ canPullLoading(w) /\ pendingUrlList = {}
     /\ extractDue' = [extractDue EXCEPT ![w] = FALSE]
     /\ UNCHANGED <<requester, inFlight, storeVars>>
  \/ /\ canPullLoading(w)
     /\ extractDue' = [extractDue EXCEPT ![w] = FALSE]
     /\ \E r \in pendingUrlList :
          /\ extractUrl(r)
          /\ LET load == [page |-> r, turn |-> turnaround] IN
               /\ requester' = [requester EXCEPT ![w] = load]
               /\ inFlight' = [inFlight EXCEPT ![w] = @ \union {load}]

(* A queued urlAdded or the deferred timer; several of them act as one.    *)
ExtractDue(w) ==
  /\ job[w] = NoJob /\ extractDue[w]
  /\ extractUrlAndDownload(w)
  /\ UNCHANGED <<mainVars, sharedVars, isRunning, workerQueue, job, modelVars>>

(* The downloader answers, or the request's timeout does. The loader's     *)
(* signal is queued to the worker that owns it. Whatever request this is   *)
(* the answer to, the loader lets its present requester go.                *)
LoadingDone(w) ==
  /\ job[w] = NoJob
  /\ requester' = [requester EXCEPT ![w] = NoLoad]
  /\ \E load \in inFlight[w] :
       /\ inFlight' = [inFlight EXCEPT ![w] = @ \ {load}]
       /\ workerQueue' = [workerQueue EXCEPT
            ![w] = Append(@, [event |-> "pageLoaded", load |-> load])]
  /\ UNCHANGED <<storeVars, mainVars, sharedVars, isRunning, extractDue, job,
                 modelVars>>

Receives(w, name) ==
  /\ job[w] = NoJob /\ workerQueue[w] # <<>>
  /\ Head(workerQueue[w]).event = name

Event(w, name) ==
  /\ Receives(w, name)
  /\ workerQueue' = [workerQueue EXCEPT ![w] = Tail(@)]

(* A mutant of AcceptsLoad: a stopped worker takes no answers. *)
AcceptsLoadWhenRunning(w, load) == load.turn = turnaround /\ isRunning[w]

(* The answer to a request of an earlier crawl is dropped here, and only   *)
(* here.                                                                   *)
AcceptsLoad(w, load) == load.turn = turnaround

onLoadingDone(w) ==
  /\ Event(w, "pageLoaded")
  /\ LET load == Head(workerQueue[w]).load IN
       \/ /\ ~AcceptsLoad(w, load)
          /\ UNCHANGED <<storeVars, job>>
       \/ /\ AcceptsLoad(w, load)
          /\ activeRequestReceived(load.page)
          /\ job' = [job EXCEPT ![w] =
               [turn |-> load.turn, calls |-> handleResponseData(load.page)]]
  /\ UNCHANGED <<mainVars, sharedVars, isRunning, requester, inFlight, extractDue, modelVars>>

start(w) ==
  /\ Event(w, "start")
  /\ isRunning' = [isRunning EXCEPT ![w] = TRUE]
  /\ job' = [job EXCEPT ![w] =
       [turn |-> -1, calls |-> Calls("extract", <<StartPage>>)]]
  /\ UNCHANGED <<storeVars, mainVars, sharedVars, requester, inFlight, extractDue, modelVars>>

(* The main thread is blocked until the last worker has stopped.           *)
stop(w) ==
  /\ Receives(w, "stop")
  /\ isRunning' = [isRunning EXCEPT ![w] = FALSE]
  /\ mainPc' = IF w < WorkerCount THEN mainPc
               ELSE IF mainPc = "endStop" THEN "endStopped" ELSE "idle"
  /\ workerQueue' = IF w < WorkerCount
       THEN [workerQueue EXCEPT ![w] = Tail(@),
                                ![w + 1] = Append(@, [event |-> "stop"])]
       ELSE [workerQueue EXCEPT ![w] = Tail(@)]
  /\ UNCHANGED <<storeVars, state, crawlingFinished, snapshot, mainQueue,
                 sequencedStorage, userVars, sharedVars, requester, inFlight,
                 extractDue, job, modelVars>>

Call(w, name) == job[w] # NoJob /\ Head(job[w].calls).name = name
CalledPage(w) == Head(job[w].calls).page

(* The handler goes on with these calls before its remaining ones.         *)
Continue(w, calls) ==
  LET rest == calls \o Tail(job[w].calls) IN
    job' = [job EXCEPT ![w] = IF rest = <<>> THEN NoJob
                              ELSE [turn |-> job[w].turn, calls |-> rest]]

extract(w) ==
  /\ Call(w, "extract") /\ Continue(w, <<>>)
  /\ extractUrlAndDownload(w)
  /\ UNCHANGED <<mainVars, sharedVars, isRunning, workerQueue, modelVars>>

(* A list of links goes to the store, which tells every worker.            *)
addLinks(w) ==
  /\ Call(w, "addLinks") /\ Continue(w, <<>>)
  /\ addUrlList(Head(job[w].calls).links)
  /\ extractDue' = [v \in Workers |-> TRUE]
  /\ UNCHANGED <<mainVars, sharedVars, isRunning, requester, inFlight, workerQueue, modelVars>>

(* onPageParsed: the result first, the counter second.                     *)
emitResult(w) ==
  /\ Call(w, "emitResult") /\ Continue(w, <<>>)
  /\ modelQueue' = Append(modelQueue,
       [event |-> "result", page |-> CalledPage(w), turn |-> job[w].turn])
  /\ UNCHANGED <<storeVars, mainVars, sharedVars, isRunning, requester, inFlight,
                 extractDue, workerQueue, modelPc, crawledStorage>>

count(w) ==
  /\ Call(w, "count") /\ Continue(w, <<>>)
  /\ workersProcessedLinksCount' = workersProcessedLinksCount + 1
  /\ UNCHANGED <<storeVars, mainVars, turnaround, modelControllerCrawledLinksCount,
                 modelControllerAcceptedLinksCount, sequencedDataCollectionLinksCount,
                 isRunning, requester, inFlight, extractDue, workerQueue, modelVars>>

(* The next page of a redirect chain is handled by the worker that gets it *)
(* into the crawled urls.                                                  *)
claimHop(w) ==
  /\ Call(w, "claimHop")
  /\ addCrawledUrl(CalledPage(w))
  /\ Continue(w, IF addCrawledUrlReturns(CalledPage(w))
                 THEN handlePage(CalledPage(w)) ELSE <<>>)
  /\ UNCHANGED <<mainVars, sharedVars, isRunning, requester, inFlight, extractDue,
                 workerQueue, modelVars>>

(* A link blocked by robots.txt is a result of its own, never downloaded.  *)
claimBlocked(w) ==
  /\ Call(w, "claimBlocked")
  /\ addCrawledUrl(CalledPage(w))
  /\ Continue(w, IF addCrawledUrlReturns(CalledPage(w))
                 THEN Calls("emitResult", <<CalledPage(w)>>)
                        \o Calls("count", <<CalledPage(w)>>)
                 ELSE <<>>)
  /\ UNCHANGED <<mainVars, sharedVars, isRunning, requester, inFlight, extractDue,
                 workerQueue, modelVars>>

(* onAllLoadedDataToBeCleared: the loader forgets its request, which the   *)
(* downloader still answers.                                               *)
workerClear(w) ==
  /\ Event(w, "clear")
  /\ requester' = [requester EXCEPT ![w] = NoLoad]
  /\ workersProcessedLinksCount' = 0
  /\ UNCHANGED <<storeVars, mainVars, turnaround, modelControllerCrawledLinksCount,
                 modelControllerAcceptedLinksCount, sequencedDataCollectionLinksCount,
                 isRunning, inFlight, extractDue, job, modelVars>>

Worker(w) ==
  \/ ExtractDue(w) \/ onLoadingDone(w) \/ start(w) \/ stop(w) \/ workerClear(w)
  \/ extract(w) \/ addLinks(w) \/ emitResult(w) \/ count(w)
  \/ claimHop(w) \/ claimBlocked(w)

-----------------------------------------------------------------------------
(***************************************************************************)
(* The model controller: a page is added to its storages, which emits the  *)
(* signal to the main thread at once (the EmitBlocker blocks nothing: the  *)
(* lists it would emit are never filled), then counted as accepted, then   *)
(* as crawled.                                                             *)
(***************************************************************************)

ModelEvent(name) ==
  /\ modelPc = Idle /\ modelQueue # <<>>
  /\ Head(modelQueue).event = name
  /\ modelQueue' = Tail(modelQueue)

(* A mutant of AcceptsResult: results of earlier crawls are taken. *)
AcceptsAnyResult(result) == TRUE

AcceptsResult(result) == result.turn = turnaround

(* A filtered page, and the second request for a page already there, are   *)
(* counted but not accepted.                                               *)
handleWorkerResult ==
  /\ ModelEvent("result")
  /\ LET result == Head(modelQueue) IN
       modelPc' = IF ~AcceptsResult(result) THEN Idle
                  ELSE [call |-> IF result.page \in Filtered
                                    \/ PageUrl[result.page] \in crawledStorage
                                 THEN "count" ELSE "add",
                        url |-> PageUrl[result.page], turn |-> result.turn]
  /\ UNCHANGED <<storeVars, mainVars, sharedVars, workerVars, crawledStorage>>

modelAdd ==
  /\ modelPc.call = "add"
  /\ crawledStorage' = crawledStorage \union {modelPc.url}
  /\ mainQueue' = Append(mainQueue,
       [event |-> "added", url |-> modelPc.url, turn |-> modelPc.turn])
  /\ modelPc' = [modelPc EXCEPT !.call = "accept"]
  /\ UNCHANGED <<storeVars, state, crawlingFinished, mainPc, snapshot,
                 sequencedStorage, userVars, sharedVars, workerVars, modelQueue>>

(* The end of processParsedPageUrl.                                        *)
modelAccept ==
  /\ modelPc.call = "accept"
  /\ modelControllerAcceptedLinksCount' = modelControllerAcceptedLinksCount + 1
  /\ modelPc' = [modelPc EXCEPT !.call = "count"]
  /\ UNCHANGED <<storeVars, mainVars, turnaround, workersProcessedLinksCount,
                 modelControllerCrawledLinksCount,
                 sequencedDataCollectionLinksCount, workerVars, modelQueue,
                 crawledStorage>>

modelCount ==
  /\ modelPc.call = "count"
  /\ modelControllerCrawledLinksCount' = modelControllerCrawledLinksCount + 1
  /\ modelPc' = Idle
  /\ UNCHANGED <<storeVars, mainVars, turnaround, workersProcessedLinksCount,
                 modelControllerAcceptedLinksCount,
                 sequencedDataCollectionLinksCount, workerVars, modelQueue,
                 crawledStorage>>

(* Called by the main thread, which waits for it.                          *)
modelClear ==
  /\ ModelEvent("clear")
  /\ crawledStorage' = {}
  /\ mainQueue' = Append(mainQueue, [event |-> "cleared"])
  /\ modelControllerAcceptedLinksCount' = 0
  /\ modelControllerCrawledLinksCount' = 0
  /\ mainPc' = "clearStore"
  /\ UNCHANGED <<storeVars, state, crawlingFinished, snapshot, sequencedStorage,
                 userVars, turnaround, workersProcessedLinksCount,
                 sequencedDataCollectionLinksCount, workerVars, modelPc>>

Model ==
  \/ handleWorkerResult \/ modelAdd \/ modelAccept \/ modelCount \/ modelClear

-----------------------------------------------------------------------------
(***************************************************************************)
(* The main thread.                                                        *)
(***************************************************************************)

MainEvent(name) ==
  /\ mainPc = "idle" /\ mainQueue # <<>>
  /\ Head(mainQueue).event = name
  /\ mainQueue' = Tail(mainQueue)

(* SequencedDataCollection: a page added in an earlier turn is ignored.    *)
addParsedPage ==
  /\ MainEvent("added")
  /\ LET page == Head(mainQueue) IN
       \/ /\ page.turn # turnaround
          /\ UNCHANGED <<sequencedStorage, sequencedDataCollectionLinksCount>>
       \/ /\ page.turn = turnaround
          /\ sequencedStorage' = sequencedStorage \union {page.url}
          /\ sequencedDataCollectionLinksCount' =
               sequencedDataCollectionLinksCount + 1
  /\ UNCHANGED <<storeVars, state, crawlingFinished, mainPc, snapshot, userVars,
                 turnaround, workersProcessedLinksCount,
                 modelControllerCrawledLinksCount,
                 modelControllerAcceptedLinksCount, workerVars, modelVars>>

(* A mutant of onDataCleared: the counter loses the pages shown, after     *)
(* another thread has reset it.                                            *)
onDataClearedSubtracts ==
  /\ MainEvent("cleared")
  /\ sequencedStorage' = {}
  /\ sequencedDataCollectionLinksCount' =
       sequencedDataCollectionLinksCount - Cardinality(sequencedStorage)
  /\ UNCHANGED <<storeVars, state, crawlingFinished, mainPc, snapshot, userVars,
                 turnaround, workersProcessedLinksCount,
                 modelControllerCrawledLinksCount,
                 modelControllerAcceptedLinksCount, workerVars, modelVars>>

onDataCleared ==
  /\ MainEvent("cleared")
  /\ sequencedStorage' = {}
  /\ sequencedDataCollectionLinksCount' = 0
  /\ UNCHANGED <<storeVars, state, crawlingFinished, mainPc, snapshot, userVars,
                 turnaround, workersProcessedLinksCount,
                 modelControllerCrawledLinksCount,
                 modelControllerAcceptedLinksCount, workerVars, modelVars>>

(* startCrawling up to onCrawlingSessionInitialized, in a crawler that     *)
(* does not work: the application lets no other start through.             *)
startCrawling ==
  /\ mainPc = "idle" /\ state \in {"Pending", "Pause"} /\ starts < MaxStarts
  /\ starts' = starts + 1
  /\ session' = IF session = "none" THEN "unnamed" ELSE session
  /\ state' = "Working" /\ crawlingFinished' = FALSE
  /\ addUrlList({StartPage})
  /\ extractDue' = IF LimitReached \/ StartPage \in crawledUrlList
                   THEN extractDue ELSE [w \in Workers |-> TRUE]
  /\ workerQueue' = [w \in Workers |->
       Append(workerQueue[w], [event |-> "start"])]
  /\ UNCHANGED <<mainPc, snapshot, mainQueue, sequencedStorage, stops, clears,
                 sharedVars, isRunning, requester, inFlight, job, modelVars>>

(* A mutant of BeginStop: the main thread does not wait for the workers. *)
BeginStopWithoutWaiting(pc) ==
  /\ state' = "Pause"
  /\ mainPc' = IF pc = "endStop" THEN "endStopped" ELSE "idle"
  /\ workerQueue' = [workerQueue EXCEPT ![1] = Append(@, [event |-> "stop"])]

BeginStop(pc) ==
  /\ state' = "Pause"
  /\ mainPc' = pc
  /\ workerQueue' = [workerQueue EXCEPT ![1] = Append(@, [event |-> "stop"])]

(* The user stops the crawl.                                               *)
stopCrawling ==
  /\ mainPc = "idle" /\ state = "Working" /\ stops < MaxStops
  /\ stops' = stops + 1
  /\ BeginStop("stop")
  /\ UNCHANGED <<storeVars, crawlingFinished, snapshot, mainQueue,
                 sequencedStorage, session, starts, clears, sharedVars, isRunning,
                 requester, inFlight, extractDue, job, modelVars>>

(* The counters in the order onAboutCrawlingState loads them.              *)
Loads ==
  << sequencedDataCollectionLinksCount, modelControllerCrawledLinksCount,
     modelControllerAcceptedLinksCount, downloaderCrawledLinksCount,
     downloaderPendingLinksCount, workersProcessedLinksCount,
     modelControllerCrawledLinksCount, workersProcessedLinksCount >>

(* A mutant of isCrawlingEnded: what is pending does not matter. *)
isCrawlingEndedDespitePending(s) ==
  s[1] > 0 /\ s[4] = s[6] /\ s[7] = s[8] /\ s[3] = s[1]

(* What it makes of them.                                                  *)
isCrawlingEnded(s) ==
  /\ s[5] = 0 /\ s[1] > 0
  /\ s[4] = s[6] /\ s[7] = s[8]
  /\ s[3] = s[1]

isTrialLicenseMaxLinks(s) == isTrialLicense /\ s[1] >= TrialCap

(* The timer of the crawling state fires.                                  *)
onAboutCrawlingState ==
  /\ mainPc = "idle" /\ state = "Working"
  /\ mainPc' = "load" /\ snapshot' = <<>>
  /\ UNCHANGED <<storeVars, state, crawlingFinished, mainQueue, sequencedStorage,
                 userVars, sharedVars, workerVars, modelVars>>

loadCounter ==
  /\ mainPc = "load" /\ Len(snapshot) < Len(Loads)
  /\ snapshot' = Append(snapshot, Loads[Len(snapshot) + 1])
  /\ UNCHANGED <<storeVars, state, crawlingFinished, mainPc, mainQueue,
                 sequencedStorage, userVars, sharedVars, workerVars,
                 modelVars>>

decideCrawlingEnded ==
  /\ mainPc = "load" /\ Len(snapshot) = Len(Loads)
  /\ snapshot' = <<>>
  /\ IF isCrawlingEnded(snapshot) \/ isTrialLicenseMaxLinks(snapshot)
     THEN BeginStop("endStop")
     ELSE mainPc' = "idle" /\ UNCHANGED <<state, workerQueue>>
  /\ UNCHANGED <<storeVars, crawlingFinished, mainQueue, sequencedStorage,
                 userVars, sharedVars, isRunning, requester, inFlight,
                 extractDue, job, modelVars>>

crawlerFinished ==
  /\ mainPc = "endStopped" /\ mainPc' = "idle"
  /\ state' = "Pending" /\ crawlingFinished' = TRUE
  /\ UNCHANGED <<storeVars, snapshot, mainQueue, sequencedStorage, userVars,
                 sharedVars, workerVars, modelVars>>

(* clearDataImpl: the counters and the turn, then the model's storages,    *)
(* then the store; a worker may run between any two of them. A session     *)
(* without a custom name ends; without any session the code would call     *)
(* through a null pointer, so the data of none is never cleared here.      *)
clearDataImpl ==
  /\ session # "none"
  /\ crawlingFinished' = FALSE
  /\ mainPc' = "clearModel"
  /\ turnaround' = turnaround + 1
  /\ downloaderCrawledLinksCount' = 0 /\ downloaderPendingLinksCount' = 0
  /\ workersProcessedLinksCount' = 0
  /\ modelControllerCrawledLinksCount' = 0
  /\ modelControllerAcceptedLinksCount' = 0
  /\ sequencedDataCollectionLinksCount' = 0
  /\ modelQueue' = Append(modelQueue, [event |-> "clear"])
  /\ UNCHANGED <<listVars, refreshUrlList, optionVars, state, snapshot,
                 mainQueue, sequencedStorage, starts, stops, workerVars, modelPc,
                 crawledStorage>>

clearData ==
  /\ mainPc = "idle" /\ state \in {"Pending", "Pause"} /\ clears < MaxClears
  /\ clears' = clears + 1
  /\ clearDataImpl
  /\ session' = IF session = "named" THEN "named" ELSE "none"

(* ... and at last onAboutClearData, queued to every worker.               *)
clearStore ==
  /\ mainPc = "clearStore" /\ mainPc' = "idle" /\ state # "Deserialization"
  /\ clear
  /\ state' = "Pending"
  /\ workerQueue' = [w \in Workers |->
       Append(workerQueue[w], [event |-> "clear"])]
  /\ UNCHANGED <<crawlingFinished, snapshot, mainQueue, sequencedStorage, userVars,
                 sharedVars, isRunning, requester, inFlight, extractDue, job, modelVars>>

MainQueue == addParsedPage \/ onDataCleared

MainStep ==
  \/ MainQueue
  \/ onAboutCrawlingState \/ loadCounter \/ decideCrawlingEnded \/ crawlerFinished
  \/ clearStore

User == startCrawling \/ stopCrawling \/ clearData

-----------------------------------------------------------------------------
(* Nothing is under way and the user, who may stop at any time, does no    *)
(* more. (Not a step: it tells a program at rest from a deadlock.)         *)
AtRest ==
  /\ state # "Working" /\ mainPc = "idle"
  /\ mainQueue = <<>> /\ modelQueue = <<>> /\ modelPc = Idle
  /\ \A w \in Workers : job[w] = NoJob /\ workerQueue[w] = <<>>
                         /\ inFlight[w] = {}
  /\ UNCHANGED pipelineVars

Next ==
  \/ User \/ MainStep \/ Model
  \/ \E w \in Workers : Worker(w) \/ LoadingDone(w)
  \/ AtRest

Spec == Init /\ [][Next]_pipelineVars

(* Every thread runs its event loop, every download ends in an answer or,  *)
(* with the timeout that the options set, in that, and the timer fires     *)
(* again and again while the crawler works; the event loop serves queued   *)
(* signals and the timer both. Users need do nothing.                      *)
Fairness ==
  /\ WF_pipelineVars(Model)
  /\ \A w \in Workers : WF_pipelineVars(Worker(w)) /\ WF_pipelineVars(LoadingDone(w))
  /\ WF_pipelineVars(MainStep)
  /\ SF_pipelineVars(MainQueue)

FairSpec == Spec /\ Fairness

-----------------------------------------------------------------------------
(***************************************************************************)
(* Properties.                                                             *)
(***************************************************************************)

EventsAt(queue, name) == {i \in DOMAIN queue : queue[i].event = name}
Counted(queue, name) == Cardinality(EventsAt(queue, name))

Urls == {PageUrl[r] : r \in Requests}
Downloads == [page : Requests, turn : Int]
WorkerEvents ==
  [event : {"pageLoaded"}, load : Downloads]
    \union [event : {"start", "stop", "clear"}]
CallRecords ==
  [name : {"extract", "emitResult", "count", "claimHop", "claimBlocked"},
   page : Requests]
    \union [name : {"addLinks"}, page : Requests, links : SUBSET Requests]
ModelEvents ==
  [event : {"result"}, page : Requests, turn : Int] \union [event : {"clear"}]
MainEvents ==
  [event : {"added"}, url : Urls, turn : Int] \union [event : {"cleared"}]

StoreShape ==
  /\ pendingUrlList \subseteq Requests /\ crawledUrlList \subseteq Requests
  /\ activeUrlList \subseteq Requests
  /\ {downloaderCrawledLinksCount, downloaderPendingLinksCount} \subseteq Int
  /\ limitCrawledLinksCount \in Int /\ isTrialLicense \in BOOLEAN

MainShape ==
  /\ state \in {"Pending", "Working", "Pause", "Serialization", "Deserialization"}
  /\ crawlingFinished \in BOOLEAN /\ session \in {"none", "unnamed", "named"}
  /\ mainPc \in {"idle", "load", "stop", "endStop", "endStopped", "clearModel",
                 "clearStore", "savePending", "saveCrawled"}
  /\ snapshot \in Seq(Int) /\ mainQueue \in Seq(MainEvents)
  /\ sequencedStorage \subseteq Urls
  /\ {starts, stops, clears} \subseteq Nat

WorkerShape ==
  /\ isRunning \in [Workers -> BOOLEAN] /\ extractDue \in [Workers -> BOOLEAN]
  /\ requester \in [Workers -> Downloads]
  /\ inFlight \in [Workers -> SUBSET Downloads]
  /\ workerQueue \in [Workers -> Seq(WorkerEvents)]
  /\ job \in [Workers -> [turn : Int, calls : Seq(CallRecords)]]
  /\ \A w \in Workers : job[w] = NoJob \/ job[w].calls # <<>>

ModelShape ==
  /\ modelQueue \in Seq(ModelEvents)
  /\ \/ modelPc = Idle
     \/ modelPc \in [call : {"add", "accept", "count"}, url : Urls, turn : Int]
  /\ crawledStorage \subseteq Urls

(* The shape of the state; no counter of a thread ever drops below zero,   *)
(* also while the data is cleared under the threads' feet. (The counters   *)
(* of the store may: they are reset before its lists are.)                 *)
PipelineTypeOK ==
  /\ StoreShape /\ MainShape /\ WorkerShape /\ ModelShape
  /\ {turnaround, workersProcessedLinksCount, modelControllerCrawledLinksCount,
      modelControllerAcceptedLinksCount, sequencedDataCollectionLinksCount}
       \subseteq Nat

(* How many elements the sets of all workers have together.                *)
SizeOf(sets) == Cardinality(UNION {{w} \X sets[w] : w \in Workers})

Answers(queue) == EventsAt(queue, "pageLoaded")
Uncounted(calls) == {i \in DOMAIN calls : calls[i].name = "count"}

(* Pages that a worker has taken from the store and not yet counted.       *)
InHand ==
  SizeOf(inFlight)
    + SizeOf([w \in Workers |-> Answers(workerQueue[w])])
    + SizeOf([w \in Workers |-> Uncounted(job[w].calls)])

(* Until the data is cleared for the first time, every page a worker took  *)
(* is in exactly one place of the pipeline or in the counter behind it,    *)
(* across stops and starts: this is what lets the main thread conclude     *)
(* from equal counters that nothing is under way.                          *)
PipelineBalanced ==
  clears = 0 =>
    /\ downloaderCrawledLinksCount = workersProcessedLinksCount + InHand
    /\ workersProcessedLinksCount
         + Cardinality({w \in Workers : Call(w, "count")})
         = modelControllerCrawledLinksCount + Counted(modelQueue, "result")
         + (IF modelPc # Idle THEN 1 ELSE 0)
    /\ modelControllerAcceptedLinksCount
         + (IF modelPc.call = "accept" THEN 1 ELSE 0)
         = sequencedDataCollectionLinksCount + Counted(mainQueue, "added")

BlockedPages == UNION {ToSet(Blocked[r]) : r \in Requests}
HopPages == UNION {ToSet(Hops[r]) : r \in Requests}

(* The site is crawled as far as the limits allow: nothing waits, all that *)
(* is crawled is shown unless the options filter it, and what the pages    *)
(* lead to is crawled. A page that some link was blocked to may never have *)
(* been loaded, and one that is a hop of another is not asked for its own  *)
(* redirects.                                                              *)
CrawlComplete ==
  /\ pendingUrlList = {}
  /\ sequencedStorage = {PageUrl[r] : r \in crawledUrlList \ Filtered}
  /\ ~LimitReached =>
       /\ StartPage \in crawledUrlList
       /\ \A r \in crawledUrlList \ BlockedPages :
            /\ (UNION ToSet(Links[r])) \union ToSet(Blocked[r]) \subseteq crawledUrlList
            /\ r \in HopPages \/ ToSet(Hops[r]) \subseteq crawledUrlList

(* If all counters could be read at once, and no worker were in the middle *)
(* of a response, the condition of onAboutCrawlingState would mean that    *)
(* the crawl is complete.                                                  *)
EndConditionSound ==
  /\ clears = 0 /\ isCrawlingEnded(Loads)
  /\ \A w \in Workers : job[w] = NoJob
  => CrawlComplete

(* The view and the model agree on the pages of the current crawl, save    *)
(* for the signals on their way, however clears and late results fall.     *)
ViewMatchesModel ==
  /\ mainPc \notin {"clearModel", "clearStore"}
  /\ Counted(mainQueue, "cleared") = 0
  => LET underWay == {i \in DOMAIN mainQueue : mainQueue[i].turn = turnaround} IN
       /\ crawledStorage = sequencedStorage
            \union {mainQueue[i].url : i \in underWay}
       /\ modelControllerAcceptedLinksCount + (IF modelPc.call = "accept" THEN 1 ELSE 0)
            = Cardinality(crawledStorage)
       /\ sequencedDataCollectionLinksCount = Cardinality(sequencedStorage)

(* While the main thread is told that the crawler has stopped, no worker   *)
(* starts a download: the blocking stop reached all of them.               *)
StoppedStartNothing ==
  [][state # "Working" /\ mainPc = "idle" /\ state' # "Working" =>
       \A w \in Workers : inFlight'[w] \subseteq inFlight[w]]_pipelineVars

(* A crawl that nobody stops ends by itself: the counters come to agree,   *)
(* and the throttle of the loaders never holds the last pages back.        *)
CrawlEnds == state = "Working" ~> state # "Working"

(* A page taken from the store is shown in the end, also when the crawl is *)
(* stopped while it is loading.                                            *)
TakenIsShown ==
  \A r \in Requests \ Filtered :
    r \in crawledUrlList ~> (PageUrl[r] \in sequencedStorage \/ clears > 0)

(* "Program has ended crawling": the crawl is complete when it says so.    *)
FinishedMeansComplete == crawlingFinished => CrawlComplete
=============================================================================
