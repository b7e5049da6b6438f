----------------------------- MODULE CrawlerSession -----------------------------
(***************************************************************************)
(* The main thread's Crawler: the state machine of its crawls, its saves,  *)
(* its loads and its page refreshes, and the checks that precede a crawl.  *)
(*                                                                         *)
(* A crawl starts with checks that are answered later: the host is looked  *)
(* up (HostInfoProvider), then robots.txt is downloaded (RobotsTxtLoader), *)
(* then the site map (XmlSitemapLoader). Each loader that is ready posts a *)
(* call of onCrawlingSessionInitialized, and the one that finds both ready *)
(* starts the workers.                                                     *)
(*                                                                         *)
(* The WaitOperationFrame blocks the window while an operation runs. The   *)
(* menu of the tray icon is not blocked by it: Start and Stop can be       *)
(* chosen there at any time, which TrayMenu allows.                        *)
(*                                                                         *)
(* What the crawl finds is CrawlPipeline's, what a file holds is           *)
(* ProjectFileSave's. Posted calls are handled before the user's input, as *)
(* Qt does.                                                                *)
(***************************************************************************)

EXTENDS Integers

CONSTANTS
  Hosts,      (* The sites the user may crawl.                             *)
  NoHost,
  TrayMenu,   (* Start and Stop are chosen in the tray's menu, too.        *)
  MaxStarts   (* Bound of the model: how often a crawl is started.         *)

ASSUME SessionAssumption ==
  NoHost \notin Hosts /\ TrayMenu \in BOOLEAN /\ MaxStarts \in Nat

States == {"Pending", "Working", "Pause", "Serialization", "Deserialization",
           "PageRefresh", "PreChecking"}
FileStates == {"Serialization", "Deserialization"}
Settled == {"Pending", "Pause"}

(* The address crawled: the site, and whether it is written with "www.".   *)
Pages == [host : Hosts, www : BOOLEAN]
NoPage == [host |-> NoHost, www |-> FALSE]

(* RobotsTxtLoader and XmlSitemapLoader: of whose file the content is.     *)
Loaders == [ready : BOOLEAN, valid : BOOLEAN, of : Hosts \union {NoHost}]
FreshLoader == [ready |-> FALSE, valid |-> FALSE, of |-> NoHost]

VARIABLES
  state, prevState,
  frame,            (* The WaitOperationFrame is shown.                    *)
  session,          (* "none", or a session "unnamed" or "named".          *)
  crawlingFinished, hasData,
  startPage,        (* CrawlerOptions::startCrawlingPage.                  *)
  starts,
  (* The checks.                                                           *)
  hostInfo,         (* m_hostInfo is known.                                *)
  lookup,           (* The host m_hostInfoRequester waits for.             *)
  robots, robotsRequest, sitemap, sitemapRequest,
  readyCalls,       (* Posted calls of onCrawlingSessionInitialized.       *)
  (* The workers: whether they run, and whose robots.txt they obey.        *)
  workers, rulesOf, crawlingStateTimer,
  (* Saves and loads, and the refresh of a page.                           *)
  checkerTimer,     (* m_serializatonReadyStateCheckerTimer.               *)
  task,             (* "none", or what the SerializerThread does.          *)
  clearOnDone, refreshing

stateVars == <<state, prevState, frame>>
dataVars == <<session, crawlingFinished, hasData, startPage, starts>>
checkVars == <<hostInfo, lookup, robots, robotsRequest, sitemap, sitemapRequest,
               readyCalls>>
workerVars == <<workers, rulesOf, crawlingStateTimer>>
fileVars == <<checkerTimer, task, clearOnDone>>
sessionVars == <<stateVars, dataVars, checkVars, workerVars, fileVars, refreshing>>

Init ==
  /\ state = "Pending" /\ prevState = "Pending" /\ frame = FALSE
  /\ session = "none" /\ crawlingFinished = FALSE /\ hasData = FALSE
  /\ startPage = NoPage /\ starts = 0
  /\ hostInfo = FALSE /\ lookup = NoPage
  /\ robots = FreshLoader /\ robotsRequest = NoHost
  /\ sitemap = FreshLoader /\ sitemapRequest = NoHost /\ readyCalls = 0
  /\ workers = FALSE /\ rulesOf = NoHost /\ crawlingStateTimer = FALSE
  /\ checkerTimer = FALSE /\ task = "none" /\ clearOnDone = FALSE
  /\ refreshing = FALSE

-----------------------------------------------------------------------------
(***************************************************************************)
(* The checks that precede a crawl.                                        *)
(***************************************************************************)

isPreinitialized == robots.ready /\ sitemap.ready

setState(s) == state' = s /\ prevState' = state

(* A mutant of StartWorkers: crawlerStarted does not close the frame. *)
StartWorkersUnseen ==
  /\ session' = IF session = "none" THEN "unnamed" ELSE session
  /\ workers' = TRUE /\ rulesOf' = robots.of /\ crawlingStateTimer' = TRUE
  /\ UNCHANGED frame

(* onCrawlingSessionInitialized once both are ready: the workers get the   *)
(* rules of the robots.txt that the loader has.                            *)
StartWorkers ==
  /\ session' = IF session = "none" THEN "unnamed" ELSE session
  /\ workers' = TRUE /\ rulesOf' = robots.of /\ crawlingStateTimer' = TRUE
  /\ frame' = FALSE

(* XmlSitemapLoader::load with robots.txt ready, which has posted so many  *)
(* calls. It calls, too, when it has the site map already. What robots.txt *)
(* may say of the site map's place is left out.                            *)
LoadSitemap(host, posted) ==
  IF sitemap.valid \/ sitemap.of = host
  THEN readyCalls' = readyCalls + posted + 1 /\ UNCHANGED sitemapRequest
  ELSE sitemapRequest' = host /\ readyCalls' = readyCalls + posted

(* tryToLoadCrawlingDependencies, where the loaders are not both ready.    *)
LoadChecks(page) ==
  IF robots.of = page.host
  THEN /\ sitemapRequest' = page.host /\ readyCalls' = readyCalls + 1
       /\ UNCHANGED robotsRequest
  ELSE /\ robotsRequest' = page.host
       /\ IF robots.ready THEN LoadSitemap(page.host, 0)
          ELSE UNCHANGED <<sitemapRequest, readyCalls>>

(* A mutant of onHostInfoResponse: a host that is not found is only told. *)
onHostInfoResponseTells ==
  /\ lookup # NoPage /\ lookup' = NoPage
  /\ \/ /\ frame' = FALSE
        /\ UNCHANGED <<state, prevState, dataVars, hostInfo, robotsRequest,
                       sitemapRequest, readyCalls, workerVars>>
     \/ /\ hostInfo' = TRUE /\ startPage' = lookup
        /\ LoadChecks(lookup)
        /\ UNCHANGED <<stateVars, session, crawlingFinished, hasData, starts,
                       workerVars>>
  /\ UNCHANGED <<robots, sitemap, fileVars, refreshing>>

(* onHostInfoResponse. A host that answers for "www." has its name changed.*)
(* Whether the crawl is still wanted is not looked at.                     *)
onHostInfoResponse ==
  /\ lookup # NoPage /\ lookup' = NoPage
  /\ \/ /\ setState("Pending") /\ frame' = FALSE
        /\ UNCHANGED <<dataVars, hostInfo, robotsRequest, sitemapRequest, readyCalls,
                       workerVars>>
     \/ /\ hostInfo' = TRUE
        /\ \E www \in BOOLEAN : startPage' = [lookup EXCEPT !.www = www]
        /\ \/ /\ isPreinitialized
              /\ setState("Working") /\ StartWorkers
              /\ UNCHANGED <<robotsRequest, sitemapRequest, readyCalls>>
           \/ /\ ~isPreinitialized
              /\ LoadChecks(lookup)
              /\ UNCHANGED <<stateVars, session, workerVars>>
        /\ UNCHANGED <<crawlingFinished, hasData, starts>>
  /\ UNCHANGED <<robots, sitemap, fileVars, refreshing>>

(* RobotsTxtLoader::onLoadingDone: the ready signal loads the site map at  *)
(* once, and posts a call.                                                 *)
RobotsLoaded ==
  /\ robotsRequest # NoHost /\ robotsRequest' = NoHost
  /\ \E valid \in BOOLEAN :
       robots' = [ready |-> TRUE, valid |-> valid, of |-> robotsRequest]
  /\ LoadSitemap(robotsRequest, 1)
  /\ UNCHANGED <<stateVars, dataVars, hostInfo, lookup, sitemap, workerVars,
                 fileVars, refreshing>>

(* XmlSitemapLoader::onLoadingDone.                                        *)
SitemapLoaded ==
  /\ sitemapRequest # NoHost /\ sitemapRequest' = NoHost
  /\ \E valid \in BOOLEAN :
       sitemap' = [ready |-> TRUE, valid |-> valid, of |-> sitemapRequest]
  /\ readyCalls' = readyCalls + 1
  /\ UNCHANGED <<stateVars, dataVars, hostInfo, lookup, robots, robotsRequest,
                 workerVars, fileVars, refreshing>>

(* A mutant: the first loader that is ready starts the workers. *)
onCrawlingSessionInitializedAtOnce ==
  /\ readyCalls > 0 /\ readyCalls' = readyCalls - 1
  /\ setState("Working") /\ StartWorkers
  /\ UNCHANGED <<crawlingFinished, hasData, startPage, starts, hostInfo, lookup, robots,
                 robotsRequest, sitemap, sitemapRequest, fileVars, refreshing>>

(* A posted call. In what state the crawler is now is not looked at.       *)
onCrawlingSessionInitialized ==
  /\ readyCalls > 0 /\ readyCalls' = readyCalls - 1
  /\ \/ isPreinitialized /\ setState("Working") /\ StartWorkers
     \/ ~isPreinitialized /\ UNCHANGED <<stateVars, session, workerVars>>
  /\ UNCHANGED <<crawlingFinished, hasData, startPage, starts, hostInfo, lookup, robots,
                 robotsRequest, sitemap, sitemapRequest, fileVars, refreshing>>

-----------------------------------------------------------------------------
(***************************************************************************)
(* The user starts and stops a crawl, and clears it.                       *)
(***************************************************************************)

(* The window takes commands, which come after all posted calls.           *)
InWindow == ~frame /\ readyCalls = 0
InMenu == readyCalls = 0 /\ (TrayMenu \/ ~frame)

(* clearData: an unnamed session ends with its data.                       *)
Cleared ==
  /\ session' = IF session = "named" THEN "named" ELSE "none"
  /\ hasData' = FALSE /\ crawlingFinished' = FALSE /\ hostInfo' = FALSE
  /\ refreshing' = FALSE

(* Application::startCrawler and Crawler::startCrawling. The window's      *)
(* button offers a restart when the crawl had finished. After a pause the  *)
(* address stays; and when nothing is left to check, the workers start.    *)
startCrawler(page) ==
  /\ InMenu /\ starts < MaxStarts /\ starts' = starts + 1
  /\ state \notin {"Working", "PreChecking"}
  /\ crawlingFinished => TrayMenu
  /\ startPage' = IF state = "Pause" THEN startPage ELSE page
  /\ crawlingFinished' = FALSE
  /\ IF hostInfo /\ isPreinitialized
     THEN /\ state' = "Working" /\ prevState' = "PreChecking" /\ StartWorkers
          /\ UNCHANGED <<lookup, robotsRequest, sitemapRequest, readyCalls>>
     ELSE /\ setState("PreChecking") /\ frame' = TRUE
          /\ IF hostInfo
             THEN LoadChecks(startPage') /\ UNCHANGED lookup
             ELSE /\ lookup' = startPage'
                  /\ UNCHANGED <<robotsRequest, sitemapRequest, readyCalls>>
          /\ UNCHANGED <<session, workerVars>>
  /\ UNCHANGED <<hasData, hostInfo, robots, sitemap, fileVars, refreshing>>

(* Application::restartCrawler: clearData, and startCrawler.               *)
restartCrawler(page) ==
  /\ InWindow /\ starts < MaxStarts /\ starts' = starts + 1
  /\ state \in Settled /\ crawlingFinished
  /\ Cleared
  /\ state' = "PreChecking" /\ prevState' = "Pending" /\ frame' = TRUE
  /\ startPage' = page /\ lookup' = page
  /\ UNCHANGED <<robots, robotsRequest, sitemap, sitemapRequest, readyCalls,
                 workerVars, fileVars>>

(* A mutant of stopCrawling: the timer is left running. *)
stopCrawlingKeepsTimer ==
  /\ InMenu /\ state \notin Settled
  /\ setState("Pause") /\ frame' = FALSE
  /\ workers' = FALSE
  /\ UNCHANGED <<dataVars, checkVars, rulesOf, crawlingStateTimer, fileVars, refreshing>>

(* Application::stopCrawler and Crawler::stopCrawling. Nothing of the      *)
(* checks is stopped.                                                      *)
stopCrawling ==
  /\ InMenu /\ state \notin Settled
  /\ setState("Pause") /\ frame' = FALSE
  /\ workers' = FALSE /\ crawlingStateTimer' = FALSE
  /\ UNCHANGED <<dataVars, checkVars, rulesOf, fileVars, refreshing>>

(* MainWindow::clearCrawledData, and Crawler::clearData.                   *)
clearData ==
  /\ InWindow /\ state \in Settled
  /\ Cleared /\ setState("Pending")
  /\ UNCHANGED <<frame, startPage, starts, lookup, robots, robotsRequest, sitemap,
                 sitemapRequest, readyCalls, workerVars, fileVars>>

(* The first page a crawl shows.                                           *)
PageShown ==
  /\ workers /\ ~hasData /\ hasData' = TRUE
  /\ UNCHANGED <<stateVars, session, crawlingFinished, startPage, starts, checkVars,
                 workerVars, fileVars, refreshing>>

(* onAboutCrawlingState, when the crawl has ended: stopCrawling, which     *)
(* does nothing in a settled state, and then Pending. A posted call is     *)
(* handled before, by the events that closing the frame processes.         *)
CrawlEnded ==
  /\ crawlingStateTimer /\ hasData /\ readyCalls = 0
  /\ state' = "Pending" /\ frame' = FALSE /\ crawlingFinished' = TRUE
  /\ IF state \in Settled
     THEN prevState' = state /\ UNCHANGED <<workers, crawlingStateTimer>>
     ELSE prevState' = "Pause" /\ workers' = FALSE /\ crawlingStateTimer' = FALSE
  /\ UNCHANGED <<session, hasData, startPage, starts, checkVars, rulesOf, fileVars,
                 refreshing>>

-----------------------------------------------------------------------------
(***************************************************************************)
(* A page is refreshed; the project is saved, closed and loaded.           *)
(***************************************************************************)

(* RefreshPageCommand::execute and Crawler::refreshPage.                   *)
refreshPage ==
  /\ InWindow /\ hasData /\ state \in Settled
  /\ setState("PageRefresh") /\ frame' = TRUE /\ refreshing' = TRUE
  /\ UNCHANGED <<dataVars, checkVars, workerVars, fileVars>>

onRefreshPageDone ==
  /\ refreshing /\ refreshing' = FALSE
  /\ setState(prevState) /\ frame' = FALSE
  /\ UNCHANGED <<dataVars, checkVars, workerVars, fileVars>>

(* saveFile and saveToFile, for which ContentFrame shows the frame as it   *)
(* does for a load; saveFileAndClearData waits for the end.                *)
saveFile(andClear) ==
  /\ InWindow /\ session # "none" /\ state \in Settled
  /\ session' = "named" /\ clearOnDone' = andClear
  /\ setState("Serialization") /\ frame' = TRUE /\ checkerTimer' = TRUE
  /\ UNCHANGED <<crawlingFinished, hasData, startPage, starts, checkVars, workerVars,
                 task, refreshing>>

(* A mutant of loadFromFile: an open session is not looked at. *)
loadFromFileAnyway ==
  /\ InWindow /\ state \in Settled
  /\ setState("Deserialization") /\ frame' = TRUE /\ checkerTimer' = TRUE
  /\ UNCHANGED <<dataVars, checkVars, workerVars, task, clearOnDone, refreshing>>

loadFromFile ==
  /\ InWindow /\ session = "none" /\ state \in Settled
  /\ session' = "named"
  /\ setState("Deserialization") /\ frame' = TRUE /\ checkerTimer' = TRUE
  /\ UNCHANGED <<crawlingFinished, hasData, startPage, starts, checkVars, workerVars,
                 task, clearOnDone, refreshing>>

(* waitSerializationReadyState, when the pages found are all shown. A load *)
(* clears the data before it reads.                                        *)
waitSerializationReadyState ==
  /\ checkerTimer /\ state \in FileStates /\ checkerTimer' = FALSE
  /\ IF state = "Serialization"
     THEN task' = "save" /\ UNCHANGED <<crawlingFinished, hasData, refreshing>>
     ELSE task' = "load" /\ crawlingFinished' = FALSE /\ hasData' = FALSE
          /\ refreshing' = FALSE
  /\ UNCHANGED <<stateVars, session, startPage, starts, checkVars, workerVars,
                 clearOnDone>>

(* onSerializationTaskDone: m_prevState stays. clearData follows when      *)
(* MainWindow waits for it.                                                *)
onSerializationTaskDone ==
  /\ task = "save" /\ task' = "none" /\ clearOnDone' = FALSE
  /\ frame' = (prevState \in FileStates)
  /\ IF clearOnDone
     THEN state' = "Pending" /\ prevState' = prevState /\ Cleared
     ELSE state' = prevState /\ UNCHANGED <<prevState, session, crawlingFinished,
                                            hasData, hostInfo, refreshing>>
  /\ UNCHANGED <<startPage, starts, lookup, robots, robotsRequest, sitemap,
                 sitemapRequest, readyCalls, workerVars, checkerTimer>>

(* onDeserializationTaskDone: the options and the checks' results are the  *)
(* project's. The session ends when its file cannot be opened.             *)
onDeserializationTaskDone ==
  /\ task = "load" /\ task' = "none"
  /\ state' = prevState /\ frame' = (prevState \in FileStates)
  /\ \/ session' = "none" /\ UNCHANGED <<hasData, startPage, robots, sitemap>>
     \/ \E page \in Pages, valid \in BOOLEAN :
          /\ startPage' = page /\ hasData' = TRUE
          /\ robots' = [ready |-> TRUE, valid |-> valid, of |-> page.host]
          /\ sitemap' = [ready |-> TRUE, valid |-> valid, of |-> page.host]
          /\ UNCHANGED session
  /\ UNCHANGED <<prevState, crawlingFinished, starts, hostInfo, lookup, robotsRequest,
                 sitemapRequest, readyCalls, workerVars, checkerTimer, clearOnDone,
                 refreshing>>

(* MainWindow::closeFile and Crawler::closeFile.                           *)
closeFile ==
  /\ InWindow /\ session # "none" /\ state \in Settled
  /\ session' = "none" /\ hasData' = FALSE /\ crawlingFinished' = FALSE
  /\ hostInfo' = FALSE /\ refreshing' = FALSE
  /\ setState("Pending")
  /\ UNCHANGED <<frame, startPage, starts, lookup, robots, robotsRequest, sitemap,
                 sitemapRequest, readyCalls, workerVars, fileVars>>

-----------------------------------------------------------------------------
Command ==
  \/ \E host \in Hosts : LET page == [host |-> host, www |-> FALSE]
                        IN startCrawler(page) \/ restartCrawler(page)
  \/ stopCrawling \/ clearData \/ refreshPage
  \/ \E andClear \in BOOLEAN : saveFile(andClear)
  \/ loadFromFile \/ closeFile

Answer ==
  \/ onHostInfoResponse \/ RobotsLoaded \/ SitemapLoaded
  \/ onCrawlingSessionInitialized \/ onRefreshPageDone
  \/ waitSerializationReadyState \/ onSerializationTaskDone
  \/ onDeserializationTaskDone

Next == Command \/ PageShown \/ CrawlEnded \/ Answer

Spec == Init /\ [][Next]_sessionVars

(* Requests are answered or time out, posted calls are handled, the pages  *)
(* found get shown, and tasks end. The user and the crawl owe nothing.     *)
FairSpec == Spec /\ WF_sessionVars(Answer)

-----------------------------------------------------------------------------
(***************************************************************************)
(* Properties. The first five are of the window's commands: they suppose   *)
(* that the tray's menu is not used.                                       *)
(***************************************************************************)

(* The types, and what waitSerializationReadyState and the two TaskDone    *)
(* handlers assert: what is written or read has a session.                 *)
SessionTypeOK ==
  /\ state \in States /\ prevState \in States
  /\ session \in {"none", "unnamed", "named"}
  /\ frame \in BOOLEAN /\ crawlingFinished \in BOOLEAN /\ hasData \in BOOLEAN
  /\ hostInfo \in BOOLEAN /\ workers \in BOOLEAN /\ crawlingStateTimer \in BOOLEAN
  /\ checkerTimer \in BOOLEAN /\ clearOnDone \in BOOLEAN /\ refreshing \in BOOLEAN
  /\ startPage \in Pages \union {NoPage} /\ lookup \in Pages \union {NoPage}
  /\ robots \in Loaders /\ sitemap \in Loaders
  /\ robotsRequest \in Hosts \union {NoHost}
  /\ sitemapRequest \in Hosts \union {NoHost} /\ rulesOf \in Hosts \union {NoHost}
  /\ starts \in Nat /\ readyCalls \in Nat /\ task \in {"none", "save", "load"}
  /\ checkerTimer \/ task # "none" => session = "named"

(* The workers run, and the end of the crawl is watched for, exactly while *)
(* the state says so.                                                      *)
WorkersFollowState ==
  /\ workers <=> state = "Working"
  /\ crawlingStateTimer <=> workers

(* No crawl runs whose robots.txt and site map were not waited for.        *)
ChecksBeforeWorkers == workers => isPreinitialized /\ hostInfo

(* Each state that blocks the window waits for an answer that is still to  *)
(* come, no other operation is under way in it, and the one it interrupted *)
(* was settled.                                                            *)
OneThingAtATime ==
  /\ state = "PreChecking" <=>
       lookup # NoPage \/ robotsRequest # NoHost \/ sitemapRequest # NoHost
         \/ (readyCalls > 0 /\ state # "Working")
  /\ state = "PageRefresh" <=> refreshing
  /\ state \in FileStates <=> checkerTimer \/ task # "none"
  /\ checkerTimer => task = "none"
  /\ state \in FileStates \union {"PageRefresh"} => prevState \in Settled

(* A blocked window is given back.                                         *)
WindowComesBack == frame ~> ~frame

(* "This state indicates that crawler: 1. checks sitemap 2. checks         *)
(* robots.txt": a crawl obeys the robots.txt of the site it crawls.        *)
RulesBelongToHost == workers => rulesOf = startPage.host
=============================================================================
