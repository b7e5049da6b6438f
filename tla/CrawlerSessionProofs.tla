-------------------------- MODULE CrawlerSessionProofs --------------------------
(***************************************************************************)
(* Theorems about CrawlerSession, for any sites and any number of crawls,  *)
(* as long as the window's commands are the only ones.                     *)
(***************************************************************************)

EXTENDS CrawlerSession, TLAPS

(* The window is blocked exactly while an operation is under way.          *)
FrameBlocks ==
  frame <=> state \in FileStates \union {"PageRefresh", "PreChecking"}

(* The checks come in their order, and each leaves its loader ready.       *)
ChecksInOrder ==
  /\ ~robots.ready => robots.of = NoHost
  /\ sitemap.ready => robots.ready
  /\ ~sitemap.ready => sitemap.of = NoHost /\ ~sitemap.valid
  /\ state # "PreChecking" => (robots.ready <=> sitemap.ready)
  /\ hostInfo /\ state # "PreChecking" => isPreinitialized
  /\ lookup # NoPage => /\ ~hostInfo /\ readyCalls = 0 /\ robotsRequest = NoHost
                        /\ sitemapRequest = NoHost
                        /\ (robots.ready <=> sitemap.ready) /\ lookup.host \in Hosts
  /\ robotsRequest # NoHost => /\ hostInfo /\ ~robots.ready /\ ~sitemap.ready
                               /\ readyCalls = 0 /\ sitemapRequest = NoHost
  /\ sitemapRequest # NoHost => hostInfo /\ robots.ready /\ ~sitemap.ready
  /\ readyCalls > 0 => /\ hostInfo /\ state \in {"PreChecking", "Working"}
                       /\ isPreinitialized \/ sitemapRequest # NoHost
  /\ state = "PreChecking" /\ isPreinitialized => lookup # NoPage \/ readyCalls > 0

(* A paused crawl knows its host.                                          *)
PauseKnowsHost ==
  state = "Pause" \/ (state \in FileStates \union {"PageRefresh"} /\ prevState = "Pause")
    => hostInfo

SessionInv ==
  /\ SessionTypeOK /\ WorkersFollowState /\ ChecksBeforeWorkers /\ OneThingAtATime
  /\ FrameBlocks /\ ChecksInOrder /\ PauseKnowsHost

(* The workers follow the state. *)
LEMMA WorkersStep ==
  ASSUME SessionInv, [Next]_sessionVars, ~TrayMenu
  PROVE  WorkersFollowState'
<1> USE SessionAssumption
    DEF SessionInv, SessionTypeOK, WorkersFollowState, OneThingAtATime, FrameBlocks,
       ChecksInOrder, States, Settled, FileStates, isPreinitialized, stateVars,
       dataVars,
        checkVars, workerVars, fileVars
<1>1. ASSUME NEW h \in Hosts, startCrawler([host |-> h, www |-> FALSE])
      PROVE  WorkersFollowState'
  BY <1>1 DEF startCrawler, setState, StartWorkers, LoadChecks, LoadSitemap, InMenu
<1>2. ASSUME NEW h \in Hosts, restartCrawler([host |-> h, www |-> FALSE])
      PROVE  WorkersFollowState'
  BY <1>2 DEF restartCrawler, Cleared, InWindow
<1>3. CASE stopCrawling
  BY <1>3 DEF stopCrawling, setState, InMenu
<1>4. CASE clearData
  BY <1>4 DEF clearData, Cleared, setState, InWindow
<1>5. CASE refreshPage
  BY <1>5 DEF refreshPage, setState, InWindow
<1>6. ASSUME NEW andClear \in BOOLEAN, saveFile(andClear)
      PROVE  WorkersFollowState'
  BY <1>6 DEF saveFile, setState, InWindow
<1>7. CASE loadFromFile
  BY <1>7 DEF loadFromFile, setState, InWindow
<1>8. CASE closeFile
  BY <1>8 DEF closeFile, setState, InWindow
<1>9. CASE PageShown
  BY <1>9 DEF PageShown
<1>10. CASE CrawlEnded
  BY <1>10 DEF CrawlEnded
<1>11. CASE onHostInfoResponse
  BY <1>11 DEF onHostInfoResponse, setState, StartWorkers, LoadChecks, LoadSitemap
<1>12. CASE RobotsLoaded
  BY <1>12 DEF RobotsLoaded, LoadSitemap
<1>13. CASE SitemapLoaded
  BY <1>13 DEF SitemapLoaded
<1>14. CASE onCrawlingSessionInitialized
  BY <1>14 DEF onCrawlingSessionInitialized, setState, StartWorkers
<1>15. CASE onRefreshPageDone
  BY <1>15 DEF onRefreshPageDone, setState
<1>16. CASE waitSerializationReadyState
  BY <1>16 DEF waitSerializationReadyState
<1>17. CASE onSerializationTaskDone
  BY <1>17 DEF onSerializationTaskDone, Cleared
<1>18. CASE onDeserializationTaskDone
  BY <1>18 DEF onDeserializationTaskDone
<1>19. CASE UNCHANGED sessionVars
  BY <1>19 DEF sessionVars
<1> QED
  BY <1>1, <1>2, <1>3, <1>4, <1>5, <1>6, <1>7, <1>8, <1>9, <1>10, <1>11, <1>12,
     <1>13, <1>14, <1>15, <1>16, <1>17, <1>18, <1>19
     DEF Next, Command, Answer

(* The window is blocked while an operation is under way. *)
LEMMA FrameStep ==
  ASSUME SessionInv, [Next]_sessionVars, ~TrayMenu
  PROVE  FrameBlocks'
<1> USE SessionAssumption
    DEF SessionInv, SessionTypeOK, WorkersFollowState, OneThingAtATime, FrameBlocks,
       ChecksInOrder, States, Settled, FileStates, isPreinitialized, stateVars,
       dataVars,
        checkVars, workerVars, fileVars
<1>1. ASSUME NEW h \in Hosts, startCrawler([host |-> h, www |-> FALSE])
      PROVE  FrameBlocks'
  BY <1>1 DEF startCrawler, setState, StartWorkers, LoadChecks, LoadSitemap, InMenu
<1>2. ASSUME NEW h \in Hosts, restartCrawler([host |-> h, www |-> FALSE])
      PROVE  FrameBlocks'
  BY <1>2 DEF restartCrawler, Cleared, InWindow
<1>3. CASE stopCrawling
  BY <1>3 DEF stopCrawling, setState, InMenu
<1>4. CASE clearData
  BY <1>4 DEF clearData, Cleared, setState, InWindow
<1>5. CASE refreshPage
  BY <1>5 DEF refreshPage, setState, InWindow
<1>6. ASSUME NEW andClear \in BOOLEAN, saveFile(andClear)
      PROVE  FrameBlocks'
  BY <1>6 DEF saveFile, setState, InWindow
<1>7. CASE loadFromFile
  BY <1>7 DEF loadFromFile, setState, InWindow
<1>8. CASE closeFile
  BY <1>8 DEF closeFile, setState, InWindow
<1>9. CASE PageShown
  BY <1>9 DEF PageShown
<1>10. CASE CrawlEnded
  BY <1>10 DEF CrawlEnded
<1>11. CASE onHostInfoResponse
  BY <1>11 DEF onHostInfoResponse, setState, StartWorkers, LoadChecks, LoadSitemap
<1>12. CASE RobotsLoaded
  BY <1>12 DEF RobotsLoaded, LoadSitemap
<1>13. CASE SitemapLoaded
  BY <1>13 DEF SitemapLoaded
<1>14. CASE onCrawlingSessionInitialized
  BY <1>14 DEF onCrawlingSessionInitialized, setState, StartWorkers
<1>15. CASE onRefreshPageDone
  BY <1>15 DEF onRefreshPageDone, setState
<1>16. CASE waitSerializationReadyState
  BY <1>16 DEF waitSerializationReadyState
<1>17. CASE onSerializationTaskDone
  BY <1>17 DEF onSerializationTaskDone, Cleared
<1>18. CASE onDeserializationTaskDone
  BY <1>18 DEF onDeserializationTaskDone
<1>19. CASE UNCHANGED sessionVars
  BY <1>19 DEF sessionVars
<1> QED
  BY <1>1, <1>2, <1>3, <1>4, <1>5, <1>6, <1>7, <1>8, <1>9, <1>10, <1>11, <1>12,
     <1>13, <1>14, <1>15, <1>16, <1>17, <1>18, <1>19
     DEF Next, Command, Answer

(* No worker runs before the checks. *)
LEMMA ChecksStep ==
  ASSUME SessionInv, [Next]_sessionVars, ~TrayMenu
  PROVE  ChecksBeforeWorkers'
<1> USE SessionAssumption
    DEF SessionInv, SessionTypeOK, WorkersFollowState, ChecksBeforeWorkers,
       OneThingAtATime, FrameBlocks, ChecksInOrder, States, Settled, FileStates,
       isPreinitialized, stateVars, dataVars,
        checkVars, workerVars, fileVars
<1>1. ASSUME NEW h \in Hosts, startCrawler([host |-> h, www |-> FALSE])
      PROVE  ChecksBeforeWorkers'
  BY <1>1 DEF startCrawler, setState, StartWorkers, LoadChecks, LoadSitemap, InMenu
<1>2. ASSUME NEW h \in Hosts, restartCrawler([host |-> h, www |-> FALSE])
      PROVE  ChecksBeforeWorkers'
  BY <1>2 DEF restartCrawler, Cleared, InWindow
<1>3. CASE stopCrawling
  BY <1>3 DEF stopCrawling, setState, InMenu
<1>4. CASE clearData
  BY <1>4 DEF clearData, Cleared, setState, InWindow
<1>5. CASE refreshPage
  BY <1>5 DEF refreshPage, setState, InWindow
<1>6. ASSUME NEW andClear \in BOOLEAN, saveFile(andClear)
      PROVE  ChecksBeforeWorkers'
  BY <1>6 DEF saveFile, setState, InWindow
<1>7. CASE loadFromFile
  BY <1>7 DEF loadFromFile, setState, InWindow
<1>8. CASE closeFile
  BY <1>8 DEF closeFile, setState, InWindow
<1>9. CASE PageShown
  BY <1>9 DEF PageShown
<1>10. CASE CrawlEnded
  BY <1>10 DEF CrawlEnded
<1>11. CASE onHostInfoResponse
  BY <1>11 DEF onHostInfoResponse, setState, StartWorkers, LoadChecks, LoadSitemap
<1>12. CASE RobotsLoaded
  BY <1>12 DEF RobotsLoaded, LoadSitemap
<1>13. CASE SitemapLoaded
  BY <1>13 DEF SitemapLoaded
<1>14. CASE onCrawlingSessionInitialized
  BY <1>14 DEF onCrawlingSessionInitialized, setState, StartWorkers
<1>15. CASE onRefreshPageDone
  BY <1>15 DEF onRefreshPageDone, setState
<1>16. CASE waitSerializationReadyState
  BY <1>16 DEF waitSerializationReadyState
<1>17. CASE onSerializationTaskDone
  BY <1>17 DEF onSerializationTaskDone, Cleared
<1>18. CASE onDeserializationTaskDone
  BY <1>18 DEF onDeserializationTaskDone
<1>19. CASE UNCHANGED sessionVars
  BY <1>19 DEF sessionVars
<1> QED
  BY <1>1, <1>2, <1>3, <1>4, <1>5, <1>6, <1>7, <1>8, <1>9, <1>10, <1>11, <1>12,
     <1>13, <1>14, <1>15, <1>16, <1>17, <1>18, <1>19
     DEF Next, Command, Answer

(* A pause keeps the host. *)
LEMMA PauseStep ==
  ASSUME SessionInv, [Next]_sessionVars, ~TrayMenu
  PROVE  PauseKnowsHost'
<1> USE SessionAssumption
    DEF SessionInv, SessionTypeOK, WorkersFollowState, ChecksBeforeWorkers,
       PauseKnowsHost, OneThingAtATime, FrameBlocks, ChecksInOrder, States, Settled,
       FileStates, isPreinitialized, stateVars, dataVars,
        checkVars, workerVars, fileVars
<1>1. ASSUME NEW h \in Hosts, startCrawler([host |-> h, www |-> FALSE])
      PROVE  PauseKnowsHost'
  BY <1>1 DEF startCrawler, setState, StartWorkers, LoadChecks, LoadSitemap, InMenu
<1>2. ASSUME NEW h \in Hosts, restartCrawler([host |-> h, www |-> FALSE])
      PROVE  PauseKnowsHost'
  BY <1>2 DEF restartCrawler, Cleared, InWindow
<1>3. CASE stopCrawling
  BY <1>3 DEF stopCrawling, setState, InMenu
<1>4. CASE clearData
  BY <1>4 DEF clearData, Cleared, setState, InWindow
<1>5. CASE refreshPage
  BY <1>5 DEF refreshPage, setState, InWindow
<1>6. ASSUME NEW andClear \in BOOLEAN, saveFile(andClear)
      PROVE  PauseKnowsHost'
  BY <1>6 DEF saveFile, setState, InWindow
<1>7. CASE loadFromFile
  BY <1>7 DEF loadFromFile, setState, InWindow
<1>8. CASE closeFile
  BY <1>8 DEF closeFile, setState, InWindow
<1>9. CASE PageShown
  BY <1>9 DEF PageShown
<1>10. CASE CrawlEnded
  BY <1>10 DEF CrawlEnded
<1>11. CASE onHostInfoResponse
  BY <1>11 DEF onHostInfoResponse, setState, StartWorkers, LoadChecks, LoadSitemap
<1>12. CASE RobotsLoaded
  BY <1>12 DEF RobotsLoaded, LoadSitemap
<1>13. CASE SitemapLoaded
  BY <1>13 DEF SitemapLoaded
<1>14. CASE onCrawlingSessionInitialized
  BY <1>14 DEF onCrawlingSessionInitialized, setState, StartWorkers
<1>15. CASE onRefreshPageDone
  BY <1>15 DEF onRefreshPageDone, setState
<1>16. CASE waitSerializationReadyState
  BY <1>16 DEF waitSerializationReadyState
<1>17. CASE onSerializationTaskDone
  BY <1>17 DEF onSerializationTaskDone, Cleared
<1>18. CASE onDeserializationTaskDone
  BY <1>18 DEF onDeserializationTaskDone
<1>19. CASE UNCHANGED sessionVars
  BY <1>19 DEF sessionVars
<1> QED
  BY <1>1, <1>2, <1>3, <1>4, <1>5, <1>6, <1>7, <1>8, <1>9, <1>10, <1>11, <1>12,
     <1>13, <1>14, <1>15, <1>16, <1>17, <1>18, <1>19
     DEF Next, Command, Answer

(* The checks keep their order. *)
LEMMA OrderStep ==
  ASSUME SessionInv, [Next]_sessionVars, ~TrayMenu
  PROVE  ChecksInOrder'
<1> USE SessionAssumption
    DEF SessionInv, SessionTypeOK, WorkersFollowState, OneThingAtATime,
       ChecksBeforeWorkers, FrameBlocks, ChecksInOrder, PauseKnowsHost, Pages, NoPage,
       Loaders, States, Settled, FileStates, isPreinitialized, stateVars, dataVars,
        checkVars, workerVars, fileVars
<1>1. ASSUME NEW h \in Hosts, startCrawler([host |-> h, www |-> FALSE])
      PROVE  ChecksInOrder'
  BY <1>1 DEF startCrawler, setState, StartWorkers, LoadChecks, LoadSitemap, InMenu
<1>2. ASSUME NEW h \in Hosts, restartCrawler([host |-> h, www |-> FALSE])
      PROVE  ChecksInOrder'
  BY <1>2 DEF restartCrawler, Cleared, InWindow
<1>3. CASE stopCrawling
  BY <1>3 DEF stopCrawling, setState, InMenu
<1>4. CASE clearData
  BY <1>4 DEF clearData, Cleared, setState, InWindow
<1>5. CASE refreshPage
  BY <1>5 DEF refreshPage, setState, InWindow
<1>6. ASSUME NEW andClear \in BOOLEAN, saveFile(andClear)
      PROVE  ChecksInOrder'
  BY <1>6 DEF saveFile, setState, InWindow
<1>7. CASE loadFromFile
  BY <1>7 DEF loadFromFile, setState, InWindow
<1>8. CASE closeFile
  BY <1>8 DEF closeFile, setState, InWindow
<1>9. CASE PageShown
  BY <1>9 DEF PageShown
<1>10. CASE CrawlEnded
  BY <1>10 DEF CrawlEnded
<1>11. CASE onHostInfoResponse
  BY <1>11 DEF onHostInfoResponse, setState, StartWorkers, LoadChecks, LoadSitemap
<1>12. CASE RobotsLoaded
  BY <1>12 DEF RobotsLoaded, LoadSitemap
<1>13. CASE SitemapLoaded
  BY <1>13 DEF SitemapLoaded
<1>14. CASE onCrawlingSessionInitialized
  BY <1>14 DEF onCrawlingSessionInitialized, setState, StartWorkers
<1>15. CASE onRefreshPageDone
  BY <1>15 DEF onRefreshPageDone, setState
<1>16. CASE waitSerializationReadyState
  BY <1>16 DEF waitSerializationReadyState
<1>17. CASE onSerializationTaskDone
  BY <1>17 DEF onSerializationTaskDone, Cleared
<1>18. CASE onDeserializationTaskDone
  BY <1>18 DEF onDeserializationTaskDone
<1>19. CASE UNCHANGED sessionVars
  BY <1>19 DEF sessionVars
<1> QED
  BY <1>1, <1>2, <1>3, <1>4, <1>5, <1>6, <1>7, <1>8, <1>9, <1>10, <1>11, <1>12,
     <1>13, <1>14, <1>15, <1>16, <1>17, <1>18, <1>19
     DEF Next, Command, Answer

(* One operation at a time. *)
LEMMA OneThingStep ==
  ASSUME SessionInv, [Next]_sessionVars, ~TrayMenu
  PROVE  OneThingAtATime'
<1> USE SessionAssumption
    DEF SessionInv, SessionTypeOK, WorkersFollowState, OneThingAtATime,
       ChecksBeforeWorkers, FrameBlocks, ChecksInOrder, Pages, NoPage, PauseKnowsHost,
       States, Settled, FileStates, isPreinitialized, stateVars, dataVars,
        checkVars, workerVars, fileVars
<1>1. ASSUME NEW h \in Hosts, startCrawler([host |-> h, www |-> FALSE])
      PROVE  OneThingAtATime'
  BY <1>1 DEF startCrawler, setState, StartWorkers, LoadChecks, LoadSitemap, InMenu
<1>2. ASSUME NEW h \in Hosts, restartCrawler([host |-> h, www |-> FALSE])
      PROVE  OneThingAtATime'
  BY <1>2 DEF restartCrawler, Cleared, InWindow
<1>3. CASE stopCrawling
  BY <1>3 DEF stopCrawling, setState, InMenu
<1>4. CASE clearData
  BY <1>4 DEF clearData, Cleared, setState, InWindow
<1>5. CASE refreshPage
  BY <1>5 DEF refreshPage, setState, InWindow
<1>6. ASSUME NEW andClear \in BOOLEAN, saveFile(andClear)
      PROVE  OneThingAtATime'
  BY <1>6 DEF saveFile, setState, InWindow
<1>7. CASE loadFromFile
  BY <1>7 DEF loadFromFile, setState, InWindow
<1>8. CASE closeFile
  BY <1>8 DEF closeFile, setState, InWindow
<1>9. CASE PageShown
  BY <1>9 DEF PageShown
<1>10. CASE CrawlEnded
  BY <1>10 DEF CrawlEnded
<1>11. CASE onHostInfoResponse
  BY <1>11 DEF onHostInfoResponse, setState, StartWorkers, LoadChecks, LoadSitemap
<1>12. CASE RobotsLoaded
  BY <1>12 DEF RobotsLoaded, LoadSitemap
<1>13. CASE SitemapLoaded
  BY <1>13 DEF SitemapLoaded
<1>14. CASE onCrawlingSessionInitialized
  BY <1>14 DEF onCrawlingSessionInitialized, setState, StartWorkers
<1>15. CASE onRefreshPageDone
  BY <1>15 DEF onRefreshPageDone, setState
<1>16. CASE waitSerializationReadyState
  BY <1>16 DEF waitSerializationReadyState
<1>17. CASE onSerializationTaskDone
  BY <1>17 DEF onSerializationTaskDone, Cleared
<1>18. CASE onDeserializationTaskDone
  BY <1>18 DEF onDeserializationTaskDone
<1>19. CASE UNCHANGED sessionVars
  BY <1>19 DEF sessionVars
<1> QED
  BY <1>1, <1>2, <1>3, <1>4, <1>5, <1>6, <1>7, <1>8, <1>9, <1>10, <1>11, <1>12,
     <1>13, <1>14, <1>15, <1>16, <1>17, <1>18, <1>19
     DEF Next, Command, Answer

(* Every value stays in its type, and a file operation has its session. *)
LEMMA TypeStep ==
  ASSUME SessionInv, [Next]_sessionVars, ~TrayMenu
  PROVE  SessionTypeOK'
<1> USE SessionAssumption
    DEF SessionInv, SessionTypeOK, stateVars, dataVars, checkVars, workerVars,
       fileVars
<1>1. ASSUME NEW h \in Hosts, startCrawler([host |-> h, www |-> FALSE])
      PROVE  SessionTypeOK'
  <2>1. /\ frame' \in BOOLEAN /\ crawlingFinished' \in BOOLEAN /\ hasData' \in BOOLEAN
        /\ hostInfo' \in BOOLEAN /\ workers' \in BOOLEAN
        /\ crawlingStateTimer' \in BOOLEAN /\ checkerTimer' \in BOOLEAN
        /\ clearOnDone' \in BOOLEAN /\ refreshing' \in BOOLEAN
    BY <1>1, Zenon DEF startCrawler, setState, StartWorkers, LoadChecks,
       LoadSitemap, InMenu
  <2>2. /\ startPage' \in Pages \union {NoPage} /\ lookup' \in Pages \union {NoPage}
        /\ robots' \in Loaders /\ sitemap' \in Loaders
        /\ robotsRequest' \in Hosts \union {NoHost}
        /\ sitemapRequest' \in Hosts \union {NoHost} /\ rulesOf' \in Hosts \union {NoHost}
    <3>1. startPage' \in Pages \union {NoPage}
      BY <1>1 DEF startCrawler, Pages
    <3>2. startPage'.host \in Hosts \union {NoHost}
      BY <3>1 DEF Pages, NoPage
    <3> QED
      BY <1>1, <3>1, <3>2 DEF startCrawler, setState, StartWorkers, LoadChecks,
         LoadSitemap, InMenu, Loaders
  <2>3. /\ state' \in States /\ prevState' \in States
        /\ session' \in {"none", "unnamed", "named"}
        /\ starts' \in Nat /\ readyCalls' \in Nat /\ task' \in {"none", "save", "load"}
        /\ checkerTimer' \/ task' # "none" => session' = "named"
    BY <1>1 DEF startCrawler, setState, StartWorkers, LoadChecks, LoadSitemap,
       InMenu, States, Settled, FileStates, OneThingAtATime
  <2> QED
    BY <2>1, <2>2, <2>3
<1>2. ASSUME NEW h \in Hosts, restartCrawler([host |-> h, www |-> FALSE])
      PROVE  SessionTypeOK'
  <2>1. /\ frame' \in BOOLEAN /\ crawlingFinished' \in BOOLEAN /\ hasData' \in BOOLEAN
        /\ hostInfo' \in BOOLEAN /\ workers' \in BOOLEAN
        /\ crawlingStateTimer' \in BOOLEAN /\ checkerTimer' \in BOOLEAN
        /\ clearOnDone' \in BOOLEAN /\ refreshing' \in BOOLEAN
    BY <1>2, Zenon DEF restartCrawler, Cleared, InWindow
  <2>2. /\ startPage' \in Pages \union {NoPage} /\ lookup' \in Pages \union {NoPage}
        /\ robots' \in Loaders /\ sitemap' \in Loaders
        /\ robotsRequest' \in Hosts \union {NoHost}
        /\ sitemapRequest' \in Hosts \union {NoHost} /\ rulesOf' \in Hosts \union {NoHost}
    BY <1>2 DEF restartCrawler, Cleared, InWindow, Pages, Loaders, NoPage
  <2>3. /\ state' \in States /\ prevState' \in States
        /\ session' \in {"none", "unnamed", "named"}
        /\ starts' \in Nat /\ readyCalls' \in Nat /\ task' \in {"none", "save", "load"}
        /\ checkerTimer' \/ task' # "none" => session' = "named"
    BY <1>2 DEF restartCrawler, Cleared, InWindow, States, Settled, FileStates,
       OneThingAtATime
  <2> QED
    BY <2>1, <2>2, <2>3
<1>3. CASE stopCrawling
  <2>1. /\ frame' \in BOOLEAN /\ crawlingFinished' \in BOOLEAN /\ hasData' \in BOOLEAN
        /\ hostInfo' \in BOOLEAN /\ workers' \in BOOLEAN
        /\ crawlingStateTimer' \in BOOLEAN /\ checkerTimer' \in BOOLEAN
        /\ clearOnDone' \in BOOLEAN /\ refreshing' \in BOOLEAN
    BY <1>3, Zenon DEF stopCrawling, setState, InMenu
  <2>2. /\ startPage' \in Pages \union {NoPage} /\ lookup' \in Pages \union {NoPage}
        /\ robots' \in Loaders /\ sitemap' \in Loaders
        /\ robotsRequest' \in Hosts \union {NoHost}
        /\ sitemapRequest' \in Hosts \union {NoHost} /\ rulesOf' \in Hosts \union {NoHost}
    BY <1>3 DEF stopCrawling, setState, InMenu, Pages, Loaders, NoPage
  <2>3. /\ state' \in States /\ prevState' \in States
        /\ session' \in {"none", "unnamed", "named"}
        /\ starts' \in Nat /\ readyCalls' \in Nat /\ task' \in {"none", "save", "load"}
        /\ checkerTimer' \/ task' # "none" => session' = "named"
    BY <1>3 DEF stopCrawling, setState, InMenu, States, Settled, FileStates,
       OneThingAtATime
  <2> QED
    BY <2>1, <2>2, <2>3
<1>4. CASE clearData
  <2>1. /\ frame' \in BOOLEAN /\ crawlingFinished' \in BOOLEAN /\ hasData' \in BOOLEAN
        /\ hostInfo' \in BOOLEAN /\ workers' \in BOOLEAN
        /\ crawlingStateTimer' \in BOOLEAN /\ checkerTimer' \in BOOLEAN
        /\ clearOnDone' \in BOOLEAN /\ refreshing' \in BOOLEAN
    BY <1>4, Zenon DEF clearData, Cleared, setState, InWindow
  <2>2. /\ startPage' \in Pages \union {NoPage} /\ lookup' \in Pages \union {NoPage}
        /\ robots' \in Loaders /\ sitemap' \in Loaders
        /\ robotsRequest' \in Hosts \union {NoHost}
        /\ sitemapRequest' \in Hosts \union {NoHost} /\ rulesOf' \in Hosts \union {NoHost}
    BY <1>4 DEF clearData, Cleared, setState, InWindow, Pages, Loaders, NoPage
  <2>3. /\ state' \in States /\ prevState' \in States
        /\ session' \in {"none", "unnamed", "named"}
        /\ starts' \in Nat /\ readyCalls' \in Nat /\ task' \in {"none", "save", "load"}
        /\ checkerTimer' \/ task' # "none" => session' = "named"
    BY <1>4 DEF clearData, Cleared, setState, InWindow, States, Settled, FileStates,
       OneThingAtATime
  <2> QED
    BY <2>1, <2>2, <2>3
<1>5. CASE refreshPage
  <2>1. /\ frame' \in BOOLEAN /\ crawlingFinished' \in BOOLEAN /\ hasData' \in BOOLEAN
        /\ hostInfo' \in BOOLEAN /\ workers' \in BOOLEAN
        /\ crawlingStateTimer' \in BOOLEAN /\ checkerTimer' \in BOOLEAN
        /\ clearOnDone' \in BOOLEAN /\ refreshing' \in BOOLEAN
    BY <1>5, Zenon DEF refreshPage, setState, InWindow
  <2>2. /\ startPage' \in Pages \union {NoPage} /\ lookup' \in Pages \union {NoPage}
        /\ robots' \in Loaders /\ sitemap' \in Loaders
        /\ robotsRequest' \in Hosts \union {NoHost}
        /\ sitemapRequest' \in Hosts \union {NoHost} /\ rulesOf' \in Hosts \union {NoHost}
    BY <1>5 DEF refreshPage, setState, InWindow, Pages, Loaders, NoPage
  <2>3. /\ state' \in States /\ prevState' \in States
        /\ session' \in {"none", "unnamed", "named"}
        /\ starts' \in Nat /\ readyCalls' \in Nat /\ task' \in {"none", "save", "load"}
        /\ checkerTimer' \/ task' # "none" => session' = "named"
    BY <1>5 DEF refreshPage, setState, InWindow, States, Settled, FileStates,
       OneThingAtATime
  <2> QED
    BY <2>1, <2>2, <2>3
<1>6. ASSUME NEW andClear \in BOOLEAN, saveFile(andClear)
      PROVE  SessionTypeOK'
  <2>1. /\ frame' \in BOOLEAN /\ crawlingFinished' \in BOOLEAN /\ hasData' \in BOOLEAN
        /\ hostInfo' \in BOOLEAN /\ workers' \in BOOLEAN
        /\ crawlingStateTimer' \in BOOLEAN /\ checkerTimer' \in BOOLEAN
        /\ clearOnDone' \in BOOLEAN /\ refreshing' \in BOOLEAN
    BY <1>6, Zenon DEF saveFile, setState, InWindow
  <2>2. /\ startPage' \in Pages \union {NoPage} /\ lookup' \in Pages \union {NoPage}
        /\ robots' \in Loaders /\ sitemap' \in Loaders
        /\ robotsRequest' \in Hosts \union {NoHost}
        /\ sitemapRequest' \in Hosts \union {NoHost} /\ rulesOf' \in Hosts \union {NoHost}
    BY <1>6 DEF saveFile, setState, InWindow, Pages, Loaders, NoPage
  <2>3. /\ state' \in States /\ prevState' \in States
        /\ session' \in {"none", "unnamed", "named"}
        /\ starts' \in Nat /\ readyCalls' \in Nat /\ task' \in {"none", "save", "load"}
        /\ checkerTimer' \/ task' # "none" => session' = "named"
    BY <1>6 DEF saveFile, setState, InWindow, States, Settled, FileStates,
       OneThingAtATime
  <2> QED
    BY <2>1, <2>2, <2>3
<1>7. CASE loadFromFile
  <2>1. /\ frame' \in BOOLEAN /\ crawlingFinished' \in BOOLEAN /\ hasData' \in BOOLEAN
        /\ hostInfo' \in BOOLEAN /\ workers' \in BOOLEAN
        /\ crawlingStateTimer' \in BOOLEAN /\ checkerTimer' \in BOOLEAN
        /\ clearOnDone' \in BOOLEAN /\ refreshing' \in BOOLEAN
    BY <1>7, Zenon DEF loadFromFile, setState, InWindow
  <2>2. /\ startPage' \in Pages \union {NoPage} /\ lookup' \in Pages \union {NoPage}
        /\ robots' \in Loaders /\ sitemap' \in Loaders
        /\ robotsRequest' \in Hosts \union {NoHost}
        /\ sitemapRequest' \in Hosts \union {NoHost} /\ rulesOf' \in Hosts \union {NoHost}
    BY <1>7 DEF loadFromFile, setState, InWindow, Pages, Loaders, NoPage
  <2>3. /\ state' \in States /\ prevState' \in States
        /\ session' \in {"none", "unnamed", "named"}
        /\ starts' \in Nat /\ readyCalls' \in Nat /\ task' \in {"none", "save", "load"}
        /\ checkerTimer' \/ task' # "none" => session' = "named"
    BY <1>7 DEF loadFromFile, setState, InWindow, States, Settled, FileStates,
       OneThingAtATime
  <2> QED
    BY <2>1, <2>2, <2>3
<1>8. CASE closeFile
  <2>1. /\ frame' \in BOOLEAN /\ crawlingFinished' \in BOOLEAN /\ hasData' \in BOOLEAN
        /\ hostInfo' \in BOOLEAN /\ workers' \in BOOLEAN
        /\ crawlingStateTimer' \in BOOLEAN /\ checkerTimer' \in BOOLEAN
        /\ clearOnDone' \in BOOLEAN /\ refreshing' \in BOOLEAN
    BY <1>8, Zenon DEF closeFile, setState, InWindow
  <2>2. /\ startPage' \in Pages \union {NoPage} /\ lookup' \in Pages \union {NoPage}
        /\ robots' \in Loaders /\ sitemap' \in Loaders
        /\ robotsRequest' \in Hosts \union {NoHost}
        /\ sitemapRequest' \in Hosts \union {NoHost} /\ rulesOf' \in Hosts \union {NoHost}
    BY <1>8 DEF closeFile, setState, InWindow, Pages, Loaders, NoPage
  <2>3. /\ state' \in States /\ prevState' \in States
        /\ session' \in {"none", "unnamed", "named"}
        /\ starts' \in Nat /\ readyCalls' \in Nat /\ task' \in {"none", "save", "load"}
        /\ checkerTimer' \/ task' # "none" => session' = "named"
    BY <1>8 DEF closeFile, setState, InWindow, States, Settled, FileStates,
       OneThingAtATime
  <2> QED
    BY <2>1, <2>2, <2>3
<1>9. CASE PageShown
  <2>1. /\ frame' \in BOOLEAN /\ crawlingFinished' \in BOOLEAN /\ hasData' \in BOOLEAN
        /\ hostInfo' \in BOOLEAN /\ workers' \in BOOLEAN
        /\ crawlingStateTimer' \in BOOLEAN /\ checkerTimer' \in BOOLEAN
        /\ clearOnDone' \in BOOLEAN /\ refreshing' \in BOOLEAN
    BY <1>9, Zenon DEF PageShown
  <2>2. /\ startPage' \in Pages \union {NoPage} /\ lookup' \in Pages \union {NoPage}
        /\ robots' \in Loaders /\ sitemap' \in Loaders
        /\ robotsRequest' \in Hosts \union {NoHost}
        /\ sitemapRequest' \in Hosts \union {NoHost} /\ rulesOf' \in Hosts \union {NoHost}
    BY <1>9 DEF PageShown, Pages, Loaders, NoPage
  <2>3. /\ state' \in States /\ prevState' \in States
        /\ session' \in {"none", "unnamed", "named"}
        /\ starts' \in Nat /\ readyCalls' \in Nat /\ task' \in {"none", "save", "load"}
        /\ checkerTimer' \/ task' # "none" => session' = "named"
    BY <1>9 DEF PageShown, States, Settled, FileStates, OneThingAtATime
  <2> QED
    BY <2>1, <2>2, <2>3
<1>10. CASE CrawlEnded
  <2>1. /\ frame' \in BOOLEAN /\ crawlingFinished' \in BOOLEAN /\ hasData' \in BOOLEAN
        /\ hostInfo' \in BOOLEAN /\ workers' \in BOOLEAN
        /\ crawlingStateTimer' \in BOOLEAN /\ checkerTimer' \in BOOLEAN
        /\ clearOnDone' \in BOOLEAN /\ refreshing' \in BOOLEAN
    BY <1>10, Zenon DEF CrawlEnded
  <2>2. /\ startPage' \in Pages \union {NoPage} /\ lookup' \in Pages \union {NoPage}
        /\ robots' \in Loaders /\ sitemap' \in Loaders
        /\ robotsRequest' \in Hosts \union {NoHost}
        /\ sitemapRequest' \in Hosts \union {NoHost} /\ rulesOf' \in Hosts \union {NoHost}
    BY <1>10 DEF CrawlEnded, Pages, Loaders, NoPage
  <2>3. /\ state' \in States /\ prevState' \in States
        /\ session' \in {"none", "unnamed", "named"}
        /\ starts' \in Nat /\ readyCalls' \in Nat /\ task' \in {"none", "save", "load"}
        /\ checkerTimer' \/ task' # "none" => session' = "named"
    BY <1>10 DEF CrawlEnded, States, Settled, FileStates, OneThingAtATime
  <2> QED
    BY <2>1, <2>2, <2>3
<1>11. CASE onHostInfoResponse
  <2>1. /\ frame' \in BOOLEAN /\ crawlingFinished' \in BOOLEAN /\ hasData' \in BOOLEAN
        /\ hostInfo' \in BOOLEAN /\ workers' \in BOOLEAN
        /\ crawlingStateTimer' \in BOOLEAN /\ checkerTimer' \in BOOLEAN
        /\ clearOnDone' \in BOOLEAN /\ refreshing' \in BOOLEAN
    BY <1>11, Zenon DEF onHostInfoResponse, setState, StartWorkers, LoadChecks,
       LoadSitemap
  <2>2. /\ startPage' \in Pages \union {NoPage} /\ lookup' \in Pages \union {NoPage}
        /\ robots' \in Loaders /\ sitemap' \in Loaders
        /\ robotsRequest' \in Hosts \union {NoHost}
        /\ sitemapRequest' \in Hosts \union {NoHost} /\ rulesOf' \in Hosts \union {NoHost}
    BY <1>11 DEF onHostInfoResponse, setState, StartWorkers, LoadChecks,
       LoadSitemap, Pages, Loaders, NoPage
  <2>3. /\ state' \in States /\ prevState' \in States
        /\ session' \in {"none", "unnamed", "named"}
        /\ starts' \in Nat /\ readyCalls' \in Nat /\ task' \in {"none", "save", "load"}
        /\ checkerTimer' \/ task' # "none" => session' = "named"
    BY <1>11 DEF onHostInfoResponse, setState, StartWorkers, LoadChecks,
       LoadSitemap, States, Settled, FileStates, OneThingAtATime
  <2> QED
    BY <2>1, <2>2, <2>3
<1>12. CASE RobotsLoaded
  <2>1. /\ frame' \in BOOLEAN /\ crawlingFinished' \in BOOLEAN /\ hasData' \in BOOLEAN
        /\ hostInfo' \in BOOLEAN /\ workers' \in BOOLEAN
        /\ crawlingStateTimer' \in BOOLEAN /\ checkerTimer' \in BOOLEAN
        /\ clearOnDone' \in BOOLEAN /\ refreshing' \in BOOLEAN
    BY <1>12, Zenon DEF RobotsLoaded, LoadSitemap
  <2>2. /\ startPage' \in Pages \union {NoPage} /\ lookup' \in Pages \union {NoPage}
        /\ robots' \in Loaders /\ sitemap' \in Loaders
        /\ robotsRequest' \in Hosts \union {NoHost}
        /\ sitemapRequest' \in Hosts \union {NoHost} /\ rulesOf' \in Hosts \union {NoHost}
    BY <1>12 DEF RobotsLoaded, LoadSitemap, Pages, Loaders, NoPage
  <2>3. /\ state' \in States /\ prevState' \in States
        /\ session' \in {"none", "unnamed", "named"}
        /\ starts' \in Nat /\ readyCalls' \in Nat /\ task' \in {"none", "save", "load"}
        /\ checkerTimer' \/ task' # "none" => session' = "named"
    BY <1>12 DEF RobotsLoaded, LoadSitemap, States, Settled, FileStates,
       OneThingAtATime
  <2> QED
    BY <2>1, <2>2, <2>3
<1>13. CASE SitemapLoaded
  <2>1. /\ frame' \in BOOLEAN /\ crawlingFinished' \in BOOLEAN /\ hasData' \in BOOLEAN
        /\ hostInfo' \in BOOLEAN /\ workers' \in BOOLEAN
        /\ crawlingStateTimer' \in BOOLEAN /\ checkerTimer' \in BOOLEAN
        /\ clearOnDone' \in BOOLEAN /\ refreshing' \in BOOLEAN
    BY <1>13, Zenon DEF SitemapLoaded
  <2>2. /\ startPage' \in Pages \union {NoPage} /\ lookup' \in Pages \union {NoPage}
        /\ robots' \in Loaders /\ sitemap' \in Loaders
        /\ robotsRequest' \in Hosts \union {NoHost}
        /\ sitemapRequest' \in Hosts \union {NoHost} /\ rulesOf' \in Hosts \union {NoHost}
    BY <1>13 DEF SitemapLoaded, Pages, Loaders, NoPage
  <2>3. /\ state' \in States /\ prevState' \in States
        /\ session' \in {"none", "unnamed", "named"}
        /\ starts' \in Nat /\ readyCalls' \in Nat /\ task' \in {"none", "save", "load"}
        /\ checkerTimer' \/ task' # "none" => session' = "named"
    BY <1>13 DEF SitemapLoaded, States, Settled, FileStates, OneThingAtATime
  <2> QED
    BY <2>1, <2>2, <2>3
<1>14. CASE onCrawlingSessionInitialized
  <2>1. /\ frame' \in BOOLEAN /\ crawlingFinished' \in BOOLEAN /\ hasData' \in BOOLEAN
        /\ hostInfo' \in BOOLEAN /\ workers' \in BOOLEAN
        /\ crawlingStateTimer' \in BOOLEAN /\ checkerTimer' \in BOOLEAN
        /\ clearOnDone' \in BOOLEAN /\ refreshing' \in BOOLEAN
    BY <1>14, Zenon DEF onCrawlingSessionInitialized, setState, StartWorkers
  <2>2. /\ startPage' \in Pages \union {NoPage} /\ lookup' \in Pages \union {NoPage}
        /\ robots' \in Loaders /\ sitemap' \in Loaders
        /\ robotsRequest' \in Hosts \union {NoHost}
        /\ sitemapRequest' \in Hosts \union {NoHost} /\ rulesOf' \in Hosts \union {NoHost}
    BY <1>14 DEF onCrawlingSessionInitialized, setState, StartWorkers, Pages,
       Loaders, NoPage
  <2>3. /\ state' \in States /\ prevState' \in States
        /\ session' \in {"none", "unnamed", "named"}
        /\ starts' \in Nat /\ readyCalls' \in Nat /\ task' \in {"none", "save", "load"}
        /\ checkerTimer' \/ task' # "none" => session' = "named"
    BY <1>14 DEF onCrawlingSessionInitialized, setState, StartWorkers, States,
       Settled, FileStates, OneThingAtATime
  <2> QED
    BY <2>1, <2>2, <2>3
<1>15. CASE onRefreshPageDone
  <2>1. /\ frame' \in BOOLEAN /\ crawlingFinished' \in BOOLEAN /\ hasData' \in BOOLEAN
        /\ hostInfo' \in BOOLEAN /\ workers' \in BOOLEAN
        /\ crawlingStateTimer' \in BOOLEAN /\ checkerTimer' \in BOOLEAN
        /\ clearOnDone' \in BOOLEAN /\ refreshing' \in BOOLEAN
    BY <1>15, Zenon DEF onRefreshPageDone, setState
  <2>2. /\ startPage' \in Pages \union {NoPage} /\ lookup' \in Pages \union {NoPage}
        /\ robots' \in Loaders /\ sitemap' \in Loaders
        /\ robotsRequest' \in Hosts \union {NoHost}
        /\ sitemapRequest' \in Hosts \union {NoHost} /\ rulesOf' \in Hosts \union {NoHost}
    BY <1>15 DEF onRefreshPageDone, setState, Pages, Loaders, NoPage
  <2>3. /\ state' \in States /\ prevState' \in States
        /\ session' \in {"none", "unnamed", "named"}
        /\ starts' \in Nat /\ readyCalls' \in Nat /\ task' \in {"none", "save", "load"}
        /\ checkerTimer' \/ task' # "none" => session' = "named"
    BY <1>15 DEF onRefreshPageDone, setState, States, Settled, FileStates,
       OneThingAtATime
  <2> QED
    BY <2>1, <2>2, <2>3
<1>16. CASE waitSerializationReadyState
  <2>1. /\ frame' \in BOOLEAN /\ crawlingFinished' \in BOOLEAN /\ hasData' \in BOOLEAN
        /\ hostInfo' \in BOOLEAN /\ workers' \in BOOLEAN
        /\ crawlingStateTimer' \in BOOLEAN /\ checkerTimer' \in BOOLEAN
        /\ clearOnDone' \in BOOLEAN /\ refreshing' \in BOOLEAN
    BY <1>16, Zenon DEF waitSerializationReadyState
  <2>2. /\ startPage' \in Pages \union {NoPage} /\ lookup' \in Pages \union {NoPage}
        /\ robots' \in Loaders /\ sitemap' \in Loaders
        /\ robotsRequest' \in Hosts \union {NoHost}
        /\ sitemapRequest' \in Hosts \union {NoHost} /\ rulesOf' \in Hosts \union {NoHost}
    BY <1>16 DEF waitSerializationReadyState, Pages, Loaders, NoPage
  <2>3. /\ state' \in States /\ prevState' \in States
        /\ session' \in {"none", "unnamed", "named"}
        /\ starts' \in Nat /\ readyCalls' \in Nat /\ task' \in {"none", "save", "load"}
        /\ checkerTimer' \/ task' # "none" => session' = "named"
    BY <1>16 DEF waitSerializationReadyState, States, Settled, FileStates,
       OneThingAtATime
  <2> QED
    BY <2>1, <2>2, <2>3
<1>17. CASE onSerializationTaskDone
  <2>1. /\ frame' \in BOOLEAN /\ crawlingFinished' \in BOOLEAN /\ hasData' \in BOOLEAN
        /\ hostInfo' \in BOOLEAN /\ workers' \in BOOLEAN
        /\ crawlingStateTimer' \in BOOLEAN /\ checkerTimer' \in BOOLEAN
        /\ clearOnDone' \in BOOLEAN /\ refreshing' \in BOOLEAN
    <3>1. frame' \in BOOLEAN
      BY <1>17 DEF onSerializationTaskDone, Cleared
    <3> QED
      BY <1>17, <3>1, Zenon DEF onSerializationTaskDone, Cleared
  <2>2. /\ startPage' \in Pages \union {NoPage} /\ lookup' \in Pages \union {NoPage}
        /\ robots' \in Loaders /\ sitemap' \in Loaders
        /\ robotsRequest' \in Hosts \union {NoHost}
        /\ sitemapRequest' \in Hosts \union {NoHost} /\ rulesOf' \in Hosts \union {NoHost}
    BY <1>17 DEF onSerializationTaskDone, Cleared, Pages, Loaders, NoPage
  <2>3. /\ state' \in States /\ prevState' \in States
        /\ session' \in {"none", "unnamed", "named"}
        /\ starts' \in Nat /\ readyCalls' \in Nat /\ task' \in {"none", "save", "load"}
        /\ checkerTimer' \/ task' # "none" => session' = "named"
    BY <1>17 DEF onSerializationTaskDone, Cleared, States, Settled, FileStates,
       OneThingAtATime
  <2> QED
    BY <2>1, <2>2, <2>3
<1>18. CASE onDeserializationTaskDone
  <2>1. /\ frame' \in BOOLEAN /\ crawlingFinished' \in BOOLEAN /\ hasData' \in BOOLEAN
        /\ hostInfo' \in BOOLEAN /\ workers' \in BOOLEAN
        /\ crawlingStateTimer' \in BOOLEAN /\ checkerTimer' \in BOOLEAN
        /\ clearOnDone' \in BOOLEAN /\ refreshing' \in BOOLEAN
    <3>1. frame' \in BOOLEAN
      BY <1>18 DEF onDeserializationTaskDone
    <3> QED
      BY <1>18, <3>1, Zenon DEF onDeserializationTaskDone
  <2>2. /\ startPage' \in Pages \union {NoPage} /\ lookup' \in Pages \union {NoPage}
        /\ robots' \in Loaders /\ sitemap' \in Loaders
        /\ robotsRequest' \in Hosts \union {NoHost}
        /\ sitemapRequest' \in Hosts \union {NoHost} /\ rulesOf' \in Hosts \union {NoHost}
    <3>1. /\ startPage' \in Pages \union {NoPage}
          /\ robots' \in Loaders /\ sitemap' \in Loaders
      <4>1. CASE UNCHANGED <<startPage, robots, sitemap>>
        BY <4>1
      <4>2. ASSUME NEW page \in Pages, NEW valid \in BOOLEAN, startPage' = page,
                   robots' = [ready |-> TRUE, valid |-> valid, of |-> page.host],
                   sitemap' = robots'
            PROVE  /\ startPage' \in Pages \union {NoPage}
                   /\ robots' \in Loaders /\ sitemap' \in Loaders
        BY <4>2 DEF Pages, Loaders
      <4> QED
        BY <1>18, <4>1, <4>2 DEF onDeserializationTaskDone
    <3> QED
      BY <1>18, <3>1 DEF onDeserializationTaskDone
  <2>3. /\ state' \in States /\ prevState' \in States
        /\ session' \in {"none", "unnamed", "named"}
        /\ starts' \in Nat /\ readyCalls' \in Nat /\ task' \in {"none", "save", "load"}
        /\ checkerTimer' \/ task' # "none" => session' = "named"
    BY <1>18 DEF onDeserializationTaskDone, States, Settled, FileStates,
       OneThingAtATime
  <2> QED
    BY <2>1, <2>2, <2>3
<1>19. CASE UNCHANGED sessionVars
  <2>1. /\ frame' \in BOOLEAN /\ crawlingFinished' \in BOOLEAN /\ hasData' \in BOOLEAN
        /\ hostInfo' \in BOOLEAN /\ workers' \in BOOLEAN
        /\ crawlingStateTimer' \in BOOLEAN /\ checkerTimer' \in BOOLEAN
        /\ clearOnDone' \in BOOLEAN /\ refreshing' \in BOOLEAN
    BY <1>19, Zenon DEF sessionVars
  <2>2. /\ startPage' \in Pages \union {NoPage} /\ lookup' \in Pages \union {NoPage}
        /\ robots' \in Loaders /\ sitemap' \in Loaders
        /\ robotsRequest' \in Hosts \union {NoHost}
        /\ sitemapRequest' \in Hosts \union {NoHost} /\ rulesOf' \in Hosts \union {NoHost}
    BY <1>19 DEF sessionVars, Pages, Loaders, NoPage
  <2>3. /\ state' \in States /\ prevState' \in States
        /\ session' \in {"none", "unnamed", "named"}
        /\ starts' \in Nat /\ readyCalls' \in Nat /\ task' \in {"none", "save", "load"}
        /\ checkerTimer' \/ task' # "none" => session' = "named"
    BY <1>19 DEF sessionVars, States, Settled, FileStates, OneThingAtATime
  <2> QED
    BY <2>1, <2>2, <2>3
<1> QED
  BY <1>1, <1>2, <1>3, <1>4, <1>5, <1>6, <1>7, <1>8, <1>9, <1>10, <1>11, <1>12,
     <1>13, <1>14, <1>15, <1>16, <1>17, <1>18, <1>19
     DEF Next, Command, Answer

(* SessionInv is inductive as long as only the window gives commands.      *)
LEMMA SessionInvHolds ==
  ASSUME ~TrayMenu PROVE Spec => []SessionInv
<1>1. Init => SessionInv
  <2>1. Init => SessionTypeOK
    <3>1. Init => /\ startPage \in Pages \union {NoPage}
                  /\ lookup \in Pages \union {NoPage}
                  /\ robots \in Loaders /\ sitemap \in Loaders
      BY DEF Init, Loaders, FreshLoader
    <3>2. Init => /\ frame \in BOOLEAN /\ crawlingFinished \in BOOLEAN
                  /\ hasData \in BOOLEAN /\ hostInfo \in BOOLEAN /\ workers \in BOOLEAN
                  /\ crawlingStateTimer \in BOOLEAN /\ checkerTimer \in BOOLEAN
                  /\ clearOnDone \in BOOLEAN /\ refreshing \in BOOLEAN
      BY Zenon DEF Init
    <3> QED
      BY <3>1, <3>2 DEF Init, SessionTypeOK, States
  <2>2. Init => WorkersFollowState /\ ChecksBeforeWorkers /\ FrameBlocks /\ PauseKnowsHost
    BY DEF Init, WorkersFollowState, ChecksBeforeWorkers, FrameBlocks, PauseKnowsHost,
           FileStates
  <2>3. Init => OneThingAtATime /\ ChecksInOrder
    BY DEF Init, OneThingAtATime, ChecksInOrder, FileStates, Settled, FreshLoader,
           isPreinitialized
  <2> QED
    BY <2>1, <2>2, <2>3 DEF SessionInv
<1>2. SessionInv /\ [Next]_sessionVars => SessionInv'
  BY TypeStep, WorkersStep, ChecksStep, OneThingStep, FrameStep, OrderStep, PauseStep
     DEF SessionInv
<1> QED
  BY <1>1, <1>2, PTL DEF Spec

(* The assertions on the session hold: what is written or read has one.    *)
THEOREM SessionTypeCorrect ==
  ASSUME ~TrayMenu PROVE Spec => []SessionTypeOK
<1>1. SessionInv => SessionTypeOK
  BY DEF SessionInv
<1> QED
  BY <1>1, SessionInvHolds, PTL

(* The workers run, and their end is watched for, exactly while the state  *)
(* is Working.                                                             *)
THEOREM WorkersAsStateSays ==
  ASSUME ~TrayMenu PROVE Spec => []WorkersFollowState
<1>1. SessionInv => WorkersFollowState
  BY DEF SessionInv
<1> QED
  BY <1>1, SessionInvHolds, PTL

(* No crawl runs before its checks are done.                               *)
THEOREM CrawlWaitsForChecks ==
  ASSUME ~TrayMenu PROVE Spec => []ChecksBeforeWorkers
<1>1. SessionInv => ChecksBeforeWorkers
  BY DEF SessionInv
<1> QED
  BY <1>1, SessionInvHolds, PTL

(* A state that blocks the window waits for an answer that is to come, for *)
(* no other, and goes back to a settled state.                             *)
THEOREM OperationsExclude ==
  ASSUME ~TrayMenu PROVE Spec => []OneThingAtATime
<1>1. SessionInv => OneThingAtATime
  BY DEF SessionInv
<1> QED
  BY <1>1, SessionInvHolds, PTL
=============================================================================
