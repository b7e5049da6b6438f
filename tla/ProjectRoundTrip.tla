--------------------------- MODULE ProjectRoundTrip ---------------------------
(***************************************************************************)
(* Project files: a crawl is stopped or has ended, is saved, closed, loaded*)
(* and goes on "from this point". CrawlPipeline is the crawler it happens  *)
(* to. Files are written and parsed by a task on a thread of its own,      *)
(* during which the crawler's threads go on with what is under way.        *)
(***************************************************************************)

EXTENDS CrawlPipeline

CONSTANTS
  MaxSaves, MaxLoads  (* Bounds of the model on user commands.             *)

ASSUME ProjectAssumption == MaxSaves \in Nat /\ MaxLoads \in Nat

VARIABLES
  prevState,  (* m_prevState: the state to go back to.                     *)
  collected,  (* What onSerializationReadyToBeStarted has read so far.     *)
  task,       (* The task under way: "none", "save" or "load".             *)
  file,       (* The project file.                                         *)
  saves, loads

projectVars == <<prevState, collected, task, file, saves, loads>>
allVars == <<pipelineVars, projectVars>>

NoPages == [pages |-> {}, crawled |-> {}, pending |-> {}]

ProjectInit ==
  /\ Init
  /\ prevState = "Pending"
  /\ collected = NoPages /\ task = "none" /\ file = NoPages
  /\ saves = 0 /\ loads = 0

(* What these actions leave alone: all of the pipeline but its state.      *)
quietMain == <<crawlingFinished, snapshot, mainQueue, sequencedStorage,
               starts, stops, clears>>

(* A mutant of isReadyForSerialization: the view may lag behind the model. *)
isReadyWhenHandled ==
  workersProcessedLinksCount = modelControllerCrawledLinksCount

(* What waitSerializationReadyState waits for, by a timer.                 *)
isReadyForSerialization ==
  /\ workersProcessedLinksCount = modelControllerCrawledLinksCount
  /\ modelControllerAcceptedLinksCount = sequencedDataCollectionLinksCount

(* saveToFile: the session is named after the file. The event loop brings  *)
(* what a clear has queued for the view before the user's next command.    *)
saveFile ==
  /\ mainPc = "idle" /\ state \in {"Pending", "Pause"} /\ session # "none"
  /\ Counted(mainQueue, "cleared") = 0
  /\ session' = "named"
  /\ saves < MaxSaves /\ saves' = saves + 1
  /\ prevState' = state /\ state' = "Serialization"
  /\ UNCHANGED <<storeVars, mainPc, quietMain, sharedVars, workerVars, modelVars,
                 collected, task, file, loads>>

(* onSerializationReadyToBeStarted reads the pages shown, then the pending *)
(* and active urls, then the crawled ones; workers may run in between.     *)
collectPages ==
  /\ mainPc = "idle" /\ state = "Serialization" /\ task = "none"
  /\ isReadyForSerialization
  /\ mainPc' = "savePending"
  /\ collected' = [collected EXCEPT !.pages = sequencedStorage]
  /\ UNCHANGED <<storeVars, state, quietMain, sharedVars, workerVars, modelVars,
                 session, prevState, task, file, saves, loads>>

collectPending ==
  /\ mainPc = "savePending" /\ mainPc' = "saveCrawled"
  /\ collected' = [collected EXCEPT !.pending = pendingAndActiveUrls]
  /\ UNCHANGED <<storeVars, state, quietMain, sharedVars, workerVars, modelVars,
                 session, prevState, task, file, saves, loads>>

collectCrawled ==
  /\ mainPc = "saveCrawled" /\ mainPc' = "idle"
  /\ collected' = [collected EXCEPT !.crawled = crawledUrlList]
  /\ task' = "save"
  /\ UNCHANGED <<storeVars, state, quietMain, sharedVars, workerVars, modelVars,
                 session, prevState, file, saves, loads>>

(* A mutant of onSerializationTaskDone: goes back by setState. *)
onSerializationTaskDoneBySetState ==
  /\ mainPc = "idle" /\ task = "save" /\ task' = "none"
  /\ prevState' = state /\ state' = prevState
  /\ file' = collected
  /\ UNCHANGED <<storeVars, mainPc, quietMain, sharedVars, workerVars, modelVars,
                 session, collected, saves, loads>>

onSerializationTaskDone ==
  /\ mainPc = "idle" /\ task = "save" /\ task' = "none"
  /\ state' = prevState
  /\ file' = collected
  /\ UNCHANGED <<storeVars, mainPc, quietMain, sharedVars, workerVars, modelVars,
                 session, prevState, collected, saves, loads>>

(* Refused while there is a session.                                       *)
loadFromFile ==
  /\ mainPc = "idle" /\ state \in {"Pending", "Pause"} /\ session = "none"
  /\ file # NoPages /\ loads < MaxLoads /\ loads' = loads + 1
  /\ session' = "named"
  /\ prevState' = state /\ state' = "Deserialization"
  /\ UNCHANGED <<storeVars, mainPc, quietMain, sharedVars, workerVars, modelVars,
                 collected, task, file, saves>>

(* onDeserializationReadyToBeStarted clears the data once more, and tells  *)
(* no worker.                                                              *)
deserialize ==
  /\ mainPc = "idle" /\ state = "Deserialization" /\ task = "none"
  /\ isReadyForSerialization
  /\ clearDataImpl
  /\ UNCHANGED <<session, clears, projectVars>>

deserializeClearStore ==
  /\ mainPc = "clearStore" /\ state = "Deserialization" /\ mainPc' = "idle"
  /\ clear
  /\ task' = "load"
  /\ UNCHANGED <<state, quietMain, sharedVars, workerVars, modelVars, session,
                 prevState, collected, file, saves, loads>>

(* The saved pages go into the model's storages and, by queued signals,    *)
(* back to the view; active urls come back as crawled and as pending.      *)
onDeserializationTaskDone ==
  /\ mainPc = "idle" /\ task = "load" /\ task' = "none"
  /\ state' = prevState
  /\ crawledStorage' = crawledStorage \union file.pages
  /\ mainQueue' = mainQueue \o SetToSeq(
       {[event |-> "added", url |-> u, turn |-> turnaround] : u \in file.pages})
  /\ setUrls(file.crawled, file.pending)
  /\ workersProcessedLinksCount' = Cardinality(file.pages)
  /\ modelControllerAcceptedLinksCount' = Cardinality(file.pages)
  /\ modelControllerCrawledLinksCount' = Cardinality(file.pages)
  /\ UNCHANGED <<mainPc, crawlingFinished, snapshot, sequencedStorage, starts,
                 stops, clears, turnaround, sequencedDataCollectionLinksCount,
                 workerVars, modelQueue, modelPc, session, prevState, collected,
                 file, saves, loads>>

(* Clears the data and ends the session, named or not.                     *)
closeFile ==
  /\ mainPc = "idle" /\ state \in {"Pending", "Pause"} /\ clears < MaxClears
  /\ clears' = clears + 1
  /\ clearDataImpl
  /\ session' = "none"
  /\ UNCHANGED projectVars

CrawlStep == Next /\ UNCHANGED projectVars

ProjectStep ==
  \/ collectPages \/ collectPending \/ collectCrawled \/ onSerializationTaskDone
  \/ deserialize \/ deserializeClearStore \/ onDeserializationTaskDone

ProjectNext == CrawlStep \/ saveFile \/ closeFile \/ loadFromFile \/ ProjectStep

ProjectSpec == ProjectInit /\ [][ProjectNext]_allVars

-----------------------------------------------------------------------------
(***************************************************************************)
(* Properties.                                                             *)
(***************************************************************************)

ProjectTypeOK ==
  /\ task \in {"none", "save", "load"}
  /\ prevState \in {"Pending", "Pause"}
  /\ {collected, file} \subseteq
       [pages : SUBSET {PageUrl[r] : r \in Requests}, crawled : SUBSET Requests,
        pending : SUBSET Requests]

(* Every page shown comes from a request that was handed to a worker and   *)
(* does not wait to be downloaded again: so no crawl, new or resumed from  *)
(* a project, loads a page twice, however late answers fell between the    *)
(* three reads of the save.                                                *)
NothingLoadedTwice ==
  Counted(mainQueue, "cleared") = 0 =>
    sequencedStorage \subseteq {PageUrl[r] : r \in crawledUrlList \ pendingUrlList}

(* What a save may write when no worker is in the middle of a response:    *)
(* every request that was handed out is either shown, or written down as   *)
(* pending, as it still loads. So the two comparisons that a save waits    *)
(* for are enough for all the other threads. They do not see a worker that *)
(* was stopped and still handles an answer: the page it has taken off the  *)
(* active urls and not yet emitted is in the file as crawled only.         *)
SaveConditionSound ==
  /\ clears = 0 /\ isReadyForSerialization
  /\ \A w \in Workers : job[w] = NoJob
  => {PageUrl[r] : r \in (crawledUrlList \ pendingAndActiveUrls) \ Filtered}
       \subseteq sequencedStorage
=============================================================================
