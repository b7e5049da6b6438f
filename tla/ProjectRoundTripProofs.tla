----------------------- MODULE ProjectRoundTripProofs -----------------------
(***************************************************************************)
(* Theorems about ProjectRoundTrip for any site, any number of workers and *)
(* of clears, saves and loads: the shape of the state, the blocking stop,  *)
(* the view that follows the model, the balance of the first crawl, and    *)
(* that no page is loaded twice.                                           *)
(*                                                                         *)
(* The crawler's own steps are those of CrawlPipeline, and its lemmas hold *)
(* of them here. Closing a project and loading one begin as every clear    *)
(* does; a save, and what surrounds a load, leaves the pipeline alone. Two *)
(* steps remain: the end of the clear that a load makes, which tells no    *)
(* worker, and the pages loaded that go into the pipeline all at once.     *)
(***************************************************************************)

EXTENDS ProjectRoundTrip, CrawlBalanceProofs

(***************************************************************************)
(* The steps of a save and of a load.                                      *)
(***************************************************************************)

(* What a save does, and what surrounds a load.                            *)
Aside ==
  \/ saveFile \/ collectPages \/ collectPending \/ collectCrawled
  \/ onSerializationTaskDone \/ loadFromFile

(* The steps of the crawler alone, of a clear, and of a project.           *)
LEMMA ProjectCases ==
  ASSUME [ProjectNext]_allVars
  PROVE  \/ [Next]_pipelineVars /\ UNCHANGED projectVars
         \/ closeFile \/ deserialize
         \/ Aside \/ deserializeClearStore \/ onDeserializationTaskDone
BY DEF ProjectNext, CrawlStep, ProjectStep, allVars, Aside

(* Those of a clear, said as the lemmas of the crawler say it.             *)
LEMMA ProjectClears ==
  ASSUME closeFile \/ deserialize
  PROVE  ClearBegins /\ UNCHANGED projectVars
BY DEF closeFile, deserialize, ClearBegins

(* Which part of a save or a load is under way.                            *)
PhaseInv ==
  /\ state = "Serialization" =>
       /\ mainPc \in {"idle", "savePending", "saveCrawled"} /\ task # "load"
       /\ EventsAt(mainQueue, "cleared") = {}
  /\ mainPc \in {"savePending", "saveCrawled"} => state = "Serialization" /\ task = "none"
  /\ state = "Deserialization" =>
       mainPc \in {"idle", "clearModel", "clearStore"} /\ task # "save"
  /\ task = "save" => state = "Serialization" /\ mainPc = "idle"
  /\ task = "load" => state = "Deserialization" /\ mainPc = "idle"

(* A save leaves the pipeline alone.                                       *)
LEMMA AsideLeaves ==
  ASSUME Aside, PhaseInv, ProjectTypeOK
  PROVE  /\ UNCHANGED <<storeVars, quietMain, sharedVars, workerVars, modelVars>>
         /\ {mainPc, mainPc'} \subseteq {"idle", "savePending", "saveCrawled"}
         /\ state \in {"Pending", "Pause", "Serialization"}
         /\ state' \in {"Pending", "Pause", "Serialization", "Deserialization"}
<1>1. CASE saveFile \/ loadFromFile
  BY <1>1 DEF saveFile, loadFromFile
<1>2. CASE collectPages \/ collectPending \/ collectCrawled
  BY <1>2 DEF collectPages, collectPending, collectCrawled, PhaseInv
<1>3. CASE onSerializationTaskDone
  BY <1>3 DEF onSerializationTaskDone, PhaseInv, ProjectTypeOK
<1> QED
  BY <1>1, <1>2, <1>3 DEF Aside

-----------------------------------------------------------------------------
(***************************************************************************)
(* The shape of the state.                                                 *)
(***************************************************************************)

(* A set as a sequence: every element once.                                *)
LEMMA SetAsSeq ==
  ASSUME NEW S, IsFiniteSet(S)
  PROVE  /\ SetToSeq(S) \in Seq(S) /\ Len(SetToSeq(S)) = Cardinality(S)
         /\ \A i, j \in 1..Cardinality(S) : SetToSeq(S)[i] = SetToSeq(S)[j] => i = j
         /\ \A x \in S : \E i \in 1..Cardinality(S) : SetToSeq(S)[i] = x
<1> DEFINE n == Cardinality(S)
           s == SetToSeq(S)
<1>1. n \in Nat /\ ExistsBijection(1..n, S)
  BY FS_CardinalityType
<1> HIDE DEF n
<1>2. PICK f \in [1..n -> S] : \A i, j \in 1..n : f[i] = f[j] => i = j
  BY <1>1 DEF ExistsBijection, Bijection, Injection, IsInjective
<1>3. \E g \in [1..n -> S] : IsInjective(g)
  BY <1>2 DEF IsInjective
<1>4. s \in [1..n -> S] /\ IsInjective(s)
  BY <1>3 DEF SetToSeq, n
<1> HIDE DEF s
<1>5. s \in Seq(S) /\ Len(s) = n
  BY <1>1, <1>4
<1>6. \A i, j \in 1..n : s[i] = s[j] => i = j
  BY <1>4 DEF IsInjective
<1>7. \A x \in S : \E i \in 1..n : s[i] = x
  <2>1. s \in Injection(1..n, S)
    BY <1>4, <1>6 DEF Injection, IsInjective
  <2>2. Cardinality(1..n) = n
    <3>1. 1 \in Int /\ n \in Int /\ n >= 1 - 1
      BY <1>1
    <3>2. Cardinality(1..n) = IF 1 > n THEN 0 ELSE n - 1 + 1
      BY <3>1, FS_Interval
    <3> QED
      BY <1>1, <3>2
  <2>3. s \in Surjection(1..n, S)
    BY <2>1, <2>2, FS_Injection DEF n
  <2> QED
    BY <2>3 DEF Surjection
<1> QED
  BY <1>5, <1>6, <1>7 DEF n, s

(* The signals of the pages of a project.                                  *)
Signals == {[event |-> "added", url |-> u, turn |-> turnaround] : u \in file.pages}

(* They are as many as the pages, all of the present turn.                 *)
LEMMA SignalsOfPages ==
  ASSUME PipelineTypeOK, ProjectTypeOK
  PROVE  /\ file.pages \subseteq Urls /\ IsFiniteSet(Signals)
         /\ Signals \subseteq MainEvents
         /\ SetToSeq(Signals) \in Seq(MainEvents)
<1>1. file.pages \subseteq Urls /\ turnaround \in Nat
  BY DEF ProjectTypeOK, PipelineTypeOK, Urls
<1>2. Signals \subseteq MainEvents
  BY <1>1 DEF Signals, MainEvents
<1>3. IsFiniteSet(Signals)
  <2> DEFINE f == [u \in file.pages |-> [event |-> "added", url |-> u, turn |-> turnaround]]
  <2>1. f \in Surjection(file.pages, Signals)
    BY DEF Surjection, Signals
  <2>2. IsFiniteSet(file.pages)
    BY <1>1, UrlsFinite
  <2> QED
    BY <2>1, <2>2, FS_Surjection
<1>4. SetToSeq(Signals) \in Seq(Signals)
  BY <1>3, SetAsSeq
<1>5. SetToSeq(Signals) \in Seq(MainEvents)
  <2> DEFINE s == SetToSeq(Signals)
  <2>1. s \in Seq(Signals)
    BY <1>4
  <2> HIDE DEF s
  <2>2. s \in Seq(MainEvents)
    BY <1>2, <2>1
  <2> QED
    BY <2>2 DEF s
<1> QED
  BY <1>1, <1>2, <1>3, <1>5

(* Every step keeps the shape of the pipeline.                             *)
LEMMA ProjectPipelineTyped ==
  ASSUME PipelineTypeOK, ProjectTypeOK, [ProjectNext]_allVars
  PROVE  PipelineTypeOK'
<1> USE DEF PipelineTypeOK
<1>1. CASE [Next]_pipelineVars
  BY <1>1, NextTyped
<1>2. CASE closeFile \/ deserialize
  <2>1. clearDataImpl /\ session' \in {"none", "unnamed", "named"} /\ clears' \in Nat
    BY <1>2 DEF closeFile, deserialize, MainShape
  <2>2. StoreShape' /\ WorkerShape'
    BY <2>1 DEF clearDataImpl, StoreShape, WorkerShape, workerVars, listVars, optionVars
  <2>3. ModelShape'
    <3>1. [event |-> "clear"] \in ModelEvents
      BY DEF ModelEvents
    <3> QED
      BY <2>1, <3>1 DEF clearDataImpl, ModelShape
  <2>4. MainShape'
    BY <2>1 DEF clearDataImpl, MainShape
  <2> QED
    BY <2>1, <2>2, <2>3, <2>4 DEF clearDataImpl
<1>3. CASE Aside
  <2>1. /\ UNCHANGED <<storeVars, quietMain, sharedVars, workerVars, modelVars>>
        /\ mainPc' \in {"idle", "savePending", "saveCrawled"}
        /\ state' \in {"Pending", "Pause", "Serialization", "Deserialization"} \/ state' = state
        /\ session' \in {session, "named"}
    BY <1>3 DEF Aside, saveFile, loadFromFile, collectPages, collectPending, collectCrawled,
                onSerializationTaskDone, ProjectTypeOK
  <2>2. MainShape'
    BY <2>1 DEF MainShape, quietMain
  <2> QED
    BY <2>1, <2>2, StoreShapeKept DEF sharedVars, workerVars, modelVars, WorkerShape, ModelShape
<1>4. CASE deserializeClearStore
  <2>1. StoreShape'
    BY <1>4, StoreShapeKept DEF deserializeClearStore
  <2>2. MainShape' /\ WorkerShape' /\ ModelShape'
    BY <1>4 DEF deserializeClearStore, quietMain, workerVars, modelVars, MainShape, WorkerShape, ModelShape
  <2> QED
    BY <1>4, <2>1, <2>2 DEF deserializeClearStore, sharedVars
<1>5. CASE onDeserializationTaskDone
  <2>1. /\ file.crawled \subseteq Requests /\ file.pending \subseteq Requests
        /\ prevState \in {"Pending", "Pause"}
    BY DEF ProjectTypeOK
  <2>2. Cardinality(file.crawled) \in Nat /\ Cardinality(file.pending) \in Nat
    BY <2>1, RequestsFinite
  <2>3. file.pages \subseteq Urls /\ Cardinality(file.pages) \in Nat
    BY SignalsOfPages, UrlsFinite
  <2>4. StoreShape'
    BY <1>5, <2>1, <2>2 DEF onDeserializationTaskDone, setUrls, StoreShape, optionVars
  <2>5. mainQueue' \in Seq(MainEvents)
    <3>1. mainQueue \in Seq(MainEvents) /\ mainQueue' = mainQueue \o SetToSeq(Signals)
      BY <1>5 DEF onDeserializationTaskDone, Signals, MainShape
    <3> QED
      BY <3>1, SignalsOfPages, ConcatProperties
  <2>6. MainShape'
    BY <1>5, <2>1, <2>5 DEF onDeserializationTaskDone, MainShape
  <2>7. WorkerShape' /\ ModelShape'
    BY <1>5, <2>3 DEF onDeserializationTaskDone, workerVars, WorkerShape, ModelShape
  <2> QED
    BY <1>5, <2>3, <2>4, <2>6, <2>7 DEF onDeserializationTaskDone
<1> QED
  BY <1>1, <1>2, <1>3, <1>4, <1>5, ProjectCases

(* Every step keeps the shape of what a save has read and of the file.     *)
LEMMA ProjectTyped ==
  ASSUME PipelineTypeOK, ProjectTypeOK, [ProjectNext]_allVars
  PROVE  ProjectTypeOK'
<1> DEFINE Projects == [pages : SUBSET {PageUrl[r] : r \in Requests}, crawled : SUBSET Requests,
                        pending : SUBSET Requests]
<1>1. /\ collected \in Projects /\ file \in Projects /\ prevState \in {"Pending", "Pause"}
      /\ task \in {"none", "save", "load"}
  BY DEF ProjectTypeOK
<1>2. /\ sequencedStorage \in SUBSET {PageUrl[r] : r \in Requests}
      /\ crawledUrlList \in SUBSET Requests /\ pendingAndActiveUrls \in SUBSET Requests
  BY DEF PipelineTypeOK, MainShape, StoreShape, Urls, pendingAndActiveUrls
<1>3. /\ collected' \in Projects /\ file' \in Projects /\ prevState' \in {"Pending", "Pause"}
      /\ task' \in {"none", "save", "load"}
  <2> HIDE DEF Projects
  <2>1. CASE UNCHANGED projectVars
    BY <1>1, <2>1 DEF projectVars
  <2>2. CASE saveFile \/ loadFromFile
    BY <1>1, <2>2 DEF saveFile, loadFromFile
  <2>3. CASE collectPages \/ collectPending \/ collectCrawled
    BY <1>1, <1>2, <2>3 DEF collectPages, collectPending, collectCrawled, Projects
  <2>4. CASE onSerializationTaskDone
    BY <1>1, <2>4 DEF onSerializationTaskDone
  <2>5. CASE deserializeClearStore \/ onDeserializationTaskDone
    BY <1>1, <2>5 DEF deserializeClearStore, onDeserializationTaskDone
  <2> QED
    BY <2>1, <2>2, <2>3, <2>4, <2>5, ProjectCases, ProjectClears DEF Aside
<1> QED
  BY <1>3 DEF ProjectTypeOK

(* The shape holds at first.                                               *)
LEMMA ProjectInitTyped == ProjectInit => PipelineTypeOK /\ ProjectTypeOK
<1>1. ProjectInit => PipelineTypeOK
  BY InitTyped DEF ProjectInit
<1>2. ProjectInit => ProjectTypeOK
  BY DEF ProjectInit, ProjectTypeOK, NoPages
<1> QED
  BY <1>1, <1>2

(* The shape of the crawler's state, also where projects are saved and     *)
(* loaded: no counter of a thread ever drops below zero.                   *)
THEOREM ProjectPipelineTypeCorrect == ProjectSpec => []PipelineTypeOK
<1>1. PipelineTypeOK /\ ProjectTypeOK /\ [ProjectNext]_allVars => (PipelineTypeOK /\ ProjectTypeOK)'
  BY ProjectPipelineTyped, ProjectTyped
<1> QED
  BY <1>1, ProjectInitTyped, PTL DEF ProjectSpec

(* What a save reads and what a file holds are pages and requests of the   *)
(* site, and the state to go back to is one the user can be in: pending or *)
(* paused, never that of a save or a load.                                 *)
THEOREM ProjectTypeCorrect == ProjectSpec => []ProjectTypeOK
<1>1. PipelineTypeOK /\ ProjectTypeOK /\ [ProjectNext]_allVars => (PipelineTypeOK /\ ProjectTypeOK)'
  BY ProjectPipelineTyped, ProjectTyped
<1> QED
  BY <1>1, ProjectInitTyped, PTL DEF ProjectSpec

-----------------------------------------------------------------------------
(***************************************************************************)
(* The blocking stop, and the phases of a save and a load.                 *)
(***************************************************************************)

(* The crawler alone neither begins nor ends a save or a load.             *)
LEMMA PhaseAlone ==
  ASSUME PipelineTypeOK, ClearInv, ControlInv, PhaseInv, [Next]_pipelineVars
  PROVE  /\ state \in {"Serialization", "Deserialization"} => state' = state
         /\ state' \in {"Serialization", "Deserialization"} => state' = state
         /\ mainPc' \in {"savePending", "saveCrawled"} => mainPc' = mainPc
         /\ state \in {"Serialization", "Deserialization"} => mainPc' = mainPc \/ modelClear
         /\ modelClear => mainPc = "clearModel" /\ mainPc' = "clearStore"
<1>1. ASSUME NEW w \in Workers, stop(w)
      PROVE  /\ mainPc \in {"stop", "endStop"} /\ state' = state
             /\ mainPc' \in {"stop", "endStop", "endStopped", "idle"}
  <2>1. workerQueue[w] \in Seq(WorkerEvents) /\ workerQueue[w] # <<>>
          /\ Head(workerQueue[w]).event = "stop"
    BY <1>1 DEF stop, Receives, PipelineTypeOK, WorkerShape
  <2>2. Stops(w) # {}
    BY <2>1, StopTail DEF Stops
  <2>3. mainPc \in {"stop", "endStop"}
    BY <2>2 DEF ControlInv, Stopping
  <2> QED
    BY <1>1, <2>3 DEF stop
<1>2. ASSUME modelClear
      PROVE  mainPc = "clearModel" /\ mainPc' = "clearStore" /\ state' = state
  BY <1>2, ClearHead DEF modelClear, ModelEvent, PipelineTypeOK, ModelShape
<1>3. ASSUME NEW w \in Workers,
             \/ ExtractDue(w) \/ LoadingDone(w) \/ onLoadingDone(w) \/ start(w) \/ workerClear(w)
             \/ extract(w) \/ addLinks(w) \/ emitResult(w) \/ count(w)
             \/ claimHop(w) \/ claimBlocked(w)
      PROVE  mainPc' = mainPc /\ state' = state /\ ~modelClear
  <2>1. mainPc' = mainPc /\ state' = state
    BY <1>3 DEF ExtractDue, LoadingDone, onLoadingDone, start, workerClear, extract,
                addLinks, emitResult, count, claimHop, claimBlocked, mainVars
  <2> QED
    BY <1>2, <2>1
<1>4. CASE handleWorkerResult \/ modelAdd \/ modelAccept \/ modelCount \/ UNCHANGED pipelineVars
  BY <1>2, <1>4 DEF handleWorkerResult, modelAdd, modelAccept, modelCount, pipelineVars, mainVars
<1>5. CASE MainStep
  <2>1. /\ state \in {"Serialization", "Deserialization"} => state' = state /\ mainPc' = mainPc
        /\ state' \in {"Serialization", "Deserialization"} => state' = state
        /\ mainPc' \notin {"clearStore", "savePending", "saveCrawled"}
    <3>1. CASE MainQueue
      BY <3>1 DEF MainQueue, addParsedPage, onDataCleared, MainEvent
    <3>2. CASE onAboutCrawlingState \/ loadCounter
      BY <3>2 DEF onAboutCrawlingState, loadCounter, PhaseInv
    <3>3. CASE decideCrawlingEnded
      BY <3>3 DEF decideCrawlingEnded, BeginStop, PhaseInv
    <3>4. CASE crawlerFinished \/ clearStore
      <4>1. CASE crawlerFinished
        BY <4>1 DEF crawlerFinished, PhaseInv
      <4>2. CASE clearStore
        BY <4>2 DEF clearStore, PhaseInv
      <4> QED
        BY <3>4, <4>1, <4>2
    <3> QED
      BY <1>5, <3>1, <3>2, <3>3, <3>4 DEF MainStep
  <2> QED
    BY <1>2, <2>1
<1>6. CASE User
  BY <1>2, <1>6 DEF User, startCrawling, stopCrawling, BeginStop, clearData, clearDataImpl
<1>7. ASSUME ~modelClear
      PROVE  /\ state \in {"Serialization", "Deserialization"} => state' = state /\ mainPc' = mainPc
             /\ state' \in {"Serialization", "Deserialization"} => state' = state
             /\ mainPc' \in {"savePending", "saveCrawled"} => mainPc' = mainPc
  <2>1. CASE \E w \in Workers : stop(w)
    BY <1>1, <2>1 DEF PhaseInv
  <2>2. CASE \E w \in Workers : (Worker(w) /\ ~stop(w)) \/ LoadingDone(w)
    BY <1>3, <2>2 DEF Worker
  <2>3. CASE MainStep \/ User
    BY <1>5, <1>6, <1>7, <2>3
  <2> QED
    BY <1>4, <1>7, <2>1, <2>2, <2>3 DEF Next, Model, AtRest
<1> QED
  BY <1>2, <1>7

(* A clear is not told to the view while a save is under way.              *)
LEMMA ClearedStays ==
  ASSUME PipelineTypeOK, ClearInv, [Next]_pipelineVars, EventsAt(mainQueue, "cleared") = {},
         mainPc # "clearModel"
  PROVE  EventsAt(mainQueue', "cleared") = {}
<1>1. mainQueue \in Seq(MainEvents) /\ ~modelClear
  BY ClearHead DEF modelClear, ModelEvent, PipelineTypeOK, ModelShape, MainShape
<1>2. CASE mainQueue' = mainQueue
  BY <1>2
<1>3. CASE MainQueue
  <2>1. mainQueue # <<>> /\ mainQueue' = Tail(mainQueue)
    BY <1>3 DEF MainQueue, addParsedPage, onDataCleared, MainEvent
  <2>2. \A i \in EventsAt(Tail(mainQueue), "cleared") : i + 1 \in EventsAt(mainQueue, "cleared")
    BY <1>1, <2>1, EventsShift
  <2> QED
    BY <2>1, <2>2
<1>4. CASE modelAdd
  <2>1. modelPc \in [call : {"add", "accept", "count"}, url : Urls, turn : Int]
    BY <1>4 DEF modelAdd, Idle, PipelineTypeOK, ModelShape
  <2>2. [event |-> "added", url |-> modelPc.url, turn |-> modelPc.turn] \in MainEvents
    BY <2>1 DEF MainEvents
  <2> QED
    BY <1>1, <1>4, <2>2, FreshAppend DEF modelAdd
<1>5. mainQueue' = mainQueue \/ MainQueue \/ modelAdd
  <2>1. ASSUME NEW w \in Workers, Worker(w) \/ LoadingDone(w) PROVE mainQueue' = mainQueue
    BY <2>1 DEF Worker, LoadingDone, ExtractDue, onLoadingDone, start, stop, workerClear, extract,
       addLinks, emitResult, count, claimHop, claimBlocked, mainVars
  <2>2. CASE handleWorkerResult \/ modelAccept \/ modelCount \/ UNCHANGED pipelineVars
    BY <2>2 DEF handleWorkerResult, modelAccept, modelCount, pipelineVars, mainVars
  <2>3. CASE onAboutCrawlingState \/ loadCounter \/ decideCrawlingEnded \/ crawlerFinished
               \/ clearStore \/ User
    BY <2>3 DEF onAboutCrawlingState, loadCounter, decideCrawlingEnded, crawlerFinished, clearStore,
       User, startCrawling, stopCrawling, clearData, clearDataImpl
  <2> QED
    BY <1>1, <2>1, <2>2, <2>3 DEF Next, Model, MainStep, AtRest
<1> QED
  BY <1>2, <1>3, <1>4, <1>5

(* No clear is told when none is counted.                                  *)
LEMMA NoneCleared ==
  ASSUME PipelineTypeOK
  PROVE  Counted(mainQueue, "cleared") = 0 <=> EventsAt(mainQueue, "cleared") = {}
<1>1. mainQueue \in Seq(MainEvents)
  BY DEF PipelineTypeOK, MainShape
<1>2. Len(mainQueue) \in Nat /\ EventsAt(mainQueue, "cleared") \subseteq 1..Len(mainQueue)
  BY <1>1 DEF EventsAt
<1>3. IsFiniteSet(1..Len(mainQueue))
  BY <1>2, FS_Interval
<1>4. IsFiniteSet(EventsAt(mainQueue, "cleared"))
  BY <1>2, <1>3, FS_Subset
<1> QED
  BY <1>4, FS_EmptySet DEF Counted

(* The phases follow one another.                                          *)
LEMMA PhaseKept ==
  ASSUME PipelineTypeOK, ProjectTypeOK, ClearInv, ControlInv, PhaseInv, [ProjectNext]_allVars
  PROVE  PhaseInv'
<1>1. CASE [Next]_pipelineVars /\ UNCHANGED projectVars
  <2>1. task' = task
    BY <1>1 DEF projectVars
  <2>2. ASSUME state' = "Serialization"
        PROVE  /\ mainPc' \in {"idle", "savePending", "saveCrawled"} /\ mainPc' = mainPc
               /\ task' # "load" /\ EventsAt(mainQueue', "cleared") = {}
    <3>1. state = "Serialization" /\ mainPc' = mainPc
      BY <1>1, <2>2, PhaseAlone DEF PhaseInv
    <3>2. EventsAt(mainQueue', "cleared") = {}
      BY <1>1, <3>1, ClearedStays DEF PhaseInv
    <3> QED
      BY <2>1, <3>1, <3>2 DEF PhaseInv
  <2>3. ASSUME state' = "Deserialization"
        PROVE  mainPc' \in {"idle", "clearModel", "clearStore"} /\ task' # "save"
    BY <1>1, <2>1, <2>3, PhaseAlone DEF PhaseInv
  <2>4. ASSUME mainPc' \in {"savePending", "saveCrawled"}
        PROVE  state' = "Serialization" /\ task' = "none"
    BY <1>1, <2>1, <2>4, PhaseAlone DEF PhaseInv
  <2>5. task' = "save" => state' = "Serialization" /\ mainPc' = "idle"
    BY <1>1, <2>1, PhaseAlone DEF PhaseInv
  <2>6. task' = "load" => state' = "Deserialization" /\ mainPc' = "idle"
    BY <1>1, <2>1, PhaseAlone DEF PhaseInv
  <2> QED
    BY <2>2, <2>3, <2>4, <2>5, <2>6 DEF PhaseInv, EventsAt
<1>2. CASE closeFile \/ deserialize
  <2>1. /\ mainPc' = "clearModel" /\ state' = state /\ task' = task /\ mainPc = "idle"
        /\ state # "Serialization" /\ task = "none"
    BY <1>2 DEF closeFile, deserialize, clearDataImpl, projectVars, PhaseInv, ProjectTypeOK
  <2> QED
    BY <2>1 DEF PhaseInv
<1>3. CASE saveFile
  <2>1. EventsAt(mainQueue, "cleared") = {}
    BY <1>3, NoneCleared DEF saveFile
  <2>2. /\ mainPc' = "idle" /\ state' = "Serialization" /\ mainQueue' = mainQueue /\ task' = "none"
    BY <1>3 DEF saveFile, quietMain, PhaseInv, ProjectTypeOK
  <2> QED
    BY <2>1, <2>2 DEF PhaseInv
<1>4. CASE loadFromFile
  <2>1. /\ mainPc' = "idle" /\ state' = "Deserialization" /\ task' = "none"
    BY <1>4 DEF loadFromFile, PhaseInv, ProjectTypeOK
  <2> QED
    BY <2>1 DEF PhaseInv
<1>5. CASE collectPages \/ collectPending \/ collectCrawled
  <2>1. /\ state' = "Serialization" /\ mainQueue' = mainQueue /\ EventsAt(mainQueue, "cleared") = {}
        /\ \/ mainPc' \in {"savePending", "saveCrawled"} /\ task' = "none"
           \/ mainPc' = "idle" /\ task' = "save"
    BY <1>5 DEF collectPages, collectPending, collectCrawled, quietMain, PhaseInv
  <2> QED
    BY <2>1 DEF PhaseInv
<1>6. CASE onSerializationTaskDone \/ onDeserializationTaskDone
  <2>1. mainPc' = "idle" /\ state' \in {"Pending", "Pause"} /\ task' = "none"
    BY <1>6 DEF onSerializationTaskDone, onDeserializationTaskDone, ProjectTypeOK
  <2> QED
    BY <2>1 DEF PhaseInv
<1>7. CASE deserializeClearStore
  <2>1. mainPc' = "idle" /\ state' = "Deserialization" /\ task' = "load"
    BY <1>7 DEF deserializeClearStore
  <2> QED
    BY <2>1 DEF PhaseInv
<1> QED
  BY <1>1, <1>2, <1>3, <1>4, <1>5, <1>6, <1>7, ProjectCases DEF Aside

(* A save, and the ends of a load, stop and start no worker.               *)
LEMMA ProjectControlKept ==
  ASSUME PipelineTypeOK, ProjectTypeOK, ClearInv, ControlInv, PhaseInv, [ProjectNext]_allVars
  PROVE  ClearInv' /\ ControlInv'
<1>1. CASE [Next]_pipelineVars \/ closeFile \/ deserialize
  BY <1>1, ProjectClears, ClearKept, ControlKept
<1>2. CASE Aside \/ deserializeClearStore \/ onDeserializationTaskDone
  <2>1. /\ UNCHANGED workerVars /\ mainPc \notin {"stop", "endStop", "clearModel"}
        /\ mainPc' \in {"idle", "savePending", "saveCrawled"}
        /\ state # "Working" /\ state' # "Working" /\ modelQueue' = modelQueue
    <3>1. CASE Aside
      BY <3>1, AsideLeaves DEF modelVars
    <3>2. CASE deserializeClearStore
      BY <3>2 DEF deserializeClearStore, modelVars
    <3>3. CASE onDeserializationTaskDone
      BY <3>3 DEF onDeserializationTaskDone, PhaseInv, ProjectTypeOK
    <3> QED
      BY <1>2, <3>1, <3>2, <3>3
  <2>2. ClearInv'
    BY <2>1 DEF ClearInv
  <2>3. \A w \in Workers : Quiet(w)
    BY <2>1 DEF ControlInv, Stopping
  <2>4. \A w \in Workers : Quiet(w)'
    BY <2>1, <2>3 DEF Quiet, Starts, Stops, workerVars
  <2>5. ControlInv'
    BY <2>1, <2>4 DEF ControlInv, Stopping, Quiet
  <2> QED
    BY <2>2, <2>5
<1> QED
  BY <1>1, <1>2, ProjectCases

(* All of it at once, for the proofs that follow.                          *)
ProjectControl == PipelineTypeOK /\ ProjectTypeOK /\ ClearInv /\ ControlInv /\ PhaseInv

(* A stop is on its way through the workers, or none of them has one; and  *)
(* nothing else goes on in the main thread while a save reads the lists.   *)
THEOREM ProjectStopControl == ProjectSpec => []ProjectControl
<1>1. ProjectInit => ProjectControl
  BY ProjectInitTyped, ControlInit DEF ProjectInit, ProjectControl, PhaseInv, Init
<1>2. ProjectControl /\ [ProjectNext]_allVars => ProjectControl'
  <2> SUFFICES ASSUME ProjectControl, [ProjectNext]_allVars PROVE ProjectControl'
    OBVIOUS
  <2>1. PipelineTypeOK /\ ProjectTypeOK /\ ClearInv /\ ControlInv /\ PhaseInv
    BY DEF ProjectControl
  <2>2. PipelineTypeOK' /\ ProjectTypeOK'
    BY <2>1, ProjectPipelineTyped, ProjectTyped
  <2>3. PhaseInv' /\ ClearInv' /\ ControlInv'
    BY <2>1, PhaseKept, ProjectControlKept
  <2> QED
    BY <2>2, <2>3 DEF ProjectControl
<1> QED
  BY <1>1, <1>2, PTL DEF ProjectSpec

-----------------------------------------------------------------------------
(***************************************************************************)
(* Turns, and what a load finds.                                           *)
(***************************************************************************)

(* Once the model is cleared it stays empty until the pages are loaded, no *)
(* request is active then, and what is still under way is of turns before. *)
LoadInv ==
  /\ mainPc = "clearStore" \/ task = "load" => crawledStorage = {} /\ modelPc = Idle
  /\ task = "load" => activeUrlList = {} /\ TurnsUpTo(turnaround - 1)

(* What is under way is the same where neither worker nor result is        *)
(* touched.                                                                *)
LEMMA TurnsSame ==
  ASSUME NEW t, workerVars' = workerVars, modelQueue' = modelQueue
  PROVE  TurnsUpTo(t)' <=> TurnsUpTo(t)
<1>1. inFlight' = inFlight /\ workerQueue' = workerQueue /\ job' = job
  BY DEF workerVars
<1> QED
  BY <1>1 DEF TurnsUpTo, Within, EventsAt

(* The turns stay in their bounds, also where a project is saved or loaded.*)
LEMMA ProjectTurnKept ==
  ASSUME ProjectControl, TurnInv, [ProjectNext]_allVars
  PROVE  TurnInv'
<1> USE DEF ProjectControl
<1>1. CASE [Next]_pipelineVars \/ closeFile \/ deserialize
  BY <1>1, ProjectClears, TurnKept
<1>2. CASE Aside \/ deserializeClearStore \/ onDeserializationTaskDone
  <2>1. /\ workerVars' = workerVars /\ modelQueue' = modelQueue /\ modelPc' = modelPc
        /\ turnaround' = turnaround /\ mainPc # "clearModel"
        /\ mainPc' \notin {"clearModel", "clearStore"}
    <3>1. CASE Aside
      BY <3>1, AsideLeaves DEF modelVars, sharedVars
    <3>2. CASE deserializeClearStore
      BY <3>2 DEF deserializeClearStore, modelVars, sharedVars
    <3>3. CASE onDeserializationTaskDone
      BY <3>3 DEF onDeserializationTaskDone
    <3> QED
      BY <1>2, <3>1, <3>2, <3>3
  <2>2. PICK t : t = turnaround
    OBVIOUS
  <2>3. TurnsUpTo(t)' /\ turnaround' = t
    BY <2>1, <2>2, TurnsSame DEF TurnInv
  <2>4. TurnsUpTo(turnaround)'
    BY <2>3 DEF TurnsUpTo
  <2> QED
    BY <2>1, <2>4 DEF TurnInv, Clearing
<1> QED
  BY <1>1, <1>2, ProjectCases

(* No result of an earlier turn gets into a model that is cleared.         *)
LEMMA EmptyStays ==
  ASSUME PipelineTypeOK, TurnsUpTo(turnaround - 1), crawledStorage = {}, modelPc = Idle,
         [Next]_pipelineVars
  PROVE  crawledStorage' = {} /\ modelPc' = Idle
<1>a. modelQueue \in Seq(ModelEvents) /\ turnaround \in Nat
  BY DEF PipelineTypeOK, ModelShape
<1>1. CASE modelVars' = modelVars
  BY <1>1 DEF modelVars
<1>2. CASE handleWorkerResult
  <2> DEFINE e == Head(modelQueue)
  <2>1. modelQueue # <<>> /\ e.event = "result" /\ crawledStorage' = crawledStorage
    BY <1>2 DEF handleWorkerResult, ModelEvent
  <2>2. e \in TurnResults(turnaround - 1)
    BY <1>a, <2>1, WithinQueue DEF TurnsUpTo
  <2>3. ~AcceptsResult(e)
    <3>1. e \in ModelEvents /\ e.turn <= turnaround - 1
      BY <2>2 DEF TurnResults
    <3>2. e.turn \in Int
      BY <2>1, <3>1 DEF ModelEvents
    <3> QED
      BY <1>a, <3>1, <3>2 DEF AcceptsResult
  <2> HIDE DEF e
  <2>4. modelPc' = IF ~AcceptsResult(e) THEN Idle
                   ELSE [call |-> IF e.page \in Filtered \/ PageUrl[e.page] \in crawledStorage
                                  THEN "count" ELSE "add",
                         url |-> PageUrl[e.page], turn |-> e.turn]
    BY <1>2 DEF handleWorkerResult, e
  <2> QED
    BY <2>1, <2>3, <2>4
<1>3. ~modelAdd /\ ~modelAccept /\ ~modelCount
  BY DEF modelAdd, modelAccept, modelCount, Idle
<1>4. CASE modelClear
  BY <1>4 DEF modelClear, ModelEvent
<1>5. ASSUME NEW w \in Workers, emitResult(w)
      PROVE  crawledStorage' = crawledStorage /\ modelPc' = modelPc
  BY <1>5 DEF emitResult
<1>6. ASSUME NEW w \in Workers, LoadingDone(w) \/ (Worker(w) /\ ~emitResult(w))
      PROVE  modelVars' = modelVars
  BY <1>6 DEF Worker, LoadingDone, ExtractDue, onLoadingDone, start, stop, workerClear, extract,
     addLinks, count, claimHop, claimBlocked
<1>7. CASE User
  BY <1>7 DEF User, startCrawling, stopCrawling, clearData, clearDataImpl, modelVars
<1>8. CASE MainStep
  BY <1>8 DEF MainStep, MainQueue, addParsedPage, onDataCleared, onAboutCrawlingState, loadCounter,
     decideCrawlingEnded, crawlerFinished, clearStore, modelVars
<1>9. CASE UNCHANGED pipelineVars
  BY <1>9 DEF pipelineVars, modelVars
<1> QED
  BY <1>1, <1>2, <1>3, <1>4, <1>5, <1>6, <1>7, <1>8, <1>9 DEF Next, Model, AtRest

(* Only a worker that runs makes a request active.                         *)
LEMMA NoneActivated ==
  ASSUME [Next]_pipelineVars, \A w \in Workers : ~isRunning[w], activeUrlList = {}
  PROVE  activeUrlList' = {}
<1>1. ASSUME NEW w \in Workers, extractUrlAndDownload(w) PROVE activeUrlList' = {}
  BY <1>1 DEF extractUrlAndDownload, canPullLoading, storeVars, listVars
<1>2. ASSUME NEW w \in Workers, Worker(w) \/ LoadingDone(w) PROVE activeUrlList' = {}
  <2>1. CASE ExtractDue(w) \/ extract(w)
    BY <1>1, <2>1 DEF ExtractDue, extract
  <2>2. CASE addLinks(w) \/ claimHop(w) \/ claimBlocked(w) \/ onLoadingDone(w)
    BY <2>2 DEF addLinks, addUrlList, claimHop, claimBlocked, addCrawledUrl, onLoadingDone,
       activeRequestReceived, storeVars, listVars
  <2>3. CASE LoadingDone(w) \/ start(w) \/ stop(w) \/ workerClear(w) \/ emitResult(w) \/ count(w)
    BY <2>3 DEF LoadingDone, start, stop, workerClear, emitResult, count, storeVars, listVars
  <2> QED
    BY <1>2, <2>1, <2>2, <2>3 DEF Worker
<1>3. CASE Model
  BY <1>3 DEF Model, handleWorkerResult, modelAdd, modelAccept, modelCount, modelClear,
     storeVars, listVars
<1>4. CASE User
  BY <1>4 DEF User, startCrawling, addUrlList, stopCrawling, clearData, clearDataImpl,
     storeVars, listVars
<1>5. CASE MainStep
  BY <1>5 DEF MainStep, MainQueue, addParsedPage, onDataCleared, onAboutCrawlingState, loadCounter,
     decideCrawlingEnded, crawlerFinished, clearStore, clear, storeVars, listVars
<1>6. CASE UNCHANGED pipelineVars
  BY <1>6 DEF pipelineVars, storeVars, listVars
<1> QED
  BY <1>2, <1>3, <1>4, <1>5, <1>6 DEF Next, AtRest

(* A load finds everything empty, and keeps it so.                         *)
LEMMA LoadKept ==
  ASSUME ProjectControl, TurnInv, LoadInv, [ProjectNext]_allVars
  PROVE  LoadInv'
<1> USE DEF ProjectControl
<1>1. CASE [Next]_pipelineVars /\ UNCHANGED projectVars
  <2>1. task' = task
    BY <1>1 DEF projectVars
  <2>2. ASSUME mainPc' = "clearStore" PROVE crawledStorage' = {} /\ modelPc' = Idle
    <3>1. mainPc = "clearStore" \/ modelClear
      BY <1>1, <2>2, ClearingBegins DEF Clearing, ClearBegins, clearDataImpl
    <3>2. CASE modelClear
      BY <3>2 DEF modelClear, ModelEvent
    <3>3. CASE mainPc = "clearStore"
      BY <1>1, <3>3, EmptyStays DEF LoadInv, TurnInv, Clearing
    <3> QED
      BY <3>1, <3>2, <3>3
  <2>3. ASSUME task = "load"
        PROVE  crawledStorage' = {} /\ modelPc' = Idle /\ activeUrlList' = {}
               /\ TurnsUpTo(turnaround - 1)'
    <3>1. /\ state = "Deserialization" /\ mainPc = "idle" /\ TurnsUpTo(turnaround - 1)
          /\ crawledStorage = {} /\ modelPc = Idle /\ activeUrlList = {}
      BY <2>3 DEF PhaseInv, LoadInv
    <3>2. \A w \in Workers : ~isRunning[w]
      BY <3>1 DEF ControlInv, Stopping, Quiet
    <3>3. turnaround' = turnaround
      <4>1. mainPc' = "idle"
        BY <1>1, <3>1, PhaseAlone
      <4> QED
        BY <1>1, <4>1, ClearingBegins DEF ClearBegins, clearDataImpl
    <3>4. TurnsUpTo(turnaround - 1)'
      <4>a. turnaround \in Nat
        BY DEF PipelineTypeOK
      <4>1. PICK t \in Int : t = turnaround - 1
        BY <4>a
      <4>2. TurnsUpTo(t)'
        BY <1>1, <3>1, <3>2, <4>a, <4>1, TurnsKept
      <4>3. turnaround' - 1 = t
        BY <3>3, <4>1
      <4> QED
        BY <4>2, <4>3 DEF TurnsUpTo
    <3> QED
      BY <1>1, <3>1, <3>2, <3>4, EmptyStays, NoneActivated
  <2> QED
    BY <2>1, <2>2, <2>3 DEF LoadInv, Idle
<1>2. CASE closeFile \/ deserialize
  <2>1. mainPc' = "clearModel" /\ task' = task /\ task # "load"
    BY <1>2 DEF closeFile, deserialize, clearDataImpl, projectVars, PhaseInv
  <2> QED
    BY <2>1 DEF LoadInv
<1>3. CASE Aside
  <2>1. mainPc' # "clearStore" /\ task # "load"
    BY <1>3, AsideLeaves DEF PhaseInv
  <2>2. task' # "load"
    BY <1>3, <2>1 DEF Aside, saveFile, collectPages, collectPending, collectCrawled,
       onSerializationTaskDone, loadFromFile
  <2> QED
    BY <2>1, <2>2 DEF LoadInv
<1>4. CASE deserializeClearStore
  <2>1. /\ mainPc = "clearStore" /\ mainPc' = "idle" /\ activeUrlList' = {}
        /\ workerVars' = workerVars /\ modelQueue' = modelQueue /\ modelPc' = modelPc
        /\ crawledStorage' = crawledStorage /\ turnaround' = turnaround
    BY <1>4 DEF deserializeClearStore, clear, modelVars, sharedVars
  <2>2. crawledStorage = {} /\ modelPc = Idle /\ TurnsUpTo(turnaround - 1)
    BY <2>1 DEF LoadInv, TurnInv, Clearing
  <2>3. PICK t : t = turnaround - 1
    OBVIOUS
  <2>4. TurnsUpTo(t)' /\ turnaround' - 1 = t
    BY <2>1, <2>2, <2>3, TurnsSame
  <2>5. TurnsUpTo(turnaround - 1)'
    BY <2>4 DEF TurnsUpTo
  <2> QED
    BY <2>1, <2>2, <2>5 DEF LoadInv, Idle
<1>5. CASE onDeserializationTaskDone
  <2>1. task' = "none" /\ mainPc' = "idle"
    BY <1>5 DEF onDeserializationTaskDone
  <2> QED
    BY <2>1 DEF LoadInv
<1> QED
  BY <1>1, <1>2, <1>3, <1>4, <1>5, ProjectCases

-----------------------------------------------------------------------------
(***************************************************************************)
(* The view and the model, where the pages of a file are loaded at once.   *)
(***************************************************************************)

(* The m places behind the n first ones of a queue.                        *)
Behind(n, m) == {n + i : i \in 1..m}

(* A queue that gets signals of pages added, one after the other.          *)
LEMMA FreshConcat ==
  ASSUME NEW q, NEW s, NEW c, q \in Seq(MainEvents), s \in Seq(MainEvents),
         \A i \in 1..Len(s) : s[i].event = "added", c = q \o s
  PROVE  /\ Len(q) \in Nat /\ EventsAt(q, "added") \subseteq 1..Len(q)
         /\ \A i \in 1..Len(q) : c[i] = q[i]
         /\ \A i \in 1..Len(s) : c[Len(q) + i] = s[i]
         /\ EventsAt(c, "cleared") = EventsAt(q, "cleared")
         /\ EventsAt(c, "added") = EventsAt(q, "added") \union Behind(Len(q), Len(s))
         /\ FreshIn(c) = FreshIn(q) \union Behind(Len(q), Len(s))
<1> DEFINE n == Len(q)
           m == Len(s)
           new == Behind(n, m)
<1>1. /\ n \in Nat /\ m \in Nat /\ DOMAIN q = 1..n /\ DOMAIN c = 1..(n + m)
      /\ \A i \in 1..n : c[i] = q[i]
      /\ \A i \in 1..m : c[n + i] = s[i]
  <2>1. c \in Seq(MainEvents) /\ Len(c) = n + m
    BY ConcatElements
  <2> QED
    BY <2>1, ConcatElements
<1> HIDE DEF n, m
<1>2. new \subseteq 1..(n + m) /\ \A i \in 1..(n + m) : i \in 1..n \/ i \in new
  <2> USE DEF Behind
  <2>1. \A i \in 1..m : n + i \in 1..(n + m)
    BY <1>1
  <2>2. ASSUME NEW i \in 1..(n + m), i \notin 1..n PROVE i \in new
    <3>1. i - n \in 1..m /\ n + (i - n) = i
      BY <1>1, <2>2
    <3> QED
      BY <3>1
  <2> QED
    BY <2>1, <2>2
<1>3. \A k \in new : c[k].event = "added" /\ k > n
  BY <1>1 DEF m, Behind
<1> HIDE DEF new
<1>4. ASSUME NEW k PROVE k \in DOMAIN c <=> k \in DOMAIN q \/ k \in new
  <2>1. 1..n \subseteq 1..(n + m)
    BY <1>1
  <2> QED
    BY <1>1, <1>2, <2>1
<1>5. EventsAt(c, "cleared") = EventsAt(q, "cleared")
  BY <1>1, <1>3, <1>4 DEF EventsAt
<1>6. EventsAt(c, "added") = EventsAt(q, "added") \union new
  BY <1>1, <1>3, <1>4 DEF EventsAt
<1>7. FreshIn(c) = FreshIn(q) \union new
  <2>1. \A k \in EventsAt(q, "cleared") : k \in 1..n
    BY <1>1 DEF EventsAt
  <2>2. \A i \in new : \A k \in EventsAt(q, "cleared") : k < i
    <3>1. \A i \in new : i \in Int
      BY <1>1, <1>2
    <3> QED
      BY <1>1, <1>3, <2>1, <3>1
  <2> QED
    BY <1>5, <1>6, <2>2 DEF FreshIn
<1>8. EventsAt(q, "added") \subseteq 1..n
  BY <1>1 DEF EventsAt
<1> QED
  BY <1>1, <1>5, <1>6, <1>7, <1>8 DEF n, m, new

(* The pages of a file go into an empty storage, and a signal for each of  *)
(* them into the queue of the view.                                        *)
LEMMA ViewLoaded ==
  ASSUME ProjectControl, LoadInv, ViewInv, onDeserializationTaskDone
  PROVE  ViewInv'
<1> USE DEF ProjectControl
<1>q. PICK q : q = mainQueue
  OBVIOUS
<1>s. PICK s : s = SetToSeq(Signals)
  OBVIOUS
<1>c. PICK c : c = q \o s
  OBVIOUS
<1>1. /\ task = "load" /\ mainPc = "idle" /\ mainPc' = "idle"
      /\ crawledStorage' = crawledStorage \union file.pages
      /\ mainQueue' = c
      /\ modelControllerAcceptedLinksCount' = Cardinality(file.pages)
      /\ UNCHANGED <<sequencedStorage, turnaround, sequencedDataCollectionLinksCount, modelPc>>
  BY <1>q, <1>s, <1>c DEF onDeserializationTaskDone, Signals
<1>2. crawledStorage = {} /\ modelPc = Idle
  BY <1>1 DEF LoadInv
<1>3. /\ q \in Seq(MainEvents) /\ s \in Seq(MainEvents) /\ turnaround \in Nat
      /\ file.pages \subseteq Urls /\ IsFiniteSet(Signals)
  BY <1>q, <1>s, SignalsOfPages DEF PipelineTypeOK, MainShape
<1>4. PICK m : m = Cardinality(Signals)
  OBVIOUS
<1>5. /\ m \in Nat /\ Len(s) = m /\ \A i \in 1..m : s[i] \in Signals
      /\ \A i, j \in 1..m : s[i] = s[j] => i = j
      /\ \A x \in Signals : \E i \in 1..m : s[i] = x
  <2>1. /\ SetToSeq(Signals) \in Seq(Signals) /\ Len(SetToSeq(Signals)) = Cardinality(Signals)
        /\ \A i, j \in 1..Cardinality(Signals) : SetToSeq(Signals)[i] = SetToSeq(Signals)[j] => i = j
        /\ \A x \in Signals : \E i \in 1..Cardinality(Signals) : SetToSeq(Signals)[i] = x
    BY <1>3, SetAsSeq
  <2>2. s \in Seq(Signals) /\ Len(s) = m
    BY <1>s, <1>4, <2>1
  <2>3. m \in Nat /\ \A i \in 1..m : s[i] \in Signals
    BY <2>2
  <2> QED
    BY <1>s, <1>4, <2>1, <2>2, <2>3
<1>6. \A e : e \in Signals <=>
        \E u \in file.pages : e = [event |-> "added", url |-> u, turn |-> turnaround]
  BY DEF Signals
<1>7. /\ \A i \in 1..m : s[i].event = "added" /\ s[i].turn = turnaround /\ s[i].url \in file.pages
      /\ \A i \in 1..m : s[i] = [event |-> "added", url |-> s[i].url, turn |-> turnaround]
      /\ \A u \in file.pages : \E i \in 1..m : s[i].url = u
  <2>1. \A i \in 1..m : \E u \in file.pages : s[i] = [event |-> "added", url |-> u, turn |-> turnaround]
    BY <1>5, <1>6
  <2>2. ASSUME NEW u \in file.pages PROVE \E i \in 1..m : s[i].url = u
    <3>1. [event |-> "added", url |-> u, turn |-> turnaround] \in Signals
      BY <1>6
    <3> QED
      BY <1>5, <3>1
  <2>3. ASSUME NEW i \in 1..m
        PROVE  /\ s[i].event = "added" /\ s[i].turn = turnaround /\ s[i].url \in file.pages
               /\ s[i] = [event |-> "added", url |-> s[i].url, turn |-> turnaround]
    <3>1. PICK u \in file.pages : s[i] = [event |-> "added", url |-> u, turn |-> turnaround]
      BY <2>1
    <3> QED
      BY <3>1
  <2> QED
    BY <2>2, <2>3
<1>8. \A i, j \in 1..m : s[i].url = s[j].url => i = j
  BY <1>5, <1>7
<1> DEFINE new == Behind(Len(q), m)
<1>9. /\ Len(q) \in Nat /\ EventsAt(q, "added") \subseteq 1..Len(q)
      /\ \A i \in 1..Len(q) : c[i] = q[i]
      /\ \A i \in 1..m : c[Len(q) + i] = s[i]
      /\ EventsAt(c, "cleared") = EventsAt(q, "cleared")
      /\ EventsAt(c, "added") = EventsAt(q, "added") \union new
      /\ FreshIn(c) = FreshIn(q) \union new
  <2>1. \A i \in 1..Len(s) : s[i].event = "added"
    BY <1>5, <1>7
  <2>2. Behind(Len(q), Len(s)) = new /\ Len(s) = m
    BY <1>5
  <2> HIDE DEF new
  <2>3. /\ Len(q) \in Nat /\ EventsAt(q, "added") \subseteq 1..Len(q)
        /\ \A i \in 1..Len(q) : c[i] = q[i]
        /\ \A i \in 1..Len(s) : c[Len(q) + i] = s[i]
        /\ EventsAt(c, "cleared") = EventsAt(q, "cleared")
        /\ EventsAt(c, "added") = EventsAt(q, "added") \union Behind(Len(q), Len(s))
        /\ FreshIn(c) = FreshIn(q) \union Behind(Len(q), Len(s))
    <3>1. q \in Seq(MainEvents) /\ s \in Seq(MainEvents) /\ c = q \o s
      BY <1>c, <1>3
    <3>2. Len(q) \in Nat /\ EventsAt(q, "added") \subseteq 1..Len(q)
      BY <2>1, <3>1, FreshConcat
    <3>3. \A i \in 1..Len(q) : c[i] = q[i]
      BY <2>1, <3>1, FreshConcat
    <3>4. \A i \in 1..Len(s) : c[Len(q) + i] = s[i]
      BY <2>1, <3>1, FreshConcat
    <3>5. EventsAt(c, "cleared") = EventsAt(q, "cleared")
      BY <2>1, <3>1, FreshConcat
    <3>6. EventsAt(c, "added") = EventsAt(q, "added") \union Behind(Len(q), Len(s))
      BY <2>1, <3>1, FreshConcat
    <3>7. FreshIn(c) = FreshIn(q) \union Behind(Len(q), Len(s))
      BY <2>1, <3>1, FreshConcat
    <3> QED
      BY <3>2, <3>3, <3>4, <3>5, <3>6, <3>7
  <2> QED
    BY <2>2, <2>3
<1>10. Shown(q, sequencedStorage) = {} /\ FreshUrls(q) = {}
  BY <1>q, <1>2 DEF ViewInv, ViewSplit
<1>11. FreshIn(q) = {}
  BY <1>10 DEF FreshUrls
<1>12. \A k \in new : \E i \in 1..m : k = Len(q) + i /\ c[k] = s[i]
  BY <1>9 DEF Behind
<1>13. ViewSplit'
  <2>1. FreshIn(c) = new
    BY <1>9, <1>11
  <2>2. FreshUrls(c) = file.pages
    <3>1. \A k \in new : c[k].url \in file.pages
      BY <1>7, <1>12
    <3>2. ASSUME NEW u \in file.pages PROVE \E k \in new : c[k].url = u
      <4>1. PICK i \in 1..m : s[i].url = u
        BY <1>7
      <4>2. Len(q) + i \in new /\ c[Len(q) + i] = s[i]
        BY <1>9 DEF Behind
      <4> QED
        BY <4>1, <4>2
    <3> HIDE DEF new
    <3> QED
      BY <2>1, <3>1, <3>2 DEF FreshUrls
  <2>3. Shown(c, sequencedStorage) = {}
    BY <1>9, <1>10 DEF Shown
  <2>4. \A k, l \in FreshIn(c) : c[k].url = c[l].url => k = l
    BY <1>8, <1>12, <2>1
  <2> HIDE DEF new
  <2> QED
    BY <1>1, <1>2, <2>2, <2>3, <2>4 DEF ViewSplit
<1>14. FreshTurns'
  <2>1. ASSUME NEW i \in EventsAt(c, "added")
        PROVE  c[i].turn <= turnaround /\ (c[i].turn = turnaround <=> i \in FreshIn(c))
    <3>1. CASE i \in new
      <4>1. c[i].turn = turnaround /\ i \in FreshIn(c)
        BY <1>7, <1>9, <1>12, <3>1
      <4> QED
        BY <1>3, <4>1
    <3>2. CASE i \notin new
      <4>1. i \in EventsAt(q, "added") /\ c[i] = q[i] /\ i \notin FreshIn(c)
        BY <1>9, <1>11, <2>1, <3>2
      <4>2. q[i].turn <= turnaround /\ q[i].turn # turnaround
        BY <1>q, <1>1, <1>11, <4>1 DEF ViewInv, FreshTurns
      <4> QED
        BY <4>1, <4>2
    <3> QED
      BY <3>1, <3>2
  <2> QED
    BY <1>1, <2>1 DEF FreshTurns
<1>15. ViewCounters'
  <2>1. Cardinality(file.pages) \in Nat /\ crawledStorage' = file.pages
    BY <1>1, <1>2, <1>3, UrlsFinite
  <2>2. EventsAt(mainQueue', "cleared") = {} =>
          sequencedDataCollectionLinksCount = Cardinality(sequencedStorage)
    BY <1>q, <1>1, <1>9 DEF ViewInv, ViewCounters
  <2>3. modelPc' = Idle /\ modelPc'.call = "none"
    BY <1>1, <1>2 DEF Idle
  <2>4. modelControllerAcceptedLinksCount' + (IF modelPc'.call = "accept" THEN 1 ELSE 0)
          = Cardinality(crawledStorage')
    <3>1. modelControllerAcceptedLinksCount' = Cardinality(crawledStorage')
          /\ Cardinality(crawledStorage') \in Nat
      BY <1>1, <2>1
    <3> QED
      BY <2>3, <3>1
  <2> QED
    BY <1>1, <2>2, <2>3, <2>4 DEF ViewCounters, Idle
<1> QED
  BY <1>1, <1>2, <1>13, <1>14, <1>15 DEF ViewInv, Idle

(* Every step keeps the view and the model together.                       *)
LEMMA ProjectViewKept ==
  ASSUME ProjectControl, TurnInv, LoadInv, ViewInv, [ProjectNext]_allVars
  PROVE  ViewInv'
<1> USE DEF ProjectControl
<1>1. CASE [Next]_pipelineVars \/ closeFile \/ deserialize
  BY <1>1, ProjectClears, ViewKept
<1>2. CASE Aside
  <2>1. UNCHANGED viewVars /\ mainPc # "clearModel" /\ mainPc' # "clearModel"
    BY <1>2, AsideLeaves DEF viewVars, modelVars, sharedVars, quietMain
  <2> QED
    BY <2>1, ViewUntouched
<1>3. CASE deserializeClearStore
  <2>1. UNCHANGED viewVars /\ mainPc # "clearModel" /\ mainPc' # "clearModel"
    BY <1>3 DEF deserializeClearStore, viewVars, modelVars, sharedVars, quietMain
  <2> QED
    BY <2>1, ViewUntouched
<1>4. CASE onDeserializationTaskDone
  BY <1>4, ViewLoaded
<1> QED
  BY <1>1, <1>2, <1>3, <1>4, ProjectCases

(* What a load and the view rely on, at once.                              *)
ProjectTurns == ProjectControl /\ TurnInv /\ LoadInv /\ ViewInv

(* It holds at first and ever after.                                       *)
LEMMA ProjectTurnsHold == ProjectSpec => []ProjectTurns
<1>1. ProjectInit => TurnInv /\ LoadInv /\ ViewInv
  <2>1. ProjectInit => LoadInv
    BY DEF ProjectInit, Init, LoadInv
  <2>2. ProjectInit => TurnInv /\ ViewInv
    BY ViewInit DEF ProjectInit
  <2> QED
    BY <2>1, <2>2
<1>2. ProjectControl /\ TurnInv /\ LoadInv /\ ViewInv /\ [ProjectNext]_allVars
      => (TurnInv /\ LoadInv /\ ViewInv)'
  BY ProjectTurnKept, LoadKept, ProjectViewKept
<1>3. ProjectTurns <=> ProjectControl /\ TurnInv /\ LoadInv /\ ViewInv
  BY DEF ProjectTurns
<1> QED
  BY <1>1, <1>2, <1>3, ProjectStopControl, PTL DEF ProjectSpec

(* The view and the model agree on the pages of the current crawl also     *)
(* where a project has been closed or loaded, save for the signals on      *)
(* their way: no page of a file is lost, doubled or shown before a clear   *)
(* that was queued earlier.                                                *)
THEOREM ProjectViewFollowsModel == ProjectSpec => []ViewMatchesModel
<1>1. ProjectTurns => ViewMatchesModel
  BY ViewAgrees DEF ProjectTurns, ProjectControl
<1> QED
  BY <1>1, ProjectTurnsHold, PTL

-----------------------------------------------------------------------------
(***************************************************************************)
(* Pages settled: every result, and so every page stored or shown, is of a *)
(* request that was handed out, no longer waits and is no longer loading.  *)
(***************************************************************************)

(* The requests some worker got, and of those the ones it is through with. *)
Owned == crawledUrlList \ pendingUrlList
Settled == Owned \ activeUrlList

PagesOf(requests) == {PageUrl[r] : r \in requests}

(* What loads is owned, and what comes of it is settled.                   *)
SettledInv ==
  /\ activeUrlList \subseteq Owned
  /\ \A w \in Workers :
       /\ \A d \in inFlight[w] : d.turn = turnaround => d.page \in Owned
       /\ \A e \in EventsOf(workerQueue[w], "pageLoaded") :
            e.load.turn = turnaround => e.load.page \in Owned
       /\ \A call \in ToSet(job[w].calls) :
            job[w].turn = turnaround /\ call.name = "emitResult" => call.page \in Settled
  /\ \A e \in Results : e.turn = turnaround => e.page \in Settled
  /\ Stored \subseteq PagesOf(Settled)

(* No request is given back, and only what is owned becomes active.        *)
OwnedGrows ==
  /\ turnaround' = turnaround
  /\ Owned \subseteq Owned' /\ Settled \subseteq Settled' /\ activeUrlList' \subseteq Owned'

(* What a step newly loads is owned.                                       *)
LoadsOwned ==
  \A w \in Workers :
    /\ \A d \in inFlight'[w] : d \in inFlight[w] \/ (d.turn = turnaround => d.page \in Owned')
    /\ \A e \in EventsOf(workerQueue[w], "pageLoaded")' :
         \/ e \in EventsOf(workerQueue[w], "pageLoaded")
         \/ e.load.turn = turnaround => e.load.page \in Owned'

(* What a worker is about to report, and what it newly reports, is settled.*)
CallsSettled ==
  \A w \in Workers : \A call \in ToSet(job'[w].calls) :
    \/ job'[w].turn = job[w].turn /\ call \in ToSet(job[w].calls)
    \/ job'[w].turn = turnaround /\ call.name = "emitResult" => call.page \in Settled'
ResultsSettled ==
  /\ \A e \in Results' : e \in Results \/ (e.turn = turnaround => e.page \in Settled')
  /\ Stored' \subseteq Stored \union PagesOf(Settled')

(* A step that does all this leaves the pages settled.                     *)
LEMMA SettledStep ==
  ASSUME SettledInv, OwnedGrows, LoadsOwned, CallsSettled, ResultsSettled
  PROVE  SettledInv'
<1>1. /\ Owned \subseteq Owned' /\ Settled \subseteq Settled' /\ activeUrlList' \subseteq Owned'
      /\ turnaround' = turnaround
  BY DEF OwnedGrows
<1>2. ASSUME NEW w \in Workers, NEW d \in inFlight'[w], d.turn = turnaround'
      PROVE  d.page \in Owned'
  BY <1>1, <1>2 DEF SettledInv, LoadsOwned
<1>3. ASSUME NEW w \in Workers, NEW e \in EventsOf(workerQueue[w], "pageLoaded")',
             e.load.turn = turnaround'
      PROVE  e.load.page \in Owned'
  BY <1>1, <1>3 DEF SettledInv, LoadsOwned
<1>4. ASSUME NEW w \in Workers, NEW call \in ToSet(job'[w].calls),
             job'[w].turn = turnaround', call.name = "emitResult"
      PROVE  call.page \in Settled'
  BY <1>1, <1>4 DEF SettledInv, CallsSettled
<1>5. ASSUME NEW e \in Results', e.turn = turnaround' PROVE e.page \in Settled'
  BY <1>1, <1>5 DEF SettledInv, ResultsSettled
<1>6. Stored' \subseteq PagesOf(Settled')
  BY <1>1 DEF SettledInv, ResultsSettled, PagesOf
<1>7. PagesOf(Settled)' = PagesOf(Settled')
  BY DEF PagesOf
<1>8. \A w \in Workers : ToSet(job[w].calls)' = ToSet(job'[w].calls)
  BY DEF ToSet
<1> QED
  BY <1>1, <1>2, <1>3, <1>4, <1>5, <1>6, <1>7, <1>8 DEF SettledInv

(* Every call of the store makes the lists grow so.                        *)
LEMMA StoreOwned ==
  ASSUME activeUrlList \subseteq Owned, StoreCalled, turnaround' = turnaround
  PROVE  OwnedGrows
<1>1. CASE UNCHANGED storeVars
  BY <1>1 DEF storeVars, listVars, OwnedGrows, Owned, Settled
<1>2. ASSUME NEW urls, addUrlList(urls) PROVE OwnedGrows
  <2>1. PICK added \in SUBSET NewLinks(urls) :
          /\ pendingUrlList' = pendingUrlList \union added
          /\ crawledUrlList' = crawledUrlList /\ activeUrlList' = activeUrlList
    BY <1>2 DEF addUrlList
  <2>2. Owned' = Owned
    BY <2>1 DEF Owned, NewLinks
  <2> QED
    BY <2>1, <2>2 DEF OwnedGrows, Settled
<1>3. ASSUME NEW r, extractUrl(r) \/ addCrawledUrl(r) \/ activeRequestReceived(r)
      PROVE  OwnedGrows
  BY <1>3 DEF extractUrl, addCrawledUrl, activeRequestReceived, OwnedGrows, Owned, Settled
<1> QED
  BY <1>1, <1>2, <1>3 DEF StoreCalled

(* What the calls of a worker make of the page they are about.             *)
LEMMA PageOwned ==
  ASSUME activeUrlList \subseteq Owned, NEW r
  PROVE  /\ extractUrl(r) => r \in Owned'
         /\ activeRequestReceived(r) /\ r \in Owned => r \in Settled'
         /\ addCrawledUrl(r) /\ addCrawledUrlReturns(r) => r \in Settled'
BY DEF extractUrl, activeRequestReceived, addCrawledUrl, addCrawledUrlReturns, Owned, Settled

(* A worker goes on with its calls, or with those of another page.         *)
LEMMA ContinueSettled ==
  ASSUME WorkerShape, NEW w \in Workers, job[w] # NoJob,
         NEW calls \in Seq(CallRecords), Continue(w, calls),
         \A call \in ToSet(calls) :
           job[w].turn = turnaround /\ call.name = "emitResult" => call.page \in Settled'
  PROVE  CallsSettled
<1> DEFINE q == job[w].calls
           t == Tail(q)
           rest == calls \o t
<1>1. /\ job \in [Workers -> [turn : Int, calls : Seq(CallRecords)]]
      /\ q \in Seq(CallRecords) /\ q # <<>> /\ t \in Seq(CallRecords)
  <2>1. /\ job \in [Workers -> [turn : Int, calls : Seq(CallRecords)]]
        /\ q \in Seq(CallRecords) /\ q # <<>>
    BY DEF WorkerShape
  <2> QED
    BY <2>1, EventsTail
<1>2. ToSet(rest) = ToSet(calls) \union ToSet(t) /\ ToSet(t) \subseteq ToSet(q)
  <2> HIDE DEF q, t
  <2>1. ToSet(calls \o t) = ToSet(calls) \union ToSet(t)
    BY <1>1, SetOfSequence
  <2>2. ToSet(q) = {Head(q)} \union ToSet(Tail(q))
    BY <1>1, SetOfSequence
  <2> QED
    BY <2>1, <2>2 DEF t
<1>3. job' = [job EXCEPT ![w] = IF rest = <<>> THEN NoJob ELSE [turn |-> job[w].turn, calls |-> rest]]
  BY DEF Continue
<1> HIDE DEF rest, t
<1>4. /\ \A v \in Workers : v # w => job'[v] = job[v]
      /\ job'[w].calls = rest
      /\ rest # <<>> => job'[w].turn = job[w].turn
  <2>1. /\ \A v \in Workers : v # w => job'[v] = job[v]
        /\ job'[w] = IF rest = <<>> THEN NoJob ELSE [turn |-> job[w].turn, calls |-> rest]
    BY <1>1, <1>3
  <2> QED
    BY <2>1 DEF NoJob
<1>5. rest = <<>> => ToSet(rest) = {}
  BY DEF ToSet
<1>6. ASSUME NEW call \in ToSet(job'[w].calls)
      PROVE  \/ job'[w].turn = job[w].turn /\ call \in ToSet(job[w].calls)
             \/ job'[w].turn = turnaround /\ call.name = "emitResult" => call.page \in Settled'
  <2>1. call \in ToSet(rest) /\ job'[w].turn = job[w].turn
    BY <1>4, <1>5, <1>6
  <2> QED
    BY <1>2, <2>1
<1> QED
  BY <1>4, <1>6 DEF CallsSettled

(* The handlers, the queues and the model where a step leaves them alone.  *)
LEMMA SettledSame ==
  /\ job' = job => CallsSettled
  /\ inFlight' = inFlight /\ (\A v \in Workers : EventsOf(workerQueue[v], "pageLoaded")'
                                     \subseteq EventsOf(workerQueue[v], "pageLoaded"))
       => LoadsOwned
  /\ modelVars' = modelVars => ResultsSettled
<1>1. job' = job => CallsSettled
  BY DEF CallsSettled
<1>2. inFlight' = inFlight /\ (\A v \in Workers : EventsOf(workerQueue[v], "pageLoaded")'
                                     \subseteq EventsOf(workerQueue[v], "pageLoaded"))
       => LoadsOwned
  BY DEF LoadsOwned
<1>3. modelVars' = modelVars => ResultsSettled
  BY DEF ResultsSettled, modelVars, Results, EventsOf, EventsAt, Stored, Adding
<1> QED
  BY <1>1, <1>2, <1>3

(* The answers in the queues, where one is taken and none is put.          *)
LEMMA AnswerTaken ==
  ASSUME WorkerShape, NEW w \in Workers, NEW name, Event(w, name)
  PROVE  /\ \A v \in Workers : EventsOf(workerQueue[v], "pageLoaded")'
                                 \subseteq EventsOf(workerQueue[v], "pageLoaded")
         /\ name = "pageLoaded" =>
              Head(workerQueue[w]) \in EventsOf(workerQueue[w], "pageLoaded")
<1>1. /\ workerQueue \in [Workers -> Seq(WorkerEvents)] /\ workerQueue[w] \in Seq(WorkerEvents)
      /\ workerQueue[w] # <<>> /\ Head(workerQueue[w]).event = name
  BY DEF WorkerShape, Event, Receives
<1>2. /\ \A v \in Workers : v # w => workerQueue'[v] = workerQueue[v]
      /\ workerQueue'[w] = Tail(workerQueue[w])
  BY <1>1 DEF Event
<1>3. EventsOf(workerQueue[w], "pageLoaded")
        = EventsOf(Tail(workerQueue[w]), "pageLoaded")
            \union (IF Head(workerQueue[w]).event = "pageLoaded" THEN {Head(workerQueue[w])} ELSE {})
  BY <1>1, EventsOfQueue
<1>4. \A v \in Workers : EventsOf(workerQueue[v], "pageLoaded")' = EventsOf(workerQueue'[v], "pageLoaded")
  BY DEF EventsOf, EventsAt
<1> QED
  BY <1>1, <1>2, <1>3, <1>4

(* The loader takes a page from the store.                                 *)
LEMMA ExtractSettled ==
  ASSUME PipelineTypeOK, SettledInv, OwnedGrows, NEW w \in Workers, ExtractDue(w) \/ extract(w)
  PROVE  SettledInv'
<1>1. /\ WorkerShape /\ inFlight \in [Workers -> SUBSET Downloads]
      /\ extractUrlAndDownload(w) /\ workerQueue' = workerQueue /\ modelVars' = modelVars
  BY DEF PipelineTypeOK, WorkerShape, ExtractDue, extract
<1>2. \A v \in Workers : EventsOf(workerQueue[v], "pageLoaded")' = EventsOf(workerQueue[v], "pageLoaded")
  BY <1>1 DEF EventsOf, EventsAt
<1>3. LoadsOwned
  <2>1. CASE inFlight' = inFlight
    BY <1>2, <2>1, SettledSame
  <2>2. ASSUME NEW r \in pendingUrlList, extractUrl(r),
               inFlight' = [inFlight EXCEPT ![w] = @ \union {[page |-> r, turn |-> turnaround]}]
        PROVE  LoadsOwned
    <3>1. r \in Owned'
      BY <2>2, PageOwned DEF SettledInv
    <3>2. \A v \in Workers : \A d \in inFlight'[v] : d \in inFlight[v] \/ d.page = r
      BY <1>1, <2>2
    <3> QED
      BY <1>2, <3>1, <3>2 DEF LoadsOwned
  <2> QED
    BY <1>1, <2>1, <2>2 DEF extractUrlAndDownload
<1>4. CallsSettled
  <2>1. CASE ExtractDue(w)
    BY <2>1, SettledSame DEF ExtractDue
  <2>2. CASE extract(w)
    <3>1. job[w] # NoJob /\ Continue(w, <<>>) /\ <<>> \in Seq(CallRecords) /\ ToSet(<<>>) = {}
      BY <2>2 DEF extract, Call, ToSet
    <3>2. PICK none : none = <<>>
      OBVIOUS
    <3> QED
      BY <1>1, <3>1, <3>2, ContinueSettled
  <2> QED
    BY <2>1, <2>2
<1> QED
  BY <1>1, <1>3, <1>4, SettledSame, SettledStep

(* The downloader answers: what was owned while it loaded still is.        *)
LEMMA LoadedSettled ==
  ASSUME PipelineTypeOK, SettledInv, OwnedGrows, NEW w \in Workers, LoadingDone(w)
  PROVE  SettledInv'
<1>1. /\ workerQueue \in [Workers -> Seq(WorkerEvents)] /\ inFlight \in [Workers -> SUBSET Downloads]
      /\ workerQueue[w] \in Seq(WorkerEvents)
  BY DEF PipelineTypeOK, WorkerShape
<1>2. PICK load \in inFlight[w] :
        /\ inFlight' = [inFlight EXCEPT ![w] = @ \ {load}]
        /\ workerQueue' = [workerQueue EXCEPT
             ![w] = Append(@, [event |-> "pageLoaded", load |-> load])]
  BY DEF LoadingDone
<1>3. PICK e : e = [event |-> "pageLoaded", load |-> load]
  OBVIOUS
<1>4. e \in WorkerEvents /\ e.event = "pageLoaded" /\ e.load = load
  BY <1>1, <1>3 DEF WorkerEvents
<1>5. /\ \A v \in Workers : v # w => inFlight'[v] = inFlight[v] /\ workerQueue'[v] = workerQueue[v]
      /\ inFlight'[w] = inFlight[w] \ {load}
      /\ workerQueue'[w] = Append(workerQueue[w], e)
  BY <1>1, <1>2, <1>3
<1>6. EventsOf(Append(workerQueue[w], e), "pageLoaded")
        = EventsOf(workerQueue[w], "pageLoaded") \union (IF e.event = "pageLoaded" THEN {e} ELSE {})
  <2>1. workerQueue[w] \in Seq(WorkerEvents)
    BY <1>1
  <2> QED
    BY <1>4, <2>1, EventsOfQueue
<1>7. \A v \in Workers : EventsOf(workerQueue[v], "pageLoaded")' = EventsOf(workerQueue'[v], "pageLoaded")
  BY DEF EventsOf, EventsAt
<1>8. e.load.turn = turnaround => e.load.page \in Owned'
  BY <1>4 DEF SettledInv, OwnedGrows
<1>9. LoadsOwned
  BY <1>4, <1>5, <1>6, <1>7, <1>8 DEF LoadsOwned
<1>10. job' = job /\ modelVars' = modelVars
  BY DEF LoadingDone
<1> QED
  BY <1>9, <1>10, SettledSame, SettledStep

(* A page loaded is settled before its handler reports it.                 *)
LEMMA ResponseSettled ==
  ASSUME PipelineTypeOK, SettledInv, OwnedGrows, NEW w \in Workers, onLoadingDone(w)
  PROVE  SettledInv'
<1>1. WorkerShape /\ job \in [Workers -> [turn : Int, calls : Seq(CallRecords)]]
      /\ Event(w, "pageLoaded") /\ inFlight' = inFlight /\ modelVars' = modelVars
  BY DEF PipelineTypeOK, WorkerShape, onLoadingDone
<1>2. PICK e : e = Head(workerQueue[w])
  OBVIOUS
<1>3. /\ e \in EventsOf(workerQueue[w], "pageLoaded")
      /\ \A v \in Workers : EventsOf(workerQueue[v], "pageLoaded")'
                              \subseteq EventsOf(workerQueue[v], "pageLoaded")
  BY <1>1, <1>2, AnswerTaken
<1>4. CallsSettled
  <2>1. CASE job' = job
    BY <2>1, SettledSame
  <2>2. CASE /\ AcceptsLoad(w, e.load) /\ activeRequestReceived(e.load.page)
             /\ job' = [job EXCEPT ![w] =
                  [turn |-> e.load.turn, calls |-> handleResponseData(e.load.page)]]
    <3>r. PICK r : r = e.load.page
      OBVIOUS
    <3>1. e.load.turn = turnaround /\ r \in Owned
      BY <1>3, <2>2, <3>r DEF AcceptsLoad, SettledInv
    <3>2. r \in Settled'
      BY <2>2, <3>r, <3>1, PageOwned DEF SettledInv
    <3>3. r \in Requests
      BY <3>1 DEF Owned, PipelineTypeOK, StoreShape
    <3>4. ASSUME NEW call \in ToSet(handleResponseData(r)), call.name = "emitResult"
          PROVE  call.page = r
      <4>1. \/ call = [name |-> "extract", page |-> r]
            \/ call \in ToSet(handlePage(r))
            \/ \E h \in ToSet(Hops[r]) : call = [name |-> "claimHop", page |-> h]
        BY <3>3, HandledSet
      <4>2. call \in ToSet(handlePage(r))
        BY <3>4, <4>1
      <4>3. \/ \E i \in DOMAIN Links[r] :
                 call = [name |-> "addLinks", page |-> r, links |-> Links[r][i]]
            \/ call = [name |-> "emitResult", page |-> r]
            \/ call = [name |-> "count", page |-> r]
            \/ \E b \in ToSet(Blocked[r]) : call = [name |-> "claimBlocked", page |-> b]
        BY <3>3, <4>2, HandledSet
      <4> QED
        BY <3>4, <4>3
    <3> DEFINE calls == handleResponseData(r)
    <3>5. \A call \in ToSet(calls) : call.name = "emitResult" => call.page \in Settled'
      BY <3>2, <3>4
    <3>6. job' = [job EXCEPT ![w] = [turn |-> e.load.turn, calls |-> calls]]
      BY <2>2, <3>r
    <3> HIDE DEF calls
    <3>7. /\ \A v \in Workers : v # w => job'[v] = job[v]
          /\ job'[w].calls = calls
      BY <1>1, <3>6
    <3> QED
      BY <3>5, <3>7 DEF CallsSettled
  <2> QED
    BY <1>2, <2>1, <2>2 DEF onLoadingDone
<1>5. LoadsOwned
  BY <1>1, <1>3, SettledSame
<1> QED
  BY <1>1, <1>4, <1>5, SettledSame, SettledStep

(* The calls of a handler: only what is settled is reported.               *)
LEMMA CallsAreSettled ==
  ASSUME PipelineTypeOK, SettledInv, OwnedGrows, NEW w \in Workers,
         addLinks(w) \/ emitResult(w) \/ count(w) \/ claimHop(w) \/ claimBlocked(w)
  PROVE  SettledInv'
<1>1. /\ WorkerShape /\ inFlight' = inFlight /\ workerQueue' = workerQueue /\ job[w] # NoJob
      /\ modelQueue \in Seq(ModelEvents) /\ activeUrlList \subseteq Owned
  BY DEF PipelineTypeOK, ModelShape, SettledInv, addLinks, emitResult, count, claimHop, claimBlocked, Call
<1>2. LoadsOwned
  <2>1. \A v \in Workers : EventsOf(workerQueue[v], "pageLoaded")' = EventsOf(workerQueue[v], "pageLoaded")
    BY <1>1 DEF EventsOf, EventsAt
  <2> QED
    BY <1>1, <2>1, SettledSame
<1>3. PICK p : p = CalledPage(w)
  OBVIOUS
<1>4. PICK call : call = Head(job[w].calls)
  OBVIOUS
<1>5. call \in CallRecords /\ call \in ToSet(job[w].calls) /\ p = call.page
  <2>1. job[w].calls \in Seq(CallRecords) /\ job[w].calls # <<>>
    BY <1>1 DEF WorkerShape
  <2> QED
    BY <1>3, <1>4, <2>1 DEF ToSet, CalledPage
<1>6. ASSUME NEW calls \in Seq(CallRecords), Continue(w, calls),
             \A c \in ToSet(calls) : c.name = "emitResult" => c.page \in Settled'
      PROVE  CallsSettled
  BY <1>1, <1>6, ContinueSettled
<1>7. <<>> \in Seq(CallRecords) /\ \A c \in ToSet(<<>>) : FALSE
  BY DEF ToSet
<1>8. PICK none : none = <<>>
  OBVIOUS
<1>9. CASE addLinks(w) \/ count(w)
  <2>1. Continue(w, none) /\ modelVars' = modelVars
    BY <1>8, <1>9 DEF addLinks, count
  <2>2. CallsSettled
    BY <1>6, <1>7, <1>8, <2>1
  <2> QED
    BY <1>2, <2>1, <2>2, SettledSame, SettledStep
<1>10. CASE emitResult(w)
  <2>t. PICK t : t = job[w].turn
    OBVIOUS
  <2>e. PICK e : e = [event |-> "result", page |-> p, turn |-> t]
    OBVIOUS
  <2>1. /\ Continue(w, none) /\ modelQueue' = Append(modelQueue, e) /\ call.name = "emitResult"
        /\ modelPc' = modelPc /\ crawledStorage' = crawledStorage
    BY <1>3, <1>4, <1>8, <1>10, <2>t, <2>e DEF emitResult, Call
  <2>2. CallsSettled
    BY <1>6, <1>7, <1>8, <2>1
  <2>3. e \in ModelEvents /\ e.event = "result" /\ e.page = p /\ e.turn = t
    <3>1. t \in Int /\ p \in Requests
      BY <1>1, <1>5, <2>t DEF WorkerShape, CallRecords
    <3> QED
      BY <2>e, <3>1 DEF ModelEvents
  <2>4. t = turnaround => p \in Settled'
    BY <1>5, <2>t, <2>1 DEF SettledInv, OwnedGrows
  <2>5. Results' = Results \union {e}
    <3>1. EventsOf(Append(modelQueue, e), "result")
            = EventsOf(modelQueue, "result") \union (IF e.event = "result" THEN {e} ELSE {})
      BY <1>1, <2>3, EventsOfQueue
    <3>2. Results' = EventsOf(modelQueue', "result")
      BY DEF Results, EventsOf, EventsAt
    <3> QED
      BY <2>1, <2>3, <3>1, <3>2 DEF Results
  <2>6. Stored' = Stored
    BY <2>1 DEF Stored, Adding
  <2>7. ResultsSettled
    BY <2>3, <2>4, <2>5, <2>6 DEF ResultsSettled
  <2> QED
    BY <1>2, <2>2, <2>7, SettledStep
<1>11. CASE claimHop(w)
  <2>1. /\ addCrawledUrl(p) /\ modelVars' = modelVars
        /\ Continue(w, IF addCrawledUrlReturns(p) THEN handlePage(p) ELSE none)
    BY <1>3, <1>8, <1>11 DEF claimHop
  <2>2. p \in Requests
    BY <1>5, <1>4, <1>11 DEF CallRecords
  <2>3. CASE addCrawledUrlReturns(p)
    <3>1. p \in Settled'
      BY <1>1, <2>1, <2>3, PageOwned
    <3>2. ASSUME NEW c \in ToSet(handlePage(p)), c.name = "emitResult" PROVE c.page = p
      <4>1. \/ \E i \in DOMAIN Links[p] :
                 c = [name |-> "addLinks", page |-> p, links |-> Links[p][i]]
            \/ c = [name |-> "emitResult", page |-> p]
            \/ c = [name |-> "count", page |-> p]
            \/ \E b \in ToSet(Blocked[p]) : c = [name |-> "claimBlocked", page |-> b]
        BY <2>2, HandledSet
      <4> QED
        BY <3>2, <4>1
    <3>3. handlePage(p) \in Seq(CallRecords)
      BY <2>2, HandledOnce
    <3>4. PICK calls : calls = handlePage(p)
      OBVIOUS
    <3>5. calls \in Seq(CallRecords) /\ Continue(w, calls)
          /\ \A c \in ToSet(calls) : c.name = "emitResult" => c.page \in Settled'
      BY <2>1, <2>3, <3>1, <3>2, <3>3, <3>4
    <3>6. CallsSettled
      BY <1>6, <3>5
    <3> QED
      BY <1>2, <2>1, <3>6, SettledSame, SettledStep
  <2>4. CASE ~addCrawledUrlReturns(p)
    <3>1. CallsSettled
      BY <1>6, <1>7, <1>8, <2>1, <2>4
    <3> QED
      BY <1>2, <2>1, <3>1, SettledSame, SettledStep
  <2> QED
    BY <2>3, <2>4
<1>12. CASE claimBlocked(w)
  <2> DEFINE one == <<p>>
             E == Calls("emitResult", one)
             C == Calls("count", one)
  <2>1. /\ addCrawledUrl(p) /\ modelVars' = modelVars
        /\ Continue(w, IF addCrawledUrlReturns(p) THEN E \o C ELSE none)
    BY <1>3, <1>8, <1>12 DEF claimBlocked
  <2>2. p \in Requests
    BY <1>5, <1>4, <1>12 DEF CallRecords
  <2>3. CASE addCrawledUrlReturns(p)
    <3>1. p \in Settled'
      BY <1>1, <2>1, <2>3, PageOwned
    <3>2. one \in Seq(Requests) /\ ToSet(one) = {p}
      BY <2>2 DEF ToSet
    <3> HIDE DEF one
    <3>3. /\ \A c \in ToSet(E) : c = [name |-> "emitResult", page |-> p]
          /\ \A c \in ToSet(C) : c = [name |-> "count", page |-> p]
      BY <3>2, SetOfCalls
    <3>4. E \in Seq(CallRecords) /\ C \in Seq(CallRecords)
      BY <3>2, CallsTyped
    <3> HIDE DEF E, C
    <3>5. PICK calls : calls = E \o C
      OBVIOUS
    <3>6. calls \in Seq(CallRecords) /\ ToSet(calls) = ToSet(E) \union ToSet(C)
      BY <3>4, <3>5, SetOfSequence, ConcatElements
    <3>7. \A c \in ToSet(calls) : c.name = "emitResult" => c.page \in Settled'
      BY <3>1, <3>3, <3>6
    <3>8. Continue(w, calls)
      BY <2>1, <2>3, <3>5
    <3>9. CallsSettled
      BY <1>6, <3>6, <3>7, <3>8
    <3> QED
      BY <1>2, <2>1, <3>9, SettledSame, SettledStep
  <2>4. CASE ~addCrawledUrlReturns(p)
    <3>1. CallsSettled
      BY <1>6, <1>7, <1>8, <2>1, <2>4
    <3> QED
      BY <1>2, <2>1, <3>1, SettledSame, SettledStep
  <2> QED
    BY <2>3, <2>4
<1> QED
  BY <1>9, <1>10, <1>11, <1>12

(* A worker starts, or forgets what it was loading.                        *)
LEMMA StartSettled ==
  ASSUME PipelineTypeOK, SettledInv, OwnedGrows, NEW w \in Workers, start(w) \/ workerClear(w)
  PROVE  SettledInv'
<1>1. /\ WorkerShape /\ inFlight' = inFlight /\ modelVars' = modelVars
      /\ job \in [Workers -> [turn : Int, calls : Seq(CallRecords)]]
      /\ Event(w, "start") \/ Event(w, "clear")
  BY DEF PipelineTypeOK, WorkerShape, start, workerClear
<1>2. \A v \in Workers : EventsOf(workerQueue[v], "pageLoaded")'
      \subseteq EventsOf(workerQueue[v], "pageLoaded")
  BY <1>1, AnswerTaken
<1>3. CallsSettled
  <2>1. CASE workerClear(w)
    BY <2>1, SettledSame DEF workerClear
  <2>2. CASE start(w)
    <3> DEFINE one == <<StartPage>>
               calls == Calls("extract", one)
    <3>1. one \in Seq(Requests)
      BY PipelineAssumption
    <3> HIDE DEF one
    <3>2. \A c \in ToSet(calls) : \E p \in ToSet(one) : c = [name |-> "extract", page |-> p]
      BY <3>1, SetOfCalls
    <3>3. \A c \in ToSet(calls) : c.name # "emitResult"
      BY <3>2
    <3>4. job' = [job EXCEPT ![w] = [turn |-> -1, calls |-> calls]]
      BY <2>2 DEF start, one
    <3> HIDE DEF calls
    <3>5. /\ \A v \in Workers : v # w => job'[v] = job[v]
          /\ job'[w].calls = calls
      BY <1>1, <3>4
    <3> QED
      BY <3>3, <3>5 DEF CallsSettled
  <2> QED
    BY <2>1, <2>2
<1> QED
  BY <1>1, <1>2, <1>3, SettledSame, SettledStep

(* Workers are told to start or to stop, and stop.                         *)
LEMMA ToldSettled ==
  ASSUME PipelineTypeOK, SettledInv, OwnedGrows, NEW w \in Workers,
         \/ stop(w) \/ startCrawling \/ stopCrawling \/ decideCrawlingEnded
  PROVE  SettledInv'
<1>1. /\ WorkerShape /\ inFlight' = inFlight /\ modelVars' = modelVars /\ job' = job
  BY DEF PipelineTypeOK, stop, startCrawling, stopCrawling, decideCrawlingEnded
<1>2. \A v \in Workers : \/ Told(v)
                         \/ Receives(v, "stop") /\ workerQueue'[v] = Tail(workerQueue[v])
  BY <1>1, ControlTold
<1>3. \A v \in Workers : EventsOf(workerQueue'[v], "pageLoaded") = EventsOf(workerQueue[v], "pageLoaded")
  BY <1>1, <1>2, AnswersStay
<1>4. \A v \in Workers : EventsOf(workerQueue[v], "pageLoaded")' = EventsOf(workerQueue'[v], "pageLoaded")
  BY DEF EventsOf, EventsAt
<1> QED
  BY <1>1, <1>3, <1>4, SettledSame, SettledStep

(* The model takes the pages of settled requests only.                     *)
LEMMA ModelSettled ==
  ASSUME PipelineTypeOK, SettledInv, OwnedGrows, Model
  PROVE  SettledInv'
<1>1. /\ inFlight' = inFlight /\ workerQueue' = workerQueue /\ job' = job
      /\ modelQueue \in Seq(ModelEvents)
  BY DEF PipelineTypeOK, ModelShape, Model, handleWorkerResult, modelAdd, modelAccept, modelCount,
     modelClear, workerVars
<1>2. CallsSettled /\ LoadsOwned
  <2>1. \A v \in Workers : EventsOf(workerQueue[v], "pageLoaded")' = EventsOf(workerQueue[v], "pageLoaded")
    BY <1>1 DEF EventsOf, EventsAt
  <2> QED
    BY <1>1, <2>1, SettledSame
<1>3. modelQueue # <<>> => EventsOf(modelQueue, "result")
        = EventsOf(Tail(modelQueue), "result")
            \union (IF Head(modelQueue).event = "result" THEN {Head(modelQueue)} ELSE {})
  BY <1>1, EventsOfQueue
<1>4. Results' = EventsOf(modelQueue', "result")
  BY DEF Results, EventsOf, EventsAt
<1>5. ASSUME Results' \subseteq Results, Stored' \subseteq Stored \union PagesOf(Settled')
      PROVE  SettledInv'
  BY <1>2, <1>5, SettledStep DEF ResultsSettled
<1>6. CASE handleWorkerResult
  <2>e. PICK e : e = Head(modelQueue)
    OBVIOUS
  <2>1. /\ modelQueue # <<>> /\ e.event = "result" /\ modelQueue' = Tail(modelQueue)
        /\ crawledStorage' = crawledStorage /\ modelPc = Idle
    BY <1>6, <2>e DEF handleWorkerResult, ModelEvent
  <2>2. e \in Results /\ Results' \subseteq Results
    BY <1>3, <1>4, <2>e, <2>1 DEF Results
  <2>3. modelPc' = IF ~AcceptsResult(e) THEN Idle
                   ELSE [call |-> IF e.page \in Filtered \/ PageUrl[e.page] \in crawledStorage
                                  THEN "count" ELSE "add",
                         url |-> PageUrl[e.page], turn |-> e.turn]
    BY <1>6, <2>e DEF handleWorkerResult
  <2>4. Stored' \subseteq Stored \union PagesOf(Settled')
    <3>1. CASE AcceptsResult(e)
      <4>1. e.page \in Settled'
        BY <2>2, <3>1 DEF AcceptsResult, SettledInv, OwnedGrows
      <4>2. PageUrl[e.page] \in PagesOf(Settled')
        BY <4>1 DEF PagesOf
      <4>3. modelPc'.url = PageUrl[e.page]
        BY <2>3, <3>1
      <4> QED
        BY <2>1, <4>2, <4>3 DEF Stored, Adding
    <3>2. CASE ~AcceptsResult(e)
      BY <2>1, <2>3, <3>2 DEF Stored, Adding, Idle
    <3> QED
      BY <3>1, <3>2
  <2> QED
    BY <1>5, <2>2, <2>4
<1>7. CASE modelAdd
  <2>1. modelPc \in [call : {"add", "accept", "count"}, url : Urls, turn : Int]
    BY <1>7 DEF modelAdd, Idle, PipelineTypeOK, ModelShape
  <2>2. /\ modelPc.call = "add" /\ modelPc'.call = "accept" /\ modelQueue' = modelQueue
        /\ crawledStorage' = crawledStorage \union {modelPc.url}
    BY <1>7, <2>1 DEF modelAdd
  <2>3. Stored' \subseteq Stored /\ Results' \subseteq Results
    BY <1>4, <2>2 DEF Stored, Adding, Results
  <2> QED
    BY <1>5, <2>3
<1>8. CASE modelAccept \/ modelCount
  <2>1. modelPc # Idle
    BY <1>8 DEF modelAccept, modelCount, Idle
  <2>2. modelPc \in [call : {"add", "accept", "count"}, url : Urls, turn : Int]
    BY <2>1 DEF PipelineTypeOK, ModelShape
  <2>3. modelPc'.call # "add" /\ modelQueue' = modelQueue /\ crawledStorage' = crawledStorage
    BY <1>8, <2>2 DEF modelAccept, modelCount, Idle
  <2>4. Stored' \subseteq Stored /\ Results' \subseteq Results
    BY <1>4, <2>3 DEF Stored, Adding, Results
  <2> QED
    BY <1>5, <2>4
<1>9. CASE modelClear
  <2>1. /\ modelQueue # <<>> /\ modelQueue' = Tail(modelQueue) /\ crawledStorage' = {}
        /\ modelPc' = Idle
    BY <1>9 DEF modelClear, ModelEvent
  <2>2. Stored' = {} /\ Results' \subseteq Results
    BY <1>3, <1>4, <2>1 DEF Stored, Adding, Results, Idle
  <2> QED
    BY <1>5, <2>2
<1> QED
  BY <1>6, <1>7, <1>8, <1>9 DEF Model

(* Every step of the crawler but those of a clear lets the lists grow so,  *)
(* and leaves the pages settled.                                           *)
LEMMA NextSettled ==
  ASSUME PipelineTypeOK, SettledInv, [Next]_pipelineVars, turnaround' = turnaround, ~clearStore
  PROVE  OwnedGrows /\ SettledInv'
<1>1. ~clearData
  <2>1. turnaround \in Nat
    BY DEF PipelineTypeOK
  <2>2. turnaround + 1 # turnaround
    BY <2>1
  <2> QED
    BY <2>2 DEF clearData, clearDataImpl
<1>2. OwnedGrows
  <2>1. StoreCalled
    BY <1>1, PipelineStoreStep
  <2> QED
    BY <2>1, StoreOwned DEF SettledInv
<1>3. ASSUME NEW w \in Workers, Worker(w) \/ LoadingDone(w) PROVE SettledInv'
  BY <1>2, <1>3, ExtractSettled, LoadedSettled, ResponseSettled, StartSettled, ToldSettled, CallsAreSettled
     DEF Worker
<1>4. CASE Model
  BY <1>2, <1>4, ModelSettled
<1>5. CASE startCrawling \/ stopCrawling \/ decideCrawlingEnded
  <2>1. 1 \in Workers
    BY PipelineAssumption DEF Workers
  <2> QED
    BY <1>2, <1>5, <2>1, ToldSettled
<1>6. CASE MainQueue \/ onAboutCrawlingState \/ loadCounter \/ crawlerFinished \/ UNCHANGED pipelineVars
  <2>1. workerVars' = workerVars /\ modelVars' = modelVars
    BY <1>6 DEF MainQueue, addParsedPage, onDataCleared, onAboutCrawlingState, loadCounter,
       crawlerFinished, pipelineVars
  <2>2. job' = job /\ inFlight' = inFlight /\ workerQueue' = workerQueue
    BY <2>1 DEF workerVars
  <2>3. \A v \in Workers : EventsOf(workerQueue[v], "pageLoaded")' = EventsOf(workerQueue[v], "pageLoaded")
    BY <2>2 DEF EventsOf, EventsAt
  <2> QED
    BY <1>2, <2>1, <2>2, <2>3, SettledSame, SettledStep
<1> QED
  BY <1>1, <1>2, <1>3, <1>4, <1>5, <1>6 DEF Next, User, MainStep, AtRest

(* What a save has read so far: pages that are settled, of requests it     *)
(* will not write down as pending; and of a file the same.                 *)
SaveInv ==
  /\ mainPc = "savePending" => collected.pages \subseteq PagesOf(Settled)
  /\ mainPc = "saveCrawled" => collected.pages \subseteq PagesOf(Settled \ collected.pending)
  /\ task = "save" =>
       collected.pages \subseteq PagesOf(collected.crawled \ collected.pending)
  /\ file.pages \subseteq PagesOf(file.crawled \ file.pending)

(* Where all that is under way is of earlier turns, only the lists and the *)
(* pages stored matter.                                                    *)
LEMMA EarlierSettled ==
  ASSUME NEW t \in Int, TurnsUpTo(t)', turnaround' \in Nat, t < turnaround',
         activeUrlList' \subseteq Owned', Stored' \subseteq PagesOf(Settled')
  PROVE  SettledInv'
<1>1. ASSUME NEW w \in Workers, NEW d \in inFlight'[w] PROVE d.turn # turnaround'
  <2>1. d \in TurnLoads(t)
    BY DEF TurnsUpTo
  <2>2. d.turn \in Int /\ d.turn <= t
    BY <2>1 DEF TurnLoads, Downloads
  <2> QED
    BY <2>2
<1>2. ASSUME NEW w \in Workers, NEW e \in EventsOf(workerQueue[w], "pageLoaded")'
      PROVE  e.load.turn # turnaround'
  <2>1. PICK i \in EventsAt(workerQueue'[w], "pageLoaded") : e = workerQueue'[w][i]
    BY <1>2 DEF EventsOf, EventsAt
  <2>2. e \in TurnAnswers(t)
    BY <2>1 DEF TurnsUpTo, Within, EventsAt
  <2>3. e.load.turn \in Int /\ e.load.turn <= t
    BY <2>2 DEF TurnAnswers, TurnLoads, Downloads
  <2> QED
    BY <2>3
<1>3. ASSUME NEW w \in Workers, job'[w].turn = turnaround' PROVE FALSE
  <2>1. job'[w].turn <= t
    BY DEF TurnsUpTo
  <2> QED
    BY <1>3, <2>1
<1>4. ASSUME NEW e \in Results' PROVE e.turn # turnaround'
  <2>1. PICK i \in EventsAt(modelQueue', "result") : e = modelQueue'[i]
    BY <1>4 DEF Results, EventsOf, EventsAt
  <2>2. e \in TurnResults(t)
    BY <2>1 DEF TurnsUpTo, Within, EventsAt
  <2>3. e.turn \in Int /\ e.turn <= t
    BY <2>2 DEF TurnResults, ModelEvents
  <2> QED
    BY <2>3
<1>5. PagesOf(Settled)' = PagesOf(Settled')
  BY DEF PagesOf
<1> QED
  BY <1>1, <1>2, <1>3, <1>4, <1>5 DEF SettledInv

(* A clear begins: the lists stay, and what is under way is of the turn    *)
(* before.                                                                 *)
LEMMA ClearSettled ==
  ASSUME PipelineTypeOK, TurnInv', SettledInv, ClearBegins
  PROVE  SettledInv'
<1>1. /\ turnaround' = turnaround + 1 /\ turnaround \in Nat /\ mainPc' = "clearModel"
      /\ UNCHANGED <<listVars, modelPc, crawledStorage>>
  BY DEF ClearBegins, clearDataImpl, PipelineTypeOK
<1>2. PICK t \in Int : t = turnaround
  BY <1>1
<1>3. TurnsUpTo(t)'
  <2>1. TurnsUpTo(turnaround - 1)'
    BY <1>1 DEF TurnInv, Clearing
  <2>2. turnaround' - 1 = t
    BY <1>1, <1>2
  <2> QED
    BY <2>1, <2>2 DEF TurnsUpTo
<1>4. activeUrlList' \subseteq Owned' /\ Stored' \subseteq PagesOf(Settled')
  BY <1>1 DEF SettledInv, Owned, Settled, PagesOf, Stored, Adding, listVars
<1> QED
  BY <1>1, <1>2, <1>3, <1>4, EarlierSettled

(* A clear ends: the lists and the storages are empty.                     *)
LEMMA ClearedSettled ==
  ASSUME ProjectTurns, [ProjectNext]_allVars, TurnInv', LoadInv',
         (clearStore /\ [Next]_pipelineVars) \/ deserializeClearStore
  PROVE  SettledInv'
<1> USE DEF ProjectTurns, ProjectControl
<1>1. /\ mainPc = "clearStore" /\ clear /\ turnaround' = turnaround /\ turnaround \in Nat
      /\ modelPc' = modelPc /\ crawledStorage' = crawledStorage
  BY DEF clearStore, deserializeClearStore, sharedVars, modelVars, PipelineTypeOK
<1>2. crawledStorage = {} /\ modelPc = Idle /\ TurnsUpTo(turnaround - 1)
  BY <1>1 DEF LoadInv, TurnInv, Clearing
<1>3. PICK t \in Int : t = turnaround - 1
  BY <1>1
<1>4. t < turnaround' /\ t >= -1
  BY <1>1, <1>3
<1>5. TurnsUpTo(t)'
  <2>1. CASE clearStore /\ [Next]_pipelineVars
    <3>1. \A w \in Workers : ~isRunning[w]
      BY <1>1 DEF ControlInv, Stopping, Quiet
    <3> QED
      BY <1>2, <1>3, <1>4, <2>1, <3>1, TurnsKept
  <2>2. CASE deserializeClearStore
    <3>1. workerVars' = workerVars /\ modelQueue' = modelQueue
      BY <2>2 DEF deserializeClearStore, modelVars
    <3> QED
      BY <1>2, <1>3, <3>1, TurnsSame
  <2> QED
    BY <2>1, <2>2
<1>6. activeUrlList' = {} /\ Stored' = {}
  BY <1>1, <1>2 DEF clear, Stored, Adding, Idle
<1> QED
  BY <1>1, <1>4, <1>5, <1>6, EarlierSettled

(* The pages of a file are of requests crawled and not pending in it, and  *)
(* nothing else is under way.                                              *)
LEMMA FileSettled ==
  ASSUME ProjectTurns, SaveInv, onDeserializationTaskDone
  PROVE  SettledInv'
<1> USE DEF ProjectTurns, ProjectControl
<1>1. /\ task = "load" /\ turnaround' = turnaround /\ turnaround \in Nat
      /\ workerVars' = workerVars /\ modelQueue' = modelQueue /\ modelPc' = modelPc
      /\ crawledStorage' = crawledStorage \union file.pages
      /\ crawledUrlList' = file.crawled /\ pendingUrlList' = file.pending
      /\ activeUrlList' = activeUrlList
  BY DEF onDeserializationTaskDone, setUrls, PipelineTypeOK
<1>2. /\ crawledStorage = {} /\ modelPc = Idle /\ activeUrlList = {}
      /\ TurnsUpTo(turnaround - 1)
  BY <1>1 DEF LoadInv
<1>3. PICK t \in Int : t = turnaround - 1
  BY <1>1
<1>4. TurnsUpTo(t)'
  BY <1>1, <1>2, <1>3, TurnsSame
<1>5. t < turnaround'
  BY <1>1, <1>3
<1>6. Stored' = file.pages /\ Settled' = file.crawled \ file.pending
  BY <1>1, <1>2 DEF Stored, Adding, Idle, Settled, Owned
<1>7. Stored' \subseteq PagesOf(Settled')
  BY <1>6 DEF SaveInv, PagesOf
<1> QED
  BY <1>1, <1>2, <1>4, <1>5, <1>7, EarlierSettled

(* Every step leaves the pages settled.                                    *)
LEMMA SettledKept ==
  ASSUME ProjectTurns, ProjectTurns', SettledInv, SaveInv, [ProjectNext]_allVars
  PROVE  SettledInv'
<1> USE DEF ProjectTurns, ProjectControl
<1>1. CASE [Next]_pipelineVars
  <2>1. CASE clearStore
    BY <1>1, <2>1, ClearedSettled
  <2>2. CASE turnaround' # turnaround
    BY <1>1, <2>2, ClearingBegins, ClearSettled
  <2>3. CASE turnaround' = turnaround /\ ~clearStore
    BY <1>1, <2>3, NextSettled
  <2> QED
    BY <2>1, <2>2, <2>3
<1>2. CASE closeFile \/ deserialize
  BY <1>2, ProjectClears, ClearSettled
<1>3. CASE Aside
  <2>1. UNCHANGED <<storeVars, sharedVars, workerVars, modelVars>>
    BY <1>3, AsideLeaves
  <2>2. OwnedGrows
    BY <2>1 DEF storeVars, listVars, sharedVars, OwnedGrows, Owned, Settled, SettledInv
  <2>3. job' = job /\ inFlight' = inFlight /\ workerQueue' = workerQueue /\ modelVars' = modelVars
    BY <2>1 DEF workerVars
  <2>4. \A v \in Workers : EventsOf(workerQueue[v], "pageLoaded")' = EventsOf(workerQueue[v], "pageLoaded")
    BY <2>3 DEF EventsOf, EventsAt
  <2> QED
    BY <2>2, <2>3, <2>4, SettledSame, SettledStep
<1>4. CASE deserializeClearStore
  BY <1>4, ClearedSettled
<1>5. CASE onDeserializationTaskDone
  BY <1>5, FileSettled
<1> QED
  BY <1>1, <1>2, <1>3, <1>4, <1>5, ProjectCases

(* The pages shown are settled, unless a clear is on its way to the view.  *)
LEMMA ShownSettled ==
  ASSUME ViewInv, SettledInv, EventsAt(mainQueue, "cleared") = {}
  PROVE  sequencedStorage \subseteq PagesOf(Settled)
BY DEF ViewInv, ViewSplit, Shown, SettledInv, Stored

(* During a save the lists only grow.                                      *)
LEMMA SaveGrows ==
  ASSUME ProjectTurns, SettledInv, [Next]_pipelineVars, state = "Serialization"
  PROVE  OwnedGrows /\ mainPc' = mainPc
<1> USE DEF ProjectTurns, ProjectControl
<1>1. mainPc \in {"idle", "savePending", "saveCrawled"}
  BY DEF PhaseInv
<1>2. mainPc' = mainPc
  BY <1>1, PhaseAlone
<1>3. turnaround' = turnaround
  BY <1>1, <1>2, ClearingBegins DEF ClearBegins, clearDataImpl
<1>4. ~clearStore
  BY <1>1 DEF clearStore
<1> QED
  BY <1>2, <1>3, <1>4, NextSettled

(* What a save reads fits together, whatever the workers do meanwhile.     *)
LEMMA SaveKept ==
  ASSUME ProjectTurns, SettledInv, SaveInv, [ProjectNext]_allVars
  PROVE  SaveInv'
<1> USE DEF ProjectTurns, ProjectControl
<1>1. CASE [Next]_pipelineVars /\ UNCHANGED projectVars
  <2>1. collected' = collected /\ task' = task /\ file' = file
    BY <1>1 DEF projectVars
  <2>2. ASSUME mainPc' \in {"savePending", "saveCrawled"}
        PROVE  mainPc' = mainPc /\ Settled \subseteq Settled'
    <3>1. mainPc' = mainPc
      BY <1>1, <2>2, PhaseAlone
    <3>2. state = "Serialization"
      BY <2>2, <3>1 DEF PhaseInv
    <3> QED
      BY <1>1, <3>1, <3>2, SaveGrows DEF OwnedGrows
  <2> QED
    BY <2>1, <2>2 DEF SaveInv, PagesOf
<1>2. CASE closeFile \/ deserialize
  <2>1. mainPc' = "clearModel" /\ UNCHANGED projectVars
    BY <1>2 DEF closeFile, deserialize, clearDataImpl
  <2> QED
    BY <2>1 DEF SaveInv, projectVars, PagesOf
<1>3. CASE saveFile \/ loadFromFile
  <2>1. mainPc' = "idle" /\ collected' = collected /\ task' = task /\ file' = file
    BY <1>3 DEF saveFile, loadFromFile
  <2> QED
    BY <2>1 DEF SaveInv, PagesOf
<1>4. CASE collectPages
  <2>1. /\ mainPc' = "savePending" /\ task = "none" /\ task' = "none" /\ file' = file
        /\ collected'.pages = sequencedStorage /\ state = "Serialization" /\ storeVars' = storeVars
    BY <1>4 DEF collectPages, ProjectTypeOK
  <2>2. sequencedStorage \subseteq PagesOf(Settled)
    BY <2>1, ShownSettled DEF PhaseInv
  <2>3. Settled' = Settled
    BY <2>1 DEF Settled, Owned, storeVars, listVars
  <2> QED
    BY <2>1, <2>2, <2>3 DEF SaveInv, PagesOf
<1>5. CASE collectPending
  <2>1. /\ mainPc = "savePending" /\ mainPc' = "saveCrawled" /\ task' = task /\ file' = file
        /\ collected'.pages = collected.pages /\ collected'.pending = pendingAndActiveUrls
        /\ storeVars' = storeVars
    BY <1>5 DEF collectPending, ProjectTypeOK
  <2>2. task = "none"
    BY <2>1 DEF PhaseInv
  <2>3. Settled' = Settled /\ Settled \ pendingAndActiveUrls = Settled
    BY <2>1 DEF Settled, Owned, storeVars, listVars, pendingAndActiveUrls
  <2> QED
    BY <2>1, <2>2, <2>3 DEF SaveInv, PagesOf
<1>6. CASE collectCrawled
  <2>1. /\ mainPc = "saveCrawled" /\ mainPc' = "idle" /\ file' = file
        /\ collected'.pages = collected.pages /\ collected'.pending = collected.pending
        /\ collected'.crawled = crawledUrlList
    BY <1>6 DEF collectCrawled, ProjectTypeOK
  <2>2. Settled \subseteq crawledUrlList
    BY DEF Settled, Owned
  <2> QED
    BY <2>1, <2>2 DEF SaveInv, PagesOf
<1>7. CASE onSerializationTaskDone
  <2>1. task = "save" /\ task' = "none" /\ mainPc' = "idle" /\ file' = collected
    BY <1>7 DEF onSerializationTaskDone
  <2> QED
    BY <2>1 DEF SaveInv, PagesOf
<1>8. CASE deserializeClearStore \/ onDeserializationTaskDone
  <2>1. mainPc' = "idle" /\ task' # "save" /\ file' = file
    BY <1>8 DEF deserializeClearStore, onDeserializationTaskDone
  <2> QED
    BY <2>1 DEF SaveInv, PagesOf
<1> QED
  BY <1>1, <1>2, <1>3, <1>4, <1>5, <1>6, <1>7, <1>8, ProjectCases DEF Aside

(* At first nothing is stored, loading or saved.                           *)
LEMMA SettledInit == ProjectInit => SettledInv /\ SaveInv
<1> SUFFICES ASSUME ProjectInit PROVE SettledInv /\ SaveInv
  OBVIOUS
<1>1. /\ activeUrlList = {} /\ crawledStorage = {} /\ modelPc = Idle /\ modelQueue = <<>>
      /\ \A w \in Workers : inFlight[w] = {} /\ workerQueue[w] = <<>> /\ job[w] = NoJob
      /\ mainPc = "idle" /\ task = "none" /\ file = NoPages
  BY DEF ProjectInit, Init, EmptyStore
<1>2. Results = {} /\ Stored = {}
  BY <1>1 DEF Results, EventsOf, EventsAt, Stored, Adding, Idle
<1>3. \A w \in Workers : EventsOf(workerQueue[w], "pageLoaded") = {} /\ ToSet(job[w].calls) = {}
  BY <1>1 DEF EventsOf, EventsAt, ToSet, NoJob
<1> QED
  BY <1>1, <1>2, <1>3 DEF SettledInv, SaveInv, NoPages

(* So it holds, and what a save reads is consistent.                       *)
LEMMA SettledHolds == ProjectSpec => [](SettledInv /\ SaveInv)
<1>1. /\ ProjectTurns /\ ProjectTurns' /\ SettledInv /\ SaveInv /\ [ProjectNext]_allVars
      => (SettledInv /\ SaveInv)'
  BY SettledKept, SaveKept
<1> QED
  BY <1>1, SettledInit, ProjectTurnsHold, PTL DEF ProjectSpec

(* Every page shown comes from a request that was handed to a worker and   *)
(* does not wait to be downloaded again: no crawl, new or resumed from a   *)
(* project, loads a page twice, however late answers fell between the      *)
(* three reads of the save.                                                *)
THEOREM PagesLoadedOnce == ProjectSpec => []NothingLoadedTwice
<1>1. ProjectTurns /\ SettledInv => NothingLoadedTwice
  <2> SUFFICES ASSUME ProjectTurns, SettledInv, Counted(mainQueue, "cleared") = 0
               PROVE  sequencedStorage \subseteq {PageUrl[r] : r \in crawledUrlList \ pendingUrlList}
    BY DEF NothingLoadedTwice
  <2>1. EventsAt(mainQueue, "cleared") = {}
    BY NoneCleared DEF ProjectTurns, ProjectControl
  <2> QED
    BY <2>1, ShownSettled DEF ProjectTurns, PagesOf, Settled, Owned
<1> QED
  BY <1>1, SettledHolds, ProjectTurnsHold, PTL

-----------------------------------------------------------------------------
(***************************************************************************)
(* The first crawl: saved any number of times, its pages stay balanced.    *)
(***************************************************************************)

(* Before the first clear nothing is loaded: once something is saved the   *)
(* session has a name, and only closing it makes room for a load.          *)
UnloadedInv ==
  clears = 0 =>
    /\ state # "Deserialization"
    /\ state = "Serialization" \/ task = "save" \/ file # NoPages => session = "named"

(* A named session stays so until the data is cleared.                     *)
LEMMA SessionStays ==
  ASSUME PipelineTypeOK, [Next]_pipelineVars, clears' = clears, session = "named"
  PROVE  session' = "named"
<1>1. ASSUME NEW w \in Workers, Worker(w) \/ LoadingDone(w) PROVE session' = session
  BY <1>1 DEF Worker, LoadingDone, ExtractDue, onLoadingDone, start, stop, workerClear, extract,
     addLinks, emitResult, count, claimHop, claimBlocked, mainVars, userVars
<1>2. CASE Model \/ UNCHANGED pipelineVars
  BY <1>2 DEF Model, handleWorkerResult, modelAdd, modelAccept, modelCount, modelClear, mainVars,
     userVars, pipelineVars
<1>3. CASE startCrawling \/ stopCrawling
  BY <1>3 DEF startCrawling, stopCrawling
<1>4. ~clearData
  <2>1. clears \in Nat
    BY DEF PipelineTypeOK, MainShape
  <2>2. clears + 1 # clears
    BY <2>1
  <2> QED
    BY <2>2 DEF clearData
<1>5. CASE MainStep
  BY <1>5 DEF MainStep, MainQueue, addParsedPage, onDataCleared, onAboutCrawlingState, loadCounter,
     decideCrawlingEnded, crawlerFinished, clearStore, userVars
<1> QED
  BY <1>1, <1>2, <1>3, <1>4, <1>5 DEF Next, User, AtRest

(* What a step before the first clear can be.                              *)
LEMMA FirstSteps ==
  ASSUME ProjectControl, UnloadedInv, [ProjectNext]_allVars, clears' = 0
  PROVE  /\ clears = 0 /\ clears' = clears
         /\ ([Next]_pipelineVars /\ UNCHANGED projectVars) \/ (Aside /\ ~loadFromFile)
<1> USE DEF ProjectControl
<1>1. clears \in Nat
  BY DEF PipelineTypeOK, MainShape
<1>2. CASE [Next]_pipelineVars /\ UNCHANGED projectVars
  <2>1. clears = 0 /\ clears' = clears
    BY <1>1, <1>2, ClearsGrow
  <2> QED
    BY <1>2, <2>1
<1>3. ~closeFile
  <2>1. clears + 1 # 0
    BY <1>1
  <2> QED
    BY <2>1 DEF closeFile
<1>4. ASSUME deserialize \/ deserializeClearStore \/ onDeserializationTaskDone PROVE FALSE
  <2>1. state = "Deserialization"
    BY <1>4 DEF deserialize, deserializeClearStore, onDeserializationTaskDone, PhaseInv
  <2>2. clears = 0
    BY <1>4 DEF deserialize, deserializeClearStore, onDeserializationTaskDone, quietMain
  <2> QED
    BY <2>1, <2>2 DEF UnloadedInv
<1>5. CASE Aside
  <2>1. clears' = clears
    BY <1>5, AsideLeaves DEF quietMain
  <2>2. ~loadFromFile
    BY <2>1 DEF loadFromFile, UnloadedInv
  <2> QED
    BY <1>5, <2>1, <2>2
<1> QED
  BY <1>2, <1>3, <1>4, <1>5, ProjectCases

(* No load before the first clear.                                         *)
LEMMA UnloadedKept ==
  ASSUME ProjectControl, UnloadedInv, [ProjectNext]_allVars
  PROVE  UnloadedInv'
<1> SUFFICES ASSUME clears' = 0
             PROVE  /\ state' # "Deserialization"
                    /\ (state' = "Serialization" \/ task' = "save" \/ file' # NoPages) => session' = "named"
  BY DEF UnloadedInv, NoPages
<1>1. /\ clears = 0 /\ clears' = clears
      /\ ([Next]_pipelineVars /\ UNCHANGED projectVars) \/ (Aside /\ ~loadFromFile)
  BY FirstSteps
<1>2. /\ state # "Deserialization"
      /\ (state = "Serialization" \/ task = "save" \/ file # NoPages) => session = "named"
  BY <1>1 DEF UnloadedInv
<1>3. CASE [Next]_pipelineVars /\ UNCHANGED projectVars
  <2>1. task' = task /\ file' = file
    BY <1>3 DEF projectVars
  <2>2. /\ state' \in {"Serialization", "Deserialization"} => state' = state
        /\ session = "named" => session' = "named"
    BY <1>1, <1>3, PhaseAlone, SessionStays DEF ProjectControl
  <2> QED
    BY <1>2, <2>1, <2>2
<1>4. CASE saveFile
  BY <1>4 DEF saveFile
<1>5. CASE collectPages \/ collectPending \/ collectCrawled
  <2>1. session' = session /\ state' = state /\ state = "Serialization"
    BY <1>5 DEF collectPages, collectPending, collectCrawled, PhaseInv, ProjectControl
  <2> QED
    BY <1>2, <2>1
<1>6. CASE onSerializationTaskDone
  <2>1. session' = session /\ state' \in {"Pending", "Pause"} /\ task = "save"
    BY <1>6 DEF onSerializationTaskDone, ProjectControl, ProjectTypeOK
  <2> QED
    BY <1>2, <2>1
<1> QED
  BY <1>1, <1>3, <1>4, <1>5, <1>6 DEF Aside

(* A save leaves the pages balanced, and none is lost.                     *)
LEMMA AsideBalanced ==
  ASSUME ProjectControl, PipelineTypeOK', StoreInv, FirstTurn, Balanced, CrawlInv, Aside
  PROVE  StoreInv' /\ FirstTurn' /\ Balanced' /\ CrawlInv'
<1> USE DEF ProjectControl
<1>1. /\ UNCHANGED <<storeVars, quietMain, sharedVars, workerVars, modelVars>>
      /\ mainPc' \in {"idle", "savePending", "saveCrawled"}
  BY AsideLeaves
<1>2. StoreInv'
  BY <1>1, StoreNextInv
<1>3. FirstTurn' /\ Balanced'
  <2>1. PICK w \in Workers : TRUE
    <3>1. 1 \in Workers
      BY PipelineAssumption DEF Workers
    <3> QED
      BY <3>1
  <2>2. \A v \in Workers : Told(v)
    BY <1>1 DEF Told, workerVars
  <2>3. /\ inFlight' = inFlight /\ job' = job /\ turnaround' = turnaround /\ modelPc' = modelPc
        /\ modelQueue' = modelQueue /\ mainQueue' = mainQueue /\ crawledUrlList' = crawledUrlList
        /\ workersProcessedLinksCount' = workersProcessedLinksCount
        /\ modelControllerCrawledLinksCount' = modelControllerCrawledLinksCount
        /\ modelControllerAcceptedLinksCount' = modelControllerAcceptedLinksCount
        /\ sequencedDataCollectionLinksCount' = sequencedDataCollectionLinksCount
        /\ downloaderCrawledLinksCount' = downloaderCrawledLinksCount
    BY <1>1 DEF storeVars, listVars, counterVars, quietMain, sharedVars, workerVars, modelVars
  <2>4. ~Clearing'
    BY <1>1 DEF Clearing
  <2>5. FirstQueues'
    BY <2>3 DEF FirstTurn, FirstQueues, FirstResults, FirstPages, Idle
  <2>6. ShownBalance'
    BY <2>3 DEF Balanced, ShownBalance
  <2>7. modelControllerCrawledLinksCount + Counted(modelQueue, "result")
             + (IF modelPc # Idle THEN 1 ELSE 0)
           = modelControllerCrawledLinksCount' + Counted(modelQueue', "result")
               + (IF modelPc' # Idle THEN 1 ELSE 0)
    BY <2>3, Zenon DEF Idle
  <2> QED
    BY <2>2, <2>3, <2>4, <2>5, <2>6, <2>7, ElsewhereBalanced
<1>4. CrawlInv'
  <2>1. /\ pendingUrlList' = pendingUrlList /\ crawledUrlList' = crawledUrlList
        /\ limitCrawledLinksCount' = limitCrawledLinksCount /\ isTrialLicense' = isTrialLicense
        /\ inFlight' = inFlight /\ job' = job /\ workerQueue' = workerQueue
        /\ modelQueue' = modelQueue /\ modelPc' = modelPc /\ crawledStorage' = crawledStorage
    BY <1>1 DEF storeVars, listVars, optionVars, workerVars, modelVars
  <2>2. (\A r : Loading(r)' <=> Loading(r)) /\ DueCalls' = DueCalls
    BY <2>1, LoadingSame, DueSame
  <2>3. Results' = Results /\ Stored' = Stored
    BY <2>1 DEF Results, EventsOf, EventsAt, Stored, Adding
  <2>4. crawledUrlList \subseteq Requests
    BY DEF PipelineTypeOK, StoreShape
  <2> QED
    BY <2>1, <2>2, <2>3, <2>4, ElsewhereCrawl
<1> QED
  BY <1>2, <1>3, <1>4

(* Before the first clear, whatever is saved meanwhile: every page is in   *)
(* one place of the pipeline, and none is lost.                            *)
FirstInv == clears = 0 => StoreInv /\ FirstTurn /\ Balanced /\ CrawlInv

(* Every step keeps it.                                                    *)
LEMMA FirstKept ==
  ASSUME ProjectControl, ProjectControl', UnloadedInv, FirstInv, [ProjectNext]_allVars
  PROVE  FirstInv'
<1> SUFFICES ASSUME clears' = 0 PROVE StoreInv' /\ FirstTurn' /\ Balanced' /\ CrawlInv'
  BY DEF FirstInv
<1>1. /\ clears = 0 /\ clears' = clears
      /\ [Next]_pipelineVars \/ Aside
  BY FirstSteps
<1>2. PipelineTypeOK /\ PipelineTypeOK' /\ ClearInv
  BY DEF ProjectControl
<1>3. StoreInv /\ FirstTurn /\ Balanced /\ CrawlInv
  BY <1>1 DEF FirstInv
<1>4. CASE [Next]_pipelineVars
  <2>1. StoreInv' /\ FirstTurn' /\ Balanced'
    BY <1>1, <1>2, <1>3, <1>4, BalanceKept
  <2>2. CrawlInv'
    BY <1>1, <1>2, <1>3, <1>4, <2>1, CrawlKept
  <2> QED
    BY <2>1, <2>2
<1>5. CASE Aside
  BY <1>2, <1>3, <1>5, AsideBalanced
<1> QED
  BY <1>1, <1>4, <1>5

(* So it holds ever after.                                                 *)
LEMMA FirstHolds == ProjectSpec => [](UnloadedInv /\ FirstInv)
<1>1. ProjectInit => UnloadedInv /\ FirstInv
  <2>1. ProjectInit => UnloadedInv
    BY DEF ProjectInit, Init, UnloadedInv
  <2>2. ProjectInit => FirstInv
    BY BalanceInit, CrawlInit DEF ProjectInit, FirstInv, BalanceInv, FirstCrawlInv
  <2> QED
    BY <2>1, <2>2
<1>2. /\ ProjectControl /\ ProjectControl' /\ UnloadedInv /\ FirstInv /\ [ProjectNext]_allVars
      => (UnloadedInv /\ FirstInv)'
  BY UnloadedKept, FirstKept
<1> QED
  BY <1>1, <1>2, ProjectStopControl, PTL DEF ProjectSpec

(* Until the data is cleared, every page a worker took from the store is   *)
(* in exactly one place of the pipeline or in the counter behind it, also  *)
(* while a save reads the lists and after it.                              *)
THEOREM ProjectPagesBalanced == ProjectSpec => []PipelineBalanced
<1>1. FirstInv => PipelineBalanced
  BY DEF FirstInv, PipelineBalanced, Balanced, TakenBalance, CountedBalance, ShownBalance, CountsDue
<1> QED
  BY <1>1, FirstHolds, PTL

(* Equal counters mean a complete crawl also when the crawl was stopped,   *)
(* saved and started again.                                                *)
THEOREM ProjectEndCondition == ProjectSpec => []EndConditionSound
<1>1. ProjectControl /\ FirstInv /\ ViewMatchesModel => EndConditionSound
  BY EndConditionFollows DEF ProjectControl, FirstInv, BalanceInv, FirstCrawlInv
<1> QED
  BY <1>1, FirstHolds, ProjectStopControl, ProjectViewFollowsModel, PTL

(* While the main thread is told that the crawler has stopped, no worker   *)
(* starts a download, also while a project is saved, closed or loaded.     *)
THEOREM ProjectStoppedStartsNothing == ProjectSpec => StoppedStartNothing
<1>1. ProjectControl /\ [ProjectNext]_allVars
        => [state # "Working" /\ mainPc = "idle" /\ state' # "Working" =>
              \A w \in Workers : inFlight'[w] \subseteq inFlight[w]]_pipelineVars
  <2> SUFFICES ASSUME ProjectControl, [ProjectNext]_allVars, state # "Working", mainPc = "idle",
                      NEW w \in Workers
               PROVE  inFlight'[w] \subseteq inFlight[w]
    OBVIOUS
  <2>1. CASE [Next]_pipelineVars
    BY <2>1, QuietStartsNothing DEF ProjectControl
  <2>2. CASE closeFile \/ deserialize \/ deserializeClearStore \/ onDeserializationTaskDone
    BY <2>2 DEF closeFile, deserialize, clearDataImpl, deserializeClearStore,
       onDeserializationTaskDone, workerVars
  <2>3. CASE Aside
    BY <2>3, AsideLeaves DEF workerVars, ProjectControl
  <2> QED
    BY <2>1, <2>2, <2>3, ProjectCases
<1> QED
  BY <1>1, ProjectStopControl, PTL DEF ProjectSpec, StoppedStartNothing


-----------------------------------------------------------------------------
(***************************************************************************)
(* What a save waits for. In the first crawl every page that loads is      *)
(* still active, because it loads only once: the answer that takes it off  *)
(* the active urls is the last of its kind.                                *)
(***************************************************************************)

(* No two answers in a queue are of one page.                              *)
OncePerPage(queue) ==
  \A i, j \in EventsAt(queue, "pageLoaded") :
    queue[i].load.page = queue[j].load.page => i = j

(* The worker waits for the page, or has its answer in the queue.          *)
LoadsPage(w, r) ==
  \/ \E load \in inFlight[w] : load.page = r
  \/ \E e \in EventsOf(workerQueue[w], "pageLoaded") : e.load.page = r

(* A page loads once, and is active while it does.                         *)
LoadsActive ==
  /\ \A w \in Workers : OncePerPage(workerQueue[w])
  /\ \A w \in Workers : \A load \in inFlight[w] :
       \A e \in EventsOf(workerQueue[w], "pageLoaded") : load.page # e.load.page
  /\ \A v, w \in Workers : \A r : LoadsPage(v, r) /\ LoadsPage(w, r) => v = w
  /\ \A w \in Workers : \A r : LoadsPage(w, r) => r \in activeUrlList

(* Queues with one answer a page, as they grow and are served.             *)
LEMMA OnceQueue ==
  ASSUME NEW T, NEW q \in Seq(T), OncePerPage(q)
  PROVE  /\ \A e \in T :
              (e.event = "pageLoaded" =>
                 \A f \in EventsOf(q, "pageLoaded") : f.load.page # e.load.page)
              => OncePerPage(Append(q, e))
         /\ q # <<>> => OncePerPage(Tail(q))
         /\ q # <<>> /\ Head(q).event = "pageLoaded" =>
              \A f \in EventsOf(Tail(q), "pageLoaded") : f.load.page # Head(q).load.page
<1>1. ASSUME NEW e \in T,
             e.event = "pageLoaded" =>
               \A f \in EventsOf(q, "pageLoaded") : f.load.page # e.load.page
      PROVE  OncePerPage(Append(q, e))
  <2> DEFINE a == Append(q, e)
             n == Len(q) + 1
             A == EventsAt(q, "pageLoaded")
  <2>1. /\ A \subseteq 1..Len(q) /\ Len(q) \in Nat
        /\ \A i \in 1..Len(q) : a[i] = q[i]
        /\ a[n] = e
        /\ EventsAt(a, "pageLoaded") = IF e.event = "pageLoaded" THEN A \union {n} ELSE A
    BY EventsAppend
  <2>2. \A i, j \in A : q[i].load.page = q[j].load.page => i = j
    BY DEF OncePerPage
  <2>3. e.event = "pageLoaded" => \A i \in A : q[i].load.page # e.load.page
    BY <1>1 DEF EventsOf
  <2> HIDE DEF a, n, A
  <2>4. \A i \in A : a[i] = q[i]
    BY <2>1
  <2>5. \A i, j \in EventsAt(a, "pageLoaded") : a[i].load.page = a[j].load.page => i = j
    <3>1. CASE e.event = "pageLoaded"
      <4>1. \A i \in EventsAt(a, "pageLoaded") :
              (i \in A /\ a[i] = q[i]) \/ (i = n /\ a[i] = e)
        BY <2>1, <2>4, <3>1
      <4> QED
        BY <2>2, <2>3, <3>1, <4>1
    <3>2. CASE e.event # "pageLoaded"
      <4>1. EventsAt(a, "pageLoaded") = A
        BY <2>1, <3>2
      <4> QED
        BY <2>2, <2>4, <4>1
    <3> QED
      BY <3>1, <3>2
  <2> QED
    BY <2>5 DEF OncePerPage, a
<1>2. ASSUME q # <<>>
      PROVE  /\ OncePerPage(Tail(q))
             /\ Head(q).event = "pageLoaded" =>
                  \A f \in EventsOf(Tail(q), "pageLoaded") : f.load.page # Head(q).load.page
  <2> DEFINE t == Tail(q)
             h == Head(q)
  <2>1. /\ \A i \in EventsAt(t, "pageLoaded") :
             /\ i \in Nat /\ i # 0
             /\ i + 1 \in EventsAt(q, "pageLoaded") /\ t[i] = q[i + 1]
        /\ h.event = "pageLoaded" <=> 1 \in EventsAt(q, "pageLoaded")
        /\ h = q[1]
    BY <1>2, EventsShift
  <2> HIDE DEF t, h
  <2>2. ASSUME NEW i \in EventsAt(t, "pageLoaded"), NEW j \in EventsAt(t, "pageLoaded"),
               t[i].load.page = t[j].load.page
        PROVE  i = j
    <3>1. i + 1 = j + 1
      BY <2>1, <2>2 DEF OncePerPage
    <3> QED
      BY <2>1, <3>1
  <2>3. ASSUME h.event = "pageLoaded", NEW i \in EventsAt(t, "pageLoaded"),
               t[i].load.page = h.load.page
        PROVE  FALSE
    <3>1. i + 1 = 1
      BY <2>1, <2>3 DEF OncePerPage
    <3> QED
      BY <2>1, <3>1
  <2> QED
    BY <2>2, <2>3 DEF OncePerPage, EventsOf, t, h
<1> QED
  BY <1>1, <1>2

(* Where no page begins or ends to load, each stays where it is.           *)
LEMMA LoadsStay ==
  ASSUME LoadsActive, inFlight' = inFlight, activeUrlList' = activeUrlList,
         \A v \in Workers :
           /\ OncePerPage(workerQueue'[v])
           /\ EventsOf(workerQueue'[v], "pageLoaded") = EventsOf(workerQueue[v], "pageLoaded")
  PROVE  LoadsActive'
<1>1. \A v \in Workers : EventsOf(workerQueue[v], "pageLoaded")' = EventsOf(workerQueue[v], "pageLoaded")
  <2>1. \A v \in Workers : EventsOf(workerQueue[v], "pageLoaded")' = EventsOf(workerQueue'[v], "pageLoaded")
    BY DEF EventsOf, EventsAt
  <2> QED
    BY <2>1
<1>2. \A v \in Workers : OncePerPage(workerQueue[v])'
  <2>1. \A v \in Workers : OncePerPage(workerQueue[v])' <=> OncePerPage(workerQueue'[v])
    BY DEF OncePerPage, EventsAt
  <2> QED
    BY <2>1
<1>3. \A v \in Workers : \A r : LoadsPage(v, r)' <=> LoadsPage(v, r)
  BY <1>1 DEF LoadsPage
<1> QED
  BY <1>1, <1>2, <1>3 DEF LoadsActive

(* The loader takes a page that nobody loads.                              *)
LEMMA ExtractActive ==
  ASSUME PipelineTypeOK, StoreInv, SourcesInv, LoadsActive, NEW w \in Workers,
         extractUrlAndDownload(w), workerQueue' = workerQueue
  PROVE  LoadsActive'
<1>1. /\ inFlight \in [Workers -> SUBSET Downloads] /\ pendingUrlList \subseteq Requests
  BY DEF PipelineTypeOK, WorkerShape, StoreShape
<1>2. \A v \in Workers : EventsOf(workerQueue[v], "pageLoaded")'
                           = EventsOf(workerQueue[v], "pageLoaded")
  BY DEF EventsOf, EventsAt
<1>3. CASE inFlight' = inFlight /\ UNCHANGED storeVars
  <2>1. activeUrlList' = activeUrlList
    BY <1>3 DEF storeVars, listVars
  <2>2. \A v \in Workers : OncePerPage(workerQueue'[v])
    BY DEF LoadsActive
  <2> QED
    BY <1>3, <2>1, <2>2, LoadsStay
<1>4. ASSUME NEW r \in pendingUrlList, extractUrl(r),
             inFlight' = [inFlight EXCEPT ![w] = @ \union {[page |-> r, turn |-> turnaround]}]
      PROVE  LoadsActive'
  <2> DEFINE load == [page |-> r, turn |-> turnaround]
  <2>1. /\ \A v \in Workers : v # w => inFlight'[v] = inFlight[v]
        /\ inFlight'[w] = inFlight[w] \union {load}
        /\ load.page = r
    BY <1>1, <1>4
  <2> HIDE DEF load
  <2>2. activeUrlList' = activeUrlList \union {r}
    BY <1>4 DEF extractUrl
  <2>3. \A v \in Workers : ~LoadsPage(v, r)
    <3>1. r \notin crawledUrlList /\ r \in Requests
      BY <1>1 DEF StoreInv, ListsConsistent
    <3>2. ~Loading(r)
      BY <3>1 DEF SourcesInv
    <3> QED
      BY <3>2 DEF Loading, LoadsPage
  <2>4. \A v \in Workers : \A s : LoadsPage(v, s)' <=> LoadsPage(v, s) \/ (v = w /\ s = r)
    BY <1>2, <2>1 DEF LoadsPage
  <2>5. \A v \in Workers : OncePerPage(workerQueue[v])'
    BY DEF LoadsActive, OncePerPage, EventsAt
  <2>6. ASSUME NEW v \in Workers, NEW l \in inFlight'[v],
               NEW e \in EventsOf(workerQueue[v], "pageLoaded")
        PROVE  l.page # e.load.page
    <3>1. LoadsPage(v, e.load.page)
      BY DEF LoadsPage
    <3>2. CASE l \in inFlight[v]
      BY <3>2 DEF LoadsActive
    <3>3. CASE l \notin inFlight[v]
      <4>1. l.page = r
        BY <2>1, <3>3
      <4> QED
        BY <2>3, <3>1, <4>1
    <3> QED
      BY <3>2, <3>3
  <2>7. \A u, v \in Workers : \A s : LoadsPage(u, s)' /\ LoadsPage(v, s)' => u = v
    BY <2>3, <2>4 DEF LoadsActive
  <2>8. \A v \in Workers : \A s : LoadsPage(v, s)' => s \in activeUrlList'
    BY <2>2, <2>4 DEF LoadsActive
  <2> QED
    BY <1>2, <2>5, <2>6, <2>7, <2>8 DEF LoadsActive
<1> QED
  BY <1>3, <1>4 DEF extractUrlAndDownload

(* The downloader answers: the page moves to the end of the queue.         *)
LEMMA LoadedActive ==
  ASSUME PipelineTypeOK, FirstTurn, LoadsActive, NEW w \in Workers, LoadingDone(w)
  PROVE  LoadsActive'
<1>1. /\ workerQueue \in [Workers -> Seq(WorkerEvents)] /\ inFlight \in [Workers -> SUBSET Downloads]
      /\ workerQueue[w] \in Seq(WorkerEvents) /\ inFlight[w] \subseteq FirstLoads
  BY DEF PipelineTypeOK, WorkerShape, FirstTurn, FirstWorker
<1>2. PICK load \in inFlight[w] :
        /\ inFlight' = [inFlight EXCEPT ![w] = @ \ {load}]
        /\ workerQueue' = [workerQueue EXCEPT
             ![w] = Append(@, [event |-> "pageLoaded", load |-> load])]
  BY DEF LoadingDone
<1>3. PICK e : e = [event |-> "pageLoaded", load |-> load]
  OBVIOUS
<1>4. e \in WorkerEvents /\ e.event = "pageLoaded" /\ e.load = load
  BY <1>1, <1>3 DEF WorkerEvents
<1>5. /\ \A v \in Workers : v # w => inFlight'[v] = inFlight[v] /\ workerQueue'[v] = workerQueue[v]
      /\ inFlight'[w] = inFlight[w] \ {load}
      /\ workerQueue'[w] = Append(workerQueue[w], e)
  BY <1>1, <1>2, <1>3
<1>6. \A v \in Workers : EventsOf(workerQueue[v], "pageLoaded")'
          = EventsOf(workerQueue[v], "pageLoaded") \union (IF v = w THEN {e} ELSE {})
  <2>1. EventsOf(Append(workerQueue[w], e), "pageLoaded")
          = EventsOf(workerQueue[w], "pageLoaded") \union (IF e.event = "pageLoaded" THEN {e} ELSE {})
    <3>1. workerQueue[w] \in Seq(WorkerEvents)
      BY <1>1
    <3> QED
      BY <1>4, <3>1, EventsOfQueue
  <2>2. \A v \in Workers : EventsOf(workerQueue[v], "pageLoaded")' = EventsOf(workerQueue'[v], "pageLoaded")
    BY DEF EventsOf, EventsAt
  <2> QED
    BY <1>4, <1>5, <2>1, <2>2
<1>7. \A l \in inFlight[w] : l # load => l.page # load.page
  BY <1>1 DEF FirstLoads, Downloads
<1>8. \A v \in Workers : OncePerPage(workerQueue[v])'
  <2>1. OncePerPage(Append(workerQueue[w], e))
    BY <1>1, <1>4, OnceQueue DEF LoadsActive
  <2>2. \A v \in Workers : OncePerPage(workerQueue'[v])
    BY <1>5, <2>1 DEF LoadsActive
  <2>3. \A v \in Workers : OncePerPage(workerQueue[v])' <=> OncePerPage(workerQueue'[v])
    BY DEF OncePerPage, EventsAt
  <2> QED
    BY <2>2, <2>3
<1>9. ASSUME NEW v \in Workers, NEW l \in inFlight'[v],
             NEW f \in EventsOf(workerQueue[v], "pageLoaded")'
      PROVE  l.page # f.load.page
  <2>1. l \in inFlight[v]
    BY <1>5
  <2>2. CASE f \in EventsOf(workerQueue[v], "pageLoaded")
    BY <2>1, <2>2 DEF LoadsActive
  <2>3. CASE v = w /\ f = e
    BY <1>4, <1>5, <1>7, <2>1, <2>3
  <2> QED
    BY <1>6, <2>2, <2>3
<1>10. \A v \in Workers : \A r : LoadsPage(v, r)' => LoadsPage(v, r)
  <2> SUFFICES ASSUME NEW v \in Workers, NEW r, LoadsPage(v, r)' PROVE LoadsPage(v, r)
    OBVIOUS
  <2>1. CASE \E l \in inFlight'[v] : l.page = r
    BY <1>5, <2>1 DEF LoadsPage
  <2>2. CASE \E f \in EventsOf(workerQueue[v], "pageLoaded")' : f.load.page = r
    BY <1>4, <1>6, <2>2 DEF LoadsPage
  <2> QED
    BY <2>1, <2>2 DEF LoadsPage
<1>11. activeUrlList' = activeUrlList
  BY DEF LoadingDone, storeVars, listVars
<1>12. /\ \A u, v \in Workers : \A r : LoadsPage(u, r)' /\ LoadsPage(v, r)' => u = v
       /\ \A v \in Workers : \A r : LoadsPage(v, r)' => r \in activeUrlList'
  BY <1>10, <1>11 DEF LoadsActive
<1> QED
  BY <1>8, <1>9, <1>12 DEF LoadsActive

(* A worker handles the answer: nobody else loads the page any more.       *)
LEMMA ResponseActive ==
  ASSUME PipelineTypeOK, LoadsActive, NEW w \in Workers, onLoadingDone(w)
  PROVE  LoadsActive'
<1>1. /\ workerQueue \in [Workers -> Seq(WorkerEvents)] /\ workerQueue[w] \in Seq(WorkerEvents)
      /\ workerQueue[w] # <<>> /\ Head(workerQueue[w]).event = "pageLoaded"
      /\ workerQueue' = [workerQueue EXCEPT ![w] = Tail(@)] /\ inFlight' = inFlight
  BY DEF PipelineTypeOK, WorkerShape, onLoadingDone, Event, Receives
<1>2. PICK e : e = Head(workerQueue[w])
  OBVIOUS
<1>3. PICK p : p = e.load.page
  OBVIOUS
<1>4. /\ \A v \in Workers : v # w => workerQueue'[v] = workerQueue[v]
      /\ workerQueue'[w] = Tail(workerQueue[w])
  BY <1>1
<1>5. /\ EventsOf(workerQueue[w], "pageLoaded") = EventsOf(Tail(workerQueue[w]), "pageLoaded") \union {e}
      /\ OncePerPage(Tail(workerQueue[w]))
      /\ \A f \in EventsOf(Tail(workerQueue[w]), "pageLoaded") : f.load.page # p
  BY <1>1, <1>2, <1>3, EventsOfQueue, OnceQueue DEF LoadsActive
<1>6. /\ \A v \in Workers : v # w => EventsOf(workerQueue[v], "pageLoaded")'
                                       = EventsOf(workerQueue[v], "pageLoaded")
      /\ EventsOf(workerQueue[w], "pageLoaded")' = EventsOf(Tail(workerQueue[w]), "pageLoaded")
  <2>1. \A v \in Workers : EventsOf(workerQueue[v], "pageLoaded")' = EventsOf(workerQueue'[v], "pageLoaded")
    BY DEF EventsOf, EventsAt
  <2> QED
    BY <1>4, <2>1
<1>7. \A v \in Workers : OncePerPage(workerQueue[v])'
  <2>1. \A v \in Workers : OncePerPage(workerQueue[v])' <=> OncePerPage(workerQueue'[v])
    BY DEF OncePerPage, EventsAt
  <2> QED
    BY <1>4, <1>5, <2>1 DEF LoadsActive
<1>8. LoadsPage(w, p)
  BY <1>3, <1>5 DEF LoadsPage
<1>9. \A v \in Workers : \A r : LoadsPage(v, r)' => LoadsPage(v, r)
  BY <1>1, <1>5, <1>6 DEF LoadsPage
<1>10. \A v \in Workers : ~LoadsPage(v, p)'
  <2>1. ASSUME NEW v \in Workers, LoadsPage(v, p)' PROVE FALSE
    <3>1. v = w
      BY <1>8, <1>9, <2>1 DEF LoadsActive
    <3>2. \A l \in inFlight[w] : l.page # p
      BY <1>3, <1>5 DEF LoadsActive
    <3> QED
      BY <1>1, <1>5, <1>6, <2>1, <3>1, <3>2 DEF LoadsPage
  <2> QED
    BY <2>1
<1>11. activeUrlList \ {p} \subseteq activeUrlList'
  BY <1>2, <1>3 DEF onLoadingDone, activeRequestReceived, storeVars, listVars
<1>12. \A v \in Workers : \A l \in inFlight'[v] :
         \A f \in EventsOf(workerQueue[v], "pageLoaded")' : l.page # f.load.page
  BY <1>1, <1>5, <1>6 DEF LoadsActive
<1>13. /\ \A u, v \in Workers : \A r : LoadsPage(u, r)' /\ LoadsPage(v, r)' => u = v
       /\ \A v \in Workers : \A r : LoadsPage(v, r)' => r \in activeUrlList'
  BY <1>9, <1>10, <1>11 DEF LoadsActive
<1> QED
  BY <1>7, <1>12, <1>13 DEF LoadsActive

(* Commands of the main thread leave the answers in the queues.            *)
LEMMA CommandsActive ==
  ASSUME PipelineTypeOK, LoadsActive, NEW w \in Workers,
         \/ start(w) \/ stop(w) \/ startCrawling \/ stopCrawling \/ decideCrawlingEnded
  PROVE  LoadsActive'
<1>1. /\ WorkerShape /\ workerQueue \in [Workers -> Seq(WorkerEvents)] /\ inFlight' = inFlight
  BY DEF PipelineTypeOK, WorkerShape, start, stop, startCrawling, stopCrawling, decideCrawlingEnded
<1>2. activeUrlList' = activeUrlList
  BY DEF start, stop, startCrawling, stopCrawling, decideCrawlingEnded, addUrlList, storeVars, listVars
<1>3. ASSUME NEW v \in Workers
      PROVE  \/ Told(v)
             \/ Receives(v, "stop") /\ workerQueue'[v] = Tail(workerQueue[v])
             \/ Receives(v, "start") /\ workerQueue'[v] = Tail(workerQueue[v])
  <2>1. CASE start(w)
    BY <1>1, <2>1 DEF start, Event, Told
  <2>2. CASE ~start(w)
    BY <1>1, <2>2, ControlTold
  <2> QED
    BY <2>1, <2>2
<1>4. \A v \in Workers :
        EventsOf(workerQueue'[v], "pageLoaded") = EventsOf(workerQueue[v], "pageLoaded")
  BY <1>1, <1>3, AnswersStay
<1>5. ASSUME NEW v \in Workers PROVE OncePerPage(workerQueue'[v])
  <2>1. workerQueue[v] \in Seq(WorkerEvents) /\ OncePerPage(workerQueue[v])
    BY <1>1 DEF LoadsActive
  <2>2. /\ \A e \in WorkerEvents : e.event \in {"start", "stop"} => OncePerPage(Append(workerQueue[v], e))
        /\ workerQueue[v] # <<>> => OncePerPage(Tail(workerQueue[v]))
    BY <2>1, OnceQueue
  <2> QED
    BY <1>3, <2>1, <2>2 DEF Told, Receives
<1> QED
  BY <1>1, <1>2, <1>4, <1>5, LoadsStay

(* No step of the first crawl takes a page off the active urls that loads. *)
LEMMA NextActive ==
  ASSUME PipelineTypeOK, StoreInv, FirstTurn, SourcesInv, LoadsActive,
         [Next]_pipelineVars, clears' = clears
  PROVE  LoadsActive'
<1>v. 1 \in Workers
  BY PipelineAssumption DEF Workers
<1>0. ~Clearing /\ clears \in Nat
  BY DEF FirstTurn, PipelineTypeOK, MainShape
<1>1. ~clearStore /\ ~clearData
  BY <1>0 DEF clearStore, clearData, Clearing
<1>2. ASSUME NEW v \in Workers PROVE ~workerClear(v)
  <2>1. EventsAt(workerQueue[v], "clear") = {} /\ workerQueue[v] \in Seq(WorkerEvents)
    BY DEF FirstTurn, FirstWorker, PipelineTypeOK, WorkerShape
  <2>2. workerQueue[v] # <<>> => 1 \in DOMAIN workerQueue[v] /\ Head(workerQueue[v]) = workerQueue[v][1]
    BY <2>1
  <2> QED
    BY <2>1, <2>2 DEF workerClear, Event, Receives, EventsAt
<1>3. ASSUME inFlight' = inFlight, workerQueue' = workerQueue, activeUrlList' = activeUrlList
      PROVE  LoadsActive'
  <2>1. \A v \in Workers : OncePerPage(workerQueue'[v])
    BY <1>3 DEF LoadsActive
  <2> QED
    BY <1>3, <2>1, LoadsStay
<1>4. ASSUME NEW w \in Workers, Worker(w) \/ LoadingDone(w) PROVE LoadsActive'
  <2>1. CASE ExtractDue(w) \/ extract(w)
    BY <2>1, ExtractActive DEF ExtractDue, extract
  <2>2. CASE LoadingDone(w)
    BY <2>2, LoadedActive
  <2>3. CASE onLoadingDone(w)
    BY <2>3, ResponseActive
  <2>4. CASE start(w) \/ stop(w)
    BY <2>4, CommandsActive
  <2>5. CASE addLinks(w) \/ emitResult(w) \/ count(w) \/ claimHop(w) \/ claimBlocked(w)
    BY <1>3, <2>5 DEF addLinks, emitResult, count, claimHop, claimBlocked, addUrlList, addCrawledUrl,
       storeVars, listVars
  <2> QED
    BY <1>2, <1>4, <2>1, <2>2, <2>3, <2>4, <2>5 DEF Worker
<1>5. CASE Model
  BY <1>3, <1>5 DEF Model, handleWorkerResult, modelAdd, modelAccept, modelCount, modelClear,
     storeVars, listVars, workerVars
<1>6. CASE startCrawling \/ stopCrawling \/ decideCrawlingEnded
  BY <1>v, <1>6, CommandsActive
<1>7. CASE MainQueue \/ onAboutCrawlingState \/ loadCounter \/ crawlerFinished
  BY <1>3, <1>7 DEF MainQueue, addParsedPage, onDataCleared, onAboutCrawlingState, loadCounter,
     crawlerFinished, storeVars, listVars, workerVars
<1>8. CASE UNCHANGED pipelineVars \/ AtRest
  BY <1>3, <1>8 DEF AtRest, pipelineVars, storeVars, listVars, workerVars
<1> QED
  BY <1>1, <1>4, <1>5, <1>6, <1>7, <1>8 DEF Next, User, MainStep

(* So each page that loads is active until the data is cleared.            *)
FirstActive == clears = 0 => LoadsActive

LEMMA ActiveHolds == ProjectSpec => []FirstActive
<1>1. ProjectInit => FirstActive
  <2> SUFFICES ASSUME ProjectInit PROVE LoadsActive
    BY DEF FirstActive
  <2>1. \A w \in Workers : inFlight[w] = {} /\ workerQueue[w] = <<>>
    BY DEF ProjectInit, Init
  <2>2. \A w \in Workers : EventsAt(workerQueue[w], "pageLoaded") = {}
    BY <2>1 DEF EventsAt
  <2> QED
    BY <2>1, <2>2 DEF LoadsActive, OncePerPage, LoadsPage, EventsOf
<1>2. /\ ProjectControl /\ UnloadedInv /\ FirstInv /\ FirstActive /\ [ProjectNext]_allVars
      => FirstActive'
  <2> SUFFICES ASSUME ProjectControl, UnloadedInv, FirstInv, FirstActive, [ProjectNext]_allVars,
                      clears' = 0
               PROVE  LoadsActive'
    BY DEF FirstActive
  <2>1. /\ clears = 0 /\ clears' = clears
        /\ [Next]_pipelineVars \/ Aside
    BY FirstSteps
  <2>2. StoreInv /\ FirstTurn /\ SourcesInv /\ LoadsActive
    BY <2>1 DEF FirstInv, CrawlInv, FirstActive
  <2>3. CASE [Next]_pipelineVars
    BY <2>1, <2>2, <2>3, NextActive DEF ProjectControl
  <2>4. CASE Aside
    <3>1. UNCHANGED <<storeVars, workerVars>>
      BY <2>4, AsideLeaves DEF ProjectControl
    <3>2. inFlight' = inFlight /\ workerQueue' = workerQueue /\ activeUrlList' = activeUrlList
      BY <3>1 DEF storeVars, listVars, workerVars
    <3>3. \A v \in Workers : OncePerPage(workerQueue'[v])
      BY <2>2, <3>2 DEF LoadsActive
    <3> QED
      BY <2>2, <3>2, <3>3, LoadsStay
  <2> QED
    BY <2>1, <2>3, <2>4
<1> QED
  BY <1>1, <1>2, FirstHolds, ProjectStopControl, PTL DEF ProjectSpec

(* When no worker is in the middle of a response, the two comparisons that *)
(* a save waits for are enough: whatever was handed out in the first crawl *)
(* is shown, or written down as pending because it still loads, for any    *)
(* site, any number of workers and of saves.                               *)
THEOREM SavesLoseNothing == ProjectSpec => []SaveConditionSound
<1>1. ProjectControl /\ FirstInv /\ FirstActive /\ ViewMatchesModel => SaveConditionSound
  <2> SUFFICES ASSUME ProjectControl, FirstInv, FirstActive, ViewMatchesModel, clears = 0,
                      isReadyForSerialization, \A w \in Workers : job[w] = NoJob,
                      NEW r \in (crawledUrlList \ pendingAndActiveUrls) \ Filtered
               PROVE  PageUrl[r] \in sequencedStorage
    BY DEF SaveConditionSound
  <2>1. PipelineTypeOK /\ FirstTurn /\ Balanced /\ AccountedInv /\ LoadsActive
    BY DEF ProjectControl, FirstInv, CrawlInv, FirstActive
  <2>2. DueCalls = {} /\ Results = {} /\ modelPc = Idle /\ DOMAIN mainQueue = {}
    BY <2>1, NothingToShow DEF isReadyForSerialization
  <2>3. ~Loading(r)
    <3>1. r \notin activeUrlList
      BY DEF pendingAndActiveUrls
    <3> QED
      BY <2>1, <3>1 DEF LoadsActive, Loading, LoadsPage
  <2>4. crawledStorage = sequencedStorage
    <3>1. mainPc \notin {"clearModel", "clearStore"}
      BY <2>1 DEF FirstTurn, Clearing
    <3>2. Counted(mainQueue, "cleared") = 0
      BY <2>1, NoneCleared DEF FirstTurn, FirstQueues
    <3> QED
      BY <2>2, <3>1, <3>2 DEF ViewMatchesModel
  <2>5. Stored = sequencedStorage
    BY <2>2, <2>4 DEF Stored, Adding, Idle
  <2> QED
    BY <2>1, <2>2, <2>3, <2>5 DEF AccountedInv, Accounted
<1> QED
  BY <1>1, ActiveHolds, FirstHolds, ProjectStopControl, ProjectViewFollowsModel, PTL
=============================================================================
