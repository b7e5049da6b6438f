--------------------------- MODULE UniqueLinkStore ---------------------------
(***************************************************************************)
(* The store of urls shared by every crawler worker: which requests wait,  *)
(* which were ever handed to a worker (crawled), which of those are being  *)
(* downloaded (active), and which pages the user asked to load again.      *)
(*                                                                         *)
(* Every public method holds one recursive mutex from its first line to    *)
(* its last, so a method is one action here; setLimitCrawledLinksCount     *)
(* takes no lock and writes one integer, which is one action as well. The  *)
(* two counters that other threads read without the lock belong to         *)
(* CrawlerSharedState: the store moves them as its sets grow and shrink.   *)
(***************************************************************************)

EXTENDS Integers, FiniteSets, Sequences

CONSTANTS
  Requests,   (* CrawlerRequest: pairs of a url and a request type.        *)
  TrialCap,   (* c_maxTrialLicenseCrawlingLinksCount.                      *)
  Limits,     (* The values of the "limit search total" option.            *)
  MaxRefreshUrls  (* Bound of the model on queued page refreshes.          *)

ASSUME StoreAssumption ==
  /\ IsFiniteSet(Requests)
  /\ TrialCap \in Nat
  /\ Limits \subseteq Int
  /\ MaxRefreshUrls \in Nat

VARIABLES
  pendingUrlList, crawledUrlList, activeUrlList,
  refreshUrlList,
  limitCrawledLinksCount,
  isTrialLicense,
  downloaderCrawledLinksCount, downloaderPendingLinksCount

listVars    == <<pendingUrlList, crawledUrlList, activeUrlList>>
counterVars == <<downloaderCrawledLinksCount, downloaderPendingLinksCount>>
optionVars  == <<limitCrawledLinksCount, isTrialLicense>>
storeVars   == <<listVars, refreshUrlList, optionVars, counterVars>>

EmptyStore ==
  /\ pendingUrlList = {} /\ crawledUrlList = {} /\ activeUrlList = {}
  /\ refreshUrlList = <<>>
  /\ downloaderCrawledLinksCount = 0 /\ downloaderPendingLinksCount = 0

StoreInit ==
  /\ EmptyStore
  /\ limitCrawledLinksCount = -1
  /\ isTrialLicense \in BOOLEAN

-----------------------------------------------------------------------------
(***************************************************************************)
(* Limits.                                                                 *)
(***************************************************************************)

countLinks == Cardinality(pendingUrlList) + Cardinality(crawledUrlList)

(* A mutant of LimitReached: one link too many. *)
LimitReachedLate ==
  \/ limitCrawledLinksCount > 0 /\ countLinks > limitCrawledLinksCount
  \/ isTrialLicense /\ countLinks > TrialCap

(* The store takes no further link: either limit is reached. *)
LimitReached ==
  \/ limitCrawledLinksCount > 0 /\ countLinks >= limitCrawledLinksCount
  \/ isTrialLicense /\ countLinks >= TrialCap

(* Of n new links, how many still fit when they are added one by one. *)
Fitting(n) ==
  LET least(a, b) == IF a < b THEN a ELSE b
      room(cap)   == IF cap > countLinks THEN cap - countLinks ELSE 0
      byOption    == IF limitCrawledLinksCount > 0
                     THEN least(n, room(limitCrawledLinksCount)) ELSE n
  IN  IF isTrialLicense THEN least(byOption, room(TrialCap)) ELSE byOption

(* Mutants of IncrementGuardExt: it counts down when nothing changed; it   *)
(* never counts down.                                                      *)
GuardDecrements(count, before, after) ==
  count + (IF Cardinality(after) > Cardinality(before) THEN 1 ELSE -1)
GuardOnlyIncrements(count, before, after) ==
  count + (IF Cardinality(after) > Cardinality(before) THEN 1 ELSE 0)

(* The guard that moves a shared counter when a locked section is left. *)
IncrementGuardExt(count, before, after) ==
  count + (IF Cardinality(after) > Cardinality(before) THEN 1
           ELSE IF Cardinality(after) < Cardinality(before) THEN -1 ELSE 0)

-----------------------------------------------------------------------------
(***************************************************************************)
(* The public methods.                                                     *)
(***************************************************************************)

(* A mutant of NewLinks: what was crawled is new again. *)
NewLinksForgetCrawled(urls) == urls \ pendingUrlList

(* Of a list, the links the store does not know. *)
NewLinks(urls) == urls \ (pendingUrlList \union crawledUrlList)

(* addUrl, and addUrlList and addLinkList, which call it for each element: *)
(* which links of a list get in before a limit stops it depends on their   *)
(* order, and the order is not the store's to know.                        *)
addUrlList(urls) ==
  \E added \in SUBSET NewLinks(urls) :
    /\ Cardinality(added) = Fitting(Cardinality(NewLinks(urls)))
    /\ pendingUrlList' = pendingUrlList \union added
    /\ downloaderPendingLinksCount' =
         downloaderPendingLinksCount + Cardinality(added)
    /\ UNCHANGED <<crawledUrlList, activeUrlList, refreshUrlList, optionVars,
                   downloaderCrawledLinksCount>>

(* Any pending request: the set has no order. *)
extractUrl(r) ==
  /\ r \in pendingUrlList
  /\ crawledUrlList' = crawledUrlList \union {r}
  /\ activeUrlList' = activeUrlList \union {r}
  /\ pendingUrlList' = pendingUrlList \ {r}
  /\ downloaderCrawledLinksCount' =
       IncrementGuardExt(downloaderCrawledLinksCount,
                         crawledUrlList, crawledUrlList')
  /\ downloaderPendingLinksCount' =
       IncrementGuardExt(downloaderPendingLinksCount,
                         pendingUrlList, pendingUrlList')
  /\ UNCHANGED <<refreshUrlList, optionVars>>

(* A mutant of addCrawledUrlReturns: a limit does not refuse the claim. *)
ClaimIgnoresLimit(r) == r \notin crawledUrlList \/ r \in pendingUrlList

(* What addCrawledUrl returns. *)
addCrawledUrlReturns(r) ==
  ~LimitReached /\ (r \notin crawledUrlList \/ r \in pendingUrlList)

addCrawledUrl(r) ==
  /\ crawledUrlList' =
       IF LimitReached THEN crawledUrlList ELSE crawledUrlList \union {r}
  /\ pendingUrlList' =
       IF LimitReached THEN pendingUrlList ELSE pendingUrlList \ {r}
  /\ downloaderCrawledLinksCount' =
       IncrementGuardExt(downloaderCrawledLinksCount,
                         crawledUrlList, crawledUrlList')
  /\ downloaderPendingLinksCount' =
       IncrementGuardExt(downloaderPendingLinksCount,
                         pendingUrlList, pendingUrlList')
  /\ UNCHANGED <<activeUrlList, refreshUrlList, optionVars>>

(* A mutant of activeRequestReceived: the request stays active. *)
ActiveForever(r) == UNCHANGED storeVars

activeRequestReceived(r) ==
  /\ activeUrlList' = activeUrlList \ {r}
  /\ UNCHANGED <<pendingUrlList, crawledUrlList, refreshUrlList, optionVars,
                 counterVars>>

addRefreshUrl(r) ==
  /\ refreshUrlList' = Append(refreshUrlList, r)
  /\ UNCHANGED <<listVars, optionVars, counterVars>>

extractRefreshUrl ==
  /\ refreshUrlList # <<>>
  /\ refreshUrlList' = Tail(refreshUrlList)
  /\ UNCHANGED <<listVars, optionVars, counterVars>>

pendingAndActiveUrls == pendingUrlList \union activeUrlList

clear ==
  /\ pendingUrlList' = {} /\ crawledUrlList' = {} /\ activeUrlList' = {}
  /\ refreshUrlList' = <<>>
  /\ downloaderCrawledLinksCount' = 0 /\ downloaderPendingLinksCount' = 0
  /\ UNCHANGED optionVars

clearPending ==
  /\ pendingUrlList' = {}
  /\ downloaderPendingLinksCount' = 0
  /\ UNCHANGED <<crawledUrlList, activeUrlList, refreshUrlList, optionVars,
                 downloaderCrawledLinksCount>>

(* setCrawledUrls and setPendingUrls, with the counters their only caller  *)
(* sets right after them; neither looks at the active list.                *)
setUrls(crawled, pending) ==
  /\ crawledUrlList' = crawled /\ pendingUrlList' = pending
  /\ downloaderCrawledLinksCount' = Cardinality(crawled)
  /\ downloaderPendingLinksCount' = Cardinality(pending)
  /\ UNCHANGED <<activeUrlList, refreshUrlList, optionVars>>

setLimitCrawledLinksCount(value) ==
  /\ limitCrawledLinksCount' = value
  /\ UNCHANGED <<listVars, refreshUrlList, isTrialLicense, counterVars>>

(* The licence observer's answer changes while the program runs. *)
licenseChanged ==
  /\ isTrialLicense' = ~isTrialLicense
  /\ UNCHANGED <<listVars, refreshUrlList, limitCrawledLinksCount, counterVars>>

-----------------------------------------------------------------------------
(***************************************************************************)
(* The store on its own, called by anyone in any order. setUrls is left to *)
(* ProjectRoundTrip: its arguments are lists a store saved earlier.        *)
(***************************************************************************)

StoreNext ==
  \/ \E urls \in SUBSET Requests : addUrlList(urls)
  \/ \E r \in Requests :
       \/ extractUrl(r)
       \/ addCrawledUrl(r)
       \/ activeRequestReceived(r)
       \/ Len(refreshUrlList) < MaxRefreshUrls /\ addRefreshUrl(r)
  \/ extractRefreshUrl
  \/ clear \/ clearPending
  \/ \E value \in Limits : setLimitCrawledLinksCount(value)
  \/ licenseChanged

StoreSpec == StoreInit /\ [][StoreNext]_storeVars

-----------------------------------------------------------------------------
(***************************************************************************)
(* Properties.                                                             *)
(***************************************************************************)

(* The lists hold requests, and no counter ever drops below zero.          *)
StoreTypeOK ==
  /\ pendingUrlList \subseteq Requests
  /\ crawledUrlList \subseteq Requests
  /\ activeUrlList \subseteq Requests
  /\ refreshUrlList \in Seq(Requests)
  /\ limitCrawledLinksCount \in Int
  /\ isTrialLicense \in BOOLEAN
  /\ downloaderCrawledLinksCount \in Nat
  /\ downloaderPendingLinksCount \in Nat

(* A request that is waiting was never handed to a worker, which is what   *)
(* the DEBUG_ASSERT of extractUrl demands of the one it takes; and what is *)
(* being downloaded counts as crawled.                                     *)
ListsConsistent ==
  /\ pendingUrlList \intersect crawledUrlList = {}
  /\ activeUrlList \subseteq crawledUrlList

(* The counters that other threads read without the mutex are the sizes of *)
(* the sets: each guard saw exactly one change, and the resets forgot none.*)
CountersExact ==
  /\ downloaderCrawledLinksCount = Cardinality(crawledUrlList)
  /\ downloaderPendingLinksCount = Cardinality(pendingUrlList)

(* No call makes the store outgrow the limit option or the trial licence,  *)
(* whatever was lowered in the meantime and however long the list was.     *)
LimitRespected ==
  [][countLinks' > countLinks =>
       /\ limitCrawledLinksCount > 0 => countLinks' <= limitCrawledLinksCount
       /\ isTrialLicense => countLinks' <= TrialCap]_storeVars

(* No request is handed to a worker, or claimed by one, twice between two  *)
(* clears, in any order of calls.                                          *)
Work == INSTANCE UniqueWork WITH todo <- pendingUrlList, taken <- crawledUrlList
HandedOutOnce == Work!WorkSpec
=============================================================================
