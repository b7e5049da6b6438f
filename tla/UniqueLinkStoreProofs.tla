------------------------ MODULE UniqueLinkStoreProofs ------------------------
(***************************************************************************)
(* Theorems about UniqueLinkStore for every finite set of requests, every  *)
(* trial cap and every set of limits.                                      *)
(***************************************************************************)

EXTENDS UniqueLinkStore, FiniteSetTheorems, TLAPS

(* The inductive invariant. The counters can be followed only while the    *)
(* lists are finite and disjoint, so the three parts stand together.       *)
StoreInv == StoreTypeOK /\ ListsConsistent /\ CountersExact

-----------------------------------------------------------------------------
(***************************************************************************)
(* Lemmas on the operators of the store.                                   *)
(***************************************************************************)

(* The store's lists are finite and their sizes are natural numbers. *)
LEMMA ListsFinite ==
  ASSUME StoreTypeOK
  PROVE  /\ IsFiniteSet(pendingUrlList) /\ Cardinality(pendingUrlList) \in Nat
         /\ IsFiniteSet(crawledUrlList) /\ Cardinality(crawledUrlList) \in Nat
         /\ countLinks \in Nat
BY StoreAssumption, FS_Subset, FS_CardinalityType, SMT
   DEF StoreTypeOK, countLinks

(* Fitting never lets in more links than there are, nor more than a limit  *)
(* that is in force leaves room for.                                       *)
LEMMA FittingBounds ==
  ASSUME StoreTypeOK, NEW n \in Nat
  PROVE  /\ Fitting(n) \in Nat /\ Fitting(n) <= n
         /\ limitCrawledLinksCount > 0 /\ Fitting(n) > 0 =>
              countLinks + Fitting(n) <= limitCrawledLinksCount
         /\ isTrialLicense /\ Fitting(n) > 0 => countLinks + Fitting(n) <= TrialCap
<1> DEFINE least(a, b) == IF a < b THEN a ELSE b
           room(cap) == IF cap > countLinks THEN cap - countLinks ELSE 0
           byOption == IF limitCrawledLinksCount > 0
                       THEN least(n, room(limitCrawledLinksCount)) ELSE n
<1>1. countLinks \in Nat /\ limitCrawledLinksCount \in Int /\ TrialCap \in Nat
  BY ListsFinite, StoreAssumption DEF StoreTypeOK
<1>2. /\ byOption \in Nat /\ byOption <= n
      /\ limitCrawledLinksCount > 0 /\ byOption > 0 =>
           countLinks + byOption <= limitCrawledLinksCount
  BY <1>1, SMT
<1>3. Fitting(n) = IF isTrialLicense THEN least(byOption, room(TrialCap))
                   ELSE byOption
  BY DEF Fitting
<1> QED
  BY <1>1, <1>2, <1>3, SMT

(* What the guard does to a counter when at most one element moves. *)
LEMMA GuardFollows ==
  ASSUME NEW S, IsFiniteSet(S), NEW x
  PROVE  /\ IncrementGuardExt(Cardinality(S), S, S \union {x})
              = Cardinality(S \union {x})
         /\ IncrementGuardExt(Cardinality(S), S, S \ {x})
              = Cardinality(S \ {x})
         /\ IncrementGuardExt(Cardinality(S), S, S) = Cardinality(S)
BY FS_AddElement, FS_RemoveElement, FS_CardinalityType, SMT
   DEF IncrementGuardExt

(* One element makes a size grow or shrink by at most one. *)
LEMMA OneElement ==
  ASSUME NEW S, IsFiniteSet(S), NEW x
  PROVE  /\ Cardinality(S \union {x}) \in Nat
         /\ Cardinality(S \union {x}) <= Cardinality(S) + 1
         /\ Cardinality(S \ {x}) \in Nat
         /\ Cardinality(S \ {x}) <= Cardinality(S)
BY FS_AddElement, FS_RemoveElement, FS_CardinalityType, SMT

(* Adding links that are not in the pending list. *)
LEMMA AddedCount ==
  ASSUME StoreTypeOK, NEW added \in SUBSET Requests,
         added \intersect pendingUrlList = {}
  PROVE  Cardinality(pendingUrlList \union added)
           = Cardinality(pendingUrlList) + Cardinality(added)
<1>1. IsFiniteSet(pendingUrlList) /\ IsFiniteSet(added)
  BY ListsFinite, StoreAssumption, FS_Subset
<1>2. pendingUrlList \intersect added = {}
  OBVIOUS
<1>3. /\ Cardinality(pendingUrlList) \in Nat /\ Cardinality(added) \in Nat
      /\ Cardinality({}) = 0
  BY <1>1, FS_CardinalityType, FS_EmptySet
<1>4. Cardinality(pendingUrlList \union added)
        = Cardinality(pendingUrlList) + Cardinality(added)
          - Cardinality(pendingUrlList \intersect added)
  BY <1>1, FS_Union, Zenon
<1>5. Cardinality(pendingUrlList \intersect added) = 0
  BY <1>2, <1>3, Zenon
<1> QED
  BY <1>3, <1>4, <1>5, SMT

-----------------------------------------------------------------------------
(***************************************************************************)
(* Type correctness, the lists and the counters.                           *)
(***************************************************************************)

LEMMA StoreInitInv == StoreInit => StoreInv
BY FS_EmptySet
   DEF StoreInit, EmptyStore, StoreInv, StoreTypeOK, ListsConsistent, CountersExact

(* Every call of the store keeps the invariant.                            *)
LEMMA StoreNextInv == StoreInv /\ [StoreNext]_storeVars => StoreInv'
<1> SUFFICES ASSUME StoreInv, [StoreNext]_storeVars PROVE StoreInv'
  OBVIOUS
<1> USE DEF StoreInv, StoreTypeOK, ListsConsistent, CountersExact
<1>0. IsFiniteSet(pendingUrlList) /\ IsFiniteSet(crawledUrlList)
  BY ListsFinite
<1>a. ASSUME CountersExact', pendingUrlList' \subseteq Requests,
             crawledUrlList' \subseteq Requests
      PROVE  /\ downloaderCrawledLinksCount' \in Nat
             /\ downloaderPendingLinksCount' \in Nat
  BY <1>a, StoreAssumption, FS_Subset, FS_CardinalityType
<1>1. ASSUME NEW urls \in SUBSET Requests, addUrlList(urls) PROVE StoreInv'
  <2>1. PICK added \in SUBSET (urls \ (pendingUrlList \union crawledUrlList)) :
          /\ pendingUrlList' = pendingUrlList \union added
          /\ downloaderPendingLinksCount' =
               downloaderPendingLinksCount + Cardinality(added)
    BY <1>1 DEF addUrlList, NewLinks
  <2>2. Cardinality(pendingUrlList')
          = Cardinality(pendingUrlList) + Cardinality(added)
    BY <2>1, AddedCount
  <2>3. pendingUrlList' \subseteq Requests /\ crawledUrlList' = crawledUrlList
    BY <1>1, <2>1 DEF addUrlList, NewLinks
  <2>4. CountersExact'
    BY <1>1, <2>1, <2>2 DEF addUrlList, NewLinks
  <2>5. /\ downloaderCrawledLinksCount' \in Nat
        /\ downloaderPendingLinksCount' \in Nat
    BY <1>a, <2>3, <2>4
  <2> QED
    BY <1>1, <2>1, <2>4, <2>5 DEF addUrlList, NewLinks, optionVars
<1>2. ASSUME NEW r \in Requests, extractUrl(r) PROVE StoreInv'
  <2>1. CountersExact'
    BY <1>0, <1>2, GuardFollows DEF extractUrl
  <2>2. /\ downloaderCrawledLinksCount' \in Nat
        /\ downloaderPendingLinksCount' \in Nat
    BY <1>a, <1>2, <2>1 DEF extractUrl
  <2> QED
    BY <1>2, <2>1, <2>2 DEF extractUrl, optionVars
<1>3. ASSUME NEW r \in Requests, addCrawledUrl(r) PROVE StoreInv'
  <2>1. CASE LimitReached
    <3>1. CountersExact'
      BY <1>0, <1>3, <2>1, GuardFollows DEF addCrawledUrl
    <3> QED
      BY <1>3, <2>1, <3>1 DEF addCrawledUrl, optionVars
  <2>2. CASE ~LimitReached
    <3>1. CountersExact'
      BY <1>0, <1>3, <2>2, GuardFollows DEF addCrawledUrl
    <3>2. /\ downloaderCrawledLinksCount' \in Nat
          /\ downloaderPendingLinksCount' \in Nat
      BY <1>a, <1>3, <2>2, <3>1 DEF addCrawledUrl
    <3> QED
      BY <1>3, <2>2, <3>1, <3>2 DEF addCrawledUrl, optionVars
  <2> QED
    BY <2>1, <2>2
<1>4. ASSUME NEW r \in Requests, activeRequestReceived(r) PROVE StoreInv'
  BY <1>4 DEF activeRequestReceived, optionVars, counterVars
<1>5. ASSUME NEW r \in Requests, addRefreshUrl(r) PROVE StoreInv'
  <2>1. Append(refreshUrlList, r) \in Seq(Requests)
    OBVIOUS
  <2> QED
    BY <1>5, <2>1 DEF addRefreshUrl, listVars, optionVars, counterVars
<1>6. CASE extractRefreshUrl
  <2>1. Tail(refreshUrlList) \in Seq(Requests)
    BY <1>6 DEF extractRefreshUrl
  <2> QED
    BY <1>6, <2>1 DEF extractRefreshUrl, listVars, optionVars, counterVars
<1>7. CASE clear
  BY <1>7, FS_EmptySet DEF clear, optionVars
<1>8. CASE clearPending
  BY <1>8, FS_EmptySet DEF clearPending, optionVars
<1>9. ASSUME NEW value \in Limits, setLimitCrawledLinksCount(value)
      PROVE StoreInv'
  BY <1>9, StoreAssumption DEF setLimitCrawledLinksCount, listVars, counterVars
<1>10. CASE licenseChanged
  BY <1>10 DEF licenseChanged, listVars, counterVars
<1>11. CASE UNCHANGED storeVars
  BY <1>11 DEF storeVars, listVars, optionVars, counterVars
<1> QED
  BY <1>1, <1>2, <1>3, <1>4, <1>5, <1>6, <1>7, <1>8, <1>9, <1>10, <1>11
     DEF StoreNext

(* In every reachable state the lists are disjoint and well typed and the  *)
(* shared counters are exact, whatever the limits and the order of calls.  *)
THEOREM StoreAlwaysConsistent == StoreSpec => []StoreInv
<1>1. StoreInit => StoreInv
  BY StoreInitInv
<1>2. StoreInv /\ [StoreNext]_storeVars => StoreInv'
  BY StoreNextInv
<1> QED
  BY <1>1, <1>2, PTL DEF StoreSpec

(* The store's type invariant, for every value of the constants. *)
THEOREM StoreTypeCorrect == StoreSpec => []StoreTypeOK
<1>1. StoreInv => StoreTypeOK
  BY DEF StoreInv
<1> QED
  BY <1>1, StoreAlwaysConsistent, PTL

(* No pending request was ever handed out: extractUrl's DEBUG_ASSERT holds *)
(* in every run in which no project is loaded.                             *)
THEOREM PendingNeverCrawled == StoreSpec => []ListsConsistent
<1>1. StoreInv => ListsConsistent
  BY DEF StoreInv
<1> QED
  BY <1>1, StoreAlwaysConsistent, PTL

(* The counters other threads read equal the sizes of the store's sets. *)
THEOREM CountersAlwaysExact == StoreSpec => []CountersExact
<1>1. StoreInv => CountersExact
  BY DEF StoreInv
<1> QED
  BY <1>1, StoreAlwaysConsistent, PTL
-----------------------------------------------------------------------------
(***************************************************************************)
(* The limits.                                                             *)
(***************************************************************************)

(* What LimitRespected says of one step. *)
GrowthWithinLimits ==
  countLinks' > countLinks =>
    /\ limitCrawledLinksCount > 0 => countLinks' <= limitCrawledLinksCount
    /\ isTrialLicense => countLinks' <= TrialCap

(* A single step of the store keeps within the limits in force. *)
LEMMA StepWithinLimits ==
  ASSUME StoreInv, StoreNext
  PROVE  GrowthWithinLimits
<1> USE DEF StoreInv, ListsConsistent
<1>0. /\ IsFiniteSet(pendingUrlList) /\ IsFiniteSet(crawledUrlList)
      /\ Cardinality(pendingUrlList) \in Nat /\ Cardinality(crawledUrlList) \in Nat
      /\ countLinks \in Nat /\ countLinks' = Cardinality(pendingUrlList')
                                           + Cardinality(crawledUrlList')
      /\ countLinks = Cardinality(pendingUrlList) + Cardinality(crawledUrlList)
  BY ListsFinite DEF countLinks
<1>1. ASSUME NEW urls \in SUBSET Requests, addUrlList(urls)
      PROVE  GrowthWithinLimits
  <2> DEFINE new == urls \ (pendingUrlList \union crawledUrlList)
  <2>1. PICK added \in SUBSET new :
          /\ Cardinality(added) = Fitting(Cardinality(new))
          /\ pendingUrlList' = pendingUrlList \union added
    BY <1>1 DEF addUrlList, NewLinks
  <2>2. Cardinality(new) \in Nat /\ Cardinality(added) \in Nat
    BY StoreAssumption, FS_Subset, FS_CardinalityType, <2>1
  <2>3. countLinks' = countLinks + Fitting(Cardinality(new))
    <3>1. Cardinality(pendingUrlList') = Cardinality(pendingUrlList)
                                         + Cardinality(added)
      BY <2>1, AddedCount
    <3>2. crawledUrlList' = crawledUrlList
      BY <1>1 DEF addUrlList, NewLinks
    <3> QED
      BY <1>0, <2>1, <2>2, <3>1, <3>2
  <2> HIDE DEF new
  <2>4. limitCrawledLinksCount \in Int /\ TrialCap \in Nat
    BY StoreAssumption DEF StoreTypeOK
  <2> QED
    BY <1>0, <2>2, <2>3, <2>4, FittingBounds DEF GrowthWithinLimits
<1>2. ASSUME NEW r \in Requests, extractUrl(r) PROVE GrowthWithinLimits
  <2>1. /\ Cardinality(pendingUrlList') = Cardinality(pendingUrlList) - 1
        /\ Cardinality(crawledUrlList') = Cardinality(crawledUrlList) + 1
    BY <1>0, <1>2, FS_AddElement, FS_RemoveElement DEF extractUrl
  <2> QED
    BY <1>0, <2>1 DEF GrowthWithinLimits
<1>3. ASSUME NEW r \in Requests, addCrawledUrl(r) PROVE GrowthWithinLimits
  <2>1. CASE LimitReached
    BY <1>0, <1>3, <2>1 DEF addCrawledUrl, GrowthWithinLimits
  <2>2. CASE ~LimitReached
    <3>1. /\ pendingUrlList' = pendingUrlList \ {r}
          /\ crawledUrlList' = crawledUrlList \union {r}
      BY <1>3, <2>2 DEF addCrawledUrl
    <3>2. /\ Cardinality(pendingUrlList') <= Cardinality(pendingUrlList)
          /\ Cardinality(pendingUrlList') \in Nat
          /\ Cardinality(crawledUrlList') <= Cardinality(crawledUrlList) + 1
          /\ Cardinality(crawledUrlList') \in Nat
      BY <1>0, <3>1, OneElement
    <3>3. limitCrawledLinksCount \in Int /\ TrialCap \in Nat
      BY StoreAssumption DEF StoreTypeOK
    <3> QED
      BY <1>0, <2>2, <3>2, <3>3 DEF LimitReached, GrowthWithinLimits
  <2> QED
    BY <2>1, <2>2
<1>4. CASE clear \/ clearPending
  <2>1. /\ Cardinality({}) = 0
        /\ pendingUrlList' = {} /\ crawledUrlList' \in {{}, crawledUrlList}
    BY <1>4, FS_EmptySet DEF clear, clearPending
  <2> QED
    BY <1>0, <2>1 DEF GrowthWithinLimits
<1>5. CASE UNCHANGED <<pendingUrlList, crawledUrlList>>
  BY <1>0, <1>5 DEF GrowthWithinLimits
<1> QED
  BY <1>1, <1>2, <1>3, <1>4, <1>5
     DEF StoreNext, activeRequestReceived, addRefreshUrl, extractRefreshUrl,
         setLimitCrawledLinksCount, licenseChanged, listVars

(* No call makes the store outgrow a limit in force, for any limits, any   *)
(* number of requests and any order of calls and changes of the options.   *)
THEOREM LimitsAlwaysRespected == StoreSpec => LimitRespected
<1>1. StoreInv /\ [StoreNext]_storeVars => [GrowthWithinLimits]_storeVars
  BY StepWithinLimits
<1>2. LimitRespected <=> [][GrowthWithinLimits]_storeVars
  BY DEF LimitRespected, GrowthWithinLimits
<1> QED
  BY <1>1, <1>2, StoreAlwaysConsistent, PTL DEF StoreSpec

-----------------------------------------------------------------------------
(***************************************************************************)
(* The store implements UniqueWork.                                        *)
(***************************************************************************)

(* Every step of the store is a step of UniqueWork, or changes nothing it  *)
(* can see.                                                                *)
LEMMA StepRefines ==
  ASSUME StoreInv, [StoreNext]_storeVars
  PROVE  [Work!WorkNext]_(Work!workVars)
<1> USE DEF StoreInv, StoreTypeOK, ListsConsistent, Work!WorkNext, Work!workVars
<1>1. ASSUME NEW urls \in SUBSET Requests, addUrlList(urls)
      PROVE  Work!WorkNext
  <2>1. PICK added \in SUBSET (urls \ (pendingUrlList \union crawledUrlList)) :
          pendingUrlList' = pendingUrlList \union added
    BY <1>1 DEF addUrlList, NewLinks
  <2>2. Work!Offer(added)
    BY <1>1, <2>1 DEF addUrlList, NewLinks, Work!Offer
  <2> QED
    BY <2>1, <2>2
<1>2. ASSUME NEW r \in Requests, extractUrl(r) PROVE Work!WorkNext
  <2>1. Work!Take(r)
    BY <1>2 DEF extractUrl, Work!Take
  <2> QED
    BY <2>1
<1>3. ASSUME NEW r \in Requests, addCrawledUrl(r)
      PROVE  [Work!WorkNext]_(Work!workVars)
  <2>1. CASE LimitReached \/ r \in crawledUrlList
    BY <1>3, <2>1 DEF addCrawledUrl
  <2>2. CASE ~LimitReached /\ r \notin crawledUrlList
    <3>1. Work!Claim(r)
      BY <1>3, <2>2 DEF addCrawledUrl, Work!Claim
    <3> QED
      BY <3>1
  <2> QED
    BY <2>1, <2>2
<1>4. CASE clear
  BY <1>4 DEF clear, Work!Reset
<1>5. CASE clearPending
  BY <1>5 DEF clearPending, Work!Withdraw
<1>6. CASE UNCHANGED <<pendingUrlList, crawledUrlList>>
  BY <1>6
<1> QED
  BY <1>1, <1>2, <1>3, <1>4, <1>5, <1>6
     DEF StoreNext, storeVars, listVars, activeRequestReceived, addRefreshUrl,
         extractRefreshUrl, setLimitCrawledLinksCount, licenseChanged

(* Between two clears no request is handed out or claimed twice: the store *)
(* implements UniqueWork, whatever the limits do meanwhile.                *)
THEOREM StoreImplementsUniqueWork == StoreSpec => HandedOutOnce
<1>1. StoreInit => Work!WorkInit
  BY DEF StoreInit, EmptyStore, Work!WorkInit
<1>2. StoreInv /\ [StoreNext]_storeVars => [Work!WorkNext]_(Work!workVars)
  BY StepRefines
<1> QED
  BY <1>1, <1>2, StoreAlwaysConsistent, PTL
     DEF StoreSpec, HandedOutOnce, Work!WorkSpec
=============================================================================
